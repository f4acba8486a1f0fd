---------------------------- MODULE DirIngestion ----------------------------
(* The directory watcher implements Ingestion. *)
EXTENDS DirWatcher

\* The offset at which a scan would resume the file now at a path.
ResumeAt(p) == ResumeOffset(fileState[p], dir[p], len[dir[p]], Fingerprint(dir[p]))

LinesUpTo(p, offset) == {l \in Lines : l[1] = gen[dir[p]] /\ l[2] * LineLen <= offset}

Linked == {p \in Paths : dir[p] # NoFile}

\* The lines written to the files the pattern matches, and those among them
\* that no scan would read again.
Written  == UNION {LinesUpTo(p, len[dir[p]]) : p \in Linked}
PassedBy == UNION {LinesUpTo(p, ResumeAt(p)) : p \in Linked}

Shipper == INSTANCE Ingestion WITH
    available <- Written, arrived <- requests, covered <- PassedBy

\* One watcher on the live log ships at least once and keeps its place: under
\* rotation out of the pattern, copytruncate, reused inodes, failed calls and
\* crashes it inserts only lines its row does not cover, its row covers only
\* lines that are in the table, and a row loses a line only with the line's file.
ShipsAtLeastOnce == Shipper!Spec
=============================================================================
