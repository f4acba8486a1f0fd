----------------------------- MODULE DirWatcher -----------------------------
(***************************************************************************)
(* The directory watcher (internal/watcher/dir.go): a loop that scans the  *)
(* files matching a pattern, resumes each one at the offset recorded in    *)
(* the file_state table, inserts the new lines in batches and then moves   *)
(* the recorded offset.  Nothing makes those steps atomic: the log writer  *)
(* appends, rotates and truncates between any two of them, and the process *)
(* may die between a committed batch and the checkpoint that covers it.    *)
(*                                                                         *)
(* A file is a sequence of chunks, LineLen of them to a line.  What a file *)
(* holds is named by a generation: truncating or recreating it starts a    *)
(* new one.  Line i of generation g is <<g, i>>.                           *)
(***************************************************************************)
EXTENDS Integers, FiniteSets

CONSTANTS
    Watchers,      \* running DirWatchers whose sources match these paths
    Depth,         \* the pattern matches the live log, path 0, and its renamed
                   \* successors 1..Depth (access.log, access.log.1, ...)
    Inodes,        \* inodes of the log filesystem, reused once free
    LineLen,       \* chunks per line; 1 when the writer writes whole lines
    FPLen,         \* chunks covered by storage.FingerprintSize bytes
    BatchSize,     \* batchSize in consumeRange
    Oversized,     \* lines longer than the scanner's 1 MiB buffer
    UniqueHeads,   \* FALSE if all files start with the same FPLen chunks
    StatWindow,    \* TRUE if a file may become empty between Stat and
                   \* readFingerprint
    NoFile, NoRow, \* no directory entry; no file_state row
    MaxGen,        \* bound on generations
    MaxLen,        \* bound on the chunks of one generation
    MaxErrors,     \* bound on failed calls
    MaxCrashes     \* bound on crashes

ASSUME WatcherConstants ==
    /\ IsFiniteSet(Watchers) /\ Depth \in Nat
    /\ LineLen \in Nat \ {0} /\ FPLen \in Nat \ {0} /\ BatchSize \in Nat \ {0}
    /\ MaxGen \in Nat /\ MaxLen \in Nat /\ MaxErrors \in Nat /\ MaxCrashes \in Nat
    /\ UniqueHeads \in BOOLEAN /\ StatWindow \in BOOLEAN
    /\ NoFile \notin Inodes

Paths == 0..Depth
Gens  == 1..MaxGen
Lines == Gens \X (1..MaxLen)

Fingerprints == [head : 0..MaxGen, n : 0..FPLen]
FileStates   == [inode : Inodes, size : 0..MaxLen, offset : 0..MaxLen,
                 fingerprint : Fingerprints]

ASSUME RowSentinel == NoRow \notin FileStates

VARIABLES
    dir,       \* the directory: the inode at each path, or NoFile
    gen,       \* what each inode holds: its generation ...
    len,       \* ... and how many of its chunks are written
    lastGen,   \* generations started so far
    requests,  \* copies of each line in the requests table
    fileState, \* the file_state row of each path, or NoRow
    pc,        \* where each watcher is in handleFile; "idle" between files
    todo,      \* paths its current scan has still to visit
    path,      \* handleFile's argument,
    info,      \* the inode and size os.Stat returned,
    prev,      \* the row GetFileState returned,
    curFP,     \* the fingerprint readFingerprint returned,
    fd,        \* the inode consumeRange has open,
    pos,       \* the offset it has read up to,
    batch,     \* the lines read and not yet inserted,
    eof,       \* whether the scanner met the end of the file
    errors,    \* failed calls so far
    crashes,   \* crashes so far
    raced,     \* times a file was replaced while a watcher handled it
    again      \* of each generation, the handlings that left or began a second
               \* reading of its lines, with no fault (only properties read it)

fsVars == <<dir, gen, len, lastGen>>
dbVars == <<requests, fileState>>
counts == <<errors, crashes, raced, again>>
locals == <<path, info, prev, curFP, fd, pos, batch, eof>>
vars   == <<fsVars, dbVars, pc, todo, locals, counts>>

Steps == {"idle", "state", "head", "refresh", "open", "read", "insert", "upsert"}

TypeOK ==
    /\ dir \in [Paths -> Inodes \cup {NoFile}]
    /\ gen \in [Inodes -> 0..MaxGen]
    /\ len \in [Inodes -> 0..MaxLen]
    /\ lastGen \in 0..MaxGen
    /\ requests \in [Lines -> Nat]
    /\ fileState \in [Paths -> FileStates \cup {NoRow}]
    /\ pc \in [Watchers -> Steps]
    /\ todo \in [Watchers -> SUBSET Paths]
    /\ path \in [Watchers -> Paths]
    /\ info \in [Watchers -> [inode : Inodes \cup {NoFile}, size : 0..MaxLen]]
    /\ prev \in [Watchers -> FileStates \cup {NoRow}]
    /\ curFP \in [Watchers -> Fingerprints]
    /\ fd \in [Watchers -> Inodes \cup {NoFile}]
    /\ pos \in [Watchers -> 0..MaxLen]
    /\ batch \in [Watchers -> SUBSET Lines]
    /\ eof \in [Watchers -> BOOLEAN]
    /\ errors \in 0..MaxErrors
    /\ crashes \in 0..MaxCrashes
    /\ raced \in Nat
    /\ again \in [Gens -> Nat]

NoInfo == [inode |-> NoFile, size |-> 0]
NoFP   == [head |-> 0, n |-> 0]

Init ==
    /\ dir = [p \in Paths |-> NoFile]
    /\ gen = [i \in Inodes |-> 0]
    /\ len = [i \in Inodes |-> 0]
    /\ lastGen = 0
    /\ requests = [l \in Lines |-> 0]
    /\ fileState = [p \in Paths |-> NoRow]
    /\ pc = [w \in Watchers |-> "idle"]
    /\ todo = [w \in Watchers |-> {}]
    /\ path = [w \in Watchers |-> 0]
    /\ info = [w \in Watchers |-> NoInfo]
    /\ prev = [w \in Watchers |-> NoRow]
    /\ curFP = [w \in Watchers |-> NoFP]
    /\ fd = [w \in Watchers |-> NoFile]
    /\ pos = [w \in Watchers |-> 0]
    /\ batch = [w \in Watchers |-> {}]
    /\ eof = [w \in Watchers |-> FALSE]
    /\ errors = 0
    /\ crashes = 0
    /\ raced = 0
    /\ again = [g \in Gens |-> 0]

-----------------------------------------------------------------------------
(* The log writer and logrotate: the watcher's environment.                *)

\* Watchers that have begun handleFile on p and not finished it.
Handling(p) == {w \in Watchers : pc[w] # "idle" /\ path[w] = p}

\* Whether the file at p may be replaced now by one that is empty.
MayEmpty(p) ==
    \/ StatWindow
    \/ \A w \in Handling(p) : pc[w] \in {"state", "head"} => info[w].size = 0

\* A file is replaced under the watchers that are handling its path.
Replaced(p) == raced' = raced + Cardinality(Handling(p))

\* The writer adds a chunk to a log, the live one or one renamed under it.
Append(p) ==
    /\ dir[p] # NoFile /\ len[dir[p]] < MaxLen
    /\ len' = [len EXCEPT ![dir[p]] = @ + 1]
    /\ UNCHANGED <<dir, gen, lastGen, dbVars, pc, todo, locals, counts>>

\* The writer opens a new live log, on any inode that is neither linked nor open.
Create(i) ==
    /\ dir[0] = NoFile /\ lastGen < MaxGen
    /\ \A p \in Paths : dir[p] # i
    /\ \A w \in Watchers : fd[w] # i
    /\ MayEmpty(0)
    /\ lastGen' = lastGen + 1
    /\ dir' = [dir EXCEPT ![0] = i]
    /\ gen' = [gen EXCEPT ![i] = lastGen + 1]
    /\ len' = [len EXCEPT ![i] = 0]
    /\ UNCHANGED <<dbVars, pc, todo, locals, counts>>

\* logrotate renames a log to the next name; past Depth it leaves the pattern.
Rotate(p) ==
    /\ dir[p] # NoFile
    /\ p + 1 \in Paths => MayEmpty(p + 1)
    /\ dir' = [q \in Paths |-> IF q = p THEN NoFile
                               ELSE IF q = p + 1 THEN dir[p] ELSE dir[q]]
    /\ raced' = raced + Cardinality(Handling(p) \cup Handling(p + 1))
    /\ UNCHANGED <<gen, len, lastGen, dbVars, pc, todo, locals, errors, crashes, again>>

\* logrotate's copytruncate: the live log is emptied in place.
CopyTruncate ==
    /\ dir[0] # NoFile /\ lastGen < MaxGen
    /\ MayEmpty(0)
    /\ lastGen' = lastGen + 1
    /\ gen' = [gen EXCEPT ![dir[0]] = lastGen + 1]
    /\ len' = [len EXCEPT ![dir[0]] = 0]
    /\ Replaced(0)
    /\ UNCHANGED <<dir, dbVars, pc, todo, locals, errors, crashes, again>>

-----------------------------------------------------------------------------
(* The watcher.                                                            *)

\* readFingerprint: the leading FPLen chunks, fewer if the file is shorter.
Fingerprint(i) ==
    LET n == IF len[i] < FPLen THEN len[i] ELSE FPLen
    IN  [head |-> IF n > 0 /\ UniqueHeads THEN gen[i] ELSE 0, n |-> n]

\* Mutant: in-place rewrites are not looked for.
ResumeOffsetNoFingerprint(row, inode, size, fp) ==
    IF row = NoRow \/ row.inode # inode \/ size < row.offset THEN 0 ELSE row.offset

\* handleFile's switch: where to resume a file of this inode, size and
\* fingerprint, given the row its path has.
ResumeOffset(row, inode, size, fp) ==
    IF \/ row = NoRow
       \/ row.inode # inode
       \/ size < row.offset
       \/ row.fingerprint.n > 0 /\ fp # row.fingerprint
    THEN 0
    ELSE row.offset

\* The lines a scanner yields whole when it reads the chunks from+1..to of
\* generation g.  A line cut at either end is a token Parse rejects.
LinesIn(g, from, to) ==
    {l \in Lines : l[1] = g /\ from <= (l[2] - 1) * LineLen /\ l[2] * LineLen <= to}

\* handleFile returns, and its locals with it; the walk goes on.
Return(w) ==
    /\ pc' = [pc EXCEPT ![w] = "idle"]
    /\ path' = [path EXCEPT ![w] = 0]
    /\ info' = [info EXCEPT ![w] = NoInfo]
    /\ prev' = [prev EXCEPT ![w] = NoRow]
    /\ curFP' = [curFP EXCEPT ![w] = NoFP]
    /\ fd' = [fd EXCEPT ![w] = NoFile]
    /\ pos' = [pos EXCEPT ![w] = 0]
    /\ batch' = [batch EXCEPT ![w] = {}]
    /\ eof' = [eof EXCEPT ![w] = FALSE]

Goto(w, step) == pc' = [pc EXCEPT ![w] = step]

\* scan: the walk lists the files that match.
Scan(w) ==
    /\ pc[w] = "idle" /\ todo[w] = {}
    /\ todo' = [todo EXCEPT ![w] = {p \in Paths : dir[p] # NoFile}]
    /\ UNCHANGED <<fsVars, dbVars, pc, locals, counts>>

\* scan finds its context cancelled and skips the remaining files.
Cancel(w) ==
    /\ pc[w] = "idle" /\ todo[w] # {}
    /\ todo' = [todo EXCEPT ![w] = {}]
    /\ UNCHANGED <<fsVars, dbVars, pc, locals, counts>>

\* handleFile(p): os.Stat.  A file gone since it was listed is an error.
Stat(w, p) ==
    /\ pc[w] = "idle" /\ p \in todo[w]
    /\ todo' = [todo EXCEPT ![w] = @ \ {p}]
    /\ IF dir[p] = NoFile
       THEN UNCHANGED <<pc, path, info>>
       ELSE /\ Goto(w, "state")
            /\ path' = [path EXCEPT ![w] = p]
            /\ info' = [info EXCEPT ![w] = [inode |-> dir[p], size |-> len[dir[p]]]]
    /\ UNCHANGED <<fsVars, dbVars, prev, curFP, fd, pos, batch, eof, counts>>

GetFileState(w) ==
    /\ pc[w] = "state"
    /\ Goto(w, "head")
    /\ prev' = [prev EXCEPT ![w] = fileState[path[w]]]
    /\ UNCHANGED <<fsVars, dbVars, todo, path, info, curFP, fd, pos, batch, eof, counts>>

\* The row keeps a place in a file that still has the head it had then, but
\* more of it: files shorter than the fingerprint have a shorter one.
HeadGrew(row, inode, fp) ==
    /\ row # NoRow
    /\ row.offset > 0 /\ row.inode = inode
    /\ row.fingerprint.head = fp.head /\ row.fingerprint # fp

\* A generation is to be read again.
Again(g) == again' = [again EXCEPT ![g] = @ + 1]

\* readFingerprint, and the choice of the offset to resume at.
ReadHead(w) ==
    /\ pc[w] = "head" /\ dir[path[w]] # NoFile
    /\ LET fp     == Fingerprint(dir[path[w]])
           offset == ResumeOffset(prev[w], info[w].inode, info[w].size, fp)
       IN  /\ curFP' = [curFP EXCEPT ![w] = fp]
           /\ pos' = [pos EXCEPT ![w] = offset]
           /\ Goto(w, IF offset = info[w].size THEN "refresh" ELSE "open")
           /\ IF HeadGrew(prev[w], info[w].inode, fp)
              THEN Again(gen[dir[path[w]]]) ELSE UNCHANGED again
    /\ UNCHANGED <<fsVars, dbVars, todo, path, info, prev, fd, batch, eof,
                   errors, crashes, raced>>

\* os.Open fails: the path was rotated away after os.Stat.
Vanished(w) ==
    /\ pc[w] \in {"head", "open"} /\ dir[path[w]] = NoFile
    /\ Return(w)
    /\ UNCHANGED <<fsVars, dbVars, todo, counts>>

\* Mutant: the bytes read are added to an offset that is already absolute.
WriteRowRelative(w) ==
    fileState' = [fileState EXCEPT ![path[w]] =
        [inode |-> info[w].inode, size |-> info[w].size,
         offset |-> pos[w] + (IF prev[w] = NoRow THEN 0 ELSE prev[w].offset),
         fingerprint |-> curFP[w]]]

\* Mutant: the offset recorded is the size os.Stat saw, not what was read.
WriteRowStatSize(w) ==
    fileState' = [fileState EXCEPT ![path[w]] =
        [inode |-> info[w].inode, size |-> info[w].size,
         offset |-> info[w].size, fingerprint |-> curFP[w]]]

\* UpsertFileState: the inode and size are those of Stat, the fingerprint is
\* readFingerprint's, the offset is where reading ended.
WriteRow(w) ==
    fileState' = [fileState EXCEPT ![path[w]] =
        [inode |-> info[w].inode, size |-> info[w].size,
         offset |-> pos[w], fingerprint |-> curFP[w]]]

\* Nothing new, and the row is current (its mtime too, which is not modelled).
Unchanged(w) ==
    /\ pc[w] = "refresh"
    /\ prev[w] # NoRow
    /\ prev[w].size = info[w].size /\ prev[w].fingerprint = curFP[w]
    /\ Return(w)
    /\ UNCHANGED <<fsVars, dbVars, todo, counts>>

\* Mutant: the row is written anew without its offset.
RefreshNoOffset(w) ==
    /\ pc[w] = "refresh"
    /\ fileState' = [fileState EXCEPT ![path[w]] =
          [inode |-> info[w].inode, size |-> info[w].size,
           offset |-> 0, fingerprint |-> curFP[w]]]
    /\ Return(w)
    /\ UNCHANGED <<fsVars, requests, todo, counts>>

\* Nothing new; the row is refreshed.
Refresh(w) ==
    /\ pc[w] = "refresh"
    /\ WriteRow(w)
    /\ Return(w)
    /\ UNCHANGED <<fsVars, requests, todo, counts>>

\* consumeRange opens the path again and seeks.
Open(w) ==
    /\ pc[w] = "open" /\ dir[path[w]] # NoFile
    /\ Goto(w, "read")
    /\ fd' = [fd EXCEPT ![w] = dir[path[w]]]
    /\ UNCHANGED <<fsVars, dbVars, todo, path, info, prev, curFP, pos, batch, eof, counts>>

\* What w's scanner would yield of its open file up to a chunk.
Ahead(w, to) == LinesIn(gen[fd[w]], pos[w], to)

\* The scanner fills a batch.
ReadBatch(w) ==
    /\ pc[w] = "read"
    /\ \E to \in (pos[w] + 1)..len[fd[w]] :
          /\ to % LineLen = 0 /\ Cardinality(Ahead(w, to)) = BatchSize
          /\ Ahead(w, to) \cap Oversized = {}
          /\ batch' = [batch EXCEPT ![w] = Ahead(w, to)]
          /\ pos' = [pos EXCEPT ![w] = to]
    /\ Goto(w, "insert")
    /\ UNCHANGED <<fsVars, dbVars, todo, path, info, prev, curFP, fd, eof, counts>>

\* Mutant: the batch left over at the end of the file is never inserted.
ReadEOFNoFlush(w) ==
    /\ pc[w] = "read"
    /\ Cardinality(Ahead(w, len[fd[w]])) < BatchSize
    /\ Goto(w, "upsert")
    /\ pos' = [pos EXCEPT ![w] = IF @ < len[fd[w]] THEN len[fd[w]] ELSE @]
    /\ UNCHANGED <<fsVars, dbVars, todo, path, info, prev, curFP, fd, batch, eof, counts>>

\* Mutant: the new offset is the size of the open file.
ReadEOFAtSize(w) ==
    /\ pc[w] = "read"
    /\ Cardinality(Ahead(w, len[fd[w]])) < BatchSize
    /\ batch' = [batch EXCEPT ![w] = Ahead(w, len[fd[w]])]
    /\ Goto(w, "insert")
    /\ pos' = [pos EXCEPT ![w] = len[fd[w]]]
    /\ eof' = [eof EXCEPT ![w] = TRUE]
    /\ UNCHANGED <<fsVars, dbVars, todo, path, info, prev, curFP, fd, counts>>

\* The scanner meets the end of the file before the batch is full; a file
\* truncated under it ends at once, and the seek position stays where it was.
ReadEOF(w) ==
    /\ pc[w] = "read"
    /\ LET rest == Ahead(w, len[fd[w]])
       IN  /\ Cardinality(rest) < BatchSize /\ rest \cap Oversized = {}
           /\ batch' = [batch EXCEPT ![w] = rest]
           /\ Goto(w, IF rest = {} THEN "upsert" ELSE "insert")
    /\ pos' = [pos EXCEPT ![w] = IF @ < len[fd[w]] THEN len[fd[w]] ELSE @]
    /\ eof' = [eof EXCEPT ![w] = TRUE]
    /\ UNCHANGED <<fsVars, dbVars, todo, path, info, prev, curFP, fd, counts>>

\* Where w began to read its file.
Start(w) == ResumeOffset(prev[w], info[w].inode, info[w].size, curFP[w])

\* A line over 1 MiB ends the scan with ErrTooLong: what the batch holds is
\* dropped and the row is not written, so the batches before it are read again.
ReadTooLong(w) ==
    /\ pc[w] = "read"
    /\ \E l \in Ahead(w, len[fd[w]]) \cap Oversized :
          Cardinality(Ahead(w, l[2] * LineLen)) <= BatchSize
    /\ IF pos[w] > Start(w) THEN Again(gen[fd[w]]) ELSE UNCHANGED again
    /\ Return(w)
    /\ UNCHANGED <<fsVars, dbVars, todo, errors, crashes, raced>>

\* InsertBatch commits one transaction.
Insert(w) ==
    /\ pc[w] = "insert"
    /\ requests' = [l \in Lines |-> requests[l] + IF l \in batch[w] THEN 1 ELSE 0]
    /\ batch' = [batch EXCEPT ![w] = {}]
    /\ Goto(w, IF eof[w] THEN "upsert" ELSE "read")
    /\ UNCHANGED <<fsVars, fileState, todo, path, info, prev, curFP, fd, pos, eof, counts>>

\* The range is consumed; the row records how far.
Upsert(w) ==
    /\ pc[w] = "upsert"
    /\ WriteRow(w)
    /\ Return(w)
    /\ UNCHANGED <<fsVars, requests, todo, counts>>

\* A call of handleFile on the file or the database fails: it returns the
\* error, the open transaction is rolled back and the row stays as it was.
Fail(w) ==
    /\ pc[w] # "idle" /\ errors < MaxErrors
    /\ errors' = errors + 1
    /\ Return(w)
    /\ UNCHANGED <<fsVars, dbVars, todo, crashes, raced, again>>

\* The process dies, or restarts itself with syscall.Exec.
Crash ==
    /\ crashes < MaxCrashes
    /\ crashes' = crashes + 1
    /\ pc' = [w \in Watchers |-> "idle"]
    /\ todo' = [w \in Watchers |-> {}]
    /\ path' = [w \in Watchers |-> 0]
    /\ info' = [w \in Watchers |-> NoInfo]
    /\ prev' = [w \in Watchers |-> NoRow]
    /\ curFP' = [w \in Watchers |-> NoFP]
    /\ fd' = [w \in Watchers |-> NoFile]
    /\ pos' = [w \in Watchers |-> 0]
    /\ batch' = [w \in Watchers |-> {}]
    /\ eof' = [w \in Watchers |-> FALSE]
    /\ UNCHANGED <<fsVars, dbVars, errors, raced, again>>

-----------------------------------------------------------------------------
Environment ==
    \/ \E p \in Paths : Append(p) \/ Rotate(p)
    \/ \E i \in Inodes : Create(i)
    \/ CopyTruncate

Watch(w) ==
    \/ Scan(w) \/ GetFileState(w) \/ ReadHead(w) \/ Vanished(w)
    \/ \E p \in Paths : Stat(w, p)
    \/ Unchanged(w) \/ Refresh(w) \/ Open(w)
    \/ ReadBatch(w) \/ ReadEOF(w) \/ ReadTooLong(w) \/ Insert(w) \/ Upsert(w)

Next ==
    \/ Environment
    \/ \E w \in Watchers : Watch(w) \/ Cancel(w) \/ Fail(w)
    \/ Crash

Spec == Init /\ [][Next]_vars

\* The goroutine of a running watcher is scheduled and its ticker ticks, and
\* its source is not reconfigured for ever just before the walk reaches a file.
\* Nothing obliges the writer to write or rotate, or a call to fail.
FairSpec ==
    /\ Spec
    /\ \A w \in Watchers : WF_vars(Watch(w)) /\ \A p \in Paths : SF_vars(Stat(w, p))

-----------------------------------------------------------------------------
(* Properties.                                                             *)

\* The checkpoint never runs ahead of the data: every line that the next scan
\* would not read again - those before the offset it would resume the file now
\* at a path at - is in the requests table.  ("rotation ... is detected and
\* never causes lines to be re-ingested or skipped", docs/CONFIGURATION.md.)
NoLineSkipped ==
    \A p \in Paths : dir[p] # NoFile =>
        LET i == dir[p]
            resume == ResumeOffset(fileState[p], i, len[i], Fingerprint(i))
        IN  \A l \in Lines : l[1] = gen[i] /\ l[2] * LineLen <= resume => requests[l] > 0

\* Where one source matches a log and does not match it under its next names, a
\* line is inserted a second time only for a cause, each good for one copy more:
\* a crash, a failed call, a file replaced while handleFile was at it, a scan
\* that met a line over 1 MiB after it had committed batches, or a scan that
\* found the recorded head, shorter than FingerprintSize, grown.  Scans, rotation
\* out of the pattern and reused inodes by themselves are good for none.
DuplicatesHaveACause ==
    \A l \in Lines : requests[l] <= 1 + errors + crashes + raced + again[l[1]]

\* While the row of a path describes the same file head, its offset never moves
\* back: a scan that raced a rotation does not undo the progress of earlier ones.
OffsetAdvances ==
    [][\A p \in Paths :
          /\ fileState[p] # NoRow /\ fileState'[p] # NoRow
          /\ fileState'[p].fingerprint = fileState[p].fingerprint
          /\ fileState[p].fingerprint.n > 0
          => fileState'[p].offset >= fileState[p].offset]_vars

\* Rotation alone never causes a line to be ingested twice.
\* (docs/CONFIGURATION.md:87-89; the pattern matches the renamed file too.)
RotationNeverReingests ==
    errors = 0 /\ crashes = 0 /\ raced = 0 => \A l \in Lines : requests[l] <= 1

\* The line l is complete in a file the pattern matches.
InFile(l) == \E p \in Paths :
    dir[p] # NoFile /\ gen[dir[p]] = l[1] /\ l[2] * LineLen <= len[dir[p]]

\* A complete line of a file that stays where the pattern finds it is
\* eventually in the requests table, unless the file holds an oversized line.
\* (That InFile leads to arrival or removal: again and again one of them holds.)
EveryLineArrives ==
    \A l \in {k \in Lines : \A o \in Oversized : o[1] # k[1]} :
        []<>(requests[l] > 0 \/ ~InFile(l))
=============================================================================
