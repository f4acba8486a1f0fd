--------------------------- MODULE ArchiveImport ---------------------------
(***************************************************************************)
(* The three ways a .gz archive gets into the requests table: a directory  *)
(* source with read_compressed (handleFile and importCompressed in dir.go),*)
(* a file source with read_compressed (importCompressedSiblings in         *)
(* file.go) and the -import command (importLogFile in main.go).  All read  *)
(* the archive to its end in batches; only the first records that it did.  *)
(*                                                                         *)
(* logrotate writes an archive block by block and renames it, between any  *)
(* two steps of a reader.  A block decodes to one line; the end of the     *)
(* gzip stream is one block more, and without it reading ends in an error. *)
(***************************************************************************)
EXTENDS Integers, FiniteSets

CONSTANTS
    DirSources,    \* directory sources whose pattern matches the archives
    FileSources,   \* file sources whose siblings they are
    Commands,      \* runs of the program with -import
    Depth,         \* names 1..Depth: access.log.1.gz, access.log.2.gz, ...
    InodeOf,       \* the inode each archive is written on; one that is free
                   \* again may be used again
    Oversized,     \* lines longer than the scanner's buffer, 1 MiB
    BatchSize,     \* batchSize
    NoFile, NoRow, \* no such name; no file_state row
    MaxArchives,   \* bound on archives
    MaxLines,      \* bound on the lines of an archive
    MaxStarts,     \* bound on the starts of readers
    MaxErrors,     \* bound on failed calls
    MaxCount       \* where requests stops counting; excuses stops one earlier

Paths    == 1..Depth
Archives == 1..MaxArchives
Lines    == Archives \X (1..MaxLines)
Sources  == DirSources \cup FileSources
Readers  == Sources \cup Commands
Stats    == [file : Archives, size : 0..(MaxLines + 1)]

ASSUME ArchiveConstants ==
    /\ IsFiniteSet(Readers) /\ Commands \cap Sources = {} /\ DirSources \cap FileSources = {}
    /\ Depth \in Nat /\ BatchSize \in Nat \ {0}
    /\ MaxArchives \in Nat /\ MaxLines \in Nat /\ MaxStarts \in Nat
    /\ MaxErrors \in Nat /\ MaxCount \in Nat \ {0}
    /\ NoFile \notin Archives /\ NoRow \notin Stats /\ Oversized \subseteq Lines

VARIABLES
    dir,       \* the archive each name stands for, or NoFile
    made,      \* archives made so far
    blocks,    \* lines written to each archive
    ended,     \* whether its gzip stream has ended
    requests,  \* copies of each line in the requests table
    row,       \* the file_state row of each name, or NoRow; its offset is its size
    pc,        \* where each reader is; "off" when not running
    todo,      \* names a walk or a directory listing has still to visit
    job,       \* the name being handled, its Stat, the archive open and the lines read
    cancelled, \* whether the source's context is cancelled
    starts,    \* starts of readers so far
    errors,    \* failed calls so far
    late,      \* archives a dir source opened since its context was cancelled
    excuses    \* events since which an archive may rightly be read once more

fsVars  == <<dir, made, blocks, ended>>
dbVars  == <<requests, row>>
control == <<cancelled, starts, errors, late>>
vars    == <<fsVars, dbVars, pc, todo, job, control, excuses>>

Jobs == [path : Paths \cup {0}, info : Stats \cup {NoRow},
         fd : Archives \cup {NoFile}, pos : 0..MaxLines]

NoJob == [path |-> 0, info |-> NoRow, fd |-> NoFile, pos |-> 0]

TypeOK ==
    /\ dir \in [Paths -> Archives \cup {NoFile}]
    /\ made \in 0..MaxArchives
    /\ blocks \in [Archives -> 0..MaxLines]
    /\ ended \in [Archives -> BOOLEAN]
    /\ requests \in [Lines -> 0..MaxCount]
    /\ row \in [Paths -> Stats \cup {NoRow}]
    /\ pc \in [Readers -> {"off", "list", "idle", "state", "open", "read", "upsert"}]
    /\ todo \in [Readers -> SUBSET Paths]
    /\ job \in [Readers -> Jobs]
    /\ cancelled \in [Sources -> BOOLEAN]
    /\ starts \in 0..MaxStarts
    /\ errors \in 0..MaxErrors
    /\ late \in [DirSources -> Nat]
    /\ excuses \in [Archives -> 0..(MaxCount - 1)]

Init ==
    /\ dir = [p \in Paths |-> NoFile]
    /\ made = 0
    /\ blocks = [a \in Archives |-> 0]
    /\ ended = [a \in Archives |-> FALSE]
    /\ requests = [l \in Lines |-> 0]
    /\ row = [p \in Paths |-> NoRow]
    /\ pc = [w \in Readers |-> "off"]
    /\ todo = [w \in Readers |-> {}]
    /\ job = [w \in Readers |-> NoJob]
    /\ cancelled = [w \in Sources |-> FALSE]
    /\ starts = 0
    /\ errors = 0
    /\ late = [w \in DirSources |-> 0]
    /\ excuses = [a \in Archives |-> 0]

Bump(n, most) == IF n < most THEN n + 1 ELSE n

\* The archives of S may each be read once more.
Excuse(S) == excuses' = [a \in Archives |-> IF a \in S THEN Bump(excuses[a], MaxCount - 1) ELSE excuses[a]]

ExcuseTwice(S) ==
    excuses' = [a \in Archives |-> IF a \in S THEN Bump(Bump(excuses[a], MaxCount - 1), MaxCount - 1)
                                   ELSE excuses[a]]

-----------------------------------------------------------------------------
(* logrotate.                                                              *)

Linked(a) == \E p \in Paths : dir[p] = a

Size(a) == blocks[a] + IF ended[a] THEN 1 ELSE 0

\* What os.Stat returns, and a row keeps of it.  The code has the archive's
\* inode where this has the archive.
Stat(a) == [file |-> a, size |-> Size(a)]

\* Directory sources between the Stat of a name and the row they write for it.
Handling(p) == {w \in DirSources : pc[w] # "idle" /\ job[w].path = p}

\* A new archive begins, on an inode that is not in use.
Create ==
    /\ dir[1] = NoFile /\ made < MaxArchives
    /\ LET a == made + 1
       IN  /\ \A b \in Archives : Linked(b) => InodeOf[b] # InodeOf[a]
           /\ \A w \in Readers : pc[w] = "read" => InodeOf[job[w].fd] # InodeOf[a]
           /\ made' = a
           /\ dir' = [dir EXCEPT ![1] = a]
           /\ Excuse(IF Handling(1) = {} THEN {} ELSE {a})
    /\ UNCHANGED <<blocks, ended, dbVars, pc, todo, job, control>>

\* A source that has looked at its size will record that size for a longer one.
Grown(a) == Excuse(IF \E w \in DirSources : job[w].info # NoRow /\ job[w].info.file = a
                   THEN {a} ELSE {})

Grow(a) ==
    /\ Linked(a) /\ ~ended[a] /\ blocks[a] < MaxLines
    /\ blocks' = [blocks EXCEPT ![a] = @ + 1]
    /\ Grown(a)
    /\ UNCHANGED <<dir, made, ended, dbVars, pc, todo, job, control>>

Finish(a) ==
    /\ Linked(a) /\ ~ended[a]
    /\ ended' = [ended EXCEPT ![a] = TRUE]
    /\ Grown(a)
    /\ UNCHANGED <<dir, made, blocks, dbVars, pc, todo, job, control>>

\* An archive is renamed to the next name; past Depth it leaves the pattern.  A
\* source that handles the next name opens it there, as the archive that it
\* found there before, and once more for itself.
Rotate(p) ==
    /\ dir[p] # NoFile
    /\ dir' = [q \in Paths |-> IF q = p THEN NoFile
                               ELSE IF q = p + 1 THEN dir[p] ELSE dir[q]]
    /\ IF Handling(p + 1) = {} THEN Excuse({dir[p]}) ELSE ExcuseTwice({dir[p]})
    /\ UNCHANGED <<made, blocks, ended, dbVars, pc, todo, job, control>>

-----------------------------------------------------------------------------
(* Starting and stopping.                                                  *)

\* The manager starts a source's reader, at boot, on a save or when watching is
\* turned on: a directory source scans, a file source lists its siblings.
Start(w) ==
    /\ w \in Sources /\ pc[w] = "off" /\ starts < MaxStarts
    /\ pc' = [pc EXCEPT ![w] = IF w \in FileSources THEN "list" ELSE "idle"]
    /\ starts' = starts + 1
    /\ cancelled' = [cancelled EXCEPT ![w] = FALSE]
    /\ late' = [v \in DirSources |-> IF v = w THEN 0 ELSE late[v]]
    /\ UNCHANGED <<fsVars, dbVars, todo, job, errors, excuses>>

\* The manager cancels a reader and waits for it, its mutex held.
Cancel(w) ==
    /\ w \in Sources /\ pc[w] # "off" /\ ~cancelled[w]
    /\ cancelled' = [cancelled EXCEPT ![w] = TRUE]
    /\ UNCHANGED <<fsVars, dbVars, pc, todo, job, starts, errors, late, excuses>>

\* Watch returns.
Exit(w) ==
    /\ w \in Sources /\ cancelled[w]
    /\ pc[w] = "idle" /\ (w \in DirSources => todo[w] = {})
    /\ pc' = [pc EXCEPT ![w] = "off"]
    /\ todo' = [todo EXCEPT ![w] = {}]
    /\ cancelled' = [cancelled EXCEPT ![w] = FALSE]
    /\ UNCHANGED <<fsVars, dbVars, job, starts, errors, late, excuses>>

\* The server dies or restarts; a command is a process of its own.
Crash ==
    /\ \E w \in Sources : pc[w] # "off"
    /\ pc' = [w \in Readers |-> IF w \in Sources THEN "off" ELSE pc[w]]
    /\ todo' = [w \in Readers |-> IF w \in Sources THEN {} ELSE todo[w]]
    /\ job' = [w \in Readers |-> IF w \in Sources THEN NoJob ELSE job[w]]
    /\ cancelled' = [w \in Sources |-> FALSE]
    /\ Excuse({job[w].fd : w \in DirSources} \ {NoFile})
    /\ UNCHANGED <<fsVars, dbVars, starts, errors, late>>

-----------------------------------------------------------------------------
(* Reading an archive.                                                     *)

\* handleFile or importGzip is done with a name; a command is done altogether.
Return(w) ==
    /\ pc' = [pc EXCEPT ![w] = IF w \in Commands THEN "off" ELSE "idle"]
    /\ job' = [job EXCEPT ![w] = NoJob]

\* os.Open and gzip.NewReader, which fails unless the stream has begun.
Readable(p) == dir[p] # NoFile /\ (blocks[dir[p]] > 0 \/ ended[dir[p]])

\* The archive is open at its beginning.
Opened(w, p) ==
    /\ pc' = [pc EXCEPT ![w] = "read"]
    /\ job' = [job EXCEPT ![w] = [path |-> p, info |-> job[w].info, fd |-> dir[p], pos |-> 0]]

InsertLines(a, from, to) ==
    requests' = [l \in Lines |-> IF l[1] = a /\ l[2] \in (from + 1)..to
                                 THEN Bump(requests[l], MaxCount) ELSE requests[l]]

\* No line of a up to the n-th is too long for the scanner.
Legible(a, n) == \A i \in 1..n : <<a, i>> \notin Oversized

\* Mutant: a batch is taken for full wherever the archive ends.
ReadBatchPastEnd(w) ==
    /\ pc[w] = "read"
    /\ InsertLines(job[w].fd, job[w].pos, job[w].pos + BatchSize)
    /\ job' = [job EXCEPT ![w].pos = @ + BatchSize]
    /\ UNCHANGED <<fsVars, row, pc, todo, control, excuses>>

\* The scanner fills a batch and InsertBatch commits it.
ReadBatch(w) ==
    /\ pc[w] = "read"
    /\ job[w].pos + BatchSize <= blocks[job[w].fd]
    /\ Legible(job[w].fd, job[w].pos + BatchSize)
    /\ InsertLines(job[w].fd, job[w].pos, job[w].pos + BatchSize)
    /\ job' = [job EXCEPT ![w].pos = @ + BatchSize]
    /\ UNCHANGED <<fsVars, row, pc, todo, control, excuses>>

\* With n lines of a read the scanner stops: no more is written, or the next
\* line is too long.
StopsAt(a, n) ==
    /\ n <= blocks[a] /\ Legible(a, n)
    /\ n = blocks[a] \/ <<a, n + 1>> \in Oversized

\* Having read n lines, the scanner has no error: it met the end of the stream.
AtEnd(a, n) == n = blocks[a] /\ ended[a]

\* A source of archives is done reading: with no error a directory source has
\* the row to write; any error makes it return without.
EndRead(w, n) ==
    LET a == job[w].fd
    IN  /\ IF w \in DirSources /\ AtEnd(a, n)
           THEN pc' = [pc EXCEPT ![w] = "upsert"] /\ UNCHANGED job
           ELSE Return(w)
        /\ Excuse(IF w \in DirSources /\ ~AtEnd(a, n) THEN {a} ELSE {})

\* Mutant: an archive that breaks off is waited for.
ReadRestWaits(w) ==
    /\ pc[w] = "read"
    /\ \E n \in job[w].pos..MaxLines :
          /\ StopsAt(job[w].fd, n) /\ n - job[w].pos < BatchSize
          /\ ended[job[w].fd]
          /\ InsertLines(job[w].fd, job[w].pos, n)
          /\ EndRead(w, n)
    /\ UNCHANGED <<fsVars, row, todo, control>>

\* The scanner stops.  What the batch holds is committed, and only then is a
\* stream that broke off, or a line too long, an error.
ReadRest(w) ==
    /\ pc[w] = "read"
    /\ \E n \in job[w].pos..MaxLines :
          /\ StopsAt(job[w].fd, n) /\ n - job[w].pos < BatchSize
          /\ InsertLines(job[w].fd, job[w].pos, n)
          /\ EndRead(w, n)
    /\ UNCHANGED <<fsVars, row, todo, control>>

\* A call fails: the batch in hand is rolled back, what was committed stays.
Fail(w) ==
    /\ pc[w] \notin {"off", "idle"} /\ errors < MaxErrors
    /\ errors' = errors + 1
    /\ Return(w)
    /\ Excuse(IF w \in DirSources THEN {job[w].fd} \ {NoFile} ELSE {})
    /\ UNCHANGED <<fsVars, dbVars, todo, cancelled, starts, late>>

-----------------------------------------------------------------------------
(* The directory source.                                                   *)

\* scan, at the start or on a tick; select may take the tick of a cancelled one.
Scan(w) ==
    /\ w \in DirSources /\ pc[w] = "idle" /\ todo[w] = {}
    /\ todo' = [todo EXCEPT ![w] = {p \in Paths : dir[p] # NoFile}]
    /\ UNCHANGED <<fsVars, dbVars, pc, job, control, excuses>>

\* walkFn finds the context cancelled.
SkipAll(w) ==
    /\ w \in DirSources /\ pc[w] = "idle" /\ todo[w] # {} /\ cancelled[w]
    /\ todo' = [todo EXCEPT ![w] = {}]
    /\ UNCHANGED <<fsVars, dbVars, pc, job, control, excuses>>

\* Mutant: walkFn does not look at the context.
VisitUnchecked(w, p) ==
    /\ w \in DirSources /\ pc[w] = "idle" /\ p \in todo[w]
    /\ todo' = [todo EXCEPT ![w] = @ \ {p}]
    /\ IF dir[p] = NoFile
       THEN UNCHANGED <<pc, job>>
       ELSE /\ pc' = [pc EXCEPT ![w] = "state"]
            /\ job' = [job EXCEPT ![w] = [NoJob EXCEPT !.path = p, !.info = Stat(dir[p])]]
    /\ UNCHANGED <<fsVars, dbVars, control, excuses>>

\* walkFn and handleFile's os.Stat.
Visit(w, p) ==
    /\ w \in DirSources /\ pc[w] = "idle" /\ p \in todo[w] /\ ~cancelled[w]
    /\ todo' = [todo EXCEPT ![w] = @ \ {p}]
    /\ IF dir[p] = NoFile
       THEN UNCHANGED <<pc, job>>
       ELSE /\ pc' = [pc EXCEPT ![w] = "state"]
            /\ job' = [job EXCEPT ![w] = [NoJob EXCEPT !.path = p, !.info = Stat(dir[p])]]
    /\ UNCHANGED <<fsVars, dbVars, control, excuses>>

\* Whether the row says that this archive has been read to its end: it has its
\* inode, and an offset not before its end.  The fingerprint is not compared.
Imported(prev, info) ==
    prev # NoRow /\ InodeOf[prev.file] = InodeOf[info.file] /\ prev.size >= info.size

\* GetFileState; an archive that was imported is left alone.
GetFileState(w) ==
    /\ pc[w] = "state"
    /\ IF Imported(row[job[w].path], job[w].info)
       THEN Return(w)
       ELSE pc' = [pc EXCEPT ![w] = "open"] /\ UNCHANGED job
    /\ UNCHANGED <<fsVars, dbVars, todo, control, excuses>>

\* Mutant: the row is written before the import.
OpenClaims(w) ==
    /\ pc[w] = "open"
    /\ IF Readable(job[w].path)
       THEN /\ Opened(w, job[w].path)
            /\ late' = [late EXCEPT ![w] = IF cancelled[w] THEN @ + 1 ELSE @]
            /\ row' = [row EXCEPT ![job[w].path] = job[w].info]
       ELSE Return(w) /\ UNCHANGED <<late, row>>
    /\ UNCHANGED <<fsVars, requests, todo, cancelled, starts, errors, excuses>>

\* importCompressed opens the archive now at the path, cancelled or not.
Open(w) ==
    /\ pc[w] = "open"
    /\ IF Readable(job[w].path)
       THEN /\ Opened(w, job[w].path)
            /\ late' = [late EXCEPT ![w] = IF cancelled[w] THEN @ + 1 ELSE @]
       ELSE Return(w) /\ UNCHANGED late
    /\ UNCHANGED <<fsVars, dbVars, todo, cancelled, starts, errors, excuses>>

\* Mutant: the row's offset is left at zero.
UpsertNoOffset(w) ==
    /\ pc[w] = "upsert"
    /\ row' = [row EXCEPT ![job[w].path] = [file |-> job[w].info.file, size |-> 0]]
    /\ Return(w)
    /\ UNCHANGED <<fsVars, requests, todo, control, excuses>>

\* Mutant: inode and size are looked up again.
UpsertStatAgain(w) ==
    /\ pc[w] = "upsert"
    /\ row' = [row EXCEPT ![job[w].path] = IF dir[job[w].path] = NoFile THEN job[w].info
                                           ELSE Stat(dir[job[w].path])]
    /\ Return(w)
    /\ UNCHANGED <<fsVars, requests, todo, control, excuses>>

\* UpsertFileState, with the inode and size that os.Stat returned at first.
Upsert(w) ==
    /\ pc[w] = "upsert"
    /\ row' = [row EXCEPT ![job[w].path] = job[w].info]
    /\ Return(w)
    /\ UNCHANGED <<fsVars, requests, todo, control, excuses>>

-----------------------------------------------------------------------------
(* The file source and the command.                                        *)

\* importCompressedSiblings lists the directory.
ListSiblings(w) ==
    /\ pc[w] = "list"
    /\ todo' = [todo EXCEPT ![w] = {p \in Paths : dir[p] # NoFile}]
    /\ pc' = [pc EXCEPT ![w] = "idle"]
    /\ UNCHANGED <<fsVars, dbVars, job, control, excuses>>

\* importGzip of the next sibling, unless the context is cancelled.  One that
\* cannot be opened is passed over.
OpenSibling(w, p) ==
    /\ w \in FileSources /\ pc[w] = "idle" /\ p \in todo[w] /\ ~cancelled[w]
    /\ todo' = [todo EXCEPT ![w] = @ \ {p}]
    /\ IF Readable(p)
       THEN Opened(w, p) /\ Excuse({dir[p]})
       ELSE UNCHANGED <<pc, job, excuses>>
    /\ UNCHANGED <<fsVars, dbVars, control>>

\* The program is run with -import and the name of an archive.
Import(w, p) ==
    /\ w \in Commands /\ pc[w] = "off" /\ starts < MaxStarts
    /\ Readable(p)
    /\ Opened(w, p)
    /\ Excuse({dir[p]})
    /\ starts' = starts + 1
    /\ UNCHANGED <<fsVars, dbVars, todo, cancelled, errors, late>>

-----------------------------------------------------------------------------
Logrotate ==
    \/ Create
    \/ \E a \in Archives : Grow(a) \/ Finish(a)
    \/ \E p \in Paths : Rotate(p)

Run(w) ==
    \/ Scan(w) \/ SkipAll(w) \/ GetFileState(w) \/ Open(w) \/ Upsert(w)
    \/ ListSiblings(w) \/ ReadBatch(w) \/ ReadRest(w)
    \/ \E p \in Paths : Visit(w, p) \/ OpenSibling(w, p)

Next ==
    \/ Logrotate
    \/ Crash
    \/ \E w \in Readers : \/ Run(w) \/ Start(w) \/ Cancel(w) \/ Exit(w) \/ Fail(w)
                          \/ \E p \in Paths : Import(w, p)

Spec == Init /\ [][Next]_vars

\* A running reader is scheduled and its ticker ticks; a select that finds its
\* context cancelled again and again takes that branch in the end.
FairSpec == Spec /\ \A w \in Sources : WF_vars(Run(w)) /\ SF_vars(Exit(w))

-----------------------------------------------------------------------------
(* Properties.                                                             *)

\* Every line of the archive is in the table.
InTable(a) == \A i \in 1..blocks[a] : requests[<<a, i>>] > 0

\* The row at p is of an earlier archive, on the inode of the one that is there.
Mistaken(p) ==
    /\ dir[p] # NoFile /\ row[p] # NoRow
    /\ row[p].file # dir[p] /\ InodeOf[row[p].file] = InodeOf[dir[p]]

\* An archive that the next scan would leave alone is in the table with every
\* line it has, though the row was written from an earlier Stat, and names are
\* passed on from one archive to the next.  But an archive no longer than an
\* earlier one that had its name and its inode is taken for that one, for the
\* fingerprint, stored against reused inodes (storage.go:77-80), is not compared.
SkippedIsImported ==
    \A p \in Paths : dir[p] # NoFile /\ Imported(row[p], Stat(dir[p])) =>
        InTable(dir[p]) \/ Mistaken(p)

\* A line is inserted again only with a reason: the archive was renamed, it
\* changed or was replaced while the source handled it, an import of it ended in
\* an error (for one that is not complete, or has a line that is too long, each
\* scan's does), the process died in one, or a file source's start or a command
\* asked for it.  So the documents, by which archives are imported once and
\* restarts re-ingest nothing (docs/DEVELOPMENT.md:160-162, CONFIGURATION.md:89-90,
\* DEPLOYMENT.md:172-173 and 180-181, TODO.md:30), are right only of one that was
\* complete when it was found, keeps its name and has no such line: its scans
\* alone repeat nothing, where one directory source matches it.
RepeatsHaveACause == \A l \in Lines : requests[l] <= 1 + excuses[l[1]]

\* A source that has been cancelled opens at most one more archive: this, and
\* the rest of one it is reading, is what Apply waits for.
OneLateArchive == \A w \in DirSources : late[w] <= 1

\* Every cancelled source exits, whatever state archives are in.
CancelledExits == \A w \in Sources : []<>(~cancelled[w])

\* The line l is in a complete archive that a running directory source matches,
\* no line up to it is too long, and the archive is not taken for an earlier one.
Importable(l) ==
    /\ ended[l[1]] /\ l[2] <= blocks[l[1]] /\ Legible(l[1], l[2])
    /\ \E p \in Paths : dir[p] = l[1] /\ ~Mistaken(p)
    /\ \E w \in DirSources : pc[w] # "off" /\ ~cancelled[w]

\* A line of a complete archive is in the table in the end, as long as the
\* archive is kept and the source runs, whatever fails and is renamed meanwhile.
\* Not so the lines from the first that is too long on, nor those of an archive
\* taken for an earlier one.
CompleteArchivesArrive ==
    \A l \in Lines : []<>(requests[l] > 0 \/ ~Importable(l))
=============================================================================
