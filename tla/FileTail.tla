------------------------------ MODULE FileTail ------------------------------
(***************************************************************************)
(* A file source (internal/watcher/file.go): watchLoop watches the log's   *)
(* directory with fsnotify, opens the log at its end and reads it on every *)
(* Write event; a Create event makes it open the log anew.  It keeps no    *)
(* position in the database.                                               *)
(*                                                                         *)
(* What a file holds is named by a generation, as in DirWatcher; a file is *)
(* named by the generation it was created with.  Lines are written whole.  *)
(***************************************************************************)
EXTENDS Naturals, Sequences

CONSTANTS
    Oversized,  \* lines longer than the scanner's 1 MiB buffer
    None,       \* no such file
    MaxGen,     \* bound on generations
    MaxLen,     \* bound on the lines of one generation
    MaxErrors   \* bound on failed calls and on stops by the manager

ASSUME TailConstants ==
    /\ MaxGen \in Nat /\ MaxLen \in Nat /\ MaxErrors \in Nat
    /\ None \notin 1..MaxGen

Gens  == 1..MaxGen
Lines == Gens \X (1..MaxLen)

VARIABLES
    live,      \* the file the log's path names, or None
    content,   \* per file, the generation it holds (0 before it is created)
    len,       \* per file, the lines written
    lastGen,   \* generations started so far
    events,    \* inotify events on the log's name not yet handled
    requests,  \* copies of each line in the requests table
    pc,        \* where watchLoop is; "down" while Watch waits to call it again
    fd,        \* the open file, or None
    seek,      \* its file position
    offset,    \* watchLoop's offset
    atEOF,     \* the scanner has met the end of the file; it stays there
    unread,    \* nothing was read since the file was opened, or found truncated
               \* (for properties)
    errors,    \* failed calls and stops so far
    opens,     \* times each generation was opened, or started in place
    tailed     \* per line, whether it was written to the file being tailed, and
               \* there before the first read and ahead of it (for properties)

fileVars   == <<live, content, len, lastGen>>
readerVars == <<fd, seek, offset, atEOF, unread>>
vars == <<fileVars, events, requests, pc, readerVars, errors, opens, tailed>>

TypeOK ==
    /\ live \in Gens \cup {None}
    /\ content \in [Gens -> 0..MaxGen] /\ len \in [Gens -> 0..MaxLen]
    /\ lastGen \in 0..MaxGen
    /\ events \in Seq({"create", "write"})
    /\ requests \in [Lines -> Nat]
    /\ pc \in {"down", "added", "tail", "reopen", "read"}
    /\ fd \in Gens \cup {None} /\ (pc \in {"tail", "read"} <=> fd # None)
    /\ seek \in 0..MaxLen /\ offset \in 0..MaxLen
    /\ atEOF \in BOOLEAN /\ unread \in BOOLEAN
    /\ errors \in 0..MaxErrors
    /\ opens \in [Gens -> Nat]
    /\ tailed \in [Lines -> {"no", "fresh", "stale"}]

Init ==
    /\ live = None
    /\ content = [f \in Gens |-> 0] /\ len = [f \in Gens |-> 0]
    /\ lastGen = 0
    /\ events = <<>>
    /\ requests = [l \in Lines |-> 0]
    /\ pc = "down"
    /\ fd = None /\ seek = 0 /\ offset = 0 /\ atEOF = FALSE /\ unread = FALSE
    /\ errors = 0
    /\ opens = [g \in Gens |-> 0]
    /\ tailed = [l \in Lines |-> "no"]

-----------------------------------------------------------------------------
(* The log writer, logrotate and inotify.                                  *)

\* An event is queued while watchLoop watches the directory.  A Write that
\* follows one not yet read from the kernel is merged with it.
Notify(e) ==
    IF pc = "down" THEN UNCHANGED events
    ELSE \/ events' = Append(events, e)
         \/ /\ e = "write" /\ events # <<>> /\ events[Len(events)] = "write"
            /\ UNCHANGED events

\* A line is written to the log, or to the open file after it was renamed,
\* whose events carry another name.
Write(f) ==
    /\ f = live \/ f = fd
    /\ len[f] < MaxLen
    /\ len' = [len EXCEPT ![f] = @ + 1]
    /\ IF f = live THEN Notify("write") ELSE UNCHANGED events
    /\ tailed' = IF f = live /\ f = fd
                 THEN [tailed EXCEPT ![<<content[f], len[f] + 1>>] =
                           IF unread /\ len[f] >= seek THEN "fresh" ELSE "stale"]
                 ELSE tailed
    /\ UNCHANGED <<live, content, lastGen, requests, pc, readerVars, errors, opens>>

\* A new log is created, in the place of the one renamed or removed.
Create ==
    /\ lastGen < MaxGen
    /\ lastGen' = lastGen + 1
    /\ live' = lastGen + 1
    /\ content' = [content EXCEPT ![lastGen + 1] = lastGen + 1]
    /\ Notify("create")
    /\ UNCHANGED <<len, requests, pc, readerVars, errors, opens, tailed>>

\* The log is renamed or removed; watchLoop ignores the event.
Remove ==
    /\ live # None
    /\ live' = None
    /\ UNCHANGED <<content, len, lastGen, events, requests, pc, readerVars, errors, opens, tailed>>

\* copytruncate: the log is emptied in place.
CopyTruncate ==
    /\ live # None /\ lastGen < MaxGen
    /\ lastGen' = lastGen + 1
    /\ content' = [content EXCEPT ![live] = lastGen + 1]
    /\ len' = [len EXCEPT ![live] = 0]
    /\ opens' = [opens EXCEPT ![lastGen + 1] = 1]
    /\ Notify("write")
    /\ UNCHANGED <<live, requests, pc, readerVars, errors, tailed>>

-----------------------------------------------------------------------------
(* The watcher.                                                            *)

\* watchLoop returns: the deferred closes drop the events and the file.
Leave ==
    /\ pc' = "down" /\ events' = <<>>
    /\ fd' = None /\ seek' = 0 /\ offset' = 0 /\ atEOF' = FALSE /\ unread' = FALSE

\* Open the log, with a new scanner, at a position.
OpenAt(position) ==
    /\ fd' = live /\ seek' = position /\ offset' = position /\ atEOF' = FALSE
    /\ unread' = TRUE
    /\ pc' = "tail"
    /\ opens' = [opens EXCEPT ![content[live]] = @ + 1]

\* watchLoop is called (again) and adds the directory to the watcher.
AddWatch ==
    /\ pc = "down"
    /\ pc' = "added"
    /\ UNCHANGED <<fileVars, events, requests, readerVars, errors, opens, tailed>>

\* The log is opened and read from its end on.
OpenAtEnd ==
    /\ pc = "added" /\ live # None
    /\ OpenAt(len[live])
    /\ UNCHANGED <<fileVars, events, requests, errors, tailed>>

\* There is no log to open; Watch polls.
Missing ==
    /\ pc \in {"added", "reopen"} /\ live = None
    /\ Leave
    /\ UNCHANGED <<fileVars, requests, errors, opens, tailed>>

\* A Create event: the file is closed, and the loop sleeps for 100 ms.
OnCreate ==
    /\ pc = "tail" /\ events # <<>> /\ Head(events) = "create"
    /\ events' = Tail(events)
    /\ pc' = "reopen"
    /\ fd' = None
    /\ UNCHANGED <<fileVars, requests, seek, offset, atEOF, unread, errors, opens, tailed>>

\* Mutant: the new log is read with the scanner of the old one.
ReopenOldScanner ==
    /\ pc = "reopen" /\ live # None
    /\ fd' = live /\ seek' = 0 /\ offset' = 0 /\ unread' = TRUE
    /\ pc' = "tail"
    /\ opens' = [opens EXCEPT ![content[live]] = @ + 1]
    /\ UNCHANGED <<fileVars, events, requests, atEOF, errors, tailed>>

\* The new log is opened, and read from its start.
Reopen ==
    /\ pc = "reopen" /\ live # None
    /\ OpenAt(0)
    /\ UNCHANGED <<fileVars, events, requests, errors, tailed>>

\* Mutant: a file that has not grown counts as truncated.
OnWriteNotGrown ==
    /\ pc = "tail" /\ events # <<>> /\ Head(events) = "write"
    /\ events' = Tail(events)
    /\ pc' = "read"
    /\ IF len[fd] <= offset
       THEN seek' = 0 /\ offset' = 0 /\ atEOF' = FALSE /\ unread' = TRUE
       ELSE UNCHANGED <<seek, offset, atEOF, unread>>
    /\ UNCHANGED <<fileVars, requests, fd, errors, opens, tailed>>

\* A Write event: a file shorter than offset was truncated and is read from its
\* start, with a new scanner.
OnWrite ==
    /\ pc = "tail" /\ events # <<>> /\ Head(events) = "write"
    /\ events' = Tail(events)
    /\ pc' = "read"
    /\ IF len[fd] < offset
       THEN seek' = 0 /\ offset' = 0 /\ atEOF' = FALSE /\ unread' = TRUE
       ELSE UNCHANGED <<seek, offset, atEOF, unread>>
    /\ UNCHANGED <<fileVars, requests, fd, errors, opens, tailed>>

\* The lines the scanner yields: none once it has met the end of the file.
Scanned == IF atEOF THEN {}
           ELSE {l \in Lines : l[1] = content[fd] /\ seek < l[2] /\ l[2] <= len[fd]}

\* The file position after reading to the end of the file.
Position == IF atEOF \/ len[fd] < seek THEN seek ELSE len[fd]

\* Mutant: offset grows by the file position instead of becoming it.
ReadAndInsertSum ==
    /\ pc = "read" /\ Scanned \cap Oversized = {}
    /\ pc' = "tail"
    /\ requests' = [l \in Lines |-> requests[l] + IF l \in Scanned THEN 1 ELSE 0]
    /\ UNCHANGED errors
    /\ seek' = Position /\ offset' = offset + Position
    /\ atEOF' = TRUE /\ unread' = FALSE
    /\ UNCHANGED <<fileVars, events, fd, opens, tailed>>

\* The lines are inserted in one transaction.  An error of InsertBatch is
\* logged; the lines are gone, for the offset moves all the same.
ReadAndInsert ==
    /\ pc = "read" /\ Scanned \cap Oversized = {}
    /\ pc' = "tail"
    /\ \/ /\ requests' = [l \in Lines |-> requests[l] + IF l \in Scanned THEN 1 ELSE 0]
          /\ UNCHANGED errors
       \/ /\ Scanned # {} /\ errors < MaxErrors
          /\ errors' = errors + 1
          /\ UNCHANGED requests
    /\ seek' = Position /\ offset' = Position
    /\ atEOF' = TRUE /\ unread' = FALSE
    /\ UNCHANGED <<fileVars, events, fd, opens, tailed>>

\* A line over 1 MiB: the scanner's error ends watchLoop, with nothing inserted.
ReadTooLong ==
    /\ pc = "read" /\ Scanned \cap Oversized # {}
    /\ Leave
    /\ UNCHANGED <<fileVars, requests, errors, opens, tailed>>

\* A call fails, or the manager stops this reader and later starts another.
StopOrFail ==
    /\ pc # "down" /\ errors < MaxErrors
    /\ errors' = errors + 1
    /\ Leave
    /\ UNCHANGED <<fileVars, requests, opens, tailed>>

-----------------------------------------------------------------------------
Environment ==
    \/ \E f \in Gens : Write(f)
    \/ Create \/ Remove \/ CopyTruncate

Watch ==
    \/ AddWatch \/ OpenAtEnd \/ Missing \/ OnCreate \/ Reopen
    \/ OnWrite \/ ReadAndInsert \/ ReadTooLong

Next == Environment \/ Watch \/ StopOrFail

Spec == Init /\ [][Next]_vars

\* The reader's goroutine is scheduled.  Nobody has to write.
FairSpec == Spec /\ WF_vars(Watch)

-----------------------------------------------------------------------------
(* Properties.                                                             *)

\* A line is inserted once for each time the content it is in was opened, or
\* restarted from after a truncation, and never more: a Write event that brings
\* nothing new, an event merged or left over from before a rotation, or a
\* truncation between the check and the read, does not ingest lines again.
OnceForEachOpen == \A l \in Lines : requests[l] <= opens[l[1]]

\* The line's content is no longer what the reader has open.
Gone(l) == fd = None \/ content[fd] # l[1]

\* The lines written between the opening of the log, or the check that found it
\* truncated, and the first read after it arrive, unless the file is replaced or
\* truncated first, a call fails, or a line is oversized.
FirstReadArrives ==
    \A l \in {k \in Lines : \A o \in Oversized : o[1] # k[1]} :
        tailed[l] = "fresh" ~> requests[l] > 0 \/ Gone(l) \/ errors > 0

\* Every line written to the file being tailed arrives, unless the file is
\* replaced or truncated first, or a call fails.  ("File sources are
\* live-tailed", docs/DEVELOPMENT.md:156.)
LiveTailed ==
    \A l \in Lines : tailed[l] # "no" ~> requests[l] > 0 \/ Gone(l) \/ errors > 0
=============================================================================
