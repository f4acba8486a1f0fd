--------------------------- MODULE FileTailProofs ---------------------------
(***************************************************************************)
(* Proofs about FileTail, for any number of generations, lines and faults. *)
(***************************************************************************)
EXTENDS FileTail, Integers, TLAPS

-----------------------------------------------------------------------------
(* Type correctness.                                                       *)

Places == {"down", "added", "tail", "reopen", "read"}
Marks  == {"no", "fresh", "stale"}

\* A file that is linked or open has been created, and holds a generation that
\* has been started; no two files hold the same one.
FilesInv ==
    /\ \A f \in {live, fd} \ {None} : content[f] \in 1..lastGen
    /\ \A f \in Gens : content[f] <= lastGen
    /\ \A f, g \in Gens : content[f] = content[g] /\ content[f] # 0 => f = g
    /\ \A g \in Gens : g > lastGen => content[g] = 0

TypeInv == TypeOK /\ FilesInv

LEMMA NotifyType ==
    ASSUME TypeOK, NEW e \in {"create", "write"}, Notify(e)
    PROVE  events' \in Seq({"create", "write"})
  <1>1. events \in Seq({"create", "write"})
    BY DEF TypeOK
  <1>2. Append(events, e) \in Seq({"create", "write"})
    BY <1>1
  <1>3. events' = events \/ events' = Append(events, e)
    BY DEF Notify
  <1>4. QED
    BY <1>1, <1>2, <1>3

LEMMA LeaveType ==
    ASSUME TypeInv, Leave, UNCHANGED fileVars, UNCHANGED <<requests, opens, tailed>>,
           errors' \in 0..MaxErrors
    PROVE  TypeInv'
  <1>1. <<>> \in Seq({"create", "write"}) /\ 0 \in 0..MaxLen
    BY TailConstants
  <1>2. /\ pc' = "down" /\ events' = <<>> /\ fd' = None /\ seek' = 0 /\ offset' = 0
        /\ atEOF' = FALSE /\ unread' = FALSE
        /\ UNCHANGED <<live, content, len, lastGen, requests, opens, tailed>>
    BY DEF Leave, fileVars
  <1>3. TypeOK'
    BY <1>1, <1>2 DEF TypeInv, TypeOK
  <1>4. FilesInv'
    BY <1>2 DEF TypeInv, FilesInv
  <1>5. QED
    BY <1>3, <1>4 DEF TypeInv

LEMMA OpenAtType ==
    ASSUME TypeInv, live # None, NEW position \in 0..MaxLen, OpenAt(position),
           UNCHANGED fileVars, UNCHANGED <<events, requests, errors, tailed>>
    PROVE  TypeInv'
  <1>1. live \in Gens /\ content[live] \in Gens
    BY TailConstants DEF TypeInv, TypeOK, FilesInv, Gens
  <1>2. /\ pc' = "tail" /\ fd' = live /\ seek' = position /\ offset' = position
        /\ atEOF' = FALSE /\ unread' = TRUE
        /\ UNCHANGED <<live, content, len, lastGen, events, requests, errors, tailed>>
    BY DEF OpenAt, fileVars
  <1>3. opens' \in [Gens -> Nat]
    BY <1>1 DEF OpenAt, TypeInv, TypeOK
  <1>4. fd' \in Gens /\ fd' # None
    BY <1>1, <1>2
  <1>5. TypeOK'
    BY <1>2, <1>3, <1>4 DEF TypeInv, TypeOK
  <1>6. FilesInv'
    BY <1>2 DEF TypeInv, FilesInv
  <1>7. QED
    BY <1>5, <1>6 DEF TypeInv

\* Steps of the writer and of logrotate.
LEMMA EnvironmentType == TypeInv /\ Environment => TypeInv'
  <1> SUFFICES ASSUME TypeInv, Environment PROVE TypeInv'
    OBVIOUS
  <1> USE TailConstants
  <1>0. /\ lastGen \in Nat /\ Gens \subseteq Nat /\ None \notin Gens
        /\ content \in [Gens -> 0..MaxGen] /\ len \in [Gens -> 0..MaxLen]
        /\ live \in Gens \cup {None} /\ fd \in Gens \cup {None}
    <2>1. TypeOK
      BY DEF TypeInv
    <2>2. lastGen \in Nat /\ Gens \subseteq Nat /\ None \notin Gens
      BY <2>1, TailConstants DEF TypeOK, Gens
    <2>3. QED
      BY <2>1, <2>2 DEF TypeOK
  <1>1. ASSUME NEW f \in Gens, Write(f) PROVE TypeInv'
    <2>1. /\ len' = [len EXCEPT ![f] = len[f] + 1] /\ len[f] < MaxLen /\ (f = live \/ f = fd)
          /\ UNCHANGED <<live, content, lastGen, requests, pc, fd, seek, offset, atEOF, unread,
                         errors, opens>>
      BY <1>1 DEF Write, readerVars
    <2>2. len' \in [Gens -> 0..MaxLen]
      BY <1>0, <2>1
    <2>3. events' \in Seq({"create", "write"})
      BY <1>1, NotifyType DEF Write, TypeInv, TypeOK
    <2>4. tailed' \in [Lines -> Marks]
      BY <1>1 DEF Write, TypeInv, TypeOK, Marks
    <2>5. TypeOK'
      BY <2>1, <2>2, <2>3, <2>4 DEF TypeInv, TypeOK, Marks
    <2>6. FilesInv'
      BY <2>1 DEF TypeInv, FilesInv
    <2>7. QED
      BY <2>5, <2>6 DEF TypeInv
  <1>2. CASE Create
    <2>1. /\ lastGen < MaxGen /\ lastGen' = lastGen + 1 /\ live' = lastGen + 1
          /\ content' = [content EXCEPT ![lastGen + 1] = lastGen + 1]
          /\ UNCHANGED <<len, requests, pc, fd, seek, offset, atEOF, unread, errors, opens, tailed>>
      BY <1>2 DEF Create, readerVars
    <2>2. lastGen + 1 \in Gens /\ lastGen' \in 0..MaxGen
      BY <1>0, <2>1 DEF Gens
    <2>3. content' \in [Gens -> 0..MaxGen] /\ live' \in Gens
      BY <1>0, <2>1, <2>2 DEF Gens
    <2>4. events' \in Seq({"create", "write"})
      BY <1>2, NotifyType DEF Create, TypeInv
    <2>5. TypeOK'
      BY <2>1, <2>2, <2>3, <2>4 DEF TypeInv, TypeOK
    <2>6. \A f \in Gens : content'[f] = IF f = lastGen + 1 THEN lastGen + 1 ELSE content[f]
      BY <1>0, <2>1
    <2>7. FilesInv'
      BY <1>0, <2>1, <2>2, <2>6 DEF TypeInv, FilesInv
    <2>8. QED
      BY <2>5, <2>7 DEF TypeInv
  <1>3. CASE Remove
    <2>1. /\ live' = None
          /\ UNCHANGED <<content, len, lastGen, events, requests, pc, fd, seek, offset, atEOF,
                         unread, errors, opens, tailed>>
      BY <1>3 DEF Remove, readerVars
    <2>2. TypeOK' /\ FilesInv'
      BY <2>1 DEF TypeInv, TypeOK, FilesInv
    <2>3. QED
      BY <2>2 DEF TypeInv
  <1>4. CASE CopyTruncate
    <2>1. /\ live # None /\ lastGen < MaxGen /\ lastGen' = lastGen + 1
          /\ content' = [content EXCEPT ![live] = lastGen + 1]
          /\ len' = [len EXCEPT ![live] = 0]
          /\ opens' = [opens EXCEPT ![lastGen + 1] = 1]
          /\ UNCHANGED <<live, requests, pc, fd, seek, offset, atEOF, unread, errors, tailed>>
      BY <1>4 DEF CopyTruncate, readerVars
    <2>2. lastGen + 1 \in Gens /\ lastGen' \in 0..MaxGen /\ live \in Gens
      BY <1>0, <2>1 DEF Gens
    <2>3. content' \in [Gens -> 0..MaxGen] /\ len' \in [Gens -> 0..MaxLen]
      <3>1. lastGen + 1 \in 0..MaxGen /\ 0 \in 0..MaxLen
        BY <2>1, <2>2, TailConstants
      <3>2. content' \in [Gens -> 0..MaxGen]
        BY <1>0, <2>1, <3>1
      <3>3. len' \in [Gens -> 0..MaxLen]
        BY <1>0, <2>1, <3>1
      <3>4. QED
        BY <3>2, <3>3
    <2>4. opens' \in [Gens -> Nat]
      <3>1. opens \in [Gens -> Nat]
        BY DEF TypeInv, TypeOK
      <3>2. QED
        BY <2>1, <3>1
    <2>5. events' \in Seq({"create", "write"})
      BY <1>4, NotifyType DEF CopyTruncate, TypeInv
    <2>6. TypeOK'
      BY <2>1, <2>2, <2>3, <2>4, <2>5 DEF TypeInv, TypeOK
    <2>7. \A f \in Gens : content'[f] = IF f = live THEN lastGen + 1 ELSE content[f]
      BY <1>0, <2>1
    <2>8. FilesInv'
      BY <1>0, <2>1, <2>2, <2>7 DEF TypeInv, FilesInv
    <2>9. QED
      BY <2>6, <2>8 DEF TypeInv
  <1>5. QED
    BY <1>1, <1>2, <1>3, <1>4 DEF Environment

\* The scanner reads no further than the file, and never back.
LEMMA PositionType ==
    ASSUME TypeInv, pc = "read"
    PROVE  /\ fd \in Gens /\ fd # None
           /\ Position \in 0..MaxLen
           /\ Position = seek \/ Position = len[fd]
  BY TailConstants DEF TypeInv, TypeOK, Position

\* Steps of the watcher.
LEMMA WatchType == TypeInv /\ (Watch \/ StopOrFail) => TypeInv'
  <1> SUFFICES ASSUME TypeInv, Watch \/ StopOrFail PROVE TypeInv'
    OBVIOUS
  <1> USE TailConstants
  <1>1. CASE AddWatch
    BY <1>1 DEF AddWatch, TypeInv, TypeOK, FilesInv, fileVars, readerVars
  <1>2. CASE OpenAtEnd
    <2>1. len[live] \in 0..MaxLen
      BY <1>2 DEF OpenAtEnd, TypeInv, TypeOK
    <2>2. QED
      BY <1>2, <2>1, OpenAtType DEF OpenAtEnd
  <1>3. CASE Missing
    BY <1>3, LeaveType DEF Missing, TypeInv, TypeOK
  <1>4. CASE OnCreate
    <2>1. /\ pc' = "reopen" /\ fd' = None /\ events # <<>> /\ events' = Tail(events)
          /\ UNCHANGED <<live, content, len, lastGen, requests, seek, offset, atEOF, unread,
                         errors, opens, tailed>>
      BY <1>4 DEF OnCreate, fileVars
    <2>2. events' \in Seq({"create", "write"})
      BY <2>1 DEF TypeInv, TypeOK
    <2>3. TypeOK' /\ FilesInv'
      BY <2>1, <2>2 DEF TypeInv, TypeOK, FilesInv
    <2>4. QED
      BY <2>3 DEF TypeInv
  <1>5. CASE Reopen
    BY <1>5, OpenAtType DEF Reopen
  <1>6. CASE OnWrite
    <2>1. /\ pc = "tail" /\ pc' = "read" /\ events # <<>> /\ events' = Tail(events)
          /\ UNCHANGED <<live, content, len, lastGen, requests, fd, errors, opens, tailed>>
      BY <1>6 DEF OnWrite, fileVars
    <2>2. events' \in Seq({"create", "write"})
      BY <2>1 DEF TypeInv, TypeOK
    <2>3. seek' \in 0..MaxLen /\ offset' \in 0..MaxLen
      BY <1>6 DEF OnWrite, TypeInv, TypeOK
    <2>4. atEOF' \in BOOLEAN /\ unread' \in BOOLEAN
      <3>1. (atEOF' = FALSE /\ unread' = TRUE) \/ UNCHANGED <<atEOF, unread>>
        BY <1>6 DEF OnWrite
      <3>2. QED
        BY <3>1 DEF TypeInv, TypeOK
    <2>5. TypeOK' /\ FilesInv'
      BY <2>1, <2>2, <2>3, <2>4 DEF TypeInv, TypeOK, FilesInv
    <2>6. QED
      BY <2>5 DEF TypeInv
  <1>7. CASE ReadAndInsert
    <2>1. /\ pc = "read" /\ pc' = "tail" /\ seek' = Position /\ offset' = Position
          /\ atEOF' = TRUE /\ unread' = FALSE
          /\ UNCHANGED <<live, content, len, lastGen, events, fd, opens, tailed>>
      BY <1>7 DEF ReadAndInsert, fileVars
    <2>2. /\ requests' = [l \in Lines |-> requests[l] + IF l \in Scanned THEN 1 ELSE 0]
             \/ requests' = requests
          /\ errors' = errors \/ (errors < MaxErrors /\ errors' = errors + 1)
      BY <1>7 DEF ReadAndInsert
    <2>3. requests' \in [Lines -> Nat] /\ errors' \in 0..MaxErrors
      <3>1. \A l \in Lines : requests[l] + (IF l \in Scanned THEN 1 ELSE 0) \in Nat
        BY DEF TypeInv, TypeOK
      <3>2. requests' \in [Lines -> Nat]
        BY <2>2, <3>1 DEF TypeInv, TypeOK
      <3>3. errors' \in 0..MaxErrors
        BY <2>2 DEF TypeInv, TypeOK
      <3>4. QED
        BY <3>2, <3>3
    <2>4. Position \in 0..MaxLen
      BY <2>1, PositionType
    <2>5. TypeOK' /\ FilesInv'
      BY <2>1, <2>3, <2>4 DEF TypeInv, TypeOK, FilesInv
    <2>6. QED
      BY <2>5 DEF TypeInv
  <1>8. CASE ReadTooLong
    BY <1>8, LeaveType DEF ReadTooLong, TypeInv, TypeOK
  <1>9. CASE StopOrFail
    <2>1. errors' \in 0..MaxErrors
      BY <1>9 DEF StopOrFail, TypeInv, TypeOK
    <2>2. QED
      BY <1>9, <2>1, LeaveType DEF StopOrFail
  <1>10. QED
    BY <1>1, <1>2, <1>3, <1>4, <1>5, <1>6, <1>7, <1>8, <1>9 DEF Watch

LEMMA TypeInit == Init => TypeInv
  <1> SUFFICES ASSUME Init PROVE TypeInv
    OBVIOUS
  <1>1. <<>> \in Seq({"create", "write"})
    OBVIOUS
  <1>2. TypeOK
    <2>1. 0 \in 0..MaxGen /\ 0 \in 0..MaxLen /\ 0 \in 0..MaxErrors
      BY TailConstants
    <2>2. atEOF \in BOOLEAN /\ unread \in BOOLEAN
      BY DEF Init
    <2>3. tailed \in [Lines -> {"no", "fresh", "stale"}]
      BY DEF Init
    <2>4. QED
      BY <1>1, <2>1, <2>2, <2>3, TailConstants DEF Init, TypeOK
  <1>3. FilesInv
    BY TailConstants DEF Init, FilesInv, Gens
  <1>4. QED
    BY <1>2, <1>3 DEF TypeInv

LEMMA TypeStep == TypeInv /\ [Next]_vars => TypeInv'
  <1>1. TypeInv /\ UNCHANGED vars => TypeInv'
    BY DEF vars, fileVars, readerVars, TypeInv, TypeOK, FilesInv
  <1>2. QED
    BY <1>1, EnvironmentType, WatchType DEF Next

\* The file watcher keeps to its types (watchLoop, file.go).
THEOREM TailTypes == Spec => []TypeOK
  <1>1. TypeInv => TypeOK
    BY DEF TypeInv
  <1>2. QED
    BY <1>1, TypeInit, TypeStep, PTL DEF Spec

-----------------------------------------------------------------------------
(* Once for each opening.                                                  *)

\* Whether the scanner may still yield line l of the open file: it is ahead of
\* it, or the file was truncated and the next Write event starts again.
MayCome(l) ==
    /\ fd # None /\ content[fd] = l[1]
    /\ (~atEOF /\ seek < l[2]) \/ len[fd] < offset

OnceInv ==
    /\ fd # None => seek = offset
    /\ \A l \in Lines :
          /\ requests[l] <= opens[l[1]]
          /\ MayCome(l) => requests[l] < opens[l[1]]
          /\ l[1] > lastGen => requests[l] = 0 /\ opens[l[1]] = 0

\* A step that inserts nothing, opens nothing and lets no line come that may
\* not have come before.
LEMMA OnceKeeps ==
    ASSUME OnceInv, UNCHANGED <<requests, opens, lastGen>>, fd' # None => seek' = offset',
           \A l \in Lines : MayCome(l)' => MayCome(l)
    PROVE  OnceInv'
  BY DEF OnceInv

LEMMA EnvironmentOnce == TypeInv /\ OnceInv /\ Environment => OnceInv'
  <1> SUFFICES ASSUME TypeInv, OnceInv, Environment PROVE OnceInv'
    OBVIOUS
  <1>0. /\ lastGen \in Nat /\ Gens \subseteq Nat /\ None \notin Gens
        /\ content \in [Gens -> 0..MaxGen] /\ len \in [Gens -> 0..MaxLen]
        /\ live \in Gens \cup {None} /\ fd \in Gens \cup {None} /\ offset \in 0..MaxLen
        /\ \A l \in Lines : l[1] \in Gens /\ requests[l] \in Nat /\ opens[l[1]] \in Nat
        /\ opens \in [Gens -> Nat]
    <2>1. TypeOK
      BY DEF TypeInv
    <2>2. lastGen \in Nat /\ Gens \subseteq Nat /\ None \notin Gens
      BY <2>1, TailConstants DEF TypeOK, Gens
    <2>3. /\ content \in [Gens -> 0..MaxGen] /\ len \in [Gens -> 0..MaxLen]
          /\ live \in Gens \cup {None} /\ fd \in Gens \cup {None} /\ offset \in 0..MaxLen
          /\ opens \in [Gens -> Nat] /\ requests \in [Lines -> Nat]
      BY <2>1 DEF TypeOK
    <2>4. \A l \in Lines : l[1] \in Gens /\ requests[l] \in Nat /\ opens[l[1]] \in Nat
      BY <2>3 DEF Lines
    <2>5. QED
      BY <2>2, <2>3, <2>4
  <1>1. ASSUME NEW f \in Gens, Write(f) PROVE OnceInv'
    <2>1. /\ len' = [len EXCEPT ![f] = len[f] + 1]
          /\ UNCHANGED <<content, lastGen, requests, fd, seek, offset, atEOF, opens>>
      BY <1>1 DEF Write, readerVars
    <2>2. fd # None /\ len'[fd] < offset => len[fd] < offset
      <3>1. ASSUME fd # None PROVE len'[fd] = len[fd] \/ len'[fd] = len[fd] + 1
        BY <1>0, <2>1, <3>1
      <3>2. fd # None => len[fd] \in Nat
        BY <1>0, TailConstants
      <3>3. offset \in Nat
        BY <1>0, TailConstants
      <3>4. QED
        BY <3>1, <3>2, <3>3
    <2>3. \A l \in Lines : MayCome(l)' => MayCome(l)
      BY <2>1, <2>2 DEF MayCome
    <2>4. QED
      BY <2>1, <2>3, OnceKeeps DEF OnceInv
  <1>2. CASE Create
    <2>1. /\ lastGen < MaxGen /\ lastGen' = lastGen + 1
          /\ content' = [content EXCEPT ![lastGen + 1] = lastGen + 1]
          /\ UNCHANGED <<len, requests, fd, seek, offset, atEOF, opens>>
      BY <1>2 DEF Create, readerVars
    <2>2. lastGen + 1 \in Gens
      BY <1>0, <2>1, TailConstants DEF Gens
    <2>3. fd # None => fd # lastGen + 1
      <3>1. content[lastGen + 1] = 0
        BY <1>0, <2>2 DEF TypeInv, FilesInv
      <3>2. fd # None => content[fd] # 0
        BY DEF TypeInv, FilesInv
      <3>3. QED
        BY <3>1, <3>2
    <2>4. fd # None => content'[fd] = content[fd]
      BY <1>0, <2>1, <2>2, <2>3
    <2>5. \A l \in Lines : MayCome(l)' => MayCome(l)
      BY <2>1, <2>4 DEF MayCome
    <2>6. ASSUME NEW l \in Lines
          PROVE  l[1] > lastGen' => l[1] > lastGen
      <3>1. l[1] \in Nat /\ lastGen \in Nat
        BY <1>0, TailConstants DEF TypeInv, TypeOK
      <3>2. QED
        BY <2>1, <3>1
    <2>7. QED
      BY <2>1, <2>5, <2>6 DEF OnceInv
  <1>3. CASE Remove
    <2>1. UNCHANGED <<content, len, lastGen, requests, fd, seek, offset, atEOF, opens>>
      BY <1>3 DEF Remove, readerVars
    <2>2. QED
      BY <2>1, OnceKeeps DEF OnceInv, MayCome
  <1>4. CASE CopyTruncate
    <2>1. /\ live # None /\ lastGen < MaxGen /\ lastGen' = lastGen + 1
          /\ content' = [content EXCEPT ![live] = lastGen + 1]
          /\ len' = [len EXCEPT ![live] = 0]
          /\ opens' = [opens EXCEPT ![lastGen + 1] = 1]
          /\ UNCHANGED <<live, requests, fd, seek, offset, atEOF>>
      BY <1>4 DEF CopyTruncate, readerVars
    <2>2. lastGen + 1 \in Gens /\ live \in Gens
      BY <1>0, <2>1, TailConstants DEF Gens
    <2>3. \A l \in Lines : opens'[l[1]] = IF l[1] = lastGen + 1 THEN 1 ELSE opens[l[1]]
      BY <1>0, <2>1, <2>2
    <2>4. \A l \in Lines : l[1] = lastGen + 1 => requests[l] = 0
      BY <1>0 DEF OnceInv
    <2>5. ASSUME NEW l \in Lines
          PROVE  l[1] > lastGen' => l[1] > lastGen /\ l[1] # lastGen + 1
      <3>1. l[1] \in Nat /\ lastGen \in Nat
        BY <1>0, TailConstants DEF TypeInv, TypeOK
      <3>2. QED
        BY <2>1, <3>1
    <2>6. fd # None => \/ content'[fd] = lastGen + 1
                       \/ content'[fd] = content[fd] /\ len'[fd] = len[fd]
      BY <1>0, <2>1, <2>2
    <2>7. \A l \in Lines : MayCome(l)' => MayCome(l) \/ l[1] = lastGen + 1
      BY <2>1, <2>6 DEF MayCome
    <2>8. ASSUME NEW l \in Lines
          PROVE  /\ requests'[l] <= opens'[l[1]]
                 /\ MayCome(l)' => requests'[l] < opens'[l[1]]
                 /\ l[1] > lastGen' => requests'[l] = 0 /\ opens'[l[1]] = 0
      <3>1. requests'[l] = requests[l]
        BY <2>1
      <3>2. CASE l[1] = lastGen + 1
        BY <2>3, <2>4, <2>5, <3>1, <3>2
      <3>3. CASE l[1] # lastGen + 1
        BY <2>3, <2>5, <2>7, <3>1, <3>3 DEF OnceInv
      <3>4. QED
        BY <3>2, <3>3
    <2>9. QED
      BY <2>1, <2>8 DEF OnceInv
  <1>5. QED
    BY <1>1, <1>2, <1>3, <1>4 DEF Environment

\* Opening the log accounts for one more copy of each of its lines.
LEMMA OpenAtOnce ==
    ASSUME TypeInv, OnceInv, live # None, NEW position, OpenAt(position),
           UNCHANGED fileVars, UNCHANGED requests
    PROVE  OnceInv'
  <1>1. live \in Gens /\ content[live] \in Gens /\ content[live] <= lastGen
    BY TailConstants DEF TypeInv, TypeOK, FilesInv, Gens
  <1>2. /\ fd' = live /\ seek' = position /\ offset' = position
        /\ opens' = [opens EXCEPT ![content[live]] = opens[content[live]] + 1]
        /\ UNCHANGED <<content, lastGen, requests>>
    BY DEF OpenAt, fileVars
  <1>3. ASSUME NEW l \in Lines
        PROVE  /\ requests'[l] <= opens'[l[1]]
               /\ MayCome(l)' => requests'[l] < opens'[l[1]]
               /\ l[1] > lastGen' => requests'[l] = 0 /\ opens'[l[1]] = 0
    <2>1. /\ requests[l] \in Nat /\ l[1] \in Gens /\ opens[l[1]] \in Nat
          /\ requests[l] <= opens[l[1]] /\ requests'[l] = requests[l] /\ lastGen \in Nat
          /\ l[1] > lastGen => requests[l] = 0 /\ opens[l[1]] = 0
      BY <1>2, TailConstants DEF TypeInv, TypeOK, OnceInv, Lines
    <2>2. opens'[l[1]] = IF l[1] = content[live] THEN opens[l[1]] + 1 ELSE opens[l[1]]
      BY <1>1, <1>2, <2>1 DEF TypeInv, TypeOK
    <2>3. MayCome(l)' => l[1] = content[live]
      BY <1>2 DEF MayCome
    <2>4. l[1] > lastGen => l[1] # content[live]
      BY <1>1, <2>1 DEF Gens
    <2>5. QED
      BY <1>2, <2>1, <2>2, <2>3, <2>4
  <1>4. QED
    BY <1>2, <1>3 DEF OnceInv

LEMMA WatchOnce == TypeInv /\ OnceInv /\ (Watch \/ StopOrFail) => OnceInv'
  <1> SUFFICES ASSUME TypeInv, OnceInv, Watch \/ StopOrFail PROVE OnceInv'
    OBVIOUS
  <1>0. ASSUME fd' = None, UNCHANGED <<requests, opens, lastGen>> PROVE OnceInv'
    BY <1>0, OnceKeeps DEF MayCome
  <1>1. CASE AddWatch
    <2>1. UNCHANGED <<content, len, lastGen, requests, fd, seek, offset, atEOF, opens>>
      BY <1>1 DEF AddWatch, fileVars, readerVars
    <2>2. QED
      BY <2>1, OnceKeeps DEF OnceInv, MayCome
  <1>2. CASE OpenAtEnd \/ Reopen
    BY <1>2, OpenAtOnce DEF OpenAtEnd, Reopen
  <1>3. CASE Missing \/ ReadTooLong \/ StopOrFail
    BY <1>0, <1>3 DEF Missing, ReadTooLong, StopOrFail, Leave, fileVars
  <1>4. CASE OnCreate
    BY <1>0, <1>4 DEF OnCreate, fileVars
  <1>5. CASE OnWrite
    <2>1. UNCHANGED <<content, len, lastGen, requests, fd, opens>>
      BY <1>5 DEF OnWrite, fileVars
    <2>2. CASE len[fd] < offset
      <3>1. seek' = 0 /\ offset' = 0
        BY <1>5, <2>2 DEF OnWrite
      <3>2. \A l \in Lines : MayCome(l)' => MayCome(l)
        BY <2>1, <2>2 DEF MayCome
      <3>3. QED
        BY <2>1, <3>1, <3>2, OnceKeeps
    <2>3. CASE ~(len[fd] < offset)
      <3>1. UNCHANGED <<seek, offset, atEOF>>
        BY <1>5, <2>3 DEF OnWrite
      <3>2. QED
        BY <2>1, <3>1, OnceKeeps DEF OnceInv, MayCome
    <2>4. QED
      BY <2>2, <2>3
  <1>6. CASE ReadAndInsert
    <2>1. /\ seek' = Position /\ offset' = Position /\ atEOF' = TRUE
          /\ UNCHANGED <<content, len, lastGen, fd, opens>>
          /\ \/ requests' = [l \in Lines |-> requests[l] + IF l \in Scanned THEN 1 ELSE 0]
             \/ requests' = requests
      BY <1>6 DEF ReadAndInsert, fileVars
    <2>2. fd \in Gens /\ fd # None /\ seek = offset /\ len[fd] \in Nat /\ seek \in Nat
      BY <1>6, PositionType, TailConstants DEF ReadAndInsert, TypeInv, TypeOK, OnceInv
    <2>3. ASSUME NEW l \in Lines
          PROVE  /\ requests'[l] <= opens'[l[1]]
                 /\ MayCome(l)' => requests'[l] < opens'[l[1]]
                 /\ l[1] > lastGen' => requests'[l] = 0 /\ opens'[l[1]] = 0
      <3>1. /\ requests[l] \in Nat /\ l[1] \in Gens /\ opens[l[1]] \in Nat /\ opens' = opens
            /\ requests[l] <= opens[l[1]] /\ lastGen' = lastGen
            /\ MayCome(l) => requests[l] < opens[l[1]]
            /\ l[1] > lastGen => requests[l] = 0 /\ opens[l[1]] = 0
        BY <2>1, TailConstants DEF TypeInv, TypeOK, OnceInv, Lines
      <3>2. CASE requests'[l] = requests[l] /\ l \notin Scanned
        <4>1. MayCome(l)' => MayCome(l)
          <5>1. len[fd] < Position => len[fd] < offset
            BY <2>2 DEF Position
          <5>2. QED
            BY <2>1, <2>2, <5>1 DEF MayCome
        <4>2. QED
          BY <3>1, <3>2, <4>1
      <3>3. CASE l \in Scanned
        <4>1. ~atEOF /\ l[1] = content[fd] /\ seek < l[2] /\ l[2] <= len[fd]
          BY <3>3 DEF Scanned
        <4>2. MayCome(l)
          BY <2>2, <4>1 DEF MayCome
        <4>3. l[2] \in Nat
          BY TailConstants DEF Lines
        <4>4. Position = len[fd]
          BY <2>2, <4>1, <4>3 DEF Position
        <4>5. ~MayCome(l)'
          BY <2>1, <2>2, <4>4 DEF MayCome
        <4>6. requests'[l] = requests[l] \/ requests'[l] = requests[l] + 1
          <5>1. CASE requests' = requests
            BY <5>1
          <5>2. CASE requests' = [k \in Lines |-> requests[k] + IF k \in Scanned THEN 1 ELSE 0]
            BY <3>3, <5>2
          <5>3. QED
            BY <2>1, <5>1, <5>2
        <4>7. l[1] <= lastGen
          <5>1. content[fd] <= lastGen /\ lastGen \in Nat
            BY <2>2, TailConstants DEF TypeInv, TypeOK, FilesInv
          <5>2. QED
            BY <4>1, <5>1
        <4>8. lastGen \in Int /\ l[1] \in Int
          BY <3>1, TailConstants DEF TypeInv, TypeOK, Gens
        <4>9. requests'[l] <= opens[l[1]]
          BY <3>1, <4>2, <4>6
        <4>10. QED
          BY <3>1, <4>5, <4>7, <4>8, <4>9
      <3>4. l \in Scanned \/ requests'[l] = requests[l]
        BY <2>1, <3>1
      <3>5. QED
        BY <3>2, <3>3, <3>4
    <2>4. QED
      BY <2>1, <2>3 DEF OnceInv
  <1>7. QED
    BY <1>1, <1>2, <1>3, <1>4, <1>5, <1>6 DEF Watch

\* A line is inserted once for each opening of the content it is in, or restart
\* after a truncation (watchLoop and consumeReader, file.go), for any sequence
\* of events and any merging of them.
THEOREM TailOnce == Spec => []OnceForEachOpen
  <1>1. Init => OnceInv
    BY TailConstants DEF Init, OnceInv, MayCome, Lines, Gens
  <1>2. TypeInv /\ OnceInv /\ UNCHANGED vars => OnceInv'
    BY OnceKeeps DEF vars, fileVars, readerVars, OnceInv, MayCome
  <1>3. TypeInv /\ OnceInv /\ [Next]_vars => OnceInv'
    BY <1>2, EnvironmentOnce, WatchOnce DEF Next
  <1>4. OnceInv => OnceForEachOpen
    BY DEF OnceInv, OnceForEachOpen
  <1>5. QED
    BY <1>1, <1>3, <1>4, TypeInit, TypeStep, PTL DEF Spec
=============================================================================
