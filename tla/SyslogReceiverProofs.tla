------------------------ MODULE SyslogReceiverProofs ------------------------
(***************************************************************************)
(* Proofs about SyslogReceiver, for any number of receivers, connections,  *)
(* lines and faults.                                                       *)
(***************************************************************************)
EXTENDS SyslogReceiver, FiniteSetTheorems, TLAPS

Activities == {"idle", "insert", "hit"}

-----------------------------------------------------------------------------
(* Late rows.                                                              *)

\* Only receivers that were started are cancelled, and so stay cancelled.
ControlInv ==
    /\ started \in 0..MaxStarts
    /\ running \subseteq 1..started
    /\ cancelled \in [Receivers -> BOOLEAN]
    /\ \A r \in Receivers : cancelled[r] => r <= started
    /\ owner \in [Conns -> Receivers \cup {None}]
    /\ open \in [Conns -> BOOLEAN]
    /\ \A c \in Conns : open[c] => owner[c] \in Receivers

\* A connection that has a line at hand has written no late row: it took the
\* line before its receiver was cancelled, and takes none after.
LateInv ==
    /\ at \in [Handlers -> Activities]
    /\ late \in [Conns -> {0, 1}]
    /\ \A c \in Conns :
          /\ at[c] # "idle" \/ late[c] # 0 => owner[c] \in Receivers
          /\ at[c] = "insert" => late[c] = 0
          /\ late[c] # 0 => cancelled[owner[c]]

LEMMA ControlStep == ControlInv /\ [Next]_vars => ControlInv'
  <1> SUFFICES ASSUME ControlInv, [Next]_vars PROVE ControlInv'
    OBVIOUS
  <1> USE SyslogConstants DEF Receivers
  <1>1. ASSUME NEW p \in Protos, Start(p) PROVE ControlInv'
    <2>1. /\ started < MaxStarts /\ started' = started + 1
          /\ running' = running \cup {started + 1}
          /\ UNCHANGED <<cancelled, owner, open>>
      BY <1>1 DEF Start, handlers
    <2>2. QED
      BY <2>1 DEF ControlInv
  <1>2. ASSUME NEW r \in Receivers, Cancel(r) PROVE ControlInv'
    <2>1. /\ r \in running /\ cancelled' = [cancelled EXCEPT ![r] = TRUE]
          /\ UNCHANGED <<started, running, owner, open>>
      BY <1>2 DEF Cancel, handlers
    <2>2. QED
      BY <2>1 DEF ControlInv
  <1>3. ASSUME NEW r \in Receivers, Stopped(r) PROVE ControlInv'
    <2>1. running' = running \ {r} /\ UNCHANGED <<started, cancelled, owner, open>>
      BY <1>3 DEF Stopped, handlers
    <2>2. QED
      BY <2>1 DEF ControlInv
  <1>4. ASSUME NEW r \in Receivers, NEW c \in Conns, Accept(r, c) PROVE ControlInv'
    <2>1. /\ owner' = [owner EXCEPT ![c] = r]
          /\ open' = [open EXCEPT ![c] = TRUE]
          /\ UNCHANGED <<started, running, cancelled>>
      BY <1>4 DEF Accept, control
    <2>2. QED
      BY <2>1 DEF ControlInv
  <1>5. CASE Crash
    <2>1. /\ running' = {} /\ cancelled' = [r \in Receivers |-> r <= started]
          /\ open' = [c \in Conns |-> FALSE]
          /\ UNCHANGED <<started, owner>>
      BY <1>5 DEF Crash
    <2>2. \A r \in Receivers : (r <= started) \in BOOLEAN
      OBVIOUS
    <2>3. QED
      BY <2>1, <2>2 DEF ControlInv
  <1>6. ASSUME UNCHANGED <<started, running, cancelled, owner>>,
               open' \in [Conns -> BOOLEAN], \A c \in Conns : open'[c] => open[c]
        PROVE  ControlInv'
    BY <1>6 DEF ControlInv
  <1>7. ASSUME NEW r \in Receivers, NEW t \in {"udp", "tcp"}, Serve(r, t) \/ LoopFails(r, t)
        PROVE  ControlInv'
    BY <1>6, <1>7 DEF Serve, Bind, CloseSocket, ReleasePort, LoopEnds, LoopFails, control, handlers,
                      ControlInv
  <1>8. ASSUME NEW r \in Receivers, Datagram(r) \/ ReadDatagram(r) PROVE ControlInv'
    BY <1>6, <1>8 DEF Datagram, ReadDatagram, control, ControlInv
  <1>9. ASSUME NEW c \in Conns, Line(c) \/ HangUp(c) \/ Scan(c) \/ ScanTooLong(c)
        PROVE  ControlInv'
    <2>1. UNCHANGED <<started, running, cancelled, owner>>
      BY <1>9 DEF Line, HangUp, Scan, ScanTooLong, control
    <2>2. UNCHANGED open \/ open' = [open EXCEPT ![c] = FALSE]
      BY <1>9 DEF Line, HangUp, Scan, ScanTooLong, Close
    <2>3. QED
      BY <1>6, <2>1, <2>2 DEF ControlInv
  <1>10. ASSUME NEW h \in Handlers, Process(h) \/ InsertFails(h) PROVE ControlInv'
    BY <1>6, <1>10 DEF Process, InsertRow, InsertHit, InsertFails, control, ControlInv
  <1>11. CASE UNCHANGED vars
    BY <1>6, <1>11 DEF vars, control, handlers, ControlInv
  <1>12. QED
    BY <1>1, <1>2, <1>3, <1>4, <1>5, <1>7, <1>8, <1>9, <1>10, <1>11 DEF Next

LEMMA LateStep == ControlInv /\ LateInv /\ [Next]_vars => LateInv'
  <1> SUFFICES ASSUME ControlInv, LateInv, [Next]_vars PROVE LateInv'
    OBVIOUS
  <1>0. /\ Conns \subseteq Handlers /\ Receivers \subseteq Handlers
        /\ Conns \cap Receivers = {} /\ None \notin Receivers
    BY SyslogConstants DEF Handlers
  \* A step after which no connection is busier than before.
  <1>1. ASSUME UNCHANGED <<owner, late>>, at' \in [Handlers -> Activities],
               \A c \in Conns : at'[c] \in {at[c], "idle"},
               \A r \in Receivers : cancelled[r] => cancelled'[r]
        PROVE  LateInv'
    BY <1>1 DEF LateInv
  <1>2. ASSUME UNCHANGED <<owner, late, at, cancelled>> PROVE LateInv'
    BY <1>2 DEF LateInv
  <1>3. ASSUME NEW p \in Protos, Start(p) PROVE LateInv'
    BY <1>2, <1>3 DEF Start, handlers, tables
  <1>4. ASSUME NEW r \in Receivers, Cancel(r) PROVE LateInv'
    <2>1. /\ UNCHANGED <<owner, late, at>> /\ cancelled' = [cancelled EXCEPT ![r] = TRUE]
      BY <1>4 DEF Cancel, handlers, tables
    <2>2. QED
      BY <1>0, <1>1, <2>1 DEF LateInv, ControlInv
  <1>5. ASSUME NEW r \in Receivers, Stopped(r) PROVE LateInv'
    BY <1>2, <1>5 DEF Stopped, handlers, tables
  <1>6. ASSUME NEW r \in Receivers, NEW c \in Conns, Accept(r, c) PROVE LateInv'
    <2>1. /\ owner[c] = None /\ owner' = [owner EXCEPT ![c] = r]
          /\ UNCHANGED <<at, late, cancelled>>
      BY <1>6 DEF Accept, control, tables
    <2>2. QED
      BY <1>0, <2>1 DEF LateInv, ControlInv
  <1>7. CASE Crash
    <2>1. /\ UNCHANGED <<owner, late>> /\ at' = [h \in Handlers |-> "idle"]
          /\ cancelled' = [r \in Receivers |-> r <= started]
      BY <1>7 DEF Crash
    <2>2. \A r \in Receivers : cancelled[r] => cancelled'[r]
      BY <2>1 DEF ControlInv
    <2>3. at' \in [Handlers -> Activities] /\ \A c \in Conns : at'[c] = "idle"
      BY <1>0, <2>1 DEF Activities
    <2>4. QED
      BY <1>1, <2>1, <2>2, <2>3
  <1>8. ASSUME NEW r \in Receivers, NEW t \in {"udp", "tcp"}, Serve(r, t) \/ LoopFails(r, t)
        PROVE  LateInv'
    BY <1>2, <1>8 DEF Serve, Bind, CloseSocket, ReleasePort, LoopEnds, LoopFails,
                      control, handlers, tables
  <1>9. ASSUME NEW r \in Receivers, Datagram(r) PROVE LateInv'
    BY <1>2, <1>9 DEF Datagram, control, tables
  <1>10. ASSUME NEW r \in Receivers, ReadDatagram(r) PROVE LateInv'
    <2>1. /\ at' \in {at, [at EXCEPT ![r] = "insert"]}
          /\ UNCHANGED <<owner, late, cancelled>>
      BY <1>10 DEF ReadDatagram, Take, control, tables
    <2>2. at' \in [Handlers -> Activities] /\ \A c \in Conns : at'[c] = at[c]
      BY <1>0, <2>1 DEF LateInv, Activities
    <2>3. QED
      BY <1>1, <2>1, <2>2
  <1>11. ASSUME NEW c \in Conns, Line(c) \/ HangUp(c) \/ ScanTooLong(c) PROVE LateInv'
    BY <1>2, <1>11 DEF Line, HangUp, ScanTooLong, control, tables
  <1>12. ASSUME NEW c \in Conns, Scan(c) PROVE LateInv'
    <2>1. CASE cancelled[owner[c]]
      BY <1>2, <1>12, <2>1 DEF Scan, control, tables
    <2>2. CASE ~cancelled[owner[c]]
      <3>1. /\ at' \in {at, [at EXCEPT ![c] = "insert"]}
            /\ UNCHANGED <<owner, late, cancelled>>
        BY <1>12, <2>2 DEF Scan, Take, control, tables
      <3>2. late[c] = 0
        BY <2>2 DEF LateInv
      <3>3. owner[c] \in Receivers
        BY <1>12 DEF Scan, ControlInv
      <3>4. QED
        BY <1>0, <3>1, <3>2, <3>3 DEF LateInv, Activities
    <2>3. QED
      BY <2>1, <2>2
  <1>13. ASSUME NEW h \in Handlers, InsertRow(h) PROVE LateInv'
    <2>1. /\ at[h] = "insert" /\ at' = [at EXCEPT ![h] = "hit"]
          /\ late' = [c \in Conns |-> IF c = h /\ Late(c) THEN late[c] + 1 ELSE late[c]]
          /\ UNCHANGED <<owner, cancelled>>
      BY <1>13 DEF InsertRow, control
    <2>2. QED
      BY <1>0, <2>1 DEF LateInv, Late, Activities
  <1>14. ASSUME NEW h \in Handlers, InsertHit(h) \/ InsertFails(h) PROVE LateInv'
    <2>1. at' = [at EXCEPT ![h] = "idle"] /\ UNCHANGED <<owner, late, cancelled>>
      BY <1>14 DEF InsertHit, InsertFails, control, tables
    <2>2. at' \in [Handlers -> Activities] /\ \A c \in Conns : at'[c] \in {at[c], "idle"}
      BY <1>0, <2>1 DEF LateInv, Activities
    <2>3. QED
      BY <1>1, <2>1, <2>2
  <1>15. CASE UNCHANGED vars
    BY <1>2, <1>15 DEF vars, control, handlers, tables
  <1>16. QED
    BY <1>3, <1>4, <1>5, <1>6, <1>7, <1>8, <1>9, <1>10, <1>11, <1>12, <1>13, <1>14, <1>15
       DEF Next, Process

\* A TCP connection that outlives its receiver (handleTCPConn, syslog.go)
\* writes at most one more row, whatever is sent and whatever fails.
THEOREM OneLateRow == Spec => []AtMostOneLateRow
  <1>1. Init => ControlInv /\ LateInv
    BY SyslogConstants DEF Init, ControlInv, LateInv, Receivers, Handlers, Activities
  <1>2. LateInv => AtMostOneLateRow
    BY DEF LateInv, AtMostOneLateRow
  <1>3. QED
    BY <1>1, <1>2, ControlStep, LateStep, PTL DEF Spec

-----------------------------------------------------------------------------
(* Keyword hits.                                                           *)

\* Every handler between its two statements has a row more than hits.
HitsInv ==
    /\ at \in [Handlers -> Activities]
    /\ rows \in Nat /\ hits \in Nat /\ cut \in Nat /\ faults \in Nat
    /\ hits + Between <= rows
    /\ rows <= hits + faults + cut + Between

LEMMA HandlersFinite == \A H \in SUBSET Handlers : IsFiniteSet(H) /\ Cardinality(H) \in Nat
  <1>1. IsFiniteSet(Receivers)
    BY SyslogConstants, FS_Interval DEF Receivers
  <1>2. IsFiniteSet(Handlers)
    BY <1>1, SyslogConstants, FS_Union DEF Handlers
  <1>3. QED
    BY <1>2, FS_Subset, FS_CardinalityType

LEMMA BetweenFinite == Between \in Nat
  BY HandlersFinite DEF Between

\* How one handler's step changes the number of those between two statements.
LEMMA BetweenStep ==
    ASSUME at \in [Handlers -> Activities], NEW h \in Handlers, NEW a \in Activities,
           at' = [at EXCEPT ![h] = a]
    PROVE  /\ Between' \in Nat
           /\ a = "hit" /\ at[h] # "hit" => Between' = Between + 1
           /\ a # "hit" /\ at[h] = "hit" => Between' = Between - 1
           /\ a # "hit" /\ at[h] # "hit" => Between' = Between
  <1> DEFINE H == {k \in Handlers : at[k] = "hit"}
             G == {k \in Handlers : at'[k] = "hit"}
  <1>1. /\ IsFiniteSet(H) /\ Between = Cardinality(H)
        /\ Between' = Cardinality(G) /\ Cardinality(G) \in Nat
    BY HandlersFinite DEF Between
  <1>2. ASSUME a = "hit", at[h] # "hit" PROVE Between' = Between + 1
    <2>1. G = H \cup {h} /\ h \notin H
      BY <1>2
    <2>2. QED
      BY <1>1, <2>1, FS_AddElement
  <1>3. ASSUME a # "hit", at[h] = "hit" PROVE Between' = Between - 1
    <2>1. G = H \ {h} /\ h \in H
      BY <1>3
    <2>2. QED
      BY <1>1, <2>1, FS_RemoveElement
  <1>4. ASSUME a # "hit", at[h] # "hit" PROVE Between' = Between
    <2>1. G = H
      BY <1>4
    <2>2. QED
      BY <1>1, <2>1
  <1>5. QED
    BY <1>1, <1>2, <1>3, <1>4

LEMMA HitsStep == HitsInv /\ [Next]_vars => HitsInv'
  <1> SUFFICES ASSUME HitsInv, [Next]_vars PROVE HitsInv'
    OBVIOUS
  <1>0. Between \in Nat
    BY BetweenFinite
  \* A step that inserts nothing and leaves every handler where it is.
  <1>1. ASSUME UNCHANGED <<at, rows, hits, cut>>, faults' \in {faults, faults + 1}
        PROVE  HitsInv'
    <2>1. Between' = Between
      BY <1>1 DEF Between
    <2>2. at' = at /\ rows' = rows /\ hits' = hits /\ cut' = cut
      BY <1>1
    <2>3. CASE faults' = faults
      BY <1>0, <2>1, <2>2, <2>3 DEF HitsInv
    <2>4. CASE faults' = faults + 1
      BY <1>0, <2>1, <2>2, <2>4 DEF HitsInv
    <2>5. QED
      BY <1>1, <2>3, <2>4
  \* A handler takes the next line.
  <1>2. ASSUME NEW h \in Handlers, at[h] = "idle", Take(h),
               UNCHANGED <<rows, hits, cut, faults>>
        PROVE  HitsInv'
    <2>1. CASE at' = at
      BY <1>1, <1>2, <2>1
    <2>2. CASE at' = [at EXCEPT ![h] = "insert"]
      <3>1. Between' = Between
        BY <1>2, <2>2, BetweenStep DEF HitsInv, Activities
      <3>2. QED
        BY <1>2, <2>2, <3>1 DEF HitsInv, Activities
    <2>3. QED
      BY <1>2, <2>1, <2>2 DEF Take
  <1>3. CASE \E p \in Protos : Start(p)
    BY <1>1, <1>3 DEF Start, handlers, tables
  <1>4. ASSUME NEW r \in Receivers, Cancel(r) \/ Stopped(r) \/ Datagram(r) PROVE HitsInv'
    BY <1>1, <1>4 DEF Cancel, Stopped, Datagram, handlers, tables
  <1>5. ASSUME NEW r \in Receivers, ReadDatagram(r) PROVE HitsInv'
    <2>1. r \in Handlers
      BY DEF Handlers
    <2>2. QED
      BY <1>2, <1>5, <2>1 DEF ReadDatagram, tables
  <1>6. ASSUME NEW r \in Receivers, NEW c \in Conns, Accept(r, c) PROVE HitsInv'
    BY <1>1, <1>6 DEF Accept, tables
  <1>7. ASSUME NEW r \in Receivers, NEW t \in {"udp", "tcp"}, Serve(r, t) \/ LoopFails(r, t)
        PROVE  HitsInv'
    BY <1>1, <1>7 DEF Serve, Bind, CloseSocket, ReleasePort, LoopEnds, LoopFails, Fault,
                      handlers, tables
  <1>8. ASSUME NEW c \in Conns, Line(c) \/ HangUp(c) \/ ScanTooLong(c) PROVE HitsInv'
    BY <1>1, <1>8 DEF Line, HangUp, ScanTooLong, Fault, tables
  <1>9. ASSUME NEW c \in Conns, Scan(c) PROVE HitsInv'
    <2>1. c \in Handlers
      BY DEF Handlers
    <2>2. CASE cancelled[owner[c]]
      BY <1>1, <1>9, <2>2 DEF Scan, tables
    <2>3. CASE ~cancelled[owner[c]]
      BY <1>2, <1>9, <2>1, <2>3 DEF Scan, tables
    <2>4. QED
      BY <2>2, <2>3
  <1>10. ASSUME NEW h \in Handlers, InsertRow(h) PROVE HitsInv'
    <2>1. /\ at[h] = "insert" /\ at' = [at EXCEPT ![h] = "hit"]
          /\ rows' = rows + 1 /\ UNCHANGED <<hits, cut, faults>>
      BY <1>10 DEF InsertRow
    <2>2. Between' = Between + 1
      BY <2>1, BetweenStep DEF HitsInv, Activities
    <2>3. at' \in [Handlers -> Activities]
      BY <2>1 DEF HitsInv, Activities
    <2>4. QED
      BY <1>0, <2>1, <2>2, <2>3 DEF HitsInv
  <1>11. ASSUME NEW h \in Handlers, InsertHit(h) PROVE HitsInv'
    <2>1. /\ at[h] = "hit" /\ at' = [at EXCEPT ![h] = "idle"]
          /\ hits' = hits + 1 /\ UNCHANGED <<rows, cut, faults>>
      BY <1>11 DEF InsertHit
    <2>2. Between' = Between - 1 /\ Between' \in Nat
      BY <2>1, BetweenStep DEF HitsInv, Activities
    <2>3. at' \in [Handlers -> Activities]
      BY <2>1 DEF HitsInv, Activities
    <2>4. QED
      BY <1>0, <2>1, <2>2, <2>3 DEF HitsInv
  <1>12. ASSUME NEW h \in Handlers, InsertFails(h) PROVE HitsInv'
    <2>1. /\ at' = [at EXCEPT ![h] = "idle"] /\ faults' = faults + 1
          /\ UNCHANGED <<rows, hits, cut>>
      BY <1>12 DEF InsertFails, Fault, tables
    <2>2. Between' \in {Between, Between - 1} /\ Between' \in Nat
      BY <2>1, BetweenStep DEF HitsInv, Activities
    <2>3. at' \in [Handlers -> Activities]
      BY <2>1 DEF HitsInv, Activities
    <2>4. rows' = rows /\ hits' = hits /\ cut' = cut /\ faults' = faults + 1
      BY <2>1
    <2>5. CASE Between' = Between
      BY <1>0, <2>3, <2>4, <2>5 DEF HitsInv
    <2>6. CASE Between' = Between - 1
      BY <1>0, <2>3, <2>4, <2>6 DEF HitsInv
    <2>7. QED
      BY <2>2, <2>5, <2>6
  <1>13. CASE Crash
    <2>1. /\ at' = [h \in Handlers |-> "idle"] /\ cut' = cut + Between
          /\ faults' = faults + 1 /\ UNCHANGED <<rows, hits>>
      BY <1>13 DEF Crash, Fault
    <2>2. {h \in Handlers : at'[h] = "hit"} = {}
      BY <2>1
    <2>3. Between' = 0
      BY <2>2, FS_EmptySet DEF Between
    <2>4. at' \in [Handlers -> Activities]
      BY <2>1 DEF Activities
    <2>5. QED
      BY <1>0, <2>1, <2>3, <2>4 DEF HitsInv
  <1>14. CASE UNCHANGED vars
    BY <1>1, <1>14 DEF vars, handlers, tables
  <1>15. QED
    BY <1>3, <1>4, <1>5, <1>6, <1>7, <1>8, <1>9, <1>10, <1>11, <1>12, <1>13, <1>14
       DEF Next, Process

\* A row of a syslog line lacks its keyword hit only where a statement failed or
\* the process died between the two (Insert, storage.go), however many
\* connections insert at the same time; and no hit is without a row.
THEOREM HitsAccounted == Spec => []HitsAreComplete
  <1>1. Init => HitsInv
    <2> SUFFICES ASSUME Init PROVE HitsInv
      OBVIOUS
    <2>1. {h \in Handlers : at[h] = "hit"} = {}
      BY DEF Init
    <2>2. Between = 0
      BY <2>1, FS_EmptySet DEF Between
    <2>3. QED
      BY <2>2 DEF Init, HitsInv, Activities
  <1>2. HitsInv => HitsAreComplete
    BY BetweenFinite DEF HitsInv, HitsAreComplete
  <1>3. QED
    BY <1>1, <1>2, HitsStep, PTL DEF Spec

-----------------------------------------------------------------------------
(* Types.  That rows, hits and lost lines stay within the number of lines  *)
(* sent takes an account of where every line is.                           *)

\* The lines that wait where q says how many wait for each handler, and the
\* handlers that do s where a says what each is doing.
Waiting(q)  == {x \in Handlers \X (1..MaxLines) : x[2] <= q[x[1]]}
Doing(a, s) == {h \in Handlers : a[h] = s}

LEMMA WaitingFinite == \A W \in SUBSET (Handlers \X (1..MaxLines)) : IsFiniteSet(W) /\ Cardinality(W) \in Nat
  <1>1. IsFiniteSet(Handlers) /\ IsFiniteSet(1..MaxLines)
    BY HandlersFinite, SyslogConstants, FS_Interval
  <1>2. IsFiniteSet(Handlers \X (1..MaxLines))
    BY <1>1, FS_Product
  <1>3. QED
    BY <1>2, FS_Subset, FS_CardinalityType

\* One line more, one line less, and lines dropped.
LEMMA WaitingMore ==
    ASSUME NEW q \in [Handlers -> 0..MaxLines], NEW h \in Handlers, q[h] < MaxLines
    PROVE  Cardinality(Waiting([q EXCEPT ![h] = @ + 1])) = Cardinality(Waiting(q)) + 1
  <1> DEFINE r == [q EXCEPT ![h] = @ + 1]
             x == <<h, q[h] + 1>>
  <1> USE SyslogConstants
  <1>1. q[h] \in 0..MaxLines /\ q[h] + 1 \in 1..MaxLines
    OBVIOUS
  <1>2. x \in Handlers \X (1..MaxLines) /\ x \notin Waiting(q)
    BY <1>1 DEF Waiting
  <1>3. ASSUME NEW y \in Handlers \X (1..MaxLines)
        PROVE  y[2] <= r[y[1]] <=> y[2] <= q[y[1]] \/ y = x
    <2>1. PICK k \in Handlers, i \in 1..MaxLines : y = <<k, i>>
      OBVIOUS
    <2>2. CASE k = h
      BY <1>1, <2>1, <2>2
    <2>3. CASE k # h
      BY <2>1, <2>3
    <2>4. QED
      BY <2>2, <2>3
  <1>4. Waiting(r) = Waiting(q) \cup {x}
    BY <1>2, <1>3 DEF Waiting
  <1>5. IsFiniteSet(Waiting(q))
    BY WaitingFinite DEF Waiting
  <1>6. QED
    BY <1>2, <1>4, <1>5, FS_AddElement

LEMMA WaitingLess ==
    ASSUME NEW q \in [Handlers -> 0..MaxLines], NEW h \in Handlers, q[h] > 0
    PROVE  Cardinality(Waiting([q EXCEPT ![h] = @ - 1])) = Cardinality(Waiting(q)) - 1
  <1> DEFINE r == [q EXCEPT ![h] = @ - 1]
  <1> USE SyslogConstants
  <1>1. q[h] \in 1..MaxLines
    OBVIOUS
  <1>2. r \in [Handlers -> 0..MaxLines] /\ r[h] = q[h] - 1 /\ r[h] < MaxLines
    BY <1>1
  <1>3. [r EXCEPT ![h] = @ + 1] = q
    <2> DEFINE u == [r EXCEPT ![h] = @ + 1]
    <2>1. DOMAIN u = Handlers /\ DOMAIN q = Handlers
      BY <1>2
    <2>2. u[h] = q[h]
      BY <1>1, <1>2
    <2>3. \A k \in Handlers : k # h => u[k] = q[k]
      BY <1>2
    <2>4. \A k \in Handlers : u[k] = q[k]
      BY <2>2, <2>3
    <2>5. u = [k \in Handlers |-> u[k]] /\ q = [k \in Handlers |-> q[k]]
      BY <1>2
    <2>6. QED
      BY <2>4, <2>5, Zenon
  <1>4. Cardinality(Waiting(q)) = Cardinality(Waiting(r)) + 1
    BY <1>2, <1>3, WaitingMore
  <1>5. Cardinality(Waiting(r)) \in Nat
    BY WaitingFinite DEF Waiting
  <1>6. QED
    BY <1>4, <1>5

LEMMA WaitingFewer ==
    ASSUME NEW q \in [Handlers -> 0..MaxLines], NEW r \in [Handlers -> 0..MaxLines],
           \A h \in Handlers : r[h] <= q[h]
    PROVE  Cardinality(Waiting(r)) <= Cardinality(Waiting(q))
  <1> USE SyslogConstants
  <1>1. ASSUME NEW k \in Handlers, NEW i \in 1..MaxLines, i <= r[k] PROVE i <= q[k]
    <2>1. r[k] \in Int /\ q[k] \in Int /\ r[k] <= q[k]
      OBVIOUS
    <2>2. QED
      BY <1>1, <2>1
  <1>2. Waiting(r) \subseteq Waiting(q)
    BY <1>1 DEF Waiting
  <1>3. IsFiniteSet(Waiting(q))
    BY WaitingFinite DEF Waiting
  <1>4. QED
    BY <1>2, <1>3, FS_Subset

\* No more lines wait for one handler than wait.
LEMMA WaitingOfOne ==
    ASSUME NEW q \in [Handlers -> 0..MaxLines], NEW h \in Handlers
    PROVE  q[h] <= Cardinality(Waiting(q))
  <1> DEFINE W == {h} \X (1..q[h])
  <1> USE SyslogConstants
  <1>1. q[h] \in 0..MaxLines
    OBVIOUS
  <1>2. W \subseteq Waiting(q)
    BY <1>1 DEF Waiting
  <1>3. IsFiniteSet({h}) /\ Cardinality({h}) = 1
    BY FS_Singleton
  <1>4. IsFiniteSet(1..q[h]) /\ Cardinality(1..q[h]) = q[h]
    BY <1>1, FS_Interval
  <1>7. Cardinality(W) = 1 * q[h]
    <2>1. \A S, T : IsFiniteSet(S) /\ IsFiniteSet(T) => Cardinality(S \X T) = Cardinality(S) * Cardinality(T)
      BY FS_Product, Zenon
    <2>2. Cardinality({h} \X (1..q[h])) = Cardinality({h}) * Cardinality(1..q[h])
      BY <1>3, <1>4, <2>1, Zenon
    <2>3. QED
      BY <1>3, <1>4, <2>2
  <1>5. IsFiniteSet(Waiting(q))
    BY WaitingFinite DEF Waiting
  <1>6. QED
    BY <1>1, <1>2, <1>7, <1>5, FS_Subset

\* How one handler's step from a to b changes the number of those that do s.
LEMMA DoingStep ==
    ASSUME NEW a \in [Handlers -> Activities], NEW h \in Handlers, NEW b \in Activities,
           NEW s \in Activities
    PROVE  /\ Cardinality(Doing(a, s)) \in Nat
           /\ Cardinality(Doing([a EXCEPT ![h] = b], s)) \in Nat
           /\ b = s /\ a[h] # s => Cardinality(Doing([a EXCEPT ![h] = b], s)) = Cardinality(Doing(a, s)) + 1
           /\ b # s /\ a[h] = s => Cardinality(Doing([a EXCEPT ![h] = b], s)) = Cardinality(Doing(a, s)) - 1
           /\ b # s /\ a[h] # s => Cardinality(Doing([a EXCEPT ![h] = b], s)) = Cardinality(Doing(a, s))
  <1> DEFINE G == Doing([a EXCEPT ![h] = b], s)
             H == Doing(a, s)
  <1>1. /\ IsFiniteSet(H) /\ Cardinality(H) \in Nat /\ Cardinality(G) \in Nat
    BY HandlersFinite DEF Doing
  <1>2. b = s /\ a[h] # s => G = H \cup {h} /\ h \notin H
    BY DEF Doing
  <1>3. b # s /\ a[h] = s => G = H \ {h} /\ h \in H
    BY DEF Doing
  <1>4. b # s /\ a[h] # s => G = H
    BY DEF Doing
  <1> HIDE DEF G, H
  <1>5. b = s /\ a[h] # s => Cardinality(G) = Cardinality(H) + 1
    BY <1>1, <1>2, FS_AddElement
  <1>6. b # s /\ a[h] = s => Cardinality(G) = Cardinality(H) - 1
    BY <1>1, <1>3, FS_RemoveElement
  <1>7. b # s /\ a[h] # s => Cardinality(G) = Cardinality(H)
    BY <1>4, Zenon
  <1>8. QED
    BY <1>1, <1>5, <1>6, <1>7, Zenon DEF G, H

\* Where the lines sent are: waiting, about to be inserted, in requests or
\* dropped; and where the rows are: with a hit, about to have one, or cut off.
Account(q, a) ==
    /\ rows + Cardinality(Doing(a, "insert")) + Cardinality(Waiting(q)) <= sent
    /\ hits + Cardinality(Doing(a, "hit")) + cut <= rows

Counters ==
    /\ rows \in Nat /\ hits \in Nat /\ cut \in Nat
    /\ sent \in 0..MaxLines /\ faults \in 0..MaxFaults

LinesInv ==
    /\ at \in [Handlers -> Activities] /\ queue \in [Handlers -> 0..MaxLines]
    /\ Counters /\ Account(queue, at)
    /\ \A c \in Conns : late[c] <= rows

LEMMA AccountFinite ==
    ASSUME NEW q, NEW a, NEW s
    PROVE  Cardinality(Waiting(q)) \in Nat /\ Cardinality(Doing(a, s)) \in Nat
  BY WaitingFinite, HandlersFinite DEF Waiting, Doing

LEMMA LinesStep == LinesInv /\ LateInv /\ [Next]_vars => LinesInv'
  <1> SUFFICES ASSUME LinesInv, LateInv, [Next]_vars PROVE LinesInv'
    OBVIOUS
  <1> DEFINE W == Cardinality(Waiting(queue))
             I == Cardinality(Doing(at, "insert"))
             B == Cardinality(Doing(at, "hit"))
  <1>a. /\ MaxLines \in Nat /\ MaxFaults \in Nat
        /\ Conns \subseteq Handlers /\ Receivers \subseteq Handlers
    BY SyslogConstants DEF Handlers
  <1>b. /\ W \in Nat /\ I \in Nat /\ B \in Nat
        /\ W' \in Nat /\ I' \in Nat /\ B' \in Nat
    BY AccountFinite
  <1>c. /\ at \in [Handlers -> Activities] /\ queue \in [Handlers -> 0..MaxLines]
        /\ rows \in Nat /\ hits \in Nat /\ cut \in Nat
        /\ sent \in 0..MaxLines /\ faults \in 0..MaxFaults
        /\ rows + I + W <= sent /\ hits + B + cut <= rows
        /\ \A c \in Conns : late[c] <= rows /\ late[c] \in {0, 1}
    BY DEF LinesInv, LateInv, Counters, Account
  <1>f. /\ rows \in Nat /\ hits \in Nat /\ cut \in Nat /\ sent \in Int
        /\ rows + I + W <= sent /\ hits + B + cut <= rows
    BY <1>a, <1>c
  <1>d. ASSUME /\ at' \in [Handlers -> Activities] /\ queue' \in [Handlers -> 0..MaxLines]
               /\ rows' \in Nat /\ hits' \in Nat /\ cut' \in Nat
               /\ sent' \in 0..MaxLines /\ faults' \in 0..MaxFaults,
               rows' + I' + W' <= sent', hits' + B' + cut' <= rows',
               \A c \in Conns : late'[c] <= rows'
        PROVE  LinesInv'
    BY <1>d DEF LinesInv, Counters, Account
  <1>e. Fault => faults' \in 0..MaxFaults
    BY <1>a, <1>c DEF Fault
  <1>g. \A r, i, w, s, j, v \in Nat :
            r + i + w <= s /\ j + v <= i + w => r + j + v <= s
    OBVIOUS
  <1>h. \A r, i, w, s, j \in Nat : r + i + w <= s /\ j \in {i, i - 1} => r + j + w <= s
    OBVIOUS
  <1>k. \A i, w, j, v \in Nat : j = i /\ v <= w => j + v <= i + w
    OBVIOUS
  <1>l. \A i, w, j, v \in Nat : j \in {i, i + 1} /\ v = w - 1 => j + v <= i + w
    OBVIOUS
  <1>i. sent \in Nat
    BY <1>a, <1>c
  <1> HIDE DEF W, I, B
  \* A step that at most drops lines.
  <1>1. ASSUME UNCHANGED <<at, tables, sent>>, queue' \in [Handlers -> 0..MaxLines],
               \A h \in Handlers : queue'[h] <= queue[h], faults' \in 0..MaxFaults
        PROVE  LinesInv'
    <2>1. W' <= W
      BY <1>1, <1>c, WaitingFewer DEF W
    <2>2. I' = I /\ B' = B
      BY <1>1 DEF I, B
    <2>3. UNCHANGED <<at, rows, hits, cut, late, sent>>
      BY <1>1 DEF tables
    <2>4. rows' = rows /\ sent' = sent /\ hits' = hits /\ cut' = cut
      BY <2>3
    <2>5. rows' + I' + W' <= sent'
      <3>1. I' + W' <= I + W
        BY <1>b, <1>k, <2>1, <2>2, Zenon
      <3>2. rows + I' + W' <= sent
        BY <1>b, <1>f, <1>g, <1>i, <3>1, Zenon
      <3>3. QED
        BY <3>2, <2>4
    <2>6. hits' + B' + cut' <= rows'
      BY <1>b, <1>f, <2>2, <2>4
    <2>7. QED
      BY <1>1, <1>c, <1>d, <2>3, <2>5, <2>6
  <1>2. ASSUME UNCHANGED <<at, queue, tables, sent>>, faults' \in 0..MaxFaults
        PROVE  LinesInv'
    <2>1. \A h \in Handlers : queue'[h] <= queue[h]
      <3>1. \A h \in Handlers : queue[h] \in 0..MaxLines
        BY <1>c
      <3>2. \A h \in Handlers : queue[h] <= queue[h]
        BY <3>1, <1>a
      <3>3. QED
        BY <3>2, <1>2
    <2>2. QED
      BY <1>1, <1>2, <1>c, <2>1
  \* A connection or a UDP loop ends, with what waits for it.
  <1>3. ASSUME NEW h \in Handlers, queue' = [queue EXCEPT ![h] = 0],
               UNCHANGED <<at, tables, sent>>, faults' \in 0..MaxFaults
        PROVE  LinesInv'
    <2>1. queue' \in [Handlers -> 0..MaxLines]
      BY <1>3, <1>a, <1>c
    <2>2. ASSUME NEW k \in Handlers PROVE queue'[k] <= queue[k]
      BY <1>3, <1>a, <1>c
    <2>3. QED
      BY <1>1, <1>3, <2>1, <2>2
  \* A line arrives.
  <1>4. ASSUME NEW h \in Handlers, sent < MaxLines, queue' = [queue EXCEPT ![h] = @ + 1],
               sent' = sent + 1, UNCHANGED <<at, tables, faults>>
        PROVE  LinesInv'
    <2>1. queue[h] <= W /\ queue[h] \in 0..MaxLines
      BY <1>c, WaitingOfOne DEF W
    <2>2. queue[h] < MaxLines
      BY <1>4, <1>a, <1>b, <1>c, <2>1
    <2>3. W' = W + 1
      BY <1>4, <1>c, <2>2, WaitingMore DEF W
    <2>4. I' = I /\ B' = B
      BY <1>4 DEF I, B
    <2>5. UNCHANGED <<at, rows, hits, cut, late, faults>>
      BY <1>4 DEF tables
    <2>6. queue' \in [Handlers -> 0..MaxLines]
      <3>1. queue[h] + 1 \in 0..MaxLines
        BY <1>a, <2>1, <2>2
      <3>2. QED
        BY <1>4, <1>c, <3>1
    <2>7. rows' + I' + W' <= sent' /\ hits' + B' + cut' <= rows' /\ sent' \in 0..MaxLines
      BY <1>4, <1>a, <1>b, <1>c, <2>3, <2>4, <2>5
    <2>8. QED
      BY <1>c, <1>d, <2>5, <2>6, <2>7
  \* A handler takes the next line.
  <1>5. ASSUME NEW h \in Handlers, at[h] = "idle", queue[h] > 0, Take(h),
               UNCHANGED <<tables, sent, faults>>
        PROVE  LinesInv'
    <2>1. queue' = [queue EXCEPT ![h] = @ - 1] /\ queue[h] \in 0..MaxLines
      BY <1>5, <1>c DEF Take
    <2>2. W' = W - 1
      BY <1>5, <1>c, <2>1, WaitingLess DEF W
    <2>3. UNCHANGED <<rows, hits, cut, late, sent, faults>>
      BY <1>5 DEF tables
    <2>4. queue' \in [Handlers -> 0..MaxLines]
      <3>1. queue[h] - 1 \in 0..MaxLines
        BY <1>5, <1>a, <2>1
      <3>2. QED
        BY <1>c, <2>1, <3>1
    <2>5. /\ at' \in [Handlers -> Activities] /\ I' \in {I, I + 1} /\ B' = B
      <3>1. CASE at' = at
        BY <1>c, <3>1 DEF I, B
      <3>2. CASE at' = [at EXCEPT ![h] = "insert"]
        <4>1. at' \in [Handlers -> Activities]
          BY <1>c, <3>2 DEF Activities
        <4>2. I' = I + 1
          BY <1>5, <1>c, <3>2, DoingStep DEF I, Activities
        <4>3. B' = B
          BY <1>5, <1>c, <3>2, DoingStep DEF B, Activities
        <4>4. QED
          BY <4>1, <4>2, <4>3
      <3>3. QED
        BY <1>5, <3>1, <3>2 DEF Take
    <2>6. rows' = rows /\ sent' = sent /\ hits' = hits /\ cut' = cut
      BY <2>3
    <2>7. rows' + I' + W' <= sent'
      <3>1. I' + W' <= I + W
        BY <1>b, <1>l, <2>2, <2>5, Zenon
      <3>2. rows + I' + W' <= sent
        BY <1>b, <1>f, <1>g, <1>i, <3>1, Zenon
      <3>3. QED
        BY <3>2, <2>6
    <2>8. hits' + B' + cut' <= rows'
      BY <1>b, <1>f, <2>5, <2>6
    <2>9. QED
      BY <1>c, <1>d, <2>3, <2>4, <2>5, <2>7, <2>8
  <1>6. ASSUME NEW h \in Handlers, InsertRow(h) PROVE LinesInv'
    <2>1. /\ at[h] = "insert" /\ at' = [at EXCEPT ![h] = "hit"]
          /\ rows' = rows + 1 /\ UNCHANGED <<queue, hits, cut, sent, faults>>
          /\ late' = [c \in Conns |-> IF c = h /\ Late(c) THEN late[c] + 1 ELSE late[c]]
      BY <1>6 DEF InsertRow
    <2>2. I' = I - 1
      BY <1>c, <2>1, DoingStep DEF I, Activities
    <2>3. B' = B + 1
      BY <1>c, <2>1, DoingStep DEF B, Activities
    <2>4. W' = W
      BY <2>1 DEF W
    <2>5. at' \in [Handlers -> Activities]
      BY <1>c, <2>1 DEF Activities
    <2>6. \A c \in Conns : late'[c] <= rows'
      <3>1. ASSUME NEW c \in Conns PROVE late'[c] <= rows'
        <4>1. late[c] \in Int /\ late[c] <= rows /\ late'[c] \in {late[c], late[c] + 1}
          BY <1>c, <2>1
        <4>2. QED
          BY <1>c, <2>1, <4>1
      <3>2. QED
        BY <3>1
    <2>7. rows' + I' + W' <= sent' /\ hits' + B' + cut' <= rows'
      BY <1>b, <1>c, <2>1, <2>2, <2>3, <2>4
    <2>8. QED
      BY <1>c, <1>d, <2>1, <2>5, <2>6, <2>7
  <1>7. ASSUME NEW h \in Handlers, InsertHit(h) PROVE LinesInv'
    <2>1. /\ at[h] = "hit" /\ at' = [at EXCEPT ![h] = "idle"]
          /\ hits' = hits + 1 /\ UNCHANGED <<queue, rows, cut, late, sent, faults>>
      BY <1>7 DEF InsertHit
    <2>2. I' = I
      BY <1>c, <2>1, DoingStep DEF I, Activities
    <2>3. B' = B - 1
      BY <1>c, <2>1, DoingStep DEF B, Activities
    <2>4. W' = W
      BY <2>1 DEF W
    <2>5. at' \in [Handlers -> Activities]
      BY <1>c, <2>1 DEF Activities
    <2>6. rows' + I' + W' <= sent' /\ hits' + B' + cut' <= rows'
      BY <1>b, <1>c, <2>1, <2>2, <2>3, <2>4
    <2>7. QED
      BY <1>c, <1>d, <2>1, <2>5, <2>6
  <1>8. ASSUME NEW h \in Handlers, InsertFails(h) PROVE LinesInv'
    <2>1. /\ at[h] \in Activities /\ at[h] # "idle" /\ at' = [at EXCEPT ![h] = "idle"]
          /\ UNCHANGED <<queue, rows, hits, cut, late, sent>>
      BY <1>8, <1>c DEF InsertFails, tables
    <2>2. I' \in {I, I - 1}
      BY <1>c, <2>1, DoingStep DEF I, Activities
    <2>3. B' \in {B, B - 1}
      BY <1>c, <2>1, DoingStep DEF B, Activities
    <2>4. W' = W
      BY <2>1 DEF W
    <2>5. at' \in [Handlers -> Activities] /\ faults' \in 0..MaxFaults
      BY <1>8, <1>c, <1>e, <2>1 DEF Activities, InsertFails
    <2>6. rows' = rows /\ sent' = sent /\ hits' = hits /\ cut' = cut
      BY <2>1
    <2>7. rows' + I' + W' <= sent' /\ hits' + B' + cut' <= rows'
      <3>1. rows + I' + W <= sent
        BY <1>b, <1>f, <1>h, <1>i, <2>2, Zenon
      <3>2. hits + B' + cut <= rows
        BY <1>b, <1>f, <1>h, <2>3, Zenon
      <3>3. QED
        BY <3>1, <3>2, <2>4, <2>6
    <2>8. QED
      BY <1>c, <1>d, <2>1, <2>5, <2>7
  <1>9. CASE Crash
    <2>1. /\ at' = [h \in Handlers |-> "idle"] /\ queue' = [h \in Handlers |-> 0]
          /\ cut' = cut + B /\ UNCHANGED <<rows, hits, late, sent>>
      BY <1>9 DEF Crash, Between, B, Doing
    <2>2. Doing(at', "insert") = {} /\ Doing(at', "hit") = {} /\ Waiting(queue') = {}
      BY <2>1 DEF Doing, Waiting
    <2>3. I' = 0 /\ B' = 0 /\ W' = 0
      BY <2>2, FS_EmptySet DEF I, B, W
    <2>4. /\ at' \in [Handlers -> Activities] /\ queue' \in [Handlers -> 0..MaxLines]
      BY <1>a, <2>1 DEF Activities
    <2>5. faults' \in 0..MaxFaults
      BY <1>9, <1>e DEF Crash
    <2>6. /\ rows' + I' + W' <= sent' /\ hits' + B' + cut' <= rows' /\ cut' \in Nat
      BY <1>b, <1>c, <2>1, <2>3
    <2>7. QED
      BY <1>c, <1>d, <2>1, <2>4, <2>5, <2>6
  <1>10. faults' = faults => faults' \in 0..MaxFaults
    BY <1>c
  <1>11. CASE \E p \in Protos : Start(p)
    BY <1>2, <1>10, <1>11 DEF Start, handlers
  <1>12. ASSUME NEW r \in Receivers, Cancel(r) \/ Stopped(r) PROVE LinesInv'
    BY <1>2, <1>10, <1>12 DEF Cancel, Stopped, handlers
  <1>13. ASSUME NEW r \in Receivers, Datagram(r) PROVE LinesInv'
    BY <1>4, <1>13, <1>a DEF Datagram
  <1>14. ASSUME NEW r \in Receivers, ReadDatagram(r) PROVE LinesInv'
    BY <1>5, <1>14, <1>a DEF ReadDatagram
  <1>15. ASSUME NEW r \in Receivers, NEW c \in Conns, Accept(r, c) PROVE LinesInv'
    BY <1>2, <1>10, <1>15 DEF Accept
  <1>16. ASSUME NEW r \in Receivers, NEW t \in {"udp", "tcp"},
                Bind(r, t) \/ CloseSocket(r, t) \/ ReleasePort(r, t) \/ LoopFails(r, t)
         PROVE  LinesInv'
    BY <1>2, <1>10, <1>16, <1>e DEF Bind, CloseSocket, ReleasePort, LoopFails, handlers
  <1>17. ASSUME NEW r \in Receivers, NEW t \in {"udp", "tcp"}, LoopEnds(r, t) PROVE LinesInv'
    <2>1. /\ UNCHANGED <<at, tables, sent, faults>>
          /\ queue' = [queue EXCEPT ![r] = IF t = "udp" THEN 0 ELSE @]
      BY <1>17 DEF LoopEnds
    <2>2. CASE t = "udp"
      BY <1>3, <1>10, <1>a, <2>1, <2>2
    <2>3. CASE t # "udp"
      <3>1. queue' = queue
        BY <1>c, <2>1, <2>3
      <3>2. QED
        BY <1>2, <1>10, <2>1, <3>1
    <2>4. QED
      BY <2>2, <2>3
  <1>18. ASSUME NEW c \in Conns, Line(c) PROVE LinesInv'
    BY <1>4, <1>18, <1>a DEF Line
  <1>19. ASSUME NEW c \in Conns, HangUp(c) \/ ScanTooLong(c) PROVE LinesInv'
    BY <1>3, <1>10, <1>19, <1>a, <1>e DEF HangUp, ScanTooLong, Close
  <1>20. ASSUME NEW c \in Conns, Scan(c) PROVE LinesInv'
    <2>1. CASE cancelled[owner[c]]
      BY <1>3, <1>10, <1>20, <1>a, <2>1 DEF Scan, Close
    <2>2. CASE ~cancelled[owner[c]]
      BY <1>5, <1>20, <1>a, <2>2 DEF Scan
    <2>3. QED
      BY <2>1, <2>2
  <1>21. CASE UNCHANGED vars
    BY <1>2, <1>10, <1>21 DEF vars, handlers
  <1>22. QED
    BY <1>6, <1>7, <1>8, <1>9, <1>11, <1>12, <1>13, <1>14, <1>15, <1>16, <1>17, <1>18, <1>19,
       <1>20, <1>21 DEF Next, Process, Serve

\* The rest of the types: what the manager and the sockets do.
NetworkInv ==
    /\ proto \in [Receivers -> Protos \cup {None}]
    /\ stopping \in running \cup {None}
    /\ loop \in [Receivers -> [{"udp", "tcp"} -> {"off", "bind", "read", "done"}]]
    /\ sock \in [Receivers -> [{"udp", "tcp"} -> {"none", "bound", "closing", "closed"}]]

LEMMA NetworkStep == ControlInv /\ NetworkInv /\ [Next]_vars => NetworkInv'
  <1> SUFFICES ASSUME ControlInv, NetworkInv, [Next]_vars PROVE NetworkInv'
    OBVIOUS
  <1>1. ASSUME UNCHANGED <<proto, running, stopping, loop, sock>> PROVE NetworkInv'
    BY <1>1 DEF NetworkInv
  <1>2. ASSUME NEW p \in Protos, Start(p) PROVE NetworkInv'
    <2>1. /\ started' = started + 1 /\ started < MaxStarts
          /\ proto' = [proto EXCEPT ![started + 1] = p]
          /\ running' = running \cup {started + 1}
          /\ loop' = [loop EXCEPT ![started + 1] =
                [t \in {"udp", "tcp"} |-> IF t \in Transports(p) THEN "bind" ELSE "off"]]
          /\ stopping' = stopping /\ stopping = None /\ sock' = sock
      BY <1>2 DEF Start
    <2>2. QED
      BY <2>1 DEF NetworkInv
  <1>3. ASSUME NEW r \in Receivers, Cancel(r) PROVE NetworkInv'
    BY <1>3 DEF Cancel, NetworkInv, sockets
  <1>4. ASSUME NEW r \in Receivers, Stopped(r) PROVE NetworkInv'
    BY <1>4 DEF Stopped, NetworkInv, sockets
  <1>5. CASE Crash
    <2>1. proto' = proto /\ running' = {} /\ stopping' = None
      BY <1>5 DEF Crash
    <2>2. loop' \in [Receivers -> [{"udp", "tcp"} -> {"off", "bind", "read", "done"}]]
      BY <1>5 DEF Crash
    <2>3. sock' \in [Receivers -> [{"udp", "tcp"} -> {"none", "bound", "closing", "closed"}]]
      BY <1>5 DEF Crash
    <2>4. QED
      BY <2>1, <2>2, <2>3 DEF NetworkInv
  <1>6. ASSUME NEW r \in Receivers, NEW t \in {"udp", "tcp"}, Serve(r, t) \/ LoopFails(r, t)
        PROVE  NetworkInv'
    <2>1. UNCHANGED <<proto, running, stopping>>
      BY <1>6 DEF Serve, Bind, CloseSocket, ReleasePort, LoopEnds, LoopFails, control
    <2>2. \/ loop' = loop
          \/ loop' = [loop EXCEPT ![r][t] = "done"]
          \/ loop' = [loop EXCEPT ![r][t] = "read"]
      BY <1>6 DEF Serve, Bind, CloseSocket, ReleasePort, LoopEnds, LoopFails, sockets
    <2>3. \/ sock' = sock
          \/ sock' = [sock EXCEPT ![r][t] = "bound"]
          \/ sock' = [sock EXCEPT ![r][t] = "closing"]
          \/ sock' = [sock EXCEPT ![r][t] = "closed"]
      BY <1>6 DEF Serve, Bind, CloseSocket, ReleasePort, LoopEnds, LoopFails, sockets
    <2>4. loop' \in [Receivers -> [{"udp", "tcp"} -> {"off", "bind", "read", "done"}]]
      BY <2>2 DEF NetworkInv
    <2>5. sock' \in [Receivers -> [{"udp", "tcp"} -> {"none", "bound", "closing", "closed"}]]
      BY <2>3 DEF NetworkInv
    <2>6. QED
      BY <2>1, <2>4, <2>5 DEF NetworkInv
  <1>7. ASSUME NEW r \in Receivers, Datagram(r) \/ ReadDatagram(r) PROVE NetworkInv'
    BY <1>1, <1>7 DEF Datagram, ReadDatagram, control, sockets
  <1>8. ASSUME NEW r \in Receivers, NEW c \in Conns, Accept(r, c) PROVE NetworkInv'
    BY <1>1, <1>8 DEF Accept, control, sockets
  <1>9. ASSUME NEW c \in Conns, Line(c) \/ HangUp(c) \/ Scan(c) \/ ScanTooLong(c)
        PROVE  NetworkInv'
    BY <1>1, <1>9 DEF Line, HangUp, Scan, ScanTooLong, control, sockets
  <1>10. ASSUME NEW h \in Handlers, Process(h) \/ InsertFails(h) PROVE NetworkInv'
    BY <1>1, <1>10 DEF Process, InsertRow, InsertHit, InsertFails, control, sockets
  <1>11. CASE UNCHANGED vars
    BY <1>1, <1>11 DEF vars, control, sockets
  <1>12. QED
    BY <1>2, <1>3, <1>4, <1>5, <1>6, <1>7, <1>8, <1>9, <1>10, <1>11 DEF Next

LEMMA SyslogInv == Spec => [](ControlInv /\ LateInv /\ LinesInv /\ NetworkInv)
  <1>1. Init => ControlInv /\ LateInv /\ LinesInv /\ NetworkInv
    <2> SUFFICES ASSUME Init PROVE ControlInv /\ LateInv /\ LinesInv /\ NetworkInv
      OBVIOUS
    <2>1. Doing(at, "insert") = {} /\ Doing(at, "hit") = {} /\ Waiting(queue) = {}
      BY DEF Init, Doing, Waiting
    <2>2. Cardinality({}) = 0
      BY FS_EmptySet
    <2>3. ControlInv /\ LateInv
      BY SyslogConstants DEF Init, ControlInv, LateInv, Receivers, Handlers, Activities
    <2>4. LinesInv
      <3>1. Account(queue, at)
        <4>1. rows = 0 /\ sent = 0 /\ hits = 0 /\ cut = 0
          BY DEF Init
        <4>2. rows + 0 + 0 <= sent /\ hits + 0 + cut <= rows
          BY <4>1
        <4>3. QED
          BY <2>1, <2>2, <4>2 DEF Account
      <3>2. at \in [Handlers -> Activities] /\ queue \in [Handlers -> 0..MaxLines] /\ Counters
        BY SyslogConstants DEF Init, Counters, Activities
      <3>3. \A c \in Conns : late[c] <= rows
        BY DEF Init
      <3>4. QED
        BY <3>1, <3>2, <3>3 DEF LinesInv
    <2>5. NetworkInv
      BY DEF Init, NetworkInv
    <2>6. QED
      BY <2>3, <2>4, <2>5
  <1>2. QED
    BY <1>1, ControlStep, LateStep, LinesStep, NetworkStep, PTL DEF Spec

\* No receiver, socket or connection leaves its states, Apply waits only for a
\* receiver it runs, and there are no more rows, hits, late rows or cut-off
\* lines than MaxLines (syslog.go, Insert in storage.go).
THEOREM SyslogTypes == Spec => []TypeOK
  <1>1. ControlInv /\ LateInv /\ LinesInv /\ NetworkInv => TypeOK
    <2> SUFFICES ASSUME ControlInv, LateInv, LinesInv, NetworkInv PROVE TypeOK
      OBVIOUS
    <2>1. MaxLines \in Nat
      BY SyslogConstants
    <2>2. /\ Cardinality(Doing(at, "insert")) \in Nat /\ Cardinality(Doing(at, "hit")) \in Nat
          /\ Cardinality(Waiting(queue)) \in Nat
      BY AccountFinite
    <2>3. rows \in 0..MaxLines /\ hits \in 0..MaxLines /\ cut \in 0..MaxLines
      BY <2>1, <2>2 DEF LinesInv, Counters, Account
    <2>4. late \in [Conns -> 0..MaxLines]
      <3>1. \A c \in Conns : late[c] \in 0..MaxLines
        BY <2>1, <2>3 DEF LinesInv, LateInv
      <3>2. QED
        BY <3>1 DEF LateInv
    <2>5. running \in SUBSET Receivers
      BY SyslogConstants DEF ControlInv, Receivers
    <2>6. QED
      BY <2>3, <2>4, <2>5 DEF TypeOK, ControlInv, LinesInv, Counters, NetworkInv, Activities
  <1>2. QED
    BY <1>1, SyslogInv, PTL

\* Where the lines are: rows, lines a handler holds for its first statement and
\* lines that wait are together no more than were sent, so that none is
\* inserted twice; and hits, lines between the two statements and lines cut off
\* there are together no more than the rows.
LinesAccounted == Account(queue, at)

\* processMessage and Insert (syslog.go, storage.go) never multiply a line, and
\* write no hit for a line that has no row, whatever fails, hangs up or dies.
THEOREM SyslogConservesLines == Spec => []LinesAccounted
  <1>1. LinesInv => LinesAccounted
    BY DEF LinesInv, LinesAccounted
  <1>2. QED
    BY <1>1, SyslogInv, PTL
=============================================================================
