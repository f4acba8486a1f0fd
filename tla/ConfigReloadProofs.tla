------------------------- MODULE ConfigReloadProofs -------------------------
(***************************************************************************)
(* Proofs about SourceManager, and about ConfigReload, which composes it   *)
(* with the settings: the types, one reader for each key, that Apply leaves*)
(* running what it was asked to run; that the server uses the manager only *)
(* as SourceManager describes, and that a Set no other overlaps takes      *)
(* effect.  The theorems of MSpec use nothing of the settings.             *)
(***************************************************************************)
EXTENDS ConfigReload, WellFoundedInduction, TLAPS

-----------------------------------------------------------------------------
(* The manager on its own.                                                 *)

\* MTypeOK with what a call in progress knows of its argument.
MTypeInv ==
    /\ MTypeOK
    /\ \A c \in Callers :
          /\ pc[c] # "idle" => arg[c] \in Calls
          /\ toStart[c] # {} => /\ pc[c] # "idle" /\ arg[c] \in Configs
                                /\ toStart[c] \subseteq KeysOf(arg[c])

\* A live reader is the one running records under its key.
Owned ==
    \A r \in Readers : reader[r] # None =>
        /\ running[reader[r].key] # None
        /\ running[reader[r].key].reader = r

\* mu is held by the call that is past its Lock.
Holding == \A c \in Callers : pc[c] \in {"stop", "wait"} => mu = c

\* The keys c has still to release.
Doomed(c) == toStop[c] \cup (IF pc[c] = "wait" THEN {at[c]} ELSE {})

\* k runs the way rc asks for.
RunsAs(k, rc) ==
    /\ k \in KeysOf(rc)
    /\ running[k].source = Target(rc)[k]
    /\ running[k].keywords = rc.keywords

\* How far c has come with reconciling.
Progress(c) ==
    LET rc == arg[c] IN
    /\ pc[c] = "wait" => at[c] \in Keys
    /\ Teardown(rc) => toStart[c] = {} /\ Running \subseteq Doomed(c)
    /\ ~Teardown(rc) =>
          /\ \A k \in Running \ Doomed(c) : RunsAs(k, rc)
          /\ \A k \in KeysOf(rc) \ toStart[c] :
                \/ k \in Running \ Doomed(c)
                \/ Target(rc)[k] \in Unstartable

\* Between calls: what Reconciled says, and that m.keywords are those in use.
Settled ==
    /\ Reconciled
    /\ applied = None => Running = {}
    /\ \A k \in Running : running[k].keywords = keywords

ReconcileInv ==
    /\ Holding
    /\ \A k \in Running : running[k].source \notin Unstartable
    /\ mu = Nobody => Settled
    /\ \A c \in Callers : pc[c] \in {"stop", "wait"} => Progress(c)

-----------------------------------------------------------------------------
(* Types.                                                                  *)

\* Of the sources with key k the first is defined, and has key k.
LEMMA TargetDefined ==
    ASSUME NEW rc \in Configs, NEW k \in KeysOf(rc)
    PROVE  k \in Keys /\ Target(rc)[k] \in Sources
  <1> DEFINE Having == {i \in DOMAIN rc.sources : rc.sources[i].key = k}
  <1>1. Having \in SUBSET Nat /\ Having # {}
    BY ManagerConstants DEF KeysOf
  <1>2. PICK first \in Having : \A m \in Having : first <= m
    <2>1. PICK least \in Having : \A m \in Having : ~ (<<m, least>> \in OpToRel(<, Nat))
      BY <1>1, NatLessThanWellFounded, WFMin
    <2>2. ASSUME NEW other \in Having PROVE least <= other
      <3>1. least \in Nat /\ other \in Nat
        BY <1>1
      <3>2. ~ (other < least)
        BY <2>1, <3>1 DEF OpToRel
      <3>3. QED
        BY <3>1, <3>2
    <2>3. QED
      BY <2>2
  <1>3. \E i \in DOMAIN rc.sources :
           /\ rc.sources[i].key = k
           /\ \A j \in DOMAIN rc.sources : rc.sources[j].key = k => i <= j
    BY <1>2
  <1>4. Target(rc)[k] = rc.sources[CHOOSE i \in DOMAIN rc.sources :
           /\ rc.sources[i].key = k
           /\ \A j \in DOMAIN rc.sources : rc.sources[j].key = k => i <= j]
    BY DEF Target
  <1>5. \E i \in DOMAIN rc.sources : Target(rc)[k] = rc.sources[i]
    BY <1>3, <1>4
  <1>6. QED
    BY <1>5, ManagerConstants DEF Sources, KeysOf

\* The entry startLocked makes is one, and so not None.
LEMMA EntryType ==
    ASSUME MTypeInv, NEW c \in Callers, NEW k \in toStart[c], NEW r \in Readers
    PROVE  LET e == [source |-> Target(arg[c])[k], keywords |-> arg[c].keywords, reader |-> r]
           IN  e \in Entries /\ e # None
  <1>1. arg[c] \in Configs /\ k \in KeysOf(arg[c])
    BY DEF MTypeInv
  <1>2. Target(arg[c])[k] \in Sources /\ arg[c].keywords \in Keywords
    BY <1>1, TargetDefined DEF Keywords
  <1>3. QED
    BY <1>2, ManagerConstants DEF Entries

\* A reader that is told to go is still a reader of its key.
LEMMA CancelledType ==
    ASSUME NEW rd \in [key : Keys, cancelled : BOOLEAN]
    PROVE  [rd EXCEPT !.cancelled = TRUE] \in [key : Keys, cancelled : BOOLEAN]
  OBVIOUS

LEMMA MTypeInvInit == MInit => MTypeInv
  BY DEF MInit, MTypeInv, MTypeOK

LEMMA MTypeInvNext == MTypeInv /\ [MNext]_mvars => MTypeInv'
  <1> SUFFICES ASSUME MTypeInv, [MNext]_mvars PROVE MTypeInv'
    OBVIOUS
  <1> USE ManagerConstants DEF MTypeInv, MTypeOK, managerVars, callVars
  <1>1. ASSUME NEW c \in Callers, NEW rc \in Calls, Call(c, rc) PROVE MTypeInv'
    BY <1>1 DEF Call
  <1>2. ASSUME NEW c \in Callers, Lock(c) PROVE MTypeInv'
    <2>1. Outdated(arg[c]) \subseteq Keys
      BY DEF Outdated, Running
    <2>2. ~Teardown(arg[c]) => arg[c] \in Configs /\ KeysOf(arg[c]) \subseteq Keys
      BY <1>2 DEF Teardown, Calls, KeysOf, Lock
    <2>3. QED
      BY <1>2, <2>1, <2>2 DEF Lock
  <1>3. ASSUME NEW c \in Callers, NEW k \in Keys, CancelReader(c, k) PROVE MTypeInv'
    <2> DEFINE r == running[k].reader
    <2>1. reader' \in [Readers -> [key : Keys, cancelled : BOOLEAN] \cup {None}]
      <3>1. CASE reader[r] = None
        BY <1>3, <3>1 DEF CancelReader
      <3>2. CASE reader[r] # None
        <4>1. reader' = [reader EXCEPT ![r] = [reader[r] EXCEPT !.cancelled = TRUE]]
          BY <1>3, <3>2 DEF CancelReader
        <4>2. CASE r \in Readers
          BY <3>2, <4>1, <4>2, CancelledType
        <4>3. CASE r \notin Readers
          BY <4>1, <4>3
        <4>4. QED
          BY <4>2, <4>3
      <3>3. QED
        BY <3>1, <3>2
    <2>2. QED
      BY <1>3, <2>1 DEF CancelReader
  <1>4. ASSUME NEW c \in Callers, NEW k \in Keys, Released(c, k) PROVE MTypeInv'
    BY <1>4 DEF Released
  <1>5. ASSUME NEW c \in Callers, NEW k \in Keys, SkipStart(c, k) PROVE MTypeInv'
    BY <1>5 DEF SkipStart
  <1>6. ASSUME NEW c \in Callers, NEW k \in Keys, NEW r \in Readers, StartReader(c, k, r)
        PROVE  MTypeInv'
    <2>1. running' \in [Keys -> Entries \cup {None}]
      BY <1>6, EntryType DEF StartReader
    <2>2. reader' \in [Readers -> [key : Keys, cancelled : BOOLEAN] \cup {None}]
      BY <1>6 DEF StartReader
    <2>3. QED
      BY <1>6, <2>1, <2>2 DEF StartReader
  <1>7. ASSUME NEW c \in Callers, Unlock(c) PROVE MTypeInv'
    BY <1>7 DEF Unlock, Calls, Keywords
  <1>8. ASSUME NEW r \in Readers, ReaderExits(r) \/ ReaderDies(r) PROVE MTypeInv'
    BY <1>8 DEF ReaderExits, ReaderDies
  <1>9. CASE CancelContext
    <2>1. reader' \in [Readers -> [key : Keys, cancelled : BOOLEAN] \cup {None}]
      BY <1>9, CancelledType DEF CancelContext
    <2>2. QED
      BY <1>9, <2>1 DEF CancelContext
  <1>10. CASE NewProcess
    BY <1>10 DEF NewProcess
  <1>11. CASE UNCHANGED mvars
    BY <1>11 DEF mvars
  <1>12. QED
    BY <1>1, <1>2, <1>3, <1>4, <1>5, <1>6, <1>7, <1>8, <1>9, <1>10, <1>11
       DEF MNext, Proceed

\* The manager's variables have their types, in MSpec.
THEOREM ManagerTypes == MSpec => []MTypeInv
  <1>1. QED
    BY MTypeInvInit, MTypeInvNext, PTL DEF MSpec

-----------------------------------------------------------------------------
(* One reader for each key.                                                *)

LEMMA OwnedNext == MTypeInv /\ Owned /\ [MNext]_mvars => Owned'
  <1> SUFFICES ASSUME MTypeInv, Owned, [MNext]_mvars PROVE Owned'
    OBVIOUS
  <1> USE ManagerConstants DEF MTypeInv, MTypeOK, Owned, managerVars, callVars
  <1>1. ASSUME NEW c \in Callers, NEW rc \in Calls, Call(c, rc) PROVE Owned'
    BY <1>1 DEF Call
  <1>2. ASSUME NEW c \in Callers, Lock(c) \/ Unlock(c) PROVE Owned'
    BY <1>2 DEF Lock, Unlock
  <1>3. ASSUME NEW c \in Callers, NEW k \in Keys, CancelReader(c, k) PROVE Owned'
    <2>1. ASSUME NEW s \in Readers, reader'[s] # None
          PROVE  reader[s] # None /\ reader'[s].key = reader[s].key
      BY <1>3, <2>1 DEF CancelReader
    <2>2. running' = running
      BY <1>3 DEF CancelReader
    <2>3. QED
      BY <2>1, <2>2
  <1>4. ASSUME NEW c \in Callers, NEW k \in Keys, Released(c, k) PROVE Owned'
    BY <1>4 DEF Released
  <1>5. ASSUME NEW c \in Callers, NEW k \in Keys, SkipStart(c, k) PROVE Owned'
    BY <1>5 DEF SkipStart
  <1>6. ASSUME NEW c \in Callers, NEW k \in Keys, NEW r \in Readers, StartReader(c, k, r)
        PROVE  Owned'
    <2> SUFFICES ASSUME NEW s \in Readers, reader'[s] # None
                 PROVE  /\ running'[reader'[s].key] # None
                        /\ running'[reader'[s].key].reader = s
      OBVIOUS
    <2>1. CASE s = r
      <3>1. reader'[s].key = k
        BY <1>6, <2>1 DEF StartReader
      <3>2. QED
        BY <1>6, <2>1, <3>1, EntryType DEF StartReader, Entries
    <2>2. CASE s # r
      BY <1>6, <2>2 DEF StartReader
    <2>3. QED
      BY <2>1, <2>2
  <1>7. ASSUME NEW r \in Readers, ReaderExits(r) \/ ReaderDies(r) PROVE Owned'
    BY <1>7 DEF ReaderExits, ReaderDies
  <1>8. CASE CancelContext
    BY <1>8 DEF CancelContext
  <1>9. CASE NewProcess
    BY <1>9 DEF NewProcess
  <1>10. CASE UNCHANGED mvars
    BY <1>10 DEF mvars
  <1>11. QED
    BY <1>1, <1>2, <1>3, <1>4, <1>5, <1>6, <1>7, <1>8, <1>9, <1>10 DEF MNext, Proceed

\* At most one goroutine reads for a key at any time, whoever calls Apply, and
\* though readers die and contexts are cancelled under them.
THEOREM ManagerOneReader == MSpec => []OneReaderPerKey
  <1>1. MInit => Owned
    BY DEF MInit, Owned
  <1>2. MTypeInv /\ Owned => OneReaderPerKey
    BY DEF Owned, OneReaderPerKey
  <1>3. QED
    BY <1>1, <1>2, OwnedNext, ManagerTypes, PTL DEF MSpec

-----------------------------------------------------------------------------
(* Apply leaves running what it was asked to run.                          *)

\* One call is past its Lock at a time.
LEMMA Exclusive ==
    ASSUME Holding, NEW c \in Callers, pc[c] \in {"stop", "wait"},
           NEW d \in Callers, pc[d] \in {"stop", "wait"}
    PROVE  c = d /\ mu # Nobody
  BY ManagerConstants DEF Holding

\* Lock computes the plan that Progress measures.
LEMMA LockReconciles ==
    ASSUME MTypeInv, ReconcileInv, NEW c \in Callers, Lock(c)
    PROVE  ReconcileInv'
  <1> USE DEF managerVars
  <1>1. /\ mu = Nobody /\ mu' = c /\ mu' # Nobody
        /\ \A d \in Callers : pc[d] \notin {"stop", "wait"}
    BY ManagerConstants DEF Lock, ReconcileInv, Holding
  <1>2. pc'[c] = "stop" /\ \A d \in Callers \ {c} : pc'[d] = pc[d]
    BY DEF Lock, MTypeInv, MTypeOK
  <1>3. Holding' /\ Running' = Running
    BY <1>1, <1>2 DEF Holding, Lock, Running
  <1>4. Doomed(c)' = Outdated(arg[c]) /\ arg'[c] = arg[c]
    BY <1>2 DEF Lock, Doomed, MTypeInv, MTypeOK
  <1>5. toStart'[c] = IF Teardown(arg[c]) THEN {} ELSE KeysOf(arg[c])
    BY DEF Lock, MTypeInv, MTypeOK
  <1>6. \A k \in Running : running[k].keywords = keywords
    BY <1>1 DEF ReconcileInv, Settled
  <1>7. ASSUME ~Teardown(arg[c]), NEW k \in Running \ Outdated(arg[c])
        PROVE  RunsAs(k, arg[c])
    BY <1>6, <1>7 DEF Outdated, RunsAs
  <1>8. Progress(c)'
    <2>1. Teardown(arg[c]) => Running \subseteq Outdated(arg[c])
      BY DEF Outdated
    <2>2. \A k : RunsAs(k, arg[c])' <=> RunsAs(k, arg[c])
      BY <1>4 DEF RunsAs, Lock
    <2>3. QED
      BY <1>2, <1>3, <1>4, <1>5, <1>7, <2>1, <2>2 DEF Progress
  <1>9. QED
    BY <1>1, <1>2, <1>3, <1>8 DEF ReconcileInv, Lock

\* Cancelling a reader leaves its key doomed.
LEMMA CancelReaderReconciles ==
    ASSUME MTypeInv, ReconcileInv, NEW c \in Callers, NEW k \in Keys, CancelReader(c, k)
    PROVE  ReconcileInv'
  <1> USE DEF managerVars
  <1>1. /\ pc[c] = "stop" /\ pc'[c] = "wait" /\ at'[c] = k
        /\ \A d \in Callers \ {c} : pc'[d] = pc[d]
        /\ UNCHANGED <<mu, running, keywords, watch, arg, toStart, applied>>
    BY DEF CancelReader, MTypeInv, MTypeOK
  <1>2. mu # Nobody /\ \A d \in Callers \ {c} : pc[d] \notin {"stop", "wait"}
    BY <1>1, Exclusive DEF ReconcileInv
  <1>3. Doomed(c)' = Doomed(c)
    BY <1>1 DEF CancelReader, Doomed, MTypeInv, MTypeOK
  <1>4. Holding' /\ Running' = Running
    BY <1>1 DEF ReconcileInv, Holding, Running
  <1>5. Progress(c)
    BY <1>1 DEF ReconcileInv
  <1>6. Progress(c)'
    BY <1>1, <1>3, <1>4, <1>5 DEF Progress, RunsAs
  <1>7. QED
    BY <1>1, <1>2, <1>4, <1>6 DEF ReconcileInv

\* A released key was doomed, so nothing that is to stay goes with it.
LEMMA ReleasedReconciles ==
    ASSUME MTypeInv, ReconcileInv, NEW c \in Callers, NEW k \in Keys, Released(c, k)
    PROVE  ReconcileInv'
  <1>1. /\ pc[c] = "wait" /\ pc'[c] = "stop" /\ at[c] = k
        /\ \A d \in Callers \ {c} : pc'[d] = pc[d]
        /\ UNCHANGED <<mu, keywords, watch, arg, toStop, toStart, applied>>
    BY DEF Released, MTypeInv, MTypeOK
  <1>2. mu # Nobody /\ \A d \in Callers \ {c} : pc[d] \notin {"stop", "wait"}
    BY <1>1, Exclusive DEF ReconcileInv
  <1>3. Running' = Running \ {k} /\ \A j \in Running' : running'[j] = running[j]
    BY DEF Released, Running, MTypeInv, MTypeOK
  <1>4. Doomed(c) = toStop[c] \cup {k} /\ Doomed(c)' = toStop[c]
    BY <1>1 DEF Doomed
  <1>5. Running' \ Doomed(c)' = Running \ Doomed(c)
    BY <1>3, <1>4
  <1>6. Progress(c)
    BY <1>1 DEF ReconcileInv
  <1>7. \A j \in Running' : RunsAs(j, arg[c])' <=> RunsAs(j, arg[c])
    BY <1>1, <1>3 DEF RunsAs
  <1>8. Progress(c)'
    <2>1. Teardown(arg[c]) => toStart[c] = {} /\ Running' \subseteq Doomed(c)'
      BY <1>3, <1>4, <1>6 DEF Progress
    <2>2. ~Teardown(arg[c]) => \A j \in Running' \ Doomed(c)' : RunsAs(j, arg[c])'
      BY <1>5, <1>6, <1>7 DEF Progress
    <2>3. ~Teardown(arg[c]) => \A j \in KeysOf(arg[c]) \ toStart[c] :
              j \in Running' \ Doomed(c)' \/ Target(arg[c])[j] \in Unstartable
      BY <1>5, <1>6 DEF Progress
    <2>4. QED
      BY <1>1, <2>1, <2>2, <2>3 DEF Progress
  <1>9. Holding'
    BY <1>1 DEF ReconcileInv, Holding
  <1>10. QED
    BY <1>1, <1>2, <1>3, <1>8, <1>9 DEF ReconcileInv

\* A reader is started as the configuration says.
LEMMA StartReaderReconciles ==
    ASSUME MTypeInv, ReconcileInv, NEW c \in Callers, NEW k \in Keys, NEW r \in Readers,
           StartReader(c, k, r)
    PROVE  ReconcileInv'
  <1>1. /\ pc[c] = "stop" /\ toStop[c] = {} /\ k \in toStart[c]
        /\ UNCHANGED <<mu, keywords, watch, pc, arg, toStop, at, applied>>
    BY DEF StartReader
  <1>2. mu # Nobody /\ \A d \in Callers \ {c} : pc[d] \notin {"stop", "wait"}
    BY <1>1, Exclusive DEF ReconcileInv
  <1>3. /\ running'[k].source = Target(arg[c])[k] /\ running'[k].keywords = arg[c].keywords
        /\ Running' = Running \cup {k} /\ \A j \in Running \ {k} : running'[j] = running[j]
    BY <1>1, EntryType DEF StartReader, Running, MTypeInv, MTypeOK
  <1>4. Doomed(c) = {} /\ Doomed(c)' = {}
    BY <1>1 DEF Doomed
  <1>5. Progress(c)
    BY <1>1 DEF ReconcileInv
  <1>6. ~Teardown(arg[c]) /\ k \in KeysOf(arg[c])
    BY <1>1, <1>5 DEF Progress, MTypeInv
  <1>7. RunsAs(k, arg[c])'
    BY <1>1, <1>3, <1>6 DEF RunsAs
  <1>8. \A j \in Running \ {k} : RunsAs(j, arg[c])' <=> RunsAs(j, arg[c])
    BY <1>1, <1>3 DEF RunsAs
  <1>9. toStart'[c] = toStart[c] \ {k}
    BY DEF StartReader, MTypeInv, MTypeOK
  <1>10. Progress(c)'
    <2>1. \A j \in Running' \ Doomed(c)' : RunsAs(j, arg[c])'
      BY <1>3, <1>4, <1>5, <1>6, <1>7, <1>8 DEF Progress
    <2>2. \A j \in KeysOf(arg[c]) \ toStart'[c] :
              j \in Running' \ Doomed(c)' \/ Target(arg[c])[j] \in Unstartable
      BY <1>3, <1>4, <1>5, <1>6, <1>9 DEF Progress
    <2>3. QED
      BY <1>1, <1>6, <2>1, <2>2 DEF Progress
  <1>11. \A j \in Running' : running'[j].source \notin Unstartable
    BY <1>3 DEF StartReader, ReconcileInv
  <1>12. QED
    BY <1>1, <1>2, <1>10, <1>11 DEF ReconcileInv, Holding

\* Nothing to start for k: it runs, or it cannot.
LEMMA SkipStartReconciles ==
    ASSUME MTypeInv, ReconcileInv, NEW c \in Callers, NEW k \in Keys, SkipStart(c, k)
    PROVE  ReconcileInv'
  <1> USE DEF managerVars
  <1>1. /\ pc[c] = "stop" /\ toStop[c] = {}
        /\ UNCHANGED <<mu, running, keywords, watch, pc, arg, toStop, at, applied>>
        /\ toStart'[c] = toStart[c] \ {k}
    BY DEF SkipStart, MTypeInv, MTypeOK
  <1>2. mu # Nobody /\ \A d \in Callers \ {c} : pc[d] \notin {"stop", "wait"}
    BY <1>1, Exclusive DEF ReconcileInv
  <1>3. Doomed(c) = {} /\ Doomed(c)' = {} /\ Running' = Running
    BY <1>1 DEF Doomed, Running
  <1>4. Progress(c)
    BY <1>1 DEF ReconcileInv
  <1>5. k \in Running \/ Target(arg[c])[k] \in Unstartable
    BY DEF SkipStart, Running
  <1>6. Progress(c)'
    BY <1>1, <1>3, <1>4, <1>5 DEF Progress, RunsAs
  <1>7. QED
    BY <1>1, <1>2, <1>3, <1>6 DEF ReconcileInv, Holding

\* When Apply returns nothing is doomed and nothing is left to start.
LEMMA UnlockReconciles ==
    ASSUME MTypeInv, ReconcileInv, NEW c \in Callers, Unlock(c)
    PROVE  ReconcileInv'
  <1>1. /\ pc[c] = "stop" /\ pc'[c] = "idle" /\ toStop[c] = {} /\ toStart[c] = {}
        /\ \A d \in Callers \ {c} : pc'[d] = pc[d]
        /\ applied' = arg[c] /\ running' = running
        /\ arg[c] # StopAll => keywords' = arg[c].keywords
    BY DEF Unlock, MTypeInv, MTypeOK
  <1>2. \A d \in Callers : pc'[d] \notin {"stop", "wait"}
    BY <1>1, Exclusive DEF ReconcileInv
  <1>3. Doomed(c) = {} /\ Running' = Running
    BY <1>1 DEF Doomed, Running
  <1>4. Progress(c)
    BY <1>1 DEF ReconcileInv
  <1>5. applied' # None
    BY <1>1, ManagerConstants DEF MTypeInv
  <1>6. ASSUME Teardown(arg[c]) PROVE Running = {}
    BY <1>3, <1>4, <1>6 DEF Progress
  <1>7. ASSUME ~Teardown(arg[c])
        PROVE  /\ Running = {k \in KeysOf(arg[c]) : Target(arg[c])[k] \notin Unstartable}
               /\ \A k \in Running : RunsAs(k, arg[c])
    <2>1. \A k \in Running : RunsAs(k, arg[c])
      BY <1>3, <1>4, <1>7 DEF Progress
    <2>2. \A k \in Running : k \in KeysOf(arg[c]) /\ Target(arg[c])[k] \notin Unstartable
      BY <2>1 DEF RunsAs, ReconcileInv
    <2>3. \A k \in KeysOf(arg[c]) : k \in Running \/ Target(arg[c])[k] \in Unstartable
      BY <1>1, <1>3, <1>4, <1>7 DEF Progress
    <2>4. QED
      BY <2>1, <2>2, <2>3
  <1>8. Reconciled'
    BY <1>1, <1>3, <1>6, <1>7 DEF Reconciled, RunsAs
  <1>9. \A k \in Running' : running'[k].keywords = keywords'
    BY <1>1, <1>3, <1>6, <1>7 DEF RunsAs, Teardown
  <1>10. Settled'
    BY <1>5, <1>8, <1>9 DEF Settled
  <1>11. QED
    BY <1>1, <1>2, <1>3, <1>10 DEF ReconcileInv, Holding

LEMMA ReconcileNext == MTypeInv /\ ReconcileInv /\ [MNext]_mvars => ReconcileInv'
  <1> SUFFICES ASSUME MTypeInv, ReconcileInv, [MNext]_mvars PROVE ReconcileInv'
    OBVIOUS
  <1> DEFINE Same == UNCHANGED <<mu, running, keywords, watch, pc, arg, toStop, at, toStart, applied>>
  <1>1. ASSUME NEW c \in Callers, NEW rc \in Calls, Call(c, rc) PROVE ReconcileInv'
    <2>1. /\ pc[c] = "idle" /\ pc'[c] = "lock"
          /\ \A d \in Callers \ {c} : pc'[d] = pc[d] /\ arg'[d] = arg[d]
          /\ UNCHANGED <<mu, running, keywords, watch, toStop, at, toStart, applied>>
      BY <1>1 DEF Call, managerVars, MTypeInv, MTypeOK
    <2>2. Running' = Running
      BY <2>1 DEF Running
    <2>3. Holding' /\ (Settled' <=> Settled)
      BY <2>1, <2>2 DEF ReconcileInv, Holding, Settled, Reconciled
    <2>4. ASSUME NEW d \in Callers, pc'[d] \in {"stop", "wait"} PROVE Progress(d)'
      <3>1. d # c /\ pc'[d] = pc[d] /\ arg'[d] = arg[d] /\ Progress(d)
        BY <2>1, <2>4 DEF ReconcileInv
      <3>2. QED
        BY <2>1, <2>2, <3>1 DEF Progress, Doomed, RunsAs
    <2>5. QED
      BY <2>1, <2>2, <2>3, <2>4 DEF ReconcileInv
  <1>2. ASSUME NEW c \in Callers, Proceed(c) PROVE ReconcileInv'
    BY <1>2, LockReconciles, UnlockReconciles, CancelReaderReconciles,
       ReleasedReconciles, SkipStartReconciles, StartReaderReconciles DEF Proceed
  <1>3. ASSUME Same PROVE ReconcileInv'
    <2>1. Running' = Running
      BY <1>3 DEF Running
    <2>2. Holding' /\ (Settled' <=> Settled)
      BY <1>3, <2>1 DEF ReconcileInv, Holding, Settled, Reconciled
    <2>3. \A c \in Callers : Progress(c)' <=> Progress(c)
      BY <1>3, <2>1 DEF Progress, Doomed, RunsAs
    <2>4. QED
      BY <1>3, <2>1, <2>2, <2>3 DEF ReconcileInv
  <1>4. ASSUME NEW r \in Readers, ReaderExits(r) \/ ReaderDies(r) PROVE Same
    BY <1>4 DEF ReaderExits, ReaderDies, managerVars, callVars
  <1>5. CancelContext \/ UNCHANGED mvars => Same
    BY DEF CancelContext, mvars, managerVars, callVars
  <1>6. CASE NewProcess
    BY <1>6 DEF NewProcess, ReconcileInv, Holding, Settled, Reconciled, Running
  <1>7. QED
    BY <1>1, <1>2, <1>3, <1>4, <1>5, <1>6 DEF MNext

\* Whenever nobody holds mu, the running sources are those of the last
\* configuration applied, with its definitions and its keywords.
THEOREM ManagerReconciles == MSpec => []Reconciled
  <1>1. MInit => ReconcileInv
    BY DEF MInit, ReconcileInv, Holding, Settled, Reconciled, Running
  <1>2. ReconcileInv => Reconciled
    BY DEF ReconcileInv, Settled, Reconciled
  <1>3. QED
    BY <1>1, <1>2, ReconcileNext, ManagerTypes, PTL DEF MSpec

-----------------------------------------------------------------------------
(* Nobody holds mu for nothing.                                            *)

\* The reader of k is gone, or has been told to go.
Leaving(k) ==
    LET r == running[k].reader IN
    reader[r] # None => reader[r].key = k /\ reader[r].cancelled

\* The holder of mu is at work in Apply or Stop; if it waits, it waits for the
\* reader of a key that still runs, and that reader is leaving.
NoDeadEnd ==
    /\ mu # Nobody => pc[mu] \in {"stop", "wait"}
    /\ \A c \in Callers : pc[c] = "wait" => at[c] \in Running /\ Leaving(at[c])

\* The entries of running have readers of their own, and what a caller has yet
\* to stop is running, and is not what it waits for.
WaitInv ==
    /\ NoDeadEnd
    /\ \A j, k \in Running : running[j].reader = running[k].reader => j = k
    /\ \A c \in Callers : pc[c] \in {"stop", "wait"} => toStop[c] \subseteq Running
    /\ \A c \in Callers : pc[c] = "wait" => at[c] \notin toStop[c]

\* Steps that leave alone what WaitInv is about, but for cancelling and removing
\* readers, and but for a call that begins.
LEMMA WaitUntouched ==
    ASSUME MTypeInv, WaitInv, UNCHANGED <<mu, running, toStop, at>>,
           \A c \in Callers : \/ pc'[c] = pc[c]
                              \/ pc[c] = "idle" /\ pc'[c] = "lock",
           \A r \in Readers : \/ reader'[r] = None
                              \/ /\ reader[r] # None /\ reader'[r].key = reader[r].key
                                 /\ reader[r].cancelled => reader'[r].cancelled
    PROVE  WaitInv'
  <1>1. Running' = Running
    BY DEF Running
  <1>2. ASSUME NEW k \in Running, Leaving(k) PROVE Leaving(k)'
    <2>1. running[k].reader \in Readers
      BY DEF MTypeInv, MTypeOK, Running, Entries
    <2>2. QED
      BY <1>2, <2>1 DEF Leaving
  <1>3. mu # Nobody => mu \in Callers /\ pc'[mu] = pc[mu]
    BY DEF MTypeInv, MTypeOK, WaitInv, NoDeadEnd
  <1>4. NoDeadEnd'
    BY <1>1, <1>2, <1>3 DEF WaitInv, NoDeadEnd
  <1>5. QED
    BY <1>1, <1>4 DEF WaitInv

\* CancelReader: the reader of k is its own, and is told to go.
LEMMA CancelReaderWaits ==
    ASSUME MTypeInv, Owned, Holding, WaitInv,
           NEW c \in Callers, NEW k \in Keys, CancelReader(c, k)
    PROVE  WaitInv'
  <1> DEFINE r == running[k].reader
  <1>1. /\ pc[c] = "stop" /\ pc'[c] = "wait" /\ at'[c] = k /\ k \in toStop[c]
        /\ toStop'[c] = toStop[c] \ {k} /\ mu = c
        /\ \A d \in Callers \ {c} : pc'[d] = pc[d]
        /\ UNCHANGED <<mu, running>>
    BY DEF CancelReader, MTypeInv, MTypeOK, managerVars, Holding
  <1>2. \A d \in Callers \ {c} : pc[d] \notin {"stop", "wait"}
    BY <1>1, Exclusive
  <1>3. Running' = Running /\ k \in Running /\ toStop[c] \subseteq Running
    BY <1>1 DEF Running, WaitInv
  <1>4. r \in Readers
    BY <1>3 DEF MTypeInv, MTypeOK, Running, Entries
  <1>5. reader[r] # None => reader[r].key = k
    <2>1. ASSUME reader[r] # None
          PROVE  reader[r].key \in Running /\ running[reader[r].key].reader = r
      BY <1>4, <2>1 DEF MTypeInv, MTypeOK, Owned, Running
    <2>2. QED
      BY <1>3, <2>1 DEF WaitInv
  <1>6. Leaving(k)'
    BY <1>1, <1>4, <1>5 DEF CancelReader, Leaving, MTypeInv, MTypeOK
  <1>7. NoDeadEnd'
    BY <1>1, <1>2, <1>3, <1>6 DEF NoDeadEnd
  <1>8. \A i, j \in Running : running[i].reader = running[j].reader => i = j
    BY DEF WaitInv
  <1>9. QED
    BY <1>1, <1>2, <1>3, <1>7, <1>8 DEF WaitInv

\* Released: what is left to stop is not the key that goes.
LEMMA ReleasedWaits ==
    ASSUME MTypeInv, Holding, WaitInv, NEW c \in Callers, NEW k \in Keys, Released(c, k)
    PROVE  WaitInv'
  <1>1. /\ pc[c] = "wait" /\ pc'[c] = "stop" /\ at[c] = k /\ mu = c
        /\ \A d \in Callers \ {c} : pc'[d] = pc[d]
        /\ UNCHANGED <<mu, toStop>>
    BY DEF Released, MTypeInv, MTypeOK, Holding
  <1>2. \A d \in Callers \ {c} : pc[d] \notin {"stop", "wait"}
    BY <1>1, Exclusive
  <1>3. Running' = Running \ {k} /\ \A j \in Running' : running'[j] = running[j]
    BY DEF Released, Running, MTypeInv, MTypeOK
  <1>4. toStop[c] \subseteq Running \ {k}
    BY <1>1 DEF WaitInv
  <1>5. \A i, j \in Running' : running'[i].reader = running'[j].reader => i = j
    BY <1>3 DEF WaitInv
  <1>6. QED
    BY <1>1, <1>2, <1>3, <1>4, <1>5 DEF WaitInv, NoDeadEnd

\* StartReader: the new entry's reader is no other entry's; nobody waits.
LEMMA StartReaderWaits ==
    ASSUME MTypeInv, Holding, WaitInv, NEW c \in Callers, NEW k \in Keys, NEW r \in Readers,
           StartReader(c, k, r)
    PROVE  WaitInv'
  <1>1. /\ pc[c] = "stop" /\ toStop[c] = {} /\ k \in toStart[c] /\ mu = c
        /\ UNCHANGED <<mu, pc, toStop>>
    BY DEF StartReader, Holding
  <1>2. \A d \in Callers \ {c} : pc[d] \notin {"stop", "wait"}
    BY <1>1, Exclusive
  <1>3. /\ running'[k].reader = r /\ Running' = Running \cup {k}
        /\ \A j \in Running \ {k} : running'[j] = running[j]
    BY <1>1, EntryType DEF StartReader, Running, MTypeInv, MTypeOK
  <1>4. \A j \in Running : running[j].reader # r
    BY DEF StartReader
  <1>5. \A i, j \in Running' : running'[i].reader = running'[j].reader => i = j
    BY <1>3, <1>4 DEF WaitInv
  <1>6. QED
    BY <1>1, <1>2, <1>5 DEF WaitInv, NoDeadEnd

LEMMA WaitNext == MTypeInv /\ Owned /\ Holding /\ WaitInv /\ [MNext]_mvars => WaitInv'
  <1> SUFFICES ASSUME MTypeInv, Owned, Holding, WaitInv, [MNext]_mvars PROVE WaitInv'
    OBVIOUS
  <1>1. ASSUME NEW c \in Callers, NEW rc \in Calls, Call(c, rc) PROVE WaitInv'
    <2>1. /\ UNCHANGED <<mu, running, toStop, at, reader>>
          /\ pc[c] = "idle" /\ pc'[c] = "lock"
          /\ \A d \in Callers \ {c} : pc'[d] = pc[d]
      BY <1>1 DEF Call, managerVars, MTypeInv, MTypeOK
    <2>2. QED
      BY <2>1, WaitUntouched
  <1>2. ASSUME NEW c \in Callers, Lock(c) PROVE WaitInv'
    <2>1. /\ mu = Nobody /\ mu' = c /\ pc'[c] = "stop" /\ toStop'[c] = Outdated(arg[c])
          /\ \A d \in Callers \ {c} : pc'[d] = pc[d]
          /\ UNCHANGED running
      BY <1>2 DEF Lock, managerVars, MTypeInv, MTypeOK
    <2>2. \A d \in Callers : pc[d] \notin {"stop", "wait"}
      BY <2>1, ManagerConstants DEF Holding
    <2>3. Running' = Running /\ Outdated(arg[c]) \subseteq Running
      BY <2>1 DEF Running, Outdated
    <2>4. \A i, j \in Running : running[i].reader = running[j].reader => i = j
      BY DEF WaitInv
    <2>5. QED
      BY <2>1, <2>2, <2>3, <2>4 DEF WaitInv, NoDeadEnd
  <1>3. ASSUME NEW c \in Callers, Unlock(c) PROVE WaitInv'
    <2>1. /\ pc[c] = "stop" /\ mu' = Nobody /\ pc'[c] = "idle"
          /\ \A d \in Callers \ {c} : pc'[d] = pc[d]
          /\ UNCHANGED running
      BY <1>3 DEF Unlock, MTypeInv, MTypeOK
    <2>2. \A d \in Callers : pc'[d] \notin {"stop", "wait"}
      BY <2>1, Exclusive
    <2>3. Running' = Running
      BY <2>1 DEF Running
    <2>4. \A i, j \in Running : running[i].reader = running[j].reader => i = j
      BY DEF WaitInv
    <2>5. QED
      BY <2>1, <2>2, <2>3, <2>4 DEF WaitInv, NoDeadEnd
  <1>4. ASSUME NEW c \in Callers, NEW k \in Keys, SkipStart(c, k) PROVE WaitInv'
    <2>1. UNCHANGED <<mu, running, pc, toStop, at, reader>>
      BY <1>4 DEF SkipStart, managerVars
    <2>2. QED
      BY <2>1, WaitUntouched
  <1>5. ASSUME NEW r \in Readers, ReaderExits(r) \/ ReaderDies(r) PROVE WaitInv'
    <2>1. /\ UNCHANGED <<mu, running, pc, toStop, at>>
          /\ \A s \in Readers : reader'[s] = None \/ reader'[s] = reader[s]
      BY <1>5 DEF ReaderExits, ReaderDies, managerVars, callVars, MTypeInv, MTypeOK
    <2>2. QED
      BY <2>1, WaitUntouched
  <1>6. CASE CancelContext
    <2>1. UNCHANGED <<mu, running, pc, toStop, at>>
      BY <1>6 DEF CancelContext, managerVars, callVars
    <2>2. ASSUME NEW s \in Readers, reader'[s] # None
          PROVE  reader[s] # None /\ reader'[s].key = reader[s].key /\ reader'[s].cancelled
      BY <1>6, <2>2 DEF CancelContext, MTypeInv, MTypeOK
    <2>3. QED
      BY <2>1, <2>2, WaitUntouched
  <1>7. CASE NewProcess
    BY <1>7 DEF NewProcess, WaitInv, NoDeadEnd, Running
  <1>8. CASE UNCHANGED mvars
    <2>1. UNCHANGED <<mu, running, pc, toStop, at, reader>>
      BY <1>8 DEF mvars, managerVars, callVars
    <2>2. QED
      BY <2>1, WaitUntouched
  <1>9. QED
    BY <1>1, <1>2, <1>3, <1>4, <1>5, <1>6, <1>7, <1>8,
       CancelReaderWaits, ReleasedWaits, StartReaderWaits DEF MNext, Proceed

\* No call of Apply or Stop waits under mu for a reader that does not know of it,
\* nor for one of another key, and mu is never left locked behind: what stopLocked
\* (manager.go:124-134) relies on when it blocks with the mutex held.
THEOREM ManagerNoDeadEnd == MSpec => []NoDeadEnd
  <1>1. MInit => Owned /\ ReconcileInv /\ WaitInv
    BY DEF MInit, Owned, ReconcileInv, Holding, Settled, Reconciled, WaitInv, NoDeadEnd, Running
  <1>2. ReconcileInv => Holding
    BY DEF ReconcileInv
  <1>3. WaitInv => NoDeadEnd
    BY DEF WaitInv
  <1>4. QED
    BY <1>1, <1>2, <1>3, OwnedNext, ReconcileNext, WaitNext, ManagerTypes, PTL DEF MSpec

-----------------------------------------------------------------------------
(* The server.                                                             *)

\* The types of the store's and the server's variables.
SettingsTypeInv ==
    /\ row \in Configs \cup {None} /\ current \in Configs \cup {None}
    /\ geo \in BOOLEAN
    /\ phase \in {"start", "boot", "serving", "stopping", "down"}
    /\ step \in [Admins -> {"idle", "persist", "publish", "notify"}]
    /\ saving \in [Admins -> Configs \cup {None}]
    /\ pending \in [Admins -> SUBSET Subscribers]
    /\ saves \in 0..MaxSaves /\ restarts \in 0..MaxRestarts
    /\ stored \subseteq Configs /\ overlapped \in BOOLEAN
    /\ phase # "start" => current # None
    /\ \A a \in Admins : pending[a] # {} => step[a] = "notify"
    /\ \A a \in Admins : step[a] # "idle" => saving[a] # None

LEMMA SettingsTypeNext == SettingsTypeInv /\ [Next]_vars => SettingsTypeInv'
  <1> SUFFICES ASSUME SettingsTypeInv, [Next]_vars PROVE SettingsTypeInv'
    OBVIOUS
  <1> USE ConfigConstants, ManagerConstants DEF SettingsTypeInv, Calls, saveVars
  <1>1. CASE Load
    BY <1>1 DEF Load
  <1>2. CASE FirstApply \/ Signal \/ Stop
    BY <1>2 DEF FirstApply, Signal, Stop
  <1>3. CASE Serve
    BY <1>3 DEF Serve
  <1>4. CASE Restart
    <2>1. /\ step' = [a \in Admins |-> "idle"]
          /\ saving' = [a \in Admins |-> None] /\ pending' = [a \in Admins |-> {}]
          /\ row' = row /\ current' = None /\ geo' = FALSE /\ phase' = "start"
          /\ stored' = stored /\ overlapped' = FALSE /\ saves' = saves
      BY <1>4 DEF Restart
    <2>2. restarts' \in 0..MaxRestarts
      BY <1>4 DEF Restart
    <2>3. QED
      BY <2>1, <2>2
  <1>5. ASSUME NEW a \in Admins, NEW rc \in Configs, LockStore(a, rc) PROVE SettingsTypeInv'
    <2>1. /\ step[a] = "idle" /\ step' = [step EXCEPT ![a] = "persist"]
          /\ saving' = [saving EXCEPT ![a] = rc] /\ rc # None
          /\ UNCHANGED <<row, current, geo, phase, pending, restarts, stored, overlapped>>
      BY <1>5 DEF LockStore
    <2>2. saves' \in 0..MaxSaves
      BY <1>5 DEF LockStore
    <2>3. QED
      BY <2>1, <2>2
  <1>6. ASSUME NEW a \in Admins, Persist(a) PROVE SettingsTypeInv'
    <2>1. /\ step[a] = "persist" /\ step' = [step EXCEPT ![a] = "publish"]
          /\ row' = saving[a] /\ stored' = stored \cup {saving[a]}
          /\ UNCHANGED <<current, geo, phase, saving, pending, saves, restarts>>
      BY <1>6 DEF Persist
    <2>2. saving[a] \in Configs
      BY <2>1
    <2>3. overlapped' \in BOOLEAN
      BY <1>6 DEF Persist
    <2>4. QED
      BY <2>1, <2>2, <2>3
  <1>7. ASSUME NEW a \in Admins, PersistFails(a) PROVE SettingsTypeInv'
    BY <1>7 DEF PersistFails
  <1>8. ASSUME NEW a \in Admins, Publish(a) PROVE SettingsTypeInv'
    BY <1>8 DEF Publish
  <1>9. ASSUME NEW a \in Admins, NotifyManager(a) \/ NotifyGeo(a) PROVE SettingsTypeInv'
    <2>1. pending' \in [Admins -> SUBSET Subscribers]
          /\ \A b \in Admins : pending'[b] # {} => step[b] = "notify"
      BY <1>9 DEF NotifyManager, NotifyGeo
    <2>2. geo' \in BOOLEAN
      BY <1>9 DEF NotifyManager, NotifyGeo
    <2>3. UNCHANGED <<row, current, phase, step, saving, saves, restarts, stored, overlapped>>
      BY <1>9 DEF NotifyManager, NotifyGeo
    <2>4. QED
      BY <2>1, <2>2, <2>3
  <1>10. ASSUME NEW a \in Admins, Saved(a) PROVE SettingsTypeInv'
    BY <1>10 DEF Saved
  <1>11. CASE ManagerStep \/ UNCHANGED vars
    BY <1>11 DEF ManagerStep, vars, cvars
  <1>12. QED
    BY <1>1, <1>2, <1>3, <1>4, <1>5, <1>6, <1>7, <1>8, <1>9, <1>10, <1>11 DEF Next

\* Every step is a step of the manager or leaves it alone.
LEMMA ManagerSimulation == SettingsTypeInv /\ [Next]_vars => [MNext]_mvars
  <1> SUFFICES ASSUME SettingsTypeInv, [Next]_vars PROVE [MNext]_mvars
    OBVIOUS
  <1>1. CASE FirstApply
    BY <1>1, ConfigConstants DEF FirstApply, SettingsTypeInv, Calls, MNext
  <1>2. CASE Stop
    BY <1>2, ConfigConstants DEF Stop, Calls, MNext
  <1>3. ASSUME NEW a \in Admins, NotifyManager(a) PROVE MNext
    BY <1>3, ConfigConstants DEF NotifyManager, SettingsTypeInv, Calls, MNext
  <1>4. CASE Signal \/ Restart \/ ManagerStep
    BY <1>4 DEF Signal, Restart, ManagerStep, MNext
  <1>5. ASSUME NEW a \in Admins,
               \/ \E rc \in Configs : LockStore(a, rc)
               \/ Persist(a) \/ PersistFails(a) \/ Publish(a) \/ NotifyGeo(a) \/ Saved(a)
        PROVE  UNCHANGED mvars
    BY <1>5 DEF LockStore, Persist, PersistFails, Publish, NotifyGeo, Saved
  <1>6. Load \/ Serve \/ UNCHANGED vars => UNCHANGED mvars
    BY DEF Load, Serve, vars
  <1>7. QED
    BY <1>1, <1>2, <1>3, <1>4, <1>5, <1>6 DEF Next

\* The server drives the manager as MSpec allows: what is proved of the manager
\* on its own holds in the server.
THEOREM ServerUsesManager == Spec => MSpec /\ []SettingsTypeInv
  <1>1. Init => MInit /\ SettingsTypeInv
    <2>1. 0 \in 0..MaxSaves /\ 0 \in 0..MaxRestarts
      BY ConfigConstants
    <2>2. QED
      BY <2>1 DEF Init, SettingsTypeInv
  <1>2. Spec => []SettingsTypeInv
    BY <1>1, SettingsTypeNext, PTL DEF Spec
  <1>3. QED
    BY <1>1, <1>2, ManagerSimulation, PTL DEF Spec, MSpec

\* Every variable of the server keeps its type.
THEOREM ServerTypes == Spec => []TypeOK
  <1>1. MTypeInv /\ SettingsTypeInv => TypeOK
    BY DEF MTypeInv, SettingsTypeInv, TypeOK
  <1>2. QED
    BY <1>1, ServerUsesManager, ManagerTypes, PTL

\* The server never has two readers on one key.
THEOREM ServerOneReader == Spec => []OneReaderPerKey
  <1>1. QED
    BY ServerUsesManager, ManagerOneReader, PTL

\* Saves, restarts and shutdown, in any order and from any number of admins,
\* leave running what the last call of Apply or Stop asked for.
THEOREM ServerReconciles == Spec => []Reconciled
  <1>1. QED
    BY ServerUsesManager, ManagerReconciles, PTL

\* Nor does a save, a shutdown or a restart leave anyone waiting for nothing.
THEOREM ServerNoDeadEnd == Spec => []NoDeadEnd
  <1>1. QED
    BY ServerUsesManager, ManagerNoDeadEnd, PTL

-----------------------------------------------------------------------------
(* What is shown or applied was stored first.                              *)

\* What a step of Apply or Stop does to its caller.
LEMMA ProceedEffect ==
    ASSUME MTypeInv, NEW c \in Callers, Proceed(c)
    PROVE  /\ pc[c] # "idle"
           /\ \A d \in Callers \ {c} : pc'[d] = pc[d] /\ arg'[d] = arg[d]
           /\ \/ pc'[c] # "idle" /\ arg'[c] = arg[c] /\ applied' = applied
              \/ pc'[c] = "idle" /\ applied' = arg[c]
  BY DEF Proceed, Lock, Unlock, CancelReader, Released, SkipStart, StartReader,
         managerVars, MTypeInv, MTypeOK

\* Between persist and publish the row alone is the new document; else it is
\* current.
StoredInv ==
    /\ \A a, b \in Admins : {step[a], step[b]} \subseteq {"persist", "publish"} => a = b
    /\ row # None => row \in stored
    /\ current # None => current \in stored
    /\ current # None /\ (\A a \in Admins : step[a] # "publish") => current = row
    /\ \A a \in Admins : /\ step[a] = "publish" => saving[a] = row
                         /\ step[a] \in {"publish", "notify"} => saving[a] \in stored
    /\ phase = "start" => \A a \in Admins : step[a] = "idle"
    /\ \A c \in Callers : pc[c] # "idle" => arg[c] \in stored \cup {StopAll}
    /\ applied \in stored \cup {None, StopAll}

\* A step of the manager moves the documents it was given and no others.
LEMMA ManagerStepStored ==
    ASSUME MTypeInv, StoredInv, ManagerStep
    PROVE  StoredInv'
  <1>1. UNCHANGED <<row, current, phase, step, saving, stored>>
    BY DEF ManagerStep, cvars, saveVars
  <1>2. /\ \A d \in Callers : pc'[d] # "idle" => arg'[d] \in stored \cup {StopAll}
        /\ applied' \in stored \cup {None, StopAll}
    <2>1. ASSUME NEW c \in Callers, Proceed(c)
          PROVE  /\ \A d \in Callers : pc'[d] # "idle" => arg'[d] \in stored \cup {StopAll}
                 /\ applied' \in stored \cup {None, StopAll}
      BY <2>1, ProceedEffect DEF StoredInv
    <2>2. ASSUME NEW r \in Readers, ReaderExits(r) \/ ReaderDies(r)
          PROVE  UNCHANGED <<pc, arg, applied>>
      BY <2>2 DEF ReaderExits, ReaderDies, callVars
    <2>3. QED
      BY <2>1, <2>2 DEF ManagerStep, StoredInv
  <1>3. QED
    BY <1>1, <1>2 DEF StoredInv

LEMMA StoredNext == MTypeInv /\ SettingsTypeInv /\ StoredInv /\ [Next]_vars => StoredInv'
  <1> SUFFICES ASSUME MTypeInv, SettingsTypeInv, StoredInv, [Next]_vars PROVE StoredInv'
    OBVIOUS
  <1> USE DEF saveVars
  <1>1. CASE Load
    BY <1>1, ConfigConstants, ManagerConstants
       DEF Load, StoredInv, SettingsTypeInv, mvars, callVars, Calls
  <1>2. CASE FirstApply
    <2>1. /\ current # None /\ phase' = "boot"
          /\ UNCHANGED <<row, current, step, saving, stored, applied>>
          /\ arg'[Main] = current /\ \A c \in Callers \ {Main} : pc'[c] = pc[c] /\ arg'[c] = arg[c]
      BY <1>2, ConfigConstants DEF FirstApply, Call, MTypeInv, MTypeOK
    <2>2. QED
      BY <2>1, ConfigConstants DEF StoredInv
  <1>3. CASE Serve
    BY <1>3 DEF Serve, StoredInv, mvars, callVars
  <1>4. ASSUME NEW a \in Admins, NEW rc \in Configs, LockStore(a, rc) PROVE StoredInv'
    <2>1. /\ phase # "start" /\ phase' = phase /\ StoreFree /\ step[a] = "idle" /\ step'[a] = "persist"
          /\ \A b \in Admins \ {a} : step'[b] = step[b] /\ saving'[b] = saving[b]
          /\ UNCHANGED <<row, current, stored, pc, arg, applied>>
      BY <1>4 DEF LockStore, SettingsTypeInv, mvars, callVars
    <2>2. \A b, d \in Admins : {step'[b], step'[d]} \subseteq {"persist", "publish"} => b = d
      BY <2>1 DEF StoreFree
    <2>3. QED
      BY <2>1, <2>2 DEF StoredInv
  <1>5. ASSUME NEW a \in Admins, Persist(a) PROVE StoredInv'
    <2>1. /\ step[a] = "persist" /\ step'[a] = "publish" /\ row' = saving[a]
          /\ stored' = stored \cup {saving[a]} /\ phase' = phase
          /\ \A b \in Admins \ {a} : step'[b] = step[b]
          /\ UNCHANGED <<current, saving, pc, arg, applied>>
      BY <1>5 DEF Persist, SettingsTypeInv, mvars, callVars
    <2>2. \A b, d \in Admins : {step'[b], step'[d]} \subseteq {"persist", "publish"} => b = d
      BY <2>1 DEF StoredInv
    <2>3. \A b \in Admins : /\ step'[b] = "publish" => saving[b] = row'
                            /\ step'[b] \in {"publish", "notify"} => saving[b] \in stored'
      BY <2>1 DEF StoredInv
    <2>4. QED
      BY <2>1, <2>2, <2>3 DEF StoredInv
  <1>6. ASSUME NEW a \in Admins, PersistFails(a) PROVE StoredInv'
    BY <1>6 DEF PersistFails, StoredInv, SettingsTypeInv, mvars, callVars
  <1>7. ASSUME NEW a \in Admins, Publish(a) PROVE StoredInv'
    <2>1. /\ step[a] = "publish" /\ step'[a] = "notify" /\ current' = saving[a]
          /\ \A b \in Admins \ {a} : step'[b] = step[b]
          /\ UNCHANGED <<row, saving, stored, phase, pc, arg, applied>>
      BY <1>7 DEF Publish, SettingsTypeInv, mvars, callVars
    <2>2. /\ step[a] = "publish" => saving[a] = row
          /\ step[a] \in {"publish", "notify"} => saving[a] \in stored
      BY Zenon DEF StoredInv
    <2>3. QED
      BY <2>1, <2>2 DEF StoredInv
  <1>8. ASSUME NEW a \in Admins, NotifyManager(a) PROVE StoredInv'
    <2>1. /\ step[a] = "notify" /\ arg'[a] = saving[a]
          /\ UNCHANGED <<row, current, phase, step, saving, stored, applied>>
          /\ \A c \in Callers \ {a} : pc'[c] = pc[c] /\ arg'[c] = arg[c]
      BY <1>8, ConfigConstants DEF NotifyManager, Call, SettingsTypeInv, MTypeInv, MTypeOK
    <2>2. QED
      BY <2>1, ConfigConstants DEF StoredInv
  <1>9. ASSUME NEW a \in Admins, NotifyGeo(a) PROVE StoredInv'
    BY <1>9 DEF NotifyGeo, StoredInv, mvars, callVars
  <1>10. ASSUME NEW a \in Admins, Saved(a) PROVE StoredInv'
    BY <1>10 DEF Saved, StoredInv, SettingsTypeInv, mvars, callVars
  <1>11. CASE Signal
    BY <1>11 DEF Signal, CancelContext, callVars, StoredInv
  <1>12. CASE Stop
    <2>1. /\ phase' = "down" /\ UNCHANGED <<row, current, step, saving, stored, applied>>
          /\ arg'[Main] = StopAll
          /\ \A c \in Callers \ {Main} : pc'[c] = pc[c] /\ arg'[c] = arg[c]
      BY <1>12, ConfigConstants DEF Stop, Call, MTypeInv, MTypeOK
    <2>2. QED
      BY <2>1, ConfigConstants DEF StoredInv
  <1>13. CASE Restart
    BY <1>13 DEF Restart, NewProcess, StoredInv
  <1>14. CASE ManagerStep
    BY <1>14, ManagerStepStored
  <1>15. CASE UNCHANGED vars
    BY <1>15 DEF vars, mvars, cvars, callVars, StoredInv
  <1>16. QED
    BY <1>1, <1>2, <1>3, <1>4, <1>5, <1>6, <1>7, <1>8, <1>9, <1>10, <1>11, <1>12, <1>13,
       <1>14, <1>15 DEF Next

\* Whatever saves fail or are cut short by the end of the process, GET
\* /api/config shows the row, and the manager is given nothing that was not in
\* the row first.
THEOREM ServerStoresFirst == Spec => []StoredFirst
  <1>1. Init => StoredInv
    BY DEF Init, MInit, StoredInv
  <1>2. StoredInv => StoredFirst
    BY DEF StoredInv, StoredFirst, StoreFree
  <1>3. Spec => []MTypeInv /\ []SettingsTypeInv
    BY ServerUsesManager, ManagerTypes, PTL
  <1>4. QED
    BY <1>1, <1>2, <1>3, StoredNext, PTL DEF Spec

-----------------------------------------------------------------------------
(* A Set that no other overlaps takes effect.                              *)

\* c has applied the current document, or is about to.
Applies(c) == IF pc[c] = "idle" THEN applied = current ELSE arg[c] = current

\* No Set has published a document and not yet returned.
Idle == \A a \in Admins : step[a] # "notify"

\* While no two Sets have overlapped, the only one there may be past persist is
\* on its way to putting the current document into effect.
Serial ==
    /\ \A a, b \in Admins : {step[a], step[b]} \subseteq {"publish", "notify"} => a = b
    /\ Idle => InEffect
    /\ \A a \in Admins : step[a] = "notify" =>
          /\ saving[a] = current
          /\ "geo" \notin pending[a] => geo = current.geo
          /\ "manager" \notin pending[a] => Applies(a)

SerialInv ==
    /\ phase \in {"start", "boot"} => Idle
    /\ phase \in {"start", "serving"} => pc[Main] = "idle"
    /\ phase = "boot" => Applies(Main)
    /\ phase \in {"start", "boot"} => \A a \in Admins : step[a] = "idle"
    /\ \A a \in Admins : step[a] # "notify" => pending[a] = {} /\ pc[a] = "idle"
    /\ phase = "serving" /\ ~overlapped => Serial

LEMMA ManagerStepSerial ==
    ASSUME MTypeInv, SettingsTypeInv, SerialInv, ManagerStep
    PROVE  SerialInv'
  <1>1. UNCHANGED cvars /\ (Idle' <=> Idle)
    BY DEF ManagerStep, cvars, saveVars, Idle
  <1>2. ASSUME NEW c \in Callers, Proceed(c) PROVE SerialInv'
    <2>1. /\ pc[c] # "idle"
          /\ \A d \in Callers \ {c} : pc'[d] = pc[d] /\ arg'[d] = arg[d]
          /\ \/ pc'[c] # "idle" /\ arg'[c] = arg[c] /\ applied' = applied
             \/ pc'[c] = "idle" /\ applied' = arg[c]
      BY <1>2, ProceedEffect
    <2>2. CASE c = Main
      <3>1. phase \notin {"start", "serving"}
        BY <2>1, <2>2 DEF SerialInv
      <3>2. phase = "boot" => Applies(Main)'
        BY <1>1, <2>1, <2>2 DEF SerialInv, Applies, cvars, saveVars
      <3>3. QED
        BY <1>1, <2>1, <2>2, <3>1, <3>2, ConfigConstants DEF SerialInv, cvars, saveVars
    <2>3. CASE c \in Admins
      <3>1. step[c] = "notify" /\ ~Idle /\ phase \notin {"start", "boot"}
        BY <2>1, <2>3 DEF SerialInv, Idle
      <3>2. phase \in {"start", "serving"} => pc'[Main] = "idle"
        BY <2>1, <2>3, ConfigConstants DEF SerialInv
      <3>3. ASSUME phase = "serving", ~overlapped PROVE Serial'
        <4>1. Serial /\ \A b \in Admins : step[b] \in {"publish", "notify"} => b = c
          BY <2>3, <3>1, <3>3 DEF SerialInv, Serial
        <4>2. "manager" \notin pending[c] => Applies(c)'
          BY <1>1, <2>1, <2>3, <3>1, <4>1 DEF Serial, Applies, cvars, saveVars
        <4>3. QED
          BY <1>1, <3>1, <4>1, <4>2 DEF Serial, cvars, saveVars
      <3>4. \A a \in Admins : step'[a] # "notify" => pending'[a] = {} /\ pc'[a] = "idle"
        BY <1>1, <2>1, <3>1, ConfigConstants DEF SerialInv, cvars, saveVars
      <3>5. QED
        BY <1>1, <3>1, <3>2, <3>3, <3>4 DEF SerialInv, cvars, saveVars
    <2>4. QED
      BY <2>2, <2>3, ConfigConstants
  <1>3. ASSUME NEW r \in Readers, ReaderExits(r) \/ ReaderDies(r) PROVE SerialInv'
    <2>1. UNCHANGED <<pc, arg, applied>>
      BY <1>3 DEF ReaderExits, ReaderDies, callVars
    <2>2. QED
      BY <1>1, <2>1 DEF SerialInv, Serial, Applies, InEffect, cvars, saveVars
  <1>4. QED
    BY <1>2, <1>3 DEF ManagerStep

LEMMA SerialNext ==
    MTypeInv /\ SettingsTypeInv /\ StoredInv /\ SerialInv /\ [Next]_vars => SerialInv'
  <1> SUFFICES ASSUME MTypeInv, SettingsTypeInv, StoredInv, SerialInv, [Next]_vars PROVE SerialInv'
    OBVIOUS
  <1>1. CASE Load
    <2>1. phase = "start" /\ UNCHANGED <<pc, phase, step, pending>>
      BY <1>1 DEF Load, mvars, callVars, saveVars
    <2>2. QED
      BY <2>1 DEF SerialInv, Idle
  <1>2. CASE FirstApply
    <2>1. /\ phase = "start" /\ phase' = "boot" /\ UNCHANGED <<current, step, saving, pending>>
          /\ pc'[Main] = "lock" /\ arg'[Main] = current
          /\ \A a \in Admins : pc'[a] = pc[a]
      BY <1>2, ConfigConstants DEF FirstApply, Call, MTypeInv, MTypeOK, saveVars
    <2>2. QED
      BY <2>1 DEF SerialInv, Idle, Applies
  <1>3. CASE Serve
    <2>1. /\ phase = "boot" /\ phase' = "serving" /\ geo' = current.geo /\ pc[Main] = "idle"
          /\ UNCHANGED <<pc, arg, applied, current, step, saving, pending>>
      BY <1>3 DEF Serve, mvars, callVars, saveVars
    <2>2. Idle /\ applied = current
      BY <2>1 DEF SerialInv, Applies
    <2>3. QED
      BY <2>1, <2>2 DEF SerialInv, Serial, Idle, InEffect
  <1>4. ASSUME NEW a \in Admins,
               (\E rc \in Configs : LockStore(a, rc)) \/ PersistFails(a)
        PROVE  SerialInv'
    <2>1. /\ step[a] \in {"idle", "persist"} /\ step'[a] \in {"idle", "persist"}
          /\ phase' \notin {"start", "boot"} \/ step'[a] = "idle"
          /\ UNCHANGED <<pc, arg, applied, current, geo, phase, pending, overlapped>>
          /\ \A b \in Admins \ {a} : step'[b] = step[b] /\ saving'[b] = saving[b]
      BY <1>4 DEF LockStore, PersistFails, mvars, callVars, SettingsTypeInv
    <2>2. Serial => Serial'
      BY <2>1 DEF Serial, Idle, InEffect, Applies
    <2>3. QED
      BY <2>1, <2>2 DEF SerialInv, Idle, Applies
  <1>5. ASSUME NEW a \in Admins, Persist(a) PROVE SerialInv'
    <2>1. /\ step[a] = "persist" /\ step'[a] = "publish"
          /\ UNCHANGED <<pc, arg, applied, current, geo, phase, saving, pending>>
          /\ \A b \in Admins \ {a} : step'[b] = step[b]
          /\ ~overlapped' => ~overlapped /\ Idle
      BY <1>5 DEF Persist, mvars, callVars, SettingsTypeInv, Idle
    <2>2. \A b \in Admins : step[b] = "publish" => b = a
      BY <2>1 DEF StoredInv
    <2>3. Idle => Idle' /\ \A b \in Admins : step'[b] \in {"publish", "notify"} => b = a
      BY <2>1, <2>2 DEF Idle, SettingsTypeInv
    <2>4. ~overlapped' /\ Serial => Serial'
      BY <2>1, <2>3 DEF Serial, Idle, InEffect
    <2>5. QED
      BY <2>1, <2>4 DEF SerialInv, Idle, Applies
  <1>6. ASSUME NEW a \in Admins, Publish(a) PROVE SerialInv'
    <2>1. /\ step[a] = "publish" /\ step'[a] = "notify" /\ current' = saving[a]
          /\ pending'[a] = Subscribers
          /\ UNCHANGED <<pc, arg, applied, geo, phase, saving, overlapped>>
          /\ \A b \in Admins \ {a} : step'[b] = step[b] /\ pending'[b] = pending[b]
      BY <1>6 DEF Publish, mvars, callVars, SettingsTypeInv
    <2>2. Serial => Serial'
      BY <2>1 DEF Serial, Idle, Subscribers
    <2>3. phase \notin {"start", "boot"}
      BY <2>1 DEF SerialInv
    <2>4. QED
      BY <2>1, <2>2, <2>3 DEF SerialInv, Idle, Applies
  <1>7. ASSUME NEW a \in Admins, NotifyManager(a) PROVE SerialInv'
    <2>1. /\ step[a] = "notify"
          /\ UNCHANGED <<current, geo, phase, step, saving, overlapped, applied>>
          /\ pc'[a] = "lock" /\ arg'[a] = saving[a] /\ "manager" \notin pending'[a]
          /\ "geo" \in pending'[a] <=> "geo" \in pending[a]
          /\ pc'[Main] = pc[Main] /\ arg'[Main] = arg[Main]
          /\ \A b \in Admins \ {a} : pc'[b] = pc[b] /\ pending'[b] = pending[b]
      BY <1>7, ConfigConstants DEF NotifyManager, Call, SettingsTypeInv, MTypeInv, MTypeOK
    <2>2. Serial => Serial'
      BY <2>1 DEF Serial, Idle, Applies
    <2>3. QED
      BY <2>1, <2>2 DEF SerialInv, Idle, Applies
  <1>8. ASSUME NEW a \in Admins, NotifyGeo(a) PROVE SerialInv'
    <2>1. /\ step[a] = "notify" /\ geo' = saving[a].geo
          /\ UNCHANGED <<pc, arg, applied, current, phase, step, saving, overlapped>>
          /\ "manager" \in pending'[a] <=> "manager" \in pending[a]
          /\ \A b \in Admins \ {a} : pending'[b] = pending[b]
      BY <1>8 DEF NotifyGeo, mvars, callVars, SettingsTypeInv
    <2>2. Serial => Serial'
      BY <2>1 DEF Serial, Idle, Applies
    <2>3. QED
      BY <2>1, <2>2 DEF SerialInv, Idle, Applies
  <1>9. ASSUME NEW a \in Admins, Saved(a) PROVE SerialInv'
    <2>1. /\ step[a] = "notify" /\ pending[a] = {} /\ pc[a] = "idle" /\ step'[a] = "idle"
          /\ UNCHANGED <<pc, arg, applied, current, geo, phase, pending, overlapped>>
          /\ \A b \in Admins \ {a} : step'[b] = step[b] /\ saving'[b] = saving[b]
      BY <1>9 DEF Saved, mvars, callVars, SettingsTypeInv
    <2>2. Serial => Serial'
      BY <2>1 DEF Serial, Idle, Applies, InEffect
    <2>3. QED
      BY <2>1, <2>2 DEF SerialInv, Idle, Applies
  <1>10. CASE Signal
    BY <1>10 DEF Signal, CancelContext, callVars, saveVars, SerialInv
  <1>11. CASE Stop
    <2>1. /\ phase' = "down" /\ UNCHANGED <<step, pending>>
          /\ \A a \in Admins : pc'[a] = pc[a]
      BY <1>11, ConfigConstants DEF Stop, Call, MTypeInv, MTypeOK, saveVars
    <2>2. QED
      BY <2>1 DEF SerialInv
  <1>12. CASE Restart
    BY <1>12, ConfigConstants DEF Restart, NewProcess, SerialInv, Idle
  <1>13. CASE ManagerStep
    BY <1>13, ManagerStepSerial
  <1>14. CASE UNCHANGED vars
    BY <1>14 DEF vars, mvars, cvars, callVars, saveVars, SerialInv, Serial, Idle, Applies, InEffect
  <1>15. QED
    BY <1>1, <1>2, <1>3, <1>4, <1>5, <1>6, <1>7, <1>8, <1>9, <1>10, <1>11, <1>12, <1>13, <1>14 DEF Next

\* When no two Sets of the running process have overlapped and the last has
\* returned, the sources and the geo switch are those of the stored document.
THEOREM ServerSerialSaves == Spec => []SerialSavesTakeEffect
  <1>1. Init => SerialInv
    BY ConfigConstants DEF Init, MInit, SerialInv, Idle
  <1>2. SerialInv => SerialSavesTakeEffect
    BY DEF SerialInv, Serial, SerialSavesTakeEffect, Quiescent, Idle
  <1>3. Spec => []MTypeInv /\ []SettingsTypeInv
    BY ServerUsesManager, ManagerTypes, PTL
  <1>4. Init => StoredInv
    BY DEF Init, MInit, StoredInv
  <1>5. QED
    BY <1>1, <1>2, <1>3, <1>4, StoredNext, SerialNext, PTL DEF Spec
=============================================================================
