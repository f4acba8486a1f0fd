--------------------------- MODULE SourceManager ---------------------------
(***************************************************************************)
(* The watcher Manager (internal/watcher/manager.go): Apply reconciles the *)
(* running sources with a configuration, under the mutex mu.  Each source  *)
(* runs in a goroutine, its reader; stopping one cancels its context and   *)
(* waits for its done channel, with mu held.  Any number of goroutines may *)
(* call Apply; Stop is called by the shutdown goroutine of cmd/main.go.    *)
(***************************************************************************)
EXTENDS Naturals, Sequences

CONSTANTS
    Callers,      \* goroutines that call Apply or Stop
    Keys,         \* values of Source.Key()
    Configs,      \* the configurations applied: records with the fields
                  \* watch, keywords and sources, a sequence of records
                  \* [key, def], def standing for what sourcesEqual compares
    Unstartable,  \* sources whose parser or type startLocked rejects
    Readers,      \* names for reader goroutines (bounds how many are alive)
    Nobody, None, \* mu is free; no entry, no reader, no configuration
    StopAll       \* what Stop asks for, in the place of a configuration

Sources  == UNION {{rc.sources[i] : i \in DOMAIN rc.sources} : rc \in Configs}
Keywords == {rc.keywords : rc \in Configs}
Entries  == [source : Sources, keywords : Keywords, reader : Readers]
Calls    == Configs \cup {StopAll}

ASSUME ManagerConstants ==
    /\ Nobody \notin Callers
    /\ None \notin Calls /\ StopAll \notin Configs
    /\ None \notin Entries /\ None \notin [key : Keys, cancelled : BOOLEAN]
    /\ \A rc \in Configs :
          /\ rc.watch \in BOOLEAN
          /\ DOMAIN rc.sources \subseteq Nat
          /\ \A i \in DOMAIN rc.sources : rc.sources[i].key \in Keys

VARIABLES
    mu,        \* who holds the manager's mutex
    running,   \* m.running: per key the source, its keywords and its reader
    keywords,  \* m.keywords, None before the first Apply
    watch,     \* m.watch
    reader,    \* per reader goroutine its key, source and whether it is cancelled
    ctxDone,   \* the manager's own context is cancelled
    pc,        \* where each caller is in Apply
    arg,       \* the configuration it applies
    toStop,    \* keys it has still to stop
    at,        \* the key whose reader it waits for
    toStart,   \* keys it has still to look at for starting
    applied    \* the last configuration Apply finished with (for properties)

managerVars == <<running, keywords, watch>>
callVars    == <<pc, arg, toStop, at, toStart>>
mvars == <<mu, managerVars, reader, ctxDone, callVars, applied>>

MTypeOK ==
    /\ mu \in Callers \cup {Nobody}
    /\ running \in [Keys -> Entries \cup {None}]
    /\ keywords \in Keywords \cup {None}
    /\ watch \in BOOLEAN
    /\ reader \in [Readers -> [key : Keys, cancelled : BOOLEAN] \cup {None}]
    /\ ctxDone \in BOOLEAN
    /\ pc \in [Callers -> {"idle", "lock", "stop", "wait"}]
    /\ arg \in [Callers -> Calls \cup {None}]
    /\ toStop \in [Callers -> SUBSET Keys]
    /\ at \in [Callers -> Keys \cup {None}]
    /\ toStart \in [Callers -> SUBSET Keys]
    /\ applied \in Calls \cup {None}

\* The sources of rc that Apply runs, by key; of two with a key, the first.
KeysOf(rc) == {rc.sources[i].key : i \in DOMAIN rc.sources}
Target(rc) == [k \in KeysOf(rc) |->
    rc.sources[CHOOSE i \in DOMAIN rc.sources :
        /\ rc.sources[i].key = k
        /\ \A j \in DOMAIN rc.sources : rc.sources[j].key = k => i <= j]]

Running == {k \in Keys : running[k] # None}

MInit ==
    /\ mu = Nobody
    /\ running = [k \in Keys |-> None]
    /\ keywords = None /\ watch = FALSE
    /\ reader = [r \in Readers |-> None]
    /\ ctxDone = FALSE
    /\ pc = [c \in Callers |-> "idle"]
    /\ arg = [c \in Callers |-> None]
    /\ toStop = [c \in Callers |-> {}]
    /\ at = [c \in Callers |-> None]
    /\ toStart = [c \in Callers |-> {}]
    /\ applied = None

-----------------------------------------------------------------------------
\* c calls Apply(rc), or Stop, and waits for mu.
Call(c, rc) ==
    /\ pc[c] = "idle"
    /\ pc' = [pc EXCEPT ![c] = "lock"]
    /\ arg' = [arg EXCEPT ![c] = rc]
    /\ UNCHANGED <<mu, managerVars, reader, ctxDone, toStop, at, toStart, applied>>

\* Apply or Stop tears every source down.
Teardown(rc) == rc = StopAll \/ ~rc.watch

\* Mutant: a change of keywords leaves the running sources alone.
OutdatedButKeywords(rc) ==
    IF Teardown(rc) THEN Running
    ELSE {k \in Running :
            k \notin KeysOf(rc) \/ running[k].source # Target(rc)[k] \/ ~watch}

\* The running sources that applying rc stops: gone, changed, or all of them
\* when watching was off or the keywords changed.
Outdated(rc) ==
    IF Teardown(rc) THEN Running
    ELSE {k \in Running :
            \/ k \notin KeysOf(rc)
            \/ running[k].source # Target(rc)[k]
            \/ ~watch
            \/ keywords # rc.keywords}

\* Mutant: sources are started by their position instead of their key.
LockByPosition(c) ==
    /\ pc[c] = "lock" /\ mu = Nobody
    /\ mu' = c
    /\ toStop' = [toStop EXCEPT ![c] = Outdated(arg[c])]
    /\ toStart' = [toStart EXCEPT ![c] =
          IF Teardown(arg[c]) THEN {} ELSE DOMAIN arg[c].sources]
    /\ pc' = [pc EXCEPT ![c] = "stop"]
    /\ UNCHANGED <<managerVars, reader, ctxDone, arg, at, applied>>

\* c holds mu, and knows what to stop and what to look at for starting.
Lock(c) ==
    /\ pc[c] = "lock" /\ mu = Nobody
    /\ mu' = c
    /\ toStop' = [toStop EXCEPT ![c] = Outdated(arg[c])]
    /\ toStart' = [toStart EXCEPT ![c] = IF Teardown(arg[c]) THEN {} ELSE KeysOf(arg[c])]
    /\ pc' = [pc EXCEPT ![c] = "stop"]
    /\ UNCHANGED <<managerVars, reader, ctxDone, arg, at, applied>>

\* Mutant: the wait for done without the cancellation.
CancelReaderNot(c, k) ==
    /\ pc[c] = "stop" /\ k \in toStop[c]
    /\ toStop' = [toStop EXCEPT ![c] = @ \ {k}]
    /\ pc' = [pc EXCEPT ![c] = "wait"]
    /\ at' = [at EXCEPT ![c] = k]
    /\ UNCHANGED <<mu, managerVars, reader, ctxDone, arg, toStart, applied>>

\* stopLocked: cancel the reader's context.  Its goroutine may be gone already.
CancelReader(c, k) ==
    /\ pc[c] = "stop" /\ k \in toStop[c]
    /\ LET r == running[k].reader
       IN  reader' = IF reader[r] = None THEN reader
                     ELSE [reader EXCEPT ![r].cancelled = TRUE]
    /\ toStop' = [toStop EXCEPT ![c] = @ \ {k}]
    /\ pc' = [pc EXCEPT ![c] = "wait"]
    /\ at' = [at EXCEPT ![c] = k]
    /\ UNCHANGED <<mu, managerVars, ctxDone, arg, toStart, applied>>

\* Mutant: the entry goes without a wait for done.
ReleasedEarly(c, k) ==
    /\ pc[c] = "wait" /\ at[c] = k
    /\ running' = [running EXCEPT ![k] = None]
    /\ pc' = [pc EXCEPT ![c] = "stop"]
    /\ at' = [at EXCEPT ![c] = None]
    /\ UNCHANGED <<mu, keywords, watch, reader, ctxDone, arg, toStop, toStart, applied>>

\* stopLocked: the done channel is closed; the entry goes.
Released(c, k) ==
    /\ pc[c] = "wait" /\ at[c] = k /\ reader[running[k].reader] = None
    /\ running' = [running EXCEPT ![k] = None]
    /\ pc' = [pc EXCEPT ![c] = "stop"]
    /\ at' = [at EXCEPT ![c] = None]
    /\ UNCHANGED <<mu, keywords, watch, reader, ctxDone, arg, toStop, toStart, applied>>

\* startLocked: a goroutine with a context derived from the manager's.
StartReader(c, k, r) ==
    /\ pc[c] = "stop" /\ toStop[c] = {} /\ k \in toStart[c]
    /\ running[k] = None /\ Target(arg[c])[k] \notin Unstartable
    /\ reader[r] = None /\ \A j \in Running : running[j].reader # r
    /\ reader' = [reader EXCEPT ![r] = [key |-> k, cancelled |-> ctxDone]]
    /\ running' = [running EXCEPT ![k] =
          [source |-> Target(arg[c])[k], keywords |-> arg[c].keywords, reader |-> r]]
    /\ toStart' = [toStart EXCEPT ![c] = @ \ {k}]
    /\ UNCHANGED <<mu, keywords, watch, ctxDone, pc, arg, toStop, at, applied>>

\* Nothing to start: it runs already, or startLocked returns an error.
SkipStart(c, k) ==
    /\ pc[c] = "stop" /\ toStop[c] = {} /\ k \in toStart[c]
    /\ running[k] # None \/ Target(arg[c])[k] \in Unstartable
    /\ toStart' = [toStart EXCEPT ![c] = @ \ {k}]
    /\ UNCHANGED <<mu, managerVars, reader, ctxDone, pc, arg, toStop, at, applied>>

\* Apply or Stop returns and releases mu; Stop leaves watch and keywords.
Unlock(c) ==
    /\ pc[c] = "stop" /\ toStop[c] = {} /\ toStart[c] = {}
    /\ IF arg[c] = StopAll
       THEN UNCHANGED <<keywords, watch>>
       ELSE keywords' = arg[c].keywords /\ watch' = arg[c].watch
    /\ applied' = arg[c]
    /\ mu' = Nobody
    /\ pc' = [pc EXCEPT ![c] = "idle"]
    /\ arg' = [arg EXCEPT ![c] = None]
    /\ UNCHANGED <<running, reader, ctxDone, toStop, at, toStart>>

\* The goroutine of a cancelled reader notices, and closes done.
ReaderExits(r) ==
    /\ reader[r] # None /\ reader[r].cancelled
    /\ reader' = [reader EXCEPT ![r] = None]
    /\ UNCHANGED <<mu, managerVars, ctxDone, callVars, applied>>

\* A reader's Watch or Listen returns an error of its own (a syslog port that
\* cannot be bound).  The manager is not told.
ReaderDies(r) ==
    /\ reader[r] # None /\ ~reader[r].cancelled
    /\ reader' = [reader EXCEPT ![r] = None]
    /\ UNCHANGED <<mu, managerVars, ctxDone, callVars, applied>>

\* The shutdown goroutine cancels the root context, and every reader's with it.
CancelContext ==
    /\ ~ctxDone
    /\ ctxDone' = TRUE
    /\ reader' = [r \in Readers |-> IF reader[r] = None THEN None
                                    ELSE [reader[r] EXCEPT !.cancelled = TRUE]]
    /\ UNCHANGED <<mu, managerVars, callVars, applied>>

\* The process ends; a new one starts with a new Manager.
NewProcess ==
    /\ mu' = Nobody
    /\ running' = [k \in Keys |-> None]
    /\ keywords' = None /\ watch' = FALSE
    /\ reader' = [r \in Readers |-> None]
    /\ ctxDone' = FALSE
    /\ pc' = [c \in Callers |-> "idle"]
    /\ arg' = [c \in Callers |-> None]
    /\ toStop' = [c \in Callers |-> {}]
    /\ at' = [c \in Callers |-> None]
    /\ toStart' = [c \in Callers |-> {}]
    /\ applied' = None

\* c goes on with its call.
Proceed(c) ==
    \/ Lock(c) \/ Unlock(c)
    \/ \E k \in Keys :
          \/ CancelReader(c, k) \/ Released(c, k) \/ SkipStart(c, k)
          \/ \E r \in Readers : StartReader(c, k, r)

MNext ==
    \/ \E c \in Callers : Proceed(c) \/ \E rc \in Calls : Call(c, rc)
    \/ \E r \in Readers : ReaderExits(r) \/ ReaderDies(r)
    \/ CancelContext
    \/ NewProcess

MSpec == MInit /\ [][MNext]_mvars

-----------------------------------------------------------------------------
(* Properties.                                                             *)

\* No two goroutines ever read for one key, not even while one of them is
\* being replaced: a new reader starts only when the old one is gone.
\* (manager.go:129-131, "so a follow-up start sees the previous reader fully
\* released".)
OneReaderPerKey ==
    \A r, s \in Readers :
        reader[r] # None /\ reader[s] # None /\ reader[r].key = reader[s].key => r = s

\* Whenever nobody holds mu, the manager runs exactly the sources of the last
\* configuration applied, with its definitions and keywords, however the calls
\* of Apply and Stop were interleaved.
Reconciled ==
    mu = Nobody /\ applied # None =>
        LET want == IF Teardown(applied) THEN {}
                    ELSE {k \in KeysOf(applied) : Target(applied)[k] \notin Unstartable}
        IN  /\ Running = want
            /\ \A k \in want : /\ running[k].source = Target(applied)[k]
                               /\ running[k].keywords = applied.keywords
=============================================================================
