---------------------------- MODULE ConfigReload ----------------------------
(***************************************************************************)
(* The settings panel's "Save": runtimeconfig.Store (runtimeconfig.go)     *)
(* composed with the watcher Manager and the geo resolver's switch, as     *)
(* cmd/main.go subscribes them.  Set takes the store's lock, persists the  *)
(* document and, if that succeeds, replaces current; having released the   *)
(* lock it notifies the subscribers on the caller's goroutine.             *)
(***************************************************************************)
EXTENDS SourceManager

CONSTANTS
    Main,          \* the main goroutine: boots the server and stops it
    Admins,        \* goroutines serving PUT /api/config
    Seed,          \* cfg.RuntimeSeed(), the configuration of the first launch
    MaxSaves,      \* bound on calls of Set
    MaxRestarts    \* bound on processes after the first

ASSUME ConfigConstants ==
    /\ Main \notin Admins /\ Callers = {Main} \cup Admins
    /\ Seed \in Configs /\ \A rc \in Configs : rc.geo \in BOOLEAN
    /\ MaxSaves \in Nat /\ MaxRestarts \in Nat

\* rcStore.Subscribe, in cmd/main.go: mgr.Apply and geoResolver.SetEnabled.
Subscribers == {"manager", "geo"}

VARIABLES
    row,       \* the runtime_config row, None before the first launch
    current,   \* the store's copy, None until it is loaded
    geo,       \* the resolver's enabled switch
    phase,     \* of the process: "start", "boot", "serving", "stopping", "down"
    step,      \* where each admin is in Set: "idle", then "persist" and
               \* "publish", with the store's lock held, then "notify"
    saving,    \* the document it saves, or None
    pending,   \* subscribers it has still to notify
    saves, restarts,
    stored,    \* every document the row has been (for properties)
    overlapped \* a Set has persisted while another was still notifying, in
               \* this process (for properties)

saveVars == <<step, saving, pending, saves>>
cvars == <<row, current, geo, phase, saveVars, restarts, stored, overlapped>>
vars  == <<mvars, cvars>>

Init ==
    /\ MInit
    /\ row = None /\ current = None /\ geo = FALSE
    /\ phase = "start"
    /\ step = [a \in Admins |-> "idle"]
    /\ saving = [a \in Admins |-> None]
    /\ pending = [a \in Admins |-> {}]
    /\ saves = 0 /\ restarts = 0 /\ stored = {} /\ overlapped = FALSE

-----------------------------------------------------------------------------
\* New: load the row, or persist the seed if there is none.
Load ==
    /\ phase = "start" /\ current = None
    /\ row' = IF row = None THEN Seed ELSE row
    /\ current' = row'
    /\ stored' = stored \cup {row'}
    /\ UNCHANGED <<mvars, geo, phase, saveVars, restarts, overlapped>>

\* Mutant: the configuration file's seed is applied instead of the stored row.
FirstApplySeed ==
    /\ phase = "start" /\ current # None
    /\ Call(Main, Seed)
    /\ phase' = "boot"
    /\ UNCHANGED <<row, current, geo, saveVars, restarts, stored, overlapped>>

\* main calls mgr.Apply(rcStore.Get()).
FirstApply ==
    /\ phase = "start" /\ current # None
    /\ Call(Main, current)
    /\ phase' = "boot"
    /\ UNCHANGED <<row, current, geo, saveVars, restarts, stored, overlapped>>

\* The resolver is created with the stored flag, and the server listens.
Serve ==
    /\ phase = "boot" /\ pc[Main] = "idle"
    /\ geo' = current.geo
    /\ phase' = "serving"
    /\ UNCHANGED <<mvars, row, current, saveVars, restarts, stored, overlapped>>

\* Nobody holds the store's lock: Get, which serves GET /api/config, may read.
StoreFree == \A a \in Admins : step[a] \notin {"persist", "publish"}

\* Set takes the lock for a validated document.  Requests are served until
\* the process ends: also while mgr.Stop() waits.
LockStore(a, rc) ==
    /\ phase \in {"serving", "stopping", "down"}
    /\ step[a] = "idle" /\ StoreFree /\ saves < MaxSaves
    /\ step' = [step EXCEPT ![a] = "persist"]
    /\ saving' = [saving EXCEPT ![a] = rc]
    /\ saves' = saves + 1
    /\ UNCHANGED <<mvars, row, current, geo, phase, pending, restarts, stored, overlapped>>

\* persist: the upsert commits.
Persist(a) ==
    /\ step[a] = "persist"
    /\ row' = saving[a]
    /\ stored' = stored \cup {saving[a]}
    /\ overlapped' = (overlapped \/ \E b \in Admins : step[b] = "notify")
    /\ step' = [step EXCEPT ![a] = "publish"]
    /\ UNCHANGED <<mvars, current, geo, phase, saving, pending, saves, restarts>>

\* Mutant: Set ignores the error of persist.
PersistErrorIgnored(a) ==
    /\ step[a] = "persist"
    /\ step' = [step EXCEPT ![a] = "publish"]
    /\ UNCHANGED <<mvars, row, current, geo, phase, saving, pending, saves, restarts, stored, overlapped>>

\* It fails: Set releases the lock and returns the error.
PersistFails(a) ==
    /\ step[a] = "persist"
    /\ step' = [step EXCEPT ![a] = "idle"]
    /\ saving' = [saving EXCEPT ![a] = None]
    /\ UNCHANGED <<mvars, row, current, geo, phase, pending, saves, restarts, stored, overlapped>>

\* The document becomes current, the lock is released, and the subscribers are
\* collected.
Publish(a) ==
    /\ step[a] = "publish"
    /\ current' = saving[a]
    /\ step' = [step EXCEPT ![a] = "notify"]
    /\ pending' = [pending EXCEPT ![a] = Subscribers]
    /\ UNCHANGED <<mvars, row, geo, phase, saving, saves, restarts, stored, overlapped>>

\* notify: the subscribers are called one at a time, in the order of a map's
\* iteration.
NotifyManager(a) ==
    /\ "manager" \in pending[a]
    /\ Call(a, saving[a])
    /\ pending' = [pending EXCEPT ![a] = @ \ {"manager"}]
    /\ UNCHANGED <<row, current, geo, phase, step, saving, saves, restarts, stored, overlapped>>

NotifyGeo(a) ==
    /\ "geo" \in pending[a] /\ pc[a] = "idle"
    /\ geo' = saving[a].geo
    /\ pending' = [pending EXCEPT ![a] = @ \ {"geo"}]
    /\ UNCHANGED <<mvars, row, current, phase, step, saving, saves, restarts, stored, overlapped>>

\* Set returns.
Saved(a) ==
    /\ step[a] = "notify" /\ pending[a] = {} /\ pc[a] = "idle"
    /\ step' = [step EXCEPT ![a] = "idle"]
    /\ saving' = [saving EXCEPT ![a] = None]
    /\ UNCHANGED <<mvars, row, current, geo, phase, pending, saves, restarts, stored, overlapped>>

\* SIGTERM: cancel the root context; then mgr.Stop().  The server still serves.
Signal ==
    /\ phase = "serving"
    /\ CancelContext
    /\ phase' = "stopping"
    /\ UNCHANGED <<row, current, geo, saveVars, restarts, stored, overlapped>>

Stop ==
    /\ phase = "stopping"
    /\ Call(Main, StopAll)
    /\ phase' = "down"
    /\ UNCHANGED <<row, current, geo, saveVars, restarts, stored, overlapped>>

\* The process is killed at any time, or replaced by syscall.Exec, or ends
\* after server.Shutdown.  Only the row is left.
Restart ==
    /\ restarts < MaxRestarts
    /\ NewProcess
    /\ current' = None /\ geo' = FALSE
    /\ phase' = "start"
    /\ step' = [a \in Admins |-> "idle"]
    /\ saving' = [a \in Admins |-> None]
    /\ pending' = [a \in Admins |-> {}]
    /\ restarts' = restarts + 1
    /\ overlapped' = FALSE
    /\ UNCHANGED <<row, saves, stored>>

ManagerStep ==
    /\ \/ \E c \in Callers : Proceed(c)
       \/ \E r \in Readers : ReaderExits(r) \/ ReaderDies(r)
    /\ UNCHANGED cvars

Next ==
    \/ Load \/ FirstApply \/ Serve \/ Signal \/ Stop \/ Restart
    \/ \E a \in Admins : \/ \E rc \in Configs : LockStore(a, rc)
                         \/ Persist(a) \/ PersistFails(a) \/ Publish(a)
                         \/ NotifyManager(a) \/ NotifyGeo(a) \/ Saved(a)
    \/ ManagerStep

Spec == Init /\ [][Next]_vars

\* Every goroutine is scheduled, and Go's mutexes do not starve a waiter.
\* A cancelled reader exits.  Nobody has to save, or to restart the server.
FairSpec ==
    /\ Spec
    /\ WF_vars(Load) /\ WF_vars(FirstApply) /\ WF_vars(Serve)
    /\ \A r \in Readers : WF_vars(ReaderExits(r) /\ UNCHANGED cvars)
    /\ \A c \in Callers : /\ WF_vars(Proceed(c) /\ UNCHANGED cvars)
                          /\ SF_vars(Lock(c) /\ UNCHANGED cvars)
    /\ \A a \in Admins : /\ WF_vars(Persist(a) \/ PersistFails(a))
                         /\ WF_vars(Publish(a))
                         /\ WF_vars(NotifyManager(a) \/ NotifyGeo(a) \/ Saved(a))

-----------------------------------------------------------------------------
(* Properties.                                                             *)

TypeOK ==
    /\ MTypeOK
    /\ row \in Configs \cup {None} /\ current \in Configs \cup {None}
    /\ geo \in BOOLEAN
    /\ phase \in {"start", "boot", "serving", "stopping", "down"}
    /\ step \in [Admins -> {"idle", "persist", "publish", "notify"}]
    /\ saving \in [Admins -> Configs \cup {None}]
    /\ pending \in [Admins -> SUBSET Subscribers]
    /\ saves \in 0..MaxSaves /\ restarts \in 0..MaxRestarts
    /\ stored \subseteq Configs /\ overlapped \in BOOLEAN

\* Nothing takes effect that a restart would not find: what GET /api/config
\* shows is the row, though persist may fail and the process may end between
\* any two steps of Set, and the manager is never asked to apply, nor has
\* applied, a document that was not in the row first.
StoredFirst ==
    /\ StoreFree /\ current # None => current = row
    /\ \A c \in Callers : pc[c] # "idle" => arg[c] \in stored \cup {StopAll}
    /\ applied \in stored \cup {None, StopAll}

Quiescent == phase = "serving" /\ (\A a \in Admins : step[a] = "idle")

\* What runs is what is stored: the manager's sources and the geo switch.
InEffect == applied = current /\ geo = current.geo

\* When Sets do not overlap, then once the last has returned the sources and
\* the geo switch are those of the stored document, after any restarts too.
SerialSavesTakeEffect == Quiescent /\ ~overlapped => InEffect

\* Once every Set has returned, the sources and the geo switch are those of
\* the stored document.  (docs/TODO.md:43, "Watcher manager that hot-reloads
\* sources when the store changes".)
SavesTakeEffect == Quiescent => InEffect

\* A save comes back: no Set waits for ever for the manager's mutex or for a
\* reader to stop, unless the process goes.  (That a save leads to its end is
\* that again and again none is in progress.)
SaveReturns == \A a \in Admins : []<>(step[a] = "idle")
=============================================================================
