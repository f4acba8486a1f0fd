---------------------------- MODULE LoginLimiter ----------------------------
(***************************************************************************)
(* The login throttle (internal/auth/ratelimit.go) as handleLogin uses it:  *)
(* tooMany before the password is checked, then recordFailure or reset, each *)
(* under the limiter's mutex, and the mutex released between them.  An       *)
(* attempt is counted under its address and its user name.                  *)
(*                                                                         *)
(* A failure is kept as its age, in units of time; the ages from Window on   *)
(* are all the same.                                                        *)
(***************************************************************************)
EXTENDS Naturals, Sequences, FiniteSets

CONSTANTS
    Attempts,   \* the login requests that may be served at the same time
    Addresses,  \* the keys "ip:..."
    Names,      \* the keys "user:..."
    Max,        \* maxLoginFailures
    Window,     \* loginFailureWindow
    MaxKeys     \* limiterMaxKeys

ASSUME LimiterConstants ==
    /\ Max \in Nat \ {0} /\ Window \in Nat \ {0} /\ MaxKeys \in Nat
    /\ Addresses \cap Names = {}
    /\ IsFiniteSet(Attempts) /\ IsFiniteSet(Addresses) /\ IsFiniteSet(Names)

Keys == Addresses \cup Names

VARIABLES
    failures,  \* per tracked key, the ages of its failures, oldest first
    checking,  \* the keys of each attempt whose password is being checked
    history    \* per key, the ages below Window of the failures since a login
               \* with this key succeeded, without those recordFailure found
               \* no room for (for properties)

vars == <<failures, checking, history>>

Ages == Seq(0..Window)

TypeOK ==
    /\ DOMAIN failures \subseteq Keys
    /\ \A k \in DOMAIN failures : failures[k] \in Ages /\ failures[k] # <<>>
    /\ checking \in [Attempts -> {{}} \cup {{ip, name} : ip \in Addresses, name \in Names}]
    /\ history \in [Keys -> Ages]

Init ==
    /\ failures = [k \in {} |-> <<>>]
    /\ checking = [a \in Attempts |-> {}]
    /\ history = [k \in Keys |-> <<>>]

-----------------------------------------------------------------------------
\* now is read with the mutex held, so failures are in the order of their times
\* and prune keeps the last ones.
Dropped(ages) == Cardinality({i \in DOMAIN ages : ages[i] >= Window})

Live(ages) == SubSeq(ages, Dropped(ages) + 1, Len(ages))

\* The failures of key k that count, in the map f.
Counted(f, k) == IF k \in DOMAIN f THEN Live(f[k]) ELSE <<>>

\* Mutant: a key stays when its last failure is dropped.
PrunedToEmpty(f, ks) ==
    [k \in DOMAIN f |-> IF k \in ks THEN Live(f[k]) ELSE f[k]]

\* The map f after prune of each of the keys ks.
Pruned(f, ks) ==
    [k \in {j \in DOMAIN f : j \in ks => Live(f[j]) # <<>>} |->
        IF k \in ks THEN Live(f[k]) ELSE f[k]]

\* Time passes.
Tick ==
    /\ failures' = [k \in DOMAIN failures |->
           [i \in DOMAIN failures[k] |-> IF failures[k][i] < Window THEN failures[k][i] + 1
                                        ELSE Window]]
    /\ history' = [k \in Keys |-> Live([i \in DOMAIN history[k] |-> history[k][i] + 1])]
    /\ UNCHANGED checking

-----------------------------------------------------------------------------
\* Mutant: one failure more is let through.
TooManyOffByOne(a, ip, name) ==
    LET blocked(k) == Len(Counted(failures, k)) > Max IN
    /\ checking[a] = {}
    /\ failures' = Pruned(failures, IF blocked(ip) THEN {ip} ELSE {ip, name})
    /\ checking' = [checking EXCEPT ![a] = IF blocked(ip) \/ blocked(name) THEN {}
                                           ELSE {ip, name}]
    /\ UNCHANGED history

\* Mutant: an attempt that is refused counts as a failure.
TooManyCounts(a, ip, name) ==
    LET blocked(k) == Len(Counted(failures, k)) >= Max
        again(f) == [k \in DOMAIN f |-> IF k \in {ip, name} /\ blocked(k)
                                        THEN Tail(Append(f[k], 0)) ELSE f[k]]
    IN
    /\ checking[a] = {}
    /\ failures' = again(Pruned(failures, {ip, name}))
    /\ checking' = [checking EXCEPT ![a] = IF blocked(ip) \/ blocked(name) THEN {}
                                           ELSE {ip, name}]
    /\ history' = again(history)

\* tooMany: the attempt is refused if a key has reached Max failures.  The keys
\* are pruned as they are looked at, up to the first that has.
TooMany(a, ip, name) ==
    LET blocked(k) == Len(Counted(failures, k)) >= Max IN
    /\ checking[a] = {}
    /\ failures' = Pruned(failures, IF blocked(ip) THEN {ip} ELSE {ip, name})
    /\ checking' = [checking EXCEPT ![a] = IF blocked(ip) \/ blocked(name) THEN {}
                                           ELSE {ip, name}]
    /\ UNCHANGED history

Full(f) == Cardinality(DOMAIN f) >= MaxKeys

\* The map f with one more failure of key k, unless k is new and the map full.
Recorded(f, k) ==
    IF k \notin DOMAIN f /\ Full(f) THEN f
    ELSE [j \in DOMAIN f \cup {k} |-> IF j = k THEN Append(Counted(f, k), 0) ELSE f[j]]

\* Mutant: the room is looked at once, for both keys.
RecordFailureOneCheck(a) ==
    LET cleaned == IF Full(failures) THEN Pruned(failures, DOMAIN failures) ELSE failures
        add     == IF Full(cleaned) THEN checking[a] \cap DOMAIN cleaned ELSE checking[a]
    IN
    /\ checking[a] # {}
    /\ failures' = [k \in DOMAIN cleaned \cup add |->
           IF k \in add THEN Append(Counted(cleaned, k), 0) ELSE cleaned[k]]
    /\ checking' = [checking EXCEPT ![a] = {}]
    /\ history' = [k \in Keys |-> IF k \in add THEN Append(history[k], 0) ELSE history[k]]

\* Mutant: the map is emptied when it is full.
RecordFailureForgets(a) ==
    LET cleaned == IF Full(failures) THEN [k \in {} |-> <<>>] ELSE failures IN
    /\ checking[a] # {}
    /\ \E ip \in checking[a] \cap Addresses, name \in checking[a] \cap Names :
           failures' = Recorded(Recorded(cleaned, ip), name)
    /\ checking' = [checking EXCEPT ![a] = {}]
    /\ history' = [k \in Keys |-> IF k \in checking[a] \cap DOMAIN failures'
                                  THEN Append(history[k], 0) ELSE history[k]]

\* The password was wrong: recordFailure, which prunes every key if the map is
\* full, and then counts the address and the name.
RecordFailure(a) ==
    LET cleaned == IF Full(failures) THEN Pruned(failures, DOMAIN failures) ELSE failures IN
    /\ checking[a] # {}
    /\ \E ip \in checking[a] \cap Addresses, name \in checking[a] \cap Names :
           failures' = Recorded(Recorded(cleaned, ip), name)
    /\ checking' = [checking EXCEPT ![a] = {}]
    /\ history' = [k \in Keys |-> IF k \in checking[a] \cap DOMAIN failures'
                                  THEN Append(history[k], 0) ELSE history[k]]

\* The password was right: reset.
Reset(a) ==
    /\ checking[a] # {}
    /\ failures' = [k \in DOMAIN failures \ checking[a] |-> failures[k]]
    /\ checking' = [checking EXCEPT ![a] = {}]
    /\ history' = [k \in Keys |-> IF k \in checking[a] THEN <<>> ELSE history[k]]

Next ==
    \/ Tick
    \/ \E a \in Attempts :
          \/ \E ip \in Addresses, name \in Names : TooMany(a, ip, name)
          \/ RecordFailure(a) \/ Reset(a)

Spec == Init /\ [][Next]_vars

\* Time passes.  Nobody has to log in, and a password check may take for ever.
FairSpec == Spec /\ WF_vars(Tick)

-----------------------------------------------------------------------------
(* Properties.                                                             *)

\* The map does not outgrow its bound, though each failure brings two keys.
KeysBounded == Cardinality(DOMAIN failures) <= MaxKeys

\* Attempts that pass tooMany together can all fail: Max is overrun, but by less
\* than the number of attempts served at the same time.
FailuresBounded ==
    \A k \in DOMAIN failures : Len(failures[k]) < Max + Cardinality(Attempts)

\* What counts for a key is what failed within the window and since its last
\* success, whenever the key was pruned and whatever was cleaned up for others.
\* (A failure that finds the map full of other keys is not counted.)
NothingForgotten == \A k \in Keys : Counted(failures, k) = history[k]

\* A key that is refused is let through again in the end, for attempts that are
\* refused do not count.
ThrottleEnds ==
    \A k \in Keys : Len(Counted(failures, k)) >= Max ~> Len(Counted(failures, k)) < Max
=============================================================================
