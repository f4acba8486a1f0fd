----------------------------- MODULE Ingestion -----------------------------
(***************************************************************************)
(* What a directory source promises: an at-least-once shipper of log lines *)
(* that keeps its place.  Lines come and go as logs are written, rotated   *)
(* and truncated; some are covered: the shipper will not read them again.  *)
(* It ships only what is not covered, covers only what has arrived, and    *)
(* keeps what it has covered for as long as the line is there.             *)
(***************************************************************************)
EXTENDS Integers

CONSTANT Lines

VARIABLES
    available,  \* lines in the files the source matches
    arrived,    \* copies of each line shipped so far
    covered     \* lines that will not be shipped again

vars == <<available, arrived, covered>>

TypeOK ==
    /\ available \in SUBSET Lines
    /\ arrived \in [Lines -> Nat]
    /\ covered \in SUBSET Lines

Init ==
    /\ available = {}
    /\ arrived = [l \in Lines |-> 0]
    /\ covered = {}

\* Logs are written, rotated away or emptied.  Nothing that stays is forgotten.
Change ==
    /\ available' \in SUBSET Lines
    /\ covered' = covered \cap available'
    /\ UNCHANGED arrived

\* A batch of lines goes into the table, none of which is covered.
Ship(batch) ==
    /\ batch # {} /\ batch \cap covered = {}
    /\ arrived' = [l \in Lines |-> arrived[l] + IF l \in batch THEN 1 ELSE 0]
    /\ UNCHANGED <<available, covered>>

\* The place moves forward, over lines that have arrived.
Checkpoint(more) ==
    /\ more \subseteq available
    /\ \A l \in more : arrived[l] > 0
    /\ covered' = covered \cup more
    /\ UNCHANGED <<available, arrived>>

Next ==
    \/ Change
    \/ \E batch \in SUBSET Lines : Ship(batch) \/ Checkpoint(batch)

Spec == Init /\ [][Next]_vars
=============================================================================
