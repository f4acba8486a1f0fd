----------------------------- MODULE Dashboard -----------------------------
(***************************************************************************)
(* The live data of the dashboard: watchers insert requests, the resolver  *)
(* looks their addresses up, and a reader pages through the list.          *)
(***************************************************************************)
EXTENDS GeoResolver, RequestPager

vars == <<storeVars, geoVars, pagerVars>>

TypeOK == StoreTypeOK /\ GeoTypeOK /\ PagerTypeOK

Init == StoreInit /\ GeoInit /\ PagerInit

\* A log line arrives.
Ingest ==
    /\ \E ip \in IPs, t \in Times : Insert(ip, t)
    /\ UNCHANGED <<geoVars, pagerVars>>

Next ==
    \/ Ingest
    \/ GeoNext /\ UNCHANGED pagerVars
    \/ PagerNext /\ UNCHANGED geoVars

Spec == Init /\ [][Next]_vars

\* The resolver's timer fires and its loop is scheduled.  What may fail or be
\* cut short by a restart, a lookup or a write, succeeds in the end when it is
\* tried again and again.
FairSpec ==
    /\ Spec
    /\ WF_vars((StartBatch \/ EndBatch) /\ UNCHANGED pagerVars)
    /\ SF_vars(Lookup /\ UNCHANGED pagerVars)
    /\ SF_vars((SaveLocal \/ Save) /\ UNCHANGED pagerVars)
=============================================================================
