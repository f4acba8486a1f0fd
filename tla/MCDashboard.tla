---------------------------- MODULE MCDashboard ----------------------------
(* Small instances of Dashboard for TLC: the resolver, and the request list. *)
EXTENDS Dashboard

CONSTANTS near, far, lan

MCIPs     == {near, far, lan}
MCLocal   == {lan}
MCTimes   == 1..2

\* Two overlapping filters.
MCFilters == {{near, lan}, {near}}

\* The resolver and the request list read the tables and leave each other alone,
\* so a behaviour has steps of one of them only, from its initial state on.  The
\* fair ones are those of the resolver.
MCNext ==
    \/ Ingest
    \/ PagerInit /\ GeoNext /\ UNCHANGED pagerVars
    \/ GeoInit /\ PagerNext /\ UNCHANGED geoVars

MCSpec ==
    /\ Init /\ [][MCNext]_vars
    /\ WF_vars((StartBatch \/ EndBatch) /\ UNCHANGED pagerVars)
    /\ SF_vars(Lookup /\ UNCHANGED pagerVars)
    /\ SF_vars((SaveLocal \/ Save) /\ UNCHANGED pagerVars)
=============================================================================
