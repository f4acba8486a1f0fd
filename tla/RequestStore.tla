---------------------------- MODULE RequestStore ----------------------------
(***************************************************************************)
(* The two tables the dashboard reads (storage.go): requests, which only   *)
(* grows, and geo_cache, one row per address.  A watcher's InsertBatch is  *)
(* several Inserts that nothing comes between.                             *)
(***************************************************************************)
EXTENDS Integers, FiniteSets, SequencesExt

CONSTANTS
    IPs,           \* client addresses
    Times,         \* timestamps of log lines, not in the order of arrival
    NoGeo,         \* no geo_cache row
    MaxRows        \* bound on requests

ASSUME StoreConstants ==
    /\ IsFiniteSet(IPs) /\ IsFiniteSet(Times) /\ Times \subseteq Nat
    /\ MaxRows \in Nat
    /\ NoGeo \notin {"ok", "fail", "private"}

VARIABLES
    requests,  \* the rows, by id
    geoCache   \* per address the status of its row

storeVars == <<requests, geoCache>>

Rows     == [ip : IPs, time : Times]
Statuses == {"ok", "fail", "private"}

StoreTypeOK ==
    /\ requests \in BoundedSeq(Rows, MaxRows)
    /\ geoCache \in [IPs -> Statuses \cup {NoGeo}]

StoreInit ==
    /\ requests = <<>>
    /\ geoCache = [ip \in IPs |-> NoGeo]

\* Insert, with the address and the timestamp of a log line.
Insert(ip, t) ==
    /\ Len(requests) < MaxRows
    /\ requests' = Append(requests, [ip |-> ip, time |-> t])
    /\ UNCHANGED geoCache

\* UpsertGeo.
UpsertGeo(ip, status) ==
    /\ geoCache' = [geoCache EXCEPT ![ip] = status]
    /\ UNCHANGED requests

RequestsOf(ip) == {id \in DOMAIN requests : requests[id].ip = ip}

\* Mutant: an address without a location counts as unresolved.
DistinctUnlocatedIPs(limit) ==
    LET unlocated == {ip \in IPs : RequestsOf(ip) # {} /\ geoCache[ip] \in {NoGeo, "fail"}}
        count(ip) == Cardinality(RequestsOf(ip))
        ordered   == {s \in SetToSeqs(unlocated) :
                          \A i, j \in DOMAIN s : i < j => count(s[i]) >= count(s[j])}
    IN  {SubSeq(s, 1, IF limit < Len(s) THEN limit ELSE Len(s)) : s \in ordered}

\* What DistinctUnresolvedIPs may return: the addresses without a geo_cache
\* row, the most frequent first, limit of them.
DistinctUnresolvedIPs(limit) ==
    LET unresolved == {ip \in IPs : RequestsOf(ip) # {} /\ geoCache[ip] = NoGeo}
        count(ip)  == Cardinality(RequestsOf(ip))
        ordered    == {s \in SetToSeqs(unresolved) :
                          \A i, j \in DOMAIN s : i < j => count(s[i]) >= count(s[j])}
    IN  {SubSeq(s, 1, IF limit < Len(s) THEN limit ELSE Len(s)) : s \in ordered}

\* The rows a filter on addresses selects (buildWhere).
Selected(filter) == {id \in DOMAIN requests : requests[id].ip \in filter}

\* The rows on a page: ORDER BY timestamp DESC, LIMIT and OFFSET.  Of two with
\* one timestamp the later one comes first, as the index on timestamp has them:
\* the statement leaves their order open, and that it is the same for each page
\* is assumed.
Page(filter, limit, offset) ==
    LET newer(id) == {o \in Selected(filter) :
                         \/ requests[o].time > requests[id].time
                         \/ requests[o].time = requests[id].time /\ o > id}
    IN  {id \in Selected(filter) : Cardinality(newer(id)) \in offset..(offset + limit - 1)}
=============================================================================
