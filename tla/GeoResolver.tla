---------------------------- MODULE GeoResolver ----------------------------
(***************************************************************************)
(* The background resolver (geo.go): every scanInterval it takes a batch of*)
(* addresses that have no geo_cache row, asks the provider for each, and   *)
(* writes the answer.  An administrator switches it on and off, and it     *)
(* looks at the switch only before a batch.                                *)
(***************************************************************************)
EXTENDS RequestStore

CONSTANTS
    LocalIPs,      \* addresses localEntry answers for
    BatchSize      \* r.batchSize

ASSUME GeoConstants == LocalIPs \subseteq IPs /\ BatchSize \in Nat \ {0}

VARIABLES
    enabled,   \* r.enabled
    rpc,       \* where the loop is: "sleep", "next" or "upsert"
    todo,      \* the addresses left of the batch; the first is looked up
    answer,    \* the status the provider answered with, or NoGeo
    answered,  \* answers given for each address, without those not written
    sinceOff   \* requests sent to the provider since it was switched off

geoVars == <<enabled, rpc, todo, answer, answered, sinceOff>>

GeoTypeOK ==
    /\ enabled \in BOOLEAN
    /\ rpc \in {"sleep", "next", "upsert"}
    /\ todo \in BoundedSeq(IPs, BatchSize)
    /\ rpc = "upsert" => todo # <<>>
    /\ answer \in {"ok", "fail", NoGeo}
    /\ answered \in [IPs -> Nat]
    /\ sinceOff \in Nat

GeoInit ==
    /\ enabled \in BOOLEAN
    /\ rpc = "sleep" /\ todo = <<>> /\ answer = NoGeo
    /\ answered = [ip \in IPs |-> 0]
    /\ sinceOff = 0

-----------------------------------------------------------------------------
\* The subscriber of the configuration store.
SetEnabled ==
    /\ enabled' = ~enabled
    /\ sinceOff' = 0
    /\ UNCHANGED <<storeVars, rpc, todo, answer, answered>>

\* Mutant: the switch is looked at where the resolver is created.
StartBatchUnchecked ==
    /\ rpc = "sleep"
    /\ todo' \in DistinctUnresolvedIPs(BatchSize)
    /\ rpc' = "next"
    /\ UNCHANGED <<storeVars, enabled, answer, answered, sinceOff>>

\* The timer fires while the switch is on.
StartBatch ==
    /\ rpc = "sleep" /\ enabled
    /\ todo' \in DistinctUnresolvedIPs(BatchSize)
    /\ rpc' = "next"
    /\ UNCHANGED <<storeVars, enabled, answer, answered, sinceOff>>

EndBatch ==
    /\ rpc = "next" /\ todo = <<>>
    /\ rpc' = "sleep"
    /\ UNCHANGED <<storeVars, enabled, todo, answer, answered, sinceOff>>

\* localEntry knows the address, or cannot parse it.
SaveLocal ==
    /\ rpc = "next" /\ todo # <<>> /\ Head(todo) \in LocalIPs
    /\ \E status \in {"private", "fail"} : UpsertGeo(Head(todo), status)
    /\ todo' = Tail(todo)
    /\ UNCHANGED <<enabled, rpc, answer, answered, sinceOff>>

\* lookup sends a request to the provider for the first address.
Send ==
    /\ rpc = "next" /\ todo # <<>> /\ Head(todo) \notin LocalIPs
    /\ sinceOff' = IF enabled THEN 0 ELSE sinceOff + 1

\* The provider answers, with a location or without one.
Lookup ==
    /\ Send
    /\ answer' \in {"ok", "fail"}
    /\ answered' = [answered EXCEPT ![Head(todo)] = @ + 1]
    /\ rpc' = "upsert"
    /\ UNCHANGED <<storeVars, enabled, todo>>

\* Mutant: a failed lookup ends the loop.
LookupFailsAndStops ==
    /\ Send
    /\ todo' = <<>> /\ rpc' = "stopped"
    /\ UNCHANGED <<storeVars, enabled, answer, answered>>

\* No connection, a bad status or a bad body: the rest of the batch is given
\* up, at the first address or a later one.
LookupFails ==
    /\ Send
    /\ todo' = <<>> /\ rpc' = "sleep"
    /\ UNCHANGED <<storeVars, enabled, answer, answered>>

\* UpsertGeo; after reqDelay comes the next address.
Save ==
    /\ rpc = "upsert"
    /\ UpsertGeo(Head(todo), answer)
    /\ todo' = Tail(todo) /\ rpc' = "next" /\ answer' = NoGeo
    /\ UNCHANGED <<enabled, answered, sinceOff>>

\* The answer at hand is lost.
Forget ==
    answered' = [ip \in IPs |-> IF rpc = "upsert" /\ ip = Head(todo)
                                 THEN answered[ip] - 1 ELSE answered[ip]]

\* Either write fails; the error is ignored.
SaveFails ==
    /\ \/ rpc = "upsert"
       \/ rpc = "next" /\ todo # <<>> /\ Head(todo) \in LocalIPs
    /\ Forget
    /\ todo' = Tail(todo) /\ rpc' = "next" /\ answer' = NoGeo
    /\ UNCHANGED <<storeVars, enabled, sinceOff>>

\* The process stops, or dies, and the loop starts anew with the switch as the
\* configuration store has it.
GeoRestart ==
    /\ rpc # "sleep"
    /\ Forget
    /\ todo' = <<>> /\ rpc' = "sleep" /\ answer' = NoGeo
    /\ UNCHANGED <<storeVars, enabled, sinceOff>>

GeoNext ==
    \/ StartBatch \/ EndBatch \/ Lookup \/ SaveLocal \/ Save
    \/ LookupFails \/ SaveFails
    \/ SetEnabled \/ GeoRestart

-----------------------------------------------------------------------------
(* Properties.                                                             *)

\* "each IP is only looked up once" (docs/DEVELOPMENT.md:170): the provider
\* answers for an address a second time only if its answer could not be saved.
LookedUpOnce == \A ip \in IPs : answered[ip] <= 1

\* After it is switched off the resolver sends no more than the batch it is in.
OffEndsWithBatch == sinceOff <= BatchSize

\* While the resolver is on, every address in the requests table gets a
\* geo_cache row, however rarely it occurs and whatever lookups fail on the way.
EveryAddressResolved ==
    \A ip \in IPs : []<>(geoCache[ip] # NoGeo \/ RequestsOf(ip) = {} \/ ~enabled)
=============================================================================
