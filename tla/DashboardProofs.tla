-------------------------- MODULE DashboardProofs --------------------------
(***************************************************************************)
(* Proofs about Dashboard: what the resolver asks the provider, and what a *)
(* reader of the request list is shown, for any addresses, rows, batch and *)
(* page sizes.                                                             *)
(***************************************************************************)
EXTENDS Dashboard, FiniteSetTheorems, SequenceTheorems, TLAPS

\* How many rows of filter f are shown before row id.
Newer(f, id) ==
    {o \in Selected(f) : \/ requests[o].time > requests[id].time
                         \/ requests[o].time = requests[id].time /\ o > id}

StoreInv ==
    /\ requests \in Seq(Rows) /\ Len(requests) \in 0..MaxRows
    /\ geoCache \in [IPs -> Statuses \cup {NoGeo}]

GeoTypes ==
    /\ enabled \in BOOLEAN
    /\ rpc \in {"sleep", "next", "upsert"}
    /\ todo \in Seq(IPs) /\ Len(todo) \in 0..BatchSize
    /\ answer \in {"ok", "fail", NoGeo}
    /\ rpc = "upsert" => todo # <<>> /\ answer \in {"ok", "fail"}

\* What is left of the batch: different addresses that have no row.
BatchUnresolved ==
    /\ \A i, j \in 1..Len(todo) : i # j => todo[i] # todo[j]
    /\ \A i \in 1..Len(todo) : geoCache[todo[i]] = NoGeo

\* An answer that was given is in the table or at hand.
AnswersKept ==
    /\ answered \in [IPs -> {0, 1}]
    /\ rpc = "upsert" => answered[Head(todo)] = 1
    /\ \A ip \in IPs : answered[ip] = 1 =>
           geoCache[ip] # NoGeo \/ (rpc = "upsert" /\ ip = Head(todo))

\* What has been sent since the switch went off was in the batch.
SentInBatch ==
    /\ sinceOff \in Nat /\ (enabled => sinceOff = 0)
    /\ sinceOff <= BatchSize
    /\ rpc = "next" => sinceOff + Len(todo) <= BatchSize
    /\ rpc = "upsert" => sinceOff + Len(todo) - 1 <= BatchSize

GeoInv == GeoTypes /\ BatchUnresolved /\ AnswersKept /\ SentInBatch

\* Where in the order a row is, from 0 on.
Rank(f, id) == Cardinality(Newer(f, id))

\* Of the rows in u those among the first n.
Behind(f, u, n) == {id \in u : Rank(f, id) < n}

\* Of the pages behind the reader only those passed over can hold such rows.
PagerInv ==
    /\ filter \in Filters \cup {{}}
    /\ page \in 1..(MaxRows + 1)
    /\ total \in 0..MaxRows /\ count \in 0..MaxRows
    /\ qpc \in {"rows", "shown"}
    /\ exact \in BOOLEAN /\ (qpc = "rows" => ~exact)
    /\ front \in 0..(MaxRows + 1) /\ passed \in 0..front
    /\ unseen \subseteq Selected(filter)
    /\ Cardinality(Behind(filter, unseen, front * PageSize)) <= PageSize * passed
    /\ MissedArePassedOver

-----------------------------------------------------------------------------
(* Lemmas.                                                                 *)

LEMMA Bounded ==
    ASSUME NEW S, NEW n \in Nat, NEW s
    PROVE  s \in BoundedSeq(S, n) <=> s \in Seq(S) /\ Len(s) \in 0..n
  <1>1. ASSUME s \in BoundedSeq(S, n) PROVE s \in Seq(S) /\ Len(s) \in 0..n
    <2>1. PICK m \in 0..n : s \in [1..m -> S]
      BY <1>1 DEF BoundedSeq, SeqOf
    <2>2. QED
      BY <2>1, SeqDef
  <1>2. ASSUME s \in Seq(S), Len(s) \in 0..n PROVE s \in BoundedSeq(S, n)
    <2>1. s \in [1..Len(s) -> S]
      BY <1>2
    <2>2. QED
      BY <1>2, <2>1 DEF BoundedSeq, SeqOf
  <1>3. QED
    BY <1>1, <1>2

\* Queries select finite sets of rows, as many as there are at most.
LEMMA SelectedFinite ==
    ASSUME NEW rs \in Seq(Rows), NEW T \in SUBSET (DOMAIN rs)
    PROVE  IsFiniteSet(T) /\ Cardinality(T) \in 0..Len(rs)
  <1>1. Len(rs) \in Nat /\ DOMAIN rs = 1..Len(rs)
    OBVIOUS
  <1>2. IsFiniteSet(1..Len(rs)) /\ Cardinality(1..Len(rs)) = Len(rs)
    <2>1. \A n \in Nat : IsFiniteSet(1..n) /\ Cardinality(1..n) = n
      BY FS_Interval
    <2>2. QED
      BY <1>1, <2>1, Zenon
  <1>3. IsFiniteSet(T) /\ Cardinality(T) <= Len(rs)
    BY <1>1, <1>2, FS_Subset
  <1>4. Cardinality(T) \in Nat
    BY <1>3, FS_CardinalityType
  <1>5. QED
    BY <1>1, <1>3, <1>4

\* A batch holds different addresses that have no geo_cache row.
LEMMA BatchIs ==
    ASSUME NEW b \in DistinctUnresolvedIPs(BatchSize)
    PROVE  /\ b \in Seq(IPs) /\ Len(b) \in 0..BatchSize
           /\ \A i, j \in 1..Len(b) : i # j => b[i] # b[j]
           /\ \A i \in 1..Len(b) : geoCache[b[i]] = NoGeo
  <1> DEFINE U == {ip \in IPs : RequestsOf(ip) # {} /\ geoCache[ip] = NoGeo}
             n == Cardinality(U)
  <1>1. IsFiniteSet(U) /\ n \in Nat
    BY StoreConstants, FS_Subset, FS_CardinalityType
  <1>2. PICK s \in SetToSeqs(U) :
            b = SubSeq(s, 1, IF BatchSize < Len(s) THEN BatchSize ELSE Len(s))
    BY DEF DistinctUnresolvedIPs
  <1>3. s \in [1..n -> U] /\ \A i, j \in 1..n : i # j => s[i] # s[j]
    BY <1>2 DEF SetToSeqs
  <1>4. Len(s) = n /\ s \in Seq(U)
    <2> HIDE DEF n, U
    <2>1. s \in Seq(U)
      BY <1>1, <1>3, SeqDef
    <2>2. QED
      BY <1>1, <1>3, <2>1
  <1> DEFINE m == IF BatchSize < n THEN BatchSize ELSE n
  <1>5. m \in Nat /\ m <= n /\ m <= BatchSize
    BY <1>1, GeoConstants
  <1>6. b = SubSeq(s, 1, m)
    BY <1>2, <1>4
  <1> HIDE DEF m, n
  <1>7. \A i \in 1..m : s[i] \in U
    BY <1>1, <1>3, <1>5
  <1>8. /\ b \in Seq(U) /\ Len(b) = m
        /\ \A i \in 1..m : b[i] = s[i]
    <2>1. /\ SubSeq(s, 1, m) \in Seq(U)
          /\ Len(SubSeq(s, 1, m)) = IF 1 <= m THEN m - 1 + 1 ELSE 0
          /\ \A i \in 1..m - 1 + 1 : SubSeq(s, 1, m)[i] = s[1 + i - 1]
      BY <1>5, <1>7, SubSeqProperties
    <2>2. QED
      BY <1>5, <1>6, <2>1
  <1>9. \A i, j \in 1..m : i # j => b[i] # b[j]
    BY <1>1, <1>3, <1>5, <1>8
  <1>10. b \in Seq(IPs) /\ Len(b) \in 0..BatchSize
    BY <1>5, <1>8, GeoConstants
  <1>11. QED
    BY <1>7, <1>8, <1>9, <1>10

\* The addresses that are left keep their places.
LEMMA TailIs ==
    ASSUME NEW s \in Seq(IPs), s # <<>>
    PROVE  /\ Head(s) \in IPs /\ Head(s) = s[1] /\ Len(s) >= 1
           /\ Tail(s) \in Seq(IPs) /\ Len(Tail(s)) = Len(s) - 1
           /\ \A i \in 1..Len(Tail(s)) : i + 1 \in 1..Len(s) /\ Tail(s)[i] = s[i + 1]
  <1>1. Len(s) \in Nat /\ Len(s) >= 1
    OBVIOUS
  <1>2. Head(s) = s[1]
    OBVIOUS
  <1>3. QED
    BY <1>1, <1>2, HeadTailProperties

-----------------------------------------------------------------------------
(* The tables.                                                             *)

LEMMA StoreStep == StoreInv /\ GeoInv /\ [Next]_vars => StoreInv'
  <1> SUFFICES ASSUME StoreInv, GeoInv, [Next]_vars PROVE StoreInv'
    OBVIOUS
  <1>1. ASSUME UNCHANGED storeVars PROVE StoreInv'
    BY <1>1 DEF StoreInv, storeVars
  <1>2. ASSUME NEW ip \in IPs, NEW t \in Times, Insert(ip, t) PROVE StoreInv'
    <2>1. [ip |-> ip, time |-> t] \in Rows
      BY DEF Rows
    <2>2. QED
      BY <1>2, <2>1, StoreConstants DEF Insert, StoreInv
  <1>3. ASSUME NEW ip \in IPs, NEW st \in Statuses, UpsertGeo(ip, st) PROVE StoreInv'
    BY <1>3 DEF UpsertGeo, StoreInv
  <1>4. CASE Ingest
    BY <1>2, <1>4 DEF Ingest
  <1>5. CASE SaveLocal
    BY <1>3, <1>5, TailIs DEF SaveLocal, GeoInv, GeoTypes, Statuses
  <1>6. CASE Save
    BY <1>3, <1>6, TailIs DEF Save, GeoInv, GeoTypes, Statuses
  <1>7. CASE StartBatch \/ EndBatch \/ Lookup \/ LookupFails \/ SaveFails \/ SetEnabled \/ GeoRestart
    BY <1>1, <1>7 DEF StartBatch, EndBatch, Lookup, LookupFails, SaveFails, SetEnabled, GeoRestart
  <1>8. CASE PagerNext
    BY <1>1, <1>8 DEF PagerNext, ApplyFilters, SwitchTab, NextPage, PrevPage, JumpToPage, Load,
                      ReadRows, RowsCutShort, LoadFails
  <1>9. CASE UNCHANGED vars
    BY <1>1, <1>9 DEF vars
  <1>10. QED
    BY <1>4, <1>5, <1>6, <1>7, <1>8, <1>9 DEF Next, GeoNext

-----------------------------------------------------------------------------
(* The resolver.                                                           *)

\* The first address is done with, and only its row may have changed.
LEMMA NextAddress ==
    ASSUME GeoTypes, BatchUnresolved, todo # <<>>, todo' = Tail(todo),
           geoCache \in [IPs -> Statuses \cup {NoGeo}],
           \/ geoCache' = geoCache
           \/ \E st \in Statuses : geoCache' = [geoCache EXCEPT ![Head(todo)] = st]
    PROVE  /\ todo' \in Seq(IPs) /\ Len(todo') = Len(todo) - 1 /\ Len(todo) >= 1
           /\ BatchUnresolved'
  <1>1. todo \in Seq(IPs) /\ Len(todo) \in Nat
    BY DEF GeoTypes
  <1>2. /\ Head(todo) = todo[1] /\ Head(todo) \in IPs /\ Len(todo) >= 1
        /\ todo' \in Seq(IPs) /\ Len(todo') = Len(todo) - 1
        /\ \A i \in 1..Len(todo') : i + 1 \in 1..Len(todo) /\ todo'[i] = todo[i + 1]
    BY <1>1, TailIs
  <1>3. ASSUME NEW i \in 1..Len(todo'), NEW j \in 1..Len(todo'), i # j PROVE todo'[i] # todo'[j]
    BY <1>2, <1>3 DEF BatchUnresolved
  <1>4. ASSUME NEW i \in 1..Len(todo') PROVE geoCache'[todo'[i]] = NoGeo
    <2>1. 1 \in 1..Len(todo) /\ i + 1 \in 1..Len(todo) /\ i + 1 # 1
      BY <1>1, <1>2
    <2>2. todo[i + 1] # Head(todo) /\ geoCache[todo[i + 1]] = NoGeo /\ todo[i + 1] \in IPs
      BY <1>1, <1>2, <2>1 DEF BatchUnresolved
    <2>3. geoCache'[todo[i + 1]] = geoCache[todo[i + 1]]
      BY <2>2
    <2>4. QED
      BY <1>2, <2>2, <2>3
  <1>5. QED
    BY <1>2, <1>3, <1>4 DEF BatchUnresolved

LEMMA GeoStep == StoreInv /\ GeoInv /\ [Next]_vars => GeoInv'
  <1> SUFFICES ASSUME StoreInv, GeoInv, [Next]_vars PROVE GeoInv'
    OBVIOUS
  <1>a. /\ BatchSize \in Nat /\ BatchSize >= 1
        /\ NoGeo \notin Statuses /\ {"ok", "fail", "private"} = Statuses
        /\ <<>> \in Seq(IPs) /\ Len(<<>>) = 0
    BY GeoConstants, StoreConstants DEF Statuses
  <1>b. GeoTypes /\ BatchUnresolved /\ AnswersKept /\ SentInBatch
    BY DEF GeoInv
  <1>c. geoCache \in [IPs -> Statuses \cup {NoGeo}]
    BY DEF StoreInv
  <1>d. Len(todo) \in Nat /\ Len(todo) <= BatchSize /\ sinceOff \in Nat
    BY <1>a, <1>b DEF GeoTypes, SentInBatch
  <1>1. ASSUME UNCHANGED <<enabled, rpc, todo, answer, answered, sinceOff, geoCache>>
        PROVE  GeoInv'
    BY <1>1, <1>b DEF GeoInv, GeoTypes, BatchUnresolved, AnswersKept, SentInBatch
  <1>2. CASE SetEnabled
    <2>1. /\ enabled' = ~enabled /\ sinceOff' = 0
          /\ UNCHANGED <<rpc, todo, answer, answered, geoCache>>
      BY <1>2 DEF SetEnabled, storeVars
    <2>2. enabled' \in BOOLEAN
      BY <2>1, Zenon
    <2>3. GeoTypes' /\ BatchUnresolved' /\ AnswersKept'
      BY <1>b, <2>1, <2>2 DEF GeoTypes, BatchUnresolved, AnswersKept
    <2>4. SentInBatch'
      BY <1>a, <1>d, <2>1 DEF SentInBatch
    <2>5. QED
      BY <2>3, <2>4 DEF GeoInv
  <1>3. CASE StartBatch
    <2>1. PICK b \in DistinctUnresolvedIPs(BatchSize) : todo' = b
      BY <1>3 DEF StartBatch
    <2>2. /\ rpc = "sleep" /\ enabled /\ rpc' = "next"
          /\ UNCHANGED <<enabled, answer, answered, sinceOff, geoCache>>
      BY <1>3 DEF StartBatch, storeVars
    <2>3. /\ todo' \in Seq(IPs) /\ Len(todo') \in 0..BatchSize
          /\ \A i, j \in 1..Len(todo') : i # j => todo'[i] # todo'[j]
          /\ \A i \in 1..Len(todo') : geoCache[todo'[i]] = NoGeo
      BY <2>1, BatchIs
    <2>4. GeoTypes' /\ BatchUnresolved'
      BY <1>b, <2>2, <2>3 DEF GeoTypes, BatchUnresolved
    <2>5. AnswersKept'
      BY <1>b, <2>2 DEF AnswersKept
    <2>6. SentInBatch'
      BY <1>a, <1>b, <2>2, <2>3 DEF SentInBatch
    <2>7. QED
      BY <2>4, <2>5, <2>6 DEF GeoInv
  <1>4. CASE EndBatch
    <2>1. /\ rpc = "next" /\ rpc' = "sleep"
          /\ UNCHANGED <<enabled, todo, answer, answered, sinceOff, geoCache>>
      BY <1>4 DEF EndBatch, storeVars
    <2>2. QED
      BY <1>b, <2>1 DEF GeoInv, GeoTypes, BatchUnresolved, AnswersKept, SentInBatch
  <1>5. CASE SaveLocal
    <2> PICK st \in {"private", "fail"} : UpsertGeo(Head(todo), st)
      BY <1>5 DEF SaveLocal
    <2>1. /\ rpc = "next" /\ todo # <<>> /\ todo' = Tail(todo)
          /\ geoCache' = [geoCache EXCEPT ![Head(todo)] = st]
          /\ UNCHANGED <<enabled, rpc, answer, answered, sinceOff>>
      BY <1>5 DEF SaveLocal, UpsertGeo
    <2>2. /\ todo' \in Seq(IPs) /\ Len(todo') = Len(todo) - 1 /\ Len(todo) >= 1
          /\ BatchUnresolved'
      BY <1>a, <1>b, <1>c, <2>1, NextAddress
    <2>3. GeoTypes'
      BY <1>a, <1>b, <1>d, <2>1, <2>2 DEF GeoTypes
    <2>4. \A ip \in IPs : geoCache[ip] # NoGeo => geoCache'[ip] # NoGeo
      BY <1>a, <1>c, <2>1
    <2>5. AnswersKept'
      BY <1>b, <2>1, <2>4 DEF AnswersKept
    <2>6. SentInBatch'
      BY <1>a, <1>b, <1>d, <2>1, <2>2 DEF SentInBatch
    <2>7. QED
      BY <2>2, <2>3, <2>5, <2>6 DEF GeoInv
  <1>6. CASE Lookup
    <2>1. /\ rpc = "next" /\ todo # <<>> /\ rpc' = "upsert"
          /\ answer' \in {"ok", "fail"}
          /\ answered' = [answered EXCEPT ![Head(todo)] = @ + 1]
          /\ sinceOff' = IF enabled THEN 0 ELSE sinceOff + 1
          /\ UNCHANGED <<enabled, todo, geoCache>>
      BY <1>6 DEF Lookup, Send, storeVars
    <2>2. Head(todo) \in IPs /\ Head(todo) = todo[1] /\ Len(todo) >= 1
      BY <1>b, <2>1, TailIs DEF GeoTypes
    <2>3. geoCache[Head(todo)] = NoGeo
      BY <1>b, <1>d, <2>2 DEF BatchUnresolved
    <2>4. answered[Head(todo)] = 0
      BY <1>b, <2>1, <2>2, <2>3 DEF AnswersKept
    <2>5. answered' = [answered EXCEPT ![Head(todo)] = 1]
      BY <2>1, <2>4
    <2>6. GeoTypes' /\ BatchUnresolved'
      BY <1>b, <2>1 DEF GeoTypes, BatchUnresolved
    <2>7. AnswersKept'
      BY <1>b, <2>1, <2>2, <2>5 DEF AnswersKept
    <2>8. SentInBatch'
      <3>1. CASE enabled
        BY <1>a, <1>d, <2>1, <3>1 DEF SentInBatch
      <3>2. CASE ~enabled
        BY <1>a, <1>b, <1>d, <2>1, <2>2, <3>2 DEF SentInBatch
      <3>3. QED
        BY <3>1, <3>2
    <2>9. QED
      BY <2>6, <2>7, <2>8 DEF GeoInv
  <1>7. CASE LookupFails
    <2>1. /\ rpc = "next" /\ todo # <<>> /\ rpc' = "sleep" /\ todo' = <<>>
          /\ sinceOff' = IF enabled THEN 0 ELSE sinceOff + 1
          /\ UNCHANGED <<enabled, answer, answered, geoCache>>
      BY <1>7 DEF LookupFails, Send, storeVars
    <2>2. Len(todo) >= 1
      BY <1>b, <2>1, TailIs DEF GeoTypes
    <2>3. GeoTypes' /\ BatchUnresolved'
      BY <1>a, <1>b, <2>1 DEF GeoTypes, BatchUnresolved
    <2>4. AnswersKept'
      BY <1>b, <2>1 DEF AnswersKept
    <2>5. SentInBatch'
      <3>1. CASE enabled
        BY <1>a, <1>d, <2>1, <3>1 DEF SentInBatch
      <3>2. CASE ~enabled
        BY <1>a, <1>b, <1>d, <2>1, <2>2, <3>2 DEF SentInBatch
      <3>3. QED
        BY <3>1, <3>2
    <2>6. QED
      BY <2>3, <2>4, <2>5 DEF GeoInv
  <1>8. CASE Save
    <2>1. /\ rpc = "upsert" /\ todo # <<>> /\ answer \in Statuses
          /\ todo' = Tail(todo) /\ rpc' = "next" /\ answer' = NoGeo
          /\ geoCache' = [geoCache EXCEPT ![Head(todo)] = answer]
          /\ UNCHANGED <<enabled, answered, sinceOff>>
      BY <1>8, <1>a, <1>b DEF Save, UpsertGeo, GeoTypes
    <2>2. /\ todo' \in Seq(IPs) /\ Len(todo') = Len(todo) - 1 /\ Len(todo) >= 1
          /\ BatchUnresolved'
      BY <1>a, <1>b, <1>c, <2>1, NextAddress
    <2>3. GeoTypes'
      BY <1>a, <1>b, <1>d, <2>1, <2>2 DEF GeoTypes
    <2>4. Head(todo) \in IPs
      BY <1>b, <2>1, TailIs DEF GeoTypes
    <2>5. /\ geoCache'[Head(todo)] # NoGeo
          /\ \A ip \in IPs : geoCache[ip] # NoGeo => geoCache'[ip] # NoGeo
      BY <1>a, <1>c, <2>1, <2>4
    <2>6. AnswersKept'
      BY <1>b, <2>1, <2>5 DEF AnswersKept
    <2>7. SentInBatch'
      BY <1>a, <1>b, <1>d, <2>1, <2>2 DEF SentInBatch
    <2>8. QED
      BY <2>2, <2>3, <2>6, <2>7 DEF GeoInv
  \* What Forget leaves: of the address at hand no answer.
  <1>9. ASSUME Forget
        PROVE  /\ answered' \in [IPs -> {0, 1}]
               /\ \A ip \in IPs : answered'[ip] = 1 => geoCache[ip] # NoGeo
    <2>1. \A ip \in IPs : answered'[ip] = IF rpc = "upsert" /\ ip = Head(todo)
                                          THEN answered[ip] - 1 ELSE answered[ip]
      BY <1>9 DEF Forget
    <2>2. \A ip \in IPs : rpc = "upsert" /\ ip = Head(todo) => answered'[ip] = 0
      BY <1>b, <2>1 DEF AnswersKept
    <2>3. \A ip \in IPs : ~(rpc = "upsert" /\ ip = Head(todo)) => answered'[ip] = answered[ip]
      BY <2>1
    <2>4. \A ip \in IPs : answered'[ip] \in {0, 1}
      BY <1>b, <2>2, <2>3 DEF AnswersKept
    <2>5. answered' = [ip \in IPs |-> answered'[ip]]
      BY <1>9 DEF Forget
    <2>6. QED
      BY <1>b, <2>2, <2>3, <2>4, <2>5 DEF AnswersKept
  <1>10. CASE SaveFails
    <2>1. /\ todo # <<>> /\ rpc \in {"upsert", "next"}
          /\ todo' = Tail(todo) /\ rpc' = "next" /\ answer' = NoGeo
          /\ UNCHANGED <<enabled, sinceOff, geoCache>>
      BY <1>10, <1>b DEF SaveFails, storeVars, GeoTypes
    <2>2. /\ todo' \in Seq(IPs) /\ Len(todo') = Len(todo) - 1 /\ Len(todo) >= 1
          /\ BatchUnresolved'
      BY <1>b, <1>c, <2>1, NextAddress
    <2>3. GeoTypes'
      BY <1>a, <1>b, <1>d, <2>1, <2>2 DEF GeoTypes
    <2>4. AnswersKept'
      BY <1>9, <1>10, <2>1 DEF AnswersKept, SaveFails
    <2>5. SentInBatch'
      BY <1>a, <1>b, <1>d, <2>1, <2>2 DEF SentInBatch
    <2>6. QED
      BY <2>2, <2>3, <2>4, <2>5 DEF GeoInv
  <1>11. CASE GeoRestart
    <2>1. /\ todo' = <<>> /\ rpc' = "sleep" /\ answer' = NoGeo
          /\ UNCHANGED <<enabled, sinceOff, geoCache>>
      BY <1>11 DEF GeoRestart, storeVars
    <2>2. GeoTypes' /\ BatchUnresolved'
      BY <1>a, <1>b, <2>1 DEF GeoTypes, BatchUnresolved
    <2>3. AnswersKept'
      BY <1>9, <1>11, <2>1 DEF AnswersKept, GeoRestart
    <2>4. SentInBatch'
      BY <1>a, <1>b, <2>1 DEF SentInBatch
    <2>5. QED
      BY <2>2, <2>3, <2>4 DEF GeoInv
  <1>12. CASE Ingest
    BY <1>1, <1>12 DEF Ingest, Insert, geoVars
  <1>13. CASE PagerNext /\ UNCHANGED geoVars
    BY <1>1, <1>13 DEF PagerNext, ApplyFilters, SwitchTab, NextPage, PrevPage, JumpToPage, Load,
                       ReadRows, RowsCutShort, LoadFails, geoVars, storeVars
  <1>14. CASE UNCHANGED vars
    BY <1>1, <1>14 DEF vars, geoVars, storeVars
  <1>15. QED
    BY <1>2, <1>3, <1>4, <1>5, <1>6, <1>7, <1>8, <1>10, <1>11, <1>12, <1>13, <1>14 DEF Next, GeoNext

-----------------------------------------------------------------------------
(* The request list.                                                       *)

\* Page p ends where page p + 1 begins, and not before its own number.
LEMMA Pages ==
    ASSUME NEW p \in Nat, NEW s \in Nat \ {0}
    PROVE  /\ p * s \in Nat /\ p * s = (p - 1) * s + s
           /\ p <= p * s /\ (p - 1) * s <= p * s
  <1>1. p * s \in Nat /\ (p - 1) * s \in Int
    OBVIOUS
  <1>2. p * s = (p - 1) * s + s
    OBVIOUS
  <1>3. p * s = p * (s - 1) + p /\ p * (s - 1) \in Nat
    OBVIOUS
  <1>4. QED
    BY <1>1, <1>2, <1>3

\* A row that arrives is no row's predecessor in the selection any less.
LEMMA InsertNewer ==
    ASSUME StoreInv, NEW ip \in IPs, NEW t \in Times, Insert(ip, t), NEW f
    PROVE  /\ Selected(f) \subseteq Selected(f)'
           /\ \A id \in Selected(f) :
                 Rank(f, id) <= Rank(f, id)'
  <1> DEFINE row == [ip |-> ip, time |-> t]
  <1>1. requests \in Seq(Rows) /\ row \in Rows /\ requests' = Append(requests, row)
    BY DEF StoreInv, Insert, Rows
  <1> HIDE DEF row
  <1>2. /\ requests' \in Seq(Rows) /\ Len(requests') = Len(requests) + 1
        /\ \A i \in 1..Len(requests) : requests'[i] = requests[i]
    BY <1>1, AppendProperties
  <1>3. /\ Len(requests) \in Nat
        /\ DOMAIN requests = 1..Len(requests) /\ DOMAIN requests' = 1..Len(requests')
    BY <1>1, <1>2
  <1>4. \A i \in DOMAIN requests : i \in DOMAIN requests' /\ requests'[i] = requests[i]
    BY <1>2, <1>3
  <1>5. Selected(f) \subseteq Selected(f)'
    BY <1>4 DEF Selected
  <1>6. ASSUME NEW id \in Selected(f)
        PROVE  Rank(f, id) <= Rank(f, id)'
    <2>1. id \in DOMAIN requests /\ \A o \in Selected(f) : o \in DOMAIN requests
      BY DEF Selected
    <2>2. Newer(f, id) \subseteq Newer(f, id)'
      BY <1>4, <1>5, <2>1 DEF Newer
    <2>3. Newer(f, id)' \subseteq DOMAIN requests'
      BY DEF Newer, Selected
    <2>4. IsFiniteSet(Newer(f, id)')
      BY <1>2, <2>3, SelectedFinite
    <2>5. QED
      BY <2>2, <2>4, FS_Subset DEF Rank
  <1>7. QED
    BY <1>5, <1>6

\* A selected row comes after fewer rows than are selected.
LEMMA NewerFewer ==
    ASSUME StoreInv, NEW f, NEW id \in Selected(f)
    PROVE  /\ Rank(f, id) \in Nat
           /\ Cardinality(Selected(f)) \in 0..MaxRows
           /\ Rank(f, id) < Cardinality(Selected(f))
  <1>1. /\ requests \in Seq(Rows) /\ Len(requests) \in 0..MaxRows
        /\ Selected(f) \subseteq DOMAIN requests /\ Newer(f, id) \subseteq Selected(f)
    BY DEF StoreInv, Selected, Newer
  <1>2. /\ IsFiniteSet(Selected(f)) /\ Cardinality(Selected(f)) \in 0..Len(requests)
        /\ IsFiniteSet(Newer(f, id)) /\ Cardinality(Newer(f, id)) \in 0..Len(requests)
    BY <1>1, SelectedFinite
  <1>3. id \notin Newer(f, id)
    <2>1. id \in DOMAIN requests /\ requests[id] \in Rows
      BY <1>1
    <2>2. requests[id].time \in Nat
      BY <2>1, StoreConstants DEF Rows
    <2>3. id \in Int
      BY <1>1, <2>1
    <2>4. QED
      BY <2>2, <2>3 DEF Newer
  <1>4. Newer(f, id) # Selected(f)
    BY <1>3
  <1>5. Rank(f, id) < Cardinality(Selected(f))
    <2>1. Cardinality(Newer(f, id)) <= Cardinality(Selected(f))
      BY <1>1, <1>2, FS_Subset
    <2>2. Cardinality(Newer(f, id)) # Cardinality(Selected(f))
      BY <1>1, <1>2, <1>4, FS_Subset
    <2>3. QED
      BY <1>2, <2>1, <2>2 DEF Rank
  <1>6. QED
    BY <1>1, <1>2, <1>5, StoreConstants DEF Rank

LEMMA SelectedCount ==
    ASSUME StoreInv, NEW f
    PROVE  Cardinality(Selected(f)) \in 0..MaxRows
  <1>1. requests \in Seq(Rows) /\ Len(requests) \in 0..MaxRows /\ Selected(f) \subseteq DOMAIN requests
    BY DEF StoreInv, Selected
  <1>2. Cardinality(Selected(f)) \in 0..Len(requests)
    BY <1>1, SelectedFinite
  <1>3. QED
    BY <1>1, <1>2, StoreConstants

\* What is selected, and in which order, depends on the requests only.
LEMMA SameRows ==
    ASSUME UNCHANGED requests
    PROVE  \A f : /\ Selected(f)' = Selected(f)
                  /\ \A id : Newer(f, id)' = Newer(f, id) /\ Rank(f, id)' = Rank(f, id)
                  /\ \A u, n : {id \in u : Rank(f, id)' < n} = Behind(f, u, n)
  <1>1. \A f : Selected(f)' = Selected(f)
    BY DEF Selected
  <1>2. \A f : \A id : Newer(f, id)' = Newer(f, id)
    BY <1>1 DEF Newer
  <1>3. QED
    BY <1>1, <1>2 DEF Rank, Behind

LEMMA RowTimes == \A r \in Rows : r.time \in Int
  <1>1. \A r \in Rows : r.time \in Times
    BY DEF Rows
  <1>2. Times \subseteq Nat
    BY StoreConstants
  <1>3. \A n \in Nat : n \in Int
    OBVIOUS
  <1>4. QED
    BY <1>1, <1>2, <1>3, Zenon

\* A row has a lower rank than those it is newer than ...
LEMMA NewerRanksLower ==
    ASSUME StoreInv, NEW f, NEW a \in Selected(f), NEW b \in Newer(f, a)
    PROVE  Rank(f, b) < Rank(f, a)
  <1>1. /\ requests \in Seq(Rows) /\ Selected(f) \subseteq DOMAIN requests
        /\ b \in Selected(f)
        /\ \A id : Newer(f, id) \subseteq DOMAIN requests
    BY DEF StoreInv, Selected, Newer
  <1>2. \A id \in Selected(f) : id \in Int /\ requests[id].time \in Int
    <2>1. \A id \in DOMAIN requests : requests[id] \in Rows /\ id \in Int
      BY <1>1
    <2>2. \A r \in Rows : r.time \in Int
      BY RowTimes
    <2>3. QED
      BY <1>1, <2>1, <2>2
  <1>3. Newer(f, b) \subseteq Newer(f, a)
    <2>1. SUFFICES ASSUME NEW c \in Newer(f, b) PROVE c \in Newer(f, a)
      OBVIOUS
    <2>2. c \in Selected(f)
      BY DEF Newer
    <2>3. QED
      BY <1>1, <1>2, <2>2 DEF Newer
  <1>4. b \notin Newer(f, b)
    BY <1>1, <1>2 DEF Newer
  <1>5. IsFiniteSet(Newer(f, a)) /\ IsFiniteSet(Newer(f, b))
    BY <1>1, SelectedFinite
  <1>6. Rank(f, a) \in Nat /\ Rank(f, b) \in Nat
    BY <1>5, FS_CardinalityType DEF Rank
  <1>7. Rank(f, b) <= Rank(f, a) /\ Rank(f, b) # Rank(f, a)
    BY <1>3, <1>4, <1>5, FS_Subset DEF Rank
  <1>8. QED
    BY <1>6, <1>7

\* ... so that no two rows are in one place of the order, and there are no more
\* of them than places.
LEMMA PlacesHoldOne ==
    ASSUME StoreInv, NEW f, NEW u \in SUBSET Selected(f), NEW n \in Nat, NEW m \in Nat, n <= m
    PROVE  /\ IsFiniteSet({id \in u : Rank(f, id) \in n..(m - 1)})
           /\ Cardinality({id \in u : Rank(f, id) \in n..(m - 1)}) <= m - n
  <1> DEFINE T == {id \in u : Rank(f, id) \in n..(m - 1)}
             g == [id \in T |-> Rank(f, id)]
  <1>1. \A a, b \in Selected(f) : a # b => a \in Newer(f, b) \/ b \in Newer(f, a)
    <2>1. \A id \in Selected(f) : id \in Int /\ requests[id].time \in Int
      <3>1. requests \in Seq(Rows) /\ Selected(f) \subseteq DOMAIN requests
        BY DEF StoreInv, Selected
      <3>2. \A id \in DOMAIN requests : requests[id] \in Rows /\ id \in Int
        BY <3>1
      <3>3. \A r \in Rows : r.time \in Int
        BY RowTimes
      <3>4. QED
        BY <3>1, <3>2, <3>3
    <2>2. QED
      BY <2>1 DEF Newer
  <1>2. \A id \in Selected(f) : Rank(f, id) \in Nat
    BY NewerFewer
  <1>3. ASSUME NEW a \in T, NEW b \in T, a # b PROVE g[a] # g[b]
    <2>1. Rank(f, a) < Rank(f, b) \/ Rank(f, b) < Rank(f, a)
      BY <1>1, <1>3, NewerRanksLower
    <2>2. Rank(f, a) # Rank(f, b)
      BY <1>2, <2>1
    <2>3. QED
      BY <2>2
  <1>4. g \in [T -> n..(m - 1)]
    OBVIOUS
  <1>5. IsFiniteSet(n..(m - 1)) /\ Cardinality(n..(m - 1)) = m - n
    <2>1. n \in Int /\ m - 1 \in Int
      OBVIOUS
    <2>2. /\ IsFiniteSet(n..(m - 1))
          /\ Cardinality(n..(m - 1)) = IF n > m - 1 THEN 0 ELSE (m - 1) - n + 1
      BY <2>1, FS_Interval
    <2>3. QED
      BY <2>2
  <1> HIDE DEF T, g
  <1>6. g \in Injection(T, n..(m - 1))
    BY <1>3, <1>4 DEF Injection, IsInjective
  <1>7. IsFiniteSet(T) /\ Cardinality(T) <= Cardinality(n..(m - 1))
    BY <1>5, <1>6, FS_Injection
  <1>8. QED
    BY <1>5, <1>7 DEF T

\* Rows that have not been shown and are among the first n + m: those among the
\* first n, and at most m others.
LEMMA BehindGrows ==
    ASSUME StoreInv, NEW f, NEW u \in SUBSET Selected(f), NEW n \in Nat, NEW m \in Nat, n <= m
    PROVE  Cardinality(Behind(f, u, m)) <= Cardinality(Behind(f, u, n)) + (m - n)
  <1> DEFINE A == Behind(f, u, n)
             T == {id \in u : Rank(f, id) \in n..(m - 1)}
  <1>1. \A id \in u : Rank(f, id) \in Nat
    BY NewerFewer
  <1>2. Behind(f, u, m) = A \cup T
    BY <1>1 DEF Behind
  <1>3. IsFiniteSet(A) /\ Cardinality(A) \in Nat
    <2>1. requests \in Seq(Rows) /\ A \subseteq DOMAIN requests
      BY DEF StoreInv, Selected, Behind
    <2>2. QED
      BY <2>1, SelectedFinite
  <1>4. IsFiniteSet(T) /\ Cardinality(T) <= m - n
    BY PlacesHoldOne
  <1> HIDE DEF A, T
  <1>5. Cardinality(T) \in Nat /\ Cardinality(A \cap T) \in Nat
    BY <1>3, <1>4, FS_CardinalityType, FS_Intersection
  <1>6. Cardinality(A \cup T) = Cardinality(A) + Cardinality(T) - Cardinality(A \cap T)
    BY <1>3, <1>4, FS_Union
  <1>7. QED
    BY <1>2, <1>3, <1>4, <1>5, <1>6 DEF A

\* Whoever has been shown more has no more left.
LEMMA BehindShrinks ==
    ASSUME StoreInv, NEW f, NEW u \in SUBSET Selected(f), NEW v \in SUBSET u, NEW n
    PROVE  /\ IsFiniteSet(Behind(f, u, n))
           /\ Cardinality(Behind(f, v, n)) \in Nat /\ Cardinality(Behind(f, u, n)) \in Nat
           /\ Cardinality(Behind(f, v, n)) <= Cardinality(Behind(f, u, n))
  <1>1. /\ requests \in Seq(Rows) /\ Behind(f, v, n) \subseteq Behind(f, u, n)
        /\ Behind(f, u, n) \subseteq DOMAIN requests
    BY DEF StoreInv, Selected, Behind
  <1>2. IsFiniteSet(Behind(f, u, n)) /\ Cardinality(Behind(f, u, n)) \in Nat
    BY <1>1, SelectedFinite
  <1>3. IsFiniteSet(Behind(f, v, n)) /\ Cardinality(Behind(f, v, n)) <= Cardinality(Behind(f, u, n))
    BY <1>1, <1>2, FS_Subset
  <1>4. QED
    BY <1>2, <1>3, FS_CardinalityType

LEMMA PagerStep == StoreInv /\ PagerInv /\ [Next]_vars => PagerInv'
  <1> SUFFICES ASSUME StoreInv, PagerInv, [Next]_vars PROVE PagerInv'
    OBVIOUS
  <1>a. MaxRows \in Nat /\ PageSize \in Nat \ {0}
    BY StoreConstants, PagerConstants
  <1>b. /\ filter \in Filters \cup {{}} /\ page \in 1..(MaxRows + 1)
        /\ total \in 0..MaxRows /\ count \in 0..MaxRows
        /\ qpc \in {"rows", "shown"}
        /\ exact \in BOOLEAN /\ (qpc = "rows" => ~exact)
        /\ front \in 0..(MaxRows + 1) /\ passed \in 0..front
        /\ unseen \subseteq Selected(filter)
        /\ Cardinality(Behind(filter, unseen, front * PageSize)) <= PageSize * passed
        /\ MissedArePassedOver
    BY DEF PagerInv
  <1>c. PICK fl \in Filters \cup {{}} : fl = filter
    BY <1>b
  <1>d. PICK fr \in Nat : fr = front * PageSize
    BY <1>a, <1>b
  <1>e. /\ unseen \subseteq Selected(fl)
        /\ Cardinality(Behind(fl, unseen, fr)) <= PageSize * passed
    BY <1>b, <1>c, <1>d
  \* What has not been shown keeps its place.
  <1>0. ASSUME UNCHANGED <<requests, filter, front, passed>>,
               NEW v \in SUBSET unseen, unseen' = v
        PROVE  /\ unseen' \subseteq Selected(filter)'
               /\ Cardinality(Behind(filter, unseen, front * PageSize))' <= PageSize * passed'
    <2>1. /\ Selected(fl)' = Selected(fl)
          /\ {id \in v : Rank(fl, id)' < fr} = Behind(fl, v, fr)
      BY <1>0, SameRows
    <2>2. filter' = fl /\ (front * PageSize)' = fr
      BY <1>0, <1>c, <1>d
    <2>3. Behind(filter, unseen, front * PageSize)' = Behind(fl, v, fr)
      BY <1>0, <2>1, <2>2 DEF Behind
    <2>4. /\ Cardinality(Behind(fl, v, fr)) <= Cardinality(Behind(fl, unseen, fr))
          /\ Cardinality(Behind(fl, v, fr)) \in Nat /\ Cardinality(Behind(fl, unseen, fr)) \in Nat
      BY <1>e, BehindShrinks
    <2>5. PageSize * passed \in Nat
      BY <1>a, <1>b
    <2>6. Cardinality(Behind(fl, v, fr)) <= PageSize * passed
      BY <1>e, <2>4, <2>5
    <2>7. QED
      BY <1>0, <1>e, <2>1, <2>2, <2>3, <2>6
  \* Query counts the rows.
  <1>1. ASSUME NEW f \in Filters, NEW p \in 1..(MaxRows + 1), NEW anew, Load(f, p, anew)
        PROVE  PagerInv'
    <2>1. /\ page' = p /\ filter' = f /\ count' = Cardinality(Selected(f)) /\ qpc' = "rows"
          /\ exact' = FALSE /\ UNCHANGED <<requests, total>>
      BY <1>1 DEF Load, storeVars
    <2>2. count' \in 0..MaxRows
      BY <2>1, SelectedCount
    <2>3. /\ front' \in 0..(MaxRows + 1) /\ passed' \in 0..front'
          /\ unseen' \subseteq Selected(filter)'
          /\ Cardinality(Behind(filter, unseen, front * PageSize))' <= PageSize * passed'
      <3>1. CASE anew \/ f # filter
        <4>1. unseen' = Selected(f) /\ front' = 0 /\ passed' = 0
          BY <1>1, <3>1 DEF Load
        <4>2. /\ Selected(f)' = Selected(f)
              /\ {id \in Selected(f) : Rank(f, id)' < 0} = Behind(f, Selected(f), 0)
          BY <2>1, SameRows
        <4>3. \A id \in Selected(f) : Rank(f, id) \in Nat
          BY NewerFewer
        <4>4. Behind(f, Selected(f), 0) = {}
          BY <4>3 DEF Behind
        <4>5. (front * PageSize)' = 0 /\ PageSize * passed' = 0
          BY <1>a, <4>1
        <4>6. Behind(filter, unseen, front * PageSize)' = {}
          BY <2>1, <4>1, <4>2, <4>4, <4>5 DEF Behind
        <4>7. QED
          BY <1>a, <2>1, <4>1, <4>2, <4>5, <4>6, FS_EmptySet
      <3>2. CASE ~(anew \/ f # filter)
        <4>1. UNCHANGED <<requests, filter, front, passed, unseen>>
          BY <1>1, <2>1, <3>2 DEF Load
        <4>2. QED
          BY <1>0, <1>b, <4>1
      <3>3. QED
        BY <3>1, <3>2
    <2>4. MissedArePassedOver'
      BY <2>1 DEF MissedArePassedOver
    <2>5. exact' \in BOOLEAN
      BY <2>1, Zenon
    <2>6. QED
      BY <1>b, <2>1, <2>2, <2>3, <2>4, <2>5 DEF PagerInv
  <1>2. ASSUME NEW f \in Filters, ApplyFilters(f) \/ SwitchTab(f) PROVE PagerInv'
    <2>1. 1 \in 1..(MaxRows + 1)
      BY <1>a
    <2>2. QED
      BY <1>1, <1>2, <1>b, <2>1 DEF ApplyFilters, SwitchTab
  <1>3. ASSUME NEW f \in Filters, NextPage(f) PROVE PagerInv'
    <2>1. page <= page * PageSize /\ page * PageSize \in Nat /\ page * PageSize < total
      BY <1>3, <1>a, <1>b, Pages DEF NextPage, HasNext
    <2>2. page + 1 \in 1..(MaxRows + 1)
      BY <1>a, <1>b, <2>1
    <2>3. QED
      BY <1>1, <1>3, <2>2 DEF NextPage
  <1>4. ASSUME NEW f \in Filters, PrevPage(f) PROVE PagerInv'
    <2>1. page - 1 \in 1..(MaxRows + 1)
      BY <1>4, <1>a, <1>b DEF PrevPage
    <2>2. QED
      BY <1>1, <1>4, <2>1 DEF PrevPage
  <1>5. ASSUME NEW f \in Filters, JumpToPage(f) PROVE PagerInv'
    BY <1>1, <1>5 DEF JumpToPage
  \* The rows are shown.
  <1>6. CASE ReadRows
    <2> DEFINE pg == Page(filter, PageSize, (page - 1) * PageSize)
    <2>1. /\ qpc = "rows" /\ qpc' = "shown" /\ unseen' = unseen \ pg /\ total' = count
          /\ exact' = (count = Cardinality(Selected(filter)))
          /\ UNCHANGED <<requests, filter, page, count>>
      BY <1>6 DEF ReadRows, storeVars
    <2>2. PICK b \in Nat, e \in Nat : /\ b = (page - 1) * PageSize /\ e = page * PageSize
                                      /\ b + PageSize = e /\ page <= e
      <3>1. page \in Nat /\ page - 1 \in Nat
        BY <1>a, <1>b
      <3>2. (page - 1) * PageSize \in Nat
        BY <1>a, <3>1
      <3>3. QED
        BY <1>a, <3>1, <3>2, Pages
    <2>3. \A id \in Selected(fl) : Rank(fl, id) \in Nat /\ Rank(fl, id) < Cardinality(Selected(fl))
      BY NewerFewer
    <2>4. \A id \in unseen' : id \in unseen /\ Rank(fl, id) \notin b..(e - 1)
      <3>1. \A id \in unseen : Rank(fl, id) \in b..(b + PageSize - 1) => id \in pg
        BY <1>c, <1>e, <2>2 DEF Page, Rank, Newer
      <3>2. QED
        BY <1>a, <2>1, <2>2, <3>1
    <2>5. /\ front' \in 0..(MaxRows + 1) /\ passed' \in 0..front' /\ page <= front'
          /\ unseen' \subseteq Selected(filter)'
          /\ Cardinality(Behind(filter, unseen, front * PageSize))' <= PageSize * passed'
      <3>1. CASE page > front
        <4>1. front' = page /\ passed' = passed + (page - 1 - front)
          BY <1>6, <3>1 DEF ReadRows
        <4>2. front' \in 0..(MaxRows + 1) /\ passed' \in 0..front' /\ page <= front'
          BY <1>a, <1>b, <3>1, <4>1
        <4>3. /\ b - fr = PageSize * (page - 1 - front)
              /\ PageSize * passed' = PageSize * passed + PageSize * (page - 1 - front)
              /\ PageSize * (page - 1 - front) \in Nat
          <5>1. \A s, x, y, z \in Int : /\ (x - 1) * s - y * s = s * (x - 1 - y)
                                        /\ s * (z + (x - 1 - y)) = s * z + s * (x - 1 - y)
            OBVIOUS
          <5>2. \A s, n \in Nat : s * n \in Nat
            OBVIOUS
          <5>3. page - 1 - front \in Nat /\ PageSize \in Int /\ PageSize \in Nat /\ passed \in Int
                /\ page \in Int /\ front \in Int
            BY <1>a, <1>b, <3>1
          <5>4. b - fr = (page - 1) * PageSize - front * PageSize
            BY <1>d, <2>2
          <5>5. b - fr = PageSize * (page - 1 - front)
            BY <5>1, <5>3, <5>4
          <5>6. PageSize * passed' = PageSize * passed + PageSize * (page - 1 - front)
            BY <4>1, <5>1, <5>3
          <5>7. PageSize * (page - 1 - front) \in Nat
            BY <5>2, <5>3
          <5>8. QED
            BY <5>5, <5>6, <5>7
        <4>4. fr <= b
          BY <4>3
        <4>5. Selected(fl)' = Selected(fl) /\ \A u, n : {id \in u : Rank(fl, id)' < n} = Behind(fl, u, n)
          BY <2>1, SameRows
        <4>6. PICK v \in SUBSET unseen : v = unseen'
          BY <2>1
        <4>7. Behind(fl, v, e) = Behind(fl, v, b)
          <5>1. \A id \in v : Rank(fl, id) \in Nat /\ Rank(fl, id) \notin b..(e - 1)
            BY <1>e, <2>3, <2>4, <4>6
          <5>2. \A id \in v : Rank(fl, id) < e <=> Rank(fl, id) < b
            BY <1>a, <2>2, <5>1
          <5>3. QED
            BY <5>2 DEF Behind
        <4>8. Behind(filter, unseen, front * PageSize)' = Behind(fl, v, b)
          <5>1. filter' = fl /\ (front * PageSize)' = e
            BY <1>c, <2>1, <2>2, <4>1
          <5>2. Behind(filter, unseen, front * PageSize)' = {id \in v : Rank(fl, id)' < e}
            BY <4>6, <5>1 DEF Behind
          <5>3. QED
            BY <4>5, <4>7, <5>2
        <4>9. Cardinality(Behind(fl, v, b)) <= PageSize * passed'
          <5>1. Cardinality(Behind(fl, unseen, b)) <= Cardinality(Behind(fl, unseen, fr)) + (b - fr)
            BY <1>e, <4>4, BehindGrows
          <5>2. /\ Cardinality(Behind(fl, v, b)) <= Cardinality(Behind(fl, unseen, b))
                /\ Cardinality(Behind(fl, v, b)) \in Nat /\ Cardinality(Behind(fl, unseen, b)) \in Nat
            BY <1>e, BehindShrinks
          <5>3. Cardinality(Behind(fl, unseen, fr)) \in Nat
            BY <1>e, BehindShrinks
          <5>4. PageSize * passed \in Nat
            BY <1>a, <1>b
          <5>5. QED
            BY <1>e, <4>3, <5>1, <5>2, <5>3, <5>4
        <4>10. unseen' \subseteq Selected(filter)'
          BY <1>c, <1>e, <2>1, <4>5
        <4>11. QED
          BY <4>2, <4>8, <4>9, <4>10
      <3>2. CASE ~(page > front)
        <4>1. UNCHANGED <<front, passed>>
          BY <1>6, <3>2 DEF ReadRows
        <4>2. PICK v \in SUBSET unseen : v = unseen'
          BY <2>1
        <4>3. /\ unseen' \subseteq Selected(filter)'
              /\ Cardinality(Behind(filter, unseen, front * PageSize))' <= PageSize * passed'
          BY <1>0, <2>1, <4>1, <4>2
        <4>4. front' \in 0..(MaxRows + 1) /\ passed' \in 0..front' /\ page <= front'
          BY <1>a, <1>b, <3>2, <4>1
        <4>5. QED
          BY <4>3, <4>4
      <3>3. QED
        BY <3>1, <3>2
    <2>6. MissedArePassedOver'
      <3>1. SUFFICES ASSUME exact', ~HasNext' PROVE Cardinality(unseen') <= PageSize * passed'
        BY DEF MissedArePassedOver
      <3>2. count = Cardinality(Selected(fl)) /\ count <= e
        BY <1>b, <1>c, <2>1, <2>2, <3>1 DEF HasNext
      <3>3. PICK k \in Nat : k = front' * PageSize /\ e <= k
        <4>1. \A x, y \in Nat : x <= y => x * PageSize <= y * PageSize /\ y * PageSize \in Nat
          BY <1>a
        <4>2. page \in Nat /\ front' \in Nat
          BY <1>a, <1>b, <2>5
        <4>3. QED
          BY <2>2, <2>5, <4>1, <4>2
      <3>4. \A id \in unseen' : Rank(fl, id)' < k
        <4>1. \A id : Rank(fl, id)' = Rank(fl, id)
          BY <2>1, SameRows
        <4>2. \A id \in unseen' : Rank(fl, id) \in Nat /\ Rank(fl, id) < count
          BY <1>e, <2>1, <2>3, <3>2
        <4>3. QED
          BY <1>b, <3>2, <3>3, <4>1, <4>2
      <3>5. Behind(filter, unseen, front * PageSize)' = unseen'
        <4>1. filter' = fl /\ (front * PageSize)' = k
          BY <1>c, <2>1, <3>3
        <4>2. QED
          BY <3>4, <4>1 DEF Behind
      <3>6. QED
        BY <2>5, <3>5
    <2>7. exact' \in BOOLEAN
      BY <2>1, Zenon
    <2>8. QED
      BY <1>b, <2>1, <2>5, <2>6, <2>7 DEF PagerInv
  \* Not all of them are, or none.
  <1>7. CASE RowsCutShort \/ LoadFails
    <2>1. /\ qpc = "rows" /\ qpc' = "shown" /\ total' \in {count, total, 0}
          /\ UNCHANGED <<requests, filter, page, count, front, passed, exact>>
      BY <1>7 DEF RowsCutShort, LoadFails, storeVars
    <2>2. PICK v \in SUBSET unseen : v = unseen'
      BY <1>7 DEF RowsCutShort, LoadFails
    <2>3. /\ unseen' \subseteq Selected(filter)'
          /\ Cardinality(Behind(filter, unseen, front * PageSize))' <= PageSize * passed'
      BY <1>0, <2>1, <2>2
    <2>4. total' \in 0..MaxRows
      BY <1>a, <1>b, <2>1
    <2>5. MissedArePassedOver'
      BY <1>b, <2>1 DEF MissedArePassedOver
    <2>6. QED
      BY <1>b, <2>1, <2>3, <2>4, <2>5 DEF PagerInv
  \* A log line arrives while the list is open.
  <1>8. CASE Ingest
    <2>1. PICK ip \in IPs, t \in Times : Insert(ip, t)
      BY <1>8 DEF Ingest
    <2>2. UNCHANGED <<filter, page, total, qpc, count, unseen, front, passed, exact>>
      BY <1>8 DEF Ingest, pagerVars
    <2>3. /\ Selected(fl) \subseteq Selected(fl)'
          /\ \A id \in Selected(fl) : Rank(fl, id) <= Rank(fl, id)'
      BY <2>1, InsertNewer
    <2>4. StoreInv'
      <3>1. [ip |-> ip, time |-> t] \in Rows
        BY DEF Rows
      <3>2. QED
        BY <2>1, <3>1, StoreConstants DEF Insert, StoreInv
    <2>5. \A id : Rank(fl, id)' \in Nat
      <3>1. ASSUME NEW id PROVE IsFiniteSet(Newer(fl, id)')
        BY <2>4, SelectedFinite DEF StoreInv, Newer, Selected
      <3>2. QED
        BY <3>1, FS_CardinalityType DEF Rank
    <2>6. \A id \in Selected(fl) : Rank(fl, id) \in Nat
      BY NewerFewer
    <2>7. PICK w \in SUBSET unseen : w = Behind(filter, unseen, front * PageSize)'
      BY <2>2 DEF Behind
    <2>8. w \subseteq Behind(fl, unseen, fr)
      <3>1. filter' = fl /\ (front * PageSize)' = fr
        BY <1>c, <1>d, <2>2
      <3>2. w = {id \in unseen : Rank(fl, id)' < fr}
        BY <2>2, <2>7, <3>1 DEF Behind
      <3>3. QED
        BY <1>e, <2>3, <2>5, <2>6, <3>2 DEF Behind
    <2>9. Cardinality(w) <= PageSize * passed'
      <3>1. IsFiniteSet(Behind(fl, unseen, fr)) /\ Cardinality(Behind(fl, unseen, fr)) \in Nat
        BY <1>e, BehindShrinks
      <3>2. IsFiniteSet(w) /\ Cardinality(w) <= Cardinality(Behind(fl, unseen, fr))
        BY <2>8, <3>1, FS_Subset
      <3>3. Cardinality(w) \in Nat
        BY <3>2, FS_CardinalityType
      <3>4. PageSize * passed \in Nat /\ passed' = passed
        BY <1>a, <1>b, <2>2
      <3>5. QED
        BY <1>e, <3>1, <3>2, <3>3, <3>4
    <2>10. unseen' \subseteq Selected(filter)'
      BY <1>c, <1>e, <2>2, <2>3
    <2>11. MissedArePassedOver'
      BY <1>b, <2>2 DEF MissedArePassedOver, HasNext
    <2>12. QED
      BY <1>b, <2>2, <2>7, <2>9, <2>10, <2>11 DEF PagerInv
  <1>9. ASSUME UNCHANGED <<requests, pagerVars>> PROVE PagerInv'
    <2>1. UNCHANGED <<requests, filter, page, total, qpc, count, unseen, front, passed, exact>>
      BY <1>9 DEF pagerVars
    <2>2. /\ unseen' \subseteq Selected(filter)'
          /\ Cardinality(Behind(filter, unseen, front * PageSize))' <= PageSize * passed'
      BY <1>0, <2>1
    <2>3. MissedArePassedOver'
      BY <1>b, <2>1 DEF MissedArePassedOver, HasNext
    <2>4. QED
      BY <1>b, <2>1, <2>2, <2>3 DEF PagerInv
  <1>10. CASE GeoNext /\ UNCHANGED pagerVars
    BY <1>9, <1>10 DEF GeoNext, StartBatch, EndBatch, Lookup, LookupFails, SaveLocal, Save, UpsertGeo,
                       SaveFails, SetEnabled, GeoRestart, storeVars
  <1>11. CASE UNCHANGED vars
    BY <1>9, <1>11 DEF vars, storeVars
  <1>12. QED
    BY <1>2, <1>3, <1>4, <1>5, <1>6, <1>7, <1>8, <1>10, <1>11 DEF Next, PagerNext

-----------------------------------------------------------------------------
(* Theorems.                                                               *)

LEMMA DashboardInvInit == Init => StoreInv /\ GeoInv /\ PagerInv
  <1> SUFFICES ASSUME Init PROVE StoreInv /\ GeoInv /\ PagerInv
    OBVIOUS
  <1>1. /\ MaxRows \in Nat /\ BatchSize \in Nat /\ PageSize \in Nat
        /\ <<>> \in Seq(Rows) /\ <<>> \in Seq(IPs) /\ Len(<<>>) = 0
    BY StoreConstants, GeoConstants, PagerConstants
  <1>2. StoreInv
    BY <1>1 DEF Init, StoreInit, StoreInv
  <1>3. GeoInv
    <2>1. GeoTypes
      BY <1>1 DEF Init, GeoInit, GeoTypes
    <2>2. BatchUnresolved /\ AnswersKept /\ SentInBatch
      BY <1>1 DEF Init, GeoInit, BatchUnresolved, AnswersKept, SentInBatch
    <2>3. QED
      BY <2>1, <2>2 DEF GeoInv
  <1>4. PagerInv
    <2>1. /\ filter = {} /\ page = 1 /\ total = 0 /\ qpc = "shown" /\ count = 0
          /\ unseen = {} /\ front = 0 /\ passed = 0 /\ exact = FALSE
      BY DEF Init, PagerInit
    <2>2. /\ page \in 1..(MaxRows + 1) /\ total \in 0..MaxRows /\ count \in 0..MaxRows
          /\ front \in 0..(MaxRows + 1) /\ passed \in 0..front
      BY <1>1, <2>1
    <2>3. exact \in BOOLEAN
      BY <2>1, Zenon
    <2>4. Behind(filter, unseen, front * PageSize) = {} /\ PageSize * passed = 0
      BY <1>1, <2>1 DEF Behind
    <2>5. Cardinality(Behind(filter, unseen, front * PageSize)) <= PageSize * passed
      BY <2>4, FS_EmptySet
    <2>6. MissedArePassedOver
      BY <2>1 DEF MissedArePassedOver
    <2>7. QED
      BY <2>1, <2>2, <2>3, <2>5, <2>6 DEF PagerInv
  <1>5. QED
    BY <1>2, <1>3, <1>4

LEMMA DashboardInv == Spec => [](StoreInv /\ GeoInv /\ PagerInv)
  BY DashboardInvInit, StoreStep, GeoStep, PagerStep, PTL DEF Spec

\* The tables, the resolver's loop and the reader keep within their types: a
\* batch never exceeds batchSize, and the number of the page shown is bounded by that of the
\* rows there can be (geo.go, storage.go, index.html).
THEOREM DashboardTypes == Spec => []TypeOK
  <1>1. StoreInv /\ GeoInv /\ PagerInv => TypeOK
    <2> SUFFICES ASSUME StoreInv, GeoInv, PagerInv PROVE TypeOK
      OBVIOUS
    <2>1. MaxRows \in Nat /\ BatchSize \in Nat
      BY StoreConstants, GeoConstants
    <2>2. StoreTypeOK
      BY <2>1, Bounded DEF StoreInv, StoreTypeOK
    <2>3. GeoTypeOK
      <3>1. todo \in BoundedSeq(IPs, BatchSize)
        BY <2>1, Bounded DEF GeoInv, GeoTypes
      <3>2. answered \in [IPs -> Nat]
        BY DEF GeoInv, AnswersKept
      <3>3. QED
        BY <3>1, <3>2 DEF GeoInv, GeoTypes, SentInBatch, GeoTypeOK
    <2>4. PagerTypeOK
      <3>1. Selected(filter) \subseteq 1..Len(requests) /\ Len(requests) \in 0..MaxRows
        BY DEF Selected, StoreInv
      <3>2. unseen \subseteq 1..MaxRows
        BY <2>1, <3>1 DEF PagerInv
      <3>3. QED
        BY <3>2 DEF PagerInv, PagerTypeOK
    <2>5. QED
      BY <2>2, <2>3, <2>4 DEF TypeOK
  <1>2. QED
    BY <1>1, DashboardInv, PTL

\* The provider answers for an address a second time only if its answer could
\* not be saved (docs/DEVELOPMENT.md), however many batches there are, and
\* whatever fails or restarts between the lookup and the row.
THEOREM DashboardLooksUpOnce == Spec => []LookedUpOnce
  <1>1. GeoInv => LookedUpOnce
    <2> SUFFICES ASSUME GeoInv, NEW ip \in IPs PROVE answered[ip] <= 1
      BY DEF LookedUpOnce
    <2>1. answered[ip] \in {0, 1}
      BY DEF GeoInv, AnswersKept
    <2>2. QED
      BY <2>1
  <1>2. QED
    BY <1>1, DashboardInv, PTL

\* SetEnabled(false) stops the resolver at the end of the batch it is in
\* (geo.go), also when it is switched on and off again within one.
THEOREM DashboardSwitchesOff == Spec => []OffEndsWithBatch
  <1>1. GeoInv => OffEndsWithBatch
    BY DEF GeoInv, SentInBatch, OffEndsWithBatch
  <1>2. QED
    BY <1>1, DashboardInv, PTL

\* A reader on the last page of the list (loadRequests, handleRequests and
\* Query) has been shown every row there was when the filter was first used,
\* except a page of them for each page passed over, though rows are inserted
\* between any two pages, loads fail, and the filter fields are read live.
THEOREM DashboardMissesNone == Spec => []MissedArePassedOver
  <1>1. PagerInv => MissedArePassedOver
    BY DEF PagerInv
  <1>2. QED
    BY <1>1, DashboardInv, PTL
=============================================================================
