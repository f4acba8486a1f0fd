------------------------- MODULE LoginLimiterProofs -------------------------
(* Theorems of LoginLimiter. *)
EXTENDS LoginLimiter, FiniteSetTheorems, SequenceTheorems, WellFoundedInduction, TLAPS

\* The keys tracked are keys, and within the bound: inductive by itself, for
\* nothing else is needed to know when a key is added.
Tracked(f) == DOMAIN f \subseteq Keys /\ Cardinality(DOMAIN f) <= MaxKeys

LimiterInv ==
    /\ Tracked(failures)
    /\ \A a \in Attempts : checking[a] \subseteq Keys

\* A set of keys is finite, and a smaller one has no more elements.
LEMMA KeysFinite ==
    ASSUME NEW S, NEW T, T \subseteq Keys, S \subseteq T
    PROVE  /\ IsFiniteSet(S) /\ IsFiniteSet(T)
           /\ Cardinality(S) \in Nat /\ Cardinality(T) \in Nat
           /\ Cardinality(S) <= Cardinality(T)
  <1>1. IsFiniteSet(Keys)
    BY LimiterConstants, FS_Union DEF Keys
  <1>2. IsFiniteSet(T)
    BY <1>1, FS_Subset
  <1>3. QED
    BY <1>2, FS_Subset, FS_CardinalityType

\* Fewer keys are within the bound as well.
LEMMA FewerTracked ==
    ASSUME NEW f, NEW g, Tracked(f), DOMAIN g \subseteq DOMAIN f
    PROVE  Tracked(g)
  <1>1. DOMAIN g \subseteq Keys /\ DOMAIN f \subseteq Keys
    BY DEF Tracked
  <1>2. /\ Cardinality(DOMAIN g) <= Cardinality(DOMAIN f)
        /\ Cardinality(DOMAIN g) \in Nat /\ Cardinality(DOMAIN f) \in Nat
    BY <1>1, KeysFinite
  <1>3. QED
    BY <1>1, <1>2, LimiterConstants DEF Tracked

\* One failure more keeps the map within its bound.
LEMMA RecordedTracked ==
    ASSUME NEW f, NEW k \in Keys, Tracked(f)
    PROVE  Tracked(Recorded(f, k))
  <1>1. CASE k \notin DOMAIN f /\ Full(f)
    BY <1>1 DEF Recorded
  <1>2. CASE k \in DOMAIN f
    <2>1. DOMAIN Recorded(f, k) = DOMAIN f
      BY <1>2 DEF Recorded
    <2>2. QED
      BY <2>1, FewerTracked
  <1>3. CASE k \notin DOMAIN f /\ ~ Full(f)
    <2>1. DOMAIN Recorded(f, k) = DOMAIN f \cup {k}
      BY <1>3 DEF Recorded
    <2>2. IsFiniteSet(DOMAIN f) /\ Cardinality(DOMAIN f) \in Nat
      BY KeysFinite DEF Tracked
    <2>3. Cardinality(DOMAIN f \cup {k}) = Cardinality(DOMAIN f) + 1
      BY <1>3, <2>2, FS_AddElement
    <2>4. Cardinality(DOMAIN f) < MaxKeys
      BY <1>3, <2>2, LimiterConstants DEF Full
    <2>5. Cardinality(DOMAIN f) + 1 <= MaxKeys
      BY <2>2, <2>4, LimiterConstants
    <2>6. QED
      BY <2>1, <2>3, <2>5 DEF Tracked
  <1>4. QED
    BY <1>1, <1>2, <1>3

LEMMA PrunedTracked ==
    ASSUME NEW f, NEW ks, Tracked(f)
    PROVE  Tracked(Pruned(f, ks))
  <1>1. DOMAIN Pruned(f, ks) \subseteq DOMAIN f
    BY DEF Pruned
  <1>2. QED
    BY <1>1, FewerTracked

LEMMA LimiterInit == Init => LimiterInv
  <1> SUFFICES ASSUME Init PROVE LimiterInv
    OBVIOUS
  <1>1. DOMAIN failures = {}
    BY DEF Init
  <1>2. Cardinality(DOMAIN failures) = 0
    BY <1>1, FS_EmptySet
  <1>3. QED
    BY <1>1, <1>2, LimiterConstants DEF Init, LimiterInv, Tracked

LEMMA LimiterStep == LimiterInv /\ [Next]_vars => LimiterInv'
  <1> SUFFICES ASSUME LimiterInv, [Next]_vars PROVE LimiterInv'
    OBVIOUS
  <1>0. Tracked(failures)
    BY DEF LimiterInv
  <1>1. CASE Tick
    <2>1. DOMAIN failures' = DOMAIN failures
      BY <1>1 DEF Tick
    <2>2. QED
      BY <1>0, <1>1, <2>1 DEF Tick, LimiterInv, Tracked
  <1>2. ASSUME NEW a \in Attempts, NEW ip \in Addresses, NEW name \in Names,
               TooMany(a, ip, name)
        PROVE  LimiterInv'
    <2>1. Tracked(failures')
      BY <1>0, <1>2, PrunedTracked DEF TooMany
    <2>2. \A b \in Attempts : checking'[b] \subseteq Keys
      BY <1>2 DEF TooMany, LimiterInv, Keys
    <2>3. QED
      BY <2>1, <2>2 DEF LimiterInv, Tracked
  <1>3. ASSUME NEW a \in Attempts, RecordFailure(a)
        PROVE  LimiterInv'
    <2> DEFINE cleaned == IF Full(failures) THEN Pruned(failures, DOMAIN failures)
                          ELSE failures
    <2>1. Tracked(cleaned)
      BY <1>0, PrunedTracked
    <2>2. PICK ip \in Keys, name \in Keys : failures' = Recorded(Recorded(cleaned, ip), name)
      BY <1>3 DEF RecordFailure, Keys
    <2>3. Tracked(failures')
      <3> HIDE DEF cleaned
      <3>1. Tracked(Recorded(cleaned, ip))
        BY <2>1, RecordedTracked
      <3>2. QED
        BY <2>2, <3>1, RecordedTracked
    <2>4. \A b \in Attempts : checking'[b] \subseteq Keys
      BY <1>3 DEF RecordFailure, LimiterInv
    <2>5. QED
      BY <2>3, <2>4 DEF LimiterInv, Tracked
  <1>4. ASSUME NEW a \in Attempts, Reset(a)
        PROVE  LimiterInv'
    <2>1. DOMAIN failures' \subseteq DOMAIN failures
      BY <1>4 DEF Reset
    <2>2. Tracked(failures')
      BY <1>0, <2>1, FewerTracked
    <2>3. \A b \in Attempts : checking'[b] \subseteq Keys
      BY <1>4 DEF Reset, LimiterInv
    <2>4. QED
      BY <2>2, <2>3 DEF LimiterInv, Tracked
  <1>5. CASE UNCHANGED vars
    BY <1>5 DEF vars, LimiterInv, Tracked
  <1>6. QED
    BY <1>1, <1>2, <1>3, <1>4, <1>5 DEF Next

\* The limiter's map stays within its bound (recordFailure, ratelimit.go), for
\* any number of attempts, keys and failures.
THEOREM LimiterBounded == Spec => []KeysBounded
  <1>1. LimiterInv => KeysBounded
    BY DEF LimiterInv, Tracked, KeysBounded
  <1>2. QED
    BY LimiterInit, LimiterStep, <1>1, PTL DEF Spec

-----------------------------------------------------------------------------
(* What prune keeps.                                                       *)

\* Failures are in the order of their times.
Ordered(ages) == \A i, j \in DOMAIN ages : i <= j => ages[j] <= ages[i]

\* prune drops n failures if the first n are the old ones.
LEMMA LiveIs ==
    ASSUME NEW s \in Ages, NEW n \in 0..Len(s),
           \A i \in 1..n : s[i] >= Window,
           \A i \in (n + 1)..Len(s) : s[i] < Window
    PROVE  /\ Live(s) = SubSeq(s, n + 1, Len(s)) /\ Live(s) \in Ages
           /\ Len(Live(s)) = Len(s) - n
           /\ \A i \in 1..(Len(s) - n) : Live(s)[i] = s[n + i]
  <1>1. Len(s) \in Nat /\ DOMAIN s = 1..Len(s) /\ \A i \in 1..Len(s) : s[i] \in 0..Window
    BY LenProperties DEF Ages
  <1>2. {i \in DOMAIN s : s[i] >= Window} = 1..n
    BY <1>1, LimiterConstants
  <1>3. Dropped(s) = n
    <2>1. n \in Nat /\ 1 \in Int
      BY <1>1
    <2>2. Cardinality(1..n) = IF 1 > n THEN 0 ELSE n - 1 + 1
      BY <2>1, FS_Interval
    <2>3. Cardinality(1..n) = n
      BY <2>1, <2>2
    <2>4. QED
      BY <1>2, <2>3 DEF Dropped
  <1>4. Live(s) = SubSeq(s, n + 1, Len(s))
    BY <1>3 DEF Live
  <1>5. \A i \in (n + 1)..Len(s) : s[i] \in 0..Window
    BY <1>1
  <1>6. /\ SubSeq(s, n + 1, Len(s)) \in Seq(0..Window)
        /\ Len(SubSeq(s, n + 1, Len(s))) = IF n + 1 <= Len(s) THEN Len(s) - (n + 1) + 1 ELSE 0
        /\ \A i \in 1..(Len(s) - (n + 1) + 1) : SubSeq(s, n + 1, Len(s))[i] = s[n + 1 + i - 1]
    BY <1>1, <1>5, SubSeqProperties
  <1>7. Len(Live(s)) = Len(s) - n
    <2>1. Len(Live(s)) = IF n + 1 <= Len(s) THEN Len(s) - (n + 1) + 1 ELSE 0
      BY <1>4, <1>6, Zenon
    <2>2. \A a \in Nat : \A b \in 0..a : (IF b + 1 <= a THEN a - (b + 1) + 1 ELSE 0) = a - b
      OBVIOUS
    <2>3. QED
      BY <1>1, <2>1, <2>2, Zenon
  <1>8. \A i \in 1..(Len(s) - n) : Live(s)[i] = s[n + i]
    <2> SUFFICES ASSUME NEW i \in 1..(Len(s) - n) PROVE Live(s)[i] = s[n + i]
      OBVIOUS
    <2>1. i \in 1..(Len(s) - (n + 1) + 1) /\ n + 1 + i - 1 = n + i
      BY <1>1
    <2>2. SubSeq(s, n + 1, Len(s))[i] = s[n + 1 + i - 1]
      BY <1>6, <2>1
    <2>3. QED
      BY <1>4, <2>1, <2>2
  <1>9. QED
    BY <1>4, <1>6, <1>7, <1>8 DEF Ages

\* The old failures are the first ones.
LEMMA OldFirst ==
    ASSUME NEW s \in Ages, Ordered(s)
    PROVE  \E n \in 0..Len(s) : /\ \A i \in 1..n : s[i] >= Window
                                /\ \A i \in (n + 1)..Len(s) : s[i] < Window
  <1>1. Len(s) \in Nat /\ DOMAIN s = 1..Len(s) /\ \A i \in 1..Len(s) : s[i] \in 0..Window
    BY LenProperties DEF Ages
  <1> DEFINE Later == {i \in 1..(Len(s) + 1) : i = Len(s) + 1 \/ s[i] < Window}
  <1>2. Later \in SUBSET Nat /\ Len(s) + 1 \in Later
    BY <1>1
  <1>3. PICK first \in Later : \A i \in Later : ~ (<<i, first>> \in OpToRel(<, Nat))
    BY <1>2, NatLessThanWellFounded, WFMin
  <1>4. \A i \in Later : ~ (i < first)
    BY <1>2, <1>3 DEF OpToRel
  <1>5. first \in 1..(Len(s) + 1) /\ (first = Len(s) + 1 \/ s[first] < Window)
    OBVIOUS
  <1>6. \A i \in 1..(first - 1) : s[i] >= Window
    <2> SUFFICES ASSUME NEW i \in 1..(first - 1) PROVE s[i] >= Window
      OBVIOUS
    <2>1. i \in 1..Len(s) /\ i < first
      BY <1>1, <1>5
    <2>2. i \notin Later
      BY <1>4, <2>1
    <2>3. QED
      BY <1>1, <2>1, <2>2, LimiterConstants
  <1>7. \A i \in first..Len(s) : s[i] < Window
    <2> SUFFICES ASSUME NEW i \in first..Len(s) PROVE s[i] < Window
      OBVIOUS
    <2>1. i \in 1..Len(s) /\ first \in 1..Len(s) /\ first <= i /\ s[first] < Window
      BY <1>1, <1>5
    <2>2. s[i] <= s[first]
      BY <1>1, <2>1 DEF Ordered
    <2>3. QED
      BY <1>1, <2>1, <2>2, LimiterConstants
  <1>8. first - 1 \in 0..Len(s) /\ first - 1 + 1 = first
    BY <1>1, <1>5
  <1>9. QED
    BY <1>6, <1>7, <1>8

\* What prune keeps is in order and within the window.
LEMMA LiveProps ==
    ASSUME NEW s \in Ages, Ordered(s)
    PROVE  /\ Live(s) \in Ages /\ Ordered(Live(s)) /\ Len(Live(s)) <= Len(s)
           /\ \A i \in 1..Len(Live(s)) : Live(s)[i] < Window
  <1>1. PICK n \in 0..Len(s) : /\ \A i \in 1..n : s[i] >= Window
                               /\ \A i \in (n + 1)..Len(s) : s[i] < Window
    BY OldFirst
  <1>2. /\ Live(s) \in Ages /\ Len(Live(s)) = Len(s) - n
        /\ \A i \in 1..(Len(s) - n) : Live(s)[i] = s[n + i]
    BY <1>1, LiveIs
  <1>3. Len(s) \in Nat /\ DOMAIN s = 1..Len(s) /\ DOMAIN Live(s) = 1..Len(Live(s))
    BY <1>2, LenProperties DEF Ages
  <1>4. Ordered(Live(s))
    <2> SUFFICES ASSUME NEW i \in 1..Len(Live(s)), NEW j \in 1..Len(Live(s)), i <= j
                 PROVE  Live(s)[j] <= Live(s)[i]
      BY <1>3 DEF Ordered
    <2>1. n + i \in DOMAIN s /\ n + j \in DOMAIN s /\ n + i <= n + j
      BY <1>2, <1>3
    <2>2. s[n + j] <= s[n + i]
      BY <2>1 DEF Ordered
    <2>3. QED
      BY <1>2, <1>3, <2>2
  <1>5. \A i \in 1..Len(Live(s)) : Live(s)[i] < Window
    <2> SUFFICES ASSUME NEW i \in 1..Len(Live(s)) PROVE Live(s)[i] < Window
      OBVIOUS
    <2>1. n + i \in (n + 1)..Len(s) /\ Live(s)[i] = s[n + i]
      BY <1>2, <1>3
    <2>2. QED
      BY <1>1, <2>1
  <1>6. QED
    BY <1>2, <1>3, <1>4, <1>5

\* prune leaves failures within the window as they are.
LEMMA LiveAll ==
    ASSUME NEW s \in Ages, \A i \in 1..Len(s) : s[i] < Window
    PROVE  Live(s) = s
  <1>1. Len(s) \in Nat
    BY LenProperties DEF Ages
  <1>2. Live(s) = SubSeq(s, 0 + 1, Len(s))
    BY <1>1, LiveIs
  <1>3. QED
    BY <1>2, SubSeqFull DEF Ages

\* A new failure comes last.
LEMMA LiveAppend ==
    ASSUME NEW s \in Ages, Ordered(s), \A i \in 1..Len(s) : s[i] < Window
    PROVE  /\ Append(s, 0) \in Ages /\ Ordered(Append(s, 0)) /\ Live(Append(s, 0)) = Append(s, 0)
           /\ Len(Append(s, 0)) = Len(s) + 1 /\ Append(s, 0) # <<>>
  <1>1. Len(s) \in Nat /\ DOMAIN s = 1..Len(s) /\ \A i \in 1..Len(s) : s[i] \in 0..Window
    BY LenProperties DEF Ages
  <1>2. Append(s, 0) \in Ages /\ Len(Append(s, 0)) = Len(s) + 1
    BY LimiterConstants DEF Ages
  <1>3. \A i \in 1..(Len(s) + 1) : Append(s, 0)[i] = IF i <= Len(s) THEN s[i] ELSE 0
    BY <1>1 DEF Ages
  <1>4. DOMAIN Append(s, 0) = 1..(Len(s) + 1)
    BY <1>2, LenProperties DEF Ages
  <1>5. Ordered(Append(s, 0))
    BY <1>1, <1>3, <1>4 DEF Ordered
  <1>6. \A i \in 1..Len(Append(s, 0)) : Append(s, 0)[i] < Window
    BY <1>1, <1>2, <1>3, LimiterConstants
  <1>7. Append(s, 0) # <<>>
    BY <1>1, <1>2
  <1>8. QED
    BY <1>2, <1>5, <1>6, <1>7, LiveAll

\* Time passes for the failures s of a key.
Older(s) == [i \in DOMAIN s |-> IF s[i] < Window THEN s[i] + 1 ELSE Window]

LEMMA LiveOlder ==
    ASSUME NEW s \in Ages, Ordered(s), NEW h, h = Live(s)
    PROVE  /\ Older(s) \in Ages /\ Ordered(Older(s)) /\ Len(Older(s)) = Len(s)
           /\ Live(Older(s)) = Live([i \in DOMAIN h |-> h[i] + 1])
           /\ Len(Live(Older(s))) <= Len(h)
  <1> DEFINE t == Older(s)
             g == [i \in DOMAIN h |-> h[i] + 1]
  <1>1. Len(s) \in Nat /\ DOMAIN s = 1..Len(s) /\ \A i \in 1..Len(s) : s[i] \in 0..Window
    BY LenProperties DEF Ages
  <1>2. DOMAIN t = 1..Len(s) /\ \A i \in 1..Len(s) : t[i] = IF s[i] < Window THEN s[i] + 1 ELSE Window
    BY <1>1 DEF Older
  <1>3. t \in Ages /\ Len(t) = Len(s)
    <2>1. t \in [1..Len(s) -> 0..Window]
      BY <1>1, LimiterConstants DEF Older
    <2> HIDE DEF t
    <2>2. t \in Seq(0..Window)
      BY <1>1, <2>1, SeqDef
    <2>3. QED
      BY <1>1, <1>2, <2>2, LenProperties DEF Ages
  <1>4. Ordered(t)
    <2> SUFFICES ASSUME NEW i \in 1..Len(s), NEW j \in 1..Len(s), i <= j PROVE t[j] <= t[i]
      BY <1>2 DEF Ordered
    <2>1. s[j] <= s[i]
      BY <1>1 DEF Ordered
    <2> HIDE DEF t
    <2>2. QED
      BY <1>1, <1>2, <2>1, LimiterConstants
  <1>5. PICK n \in 0..Len(s) : /\ \A i \in 1..n : s[i] >= Window
                               /\ \A i \in (n + 1)..Len(s) : s[i] < Window
    BY OldFirst
  <1>6. PICK m \in 0..Len(t) : /\ \A i \in 1..m : t[i] >= Window
                               /\ \A i \in (m + 1)..Len(t) : t[i] < Window
    BY <1>3, <1>4, OldFirst
  <1>7. /\ h \in Ages /\ Len(h) = Len(s) - n /\ \A i \in 1..(Len(s) - n) : h[i] = s[n + i]
    BY <1>5, LiveIs
  <1>8. /\ Live(t) \in Ages /\ Len(Live(t)) = Len(s) - m
        /\ \A i \in 1..(Len(s) - m) : Live(t)[i] = t[m + i]
    BY <1>3, <1>6, LiveIs
  <1>9. n <= m
    <2> SUFFICES ASSUME m < n PROVE FALSE
      BY <1>3, <1>5, <1>6
    <2>1. n \in (m + 1)..Len(t) /\ n \in 1..n /\ n \in 1..Len(s)
      BY <1>1, <1>3, <1>5, <1>6
    <2>2. t[n] < Window /\ s[n] >= Window
      BY <1>5, <1>6, <2>1
    <2> HIDE DEF t
    <2>3. QED
      BY <1>1, <1>2, <2>1, <2>2, LimiterConstants
  <1>10. /\ DOMAIN h = 1..(Len(s) - n)
         /\ \A i \in 1..(Len(s) - n) : g[i] = t[n + i]
    <2>1. DOMAIN h = 1..(Len(s) - n)
      BY <1>7, LenProperties DEF Ages
    <2>2. ASSUME NEW i \in 1..(Len(s) - n) PROVE g[i] = t[n + i]
      <3>1. g[i] = h[i] + 1 /\ h[i] = s[n + i]
        BY <1>7, <2>1
      <3>2. n + i \in (n + 1)..Len(s) /\ n + i \in 1..Len(s)
        BY <1>1
      <3>3. s[n + i] < Window
        BY <1>5, <3>2
      <3> HIDE DEF t, g
      <3>4. QED
        BY <1>2, <3>1, <3>2, <3>3
    <2>3. QED
      BY <2>1, <2>2
  <1> HIDE DEF t
  <1>11. g \in Ages /\ Len(g) = Len(s) - n
    <2>1. \A i \in 1..(Len(s) - n) : t[n + i] \in 0..Window
      <3>1. \A i \in 1..Len(t) : t[i] \in 0..Window
        BY <1>3, LenProperties DEF Ages
      <3>2. \A i \in 1..(Len(s) - n) : n + i \in 1..Len(t)
        BY <1>1, <1>3
      <3>3. QED
        BY <3>1, <3>2
    <2>2. g \in [1..(Len(s) - n) -> 0..Window]
      BY <1>10, <2>1
    <2>3. Len(s) - n \in Nat
      BY <1>1
    <2> HIDE DEF g
    <2>4. g \in Seq(0..Window) /\ DOMAIN g = 1..(Len(s) - n)
      BY <2>2, <2>3, SeqDef
    <2>5. QED
      BY <2>3, <2>4, LenProperties DEF Ages
  <1> HIDE DEF g
  <1>12. /\ m - n \in 0..Len(g)
         /\ \A i \in 1..(m - n) : g[i] >= Window
         /\ \A i \in (m - n + 1)..Len(g) : g[i] < Window
    <2>1. m - n \in 0..Len(g)
      BY <1>1, <1>3, <1>6, <1>9, <1>11
    <2>2. ASSUME NEW i \in 1..(m - n) PROVE g[i] >= Window
      <3>1. n + i \in 1..m /\ i \in 1..(Len(s) - n)
        BY <1>1, <1>3, <1>6, <1>9
      <3>2. QED
        BY <1>6, <1>10, <3>1
    <2>3. ASSUME NEW i \in (m - n + 1)..Len(g) PROVE g[i] < Window
      <3>1. n + i \in (m + 1)..Len(t) /\ i \in 1..(Len(s) - n)
        BY <1>1, <1>3, <1>6, <1>9, <1>11
      <3>2. QED
        BY <1>6, <1>10, <3>1
    <2>4. QED
      BY <2>1, <2>2, <2>3
  <1>13. /\ Live(g) \in Ages /\ Len(Live(g)) = Len(s) - n - (m - n)
         /\ \A i \in 1..(Len(s) - n - (m - n)) : Live(g)[i] = g[m - n + i]
    BY <1>11, <1>12, LiveIs
  <1>14. Len(Live(g)) = Len(s) - m /\ Len(s) - n - (m - n) = Len(s) - m
    BY <1>1, <1>3, <1>13
  <1>15. ASSUME NEW i \in 1..(Len(s) - m) PROVE Live(g)[i] = Live(t)[i]
    <2>1. m - n + i \in 1..(Len(s) - n) /\ n + (m - n + i) = m + i
      BY <1>1, <1>3, <1>6, <1>9
    <2>2. g[m - n + i] = t[m + i]
      BY <1>10, <2>1
    <2>3. Live(g)[i] = g[m - n + i]
      BY <1>13, <1>14
    <2>4. QED
      BY <1>8, <2>2, <2>3
  <1>16. Live(t) = Live(g)
    BY <1>8, <1>13, <1>14, <1>15, SeqEqual DEF Ages
  <1>17. Len(Live(t)) <= Len(h)
    BY <1>1, <1>3, <1>7, <1>8, <1>9
  <1>18. QED
    BY <1>3, <1>4, <1>16, <1>17 DEF t, g

-----------------------------------------------------------------------------
(* What counts for a key, and how much it is.                              *)

\* A map of failures as prune and recordFailure leave it.
Kept(f) ==
    /\ DOMAIN f \subseteq Keys
    /\ \A k \in DOMAIN f : f[k] \in Ages /\ f[k] # <<>> /\ Ordered(f[k])

\* Attempts whose password is being checked and that count under key k.
Passed(k) == {a \in Attempts : k \in checking[a]}

Most == Max - 1 + Cardinality(Attempts)

CountInv ==
    /\ TypeOK
    /\ Kept(failures)
    /\ NothingForgotten
    /\ \A k \in DOMAIN failures : Len(failures[k]) <= Most
    /\ \A k \in Keys : Len(Counted(failures, k)) + Cardinality(Passed(k)) <= Most

\* What counts for a key.
LEMMA CountedProps ==
    ASSUME NEW f, Kept(f), NEW k
    PROVE  /\ Counted(f, k) \in Ages /\ Ordered(Counted(f, k)) /\ Len(Counted(f, k)) \in Nat
           /\ \A i \in 1..Len(Counted(f, k)) : Counted(f, k)[i] < Window
           /\ k \in DOMAIN f => Len(Counted(f, k)) <= Len(f[k])
  <1>1. CASE k \in DOMAIN f
    <2>1. f[k] \in Ages /\ Ordered(f[k]) /\ Counted(f, k) = Live(f[k])
      BY <1>1 DEF Kept, Counted
    <2>2. QED
      BY <2>1, LiveProps, LenProperties DEF Ages
  <1>2. CASE k \notin DOMAIN f
    <2>1. Counted(f, k) = <<>>
      BY <1>2 DEF Counted
    <2>2. <<>> \in Seq(0..Window) /\ Len(<<>>) = 0
      BY EmptySeq
    <2>3. Ordered(<<>>)
      BY DEF Ordered
    <2>4. QED
      BY <1>2, <2>1, <2>2, <2>3 DEF Ages
  <1>3. QED
    BY <1>1, <1>2

\* prune changes nothing that counts.
LEMMA PrunedCounts ==
    ASSUME NEW f, NEW ks, Kept(f)
    PROVE  /\ Kept(Pruned(f, ks))
           /\ \A k : Counted(Pruned(f, ks), k) = Counted(f, k)
           /\ \A k \in DOMAIN Pruned(f, ks) : k \in DOMAIN f /\ Len(Pruned(f, ks)[k]) <= Len(f[k])
  <1> DEFINE g == Pruned(f, ks)
  <1>1. /\ DOMAIN g = {j \in DOMAIN f : j \in ks => Live(f[j]) # <<>>}
        /\ \A k \in DOMAIN g : g[k] = IF k \in ks THEN Live(f[k]) ELSE f[k]
    BY DEF Pruned
  <1> HIDE DEF g
  <1>2. ASSUME NEW k \in DOMAIN f
        PROVE  /\ f[k] \in Ages /\ f[k] # <<>> /\ Ordered(f[k]) /\ Len(f[k]) \in Nat
               /\ Live(f[k]) \in Ages /\ Ordered(Live(f[k])) /\ Len(Live(f[k])) <= Len(f[k])
               /\ Live(Live(f[k])) = Live(f[k])
    <2>1. f[k] \in Ages /\ f[k] # <<>> /\ Ordered(f[k])
      BY DEF Kept
    <2>2. /\ Live(f[k]) \in Ages /\ Ordered(Live(f[k])) /\ Len(Live(f[k])) <= Len(f[k])
          /\ Live(Live(f[k])) = Live(f[k])
      BY <2>1, LiveProps, LiveAll
    <2>3. QED
      BY <2>1, <2>2, LenProperties DEF Ages
  <1>3. Kept(g)
    BY <1>1, <1>2 DEF Kept
  <1>4. ASSUME NEW k PROVE Counted(g, k) = Counted(f, k)
    <2>1. CASE k \in DOMAIN g
      BY <1>1, <1>2, <2>1 DEF Counted
    <2>2. CASE k \notin DOMAIN g
      BY <1>1, <2>2 DEF Counted
    <2>3. QED
      BY <2>1, <2>2
  <1>5. \A k \in DOMAIN g : k \in DOMAIN f /\ Len(g[k]) <= Len(f[k])
    BY <1>1, <1>2
  <1>6. QED
    BY <1>3, <1>4, <1>5 DEF g

\* recordFailure adds one to what counts for its key, unless there is no room.
LEMMA RecordedCounts ==
    ASSUME NEW f, NEW k \in Keys, Kept(f)
    PROVE  /\ Kept(Recorded(f, k))
           /\ \A j : j # k => Counted(Recorded(f, k), j) = Counted(f, j)
           /\ Counted(Recorded(f, k), k) =
                  IF k \in DOMAIN Recorded(f, k) THEN Append(Counted(f, k), 0) ELSE Counted(f, k)
           /\ DOMAIN f \subseteq DOMAIN Recorded(f, k)
           /\ DOMAIN Recorded(f, k) \subseteq DOMAIN f \cup {k}
           /\ \A j \in DOMAIN f : j # k => Recorded(f, k)[j] = f[j]
           /\ k \in DOMAIN Recorded(f, k) => Recorded(f, k)[k] = Append(Counted(f, k), 0)
  <1>1. CASE k \notin DOMAIN f /\ Full(f)
    <2>1. Recorded(f, k) = f
      BY <1>1 DEF Recorded
    <2>2. QED
      BY <1>1, <2>1
  <1>2. CASE ~(k \notin DOMAIN f /\ Full(f))
    <2> DEFINE g == Recorded(f, k)
               s == Append(Counted(f, k), 0)
    <2>1. /\ DOMAIN g = DOMAIN f \cup {k}
          /\ g[k] = s /\ \A j \in DOMAIN f : j # k => g[j] = f[j]
      BY <1>2 DEF Recorded
    <2>2. s \in Ages /\ s # <<>> /\ Ordered(s) /\ Live(s) = s
      BY CountedProps, LiveAppend
    <2> HIDE DEF g, s
    <2>3. Kept(g)
      BY <2>1, <2>2 DEF Kept
    <2>4. Counted(g, k) = s /\ \A j : j # k => Counted(g, j) = Counted(f, j)
      BY <2>1, <2>2 DEF Counted
    <2>5. QED
      BY <2>1, <2>3, <2>4 DEF g, s
  <1>3. QED
    BY <1>1, <1>2

LEMMA MostType == Most \in Nat /\ Cardinality(Attempts) \in Nat
  <1>1. Cardinality(Attempts) \in Nat
    BY LimiterConstants, FS_CardinalityType
  <1>2. QED
    BY <1>1, LimiterConstants DEF Most

LEMMA PassedProps ==
    ASSUME NEW k
    PROVE  /\ IsFiniteSet(Passed(k)) /\ Cardinality(Passed(k)) \in Nat
           /\ IsFiniteSet(Passed(k)') /\ Cardinality(Passed(k)') \in Nat
           /\ Cardinality(Passed(k)') <= Cardinality(Attempts)
           /\ Cardinality(Attempts) \in Nat /\ Most \in Nat
           /\ Passed(k)' \subseteq Passed(k) => Cardinality(Passed(k)') <= Cardinality(Passed(k))
           /\ \A a \in Passed(k) : Passed(k)' \subseteq Passed(k) \ {a} =>
                  Cardinality(Passed(k)') <= Cardinality(Passed(k)) - 1
  <1>1. /\ Passed(k) \subseteq Attempts /\ Passed(k)' \subseteq Attempts
        /\ IsFiniteSet(Attempts)
    BY LimiterConstants DEF Passed
  <1>2. /\ IsFiniteSet(Passed(k)) /\ Cardinality(Passed(k)) \in Nat
        /\ IsFiniteSet(Passed(k)') /\ Cardinality(Passed(k)') \in Nat
        /\ Cardinality(Passed(k)') <= Cardinality(Attempts)
        /\ Cardinality(Attempts) \in Nat
    BY <1>1, FS_Subset, FS_CardinalityType
  <1>3. Most \in Nat
    BY <1>2, LimiterConstants DEF Most
  <1>4. Passed(k)' \subseteq Passed(k) => Cardinality(Passed(k)') <= Cardinality(Passed(k))
    BY <1>2, FS_Subset
  <1>5. ASSUME NEW a \in Passed(k), Passed(k)' \subseteq Passed(k) \ {a}
        PROVE  Cardinality(Passed(k)') <= Cardinality(Passed(k)) - 1
    <2>1. IsFiniteSet(Passed(k) \ {a}) /\ Cardinality(Passed(k) \ {a}) = Cardinality(Passed(k)) - 1
      BY <1>2, FS_RemoveElement
    <2>2. Cardinality(Passed(k)') <= Cardinality(Passed(k) \ {a})
      BY <1>5, <2>1, FS_Subset
    <2>3. QED
      BY <2>1, <2>2
  <1>6. QED
    BY <1>2, <1>3, <1>4, <1>5

LEMMA CountInit == Init => CountInv
  <1> SUFFICES ASSUME Init PROVE CountInv
    OBVIOUS
  <1>1. DOMAIN failures = {} /\ \A k : Counted(failures, k) = <<>>
    BY DEF Init, Counted
  <1>2. <<>> \in Ages /\ Len(<<>>) = 0
    BY EmptySeq DEF Ages
  <1>3. TypeOK
    BY <1>1, <1>2 DEF Init, TypeOK
  <1>4. Kept(failures) /\ NothingForgotten
    BY <1>1 DEF Init, Kept, NothingForgotten
  <1>5. \A k \in Keys : Passed(k) = {}
    BY DEF Init, Passed
  <1>6. \A k \in Keys : Len(Counted(failures, k)) + Cardinality(Passed(k)) <= Most
    BY <1>1, <1>2, <1>5, FS_EmptySet, PassedProps
  <1>7. QED
    BY <1>1, <1>3, <1>4, <1>6 DEF CountInv

LEMMA CountTick == CountInv /\ Tick => CountInv'
  <1> SUFFICES ASSUME CountInv, Tick PROVE CountInv'
    OBVIOUS
  <1>1. /\ failures' = [k \in DOMAIN failures |-> Older(failures[k])]
        /\ history' = [k \in Keys |-> Live([i \in DOMAIN history[k] |-> history[k][i] + 1])]
        /\ UNCHANGED checking
    BY DEF Tick, Older
  <1>2. Kept(failures) /\ DOMAIN failures' = DOMAIN failures /\ TypeOK
    BY <1>1 DEF CountInv
  <1>3. ASSUME NEW k \in DOMAIN failures
        PROVE  /\ failures'[k] \in Ages /\ failures'[k] # <<>> /\ Ordered(failures'[k])
               /\ Len(failures'[k]) = Len(failures[k])
               /\ Counted(failures, k)' = history'[k]
               /\ Len(Counted(failures, k)') <= Len(Counted(failures, k))
    <2>1. k \in Keys /\ failures[k] \in Ages /\ failures[k] # <<>> /\ Ordered(failures[k])
      BY <1>2 DEF Kept
    <2>2. history[k] = Live(failures[k]) /\ Counted(failures, k) = Live(failures[k])
      BY <2>1 DEF CountInv, NothingForgotten, Counted
    <2>3. failures'[k] = Older(failures[k])
      BY <1>1
    <2>4. /\ Older(failures[k]) \in Ages /\ Ordered(Older(failures[k]))
          /\ Len(Older(failures[k])) = Len(failures[k])
          /\ Live(Older(failures[k])) = Live([i \in DOMAIN history[k] |-> history[k][i] + 1])
          /\ Len(Live(Older(failures[k]))) <= Len(history[k])
      BY <2>1, <2>2, LiveOlder
    <2>5. history'[k] = Live([i \in DOMAIN history[k] |-> history[k][i] + 1])
      BY <1>1, <2>1
    <2>6. Counted(failures, k)' = Live(failures'[k])
      BY <1>2 DEF Counted
    <2>7. failures'[k] # <<>>
      <3>1. Len(failures[k]) # 0
        BY <2>1, EmptySeq DEF Ages
      <3>2. Len(Older(failures[k])) # 0
        BY <2>4, <3>1
      <3>3. QED
        BY <2>3, <3>2, EmptySeq
    <2>8. QED
      BY <2>2, <2>3, <2>4, <2>5, <2>6, <2>7
  <1>4. Kept(failures)'
    BY <1>2, <1>3 DEF Kept
  <1>5. ASSUME NEW k \in Keys \ DOMAIN failures
        PROVE  Counted(failures, k)' = <<>> /\ Counted(failures, k) = <<>> /\ history'[k] = <<>>
    <2>1. Counted(failures, k)' = <<>> /\ Counted(failures, k) = <<>> /\ history[k] = <<>>
      BY <1>2 DEF Counted, CountInv, NothingForgotten
    <2>2. history'[k] = Live([i \in DOMAIN history[k] |-> history[k][i] + 1])
      BY <1>1
    <2>3. <<>> \in Ages /\ Ordered(<<>>) /\ Len(<<>>) = 0 /\ DOMAIN <<>> = {}
      BY EmptySeq DEF Ages, Ordered
    <2>4. [i \in DOMAIN history[k] |-> history[k][i] + 1] = <<>>
      <3> DEFINE g == [i \in DOMAIN history[k] |-> history[k][i] + 1]
      <3>1. DOMAIN history[k] = 1..0
        BY <2>1, <2>3
      <3>2. g \in [1..0 -> 0..Window]
        BY <3>1
      <3> HIDE DEF g
      <3>3. g \in Seq(0..Window) /\ DOMAIN g = 1..0
        BY <3>2, SeqDef
      <3>4. Len(g) = 0
        BY <3>3, LenProperties
      <3>5. g = <<>>
        BY <3>3, <3>4, EmptySeq
      <3>6. QED
        BY <3>5 DEF g
    <2>5. Live(<<>>) = <<>>
      BY <2>3, LiveAll
    <2>6. QED
      BY <2>1, <2>2, <2>4, <2>5
  <1>6. NothingForgotten'
    BY <1>2, <1>3, <1>5 DEF NothingForgotten
  <1>7. TypeOK'
    <2>1. \A k \in Keys : history'[k] \in Ages
      <3> SUFFICES ASSUME NEW k \in Keys PROVE history'[k] \in Ages
        OBVIOUS
      <3>1. CASE k \in DOMAIN failures
        <4>1. history'[k] = Live(failures'[k])
          BY <1>2, <1>3, <3>1 DEF Counted
        <4>2. QED
          BY <1>3, <3>1, <4>1, LiveProps
      <3>2. CASE k \notin DOMAIN failures
        BY <1>5, <3>2, EmptySeq DEF Ages
      <3>3. QED
        BY <3>1, <3>2
    <2>2. history' \in [Keys -> Ages]
      BY <1>1, <2>1
    <2>3. \A k \in DOMAIN failures' : failures'[k] \in Ages /\ failures'[k] # <<>>
      BY <1>2, <1>3
    <2>4. DOMAIN failures' \subseteq Keys
      BY <1>2 DEF TypeOK
    <2>5. checking' \in [Attempts -> {{}} \cup {{ip, name} : ip \in Addresses, name \in Names}]
      BY <1>1, <1>2 DEF TypeOK
    <2>6. QED
      BY <2>2, <2>3, <2>4, <2>5 DEF TypeOK
  <1>8. \A k \in DOMAIN failures' : Len(failures'[k]) <= Most
    BY <1>2, <1>3 DEF CountInv
  <1>9. \A k \in Keys : Len(Counted(failures, k)') + Cardinality(Passed(k)') <= Most
    <2> SUFFICES ASSUME NEW k \in Keys
                 PROVE  Len(Counted(failures, k)') + Cardinality(Passed(k)') <= Most
      OBVIOUS
    <2>1. Len(Counted(failures, k)) + Cardinality(Passed(k)) <= Most
      BY DEF CountInv
    <2>2. Passed(k)' = Passed(k)
      BY <1>1 DEF Passed
    <2>3. Len(Counted(failures, k)') <= Len(Counted(failures, k))
      BY <1>3, <1>5, <1>2, CountedProps
    <2>4. Len(Counted(failures, k)) \in Nat /\ Len(Counted(failures, k)') \in Nat
      <3>1. \A f : Kept(f) => Len(Counted(f, k)) \in Nat
        BY CountedProps
      <3>2. Counted(failures, k)' = Counted(failures', k)
        BY DEF Counted
      <3>3. Kept(failures')
        BY <1>4 DEF Kept
      <3>4. QED
        BY <1>2, <3>1, <3>2, <3>3
    <2>5. QED
      BY <2>1, <2>2, <2>3, <2>4, PassedProps
  <1>10. QED
    BY <1>4, <1>6, <1>7, <1>8, <1>9 DEF CountInv

LEMMA CountTooMany ==
    ASSUME CountInv, NEW a \in Attempts, NEW ip \in Addresses, NEW name \in Names,
           TooMany(a, ip, name)
    PROVE  CountInv'
  <1> DEFINE blocked(k) == Len(Counted(failures, k)) >= Max
  <1>1. /\ checking[a] = {} /\ UNCHANGED history
        /\ checking' = [checking EXCEPT ![a] = IF blocked(ip) \/ blocked(name) THEN {} ELSE {ip, name}]
    BY DEF TooMany
  <1>2. PICK ks : failures' = Pruned(failures, ks)
    BY DEF TooMany
  <1>3. Kept(failures) /\ TypeOK
    BY DEF CountInv
  <1>4. /\ Kept(failures') /\ \A k : Counted(failures', k) = Counted(failures, k)
        /\ \A k \in DOMAIN failures' : k \in DOMAIN failures /\ Len(failures'[k]) <= Len(failures[k])
    BY <1>2, <1>3, PrunedCounts
  <1>5. \A k : Counted(failures, k)' = Counted(failures, k)
    BY <1>4 DEF Counted
  <1>6. Kept(failures)' /\ NothingForgotten'
    BY <1>1, <1>4, <1>5 DEF Kept, CountInv, NothingForgotten
  <1>7. TypeOK'
    <2>1. checking' \in [Attempts -> {{}} \cup {{i, n} : i \in Addresses, n \in Names}]
      <3> HIDE DEF blocked
      <3>1. (IF blocked(ip) \/ blocked(name) THEN {} ELSE {ip, name})
                \in {{}} \cup {{i, n} : i \in Addresses, n \in Names}
        OBVIOUS
      <3>2. QED
        BY <1>1, <1>3, <3>1 DEF TypeOK
    <2>2. DOMAIN failures' \subseteq Keys /\ \A k \in DOMAIN failures' : failures'[k] \in Ages /\ failures'[k] # <<>>
      BY <1>4 DEF Kept
    <2>3. QED
      BY <1>1, <1>3, <2>1, <2>2 DEF TypeOK
  <1>8. \A k \in DOMAIN failures' : Len(failures'[k]) <= Most
    <2> SUFFICES ASSUME NEW k \in DOMAIN failures' PROVE Len(failures'[k]) <= Most
      OBVIOUS
    <2>1. /\ k \in DOMAIN failures /\ Len(failures'[k]) <= Len(failures[k])
          /\ Len(failures[k]) <= Most
      BY <1>4 DEF CountInv
    <2>2. Len(failures'[k]) \in Nat /\ Len(failures[k]) \in Nat
      BY <1>3, <1>4, <2>1, LenProperties DEF Kept, Ages
    <2>3. QED
      BY <2>1, <2>2, PassedProps
  <1>9. \A k \in Keys : Len(Counted(failures, k)') + Cardinality(Passed(k)') <= Most
    <2> SUFFICES ASSUME NEW k \in Keys
                 PROVE  Len(Counted(failures, k)) + Cardinality(Passed(k)') <= Most
      BY <1>5
    <2>1. Len(Counted(failures, k)) \in Nat
      BY <1>3, CountedProps
    <2>2. CASE a \in Passed(k)'
      <3>1. k \in {ip, name} /\ ~blocked(ip) /\ ~blocked(name)
        BY <1>1, <1>3, <2>2 DEF Passed, TypeOK
      <3>2. ~blocked(k)
        BY <3>1
      <3>3. QED
        BY <2>1, <3>2, PassedProps, LimiterConstants DEF Most
    <2>3. CASE a \notin Passed(k)'
      <3>1. Passed(k)' \subseteq Passed(k)
        BY <1>1, <1>3, <2>3 DEF Passed, TypeOK
      <3>2. Cardinality(Passed(k)') <= Cardinality(Passed(k))
        BY <3>1, PassedProps
      <3>3. Len(Counted(failures, k)) + Cardinality(Passed(k)) <= Most
        BY DEF CountInv
      <3>4. QED
        BY <2>1, <3>2, <3>3, PassedProps
    <2>4. QED
      BY <2>2, <2>3
  <1>10. QED
    BY <1>6, <1>7, <1>8, <1>9 DEF CountInv

LEMMA CountReset ==
    ASSUME CountInv, NEW a \in Attempts, Reset(a)
    PROVE  CountInv'
  <1>1. /\ failures' = [k \in DOMAIN failures \ checking[a] |-> failures[k]]
        /\ checking' = [checking EXCEPT ![a] = {}]
        /\ history' = [k \in Keys |-> IF k \in checking[a] THEN <<>> ELSE history[k]]
    BY DEF Reset
  <1>2. Kept(failures) /\ TypeOK
    BY DEF CountInv
  <1>3. /\ DOMAIN failures' = DOMAIN failures \ checking[a]
        /\ \A k \in DOMAIN failures' : failures'[k] = failures[k]
    BY <1>1
  <1>4. Kept(failures)'
    BY <1>2, <1>3 DEF Kept
  <1>5. \A k \in Keys : Counted(failures, k)' = IF k \in checking[a] THEN <<>> ELSE Counted(failures, k)
    BY <1>3 DEF Counted
  <1>6. NothingForgotten'
    BY <1>1, <1>5 DEF CountInv, NothingForgotten
  <1>7. TypeOK'
    <2>1. history' \in [Keys -> Ages]
      <3>1. <<>> \in Ages
        BY EmptySeq DEF Ages
      <3>2. QED
        BY <1>1, <1>2, <3>1 DEF TypeOK
    <2>2. checking' \in [Attempts -> {{}} \cup {{i, n} : i \in Addresses, n \in Names}]
      BY <1>1, <1>2 DEF TypeOK
    <2>3. DOMAIN failures' \subseteq Keys /\ \A k \in DOMAIN failures' : failures'[k] \in Ages /\ failures'[k] # <<>>
      BY <1>4 DEF Kept
    <2>4. QED
      BY <2>1, <2>2, <2>3 DEF TypeOK
  <1>8. \A k \in DOMAIN failures' : Len(failures'[k]) <= Most
    BY <1>3 DEF CountInv
  <1>9. ASSUME NEW k \in Keys
        PROVE  Len(Counted(failures, k)') + Cardinality(Passed(k)') <= Most
    <2>1. Passed(k)' \subseteq Passed(k)
      BY <1>1, <1>2 DEF Passed, TypeOK
    <2>2. Cardinality(Passed(k)') <= Cardinality(Passed(k))
      BY <2>1, PassedProps
    <2>3. Len(Counted(failures, k)) + Cardinality(Passed(k)) <= Most
      BY DEF CountInv
    <2>4. Len(Counted(failures, k)) \in Nat /\ Len(<<>>) = 0
      BY <1>2, CountedProps, EmptySeq
    <2>5. Len(Counted(failures, k)') <= Len(Counted(failures, k)) /\ Len(Counted(failures, k)') \in Nat
      BY <1>5, <2>4
    <2>6. QED
      BY <2>2, <2>3, <2>4, <2>5, PassedProps
  <1>10. QED
    BY <1>4, <1>6, <1>7, <1>8, <1>9 DEF CountInv

LEMMA CountRecordFailure ==
    ASSUME CountInv, NEW a \in Attempts, RecordFailure(a)
    PROVE  CountInv'
  <1> DEFINE cleaned == IF Full(failures) THEN Pruned(failures, DOMAIN failures) ELSE failures
  <1>1. /\ checking[a] # {} /\ checking' = [checking EXCEPT ![a] = {}]
        /\ history' = [k \in Keys |-> IF k \in checking[a] \cap DOMAIN failures'
                                      THEN Append(history[k], 0) ELSE history[k]]
    BY DEF RecordFailure
  <1>2. PICK ip \in checking[a] \cap Addresses, name \in checking[a] \cap Names :
            failures' = Recorded(Recorded(cleaned, ip), name)
    BY DEF RecordFailure
  <1>3. Kept(failures) /\ TypeOK
    BY DEF CountInv
  <1>4. /\ Kept(cleaned) /\ \A k : Counted(cleaned, k) = Counted(failures, k)
        /\ \A k \in DOMAIN cleaned : k \in DOMAIN failures /\ Len(cleaned[k]) <= Len(failures[k])
    <2>1. CASE Full(failures)
      BY <1>3, <2>1, PrunedCounts
    <2>2. CASE ~Full(failures)
      <3>1. \A k \in DOMAIN failures : Len(failures[k]) \in Nat
        BY <1>3, LenProperties DEF Kept, Ages
      <3>2. QED
        BY <1>3, <2>2, <3>1
    <2>3. QED
      BY <2>1, <2>2
  <1> HIDE DEF cleaned
  <1>5. checking[a] = {ip, name} /\ ip # name /\ ip \in Keys /\ name \in Keys
    BY <1>1, <1>2, <1>3, LimiterConstants DEF TypeOK, Keys
  <1> DEFINE half == Recorded(cleaned, ip)
  <1>6. /\ Kept(half) /\ \A j : j # ip => Counted(half, j) = Counted(cleaned, j)
        /\ Counted(half, ip) = IF ip \in DOMAIN half THEN Append(Counted(cleaned, ip), 0)
                               ELSE Counted(cleaned, ip)
        /\ DOMAIN half \subseteq DOMAIN cleaned \cup {ip}
        /\ \A j \in DOMAIN cleaned : j # ip => half[j] = cleaned[j]
        /\ ip \in DOMAIN half => half[ip] = Append(Counted(cleaned, ip), 0)
    BY <1>4, <1>5, RecordedCounts
  <1> HIDE DEF half
  <1>7. failures' = Recorded(half, name)
    BY <1>2 DEF half
  <1>8. /\ Kept(failures') /\ \A j : j # name => Counted(failures', j) = Counted(half, j)
        /\ Counted(failures', name) = IF name \in DOMAIN failures' THEN Append(Counted(half, name), 0)
                                      ELSE Counted(half, name)
        /\ DOMAIN half \subseteq DOMAIN failures'
        /\ DOMAIN failures' \subseteq DOMAIN half \cup {name}
        /\ \A j \in DOMAIN half : j # name => failures'[j] = half[j]
        /\ name \in DOMAIN failures' => failures'[name] = Append(Counted(half, name), 0)
    <2>1. /\ Kept(Recorded(half, name)) /\ \A j : j # name => Counted(Recorded(half, name), j) = Counted(half, j)
          /\ Counted(Recorded(half, name), name) = IF name \in DOMAIN Recorded(half, name) THEN Append(Counted(half, name), 0)
                                        ELSE Counted(half, name)
          /\ DOMAIN half \subseteq DOMAIN Recorded(half, name)
          /\ DOMAIN Recorded(half, name) \subseteq DOMAIN half \cup {name}
          /\ \A j \in DOMAIN half : j # name => Recorded(half, name)[j] = half[j]
          /\ name \in DOMAIN Recorded(half, name) => Recorded(half, name)[name] = Append(Counted(half, name), 0)
      BY <1>5, <1>6, RecordedCounts
    <2>2. QED
      BY <1>7, <2>1
  \* What counts afterwards, and the failures of the keys.
  <1>9. ASSUME NEW k \in Keys
        PROVE  /\ Counted(failures', k) = IF k \in checking[a] \cap DOMAIN failures'
                                          THEN Append(Counted(failures, k), 0)
                                          ELSE Counted(failures, k)
               /\ k \in DOMAIN failures' =>
                     IF k \in checking[a] THEN failures'[k] = Append(Counted(failures, k), 0)
                     ELSE k \in DOMAIN cleaned /\ failures'[k] = cleaned[k]
    <2>1. CASE k = name
      <3>1. Counted(half, name) = Counted(failures, name)
        BY <1>4, <1>5, <1>6
      <3>2. QED
        BY <1>5, <1>8, <2>1, <3>1
    <2>2. CASE k = ip
      <3>1. ip \in DOMAIN half <=> ip \in DOMAIN failures'
        BY <1>5, <1>8
      <3>2. Counted(cleaned, ip) = Counted(failures, ip) /\ Counted(failures', ip) = Counted(half, ip)
        BY <1>4, <1>5, <1>8
      <3>3. QED
        BY <1>5, <1>6, <1>8, <2>2, <3>1, <3>2
    <2>3. CASE k \notin {ip, name}
      <3>1. Counted(failures', k) = Counted(failures, k)
        BY <1>4, <1>6, <1>8, <2>3
      <3>2. k \in DOMAIN failures' => k \in DOMAIN half /\ k \in DOMAIN cleaned
        BY <1>6, <1>8, <2>3
      <3>3. QED
        BY <1>5, <1>6, <1>8, <2>3, <3>1, <3>2
    <2>4. QED
      BY <2>1, <2>2, <2>3
  <1>10. \A k : Counted(failures, k)' = Counted(failures', k)
    BY DEF Counted
  <1>11. NothingForgotten'
    BY <1>1, <1>9, <1>10 DEF CountInv, NothingForgotten
  <1>12. ASSUME NEW k \in Keys
         PROVE  /\ Len(Counted(failures, k)) \in Nat /\ Append(Counted(failures, k), 0) \in Ages
                /\ Len(Append(Counted(failures, k), 0)) = Len(Counted(failures, k)) + 1
                /\ Len(Counted(failures, k)) + Cardinality(Passed(k)) <= Most
    <2>1. Len(Counted(failures, k)) + Cardinality(Passed(k)) <= Most
      BY DEF CountInv
    <2>2. QED
      BY <1>3, <2>1, CountedProps, LiveAppend
  <1>13. ASSUME NEW k \in Keys
         PROVE  /\ Cardinality(Passed(k)') <= Cardinality(Passed(k))
                /\ k \in checking[a] => /\ Cardinality(Passed(k)') <= Cardinality(Passed(k)) - 1
                                        /\ Cardinality(Passed(k)) >= 1
    <2>1. Passed(k)' \subseteq Passed(k) /\ a \notin Passed(k)'
      BY <1>1, <1>3 DEF Passed, TypeOK
    <2>2. k \in checking[a] => a \in Passed(k)
      BY DEF Passed
    <2>3. Passed(k)' \subseteq Passed(k) \ {a}
      BY <2>1
    <2>4. QED
      BY <2>1, <2>2, <2>3, PassedProps
  <1>14. TypeOK'
    <2>1. \A k \in Keys : history[k] = Counted(failures, k) /\ history[k] \in Ages
      BY <1>3 DEF CountInv, NothingForgotten, TypeOK
    <2>2. history' \in [Keys -> Ages]
      BY <1>1, <1>12, <2>1
    <2>3. checking' \in [Attempts -> {{}} \cup {{i, n} : i \in Addresses, n \in Names}]
      BY <1>1, <1>3 DEF TypeOK
    <2>4. DOMAIN failures' \subseteq Keys /\ \A k \in DOMAIN failures' : failures'[k] \in Ages /\ failures'[k] # <<>>
      BY <1>8 DEF Kept
    <2>5. QED
      BY <2>2, <2>3, <2>4 DEF TypeOK
  <1>15. ASSUME NEW k \in DOMAIN failures' PROVE Len(failures'[k]) <= Most
    <2>1. k \in Keys
      BY <1>8 DEF Kept
    <2>2. CASE k \in checking[a]
      <3>1. failures'[k] = Append(Counted(failures, k), 0)
        BY <1>9, <2>1, <2>2
      <3>2. Len(failures'[k]) = Len(Counted(failures, k)) + 1
        BY <1>12, <2>1, <3>1
      <3>3. QED
        BY <1>12, <1>13, <2>1, <2>2, <3>2, PassedProps
    <2>3. CASE k \notin checking[a]
      <3>1. k \in DOMAIN cleaned /\ failures'[k] = cleaned[k]
        BY <1>9, <2>1, <2>3
      <3>2. k \in DOMAIN failures /\ Len(cleaned[k]) <= Len(failures[k]) /\ Len(failures[k]) <= Most
        BY <1>4, <3>1 DEF CountInv
      <3>3. Len(cleaned[k]) \in Nat /\ Len(failures[k]) \in Nat
        BY <1>3, <1>4, <3>1, <3>2, LenProperties DEF Kept, Ages
      <3>4. QED
        BY <3>1, <3>2, <3>3, MostType
    <2>4. QED
      BY <2>2, <2>3
  <1>16. ASSUME NEW k \in Keys
         PROVE  Len(Counted(failures, k)') + Cardinality(Passed(k)') <= Most
    <2>1. CASE k \in checking[a] \cap DOMAIN failures'
      <3>1. Len(Counted(failures, k)') = Len(Counted(failures, k)) + 1
        BY <1>9, <1>10, <1>12, <2>1
      <3>2. QED
        BY <1>12, <1>13, <2>1, <3>1, PassedProps
    <2>2. CASE k \notin checking[a] \cap DOMAIN failures'
      <3>1. Counted(failures, k)' = Counted(failures, k)
        BY <1>9, <1>10, <2>2
      <3>2. QED
        BY <1>12, <1>13, <3>1, PassedProps
    <2>3. QED
      BY <2>1, <2>2
  <1>17. Kept(failures)'
    BY <1>8 DEF Kept
  <1>18. QED
    BY <1>11, <1>14, <1>15, <1>16, <1>17 DEF CountInv

LEMMA CountStep == CountInv /\ [Next]_vars => CountInv'
  <1> SUFFICES ASSUME CountInv, [Next]_vars PROVE CountInv'
    OBVIOUS
  <1>1. CASE UNCHANGED vars
    <2>1. UNCHANGED <<failures, checking, history>>
      BY <1>1 DEF vars
    <2>2. TypeOK' /\ Kept(failures)'
      BY <2>1 DEF CountInv, TypeOK, Kept
    <2>3. \A k : Counted(failures, k)' = Counted(failures, k) /\ Passed(k)' = Passed(k)
      BY <2>1 DEF Counted, Passed
    <2>4. QED
      BY <2>1, <2>2, <2>3 DEF CountInv, NothingForgotten
  <1>2. QED
    BY <1>1, CountTick, CountTooMany, CountReset, CountRecordFailure DEF Next

\* The limiter's map holds failures of keys only, and no key without one
\* (prune deletes it).
THEOREM LimiterTypes == Spec => []TypeOK
  <1>1. CountInv => TypeOK
    BY DEF CountInv
  <1>2. QED
    BY CountInit, CountStep, <1>1, PTL DEF Spec

\* However many attempts pass tooMany together, a key's failures stay below Max
\* and the attempts served at the same time.
THEOREM LimiterOverrun == Spec => []FailuresBounded
  <1>1. CountInv => FailuresBounded
    <2> SUFFICES ASSUME CountInv, NEW k \in DOMAIN failures
                 PROVE  Len(failures[k]) < Max + Cardinality(Attempts)
      BY DEF FailuresBounded
    <2>1. Len(failures[k]) <= Most
      BY DEF CountInv
    <2>2. Len(failures[k]) \in Nat
      BY LenProperties DEF CountInv, Kept, Ages
    <2>3. QED
      BY <2>1, <2>2, MostType, LimiterConstants DEF Most
  <1>2. QED
    BY CountInit, CountStep, <1>1, PTL DEF Spec

\* Whenever prune runs for a key, or for all of them when the map is full, what
\* counts for a key is what failed within the window since its last success.
THEOREM LimiterCounts == Spec => []NothingForgotten
  <1>1. CountInv => NothingForgotten
    BY DEF CountInv
  <1>2. QED
    BY CountInit, CountStep, <1>1, PTL DEF Spec
=============================================================================
