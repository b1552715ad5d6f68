----------------------------- MODULE EdgeProofs -----------------------------
(***************************************************************************)
(* What the orchestrator's edge promises its callers: the rate limiter's   *)
(* bounds, the completeness of a walk through the audit log, and the shape *)
(* of the plan an expression is turned into.                               *)
(***************************************************************************)
EXTENDS FiniteSets, RateLimiter, AuditQueries, ExpressionParser, FiniteSetTheorems,
        NaturalsInduction, WellFoundedInduction, TLAPS

-----------------------------------------------------------------------------
(***************************************************************************)
(* The rate limiter never grants a key more than its burst plus its rate,  *)
(* for any number of keys and calls, any settings that satisfy             *)
(* LimiterAssumption, and clock readings that reach the lock in any order. *)
(*                                                                         *)
(* The bound is not inductive.  What is, while a key has a bucket: for     *)
(* every instant a, the tokens in the bucket and the grants from a on      *)
(* together stay within what fits between a and the bucket's last access   *)
(* (Balanced).  While it has none, its grants are so old that a full       *)
(* bucket is what it would have by now (Cold).                             *)
(* It refuses nobody below that bound either, up to one lag: a bucket is   *)
(* no emptier than its grants explain (Drained).                           *)
(***************************************************************************)

Since(S, a)     == {g \in S : a <= g[2]}
Window(S, a, b) == {g \in S : a <= g[2] /\ g[2] <= b}

(* The history of a key at the time n: serial numbers are used up.         *)
Recorded(S, n) == /\ S \subseteq Nat \X Nat /\ IsFiniteSet(S)
                  /\ \A g \in S : g[1] < Cardinality(S) /\ g[2] <= n

Bounded(S) == \A a, b \in Nat :
                 a <= b => Cardinality(Window(S, a, b)) <= Burst + Rate * (b - a)

Balanced(S, b) ==
    /\ b \in Bucket /\ b.tokens <= Burst
    /\ \A a \in Nat : Since(S, a) # {} =>
          b.tokens + Cardinality(Since(S, a)) <= Burst + Rate * (b.last - a)

Recent(S, b, n) == b.last <= n /\ \A g \in S : g[2] <= b.last + MaxLag

Cold(S, n) == \A g \in S : g[2] + TTL <= n + MaxLag

KeyInv(k) ==
    /\ Recorded(granted[k], now) /\ Bounded(granted[k])
    /\ bucket[k] = NoBucket => Cold(granted[k], now)
    /\ bucket[k] # NoBucket => Balanced(granted[k], bucket[k]) /\ Recent(granted[k], bucket[k], now)

(* The history with a grant at t added, and what that adds to its windows. *)
Granted(S, t) == S \cup {<<Cardinality(S), t>>}
OneMore(S, T, t) ==
    /\ \A a \in Nat : Cardinality(Since(S, a)) \in Nat /\ IsFiniteSet(Since(S, a))
    /\ \A a \in Nat : a > t => Since(T, a) = Since(S, a)
    /\ \A a \in Nat : a <= t => Cardinality(Since(T, a)) = Cardinality(Since(S, a)) + 1
    /\ \A a, b \in Nat : a <= t /\ t <= b =>
          Cardinality(Window(T, a, b)) = Cardinality(Window(S, a, b)) + 1
    /\ \A a, b \in Nat : ~(a <= t /\ t <= b) => Window(T, a, b) = Window(S, a, b)

(* Readings are fresh, the cutoff of a sweep is a whole TTL ago.           *)
Readings == \A c \in Caller :
               asked[c] # Idle => asked[c][2] <= now /\ now <= asked[c][2] + MaxLag
CutoffOld == cutoff # Idle => cutoff + TTL <= now

LimiterInv == LimiterTypeOK /\ Readings /\ CutoffOld /\ \A k \in Key : KeyInv(k)

-----------------------------------------------------------------------------
(* Products with the rate.                                                 *)
LEMMA RateSum ==
    ASSUME NEW x \in Int, NEW y \in Int
    PROVE  Rate * (x + y) = Rate * x + Rate * y /\ Rate * x \in Int
  BY LimiterAssumption

LEMMA RateInt == ASSUME NEW x \in Int PROVE Rate * x \in Int
  BY LimiterAssumption

LEMMA RateMonotone ==
    ASSUME NEW x \in Int, NEW y \in Int, x <= y
    PROVE  Rate * x <= Rate * y /\ Rate * x \in Int /\ Rate * y \in Int
  BY LimiterAssumption

(* A new grant adds one to the windows that hold its reading.              *)
LEMMA NewGrant ==
    ASSUME NEW S, NEW n \in Nat, Recorded(S, n), NEW t \in Nat, t <= n
    PROVE  Recorded(Granted(S, t), n) /\ OneMore(S, Granted(S, t), t)
  <1> DEFINE g == <<Cardinality(S), t>>
  <1>1. IsFiniteSet(S) /\ Cardinality(S) \in Nat
    BY FS_CardinalityType DEF Recorded
  <1>2. g \in Nat \X Nat /\ g[1] = Cardinality(S) /\ g[2] = t
    BY <1>1
  <1> HIDE DEF g
  <1>3. g \notin S
    BY <1>1, <1>2 DEF Recorded
  <1>4. IsFiniteSet(S \cup {g}) /\ Cardinality(S \cup {g}) = Cardinality(S) + 1
    BY <1>1, <1>3, FS_AddElement
  <1>5. Recorded(S \cup {g}, n)
    <2>1. S \cup {g} \subseteq Nat \X Nat
      BY <1>2 DEF Recorded
    <2>2. ASSUME NEW h \in S \cup {g}
          PROVE  h[1] < Cardinality(S) + 1 /\ h[2] <= n
      <3>1. CASE h \in S
        <4>1. h \in Nat \X Nat /\ h[1] < Cardinality(S) /\ h[2] <= n
          BY <3>1 DEF Recorded
        <4> QED BY <4>1, <1>1
      <3>2. CASE h = g
        BY <3>2, <1>1, <1>2
      <3> QED BY <3>1, <3>2
    <2> QED BY <1>4, <2>1, <2>2 DEF Recorded
  <1>6. ASSUME NEW a \in Nat
        PROVE  IsFiniteSet(Since(S, a)) /\ Cardinality(Since(S, a)) \in Nat
    <2>1. Since(S, a) \subseteq S
      BY DEF Since
    <2> QED BY <1>1, <2>1, FS_Subset, FS_CardinalityType
  <1>7. ASSUME NEW a \in Nat, a > t
        PROVE  Since(S \cup {g}, a) = Since(S, a)
    BY <1>2, <1>7 DEF Since
  <1>8. ASSUME NEW a \in Nat, a <= t
        PROVE  Cardinality(Since(S \cup {g}, a)) = Cardinality(Since(S, a)) + 1
    <2>1. Since(S \cup {g}, a) = Since(S, a) \cup {g} /\ g \notin Since(S, a)
      BY <1>2, <1>3, <1>8 DEF Since
    <2> QED BY <2>1, <1>6, FS_AddElement
  <1>9. ASSUME NEW a \in Nat, NEW b \in Nat, a <= t, t <= b
        PROVE  Cardinality(Window(S \cup {g}, a, b)) = Cardinality(Window(S, a, b)) + 1
    <2>1. Window(S \cup {g}, a, b) = Window(S, a, b) \cup {g} /\ g \notin Window(S, a, b)
      BY <1>2, <1>3, <1>9 DEF Window
    <2>2. Window(S, a, b) \subseteq S
      BY DEF Window
    <2> QED BY <2>1, <2>2, <1>1, FS_Subset, FS_AddElement
  <1>10. ASSUME NEW a \in Nat, NEW b \in Nat, ~(a <= t /\ t <= b)
         PROVE  Window(S \cup {g}, a, b) = Window(S, a, b)
    BY <1>2, <1>10 DEF Window
  <1>11. Granted(S, t) = S \cup {g}
    BY DEF Granted, g
  <1>12. OneMore(S, S \cup {g}, t)
    BY <1>6, <1>7, <1>8, <1>9, <1>10 DEF OneMore
  <1> QED BY <1>5, <1>11, <1>12

-----------------------------------------------------------------------------
(* The bucket a call finds is balanced, whether it was there or is new.    *)
LEMMA FoundBalanced ==
    ASSUME NEW k \in Key, KeyInv(k), now \in Nat, bucket[k] \in Bucket \cup {NoBucket},
           NEW t \in Nat, now <= t + MaxLag
    PROVE  Balanced(granted[k], Found(k, t))
  <1>1. CASE bucket[k] # NoBucket
    BY <1>1 DEF KeyInv, Found
  <1>2. CASE bucket[k] = NoBucket
    <2> DEFINE S == granted[k]
               s == t - (TTL - 2 * MaxLag)
    <2>1. Found(k, t) = [tokens |-> Burst, last |-> t]
      BY <1>2 DEF Found
    <2>2. Cold(S, now) /\ Recorded(S, now) /\ Bounded(S)
      BY <1>2 DEF KeyInv
    <2>3. \A g \in S : g[2] \in Nat /\ g[2] <= s
      BY <2>2, LimiterAssumption DEF Cold, Recorded
    <2>4. s \in Int
      BY LimiterAssumption
    <2>5. ASSUME NEW a \in Nat, Since(S, a) # {}
          PROVE  Burst + Cardinality(Since(S, a)) <= Burst + Rate * (t - a)
      <3>1. PICK g \in S : a <= g[2]
        BY <2>5 DEF Since
      <3>2. s \in Nat /\ a <= s
        BY <3>1, <2>3, <2>4
      <3>3. Since(S, a) = Window(S, a, s)
        BY <2>3 DEF Since, Window
      <3>4. Cardinality(Since(S, a)) <= Burst + Rate * (s - a)
        BY <3>2, <3>3, <2>2 DEF Bounded
      <3>5. Rate * (t - a) = Rate * (s - a) + Rate * (TTL - 2 * MaxLag)
        <4>1. s - a \in Int /\ TTL - 2 * MaxLag \in Int /\ t - a = (s - a) + (TTL - 2 * MaxLag)
          BY <3>2, LimiterAssumption
        <4> HIDE DEF s
        <4> QED BY <4>1, RateSum
      <3>6. Burst <= Rate * (TTL - 2 * MaxLag)
        BY LimiterAssumption
      <3>7. Cardinality(Since(S, a)) \in Nat
        BY <2>2, FS_Subset, FS_CardinalityType DEF Recorded, Since
      <3>8. Rate * (s - a) \in Int /\ Rate * (TTL - 2 * MaxLag) \in Int
        BY <3>2, LimiterAssumption, RateSum
      <3> HIDE DEF S, s
      <3> QED BY <3>4, <3>5, <3>6, <3>7, <3>8, LimiterAssumption
    <2> QED BY <2>1, <2>5, LimiterAssumption DEF Balanced, Bucket
  <1> QED BY <1>1, <1>2

(* Refilling to the reading t, earlier or later than the last one, keeps it*)
(* balanced: the clamp only takes tokens away.                             *)
LEMMA RefillBalanced ==
    ASSUME NEW S, NEW n, Recorded(S, n), NEW b, Balanced(S, b), NEW t \in Nat
    PROVE  /\ Refilled(b, t) \in Int
           /\ Balanced(S, [tokens |-> Refilled(b, t), last |-> t])
  <1> DEFINE gross == b.tokens + (t - b.last) * Rate
  <1>1. b.tokens \in Int /\ b.last \in Nat
    BY DEF Balanced, Bucket
  <1>2. gross \in Int /\ gross = b.tokens + Rate * (t - b.last)
    BY <1>1, LimiterAssumption
  <1>3. Refilled(b, t) \in Int /\ Refilled(b, t) <= Burst /\ Refilled(b, t) <= gross
    BY <1>2, LimiterAssumption DEF Refilled
  <1> HIDE DEF gross
  <1>4. ASSUME NEW a \in Nat, Since(S, a) # {}
        PROVE  Refilled(b, t) + Cardinality(Since(S, a)) <= Burst + Rate * (t - a)
    <2>1. b.tokens + Cardinality(Since(S, a)) <= Burst + Rate * (b.last - a)
      BY <1>4 DEF Balanced
    <2>2. Rate * (t - a) = Rate * (t - b.last) + Rate * (b.last - a)
      <3>1. t - b.last \in Int /\ b.last - a \in Int /\ t - a = (t - b.last) + (b.last - a)
        BY <1>1
      <3> QED BY <3>1, RateSum
    <2>3. Rate * (t - b.last) \in Int /\ Rate * (b.last - a) \in Int
      BY <1>1, RateInt
    <2>4. Cardinality(Since(S, a)) \in Nat
      BY FS_Subset, FS_CardinalityType DEF Recorded, Since
    <2> QED BY <1>1, <1>2, <1>3, <2>1, <2>2, <2>3, <2>4, LimiterAssumption
  <1> QED BY <1>3, <1>4 DEF Balanced, Bucket

(* Granting one of its tokens keeps the bucket balanced and the windows    *)
(* bounded.                                                                *)
LEMMA GrantBalanced ==
    ASSUME NEW S, NEW T, NEW t \in Nat, OneMore(S, T, t), Bounded(S),
           NEW x \in Int, x >= 1, Balanced(S, [tokens |-> x, last |-> t])
    PROVE  /\ Bounded(T)
           /\ Balanced(T, [tokens |-> x - 1, last |-> t])
  <1>1. x <= Burst
    BY DEF Balanced
  <1>2. \A a \in Nat : Since(S, a) # {} => x + Cardinality(Since(S, a)) <= Burst + Rate * (t - a)
    BY DEF Balanced
  <1>3. ASSUME NEW a \in Nat, NEW b \in Nat, a <= b
        PROVE  Cardinality(Window(T, a, b)) <= Burst + Rate * (b - a)
    <2>1. CASE ~(a <= t /\ t <= b)
      <3>1. Window(T, a, b) = Window(S, a, b)
        BY <2>1 DEF OneMore
      <3> QED BY <3>1, <1>3 DEF Bounded
    <2>2. CASE a <= t /\ t <= b
      <3> DEFINE w == Cardinality(Window(S, a, b))
      <3>1. Cardinality(Window(T, a, b)) = w + 1
        BY <2>2 DEF OneMore
      <3>2. Rate * (t - a) <= Rate * (b - a) /\ 0 <= Rate * (t - a)
        <4>1. t - a \in Int /\ b - a \in Int /\ 0 <= t - a /\ t - a <= b - a
          BY <2>2
        <4>2. Rate * (t - a) <= Rate * (b - a) /\ Rate * 0 <= Rate * (t - a) /\ Rate * 0 = 0
          BY <4>1, RateMonotone, LimiterAssumption
        <4> QED BY <4>2
      <3>3. Rate * (t - a) \in Int /\ Rate * (b - a) \in Int
        BY RateInt
      <3>4. IsFiniteSet(Since(S, a)) /\ Cardinality(Since(S, a)) \in Nat
        BY DEF OneMore
      <3>5. Window(S, a, b) \subseteq Since(S, a)
        BY DEF Window, Since
      <3>6. w \in Nat /\ w <= Cardinality(Since(S, a))
        BY <3>4, <3>5, FS_Subset, FS_CardinalityType
      <3>7. CASE Since(S, a) = {}
        <4>1. w = 0
          BY <3>5, <3>7, FS_EmptySet
        <4>2. Burst \in Nat /\ 1 <= Burst
          BY LimiterAssumption
        <4> QED BY <3>1, <3>2, <3>3, <4>1, <4>2
      <3>8. CASE Since(S, a) # {}
        <4>1. x + Cardinality(Since(S, a)) <= Burst + Rate * (t - a)
          BY <3>8, <1>2
        <4> HIDE DEF w
        <4> QED BY <3>1, <3>2, <3>3, <3>4, <3>6, <4>1, LimiterAssumption
      <3> QED BY <3>7, <3>8
    <2> QED BY <2>1, <2>2
  <1>4. ASSUME NEW a \in Nat, Since(T, a) # {}
        PROVE  (x - 1) + Cardinality(Since(T, a)) <= Burst + Rate * (t - a)
    <2>1. CASE a > t
      <3>1. Since(T, a) = Since(S, a) /\ Cardinality(Since(S, a)) \in Nat
        BY <2>1 DEF OneMore
      <3>2. x + Cardinality(Since(S, a)) <= Burst + Rate * (t - a)
        BY <3>1, <1>2, <1>4
      <3>3. Rate * (t - a) \in Int
        BY RateInt
      <3> QED BY <3>1, <3>2, <3>3, LimiterAssumption
    <2>2. CASE a <= t
      <3>1. /\ Cardinality(Since(T, a)) = Cardinality(Since(S, a)) + 1
            /\ Cardinality(Since(S, a)) \in Nat
        BY <2>2 DEF OneMore
      <3>2. Rate * (t - a) \in Int /\ 0 <= Rate * (t - a)
        <4>1. t - a \in Int /\ 0 <= t - a
          BY <2>2
        <4>2. Rate * 0 <= Rate * (t - a) /\ Rate * 0 = 0 /\ Rate * (t - a) \in Int
          BY <4>1, RateMonotone, LimiterAssumption
        <4> QED BY <4>2
      <3>3. CASE Since(S, a) = {}
        <4>1. Cardinality(Since(S, a)) = 0
          BY <3>3, FS_EmptySet
        <4> QED BY <3>1, <3>2, <4>1, <1>1, LimiterAssumption
      <3>4. CASE Since(S, a) # {}
        BY <3>1, <3>2, <3>4, <1>2, LimiterAssumption
      <3> QED BY <3>3, <3>4
    <2> QED BY <2>1, <2>2
  <1>5. Bounded(T)
    BY <1>3 DEF Bounded
  <1>6. [tokens |-> x - 1, last |-> t] \in Bucket
    BY DEF Bucket
  <1>7. Balanced(T, [tokens |-> x - 1, last |-> t])
    BY <1>1, <1>4, <1>6, LimiterAssumption DEF Balanced
  <1> QED BY <1>5, <1>7

-----------------------------------------------------------------------------
LEMMA KeyUnchanged ==
    ASSUME NEW k \in Key, KeyInv(k), bucket'[k] = bucket[k], granted'[k] = granted[k], now' = now
    PROVE  KeyInv(k)'
  BY DEF KeyInv

LEMMA LimiterInitially == LimiterInit => LimiterInv
  <1> SUFFICES ASSUME LimiterInit PROVE LimiterInv
    OBVIOUS
  <1>1. LimiterTypeOK /\ Readings /\ CutoffOld
    BY DEF LimiterInit, LimiterTypeOK, Readings, CutoffOld
  <1>2. ASSUME NEW k \in Key PROVE KeyInv(k)
    <2>1. granted[k] = {} /\ bucket[k] = NoBucket /\ now = 0
      BY DEF LimiterInit
    <2>2. Recorded({}, 0) /\ Cold({}, 0)
      BY FS_EmptySet DEF Recorded, Cold
    <2>3. Bounded({})
      <3>1. ASSUME NEW a \in Nat, NEW b \in Nat, a <= b
            PROVE  Cardinality(Window({}, a, b)) <= Burst + Rate * (b - a)
        <4>1. Window({}, a, b) = {}
          BY DEF Window
        <4>2. b - a \in Int /\ 0 <= b - a
          BY <3>1
        <4>3. Rate * 0 <= Rate * (b - a) /\ Rate * 0 = 0 /\ Rate * (b - a) \in Int
          BY <4>2, RateMonotone, LimiterAssumption
        <4> QED BY <4>1, <4>3, FS_EmptySet, LimiterAssumption
      <3> QED BY <3>1 DEF Bounded
    <2> QED BY <2>1, <2>2, <2>3 DEF KeyInv
  <1> QED BY <1>1, <1>2 DEF LimiterInv

LEMMA AskStep ==
    ASSUME LimiterInv, NEW c \in Caller, NEW k \in Key, Ask(c, k) PROVE LimiterInv'
  <1>1. LimiterTypeOK'
    BY DEF LimiterInv, LimiterTypeOK, Ask
  <1>2. Readings'
    <2> SUFFICES ASSUME NEW d \in Caller, asked'[d] # Idle
                 PROVE  asked'[d][2] <= now /\ now <= asked'[d][2] + MaxLag
      BY DEF Readings, Ask
    <2>1. CASE d = c
      <3>1. asked'[d] = <<k, now>> /\ now \in Nat
        BY <2>1 DEF Ask, LimiterInv, LimiterTypeOK
      <3> QED BY <3>1, LimiterAssumption
    <2>2. CASE d # c
      BY <2>2 DEF Ask, LimiterInv, LimiterTypeOK, Readings
    <2> QED BY <2>1, <2>2
  <1>3. CutoffOld'
    BY DEF LimiterInv, CutoffOld, Ask
  <1>4. \A j \in Key : KeyInv(j)'
    BY KeyUnchanged DEF LimiterInv, Ask
  <1> QED BY <1>1, <1>2, <1>3, <1>4 DEF LimiterInv

(* The critical section: the bucket is found, refilled and perhaps spent   *)
(* from, and each of the three keeps it balanced.                          *)
LEMMA AllowStep ==
    ASSUME LimiterInv, NEW c \in Caller, AllowN(c) PROVE LimiterInv'
  <1> DEFINE k == asked[c][1]
             t == asked[c][2]
             S == granted[k]
             x == Refilled(Found(k, t), t)
  <1>1. /\ k \in Key /\ t \in Nat /\ now \in Nat /\ t <= now /\ now <= t + MaxLag
        /\ bucket[k] \in Bucket \cup {NoBucket}
    <2>1. asked[c] \in (Key \X Nat) \cup {Idle} /\ asked[c] # Idle
      BY DEF LimiterInv, LimiterTypeOK, AllowN
    <2> QED BY <2>1 DEF LimiterInv, LimiterTypeOK, Readings
  <1>2. KeyInv(k) /\ Recorded(S, now) /\ Bounded(S)
    BY <1>1 DEF LimiterInv, KeyInv
  <1>3. x \in Int /\ Balanced(S, [tokens |-> x, last |-> t])
    <2>1. Balanced(S, Found(k, t))
      BY <1>1, <1>2, FoundBalanced
    <2> QED BY <1>1, <1>2, <2>1, RefillBalanced
  <1>4. /\ now' = now /\ cutoff' = cutoff
        /\ asked' = [asked EXCEPT ![c] = Idle]
        /\ \/ /\ x >= 1
              /\ bucket' = [bucket EXCEPT ![k] = [tokens |-> x - 1, last |-> t]]
              /\ granted' = [granted EXCEPT ![k] = Granted(S, t)]
           \/ /\ bucket' = [bucket EXCEPT ![k] = [tokens |-> x, last |-> t]]
              /\ granted' = granted
    BY DEF AllowN, Granted
  <1>5. /\ bucket \in [Key -> Bucket \cup {NoBucket}]
        /\ granted \in [Key -> SUBSET (Nat \X Nat)]
        /\ asked \in [Caller -> (Key \X Nat) \cup {Idle}]
    BY DEF LimiterInv, LimiterTypeOK
  <1>6. NoBucket \notin Bucket
    BY LimiterAssumption DEF Bucket
  <1>7. Recorded(Granted(S, t), now) /\ OneMore(S, Granted(S, t), t)
    BY <1>1, <1>2, NewGrant
  <1> HIDE DEF k, t, S, x
  <1>8. /\ [tokens |-> x - 1, last |-> t] \in Bucket
        /\ [tokens |-> x, last |-> t] \in Bucket
        /\ Granted(S, t) \in SUBSET (Nat \X Nat)
    BY <1>1, <1>3, <1>7 DEF Bucket, Recorded
  <1>9. LimiterTypeOK'
    <2>1. bucket' \in [Key -> Bucket \cup {NoBucket}] /\ granted' \in [Key -> SUBSET (Nat \X Nat)]
      BY <1>4, <1>5, <1>8
    <2>2. asked' \in [Caller -> (Key \X Nat) \cup {Idle}]
      BY <1>4, <1>5
    <2> QED BY <1>4, <2>1, <2>2 DEF LimiterInv, LimiterTypeOK
  <1>10. Readings' /\ CutoffOld'
    BY <1>4, <1>5 DEF LimiterInv, Readings, CutoffOld
  <1>11. ASSUME NEW j \in Key PROVE KeyInv(j)'
    <2>1. CASE j # k
      <3>1. bucket'[j] = bucket[j] /\ granted'[j] = granted[j]
        BY <1>4, <1>5, <2>1
      <3>2. KeyInv(j)
        BY DEF LimiterInv
      <3> QED BY <1>4, <3>1, <3>2, KeyUnchanged
    <2>2. CASE /\ j = k /\ x >= 1
               /\ bucket' = [bucket EXCEPT ![k] = [tokens |-> x - 1, last |-> t]]
               /\ granted' = [granted EXCEPT ![k] = Granted(S, t)]
      <3>1. bucket'[j] = [tokens |-> x - 1, last |-> t] /\ granted'[j] = Granted(S, t)
        BY <1>5, <2>2
      <3>2. Bounded(Granted(S, t)) /\ Balanced(Granted(S, t), [tokens |-> x - 1, last |-> t])
        BY <1>1, <1>2, <1>3, <1>7, <2>2, GrantBalanced
      <3>3. Recent(Granted(S, t), [tokens |-> x - 1, last |-> t], now)
        BY <1>1, <1>7, LimiterAssumption DEF Recent, Recorded
      <3>4. bucket'[j] # NoBucket
        BY <3>1, <1>6, <1>8
      <3> QED BY <1>4, <1>7, <3>1, <3>2, <3>3, <3>4 DEF KeyInv
    <2>3. CASE /\ j = k
               /\ bucket' = [bucket EXCEPT ![k] = [tokens |-> x, last |-> t]]
               /\ granted' = granted
      <3>1. bucket'[j] = [tokens |-> x, last |-> t] /\ granted'[j] = S
        BY <1>5, <2>3 DEF S
      <3>2. Recent(S, [tokens |-> x, last |-> t], now)
        BY <1>1, <1>2, LimiterAssumption DEF Recent, Recorded
      <3>3. bucket'[j] # NoBucket
        BY <3>1, <1>6, <1>8
      <3> QED BY <1>2, <1>3, <1>4, <3>1, <3>2, <3>3 DEF KeyInv
    <2> QED BY <1>4, <2>1, <2>2, <2>3
  <1> QED BY <1>9, <1>10, <1>11 DEF LimiterInv

(* An evicted bucket leaves a key whose grants are all cold.               *)
LEMMA SweepStep ==
    ASSUME LimiterInv, NEW K \in SUBSET Key, SweepShard(K) PROVE LimiterInv'
  <1>1. LimiterTypeOK' /\ Readings' /\ CutoffOld'
    BY DEF LimiterInv, LimiterTypeOK, Readings, CutoffOld, SweepShard
  <1>2. ASSUME NEW k \in Key PROVE KeyInv(k)'
    <2>1. KeyInv(k) /\ granted' = granted /\ now' = now
      BY DEF LimiterInv, SweepShard
    <2>2. CASE bucket'[k] = bucket[k]
      BY <2>1, <2>2, KeyUnchanged
    <2>3. CASE bucket'[k] # bucket[k]
      <3>1. bucket'[k] = NoBucket /\ bucket[k] # NoBucket /\ Stale(bucket[k]) /\ cutoff # Idle
        BY <2>3 DEF SweepShard
      <3>2. /\ bucket[k] \in Bucket /\ cutoff \in Nat /\ now \in Nat
            /\ cutoff + TTL <= now /\ bucket[k].last < cutoff
        BY <3>1 DEF LimiterInv, LimiterTypeOK, CutoffOld, Stale
      <3>3. Recent(granted[k], bucket[k], now) /\ Recorded(granted[k], now) /\ Bounded(granted[k])
        BY <2>1, <3>1 DEF KeyInv
      <3>4. ASSUME NEW g \in granted[k] PROVE g[2] + TTL <= now + MaxLag
        <4>1. g[2] \in Nat /\ g[2] <= bucket[k].last + MaxLag
          BY <3>3 DEF Recent, Recorded
        <4>2. bucket[k].last \in Nat
          BY <3>2 DEF Bucket
        <4> QED BY <4>1, <4>2, <3>2, LimiterAssumption
      <3> QED BY <2>1, <3>1, <3>3, <3>4 DEF KeyInv, Cold
    <2> QED BY <2>2, <2>3
  <1> QED BY <1>1, <1>2 DEF LimiterInv

LEMMA StartSweepStep == ASSUME LimiterInv, StartSweep PROVE LimiterInv'
  <1>1. now \in Nat /\ now - TTL \in Nat
    BY LimiterAssumption DEF LimiterInv, LimiterTypeOK, StartSweep
  <1>2. LimiterTypeOK' /\ Readings' /\ CutoffOld'
    BY <1>1, LimiterAssumption DEF LimiterInv, LimiterTypeOK, Readings, CutoffOld, StartSweep
  <1>3. \A k \in Key : KeyInv(k)'
    BY KeyUnchanged DEF LimiterInv, StartSweep
  <1> QED BY <1>2, <1>3 DEF LimiterInv

LEMMA EndSweepStep == ASSUME LimiterInv, EndSweep PROVE LimiterInv'
  <1>1. LimiterTypeOK' /\ Readings' /\ CutoffOld'
    BY DEF LimiterInv, LimiterTypeOK, Readings, CutoffOld, EndSweep
  <1>2. \A k \in Key : KeyInv(k)'
    BY KeyUnchanged DEF LimiterInv, EndSweep
  <1> QED BY <1>1, <1>2 DEF LimiterInv

LEMMA TickStep == ASSUME LimiterInv, Tick PROVE LimiterInv'
  <1>1. now \in Nat /\ now' = now + 1
    BY DEF LimiterInv, LimiterTypeOK, Tick
  <1>2. LimiterTypeOK'
    BY <1>1 DEF LimiterInv, LimiterTypeOK, Tick
  <1>3. Readings'
    <2> SUFFICES ASSUME NEW c \in Caller, asked[c] # Idle
                 PROVE  asked[c][2] <= now + 1 /\ now + 1 <= asked[c][2] + MaxLag
      BY <1>1 DEF Readings, Tick
    <2>1. asked[c][2] \in Nat /\ asked[c][2] <= now /\ now < asked[c][2] + MaxLag
      BY DEF LimiterInv, LimiterTypeOK, Readings, Tick
    <2> QED BY <1>1, <2>1, LimiterAssumption
  <1>4. CutoffOld'
    BY <1>1, LimiterAssumption DEF LimiterInv, LimiterTypeOK, CutoffOld, Tick
  <1>5. ASSUME NEW k \in Key PROVE KeyInv(k)'
    <2>1. KeyInv(k) /\ bucket' = bucket /\ granted' = granted
      BY DEF LimiterInv, Tick
    <2>2. \A g \in granted[k] : g[2] \in Nat
      BY <2>1 DEF KeyInv, Recorded
    <2>3. Recorded(granted[k], now + 1)
      BY <1>1, <2>1, <2>2 DEF KeyInv, Recorded
    <2>4. bucket[k] = NoBucket => Cold(granted[k], now + 1)
      BY <1>1, <2>1, <2>2, LimiterAssumption DEF KeyInv, Cold
    <2>5. bucket[k] # NoBucket => Recent(granted[k], bucket[k], now + 1)
      BY <1>1, <2>1 DEF KeyInv, Recent, Balanced, Bucket
    <2> QED BY <1>1, <2>1, <2>3, <2>4, <2>5 DEF KeyInv
  <1> QED BY <1>2, <1>3, <1>4, <1>5 DEF LimiterInv

LEMMA LimiterStep == LimiterInv /\ [LimiterNext]_limiterVars => LimiterInv'
  <1> SUFFICES ASSUME LimiterInv, [LimiterNext]_limiterVars PROVE LimiterInv'
    OBVIOUS
  <1>1. CASE \E c \in Caller, k \in Key : Ask(c, k)
    BY <1>1, AskStep
  <1>2. CASE \E c \in Caller : AllowN(c)
    BY <1>2, AllowStep
  <1>3. CASE StartSweep
    BY <1>3, StartSweepStep
  <1>4. CASE \E k \in Key : SweepShard({k})
    BY <1>4, SweepStep
  <1>5. CASE EndSweep
    BY <1>5, EndSweepStep
  <1>6. CASE Tick
    BY <1>6, TickStep
  <1>7. CASE UNCHANGED limiterVars
    <2>1. LimiterTypeOK' /\ Readings' /\ CutoffOld'
      BY <1>7 DEF LimiterInv, LimiterTypeOK, Readings, CutoffOld, limiterVars
    <2>2. \A k \in Key : KeyInv(k)'
      BY <1>7, KeyUnchanged DEF LimiterInv, limiterVars
    <2> QED BY <2>1, <2>2 DEF LimiterInv
  <1> QED BY <1>1, <1>2, <1>3, <1>4, <1>5, <1>6, <1>7 DEF LimiterNext

-----------------------------------------------------------------------------
(* The limiter's state has its types.                                      *)
THEOREM LimiterTypes == LimiterSpec => []LimiterTypeOK
  <1>1. LimiterInv => LimiterTypeOK
    BY DEF LimiterInv
  <1> QED BY LimiterInitially, LimiterStep, <1>1, PTL DEF LimiterSpec

(* No key is ever granted more than Burst + Rate * (b - a) tokens between  *)
(* the readings a and b (AllowN and sweep of pkg/ratelimit/ratelimit.go).  *)
THEOREM NeverGrantsTooMuch == LimiterSpec => []NeverOverGrants
  <1>1. LimiterInv => NeverOverGrants
    <2> SUFFICES ASSUME LimiterInv, NEW k \in Key, NEW a \in 0..now, NEW b \in 0..now, a <= b
                 PROVE  Cardinality(Grants(k, a, b)) <= Burst + Rate * (b - a)
      BY DEF NeverOverGrants
    <2>1. Bounded(granted[k]) /\ a \in Nat /\ b \in Nat
      BY DEF LimiterInv, KeyInv, LimiterTypeOK
    <2>2. Grants(k, a, b) = Window(granted[k], a, b)
      BY DEF Grants, Window
    <2> QED BY <2>1, <2>2 DEF Bounded
  <1> QED BY LimiterInitially, LimiterStep, <1>1, PTL DEF LimiterSpec

-----------------------------------------------------------------------------
(* The other direction: a bucket is no emptier than its grants explain.    *)
(* The instant a is when it was last full, and the window opens at w, the  *)
(* oldest reading granted after that: at most one lag earlier, because     *)
(* readings reach the lock out of order.                                   *)
Drained(S, b, n) ==
    \E a \in 0..n, w \in 0..n :
        /\ w <= a /\ a <= w + MaxLag
        /\ b.tokens + Cardinality(Since(S, w)) >= Burst + Rate * (b.last - a)

DrainedInv == \A k \in Key : bucket[k] # NoBucket => Drained(granted[k], bucket[k], now)

LEMMA SinceFinite ==
    ASSUME NEW S, NEW n, Recorded(S, n), NEW a \in Nat
    PROVE  IsFiniteSet(Since(S, a)) /\ Cardinality(Since(S, a)) \in Nat
  BY FS_Subset, FS_CardinalityType DEF Recorded, Since

(* A full bucket explains itself.                                          *)
LEMMA FullIsDrained ==
    ASSUME NEW S, NEW n \in Nat, Recorded(S, n), NEW t \in 0..n
    PROVE  Drained(S, [tokens |-> Burst, last |-> t], n)
  <1>1. Cardinality(Since(S, t)) \in Nat
    BY SinceFinite
  <1>2. Rate * (t - t) = 0
    BY LimiterAssumption
  <1>3. t <= t /\ t <= t + MaxLag /\ Burst + Cardinality(Since(S, t)) >= Burst + Rate * (t - t)
    BY <1>1, <1>2, LimiterAssumption
  <1> QED BY <1>3 DEF Drained

LEMMA RefillDrained ==
    ASSUME NEW S, NEW n \in Nat, Recorded(S, n), NEW b \in Bucket, Drained(S, b, n), NEW t \in 0..n
    PROVE  Drained(S, [tokens |-> Refilled(b, t), last |-> t], n)
  <1> DEFINE gross == b.tokens + (t - b.last) * Rate
  <1>1. b.tokens \in Int /\ b.last \in Nat /\ gross \in Int /\ gross = b.tokens + Rate * (t - b.last)
    BY LimiterAssumption DEF Bucket
  <1>2. CASE gross > Burst
    BY <1>2, FullIsDrained DEF Refilled
  <1>3. CASE ~(gross > Burst)
    <2>1. PICK a \in 0..n, w \in 0..n :
             /\ w <= a /\ a <= w + MaxLag
             /\ b.tokens + Cardinality(Since(S, w)) >= Burst + Rate * (b.last - a)
      BY DEF Drained
    <2>2. Refilled(b, t) = gross
      BY <1>3 DEF Refilled
    <2>3. Rate * (t - a) = Rate * (t - b.last) + Rate * (b.last - a)
      <3>1. t - b.last \in Int /\ b.last - a \in Int /\ t - a = (t - b.last) + (b.last - a)
        BY <1>1
      <3> QED BY <3>1, RateSum
    <2>4. /\ Rate * (t - b.last) \in Int /\ Rate * (b.last - a) \in Int
          /\ Cardinality(Since(S, w)) \in Nat
      BY <1>1, RateInt, SinceFinite
    <2> HIDE DEF gross
    <2>5. gross + Cardinality(Since(S, w)) >= Burst + Rate * (t - a)
      BY <1>1, <2>1, <2>3, <2>4, LimiterAssumption
    <2> QED BY <2>1, <2>2, <2>5 DEF Drained
  <1> QED BY <1>2, <1>3

(* A grant that reaches the bucket late opens the window earlier.          *)
LEMMA GrantDrained ==
    ASSUME NEW S, NEW T, NEW n \in Nat, Recorded(S, n), NEW t \in 0..n, n <= t + MaxLag,
           OneMore(S, T, t), NEW x \in Int, Drained(S, [tokens |-> x, last |-> t], n)
    PROVE  Drained(T, [tokens |-> x - 1, last |-> t], n)
  <1>1. PICK a \in 0..n, w \in 0..n :
           /\ w <= a /\ a <= w + MaxLag
           /\ x + Cardinality(Since(S, w)) >= Burst + Rate * (t - a)
    BY DEF Drained
  <1>2. Cardinality(Since(S, w)) \in Nat /\ Cardinality(Since(S, t)) \in Nat /\ Rate * (t - a) \in Int
    BY SinceFinite, RateInt
  <1>3. CASE w <= t
    <2>1. Cardinality(Since(T, w)) = Cardinality(Since(S, w)) + 1
      BY <1>3 DEF OneMore
    <2>2. (x - 1) + Cardinality(Since(T, w)) >= Burst + Rate * (t - a)
      BY <1>1, <1>2, <2>1, LimiterAssumption
    <2> QED BY <1>1, <2>2 DEF Drained
  <1>4. CASE t < w
    <2>1. Cardinality(Since(T, t)) = Cardinality(Since(S, t)) + 1
      BY DEF OneMore
    <2>2. Cardinality(Since(S, w)) <= Cardinality(Since(S, t))
      <3>1. Since(S, w) \subseteq Since(S, t)
        BY <1>4 DEF Since, Recorded
      <3> QED BY <3>1, SinceFinite, FS_Subset
    <2>3. (x - 1) + Cardinality(Since(T, t)) >= Burst + Rate * (t - a)
      BY <1>1, <1>2, <2>1, <2>2, LimiterAssumption
    <2>4. t <= a /\ a <= t + MaxLag
      BY <1>1, <1>4, LimiterAssumption
    <2> QED BY <2>3, <2>4 DEF Drained
  <1> QED BY <1>3, <1>4

(* The bucket a call refills was drained by its grants, or is full.        *)
LEMMA CallDrained ==
    ASSUME LimiterInv, DrainedInv, NEW c \in Caller, AllowN(c),
           NEW k, NEW t, k = asked[c][1], t = asked[c][2]
    PROVE  /\ k \in Key /\ t \in 0..now /\ now \in Nat /\ now <= t + MaxLag
           /\ Recorded(granted[k], now) /\ Refilled(Found(k, t), t) \in Int
           /\ Drained(granted[k], [tokens |-> Refilled(Found(k, t), t), last |-> t], now)
  <1>1. /\ k \in Key /\ t \in Nat /\ now \in Nat /\ t <= now /\ now <= t + MaxLag
        /\ bucket[k] \in Bucket \cup {NoBucket}
    <2>1. asked[c] \in (Key \X Nat) \cup {Idle} /\ asked[c] # Idle
      BY DEF LimiterInv, LimiterTypeOK, AllowN
    <2> QED BY <2>1 DEF LimiterInv, LimiterTypeOK, Readings
  <1>2. KeyInv(k) /\ Recorded(granted[k], now)
    BY <1>1 DEF LimiterInv, KeyInv
  <1>3. Balanced(granted[k], Found(k, t))
    BY <1>1, <1>2, FoundBalanced
  <1>4. Refilled(Found(k, t), t) \in Int
    BY <1>1, <1>2, <1>3, RefillBalanced
  <1>5. Found(k, t) \in Bucket
    BY <1>3 DEF Balanced
  <1>6. Drained(granted[k], Found(k, t), now)
    <2>1. CASE bucket[k] = NoBucket
      BY <1>1, <1>2, <2>1, FullIsDrained DEF Found
    <2>2. CASE bucket[k] # NoBucket
      BY <1>1, <2>2 DEF Found, DrainedInv
    <2> QED BY <2>1, <2>2
  <1>7. t \in 0..now
    BY <1>1
  <1> QED BY <1>1, <1>2, <1>4, <1>5, <1>6, <1>7, RefillDrained

LEMMA AllowDrained ==
    ASSUME LimiterInv, DrainedInv, NEW c \in Caller, AllowN(c) PROVE DrainedInv'
  <1> DEFINE k == asked[c][1]
             t == asked[c][2]
             S == granted[k]
             x == Refilled(Found(k, t), t)
  <1>1. /\ k \in Key /\ t \in 0..now /\ now \in Nat /\ now <= t + MaxLag
        /\ Recorded(S, now) /\ x \in Int
        /\ Drained(S, [tokens |-> x, last |-> t], now)
    BY CallDrained
  <1>2. /\ now' = now
        /\ \/ /\ bucket' = [bucket EXCEPT ![k] = [tokens |-> x - 1, last |-> t]]
              /\ granted' = [granted EXCEPT ![k] = Granted(S, t)]
           \/ /\ bucket' = [bucket EXCEPT ![k] = [tokens |-> x, last |-> t]]
              /\ granted' = granted
    BY DEF AllowN, Granted
  <1>3. /\ bucket \in [Key -> Bucket \cup {NoBucket}]
        /\ granted \in [Key -> SUBSET (Nat \X Nat)]
    BY DEF LimiterInv, LimiterTypeOK
  <1>4. t \in Nat /\ t <= now
    BY <1>1
  <1>5. OneMore(S, Granted(S, t), t)
    BY <1>1, <1>4, NewGrant
  <1>6. Drained(Granted(S, t), [tokens |-> x - 1, last |-> t], now)
    BY <1>1, <1>5, GrantDrained
  <1> HIDE DEF k, t, x
  <1>7. ASSUME NEW j \in Key, bucket'[j] # NoBucket PROVE Drained(granted'[j], bucket'[j], now')
    <2>1. CASE j # k
      <3>1. bucket'[j] = bucket[j] /\ granted'[j] = granted[j]
        BY <1>2, <1>3, <2>1
      <3> QED BY <1>2, <1>7, <3>1 DEF DrainedInv
    <2>2. CASE /\ j = k
               /\ bucket' = [bucket EXCEPT ![k] = [tokens |-> x - 1, last |-> t]]
               /\ granted' = [granted EXCEPT ![k] = Granted(S, t)]
      BY <1>2, <1>3, <1>6, <2>2
    <2>3. CASE /\ j = k
               /\ bucket' = [bucket EXCEPT ![k] = [tokens |-> x, last |-> t]]
               /\ granted' = granted
      BY <1>1, <1>2, <1>3, <2>3
    <2> QED BY <1>2, <2>1, <2>2, <2>3
  <1> QED BY <1>7 DEF DrainedInv

LEMMA DrainedStep == LimiterInv /\ DrainedInv /\ [LimiterNext]_limiterVars => DrainedInv'
  <1> SUFFICES ASSUME LimiterInv, DrainedInv, [LimiterNext]_limiterVars PROVE DrainedInv'
    OBVIOUS
  <1>1. ASSUME bucket' = bucket, granted' = granted, now' = now PROVE DrainedInv'
    BY <1>1 DEF DrainedInv
  <1>2. CASE \E c \in Caller, k \in Key : Ask(c, k)
    BY <1>1, <1>2 DEF Ask
  <1>3. CASE \E c \in Caller : AllowN(c)
    BY <1>3, AllowDrained
  <1>4. CASE StartSweep \/ EndSweep
    BY <1>1, <1>4 DEF StartSweep, EndSweep
  <1>5. CASE \E k \in Key : SweepShard({k})
    <2>1. /\ granted' = granted /\ now' = now
          /\ \A k \in Key : bucket'[k] # NoBucket => bucket'[k] = bucket[k]
      BY <1>5 DEF SweepShard
    <2> QED BY <2>1 DEF DrainedInv
  <1>6. CASE Tick
    <2>1. /\ granted' = granted /\ bucket' = bucket /\ now' = now + 1 /\ now \in Nat
      BY <1>6 DEF Tick, LimiterInv, LimiterTypeOK
    <2>2. 0..now \subseteq 0..(now + 1)
      BY <2>1
    <2>3. \A S, b : Drained(S, b, now) => Drained(S, b, now + 1)
      BY <2>2 DEF Drained
    <2> QED BY <2>1, <2>3 DEF DrainedInv
  <1>7. CASE UNCHANGED limiterVars
    BY <1>1, <1>7 DEF limiterVars
  <1> QED BY <1>2, <1>3, <1>4, <1>5, <1>6, <1>7 DEF LimiterNext

(* A call is refused only when some window up to now is full, give or take *)
(* the tokens of one lag, whatever was evicted or clamped in between       *)
(* (AllowN and sweep of pkg/ratelimit/ratelimit.go).                       *)
THEOREM RefusalsAreEarned == LimiterSpec => RefusalsEarned
  <1> DEFINE Refusal(c) == asked[c] # Idle /\ asked'[c] = Idle /\ granted' = granted
             Full(c) == LET k == asked[c][1]
                            t == asked[c][2]
                        IN  \E a \in 0..now : Cardinality(Grants(k, a, now)) + 1
                                                > Burst + Rate * (t - a - MaxLag)
  <1>1. ASSUME LimiterInv, DrainedInv, LimiterNext, NEW c \in Caller, Refusal(c) PROVE Full(c)
    <2>1. AllowN(c)
      <3>1. asked[c] # Idle /\ asked' # asked
        BY <1>1
      <3>2. CASE \E d \in Caller, k \in Key : Ask(d, k)
        BY <1>1, <3>2, LimiterAssumption DEF Ask, LimiterInv, LimiterTypeOK
      <3>3. CASE \E d \in Caller : AllowN(d)
        BY <1>1, <3>3 DEF AllowN, LimiterInv, LimiterTypeOK
      <3> QED BY <1>1, <3>1, <3>2, <3>3 DEF LimiterNext, StartSweep, SweepShard, EndSweep, Tick
    <2> DEFINE k == asked[c][1]
               t == asked[c][2]
               S == granted[k]
               x == Refilled(Found(k, t), t)
    <2>2. /\ k \in Key /\ t \in 0..now /\ now \in Nat /\ now <= t + MaxLag
          /\ Recorded(S, now) /\ x \in Int
          /\ Drained(S, [tokens |-> x, last |-> t], now)
      BY <1>1, <2>1, CallDrained
    <2>3. ~(x >= 1)
      <3> SUFFICES ASSUME x >= 1 PROVE FALSE
        OBVIOUS
      <3>1. granted' = [granted EXCEPT ![k] = Granted(S, t)]
        BY <2>1 DEF AllowN, Granted
      <3>2. Granted(S, t) = S
        BY <1>1, <2>2, <3>1 DEF LimiterInv, LimiterTypeOK
      <3>3. <<Cardinality(S), t>> \in S
        BY <3>2 DEF Granted
      <3>4. Cardinality(S) < Cardinality(S) /\ Cardinality(S) \in Nat
        BY <2>2, <3>3, FS_CardinalityType DEF Recorded
      <3> QED BY <3>4
    <2> HIDE DEF k, t, x
    <2>4. PICK a \in 0..now, w \in 0..now :
             /\ w <= a /\ a <= w + MaxLag
             /\ x + Cardinality(Since(S, w)) >= Burst + Rate * (t - a)
      BY <2>2 DEF Drained
    <2>5. Rate * (t - w - MaxLag) <= Rate * (t - a)
      <3>1. t - w - MaxLag \in Int /\ t - a \in Int /\ t - w - MaxLag <= t - a
        BY <2>2, <2>4, LimiterAssumption
      <3> QED BY <3>1, RateMonotone
    <2>6. /\ Rate * (t - w - MaxLag) \in Int /\ Rate * (t - a) \in Int
          /\ Cardinality(Since(S, w)) \in Nat
      BY <2>2, SinceFinite, RateInt, LimiterAssumption
    <2>7. Grants(k, w, now) = Since(S, w)
      BY <2>2 DEF Grants, Since, Recorded
    <2>8. Cardinality(Grants(k, w, now)) + 1 > Burst + Rate * (t - w - MaxLag)
      BY <2>2, <2>3, <2>4, <2>5, <2>6, <2>7, LimiterAssumption
    <2> QED BY <2>8 DEF k, t
  <1>2. ASSUME LimiterInv, DrainedInv, [LimiterNext]_limiterVars
        PROVE  [\A c \in Caller : Refusal(c) => Full(c)]_limiterVars
    BY <1>1, <1>2
  <1>3. LimiterInit => DrainedInv
    BY DEF LimiterInit, DrainedInv
  <1> QED
    BY <1>2, <1>3, LimiterInitially, LimiterStep, DrainedStep, PTL DEF LimiterSpec, RefusalsEarned

-----------------------------------------------------------------------------
(***************************************************************************)
(* A client that walks the audit log page by page sees all of it, newest   *)
(* first and exactly once, for every log, page size, cache lifetime, any   *)
(* number of clients and replicas, and events inserted meanwhile.          *)
(*                                                                         *)
(* That a finished walk is complete is not inductive.  What is: a page     *)
(* holds all that was below its cursor when it was read, or ends before it *)
(* (PageOK), and no page is used long after it was read; a walk under way  *)
(* has shown all there is down to its cursor (Walking).                    *)
(***************************************************************************)

LogOf(ins) == {k \in LogKey : ins[k] # None}

(* The page p was below the cursor cur and holds every event there that    *)
(* was in the log by the tick h, or ends before it.                        *)
Covers(ins, p, cur, h) ==
    \A k \in LogOf(ins) : ins[k] <= h /\ k < cur => k \in ToSet(p) \/ (p # <<>> /\ k < Last(p))

PageOK(ins, p, cur, h) ==
    /\ p \in Seq(LogKey) /\ ToSet(p) \subseteq LogOf(ins) /\ NewestFirst(p)
    /\ \A k \in ToSet(p) : k < cur
    /\ Covers(ins, p, cur, h)

(* A walk must show the log as it was one cache lifetime before it began.  *)
Horizon(rd) == rd.since - PageTTL - MaxRead

Walking(ins, rd) ==
    /\ IF rd.seen = <<>> THEN rd.cursor = NoCursor ELSE rd.cursor = Last(rd.seen)
    /\ \A k \in LogOf(ins) : ins[k] <= Horizon(rd) /\ k >= rd.cursor => k \in ToSet(rd.seen)

Shown(ins, rd) == \A k \in LogOf(ins) : ins[k] <= Horizon(rd) => k \in ToSet(rd.seen)

UnderWay == {"request", "missed", "waiting"}

Walk == [at : UnderWay \cup {"away", "done", "failed"}, cursor : Cursor,
         seen : Seq(LogKey), since : Nat]

WalkOK(ins, tick, rd) ==
    /\ rd \in Walk /\ rd.since <= tick
    /\ ToSet(rd.seen) \subseteq LogOf(ins) /\ NewestFirst(rd.seen)
    /\ rd.at \in UnderWay => Walking(ins, rd)
    /\ rd.at = "done" => Shown(ins, rd)

(* A cached page is older than its expiry by at most its lifetime and the  *)
(* time it took to get there.                                              *)
EntryOK(ins, tick, e, cur) ==
    /\ e \in [page : Seq(LogKey), until : Nat] /\ tick < e.until /\ e.until <= tick + PageTTL
    /\ PageOK(ins, e.page, cur, e.until - PageTTL - MaxRead - 1)

FlightType == [waiting : SUBSET Reader, read : Nat \cup {None}, page : Seq(LogKey)]

FlightOK(ins, tick, f, cur) ==
    /\ f \in FlightType
    /\ f.read # None => /\ f.read <= tick /\ tick <= f.read + MaxRead
                        /\ PageOK(ins, f.page, cur, f.read - 1)

(* Who waits for a query waits for this one only.                          *)
WaitersOK(readers, f, r, cur) ==
    \A c \in f.waiting : readers[c].at = "waiting" /\ readers[c].cursor = cur /\ HomeOf[c] = r

InsertedBy(ins, tick) ==
    ins \in [LogKey -> Nat \cup {None}] /\ \A k \in LogOf(ins) : ins[k] <= tick

CacheOK(ins, tick, pages) ==
    /\ pages = [cur \in Cursor |-> pages[cur]]
    /\ \A cur \in Cursor : pages[cur] # None => EntryOK(ins, tick, pages[cur], cur)

FlightsOK(ins, tick, queries, readers) ==
    /\ queries = [x \in Replicas \X Cursor |-> queries[x]]
    /\ \A r \in Replicas, cur \in Cursor : queries[<<r, cur>>] # None =>
          /\ FlightOK(ins, tick, queries[<<r, cur>>], cur)
          /\ WaitersOK(readers, queries[<<r, cur>>], r, cur)

WalksOK(ins, tick, readers) ==
    /\ readers = [c \in Reader |-> readers[c]]
    /\ \A c \in Reader : WalkOK(ins, tick, readers[c])

QueriesInv ==
    /\ clock \in Nat /\ InsertedBy(inserted, clock)
    /\ CacheOK(inserted, clock, cache)
    /\ FlightsOK(inserted, clock, flight, reader)
    /\ WalksOK(inserted, clock, reader)

-----------------------------------------------------------------------------
(* Sequences of keys.                                                      *)
LEMMA ToSetOfSeq ==
    ASSUME NEW S, NEW s \in Seq(S)
    PROVE  ToSet(s) = {s[i] : i \in 1 .. Len(s)} /\ ToSet(s) \subseteq S
  BY DEF ToSet

LEMMA EmptyWalk == ToSet(<<>>) = {} /\ NewestFirst(<<>>)
  BY DEF ToSet, NewestFirst

LEMMA LastIsLeast ==
    ASSUME NEW s \in Seq(LogKey), s # <<>>, NewestFirst(s)
    PROVE  Last(s) \in ToSet(s) /\ \A k \in ToSet(s) : k >= Last(s)
  <1>1. Len(s) \in 1 .. Len(s) /\ DOMAIN s = 1 .. Len(s) /\ LogKey \subseteq Nat
    BY QueriesAssumption
  <1>2. ASSUME NEW i \in 1 .. Len(s) PROVE s[i] \in Nat /\ s[i] >= s[Len(s)]
    <2>0. s[i] \in LogKey /\ s[Len(s)] \in LogKey
      BY <1>1
    <2>1. s[i] \in Nat /\ s[Len(s)] \in Nat
      BY <1>1, <2>0
    <2>2. i < Len(s) => s[i] > s[Len(s)]
      BY <1>1 DEF NewestFirst
    <2> QED BY <1>1, <2>1, <2>2
  <1> QED BY <1>1, <1>2, ToSetOfSeq DEF Last

LEMMA AppendPage ==
    ASSUME NEW s \in Seq(LogKey), NEW p \in Seq(LogKey), p # <<>>, NewestFirst(s), NewestFirst(p),
           s # <<>> => \A k \in ToSet(p) : k < Last(s)
    PROVE  /\ s \o p \in Seq(LogKey) /\ s \o p # <<>> /\ Last(s \o p) = Last(p)
           /\ ToSet(s \o p) = ToSet(s) \cup ToSet(p)
           /\ NewestFirst(s \o p)
  <1> DEFINE t == s \o p
             m == Len(s)
             n == Len(p)
  <1>1. /\ m \in Nat /\ n \in Nat /\ n > 0 /\ LogKey \subseteq Nat
        /\ t \in Seq(LogKey) /\ Len(t) = m + n /\ DOMAIN t = 1 .. (m + n)
        /\ DOMAIN s = 1 .. m /\ DOMAIN p = 1 .. n
        /\ \A i \in 1 .. m : t[i] = s[i] /\ s[i] \in LogKey
        /\ \A i \in 1 .. n : t[m + i] = p[i] /\ p[i] \in LogKey
    BY QueriesAssumption
  <1>2. \A i \in 1 .. (m + n) : i \in 1 .. m \/ (i - m \in 1 .. n /\ t[i] = p[i - m])
    BY <1>1
  <1> HIDE DEF t, m, n
  <1>3. t # <<>> /\ Last(t) = Last(p)
    BY <1>1, <1>2 DEF Last, n
  <1>4. ToSet(t) = ToSet(s) \cup ToSet(p)
    <2>1. ToSet(t) = {t[i] : i \in 1 .. (m + n)} /\ ToSet(s) = {s[i] : i \in 1 .. m}
          /\ ToSet(p) = {p[i] : i \in 1 .. n}
      BY <1>1 DEF ToSet
    <2>2. \A i \in 1 .. m : i \in 1 .. (m + n)
      BY <1>1
    <2>3. \A i \in 1 .. n : m + i \in 1 .. (m + n)
      BY <1>1
    <2> QED BY <1>1, <1>2, <2>1, <2>2, <2>3
  <1>5. ASSUME NEW i \in 1 .. (m + n), NEW j \in 1 .. (m + n), i < j PROVE t[i] > t[j]
    <2>1. CASE j \in 1 .. m
      <3>1. i \in 1 .. m /\ t[i] = s[i] /\ t[j] = s[j]
        BY <1>1, <1>5, <2>1
      <3> QED BY <1>1, <1>5, <2>1, <3>1 DEF NewestFirst
    <2>2. CASE i \notin 1 .. m
      <3>0. j \notin 1 .. m
        BY <1>1, <1>5, <2>2
      <3>1. i - m \in 1 .. n /\ t[i] = p[i - m] /\ j - m \in 1 .. n /\ t[j] = p[j - m]
        BY <1>2, <2>2, <3>0
      <3>2. i - m < j - m
        BY <1>1, <1>5
      <3> QED BY <1>1, <3>1, <3>2 DEF NewestFirst
    <2>3. CASE i \in 1 .. m /\ j \notin 1 .. m
      <3>0. t[i] = s[i] /\ s[i] \in ToSet(s) /\ s[i] \in LogKey
        BY <1>1, <2>3 DEF ToSet
      <3>1. s # <<>> /\ t[i] = s[i] /\ s[i] \in ToSet(s) /\ s[i] \in Nat
        BY <1>1, <3>0, <2>3, EmptyWalk
      <3>2. s[i] >= Last(s) /\ Last(s) \in ToSet(s)
        BY <3>1, LastIsLeast
      <3>3. t[j] = p[j - m] /\ p[j - m] \in ToSet(p) /\ p[j - m] \in Nat
        <4>1. j - m \in 1 .. n /\ t[j] = p[j - m]
          BY <1>1, <1>2, <2>3
        <4>2. p[j - m] \in LogKey
          BY <4>1, <1>1
        <4> QED BY <1>1, <4>1, <4>2 DEF ToSet
      <3>4. p[j - m] < Last(s) /\ Last(s) \in Nat
        BY <1>1, <3>1, <3>2, <3>3, ToSetOfSeq
      <3> QED BY <3>1, <3>2, <3>3, <3>4
    <2> QED BY <2>1, <2>2, <2>3
  <1> QED BY <1>1, <1>3, <1>4, <1>5 DEF NewestFirst, t

(* What the page query returns.                                            *)
LEMMA PageFacts ==
    ASSUME NEW keys \in SUBSET LogKey, NEW p \in PageOf(keys)
    PROVE  /\ p \in Seq(LogKey) /\ ToSet(p) \subseteq keys /\ NewestFirst(p)
           /\ \A k \in keys \ ToSet(p) : p # <<>> /\ k < Last(p)
  <1>1. PICK m \in 0 .. PageLimit : p \in [1 .. m -> keys]
    BY DEF PageOf, BoundedSeq, SeqOf
  <1>2. m \in Nat /\ p \in Seq(keys) /\ Len(p) = m
    BY <1>1, QueriesAssumption
  <1>3. p \in Seq(LogKey) /\ ToSet(p) \subseteq keys
    BY <1>2, ToSetOfSeq
  <1>4. ASSUME NEW k \in keys \ ToSet(p) PROVE p # <<>> /\ k < Last(p)
    <2>1. Len(p) = PageLimit /\ k < Last(p)
      BY DEF PageOf
    <2> QED BY <2>1, QueriesAssumption
  <1> QED BY <1>3, <1>4 DEF PageOf
-----------------------------------------------------------------------------
(* A commit of an event is later than anything a page or a walk promises.  *)
LEMMA InsertKeeps ==
    ASSUME NEW tick \in Nat, NEW ins, InsertedBy(ins, tick), NEW k \in LogKey, ins[k] = None,
           NEW ins2, ins2 = [ins EXCEPT ![k] = tick]
    PROVE  /\ InsertedBy(ins2, tick)
           /\ \A p, cur : \A h \in Int :
                 h < tick /\ PageOK(ins, p, cur, h) => PageOK(ins2, p, cur, h)
           /\ \A rd : WalkOK(ins, tick, rd) => WalkOK(ins2, tick, rd)
  <1>1. /\ LogOf(ins2) = LogOf(ins) \cup {k} /\ ins2[k] = tick
        /\ \A x \in LogOf(ins) : ins2[x] = ins[x]
        /\ InsertedBy(ins2, tick)
    BY QueriesAssumption DEF LogOf, InsertedBy
  <1>0. ASSUME NEW h \in Int, h < tick, NEW x \in LogOf(ins2), ins2[x] <= h
        PROVE  x \in LogOf(ins) /\ ins[x] <= h
    <2>1. x # k
      BY <1>0, <1>1
    <2> QED BY <1>0, <1>1, <2>1
  <1>2. ASSUME NEW p, NEW cur, NEW h \in Int, h < tick, PageOK(ins, p, cur, h)
        PROVE  PageOK(ins2, p, cur, h)
    <2>1. Covers(ins2, p, cur, h)
      BY <1>0, <1>2 DEF PageOK, Covers
    <2> QED BY <1>1, <1>2, <2>1 DEF PageOK
  <1>3. ASSUME NEW rd, WalkOK(ins, tick, rd) PROVE WalkOK(ins2, tick, rd)
    <2>1. rd.since \in Nat /\ Horizon(rd) \in Int /\ Horizon(rd) < tick
      BY <1>3, QueriesAssumption DEF WalkOK, Walk, Horizon
    <2>2. Walking(ins, rd) => Walking(ins2, rd)
      BY <1>0, <2>1 DEF Walking
    <2>3. Shown(ins, rd) => Shown(ins2, rd)
      BY <1>0, <2>1 DEF Shown
    <2> QED BY <1>1, <1>3, <2>2, <2>3 DEF WalkOK
  <1> QED BY <1>1, <1>2, <1>3

(* A page that was right of the log of one tick is right of earlier ones.  *)
LEMMA EarlierPage ==
    ASSUME NEW tick, NEW ins, InsertedBy(ins, tick), NEW p, NEW cur,
           NEW h \in Int, PageOK(ins, p, cur, h), NEW g \in Int, g <= h
    PROVE  PageOK(ins, p, cur, g)
  <1>1. ASSUME NEW k \in LogOf(ins), ins[k] <= g PROVE ins[k] <= h
    <2>1. ins[k] \in Nat
      BY DEF LogOf, InsertedBy
    <2> QED BY <1>1, <2>1
  <1> QED BY <1>1 DEF PageOK, Covers

(* A page that is recent enough takes a walk further, or ends it.          *)
LEMMA AnswerKeeps ==
    ASSUME NEW tick \in Nat, NEW ins, InsertedBy(ins, tick),
           NEW rd, WalkOK(ins, tick, rd), rd.at \in UnderWay,
           NEW p, NEW h \in Int, PageOK(ins, p, rd.cursor, h), Horizon(rd) <= h
    PROVE  WalkOK(ins, tick, Answered(rd, p))
  <1>1. /\ rd \in Walk /\ rd.since <= tick /\ Walking(ins, rd) /\ rd.seen \in Seq(LogKey)
        /\ ToSet(rd.seen) \subseteq LogOf(ins) /\ NewestFirst(rd.seen)
        /\ rd.cursor \in Cursor /\ rd.since \in Nat
    BY DEF WalkOK, Walk
  <1>2. /\ Horizon(rd) \in Int /\ Cursor \subseteq Nat /\ LogOf(ins) \subseteq LogKey
        /\ LogKey \subseteq Nat /\ \A k \in LogOf(ins) : ins[k] \in Nat
    BY <1>1, QueriesAssumption DEF Horizon, Cursor, LogOf, InsertedBy
  <1>3. ASSUME NEW k \in LogOf(ins), ins[k] <= Horizon(rd), k \notin ToSet(rd.seen)
        PROVE  k \in ToSet(p) \/ (p # <<>> /\ k < Last(p))
    <2>0. ~ (k >= rd.cursor)
      BY <1>1, <1>3 DEF Walking
    <2>1. k < rd.cursor
      <3>1. k \in Nat /\ rd.cursor \in Nat
        BY <1>1, <1>2
      <3> QED BY <2>0, <3>1
    <2>2. ins[k] <= h
      BY <1>2, <1>3
    <2> QED BY <2>1, <2>2 DEF PageOK, Covers
  <1>4. CASE p = <<>>
    <2>1. Answered(rd, p) = [rd EXCEPT !.at = "done"]
      BY <1>4 DEF Answered
    <2> DEFINE new == [rd EXCEPT !.at = "done"]
    <2>2. /\ new \in Walk /\ new.at = "done" /\ new.seen = rd.seen /\ new.since = rd.since
          /\ new.cursor = rd.cursor
      BY <1>1 DEF Walk
    <2>3. Horizon(new) = Horizon(rd)
      BY <2>2 DEF Horizon
    <2>4. Shown(ins, new)
      BY <1>3, <1>4, <2>2, <2>3, EmptyWalk DEF Shown
    <2> QED BY <1>1, <2>1, <2>2, <2>4 DEF WalkOK, UnderWay
  <1>5. CASE p # <<>>
    <2> DEFINE new == [rd EXCEPT !.at = "request", !.cursor = Last(p), !.seen = @ \o p]
    <2>1. Answered(rd, p) = new
      BY <1>5 DEF Answered
    <2>2. p \in Seq(LogKey) /\ NewestFirst(p) /\ ToSet(p) \subseteq LogOf(ins)
          /\ \A k \in ToSet(p) : k < rd.cursor
      BY DEF PageOK
    <2>3. rd.seen # <<>> => \A k \in ToSet(p) : k < Last(rd.seen)
      BY <1>1, <2>2 DEF Walking
    <2>4. /\ rd.seen \o p \in Seq(LogKey) /\ rd.seen \o p # <<>> /\ Last(rd.seen \o p) = Last(p)
          /\ ToSet(rd.seen \o p) = ToSet(rd.seen) \cup ToSet(p)
          /\ NewestFirst(rd.seen \o p)
      BY <1>1, <1>5, <2>2, <2>3, AppendPage
    <2>5. Last(p) \in LogKey
      BY <1>2, <1>5, <2>2, LastIsLeast
    <2>6. /\ new \in Walk /\ new.at = "request" /\ new.seen = rd.seen \o p
          /\ new.cursor = Last(p) /\ new.since = rd.since
      BY <1>1, <2>4, <2>5 DEF Walk, Cursor, UnderWay
    <2> HIDE DEF new
    <2>7. Horizon(new) = Horizon(rd)
      BY <2>6 DEF Horizon
    <2>8. Walking(ins, new)
      <3>1. ASSUME NEW k \in LogOf(ins), ins[k] <= Horizon(rd), k >= Last(p)
            PROVE  k \in ToSet(rd.seen) \cup ToSet(p)
        <4>1. k \in Nat /\ Last(p) \in Nat /\ ~ (k < Last(p))
          <5>1. k \in Nat /\ Last(p) \in Nat
            BY <1>2, <2>5
          <5> QED BY <3>1, <5>1
        <4> QED BY <1>3, <3>1, <4>1
      <3> QED BY <2>4, <2>6, <2>7, <3>1 DEF Walking
    <2> QED BY <1>1, <2>1, <2>2, <2>4, <2>6, <2>8 DEF WalkOK
  <1> QED BY <1>4, <1>5

LEMMA RefusalKeeps ==
    ASSUME NEW tick, NEW ins, NEW rd, WalkOK(ins, tick, rd) PROVE WalkOK(ins, tick, Refused(rd))
  <1>1. Refused(rd) \in Walk /\ Refused(rd).at = "failed" /\ Refused(rd).seen = <<>>
        /\ Refused(rd).since = rd.since
    <2>1. rd \in Walk /\ <<>> \in Seq(LogKey) /\ NoCursor \in Cursor
      BY DEF WalkOK, Cursor
    <2> QED BY <2>1 DEF Walk, Refused
  <1> QED BY <1>1, EmptyWalk DEF WalkOK, UnderWay

(* What a client does next changes nothing of what it has shown.           *)
LEMMA SameWalk ==
    ASSUME NEW tick, NEW ins, NEW rd, WalkOK(ins, tick, rd), rd.at \in UnderWay, NEW at \in UnderWay
    PROVE  WalkOK(ins, tick, [rd EXCEPT !.at = at])
  <1> DEFINE new == [rd EXCEPT !.at = at]
  <1>1. new \in Walk /\ new.at = at /\ new.seen = rd.seen /\ new.since = rd.since
        /\ new.cursor = rd.cursor
    BY DEF WalkOK, Walk
  <1> HIDE DEF new
  <1>2. Walking(ins, new)
    BY <1>1 DEF WalkOK, Walking, Horizon
  <1> QED BY <1>1, <1>2 DEF WalkOK, UnderWay, new
-----------------------------------------------------------------------------
LEMMA InitiallySound == ASSUME QueriesInit PROVE QueriesInv
  <1> USE QueriesAssumption
  <1>1. clock \in Nat /\ InsertedBy(inserted, clock)
    BY DEF QueriesInit, InsertedBy, LogOf
  <1>2. ASSUME NEW c \in Reader PROVE WalkOK(inserted, clock, reader[c])
    <2>1. /\ reader[c] = [at |-> "away", cursor |-> NoCursor, seen |-> <<>>, since |-> 0]
          /\ clock = 0
      BY DEF QueriesInit
    <2>2. <<>> \in Seq(LogKey) /\ NoCursor \in Cursor
      BY DEF Cursor
    <2>3. reader[c] \in Walk
      BY <2>1, <2>2 DEF Walk
    <2> QED BY <2>1, <2>3, EmptyWalk DEF WalkOK, UnderWay
  <1>3. \A r \in Replicas, cur \in Cursor : flight[<<r, cur>>] = None
    BY DEF QueriesInit
  <1>4. /\ CacheOK(inserted, clock, cache) /\ FlightsOK(inserted, clock, flight, reader)
        /\ WalksOK(inserted, clock, reader)
    BY <1>2, <1>3 DEF QueriesInit, CacheOK, FlightsOK, WalksOK
  <1> QED BY <1>1, <1>4 DEF QueriesInv

LEMMA InsertSound ==
    ASSUME QueriesInv, NEW k \in LogKey, Insert(k) PROVE QueriesInv'
  <1> USE QueriesAssumption
  <1>1. /\ clock \in Nat /\ InsertedBy(inserted, clock) /\ inserted[k] = None
        /\ inserted' = [inserted EXCEPT ![k] = clock]
        /\ clock' = clock /\ cache' = cache /\ flight' = flight /\ reader' = reader
    BY DEF QueriesInv, Insert
  <1>2. /\ InsertedBy(inserted', clock)
        /\ \A p, cur : \A h \in Int :
              h < clock /\ PageOK(inserted, p, cur, h) => PageOK(inserted', p, cur, h)
        /\ \A rd : WalkOK(inserted, clock, rd) => WalkOK(inserted', clock, rd)
    BY <1>1, InsertKeeps
  <1>3. ASSUME NEW e, NEW cur, EntryOK(inserted, clock, e, cur)
        PROVE  EntryOK(inserted', clock, e, cur)
    <2>1. e.until \in Nat /\ e.until <= clock + PageTTL
      BY <1>3 DEF EntryOK
    <2>2. e.until - PageTTL - MaxRead - 1 \in Int /\ e.until - PageTTL - MaxRead - 1 < clock
      BY <1>1, <2>1
    <2> QED BY <1>2, <1>3, <2>2 DEF EntryOK
  <1>4. ASSUME NEW f, NEW cur, FlightOK(inserted, clock, f, cur)
        PROVE  FlightOK(inserted', clock, f, cur)
    <2>1. f.read # None => f.read \in Nat /\ f.read - 1 \in Int /\ f.read - 1 < clock
      BY <1>1, <1>4 DEF FlightOK, FlightType
    <2> QED BY <1>2, <1>4, <2>1 DEF FlightOK
  <1>5. CacheOK(inserted, clock, cache) /\ FlightsOK(inserted, clock, flight, reader)
        /\ WalksOK(inserted, clock, reader)
    BY DEF QueriesInv
  <1>6. CacheOK(inserted', clock, cache)
    BY <1>3, <1>5 DEF CacheOK
  <1>7. FlightsOK(inserted', clock, flight, reader)
    BY <1>4, <1>5 DEF FlightsOK
  <1>8. WalksOK(inserted', clock, reader)
    BY <1>2, <1>5 DEF WalksOK
  <1> QED BY <1>1, <1>2, <1>6, <1>7, <1>8 DEF QueriesInv

(* A step of one client that does not wait for a query.                    *)
LEMMA ClientStep ==
    ASSUME QueriesInv, NEW c \in Reader, NEW new, reader[c].at # "waiting",
           reader' = [reader EXCEPT ![c] = new], WalkOK(inserted, clock, new),
           UNCHANGED <<clock, inserted, cache, flight>>
    PROVE  QueriesInv'
  <1>1. CacheOK(inserted, clock, cache) /\ FlightsOK(inserted, clock, flight, reader)
        /\ WalksOK(inserted, clock, reader)
    BY DEF QueriesInv
  <1>2. WalksOK(inserted, clock, reader')
    BY <1>1 DEF WalksOK
  <1>3. \A d \in Reader : reader[d].at = "waiting" => reader'[d] = reader[d]
    BY <1>1 DEF WalksOK
  <1>4. ASSUME NEW f, NEW r, NEW cur,
               FlightOK(inserted, clock, f, cur), WaitersOK(reader, f, r, cur)
        PROVE  WaitersOK(reader', f, r, cur)
    <2>1. f.waiting \subseteq Reader
      BY <1>4 DEF FlightOK, FlightType
    <2> QED BY <1>3, <1>4, <2>1 DEF WaitersOK
  <1>5. FlightsOK(inserted, clock, flight, reader')
    BY <1>1, <1>4 DEF FlightsOK
  <1> QED BY <1>1, <1>2, <1>5 DEF QueriesInv

LEMMA OpenSound ==
    ASSUME QueriesInv, NEW c \in Reader, Open(c) PROVE QueriesInv'
  <1> USE QueriesAssumption
  <1> DEFINE new == [at |-> "request", cursor |-> NoCursor, seen |-> <<>>, since |-> clock]
  <1>1. /\ reader[c].at = "away" /\ reader' = [reader EXCEPT ![c] = new]
        /\ UNCHANGED <<clock, inserted, cache, flight>>
    BY DEF Open
  <1>2. WalkOK(inserted, clock, new)
    <2>1. <<>> \in Seq(LogKey) /\ NoCursor \in Cursor /\ clock \in Nat
      BY DEF QueriesInv, Cursor
    <2>2. new \in Walk
      BY <2>1 DEF Walk, UnderWay
    <2>3. Walking(inserted, new)
      BY DEF Walking, LogOf
    <2> QED BY <2>1, <2>2, <2>3, EmptyWalk DEF WalkOK
  <1> HIDE DEF new
  <1> QED BY <1>1, <1>2, ClientStep

LEMMA HitSound ==
    ASSUME QueriesInv, NEW c \in Reader, Hit(c) PROVE QueriesInv'
  <1> USE QueriesAssumption
  <1> DEFINE cur == reader[c].cursor
             e == cache[cur]
             new == Answered(reader[c], e.page)
  <1>1. /\ reader[c].at = "request" /\ e # None /\ reader' = [reader EXCEPT ![c] = new]
        /\ UNCHANGED <<clock, inserted, cache, flight>>
    BY DEF Hit
  <1>2. /\ clock \in Nat /\ InsertedBy(inserted, clock) /\ WalkOK(inserted, clock, reader[c])
        /\ reader[c] \in Walk
    BY DEF QueriesInv, WalksOK, WalkOK
  <1>3. cur \in Cursor /\ reader[c].since \in Nat /\ reader[c].since <= clock
    BY <1>2 DEF Walk, WalkOK
  <1>4. EntryOK(inserted, clock, e, cur)
    BY <1>1, <1>3 DEF QueriesInv, CacheOK
  <1>5. e.until \in Nat /\ clock < e.until
        /\ PageOK(inserted, e.page, cur, e.until - PageTTL - MaxRead - 1)
    BY <1>4 DEF EntryOK
  <1>6. e.until - PageTTL - MaxRead - 1 \in Int
        /\ Horizon(reader[c]) <= e.until - PageTTL - MaxRead - 1
    BY <1>2, <1>3, <1>5 DEF Horizon
  <1>7. WalkOK(inserted, clock, new)
    BY <1>1, <1>2, <1>5, <1>6, AnswerKeeps DEF UnderWay
  <1> HIDE DEF new
  <1> QED BY <1>1, <1>7, ClientStep

LEMMA MissSound ==
    ASSUME QueriesInv, NEW c \in Reader, Miss(c) PROVE QueriesInv'
  <1> DEFINE new == [reader[c] EXCEPT !.at = "missed"]
  <1>1. /\ reader[c].at = "request" /\ reader' = [reader EXCEPT ![c] = new]
        /\ UNCHANGED <<clock, inserted, cache, flight>>
    BY DEF Miss
  <1>2. WalkOK(inserted, clock, new)
    BY <1>1, SameWalk DEF QueriesInv, WalksOK, UnderWay
  <1> HIDE DEF new
  <1> QED BY <1>1, <1>2, ClientStep

(* A client that joins waits for the query of its own cursor.              *)
LEMMA JoinSound ==
    ASSUME QueriesInv, NEW c \in Reader, Join(c) PROVE QueriesInv'
  <1> USE QueriesAssumption
  <1> DEFINE cur == reader[c].cursor
             x == <<HomeOf[c], cur>>
             old == flight[x]
             query == IF old = None THEN [waiting |-> {c}, read |-> None, page |-> <<>>]
                      ELSE [old EXCEPT !.waiting = @ \cup {c}]
             new == [reader[c] EXCEPT !.at = "waiting"]
  <1>1. /\ reader[c].at = "missed" /\ reader' = [reader EXCEPT ![c] = new]
        /\ flight' = [flight EXCEPT ![x] = query]
        /\ UNCHANGED <<clock, inserted, cache>>
    BY DEF Join
  <1>2. /\ CacheOK(inserted, clock, cache) /\ FlightsOK(inserted, clock, flight, reader)
        /\ WalksOK(inserted, clock, reader) /\ reader[c] \in Walk
    BY DEF QueriesInv, WalksOK, WalkOK
  <1>3. WalkOK(inserted, clock, new) /\ new.at = "waiting" /\ new.cursor = cur
    BY <1>1, <1>2, SameWalk DEF WalksOK, UnderWay, Walk
  <1>4. HomeOf[c] \in Replicas /\ cur \in Cursor
    BY <1>2 DEF Replicas, Walk
  <1> HIDE DEF new
  <1>5. WalksOK(inserted, clock, reader')
    BY <1>1, <1>2, <1>3 DEF WalksOK
  <1>6. reader'[c] = new /\ \A d \in Reader : reader[d].at = "waiting" => reader'[d] = reader[d]
    BY <1>1, <1>2 DEF WalksOK
  <1>7. ASSUME NEW f, NEW r, NEW u, FlightOK(inserted, clock, f, u), WaitersOK(reader, f, r, u)
        PROVE  WaitersOK(reader', f, r, u)
    <2>1. f.waiting \subseteq Reader
      BY <1>7 DEF FlightOK, FlightType
    <2> QED BY <1>6, <1>7, <2>1 DEF WaitersOK
  <1>8. FlightOK(inserted, clock, query, cur) /\ WaitersOK(reader', query, HomeOf[c], cur)
    <2>1. CASE old = None
      <3>1. query = [waiting |-> {c}, read |-> None, page |-> <<>>] /\ <<>> \in Seq(LogKey)
        BY <2>1
      <3>2. /\ query \in FlightType /\ query.waiting = {c} /\ query.read = None
        BY <3>1 DEF FlightType
      <3> QED BY <1>3, <1>6, <3>2 DEF FlightOK, WaitersOK
    <2>2. CASE old # None
      <3>1. FlightOK(inserted, clock, old, cur) /\ WaitersOK(reader, old, HomeOf[c], cur)
        BY <1>2, <1>4, <2>2 DEF FlightsOK
      <3>2. WaitersOK(reader', old, HomeOf[c], cur)
        BY <1>7, <3>1
      <3>3. /\ query \in FlightType /\ query.waiting = old.waiting \cup {c}
            /\ query.read = old.read /\ query.page = old.page
        BY <2>2, <3>1 DEF FlightOK, FlightType
      <3> QED BY <1>3, <1>6, <3>1, <3>2, <3>3 DEF FlightOK, WaitersOK
    <2> QED BY <2>1, <2>2
  <1> HIDE DEF query
  <1>9. FlightsOK(inserted, clock, flight', reader')
    <2>1. flight' = [y \in Replicas \X Cursor |-> flight'[y]]
      BY <1>1, <1>2 DEF FlightsOK
    <2>2. ASSUME NEW r \in Replicas, NEW u \in Cursor, flight'[<<r, u>>] # None
          PROVE  FlightOK(inserted, clock, flight'[<<r, u>>], u)
                 /\ WaitersOK(reader', flight'[<<r, u>>], r, u)
      <3>1. CASE <<r, u>> = x
        BY <1>1, <1>2, <1>4, <1>8, <3>1 DEF FlightsOK
      <3>2. CASE <<r, u>> # x
        <4>1. flight'[<<r, u>>] = flight[<<r, u>>]
          BY <1>1, <1>2, <3>2 DEF FlightsOK
        <4> QED BY <1>2, <1>7, <2>2, <4>1 DEF FlightsOK
      <3> QED BY <3>1, <3>2
    <2> QED BY <2>1, <2>2 DEF FlightsOK
  <1> QED BY <1>1, <1>2, <1>5, <1>9 DEF QueriesInv

LEMMA ReadPageSound ==
    ASSUME QueriesInv, NEW r \in Replicas, NEW cur \in Cursor, ReadPage(r, cur) PROVE QueriesInv'
  <1> USE QueriesAssumption
  <1> DEFINE x == <<r, cur>>
             old == flight[x]
  <1>1. PICK page \in PageBelow(cur) :
          flight' = [flight EXCEPT ![x] = [old EXCEPT !.read = clock, !.page = page]]
    BY DEF ReadPage
  <1> DEFINE query == [old EXCEPT !.read = clock, !.page = page]
  <1>2. /\ old # None /\ old.read = None /\ flight' = [flight EXCEPT ![x] = query]
        /\ UNCHANGED <<clock, inserted, cache, reader>>
    BY <1>1 DEF ReadPage
  <1>3. /\ clock \in Nat /\ InsertedBy(inserted, clock)
        /\ CacheOK(inserted, clock, cache) /\ FlightsOK(inserted, clock, flight, reader)
        /\ WalksOK(inserted, clock, reader)
    BY DEF QueriesInv
  <1>4. PageOK(inserted, page, cur, clock - 1) /\ page \in Seq(LogKey)
    <2> DEFINE keys == {k \in Log : k < cur}
    <2>1. keys \in SUBSET LogKey /\ keys \subseteq LogOf(inserted)
      BY DEF Log, LogOf
    <2>2. page \in PageOf(keys) /\ \A k \in keys : k < cur
      BY DEF PageBelow
    <2>3. /\ page \in Seq(LogKey) /\ ToSet(page) \subseteq keys /\ NewestFirst(page)
          /\ \A k \in keys \ ToSet(page) : page # <<>> /\ k < Last(page)
      BY <2>1, <2>2, PageFacts
    <2>4. Covers(inserted, page, cur, clock - 1)
      BY <2>3 DEF Covers, Log, LogOf
    <2> HIDE DEF keys
    <2> QED BY <2>1, <2>2, <2>3, <2>4 DEF PageOK
  <1>5. FlightOK(inserted, clock, old, cur) /\ WaitersOK(reader, old, r, cur)
    BY <1>2, <1>3 DEF FlightsOK
  <1>6. /\ query \in FlightType /\ query.waiting = old.waiting
        /\ query.read = clock /\ query.page = page
    BY <1>3, <1>4, <1>5 DEF FlightOK, FlightType
  <1> HIDE DEF query
  <1>7. FlightOK(inserted, clock, query, cur) /\ WaitersOK(reader, query, r, cur)
    BY <1>3, <1>4, <1>5, <1>6 DEF FlightOK, WaitersOK
  <1>8. FlightsOK(inserted, clock, flight', reader)
    <2>1. flight' = [y \in Replicas \X Cursor |-> flight'[y]]
      BY <1>2, <1>3 DEF FlightsOK
    <2>2. ASSUME NEW q \in Replicas, NEW u \in Cursor, flight'[<<q, u>>] # None
          PROVE  FlightOK(inserted, clock, flight'[<<q, u>>], u)
                 /\ WaitersOK(reader, flight'[<<q, u>>], q, u)
      <3>1. CASE q = r /\ u = cur
        <4>1. flight'[<<q, u>>] = query
          BY <1>2, <1>3, <3>1 DEF FlightsOK
        <4> QED BY <1>7, <3>1, <4>1
      <3>2. CASE ~ (q = r /\ u = cur)
        <4>1. flight'[<<q, u>>] = flight[<<q, u>>]
          BY <1>2, <1>3, <3>2 DEF FlightsOK
        <4> QED BY <1>3, <2>2, <4>1 DEF FlightsOK
      <3> QED BY <3>1, <3>2
    <2> QED BY <2>1, <2>2 DEF FlightsOK
  <1> QED BY <1>2, <1>3, <1>8 DEF QueriesInv

(* A query that ends releases its own callers and nobody else.             *)
LEMMA QueryEnds ==
    ASSUME QueriesInv, NEW r \in Replicas, NEW cur \in Cursor, flight[<<r, cur>>] # None, NEW next,
           \A c \in flight[<<r, cur>>].waiting : WalkOK(inserted, clock, next[c]),
           reader' = [c \in Reader |-> IF c \in flight[<<r, cur>>].waiting
                                       THEN next[c] ELSE reader[c]],
           flight' = [flight EXCEPT ![<<r, cur>>] = None]
    PROVE  FlightsOK(inserted, clock, flight', reader') /\ WalksOK(inserted, clock, reader')
  <1> DEFINE gone == flight[<<r, cur>>].waiting
  <1>1. FlightsOK(inserted, clock, flight, reader) /\ WalksOK(inserted, clock, reader)
    BY DEF QueriesInv
  <1>2. FlightOK(inserted, clock, flight[<<r, cur>>], cur)
        /\ WaitersOK(reader, flight[<<r, cur>>], r, cur)
    BY <1>1 DEF FlightsOK
  <1>3. /\ gone \subseteq Reader /\ \A c \in gone : WalkOK(inserted, clock, next[c])
        /\ \A c \in gone : reader[c].cursor = cur /\ HomeOf[c] = r
        /\ reader' = [c \in Reader |-> IF c \in gone THEN next[c] ELSE reader[c]]
    BY <1>2 DEF FlightOK, FlightType, WaitersOK
  <1> HIDE DEF gone
  <1>4. WalksOK(inserted, clock, reader')
    BY <1>1, <1>3 DEF WalksOK
  <1>5. flight' = [y \in Replicas \X Cursor |-> flight'[y]]
    BY <1>1 DEF FlightsOK
  <1>6. ASSUME NEW q \in Replicas, NEW u \in Cursor, flight'[<<q, u>>] # None
        PROVE  FlightOK(inserted, clock, flight'[<<q, u>>], u)
               /\ WaitersOK(reader', flight'[<<q, u>>], q, u)
    <2> DEFINE f == flight[<<q, u>>]
    <2>1. ~ (q = r /\ u = cur) /\ flight'[<<q, u>>] = f
      BY <1>1, <1>6 DEF FlightsOK
    <2>2. FlightOK(inserted, clock, f, u) /\ WaitersOK(reader, f, q, u)
      BY <1>1, <1>6, <2>1 DEF FlightsOK
    <2> HIDE DEF f
    <2>3. ASSUME NEW c \in f.waiting PROVE c \in Reader /\ reader'[c] = reader[c]
      <3>1. c \in Reader /\ reader[c].cursor = u /\ HomeOf[c] = q
        BY <2>2 DEF FlightOK, FlightType, WaitersOK
      <3>2. c \notin gone
        BY <1>3, <2>1, <3>1
      <3> QED BY <1>3, <3>1, <3>2
    <2> QED BY <2>1, <2>2, <2>3 DEF WaitersOK
  <1> QED BY <1>4, <1>5, <1>6 DEF FlightsOK

LEMMA LandSound ==
    ASSUME QueriesInv, NEW r \in Replicas, NEW cur \in Cursor, Land(r, cur) PROVE QueriesInv'
  <1> USE QueriesAssumption
  <1> DEFINE f == flight[<<r, cur>>]
             next == [c \in Reader |-> Answered(reader[c], f.page)]
             entry == [page |-> f.page, until |-> clock + PageTTL]
  <1>1. /\ f # None /\ f.read # None
        /\ cache' = [cache EXCEPT ![cur] = entry] \/ cache' = cache
        /\ clock' = clock /\ inserted' = inserted
        /\ flight' = [flight EXCEPT ![<<r, cur>>] = None]
        /\ reader' = [c \in Reader |-> IF c \in f.waiting
                                       THEN Answered(reader[c], f.page) ELSE reader[c]]
    BY DEF Land
  <1>2. /\ clock \in Nat /\ InsertedBy(inserted, clock)
        /\ CacheOK(inserted, clock, cache) /\ FlightsOK(inserted, clock, flight, reader)
        /\ WalksOK(inserted, clock, reader)
    BY DEF QueriesInv
  <1>3. FlightOK(inserted, clock, f, cur) /\ WaitersOK(reader, f, r, cur)
    BY <1>1, <1>2 DEF FlightsOK
  <1> HIDE DEF f
  <1>4. /\ f.read \in Nat /\ f.read <= clock /\ clock <= f.read + MaxRead
        /\ PageOK(inserted, f.page, cur, f.read - 1) /\ f.page \in Seq(LogKey)
        /\ f.waiting \subseteq Reader
    BY <1>1, <1>3 DEF FlightOK, FlightType
  <1>5. ASSUME NEW c \in f.waiting PROVE WalkOK(inserted, clock, next[c])
    <2>1. /\ c \in Reader /\ WalkOK(inserted, clock, reader[c]) /\ reader[c] \in Walk
          /\ reader[c].at = "waiting" /\ reader[c].cursor = cur
      BY <1>2, <1>3, <1>4 DEF WalksOK, WaitersOK, WalkOK
    <2>2. Horizon(reader[c]) <= f.read - 1 /\ f.read - 1 \in Int
      <3>1. reader[c].since \in Nat /\ reader[c].since <= clock
        BY <2>1 DEF Walk, WalkOK
      <3>2. Horizon(reader[c]) = reader[c].since - PageTTL - MaxRead
        BY DEF Horizon
      <3>3. reader[c].since <= f.read + MaxRead
        BY <1>2, <1>4, <3>1
      <3>4. PageTTL \in Nat /\ PageTTL > 0 /\ MaxRead \in Nat
        OBVIOUS
      <3> QED BY <1>4, <3>1, <3>2, <3>3, <3>4
    <2>3. WalkOK(inserted, clock, Answered(reader[c], f.page))
      BY <1>2, <1>4, <2>1, <2>2, AnswerKeeps DEF UnderWay
    <2> QED BY <2>1, <2>3
  <1>6. reader' = [c \in Reader |-> IF c \in f.waiting THEN next[c] ELSE reader[c]]
    BY <1>1
  <1> HIDE DEF next
  <1>7. FlightsOK(inserted, clock, flight', reader') /\ WalksOK(inserted, clock, reader')
    <2>1. \A c \in flight[<<r, cur>>].waiting : WalkOK(inserted, clock, next[c])
      BY <1>5 DEF f
    <2>2. /\ flight[<<r, cur>>] # None
          /\ reader' = [c \in Reader |-> IF c \in flight[<<r, cur>>].waiting
                                         THEN next[c] ELSE reader[c]]
      BY <1>1, <1>6 DEF f
    <2>3. flight' = [flight EXCEPT ![<<r, cur>>] = None]
      BY <1>1
    <2> QED BY <2>1, <2>2, <2>3, QueryEnds
  <1>8. EntryOK(inserted, clock, entry, cur)
    <2>1. entry \in [page : Seq(LogKey), until : Nat] /\ entry.page = f.page
          /\ entry.until = clock + PageTTL
      BY <1>2, <1>4
    <2>2. clock < entry.until
      BY <1>2, <2>1
    <2>3. PageOK(inserted, f.page, cur, entry.until - PageTTL - MaxRead - 1)
      <3>1. entry.until - PageTTL - MaxRead - 1 \in Int
            /\ entry.until - PageTTL - MaxRead - 1 <= f.read - 1
        BY <1>2, <1>4, <2>1
      <3> QED BY <1>2, <1>4, <3>1, EarlierPage
    <2> QED BY <1>2, <2>1, <2>2, <2>3 DEF EntryOK
  <1> HIDE DEF entry
  <1>9. CacheOK(inserted, clock, cache')
    BY <1>1, <1>2, <1>8 DEF CacheOK
  <1> QED BY <1>1, <1>2, <1>7, <1>9 DEF QueriesInv

LEMMA AbortSound ==
    ASSUME QueriesInv, NEW r \in Replicas, NEW cur \in Cursor, Abort(r, cur) PROVE QueriesInv'
  <1> DEFINE f == flight[<<r, cur>>]
             next == [c \in Reader |-> Refused(reader[c])]
  <1>1. /\ f # None /\ UNCHANGED <<clock, inserted, cache>>
        /\ flight' = [flight EXCEPT ![<<r, cur>>] = None]
        /\ reader' = [c \in Reader |-> IF c \in f.waiting THEN Refused(reader[c]) ELSE reader[c]]
    BY DEF Abort
  <1>2. /\ clock \in Nat /\ InsertedBy(inserted, clock)
        /\ CacheOK(inserted, clock, cache) /\ FlightsOK(inserted, clock, flight, reader)
        /\ WalksOK(inserted, clock, reader)
    BY DEF QueriesInv
  <1>3. f.waiting \subseteq Reader
    BY <1>1, <1>2 DEF FlightsOK, FlightOK, FlightType
  <1>4. \A c \in f.waiting : WalkOK(inserted, clock, next[c])
    BY <1>2, <1>3, RefusalKeeps DEF WalksOK
  <1>5. reader' = [c \in Reader |-> IF c \in f.waiting THEN next[c] ELSE reader[c]]
    BY <1>1
  <1> HIDE DEF next
  <1>6. FlightsOK(inserted, clock, flight', reader') /\ WalksOK(inserted, clock, reader')
    BY <1>1, <1>4, <1>5, QueryEnds
  <1> QED BY <1>1, <1>2, <1>6 DEF QueriesInv

(* Time makes a cached page expire and a query slow, and no page wrong.    *)
LEMMA ClockTickSound == ASSUME QueriesInv, ClockTick PROVE QueriesInv'
  <1> USE QueriesAssumption
  <1>1. /\ clock \in Nat /\ InsertedBy(inserted, clock)
        /\ CacheOK(inserted, clock, cache) /\ FlightsOK(inserted, clock, flight, reader)
        /\ WalksOK(inserted, clock, reader)
    BY DEF QueriesInv
  <1>2. /\ clock' = clock + 1 /\ clock' \in Nat
        /\ inserted' = inserted /\ flight' = flight /\ reader' = reader
    BY <1>1 DEF ClockTick
  <1>3. InsertedBy(inserted, clock')
    BY <1>1, <1>2 DEF InsertedBy, LogOf
  <1>4. CacheOK(inserted, clock', cache')
    <2>1. /\ cache' = [cur \in Cursor |-> cache'[cur]]
          /\ \A cur \in Cursor : cache'[cur] # None =>
                cache'[cur] = cache[cur] /\ cache[cur] # None /\ clock' < cache[cur].until
      BY DEF ClockTick
    <2>2. ASSUME NEW e, NEW cur, EntryOK(inserted, clock, e, cur), clock' < e.until
          PROVE  EntryOK(inserted, clock', e, cur)
      BY <1>1, <1>2, <2>2 DEF EntryOK
    <2> QED BY <1>1, <2>1, <2>2 DEF CacheOK
  <1>5. FlightsOK(inserted, clock', flight, reader)
    <2>1. ASSUME NEW r \in Replicas, NEW cur \in Cursor, flight[<<r, cur>>] # None
          PROVE  FlightOK(inserted, clock', flight[<<r, cur>>], cur)
                 /\ WaitersOK(reader, flight[<<r, cur>>], r, cur)
      <3> DEFINE f == flight[<<r, cur>>]
      <3>1. FlightOK(inserted, clock, f, cur) /\ WaitersOK(reader, f, r, cur)
        BY <1>1, <2>1 DEF FlightsOK
      <3>2. f.read # None => clock < f.read + MaxRead
        BY <2>1 DEF ClockTick
      <3> HIDE DEF f
      <3>3. FlightOK(inserted, clock', f, cur)
        BY <1>1, <1>2, <3>1, <3>2 DEF FlightOK, FlightType
      <3> QED BY <3>1, <3>3 DEF f
    <2> QED BY <1>1, <2>1 DEF FlightsOK
  <1>6. WalksOK(inserted, clock', reader)
    <2>1. ASSUME NEW rd, WalkOK(inserted, clock, rd) PROVE WalkOK(inserted, clock', rd)
      BY <1>1, <1>2, <2>1 DEF WalkOK, Walk
    <2> QED BY <1>1, <2>1 DEF WalksOK
  <1> QED BY <1>2, <1>3, <1>4, <1>5, <1>6 DEF QueriesInv

-----------------------------------------------------------------------------
(* A walk of the audit log that runs to its end shows every event that was *)
(* in the log one cache lifetime before the walk began, newest first and   *)
(* once, and nothing else, whatever was inserted meanwhile, and whichever  *)
(* pages came from the cache, from the client's own query or from another  *)
(* client's (QueryEvents and QueryService.Query).                          *)
THEOREM WalksAreComplete == QueriesSpec => []WalkComplete
  <1>1. QueriesInit => QueriesInv
    BY InitiallySound
  <1>2. QueriesInv /\ [QueriesNext]_queryVars => QueriesInv'
    <2> SUFFICES ASSUME QueriesInv, [QueriesNext]_queryVars PROVE QueriesInv'
      OBVIOUS
    <2>1. ASSUME NEW k \in LogKey, Insert(k) PROVE QueriesInv'
      BY <2>1, InsertSound
    <2>2. ASSUME NEW c \in Reader, Open(c) PROVE QueriesInv'
      BY <2>2, OpenSound
    <2>3. ASSUME NEW c \in Reader, Hit(c) PROVE QueriesInv'
      BY <2>3, HitSound
    <2>4. ASSUME NEW c \in Reader, Miss(c) PROVE QueriesInv'
      BY <2>4, MissSound
    <2>5. ASSUME NEW c \in Reader, Join(c) PROVE QueriesInv'
      BY <2>5, JoinSound
    <2>6. ASSUME NEW r \in Replicas, NEW cur \in Cursor, ReadPage(r, cur) PROVE QueriesInv'
      BY <2>6, ReadPageSound
    <2>7. ASSUME NEW r \in Replicas, NEW cur \in Cursor, Land(r, cur) PROVE QueriesInv'
      BY <2>7, LandSound
    <2>8. ASSUME NEW r \in Replicas, NEW cur \in Cursor, Abort(r, cur) PROVE QueriesInv'
      BY <2>8, AbortSound
    <2>9. CASE ClockTick
      BY <2>9, ClockTickSound
    <2>10. CASE UNCHANGED queryVars
      BY <2>10 DEF QueriesInv, queryVars
    <2> QED BY <2>1, <2>2, <2>3, <2>4, <2>5, <2>6, <2>7, <2>8, <2>9, <2>10 DEF QueriesNext
  <1>3. QueriesInv => WalkComplete
    BY DEF QueriesInv, WalksOK, WalkOK, WalkComplete, Shown, Horizon, Log, LogOf
  <1> QED BY <1>1, <1>2, <1>3, PTL DEF QueriesSpec

-----------------------------------------------------------------------------
(***************************************************************************)
(* The planner returns trees.  In Go the AST is a pointer graph: that it   *)
(* is a tree, with no node shared and none its own descendant, is what the *)
(* parser's steps preserve (HeapOK).  The plan lists the operations of the *)
(* tree in post-order (OrderOK).                                           *)
(***************************************************************************)

(* Every set of natural numbers has a least element: inductions below are  *)
(* arguments about a least counterexample.                                 *)
LEMMA LeastNat ==
  ASSUME NEW S \in SUBSET Nat, S # {}
  PROVE  \E n \in S : \A m \in S : n <= m
<1>1. PICK n \in S : \A m \in S : ~ (<<m, n>> \in OpToRel(<, Nat))
  BY WFMin, NatLessThanWellFounded, Zenon
<1>2. \A m \in S : ~ (m < n)
  BY <1>1, Zenon DEF OpToRel
<1> QED
  BY <1>2

(* Induction up to a number, over a set instead of a predicate.            *)
LEMMA Upwards ==
  ASSUME NEW m \in Nat, NEW S, 0 \in S, \A k \in 1 .. m : k - 1 \in S => k \in S
  PROVE  m \in S
<1> DEFINE Missing == {k \in 0 .. m : k \notin S}
<1>1. SUFFICES ASSUME Missing # {} PROVE FALSE
  OBVIOUS
<1>2. PICK k \in Missing : \A j \in Missing : k <= j
  <2>1. Missing \in SUBSET Nat
    OBVIOUS
  <2> QED
    BY <1>1, <2>1, LeastNat
<1>3. k \in 1 .. m /\ k - 1 \in 0 .. m /\ ~ (k <= k - 1)
  BY <1>2
<1> QED
  BY <1>2, <1>3

-----------------------------------------------------------------------------
(* The prover does not take these characters in arithmetic leaves.         *)
LEMMA Signs == Minus \in Binary /\ NoOp \notin Binary
BY Zenon DEF Minus, NoOp, Binary

Inner == {n \in DOMAIN nodes : ~ IsLeaf(n)}
Kids(n) == {nodes[n].left, nodes[n].right}
NodeRec == [op : {NoOp}, at : Nat] \cup [op : Binary, left : Nat, right : Nat]

(* A node is the operand of one operation at most, and what is on the      *)
(* operand stack is nobody's operand yet.                                  *)
HeapOK ==
    /\ nodes \in Seq(NodeRec)
    /\ operands \in Seq(Nat)
    /\ \A n \in Inner : Kids(n) \subseteq 1 .. n - 1 /\ nodes[n].left # nodes[n].right
    /\ \A m, n \in Inner : m # n => Kids(m) \cap Kids(n) = {}
    /\ \A i \in DOMAIN operands :
          operands[i] \in DOMAIN nodes /\ \A n \in Inner : operands[i] \notin Kids(n)
    /\ \A i, j \in DOMAIN operands : i # j => operands[i] # operands[j]

(* The recursions over the heap end: every node points to nodes allocated  *)
(* before it.                                                              *)
LEMMA PostOrderDef ==
  ASSUME HeapOK
  PROVE  PostOrder = [n \in DOMAIN nodes |->
                         IF IsLeaf(n) THEN <<>>
                         ELSE PostOrder[nodes[n].left] \o PostOrder[nodes[n].right] \o <<n>>]
<1> DEFINE Ext(f, n) == IF IsLeaf(n) THEN <<>> ELSE f[nodes[n].left] \o f[nodes[n].right] \o <<n>>
           Order(f, m) == f = [n \in 1 .. m |-> Ext(f, n)]
           Defined == {m \in 0 .. Len(nodes) : \E f : Order(f, m)}
<1> HIDE DEF Ext, Order
<1>1. Len(nodes) \in Nat /\ DOMAIN nodes = 1 .. Len(nodes)
  BY DEF HeapOK
<1>2. 0 \in Defined
  <2> DEFINE e == [n \in 1 .. 0 |-> Ext(<<>>, n)]
  <2>1. e = [n \in 1 .. 0 |-> Ext(e, n)]
    OBVIOUS
  <2> HIDE DEF e
  <2>2. Order(e, 0)
    BY <2>1 DEF Order
  <2> QED
    BY <1>1, <2>2
<1>3. ASSUME NEW m \in 1 .. Len(nodes), m - 1 \in Defined
      PROVE  m \in Defined
  <2>1. PICK f : Order(f, m - 1)
    BY <1>3
  <2> DEFINE g == [n \in 1 .. m |-> IF n = m THEN Ext(f, m) ELSE f[n]]
  <2>2. ASSUME NEW n \in 1 .. m PROVE g[n] = Ext(g, n)
    <3>1. n \in DOMAIN nodes /\ n \in Nat /\ m \in Nat
      BY <1>1
    <3>2. g[n] = Ext(f, n)
      <4>1. CASE n = m
        BY <4>1
      <4>2. CASE n # m
        <5>1. n \in 1 .. m - 1
          BY <3>1, <4>2
        <5> QED
          BY <2>1, <4>2, <5>1 DEF Order
      <4> QED
        BY <4>1, <4>2
    <3>3. CASE IsLeaf(n)
      BY <3>2, <3>3 DEF Ext
    <3>4. CASE ~ IsLeaf(n)
      <4>1. nodes[n].left \in 1 .. n - 1 /\ nodes[n].right \in 1 .. n - 1
        BY <3>1, <3>4 DEF HeapOK, Inner, Kids
      <4>2. g[nodes[n].left] = f[nodes[n].left] /\ g[nodes[n].right] = f[nodes[n].right]
        BY <3>1, <4>1
      <4> QED
        BY <3>2, <3>4, <4>2 DEF Ext
    <3> QED
      BY <3>3, <3>4
  <2>3. Order(g, m)
    <3>1. g = [n \in 1 .. m |-> g[n]]
      OBVIOUS
    <3> HIDE DEF g
    <3> QED
      BY <2>2, <3>1 DEF Order
  <2> QED
    BY <1>1, <2>3
<1>4. PICK f : Order(f, Len(nodes))
  <2> HIDE DEF Defined
  <2>1. Len(nodes) \in Defined
    BY <1>1, <1>2, <1>3, Upwards
  <2> QED
    BY <2>1 DEF Defined
<1>5. f = [n \in DOMAIN nodes |-> Ext(f, n)]
  BY <1>1, <1>4 DEF Order
<1> QED
  BY <1>5, Zenon DEF PostOrder, Ext

LEMMA TreeDef ==
  ASSUME HeapOK
  PROVE  Tree = [n \in DOMAIN nodes |->
                    IF IsLeaf(n) THEN nodes[n]
                    ELSE Node(nodes[n].op, Tree[nodes[n].left], Tree[nodes[n].right])]
<1> DEFINE Ext(f, n) == IF IsLeaf(n) THEN nodes[n]
                        ELSE Node(nodes[n].op, f[nodes[n].left], f[nodes[n].right])
           Order(f, m) == f = [n \in 1 .. m |-> Ext(f, n)]
           Defined == {m \in 0 .. Len(nodes) : \E f : Order(f, m)}
<1> HIDE DEF Ext, Order
<1>1. Len(nodes) \in Nat /\ DOMAIN nodes = 1 .. Len(nodes)
  BY DEF HeapOK
<1>2. 0 \in Defined
  <2> DEFINE e == [n \in 1 .. 0 |-> Ext(<<>>, n)]
  <2>1. e = [n \in 1 .. 0 |-> Ext(e, n)]
    OBVIOUS
  <2> HIDE DEF e
  <2>2. Order(e, 0)
    BY <2>1 DEF Order
  <2> QED
    BY <1>1, <2>2
<1>3. ASSUME NEW m \in 1 .. Len(nodes), m - 1 \in Defined
      PROVE  m \in Defined
  <2>1. PICK f : Order(f, m - 1)
    BY <1>3
  <2> DEFINE g == [n \in 1 .. m |-> IF n = m THEN Ext(f, m) ELSE f[n]]
  <2>2. ASSUME NEW n \in 1 .. m PROVE g[n] = Ext(g, n)
    <3>1. n \in DOMAIN nodes /\ n \in Nat /\ m \in Nat
      BY <1>1
    <3>2. g[n] = Ext(f, n)
      <4>1. CASE n = m
        BY <4>1
      <4>2. CASE n # m
        <5>1. n \in 1 .. m - 1
          BY <3>1, <4>2
        <5> QED
          BY <2>1, <4>2, <5>1 DEF Order
      <4> QED
        BY <4>1, <4>2
    <3>3. CASE IsLeaf(n)
      BY <3>2, <3>3 DEF Ext
    <3>4. CASE ~ IsLeaf(n)
      <4>1. nodes[n].left \in 1 .. n - 1 /\ nodes[n].right \in 1 .. n - 1
        BY <3>1, <3>4 DEF HeapOK, Inner, Kids
      <4>2. g[nodes[n].left] = f[nodes[n].left] /\ g[nodes[n].right] = f[nodes[n].right]
        BY <3>1, <4>1
      <4> QED
        BY <3>2, <3>4, <4>2 DEF Ext
    <3> QED
      BY <3>3, <3>4
  <2>3. Order(g, m)
    <3>1. g = [n \in 1 .. m |-> g[n]]
      OBVIOUS
    <3> HIDE DEF g
    <3> QED
      BY <2>2, <3>1 DEF Order
  <2> QED
    BY <1>1, <2>3
<1>4. PICK f : Order(f, Len(nodes))
  <2> HIDE DEF Defined
  <2>1. Len(nodes) \in Defined
    BY <1>1, <1>2, <1>3, Upwards
  <2> QED
    BY <2>1 DEF Defined
<1>5. f = [n \in DOMAIN nodes |-> Ext(f, n)]
  BY <1>1, <1>4 DEF Order
<1> QED
  BY <1>5, Zenon DEF Tree, Ext

(* What the planner appends for a node: its operations, each once, each    *)
(* after its operands, and each but the last for the operation above it.   *)
OrderOK(n, s) ==
    /\ s \in Seq(Nat)
    /\ \A i \in DOMAIN s : s[i] \in Inner /\ s[i] <= n
    /\ \A i, j \in DOMAIN s : s[i] = s[j] => i = j
    /\ \A i \in DOMAIN s : \A c \in Kids(s[i]) \cap Inner : \E j \in DOMAIN s : j < i /\ s[j] = c
    /\ \A i \in DOMAIN s : s[i] # n => \E j \in DOMAIN s : s[i] \in Kids(s[j])
    /\ IF n \in Inner THEN s # <<>> /\ s[Len(s)] = n ELSE s = <<>>

(* The two operands of an operation have no operation in common: the       *)
(* operation above the highest common one would be common too.             *)
LEMMA OperandsApart ==
  ASSUME HeapOK, NEW n \in Inner, NEW a, NEW b,
         OrderOK(nodes[n].left, a), OrderOK(nodes[n].right, b)
  PROVE  \A i \in DOMAIN a, j \in DOMAIN b : a[i] # b[j]
<1> DEFINE l == nodes[n].left
           r == nodes[n].right
           Common == {c \in 1 .. n : /\ \E i \in DOMAIN a : a[i] = c
                                     /\ \E j \in DOMAIN b : b[j] = c}
<1>1. /\ n \in Nat /\ Inner \subseteq Nat \ {0}
      /\ l \in 1 .. n - 1 /\ r \in 1 .. n - 1 /\ l # r
      /\ l \in Kids(n) /\ r \in Kids(n)
  BY DEF HeapOK, Inner, Kids
<1>2. \A m, p \in Inner : m # p => Kids(m) \cap Kids(p) = {}
  BY DEF HeapOK
<1>3. \A p \in Inner : \A c \in Kids(p) : c < p
  <2> SUFFICES ASSUME NEW p \in Inner, NEW c \in Kids(p) PROVE c < p
    OBVIOUS
  <2>1. c \in 1 .. p - 1 /\ p \in Nat
    BY <1>1 DEF HeapOK
  <2> QED
    BY <2>1
<1>4. /\ \A i \in DOMAIN a : a[i] \in Inner /\ a[i] <= l
      /\ \A i \in DOMAIN a : a[i] # l => \E j \in DOMAIN a : a[i] \in Kids(a[j])
      /\ \A i \in DOMAIN b : b[i] \in Inner /\ b[i] <= r
      /\ \A i \in DOMAIN b : b[i] # r => \E j \in DOMAIN b : b[i] \in Kids(b[j])
  BY DEF OrderOK
<1> HIDE DEF l, r
<1>5. SUFFICES ASSUME Common # {} PROVE FALSE
  <2> SUFFICES ASSUME NEW i \in DOMAIN a, NEW j \in DOMAIN b, a[i] = b[j] PROVE FALSE
    OBVIOUS
  <2>1. a[i] \in 1 .. n
    <3>1. a[i] \in Nat \ {0} /\ a[i] <= l
      BY <1>1, <1>4
    <3> QED
      BY <1>1, <3>1
  <2>2. a[i] \in Common
    BY <2>1
  <2> QED
    BY <1>5, <2>2
<1>6. PICK c \in Common : \A d \in Common : d <= c
  <2> DEFINE Depth == {n - d : d \in Common}
  <2>1. Depth \in SUBSET Nat /\ Depth # {}
    BY <1>1, <1>5
  <2>2. PICK k \in Depth : \A m \in Depth : k <= m
    BY <2>1, LeastNat
  <2>3. PICK c \in Common : k = n - c
    BY <2>2
  <2>4. ASSUME NEW d \in Common PROVE d <= c
    <3>1. n - d \in Depth
      OBVIOUS
    <3>2. k <= n - d
      BY <2>2, <3>1
    <3> QED
      BY <1>1, <2>3, <3>2
  <2> QED
    BY <2>4
<1>7. PICK i \in DOMAIN a, j \in DOMAIN b : a[i] = c /\ b[j] = c
  BY <1>6
<1>8. c # l
  <2> SUFFICES ASSUME c = l PROVE FALSE
    OBVIOUS
  <2>1. PICK k \in DOMAIN b : c \in Kids(b[k])
    BY <1>1, <1>4, <1>7
  <2>2. b[k] = n
    BY <1>1, <1>2, <1>4, <2>1
  <2> QED
    BY <1>1, <1>4, <2>2
<1>9. c # r
  <2> SUFFICES ASSUME c = r PROVE FALSE
    OBVIOUS
  <2>1. PICK k \in DOMAIN a : c \in Kids(a[k])
    BY <1>1, <1>4, <1>7
  <2>2. a[k] = n
    BY <1>1, <1>2, <1>4, <2>1
  <2> QED
    BY <1>1, <1>4, <2>2
<1>10. PICK k \in DOMAIN a, m \in DOMAIN b : c \in Kids(a[k]) /\ c \in Kids(b[m])
  BY <1>4, <1>7, <1>8, <1>9
<1>11. a[k] = b[m]
  BY <1>2, <1>4, <1>10
<1>12. a[k] \in Common /\ c < a[k]
  <2>1. c < a[k]
    BY <1>3, <1>4, <1>10
  <2>2. a[k] \in 1 .. n
    <3>1. a[k] \in Nat \ {0} /\ a[k] <= l
      BY <1>1, <1>4
    <3> QED
      BY <1>1, <3>1
  <2> QED
    BY <1>11, <2>1, <2>2
<1> QED
  BY <1>1, <1>6, <1>12

LEMMA OrderOfLeaf ==
  ASSUME HeapOK, NEW n \in DOMAIN nodes, IsLeaf(n)
  PROVE  OrderOK(n, <<>>)
BY DEF OrderOK, Inner

LEMMA OrderOfInner ==
  ASSUME HeapOK, NEW n \in Inner, NEW a, NEW b,
         OrderOK(nodes[n].left, a), OrderOK(nodes[n].right, b)
  PROVE  OrderOK(n, a \o b \o <<n>>)
<1> DEFINE l == nodes[n].left
           r == nodes[n].right
           s == a \o b \o <<n>>
<1>1. /\ n \in Nat /\ Inner \subseteq Nat
      /\ l \in 1 .. n - 1 /\ r \in 1 .. n - 1
      /\ Kids(n) = {l, r}
  BY DEF HeapOK, Inner, Kids
<1>2. a \in Seq(Nat) /\ b \in Seq(Nat)
  BY DEF OrderOK
<1>3. /\ \A i \in DOMAIN a : a[i] \in Inner /\ a[i] <= l
      /\ \A i, j \in DOMAIN a : a[i] = a[j] => i = j
      /\ \A i \in DOMAIN a : \A c \in Kids(a[i]) \cap Inner : \E j \in DOMAIN a : j < i /\ a[j] = c
      /\ \A i \in DOMAIN a : a[i] # l => \E j \in DOMAIN a : a[i] \in Kids(a[j])
      /\ IF l \in Inner THEN a # <<>> /\ a[Len(a)] = l ELSE a = <<>>
  BY DEF OrderOK
<1>4. /\ \A i \in DOMAIN b : b[i] \in Inner /\ b[i] <= r
      /\ \A i, j \in DOMAIN b : b[i] = b[j] => i = j
      /\ \A i \in DOMAIN b : \A c \in Kids(b[i]) \cap Inner : \E j \in DOMAIN b : j < i /\ b[j] = c
      /\ \A i \in DOMAIN b : b[i] # r => \E j \in DOMAIN b : b[i] \in Kids(b[j])
      /\ IF r \in Inner THEN b # <<>> /\ b[Len(b)] = r ELSE b = <<>>
  BY DEF OrderOK
<1>5. \A i \in DOMAIN a, j \in DOMAIN b : a[i] # b[j]
  BY OperandsApart
<1> HIDE DEF l, r
<1>6. /\ s \in Seq(Nat) /\ Len(s) = Len(a) + Len(b) + 1 /\ s # <<>>
      /\ Len(a) \in Nat /\ Len(b) \in Nat
      /\ DOMAIN a = 1 .. Len(a) /\ DOMAIN b = 1 .. Len(b) /\ DOMAIN s = 1 .. Len(a) + Len(b) + 1
  BY <1>1, <1>2
<1>7. /\ \A i \in DOMAIN a : i \in DOMAIN s /\ s[i] = a[i]
      /\ \A i \in DOMAIN b : Len(a) + i \in DOMAIN s /\ s[Len(a) + i] = b[i]
      /\ Len(s) \in DOMAIN s /\ s[Len(s)] = n
  BY <1>1, <1>2, <1>6
<1> HIDE DEF s
<1>8. ASSUME NEW i \in DOMAIN s
      PROVE  \/ i \in DOMAIN a /\ s[i] = a[i]
             \/ i - Len(a) \in DOMAIN b /\ s[i] = b[i - Len(a)]
             \/ i = Len(s) /\ s[i] = n
  <2>1. CASE i <= Len(a)
    BY <1>6, <1>7, <2>1
  <2>2. CASE i > Len(a) /\ i <= Len(a) + Len(b)
    <3>1. i - Len(a) \in DOMAIN b /\ i = Len(a) + (i - Len(a))
      BY <1>6, <2>2
    <3> QED
      BY <1>7, <3>1
  <2>3. CASE i > Len(a) + Len(b)
    <3>1. i = Len(s)
      BY <1>6, <2>3
    <3> QED
      BY <1>7, <3>1
  <2> QED
    BY <1>6, <2>1, <2>2, <2>3
<1>9. \A i \in DOMAIN s : s[i] \in Inner /\ s[i] <= n
  <2> SUFFICES ASSUME NEW i \in DOMAIN s PROVE s[i] \in Inner /\ s[i] <= n
    OBVIOUS
  <2>1. ASSUME NEW x \in Inner, x <= l \/ x <= r PROVE x <= n
    BY <1>1, <2>1
  <2>2. n <= n
    BY <1>1
  <2> QED
    BY <1>3, <1>4, <1>8, <2>1, <2>2
<1>10. \A i, j \in DOMAIN s : s[i] = s[j] => i = j
  <2>1. (\A i \in DOMAIN a : a[i] # n) /\ (\A i \in DOMAIN b : b[i] # n)
    BY <1>1, <1>3, <1>4
  <2> SUFFICES ASSUME NEW i \in DOMAIN s, NEW j \in DOMAIN s, s[i] = s[j] PROVE i = j
    OBVIOUS
  <2>2. CASE i \in DOMAIN a /\ s[i] = a[i]
    BY <1>3, <1>5, <1>8, <2>1, <2>2
  <2>3. CASE i - Len(a) \in DOMAIN b /\ s[i] = b[i - Len(a)]
    <3>1. j - Len(a) \in DOMAIN b /\ s[j] = b[j - Len(a)]
      BY <1>5, <1>8, <2>1, <2>3
    <3>2. i - Len(a) = j - Len(a)
      BY <1>4, <2>3, <3>1
    <3> QED
      BY <1>6, <3>2
  <2>4. CASE i = Len(s) /\ s[i] = n
    BY <1>8, <2>1, <2>4
  <2> QED
    BY <1>8, <2>2, <2>3, <2>4
<1>11. ASSUME NEW i \in DOMAIN s, NEW c \in Kids(s[i]) \cap Inner
       PROVE  \E j \in DOMAIN s : j < i /\ s[j] = c
  <2>1. CASE i \in DOMAIN a /\ s[i] = a[i]
    BY <1>3, <1>7, <2>1
  <2>2. CASE i - Len(a) \in DOMAIN b /\ s[i] = b[i - Len(a)]
    <3>1. PICK j \in DOMAIN b : j < i - Len(a) /\ b[j] = c
      BY <1>4, <2>2
    <3> QED
      BY <1>6, <1>7, <3>1
  <2>3. CASE i = Len(s) /\ s[i] = n
    <3>1. CASE c = l
      <4>1. Len(a) \in DOMAIN a /\ a[Len(a)] = c
        BY <1>2, <1>3, <1>6, <3>1
      <4>2. Len(a) < i
        BY <1>6, <2>3
      <4> QED
        BY <1>7, <4>1, <4>2
    <3>2. CASE c = r
      <4>1. Len(b) \in DOMAIN b /\ b[Len(b)] = c
        BY <1>2, <1>4, <1>6, <3>2
      <4>2. Len(a) + Len(b) \in DOMAIN s /\ s[Len(a) + Len(b)] = c /\ Len(a) + Len(b) < i
        <5>1. Len(a) + Len(b) < i
          BY <1>6, <2>3
        <5> QED
          BY <1>7, <4>1, <5>1
      <4> QED
        BY <4>2
    <3> QED
      BY <1>1, <2>3, <3>1, <3>2
  <2> QED
    BY <1>8, <2>1, <2>2, <2>3
<1>12. ASSUME NEW i \in DOMAIN s, s[i] # n
       PROVE  \E j \in DOMAIN s : s[i] \in Kids(s[j])
  <2>1. l \in Kids(s[Len(s)]) /\ r \in Kids(s[Len(s)])
    BY <1>1, <1>7
  <2>2. CASE i \in DOMAIN a /\ s[i] = a[i]
    BY <1>3, <1>7, <2>1, <2>2
  <2>3. CASE i - Len(a) \in DOMAIN b /\ s[i] = b[i - Len(a)]
    BY <1>4, <1>7, <2>1, <2>3
  <2> QED
    BY <1>8, <1>12, <2>2, <2>3
<1>13. OrderOK(n, s)
  BY <1>6, <1>7, <1>9, <1>10, <1>11, <1>12, Zenon DEF OrderOK
<1> QED
  BY <1>13 DEF s

LEMMA PostOrderOK ==
  ASSUME HeapOK
  PROVE  \A n \in DOMAIN nodes : OrderOK(n, PostOrder[n])
<1> DEFINE Fails == {n \in DOMAIN nodes : ~ OrderOK(n, PostOrder[n])}
<1>1. DOMAIN nodes \subseteq Nat
  BY DEF HeapOK
<1>2. SUFFICES ASSUME Fails # {} PROVE FALSE
  OBVIOUS
<1>3. PICK n \in Fails : \A m \in Fails : n <= m
  <2>1. Fails \in SUBSET Nat
    BY <1>1
  <2> QED
    BY <1>2, <2>1, LeastNat
<1>4. n \in DOMAIN nodes /\ n \in Nat
  BY <1>1, <1>3
<1>5. CASE IsLeaf(n)
  <2>1. PostOrder[n] = <<>>
    BY <1>4, <1>5, PostOrderDef
  <2> QED
    BY <1>3, <1>4, <1>5, <2>1, OrderOfLeaf
<1>6. CASE ~ IsLeaf(n)
  <2>1. n \in Inner /\ PostOrder[n] = PostOrder[nodes[n].left] \o PostOrder[nodes[n].right] \o <<n>>
    BY <1>4, <1>6, PostOrderDef DEF Inner
  <2>2. nodes[n].left \in 1 .. n - 1 /\ nodes[n].right \in 1 .. n - 1
    BY <2>1 DEF HeapOK, Kids
  <2>3. ASSUME NEW m \in 1 .. n - 1 PROVE OrderOK(m, PostOrder[m])
    <3>1. m \in DOMAIN nodes /\ ~ (n <= m)
      BY <1>4 DEF HeapOK
    <3> QED
      BY <1>3, <3>1
  <2>4. OrderOK(n, PostOrder[n])
    BY <2>1, <2>2, <2>3, OrderOfInner
  <2> QED
    BY <1>3, <2>4
<1> QED
  BY <1>5, <1>6

(* The tasks a task waits for are those of its operands.                   *)
LEMMA TaskArgsOf ==
  ASSUME HeapOK, NEW s \in Seq(Nat), NEW i \in DOMAIN s, s[i] \in Inner
  PROVE  TaskArgs(Tasks(s)[i]) = {Place(s, c) : c \in Kids(s[i]) \cap Inner}
<1> DEFINE n == s[i]
           t == Tasks(s)[i]
<1>1. t.arg1 = Arg(s, nodes[n].left) /\ t.arg2 = Arg(s, nodes[n].right)
  BY DEF Tasks
<1>2. nodes[n].left \in DOMAIN nodes /\ nodes[n].right \in DOMAIN nodes
  BY DEF HeapOK, Kids, Inner
<1>3. ASSUME NEW c \in DOMAIN nodes
      PROVE  IF c \in Inner THEN "task" \in DOMAIN Arg(s, c) /\ Arg(s, c).task = Place(s, c)
                            ELSE "task" \notin DOMAIN Arg(s, c)
  <2>1. CASE IsLeaf(c)
    <3>1. Arg(s, c) = [literal |-> nodes[c].at]
      BY <2>1 DEF Arg
    <3> QED
      BY <2>1, <3>1 DEF Inner
  <2>2. CASE ~ IsLeaf(c)
    <3>1. Arg(s, c) = [task |-> Place(s, c)]
      BY <2>2 DEF Arg
    <3> QED
      BY <2>2, <3>1 DEF Inner
  <2> QED
    BY <2>1, <2>2
<1>4. TaskArgs(t) = {a.task : a \in {x \in {Arg(s, nodes[n].left), Arg(s, nodes[n].right)} :
                                        "task" \in DOMAIN x}}
  BY <1>1 DEF TaskArgs
<1>5. Kids(n) = {nodes[n].left, nodes[n].right}
  BY DEF Kids
<1> HIDE DEF t
<1>6. ASSUME NEW j PROVE j \in TaskArgs(t) <=> \E c \in Kids(n) \cap Inner : j = Place(s, c)
  BY <1>2, <1>3, <1>4, <1>5
<1> QED
  BY <1>6 DEF t

LEMMA PlaceOf ==
  ASSUME NEW n, NEW s, OrderOK(n, s)
  PROVE  \A j \in DOMAIN s : Place(s, s[j]) = j
<1> SUFFICES ASSUME NEW j \in DOMAIN s PROVE Place(s, s[j]) = j
  OBVIOUS
<1>1. \A i \in DOMAIN s : s[i] = s[j] => i = j
  BY DEF OrderOK
<1> QED
  BY <1>1 DEF Place

LEMMA TasksFormATree ==
  ASSUME HeapOK, NEW n, NEW s, OrderOK(n, s)
  PROVE  /\ IsTree(Tasks(s))
         /\ DOMAIN Tasks(s) = 1 .. Len(Tasks(s)) /\ Len(Tasks(s)) \in Nat /\ Len(Tasks(s)) = Len(s)
<1> DEFINE p == Tasks(s)
<1>1. /\ s \in Seq(Nat)
      /\ \A i \in DOMAIN s : s[i] \in Inner
      /\ \A i, j \in DOMAIN s : s[i] = s[j] => i = j
      /\ \A i \in DOMAIN s : \A c \in Kids(s[i]) \cap Inner : \E j \in DOMAIN s : j < i /\ s[j] = c
      /\ \A i \in DOMAIN s : s[i] # n => \E j \in DOMAIN s : s[i] \in Kids(s[j])
      /\ s # <<>> => s[Len(s)] = n
  BY DEF OrderOK
<1>2. DOMAIN p = DOMAIN s /\ Len(p) = Len(s) /\ DOMAIN s = 1 .. Len(s) /\ Len(s) \in Nat
  <2>1. DOMAIN s = 1 .. Len(s) /\ Len(s) \in Nat
    BY <1>1
  <2>2. p = [i \in 1 .. Len(s) |-> p[i]]
    BY <2>1, Zenon DEF Tasks
  <2> HIDE DEF p
  <2> QED
    BY <2>1, <2>2
<1>3. ASSUME NEW i \in DOMAIN s
      PROVE  TaskArgs(p[i]) = {Place(s, c) : c \in Kids(s[i]) \cap Inner}
  BY <1>1, TaskArgsOf
<1>4. \A j \in DOMAIN s : Place(s, s[j]) = j
  BY PlaceOf
<1>5. ASSUME NEW i \in DOMAIN s, NEW c \in Kids(s[i]) \cap Inner
      PROVE  Place(s, c) \in DOMAIN s /\ s[Place(s, c)] = c /\ Place(s, c) < i
  BY <1>1, <1>4
<1>6. ASSUME NEW i \in DOMAIN s
      PROVE  p[i].unmet = Cardinality(TaskArgs(p[i]))
  <2> DEFINE l == nodes[s[i]].left
             r == nodes[s[i]].right
  <2>1. /\ p[i].unmet = (IF IsLeaf(l) THEN 0 ELSE 1) + (IF IsLeaf(r) THEN 0 ELSE 1)
    BY DEF Tasks
  <2>2. l \in DOMAIN nodes /\ r \in DOMAIN nodes /\ l # r /\ Kids(s[i]) = {l, r}
    BY <1>1 DEF HeapOK, Kids, Inner
  <2>3. (l \in Inner <=> ~ IsLeaf(l)) /\ (r \in Inner <=> ~ IsLeaf(r))
    BY <2>2 DEF Inner
  <2> HIDE DEF l, r
  <2>4. CASE l \in Inner /\ r \in Inner
    <3>1. TaskArgs(p[i]) = {Place(s, l)} \cup {Place(s, r)} /\ Place(s, l) # Place(s, r)
      BY <1>3, <1>5, <2>2, <2>4
    <3>2. Cardinality({Place(s, l)}) = 1 /\ IsFiniteSet({Place(s, l)})
      BY FS_Singleton
    <3>3. Cardinality({Place(s, l)} \cup {Place(s, r)}) = 1 + 1
      <4>1. Place(s, r) \notin {Place(s, l)}
        BY <3>1
      <4> QED
        BY <3>2, <4>1, FS_AddElement, Zenon
    <3> QED
      BY <2>1, <2>3, <2>4, <3>1, <3>3
  <2>5. CASE l \in Inner /\ r \notin Inner
    <3>1. TaskArgs(p[i]) = {Place(s, l)}
      BY <1>3, <2>2, <2>5
    <3>2. Cardinality({Place(s, l)}) = 1
      BY FS_Singleton
    <3> QED
      BY <2>1, <2>3, <2>5, <3>1, <3>2
  <2>6. CASE l \notin Inner /\ r \in Inner
    <3>1. TaskArgs(p[i]) = {Place(s, r)}
      BY <1>3, <2>2, <2>6
    <3>2. Cardinality({Place(s, r)}) = 1
      BY FS_Singleton
    <3> QED
      BY <2>1, <2>3, <2>6, <3>1, <3>2
  <2>7. CASE l \notin Inner /\ r \notin Inner
    <3>1. TaskArgs(p[i]) = {}
      BY <1>3, <2>2, <2>7
    <3> QED
      BY <2>1, <2>3, <2>7, <3>1, FS_EmptySet
  <2> QED
    BY <2>4, <2>5, <2>6, <2>7
<1>7. ASSUME NEW i \in DOMAIN s PROVE p[i].op \in Binary
  <2>1. s[i] \in DOMAIN nodes /\ nodes[s[i]].op # NoOp
    BY <1>1 DEF Inner, IsLeaf
  <2>2. nodes[s[i]].op \in Binary
    BY <2>1 DEF HeapOK, NodeRec
  <2>3. p[i].op = nodes[s[i]].op
    BY DEF Tasks
  <2> QED
    BY <2>2, <2>3
<1>8. ASSUME NEW i \in DOMAIN s, i < Len(s)
      PROVE  Cardinality({j \in DOMAIN s : i \in TaskArgs(p[j])}) = 1
  <2>1. s[i] # n
    BY <1>1, <1>2, <1>8
  <2>2. PICK k \in DOMAIN s : s[i] \in Kids(s[k])
    BY <1>1, <2>1
  <2>3. ASSUME NEW j \in DOMAIN s PROVE i \in TaskArgs(p[j]) <=> j = k
    <3>1. i \in TaskArgs(p[j]) <=> s[i] \in Kids(s[j])
      BY <1>1, <1>3, <1>4, <1>5
    <3>2. s[i] \in Kids(s[j]) => s[j] = s[k]
      BY <1>1, <2>2 DEF HeapOK
    <3> QED
      BY <1>1, <2>2, <3>1, <3>2
  <2>4. {j \in DOMAIN s : i \in TaskArgs(p[j])} = {k}
    BY <2>3
  <2> QED
    BY <2>4, FS_Singleton
<1> HIDE DEF p
<1> QED
  <2>1. ASSUME NEW i \in DOMAIN p
        PROVE  /\ p[i].op \in Binary
               /\ \A j \in TaskArgs(p[i]) : j \in DOMAIN p /\ j < i
               /\ p[i].unmet = Cardinality(TaskArgs(p[i]))
               /\ i < Len(p) => Cardinality({j \in DOMAIN p : i \in TaskArgs(p[j])}) = 1
    <3>1. \A j \in TaskArgs(p[i]) : j \in DOMAIN p /\ j < i
      BY <1>2, <1>3, <1>5
    <3>2. i < Len(p) => Cardinality({j \in DOMAIN p : i \in TaskArgs(p[j])}) = 1
      BY <1>2, <1>8
    <3> QED
      BY <1>2, <1>6, <1>7, <3>1, <3>2
  <2>2. IsTree(p)
    BY <2>1 DEF IsTree
  <2> QED
    BY <1>2, <2>2 DEF p

(* What an argument of a task stands for, f giving what tasks do.          *)
SideOf(f, a) == IF "literal" \in DOMAIN a THEN Leaf(a.literal) ELSE f[a.task]

LEMMA SideOfArg ==
  ASSUME HeapOK, NEW n, NEW s, OrderOK(n, s), NEW i \in DOMAIN s, NEW c \in Kids(s[i])
  PROVE  IF IsLeaf(c) THEN \A f : SideOf(f, Arg(s, c)) = nodes[c]
         ELSE \E j \in DOMAIN s : j < i /\ s[j] = c /\ \A f : SideOf(f, Arg(s, c)) = f[j]
<1>1. s[i] \in Inner /\ c \in DOMAIN nodes
  BY DEF OrderOK, HeapOK, Inner
<1>2. CASE IsLeaf(c)
  <2>1. nodes[c] \in NodeRec /\ nodes[c].op = NoOp
    BY <1>1, <1>2 DEF HeapOK, IsLeaf
  <2>2. nodes[c] \in [op : {NoOp}, at : Nat]
    <3>1. nodes[c] \notin [op : Binary, left : Nat, right : Nat]
      BY <2>1, Signs
    <3> QED
      BY <2>1, <3>1 DEF NodeRec
  <2>3. nodes[c] = Leaf(nodes[c].at)
    BY <2>2 DEF Leaf
  <2>4. \A f : SideOf(f, Arg(s, c)) = Leaf(nodes[c].at)
    <3>1. Arg(s, c) = [literal |-> nodes[c].at]
      BY <1>2 DEF Arg
    <3> QED
      BY <3>1 DEF SideOf
  <2> QED
    BY <1>2, <2>3, <2>4
<1>3. CASE ~ IsLeaf(c)
  <2>1. PICK j \in DOMAIN s : j < i /\ s[j] = c
    BY <1>1, <1>3 DEF OrderOK, Inner
  <2>2. Place(s, c) = j
    BY <2>1, PlaceOf
  <2>3. Arg(s, c) = [task |-> j]
    BY <1>3, <2>2 DEF Arg
  <2>4. \A f : SideOf(f, Arg(s, c)) = f[j]
    BY <2>3 DEF SideOf
  <2> QED
    BY <1>3, <2>1, <2>4
<1> QED
  BY <1>2, <1>3

LEMMA ComputedDef ==
  ASSUME HeapOK, NEW r, NEW s, OrderOK(r, s), plan = Tasks(s)
  PROVE  Computed = [i \in DOMAIN plan |->
                        Node(plan[i].op, SideOf(Computed, plan[i].arg1), SideOf(Computed, plan[i].arg2))]
<1> DEFINE Ext(f, i) == Node(plan[i].op, SideOf(f, plan[i].arg1), SideOf(f, plan[i].arg2))
           Order(f, m) == f = [i \in 1 .. m |-> Ext(f, i)]
           Defined == {m \in 0 .. Len(plan) : \E f : Order(f, m)}
<1> HIDE DEF Ext, Order
<1>1. Len(plan) \in Nat /\ DOMAIN plan = 1 .. Len(plan) /\ DOMAIN s = DOMAIN plan
  <2>1. DOMAIN s = DOMAIN plan
    BY DEF Tasks
  <2> QED
    BY <2>1, TasksFormATree
<1>2. 0 \in Defined
  <2> DEFINE e == [i \in 1 .. 0 |-> Ext(<<>>, i)]
  <2>1. e = [i \in 1 .. 0 |-> Ext(e, i)]
    OBVIOUS
  <2> HIDE DEF e
  <2>2. Order(e, 0)
    BY <2>1 DEF Order
  <2> QED
    BY <1>1, <2>2
<1>3. ASSUME NEW m \in 1 .. Len(plan), m - 1 \in Defined
      PROVE  m \in Defined
  <2>1. PICK f : Order(f, m - 1)
    BY <1>3
  <2> DEFINE g == [i \in 1 .. m |-> IF i = m THEN Ext(f, m) ELSE f[i]]
  <2>2. ASSUME NEW i \in 1 .. m PROVE g[i] = Ext(g, i)
    <3>1. i \in DOMAIN s /\ i \in Nat /\ m \in Nat
      BY <1>1
    <3>2. g[i] = Ext(f, i)
      <4>1. CASE i = m
        BY <4>1
      <4>2. CASE i # m
        <5>1. i \in 1 .. m - 1
          BY <3>1, <4>2
        <5> QED
          BY <2>1, <4>2, <5>1 DEF Order
      <4> QED
        BY <4>1, <4>2
    <3>3. \A j \in DOMAIN s : j < i => g[j] = f[j]
      BY <1>1, <3>1
    <3> HIDE DEF g
    <3>4. ASSUME NEW c \in Kids(s[i]) PROVE SideOf(g, Arg(s, c)) = SideOf(f, Arg(s, c))
      BY <3>1, <3>3, SideOfArg
    <3>5. /\ plan[i].arg1 = Arg(s, nodes[s[i]].left) /\ nodes[s[i]].left \in Kids(s[i])
          /\ plan[i].arg2 = Arg(s, nodes[s[i]].right) /\ nodes[s[i]].right \in Kids(s[i])
      BY <3>1 DEF Tasks, Kids
    <3>6. /\ SideOf(g, plan[i].arg1) = SideOf(f, plan[i].arg1)
          /\ SideOf(g, plan[i].arg2) = SideOf(f, plan[i].arg2)
      BY <3>4, <3>5
    <3> QED
      BY <3>2, <3>6 DEF Ext
  <2>3. Order(g, m)
    <3>1. g = [i \in 1 .. m |-> g[i]]
      OBVIOUS
    <3> HIDE DEF g
    <3> QED
      BY <2>2, <3>1 DEF Order
  <2> QED
    BY <1>1, <2>3
<1>4. PICK f : Order(f, Len(plan))
  <2> HIDE DEF Defined
  <2>1. Len(plan) \in Defined
    BY <1>1, <1>2, <1>3, Upwards
  <2> QED
    BY <2>1 DEF Defined
<1>5. f = [i \in DOMAIN plan |-> Ext(f, i)]
  BY <1>1, <1>4 DEF Order
<1> QED
  BY <1>5, Zenon DEF Computed, Ext, SideOf

(* Task by task, what is computed is the tree below the node.              *)
LEMMA TasksCompute ==
  ASSUME HeapOK, NEW r, NEW s, OrderOK(r, s), plan = Tasks(s)
  PROVE  \A i \in DOMAIN s : Computed[i] = Tree[s[i]]
<1> DEFINE Fails == {i \in DOMAIN s : Computed[i] # Tree[s[i]]}
<1>1. SUFFICES ASSUME Fails # {} PROVE FALSE
  OBVIOUS
<1>2. DOMAIN s \subseteq Nat /\ DOMAIN s = DOMAIN plan
  BY DEF OrderOK, Tasks
<1>3. PICK i \in Fails : \A j \in Fails : i <= j
  <2>1. Fails \in SUBSET Nat
    BY <1>2
  <2> QED
    BY <1>1, <2>1, LeastNat
<1>4. i \in DOMAIN s /\ s[i] \in Inner /\ i \in Nat
  BY <1>2, <1>3 DEF OrderOK
<1>5. ASSUME NEW c \in Kids(s[i]) PROVE SideOf(Computed, Arg(s, c)) = Tree[c]
  <2>1. c \in DOMAIN nodes
    BY <1>4 DEF HeapOK, Inner
  <2>2. CASE IsLeaf(c)
    <3>1. Tree[c] = nodes[c]
      BY <2>1, <2>2, TreeDef
    <3> QED
      BY <1>4, <2>2, <3>1, SideOfArg
  <2>3. CASE ~ IsLeaf(c)
    <3>1. PICK j \in DOMAIN s : j < i /\ s[j] = c /\ SideOf(Computed, Arg(s, c)) = Computed[j]
      BY <1>4, <2>3, SideOfArg
    <3>2. j \notin Fails
      BY <1>2, <1>3, <1>4, <3>1
    <3> QED
      BY <3>1, <3>2
  <2> QED
    BY <2>2, <2>3
<1>6. /\ plan[i].arg1 = Arg(s, nodes[s[i]].left) /\ nodes[s[i]].left \in Kids(s[i])
      /\ plan[i].arg2 = Arg(s, nodes[s[i]].right) /\ nodes[s[i]].right \in Kids(s[i])
      /\ plan[i].op = nodes[s[i]].op
  BY <1>4 DEF Tasks, Kids
<1>7. Computed[i] = Node(plan[i].op, SideOf(Computed, plan[i].arg1), SideOf(Computed, plan[i].arg2))
  BY <1>2, <1>4, ComputedDef
<1>8. Tree[s[i]] = Node(nodes[s[i]].op, Tree[nodes[s[i]].left], Tree[nodes[s[i]].right])
  <2>1. s[i] \in DOMAIN nodes /\ ~ IsLeaf(s[i])
    BY <1>4 DEF Inner
  <2> QED
    BY <2>1, TreeDef
<1>9. /\ SideOf(Computed, plan[i].arg1) = Tree[nodes[s[i]].left]
      /\ SideOf(Computed, plan[i].arg2) = Tree[nodes[s[i]].right]
  BY <1>5, <1>6
<1>10. Computed[i] = Tree[s[i]]
  BY <1>6, <1>7, <1>8, <1>9
<1> QED
  BY <1>3, <1>10

(* The last task stands for the root.                                      *)
LEMMA LastTaskComputes ==
  ASSUME HeapOK, NEW r \in DOMAIN nodes, NEW s, OrderOK(r, s), plan = Tasks(s)
  PROVE  IF IsLeaf(r) THEN plan = <<>> ELSE plan # <<>> /\ Computed[Len(plan)] = Tree[r]
<1>1. /\ DOMAIN plan = DOMAIN s /\ DOMAIN plan = 1 .. Len(plan) /\ Len(plan) \in Nat
      /\ s \in Seq(Nat) /\ DOMAIN s = 1 .. Len(s) /\ Len(s) \in Nat
  <2>1. DOMAIN plan = DOMAIN s
    BY DEF Tasks
  <2>2. s \in Seq(Nat)
    BY DEF OrderOK
  <2> QED
    BY <2>1, <2>2, TasksFormATree
<1>2. CASE IsLeaf(r)
  <2>1. s = <<>>
    BY <1>2 DEF OrderOK, Inner
  <2> QED
    BY <1>2, <2>1 DEF Tasks
<1>3. CASE ~ IsLeaf(r)
  <2>1. s # <<>> /\ s[Len(s)] = r
    BY <1>3 DEF OrderOK, Inner
  <2>2. Len(s) \in DOMAIN s
    <3>1. Len(s) \in Nat /\ Len(s) # 0
      BY <1>1, <2>1
    <3>2. Len(s) \in 1 .. Len(s)
      BY <3>1
    <3> QED
      BY <1>1, <3>2
  <2>3. Len(plan) = Len(s) /\ plan # <<>>
    <3>1. Len(plan) = Len(s)
      BY TasksFormATree
    <3> QED
      BY <1>1, <2>2, <3>1
  <2> QED
    BY <1>3, <2>1, <2>2, <2>3, TasksCompute
<1> QED
  BY <1>2, <1>3

-----------------------------------------------------------------------------
(* The steps of the parser keep the heap in this shape.                    *)
LEMMA Allocated ==
  ASSUME HeapOK, NEW s \in Seq(NodeRec), nodes' = nodes \o s
  PROVE  /\ nodes' \in Seq(NodeRec)
         /\ DOMAIN nodes' = 1 .. Len(nodes) + Len(s)
         /\ \A m \in Inner' : m \in Inner \/ \E i \in DOMAIN s : s[i].op # NoOp /\ m = Len(nodes) + i
         /\ \A m \in Inner : Kids(m)' = Kids(m)
         /\ \A i \in DOMAIN s : nodes'[Len(nodes) + i] = s[i]
<1>1. /\ nodes \in Seq(NodeRec) /\ DOMAIN nodes = 1 .. Len(nodes) /\ Len(nodes) \in Nat
      /\ DOMAIN s = 1 .. Len(s) /\ Len(s) \in Nat
  BY DEF HeapOK
<1>2. nodes' \in Seq(NodeRec) /\ DOMAIN nodes' = 1 .. Len(nodes) + Len(s)
  BY <1>1
<1>3. \A m \in DOMAIN nodes : nodes'[m] = nodes[m]
  BY <1>1
<1>4. \A i \in DOMAIN s : nodes'[Len(nodes) + i] = s[i]
  BY <1>1
<1>5. ASSUME NEW m
      PROVE  m \in Inner' <=> m \in Inner \/ \E i \in DOMAIN s : s[i].op # NoOp /\ m = Len(nodes) + i
  <2>1. m \in Inner' <=> m \in 1 .. Len(nodes) + Len(s) /\ nodes'[m].op # NoOp
    BY <1>2 DEF Inner, IsLeaf
  <2>2. m \in Inner <=> m \in 1 .. Len(nodes) /\ nodes[m].op # NoOp
    BY <1>1 DEF Inner, IsLeaf
  <2>3. CASE m \in 1 .. Len(nodes)
    <3>1. \A i \in DOMAIN s : m # Len(nodes) + i
      BY <1>1, <2>3
    <3>2. m \in 1 .. Len(nodes) + Len(s)
      BY <1>1, <2>3
    <3> QED
      BY <1>1, <1>3, <2>1, <2>2, <2>3, <3>1, <3>2
  <2>4. CASE m \in 1 .. Len(nodes) + Len(s) /\ m \notin 1 .. Len(nodes)
    <3>1. m - Len(nodes) \in DOMAIN s /\ m = Len(nodes) + (m - Len(nodes))
      BY <1>1, <2>4
    <3>2. ASSUME NEW i \in DOMAIN s, m = Len(nodes) + i PROVE i = m - Len(nodes)
      BY <1>1, <3>2
    <3>3. nodes'[m] = s[m - Len(nodes)]
      BY <1>4, <3>1
    <3> QED
      BY <2>1, <2>2, <2>4, <3>1, <3>2, <3>3
  <2>5. CASE m \notin 1 .. Len(nodes) + Len(s)
    <3>1. m \notin 1 .. Len(nodes) /\ \A i \in DOMAIN s : m # Len(nodes) + i
      BY <1>1, <2>5
    <3> QED
      BY <2>1, <2>2, <2>5, <3>1
  <2> QED
    BY <2>3, <2>4, <2>5
<1>6. \A m \in Inner : Kids(m)' = Kids(m)
  BY <1>3 DEF Inner, Kids
<1> QED
  BY <1>2, <1>4, <1>5, <1>6

(* Nodes are allocated at the end of the heap, the last of them takes the  *)
(* operands above the k-th from the stack and is pushed in their place.    *)
Grow(s, k) ==
    /\ s \in Seq(NodeRec) /\ s # <<>> /\ k \in 0 .. Len(operands)
    /\ nodes' = nodes \o s
    /\ operands' = Append(SubSeq(operands, 1, k), Len(nodes) + Len(s))

Taken(k, e, c) == \/ \E j \in k + 1 .. Len(operands) : c = operands[j]
                  \/ c \in Len(nodes) + 1 .. e - 1

Top(n, k, e) == n.op # NoOp => n.left # n.right /\ Taken(k, e, n.left) /\ Taken(k, e, n.right)

Reshape(s, k) ==
    /\ Grow(s, k)
    /\ \A j \in 1 .. Len(s) - 1 : s[j].op = NoOp
    /\ Top(s[Len(s)], k, Len(nodes) + Len(s))

LEMMA Reshaped ==
  ASSUME HeapOK, NEW s, NEW k, Reshape(s, k)
  PROVE  HeapOK'
<1> DEFINE last == s[Len(s)]
<1>0. PICK a : a = Len(nodes) + Len(s)
  OBVIOUS
<1>1. /\ DOMAIN nodes = 1 .. Len(nodes) /\ Len(nodes) \in Nat
      /\ DOMAIN operands = 1 .. Len(operands) /\ Len(operands) \in Nat
      /\ DOMAIN s = 1 .. Len(s) /\ Len(s) \in Nat \ {0} /\ k \in Nat /\ k <= Len(operands)
      /\ a \in Nat /\ Len(nodes) < a
  <2>1. DOMAIN s = 1 .. Len(s) /\ Len(s) \in Nat \ {0} /\ k \in 0 .. Len(operands)
    BY DEF Reshape, Grow
  <2>2. /\ DOMAIN nodes = 1 .. Len(nodes) /\ Len(nodes) \in Nat
        /\ DOMAIN operands = 1 .. Len(operands) /\ Len(operands) \in Nat
    BY DEF HeapOK
  <2> QED
    BY <1>0, <2>1, <2>2
<1>2. /\ nodes' \in Seq(NodeRec)
      /\ DOMAIN nodes' = 1 .. a
      /\ \A m \in Inner' : m \in Inner \/ \E i \in DOMAIN s : s[i].op # NoOp /\ m = Len(nodes) + i
      /\ \A m \in Inner : Kids(m)' = Kids(m)
      /\ \A i \in DOMAIN s : nodes'[Len(nodes) + i] = s[i]
  BY <1>0, Allocated DEF Reshape, Grow
<1>3. \A m \in Inner : nodes'[m] = nodes[m]
  <2>1. \A m \in Inner : m \in 1 .. Len(nodes)
    BY <1>1 DEF Inner
  <2> QED
    BY <2>1 DEF HeapOK, Reshape, Grow
<1>4. last.op # NoOp => last.left # last.right /\ Taken(k, a, last.left) /\ Taken(k, a, last.right)
  BY <1>0 DEF Reshape, Top
<1>5. nodes'[a] = last
  <2>1. Len(s) \in DOMAIN s
    BY <1>1
  <2> QED
    BY <1>0, <1>2, <2>1
<1>6. \A m \in Inner' : m \in Inner \/ (m = a /\ last.op # NoOp)
  <2> SUFFICES ASSUME NEW m \in Inner' PROVE m \in Inner \/ (m = a /\ last.op # NoOp)
    OBVIOUS
  <2>1. ASSUME NEW i \in DOMAIN s, s[i].op # NoOp, m = Len(nodes) + i
        PROVE  m = a /\ last.op # NoOp
    <3>1. i \notin 1 .. Len(s) - 1
      BY <2>1 DEF Reshape
    <3>2. i = Len(s)
      BY <1>1, <3>1
    <3> QED
      BY <1>0, <2>1, <3>2
  <2> QED
    BY <1>2, <2>1
<1>7. \A m \in Inner : m \in 1 .. Len(nodes) /\ Kids(m) \subseteq 1 .. m - 1
  BY <1>1 DEF HeapOK, Inner
<1>8. \A j \in DOMAIN operands :
         operands[j] \in 1 .. Len(nodes) /\ \A m \in Inner : operands[j] \notin Kids(m)
  BY <1>1 DEF HeapOK
<1>9. /\ operands' \in Seq(Nat) /\ DOMAIN operands' = 1 .. k + 1
      /\ \A j \in 1 .. k : operands'[j] = operands[j]
      /\ operands'[k + 1] = a
  <2>1. SubSeq(operands, 1, k) \in Seq(Nat) /\ Len(SubSeq(operands, 1, k)) = k
    BY <1>1 DEF HeapOK
  <2>2. \A j \in 1 .. k : SubSeq(operands, 1, k)[j] = operands[j]
    BY <1>1 DEF HeapOK
  <2> DEFINE rest == SubSeq(operands, 1, k)
  <2> HIDE DEF rest
  <2>3. operands' = Append(rest, a) /\ rest \in Seq(Nat) /\ Len(rest) = k
    BY <1>0, <2>1 DEF rest, Reshape, Grow
  <2>4. \A j \in 1 .. k : rest[j] = operands[j]
    BY <2>2 DEF rest
  <2> QED
    BY <1>1, <2>3, <2>4
<1>10. \A j \in DOMAIN operands' : (j \in 1 .. k /\ j \in DOMAIN operands) \/ j = k + 1
  BY <1>1, <1>9
<1>11. ASSUME NEW c, Taken(k, a, c)
       PROVE  /\ c \in 1 .. a - 1
              /\ \A m \in Inner : c \notin Kids(m)
              /\ \A j \in 1 .. k : operands[j] # c
  <2>1. CASE \E j \in k + 1 .. Len(operands) : c = operands[j]
    <3>1. PICK j \in k + 1 .. Len(operands) : c = operands[j]
      BY <2>1
    <3>2. j \in DOMAIN operands /\ \A i \in 1 .. k : i \in DOMAIN operands /\ i # j
      BY <1>1
    <3>3. c \in 1 .. a - 1
      BY <1>1, <1>8, <3>1, <3>2
    <3> QED
      BY <1>8, <3>1, <3>2, <3>3 DEF HeapOK
  <2>2. CASE c \in Len(nodes) + 1 .. a - 1
    <3>1. c \in 1 .. a - 1 /\ c \notin 1 .. Len(nodes)
      BY <1>1, <2>2
    <3>2. \A m \in Inner : c \notin 1 .. m - 1
      BY <1>1, <1>7, <2>2
    <3>3. \A j \in 1 .. k : j \in DOMAIN operands
      BY <1>1
    <3> QED
      BY <1>7, <1>8, <3>1, <3>2, <3>3
  <2> QED
    BY <1>11, <2>1, <2>2 DEF Taken
<1>12. /\ \A m \in Inner : a # m /\ a \notin Kids(m)
       /\ \A j \in 1 .. k : operands[j] # a
       /\ a \in DOMAIN nodes' /\ DOMAIN nodes \subseteq DOMAIN nodes'
  <2>1. \A m \in Inner : a # m /\ a \notin Kids(m)
    <3> SUFFICES ASSUME NEW m \in Inner PROVE a # m /\ a \notin 1 .. m - 1
      BY <1>7
    <3> QED
      BY <1>1, <1>7
  <2>2. \A j \in 1 .. k : operands[j] # a
    <3>1. \A j \in 1 .. k : j \in DOMAIN operands
      BY <1>1
    <3>2. a \notin 1 .. Len(nodes)
      BY <1>1
    <3> QED
      BY <1>8, <3>1, <3>2
  <2>3. a \in DOMAIN nodes' /\ DOMAIN nodes \subseteq DOMAIN nodes'
    BY <1>1, <1>2
  <2> QED
    BY <2>1, <2>2, <2>3
<1>13. last.op # NoOp => Kids(a)' = {last.left, last.right}
  BY <1>5 DEF Kids
<1> HIDE DEF last
<1>14. \A n \in Inner' : Kids(n)' \subseteq 1 .. n - 1 /\ nodes'[n].left # nodes'[n].right
  <2> SUFFICES ASSUME NEW n \in Inner'
               PROVE  Kids(n)' \subseteq 1 .. n - 1 /\ nodes'[n].left # nodes'[n].right
    OBVIOUS
  <2>1. CASE n \in Inner
    BY <1>2, <1>3, <1>7, <2>1 DEF HeapOK
  <2>2. CASE n = a /\ last.op # NoOp
    BY <1>4, <1>5, <1>11, <1>13, <2>2
  <2> QED
    BY <1>6, <2>1, <2>2
<1>15. \A m, n \in Inner' : m # n => Kids(m)' \cap Kids(n)' = {}
  <2>1. \A m \in Inner : last.op # NoOp => Kids(m)' \cap Kids(a)' = {}
    BY <1>2, <1>4, <1>11, <1>13
  <2>2. \A m, n \in Inner : m # n => Kids(m)' \cap Kids(n)' = {}
    BY <1>2 DEF HeapOK
  <2> QED
    BY <1>6, <2>1, <2>2
<1>16. \A j \in DOMAIN operands' :
          operands'[j] \in DOMAIN nodes' /\ \A n \in Inner' : operands'[j] \notin Kids(n)'
  <2> SUFFICES ASSUME NEW j \in DOMAIN operands', NEW n \in Inner'
               PROVE  operands'[j] \in DOMAIN nodes' /\ operands'[j] \notin Kids(n)'
    BY <1>9, <1>10, <1>12, <1>8, <1>1
  <2>1. CASE j \in 1 .. k /\ j \in DOMAIN operands
    <3>1. operands'[j] = operands[j] /\ operands[j] \in DOMAIN nodes'
      BY <1>1, <1>8, <1>9, <1>12, <2>1
    <3>2. n \in Inner => operands[j] \notin Kids(n)'
      BY <1>2, <1>8, <2>1
    <3>3. n = a /\ last.op # NoOp => operands[j] \notin Kids(n)'
      BY <1>4, <1>11, <1>13, <2>1
    <3> QED
      BY <1>6, <3>1, <3>2, <3>3
  <2>2. CASE j = k + 1
    <3>1. n \in Inner => a \notin Kids(n)'
      BY <1>2, <1>12
    <3>2. n = a /\ last.op # NoOp => a \notin Kids(n)'
      <4>1. a \notin 1 .. a - 1
        BY <1>1
      <4> QED
        BY <1>4, <1>11, <1>13, <4>1
    <3> QED
      BY <1>6, <1>9, <1>12, <2>2, <3>1, <3>2
  <2> QED
    BY <1>10, <2>1, <2>2
<1>17. \A i, j \in DOMAIN operands' : i # j => operands'[i] # operands'[j]
  <2>1. \A i, j \in DOMAIN operands : i # j => operands[i] # operands[j]
    BY DEF HeapOK
  <2> QED
    BY <1>9, <1>10, <1>12, <2>1
<1> QED
  BY <1>2, <1>9, <1>14, <1>15, <1>16, <1>17 DEF HeapOK

(* feed: a literal is a new leaf on the operand stack.                     *)
LEMMA LeafPushed ==
  ASSUME HeapOK, NEW i \in Nat,
         nodes' = Append(nodes, Leaf(i)), operands' = Append(operands, Len(nodes) + 1)
  PROVE  HeapOK'
<1>1. PICK leaf : leaf = Leaf(i)
  OBVIOUS
<1>2. leaf \in NodeRec /\ leaf.op = NoOp
  BY <1>1 DEF Leaf, NodeRec
<1>3. PICK k : k = Len(operands)
  OBVIOUS
<1>4. nodes \in Seq(NodeRec) /\ operands \in Seq(Nat) /\ k \in Nat /\ Len(nodes) \in Nat
  BY <1>3 DEF HeapOK
<1>5. Grow(<<leaf>>, k)
  <2>1. nodes' = nodes \o <<leaf>>
    BY <1>1, <1>2, <1>4
  <2>2. SubSeq(operands, 1, k) = operands
    BY <1>3, <1>4
  <2> QED
    BY <1>1, <1>2, <1>3, <1>4, <2>1, <2>2 DEF Grow
<1>6. Reshape(<<leaf>>, k)
  BY <1>2, <1>5 DEF Reshape, Top
<1> QED
  BY <1>6, Reshaped

(* popOp: a binary operator takes the two operands on top of the stack.    *)
LEMMA BinaryFolded ==
  ASSUME HeapOK, NEW o \in Binary, o # Neg, Len(operands) >= 2, Fold(o)
  PROVE  HeapOK'
<1>1. PICK n : n = Len(operands)
  OBVIOUS
<1>2. PICK node : node = Node(o, operands[n - 1], operands[n])
  OBVIOUS
<1>3. /\ nodes \in Seq(NodeRec) /\ operands \in Seq(Nat) /\ n \in Nat /\ n >= 2 /\ Len(nodes) \in Nat
      /\ n - 1 \in DOMAIN operands /\ n \in DOMAIN operands
  BY <1>1 DEF HeapOK
<1>4. /\ node = [op |-> o, left |-> operands[n - 1], right |-> operands[n]]
      /\ operands[n - 1] \in Nat /\ operands[n] \in Nat
  BY <1>2, <1>3 DEF Node
<1>5. node \in NodeRec
  BY <1>4 DEF NodeRec
<1>6. node.left = operands[n - 1] /\ node.right = operands[n]
  BY <1>4
<1>7. Arity(o) = 2
  BY DEF Arity
<1>8. Grow(<<node>>, n - 2)
  <2>1. nodes' = Append(nodes, node) /\ operands' = Append(SubSeq(operands, 1, n - 2), Len(nodes) + 1)
    BY <1>1, <1>2, <1>7 DEF Fold
  <2>2. nodes' = nodes \o <<node>>
    BY <1>3, <1>5, <2>1
  <2> QED
    BY <1>1, <1>3, <1>5, <2>1, <2>2 DEF Grow
<1>9. Top(node, n - 2, Len(nodes) + 1)
  <2>1. operands[n - 1] # operands[n]
    BY <1>3 DEF HeapOK
  <2>2. n - 1 \in n - 2 + 1 .. Len(operands) /\ n \in n - 2 + 1 .. Len(operands)
    BY <1>1, <1>3
  <2> QED
    BY <1>6, <2>1, <2>2 DEF Top, Taken
<1>10. Reshape(<<node>>, n - 2)
  BY <1>3, <1>8, <1>9 DEF Reshape
<1> QED
  BY <1>10, Reshaped

(* popOp: a negation is a subtraction from a zero of its own.              *)
LEMMA NegationFolded ==
  ASSUME HeapOK, Len(operands) >= 1, Fold(Neg)
  PROVE  HeapOK'
<1>1. PICK n : n = Len(operands)
  OBVIOUS
<1>2. PICK node : node = Node(Minus, Len(nodes) + 1, operands[n])
  OBVIOUS
<1>3. PICK zero : zero = ZeroLeaf
  OBVIOUS
<1>4. /\ nodes \in Seq(NodeRec) /\ operands \in Seq(Nat) /\ n \in Nat /\ n >= 1 /\ Len(nodes) \in Nat
      /\ n \in DOMAIN operands
  BY <1>1 DEF HeapOK
<1>5. /\ node = [op |-> Minus, left |-> Len(nodes) + 1, right |-> operands[n]]
      /\ operands[n] \in Nat
  BY <1>2, <1>4 DEF Node
<1>6. node \in NodeRec /\ node.left = Len(nodes) + 1 /\ node.right = operands[n]
  <2>1. Minus \in Binary
    BY Signs
  <2> QED
    BY <1>4, <1>5, <2>1 DEF NodeRec
<1>7. zero \in NodeRec /\ zero.op = NoOp
  BY <1>3 DEF ZeroLeaf, Leaf, NodeRec
<1>8. Grow(<<zero, node>>, n - 1)
  <2>1. nodes' = nodes \o <<zero, node>> /\ operands' = Append(SubSeq(operands, 1, n - 1), Len(nodes) + 2)
    BY <1>1, <1>2, <1>3 DEF Fold, Arity
  <2> QED
    BY <1>1, <1>4, <1>6, <1>7, <2>1 DEF Grow
<1>9. Top(node, n - 1, Len(nodes) + 2)
  <2>1. operands[n] # Len(nodes) + 1
    BY <1>4 DEF HeapOK
  <2>2. n \in n - 1 + 1 .. Len(operands) /\ Len(nodes) + 1 \in Len(nodes) + 1 .. Len(nodes) + 2 - 1
    BY <1>1, <1>4
  <2> QED
    BY <1>6, <2>1, <2>2 DEF Top, Taken
<1>10. Reshape(<<zero, node>>, n - 1)
  <2>1. /\ Len(<<zero, node>>) = 2 /\ <<zero, node>>[2] = node
        /\ \A j \in 1 .. 2 - 1 : <<zero, node>>[j] = zero
    OBVIOUS
  <2> QED
    BY <1>7, <1>8, <1>9, <2>1 DEF Reshape
<1> QED
  BY <1>10, Reshaped

-----------------------------------------------------------------------------
(* What was planned is the order of the operations below the root.         *)
Planned ==
    stage = "planned" =>
        /\ operands[1] \in DOMAIN nodes
        /\ \E s : OrderOK(operands[1], s) /\ plan = Tasks(s)

ParserInv ==
    /\ HeapOK
    /\ ops \in Seq(Binary \cup {Neg, LParen})
    /\ stage = "building" => pos \in Nat
    /\ Planned

LEMMA FrontOf ==
  ASSUME NEW S, NEW s \in Seq(S), s # <<>>
  PROVE  Front(s) \in Seq(S) /\ Last(s) \in S
BY DEF Front, Last

LEMMA ParserInvInit == ParserInit => ParserInv
<1> SUFFICES ASSUME ParserInit PROVE ParserInv
  OBVIOUS
<1>1. /\ nodes = <<>> /\ operands = <<>> /\ ops = <<>> /\ pos = 1 /\ stage = "submitted"
  BY DEF ParserInit
<1>2. Inner = {}
  BY <1>1 DEF Inner
<1>3. HeapOK
  BY <1>1, <1>2 DEF HeapOK
<1> QED
  BY <1>1, <1>3 DEF ParserInv, Planned

LEMMA SameHeap ==
  ASSUME nodes' = nodes
  PROVE  /\ Inner' = Inner
         /\ \A n \in Inner : Kids(n)' = Kids(n)
         /\ \A s : Tasks(s)' = Tasks(s)
         /\ \A n, s : OrderOK(n, s) => OrderOK(n, s)'
<1>1. Inner' = Inner /\ \A n \in Inner : Kids(n)' = Kids(n)
  BY DEF Inner, Kids, IsLeaf
<1>2. ASSUME NEW s PROVE Tasks(s)' = Tasks(s)
  <2>1. \A n : IsLeaf(n)' = IsLeaf(n)
    BY DEF IsLeaf
  <2>2. \A n : Arg(s, n)' = Arg(s, n)
    BY DEF Arg, IsLeaf
  <2> QED
    BY <2>1, <2>2 DEF Tasks
<1>3. ASSUME NEW n, NEW s, OrderOK(n, s) PROVE OrderOK(n, s)'
  BY <1>1, <1>3 DEF OrderOK
<1> QED
  BY <1>1, <1>2, <1>3

LEMMA SameHeapOK ==
  ASSUME HeapOK, nodes' = nodes, operands' = operands
  PROVE  HeapOK'
BY SameHeap DEF HeapOK

(* A step that leaves the heap alone and plans nothing.                    *)
LEMMA HeapUntouched ==
  ASSUME ParserInv, nodes' = nodes, operands' = operands,
         ops' \in Seq(Binary \cup {Neg, LParen}),
         stage' # "planned", stage' = "building" => pos' \in Nat
  PROVE  ParserInv'
<1>1. HeapOK'
  BY SameHeapOK DEF ParserInv
<1> QED
  BY <1>1 DEF ParserInv, Planned

LEMMA PopKeeps ==
  ASSUME ParserInv, stage = "building", ops # <<>>, Last(ops) # LParen, PopOrReject
  PROVE  ParserInv'
<1>1. /\ HeapOK /\ ops \in Seq(Binary \cup {Neg, LParen}) /\ pos \in Nat
  BY DEF ParserInv
<1>2. Last(ops) \in Binary \cup {Neg} /\ Front(ops) \in Seq(Binary \cup {Neg, LParen})
  <2>1. Last(ops) \in Binary \cup {Neg, LParen} /\ Front(ops) \in Seq(Binary \cup {Neg, LParen})
    BY <1>1, FrontOf, Zenon
  <2> QED
    BY <2>1
<1>3. CASE Len(operands) < Arity(Last(ops))
  <2>1. Reject
    BY <1>3 DEF PopOrReject
  <2>2. stage' = "rejected" /\ nodes' = nodes /\ operands' = operands /\ ops' = ops
    BY <2>1 DEF Reject
  <2> QED
    BY <1>1, <2>2, HeapUntouched
<1>4. CASE ~ (Len(operands) < Arity(Last(ops)))
  <2>1. Fold(Last(ops)) /\ ops' = Front(ops) /\ stage' = stage /\ pos' = pos
    BY <1>4 DEF PopOrReject
  <2>2. Len(operands) \in Nat
    BY <1>1 DEF HeapOK
  <2>3. HeapOK'
    <3>1. CASE Last(ops) = Neg
      <4>1. Len(operands) >= 1
        BY <1>4, <2>2, <3>1 DEF Arity
      <4> QED
        BY <1>1, <2>1, <3>1, <4>1, NegationFolded
    <3>2. CASE Last(ops) # Neg
      <4>1. PICK o : o = Last(ops)
        OBVIOUS
      <4>2. Len(operands) >= 2
        BY <1>4, <2>2, <3>2 DEF Arity
      <4>3. o \in Binary /\ o # Neg /\ Fold(o)
        BY <1>2, <2>1, <3>2, <4>1
      <4> QED
        BY <1>1, <4>2, <4>3, BinaryFolded
    <3> QED
      BY <3>1, <3>2
  <2> QED
    BY <1>1, <1>2, <2>1, <2>3 DEF ParserInv, Planned
<1> QED
  BY <1>3, <1>4

LEMMA PushKeeps ==
  ASSUME ParserInv, stage = "building", NEW t \in Binary \cup {Neg, LParen}, Push(t)
  PROVE  ParserInv'
<1>1. /\ ops' = Append(ops, t) /\ nodes' = nodes /\ operands' = operands
      /\ stage' = stage /\ pos' = pos + 1
  BY DEF Push, Advance
<1>2. ops \in Seq(Binary \cup {Neg, LParen}) /\ pos \in Nat
  BY DEF ParserInv
<1>3. ops' \in Seq(Binary \cup {Neg, LParen}) /\ pos' \in Nat
  BY <1>1, <1>2
<1> QED
  BY <1>1, <1>3, HeapUntouched

LEMMA FeedKeeps == ASSUME ParserInv, Feed PROVE ParserInv'
<1>1. /\ HeapOK /\ ops \in Seq(Binary \cup {Neg, LParen}) /\ pos \in Nat /\ stage = "building"
  BY DEF ParserInv, Feed
<1>2. PICK t : t = tokens[pos]
  OBVIOUS
<1>3. CASE /\ nodes' = Append(nodes, Leaf(pos))
           /\ operands' = Append(operands, Len(nodes) + 1)
           /\ UNCHANGED ops /\ Advance
  <2>1. PICK i \in Nat : i = pos
    BY <1>1
  <2>2. HeapOK'
    BY <1>1, <1>3, <2>1, LeafPushed
  <2>3. stage' = stage /\ pos' = pos + 1 /\ ops' = ops
    BY <1>3 DEF Advance
  <2> QED
    BY <1>1, <2>2, <2>3 DEF ParserInv, Planned
<1>4. CASE /\ t \in Binary \cup {Neg}
           /\ IF ops # <<>> /\ ShouldPop(Last(ops), t) THEN PopOrReject ELSE Push(t)
  <2>1. CASE ops # <<>> /\ ShouldPop(Last(ops), t)
    <3>1. Last(ops) # LParen
      BY <2>1 DEF ShouldPop
    <3> QED
      BY <1>1, <1>4, <2>1, <3>1, PopKeeps
  <2>2. CASE ~ (ops # <<>> /\ ShouldPop(Last(ops), t))
    <3>1. Push(t) /\ t \in Binary \cup {Neg, LParen}
      BY <1>4, <2>2
    <3> QED
      BY <1>1, <3>1, PushKeeps
  <2> QED
    BY <2>1, <2>2
<1>5. CASE t = LParen /\ Push(t)
  <2>1. t \in Binary \cup {Neg, LParen}
    BY <1>5
  <2> QED
    BY <1>1, <1>5, <2>1, PushKeeps
<1>6. CASE IF ops = <<>> THEN Reject
           ELSE IF Last(ops) # LParen THEN PopOrReject
           ELSE ops' = Front(ops) /\ UNCHANGED <<nodes, operands>> /\ Advance
  <2>1. CASE ops = <<>>
    <3>1. stage' = "rejected" /\ nodes' = nodes /\ operands' = operands /\ ops' = ops
      BY <1>6, <2>1 DEF Reject
    <3> QED
      BY <1>1, <3>1, HeapUntouched
  <2>2. CASE ops # <<>> /\ Last(ops) # LParen
    BY <1>1, <1>6, <2>2, PopKeeps
  <2>3. CASE ops # <<>> /\ Last(ops) = LParen
    <3>1. ops' = Front(ops) /\ UNCHANGED <<nodes, operands>> /\ Advance
      BY <1>6, <2>3
    <3>2. Front(ops) \in Seq(Binary \cup {Neg, LParen})
      BY <1>1, <2>3, FrontOf, Zenon
    <3>3. stage' = stage /\ pos' = pos + 1 /\ nodes' = nodes /\ operands' = operands
      BY <3>1 DEF Advance
    <3> QED
      BY <1>1, <3>1, <3>2, <3>3, HeapUntouched
  <2> QED
    BY <2>1, <2>2, <2>3
<1> QED
  BY <1>2, <1>3, <1>4, <1>5, <1>6, Zenon DEF Feed

LEMMA MakePlanKeeps == ASSUME ParserInv, MakePlan PROVE ParserInv'
<1>1. HeapOK /\ ops \in Seq(Binary \cup {Neg, LParen})
  BY DEF ParserInv
<1>2. CASE Reject
  <2>1. stage' = "rejected" /\ nodes' = nodes /\ operands' = operands /\ ops' = ops
    BY <1>2 DEF Reject
  <2> QED
    BY <1>1, <2>1, HeapUntouched
<1>3. CASE /\ Len(operands) = 1
           /\ plan' = Plan(operands[1])
           /\ stage' = "planned"
           /\ UNCHANGED <<raw, pos, tokens, nodes, operands, ops>>
  <2>1. PICK root : root = operands[1]
    OBVIOUS
  <2>2. root \in DOMAIN nodes
    <3>1. 1 \in DOMAIN operands
      BY <1>1, <1>3 DEF HeapOK
    <3> QED
      BY <1>1, <2>1, <3>1 DEF HeapOK
  <2>3. PICK s : s = PostOrder[root]
    OBVIOUS
  <2>4. OrderOK(root, s) /\ plan' = Tasks(s)
    BY <1>1, <1>3, <2>1, <2>2, <2>3, PostOrderOK DEF Plan
  <2>5. OrderOK(root, s)' /\ plan' = Tasks(s)'
    BY <1>3, <2>4, SameHeap
  <2>6. operands'[1] = root /\ root \in DOMAIN nodes'
    BY <1>3, <2>1, <2>2
  <2>7. Planned'
    BY <2>5, <2>6 DEF Planned
  <2>8. HeapOK'
    BY <1>1, <1>3, SameHeapOK
  <2> QED
    BY <1>1, <1>3, <2>7, <2>8 DEF ParserInv
<1> QED
  BY <1>2, <1>3, Zenon DEF MakePlan

LEMMA ParserInvStep == ASSUME ParserInv, [ParserNext]_parserVars PROVE ParserInv'
<1>1. ops \in Seq(Binary \cup {Neg, LParen})
  BY DEF ParserInv
<1>2. CASE Reject
  <2>1. stage' = "rejected" /\ nodes' = nodes /\ operands' = operands /\ ops' = ops
    BY <1>2 DEF Reject
  <2> QED
    BY <1>1, <2>1, HeapUntouched
<1>3. CASE Validate
  <2>1. \/ Reject
        \/ stage' = "scanning" /\ nodes' = nodes /\ operands' = operands /\ ops' = ops
    BY <1>3, Zenon DEF Validate
  <2> QED
    BY <1>1, <1>2, <2>1, HeapUntouched
<1>4. CASE Scan
  <2>1. \/ Reject
        \/ stage' = stage /\ nodes' = nodes /\ operands' = operands /\ ops' = ops
    BY <1>4, Zenon DEF Scan, Emit
  <2>2. stage = "scanning"
    BY <1>4 DEF Scan
  <2> QED
    BY <1>1, <1>2, <2>1, <2>2, HeapUntouched
<1>5. CASE EndScan
  <2>1. stage' = "building" /\ pos' = 1 /\ nodes' = nodes /\ operands' = operands /\ ops' = ops
    BY <1>5 DEF EndScan
  <2> QED
    BY <1>1, <2>1, HeapUntouched
<1>6. CASE Feed
  BY <1>6, FeedKeeps
<1>7. CASE Drain
  <2>1. stage = "building" /\ ops # <<>> /\ (Reject \/ (Last(ops) # LParen /\ PopOrReject))
    BY <1>7, Zenon DEF Drain
  <2> QED
    BY <1>2, <2>1, PopKeeps
<1>8. CASE MakePlan
  BY <1>8, MakePlanKeeps
<1>9. CASE UNCHANGED parserVars
  <2>1. /\ stage' = stage /\ pos' = pos /\ nodes' = nodes /\ operands' = operands
        /\ ops' = ops /\ plan' = plan
    BY <1>9 DEF parserVars
  <2>2. HeapOK'
    BY <2>1, SameHeapOK DEF ParserInv
  <2>3. Planned'
    BY <2>1, SameHeap DEF ParserInv, Planned
  <2> QED
    BY <2>1, <2>2, <2>3 DEF ParserInv
<1> QED
  BY <1>3, <1>4, <1>5, <1>6, <1>7, <1>8, <1>9 DEF ParserNext

(* Whatever text is submitted, what Plan hands to the database is a tree:  *)
(* tasks come after the tasks they wait for, every task but the last is    *)
(* waited for by exactly one other, and unmet_deps counts those waited     *)
(* for.  This is what the rest of the system assumes of its plans.         *)
THEOREM PlansAreTrees == ParserSpec => []PlanIsATree
<1>1. ParserInv => PlanIsATree
  BY TasksFormATree DEF ParserInv, Planned, PlanIsATree
<1> QED
  BY <1>1, ParserInvInit, ParserInvStep, PTL DEF ParserSpec

(* A plan in the terms of module Plan, whose PlanAssumption and, in        *)
(* FanInTransactions, TreeAssumption stand for what the planner returns.   *)
AsAssumed(p) ==
    /\ \A i \in DOMAIN p : p[i].op \in Binary /\ TaskArgs(p[i]) \subseteq DOMAIN p
    /\ \A S \in (SUBSET DOMAIN p) \ {{}} : \E i \in S : TaskArgs(p[i]) \cap S = {}
    /\ \A i \in DOMAIN p : i = Len(p) \/ \E j \in DOMAIN p : i \in TaskArgs(p[j])
    /\ \A i, j, k \in DOMAIN p : i \in TaskArgs(p[j]) /\ i \in TaskArgs(p[k]) => j = k

LEMMA TreesAreAsAssumed ==
  ASSUME NEW p, DOMAIN p = 1 .. Len(p), Len(p) \in Nat, IsTree(p)
  PROVE  AsAssumed(p)
<1>1. \A i \in DOMAIN p : p[i].op \in Binary /\ \A j \in TaskArgs(p[i]) : j \in DOMAIN p /\ j < i
  BY DEF IsTree
<1>2. ASSUME NEW S \in (SUBSET DOMAIN p) \ {{}}
      PROVE  \E i \in S : TaskArgs(p[i]) \cap S = {}
  <2>1. S \in SUBSET Nat /\ S # {}
    OBVIOUS
  <2>2. PICK i \in S : \A j \in S : i <= j
    BY <2>1, LeastNat
  <2>3. ASSUME NEW j \in TaskArgs(p[i]) \cap S PROVE FALSE
    BY <1>1, <2>1, <2>2
  <2> QED
    BY <2>3
<1>3. ASSUME NEW i \in DOMAIN p, i # Len(p)
      PROVE  \E k : {j \in DOMAIN p : i \in TaskArgs(p[j])} = {k}
  <2> DEFINE Waiting == {j \in DOMAIN p : i \in TaskArgs(p[j])}
  <2>1. Cardinality(Waiting) = 1
    <3>1. i < Len(p)
      BY <1>3
    <3> QED
      BY <3>1 DEF IsTree
  <2>2. IsFiniteSet(Waiting)
    <3>1. IsFiniteSet(1 .. Len(p))
      BY FS_Interval
    <3>2. Waiting \subseteq 1 .. Len(p)
      OBVIOUS
    <3> QED
      BY <3>1, <3>2, FS_Subset, Zenon
  <2> QED
    BY <2>1, <2>2, FS_Singleton, Zenon
<1>4. \A i \in DOMAIN p : i = Len(p) \/ \E j \in DOMAIN p : i \in TaskArgs(p[j])
  BY <1>3
<1>5. ASSUME NEW i \in DOMAIN p, NEW j \in DOMAIN p, NEW k \in DOMAIN p,
             i \in TaskArgs(p[j]), i \in TaskArgs(p[k])
      PROVE  j = k
  <2>1. CASE i = Len(p)
    <3>1. i < j
      BY <1>1, <1>5
    <3> QED
      BY <2>1, <3>1
  <2>2. CASE i # Len(p)
    BY <1>3, <1>5, <2>2
  <2> QED
    BY <2>1, <2>2
<1> QED
  BY <1>1, <1>2, <1>4, <1>5 DEF AsAssumed

(* The planner's output has the shape that module Plan assumes: of any set *)
(* of its tasks one waits for none of the others (no task waits for itself *)
(* through others), the root is the only task no other waits for, and no   *)
(* task is waited for twice.                                               *)
THEOREM PlansAreAsAssumed == ParserSpec => [](stage = "planned" => AsAssumed(plan))
<1>1. ParserInv => (stage = "planned" => AsAssumed(plan))
  BY TasksFormATree, TreesAreAsAssumed DEF ParserInv, Planned
<1> QED
  BY <1>1, ParserInvInit, ParserInvStep, PTL DEF ParserSpec

(* The planner's output means what was parsed: the last task, with what    *)
(* the tasks it waits for compute, computes the syntax tree, and there is  *)
(* no task, and an immediate answer, only for a single literal.            *)
THEOREM PlansComputeTheirTree == ParserSpec => []PlanComputesTheTree
<1>1. ParserInv => PlanComputesTheTree
  BY LastTaskComputes DEF ParserInv, Planned, PlanComputesTheTree
<1> QED
  BY <1>1, ParserInvInit, ParserInvStep, PTL DEF ParserSpec
=============================================================================
