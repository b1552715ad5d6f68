------------------------------ MODULE FlowFacts ------------------------------
(***************************************************************************)
(* What every step of a flow preserves, stated once for the three flows    *)
(* that are instances of module Flow.  A flow is seen as a record of the   *)
(* sets of copies in its queues and the hands of its consumers, and a step *)
(* as a relation between two such records: the bags of module Flow matter  *)
(* to no proof, only what is in them.  The proofs about a flow show that   *)
(* its actions are such steps.                                             *)
(***************************************************************************)
EXTENDS Integers, BagsExt, TLAPS

AtRest == [stage |-> "idle"]
Stage  == {"handling", "park", "bury", "ack", "nack"}
Busy(S) == [stage : Stage, copy : S, owned : BOOLEAN]

(* The copy that is parked for a retry, and the one that is redriven.      *)
Again(copy)  == [body |-> copy.body, attempt |-> copy.attempt + 1]
Afresh(copy) == [body |-> copy.body, attempt |-> 0]

(* Only copies of S are in the flow f with the consumers C, and what is    *)
(* about to be parked may still be retried.                                *)
HandsTyped(f, C, S) ==
    /\ f.hand \in [C -> {AtRest} \cup Busy(S)]
    /\ \A c \in C : f.hand[c].stage = "park" => Again(f.hand[c].copy) \in S
Typed(f, C, S) ==
    /\ f.ready \subseteq S /\ f.waiting \subseteq S /\ f.dead \subseteq S
    /\ HandsTyped(f, C, S)

(* A copy stays in the flow while it is queued, or in the hands of an owner*)
(* who is not about to ack it.                                             *)
Firm(hand) == hand.stage \in Stage \ {"ack"} /\ hand.owned
Kept(f, C, b) ==
    \/ \E copy \in f.ready \cup f.waiting \cup f.dead : copy.body = b
    \/ \E c \in C : Firm(f.hand[c]) /\ f.hand[c].copy.body = b

(* The dead letters and the copies about to become dead letters; the parked*)
(* copies and those about to be parked.                                    *)
Doomed(f, C) == f.dead \cup {f.hand[c].copy : c \in {d \in C : f.hand[d].stage = "bury"}}
Deferred(f, C) ==
    f.waiting \cup {Again(f.hand[c].copy) : c \in {d \in C : f.hand[d].stage = "park"}}

-----------------------------------------------------------------------------
(* The steps.  Added: a queue accepted a copy.  Lessened: a queue lost one *)
(* occurrence of a copy, and may hold others.                              *)
Added(q, r, copy)    == r = q \cup {copy}
Lessened(q, r, copy) == copy \in q /\ r \subseteq q /\ q \subseteq r \cup {copy}

Arrive(f, g, copy) ==
    /\ g.ready = f.ready \/ Added(f.ready, g.ready, copy)
    /\ g.waiting = f.waiting /\ g.dead = f.dead /\ g.hand = f.hand

Others(f, g, C, c) == \A d \in C \ {c} : g.hand[d] = f.hand[d]

Rest(f, g, c) == g.hand = [f.hand EXCEPT ![c] = AtRest]

Restage(f, g, c, s) ==
    /\ f.hand[c].stage \in Stage
    /\ g.hand = [f.hand EXCEPT ![c].stage = s]

Decide(f, g, c, s) ==
    /\ Restage(f, g, c, s)
    /\ g.ready = f.ready /\ g.waiting = f.waiting /\ g.dead = f.dead

Deliver1(f, g, c) ==
    /\ \E copy : /\ Lessened(f.ready, g.ready, copy)
                 /\ g.hand = [f.hand EXCEPT ![c] =
                                 [stage |-> "handling", copy |-> copy, owned |-> TRUE]]
    /\ f.hand[c] = AtRest
    /\ g.waiting = f.waiting /\ g.dead = f.dead

Park1(f, g, c) ==
    /\ f.hand[c].stage = "park"
    /\ \/ Added(f.waiting, g.waiting, Again(f.hand[c].copy)) /\ Restage(f, g, c, "ack")
       \/ /\ g.waiting = f.waiting \/ Added(f.waiting, g.waiting, Again(f.hand[c].copy))
          /\ Restage(f, g, c, "nack")
    /\ g.ready = f.ready /\ g.dead = f.dead

Bury1(f, g, c) ==
    /\ f.hand[c].stage = "bury"
    /\ \/ Added(f.dead, g.dead, f.hand[c].copy) /\ Restage(f, g, c, "ack")
       \/ /\ g.dead = f.dead \/ Added(f.dead, g.dead, f.hand[c].copy)
          /\ Restage(f, g, c, "nack")
    /\ g.ready = f.ready /\ g.waiting = f.waiting

Release(f, g, c) ==
    /\ f.hand[c].stage \in Stage
    /\ \/ Rest(f, g, c)
       \/ g.hand = [f.hand EXCEPT ![c].owned = FALSE]
    /\ IF f.hand[c].owned THEN Added(f.ready, g.ready, f.hand[c].copy) ELSE g.ready = f.ready
    /\ g.waiting = f.waiting /\ g.dead = f.dead

Settle1(f, g, c) ==
    /\ f.hand[c].stage = "ack"
    /\ Rest(f, g, c)
    /\ g.ready = f.ready /\ g.waiting = f.waiting /\ g.dead = f.dead

Hop(f, g, c) ==
    \/ Deliver1(f, g, c) \/ Park1(f, g, c) \/ Bury1(f, g, c) \/ Settle1(f, g, c)
    \/ Release(f, g, c) \/ Decide(f, g, c, "nack")

Move(f, g) ==
    /\ g.hand = f.hand
    /\ \E copy :
          \/ /\ Lessened(f.waiting, g.waiting, copy) /\ Added(f.ready, g.ready, copy)
             /\ g.dead = f.dead
          \/ /\ copy \in f.dead
             /\ \/ g.dead = f.dead
                   /\ (g.ready = f.ready \/ Added(f.ready, g.ready, Afresh(copy)))
                \/ Lessened(f.dead, g.dead, copy) /\ Added(f.ready, g.ready, Afresh(copy))
             /\ g.waiting = f.waiting

-----------------------------------------------------------------------------
(* Bags.                                                                   *)
LEMMA BagAddDomain ==
  ASSUME NEW q, NEW copy
  PROVE  Added(DOMAIN q, DOMAIN BagAdd(q, copy), copy)
BY DEF BagAdd, Added

LEMMA BagRemoveDomain ==
  ASSUME NEW q, NEW copy \in DOMAIN q
  PROVE  Lessened(DOMAIN q, DOMAIN BagRemove(q, copy), copy)
BY DEF BagRemove, Lessened

(* Nothing leaves a flow in which each queued body is queued again, and a  *)
(* firm hand stays as it is or has queued its body.                        *)
Queues(f) == f.ready \cup f.waiting \cup f.dead
LEMMA KeptBy ==
  ASSUME NEW f, NEW g, NEW C, NEW b, Kept(f, C, b),
         \A x \in Queues(f) : \E y \in Queues(g) : y.body = x.body,
         \A d \in C : Firm(f.hand[d]) => \/ g.hand[d] = f.hand[d]
                                         \/ /\ Firm(g.hand[d])
                                            /\ g.hand[d].copy = f.hand[d].copy
                                         \/ \E y \in Queues(g) : y.body = f.hand[d].copy.body
                                         \/ f.hand[d].copy.body # b
  PROVE  Kept(g, C, b)
<1>1. CASE \E copy \in Queues(f) : copy.body = b
  BY <1>1 DEF Kept, Queues
<1>2. CASE \E d \in C : Firm(f.hand[d]) /\ f.hand[d].copy.body = b
  <2>1. PICK d \in C : Firm(f.hand[d]) /\ f.hand[d].copy.body = b
    BY <1>2
  <2>2. CASE g.hand[d] = f.hand[d] \/ (Firm(g.hand[d]) /\ g.hand[d].copy = f.hand[d].copy)
    BY <2>1, <2>2 DEF Kept
  <2>3. CASE \E y \in Queues(g) : y.body = f.hand[d].copy.body
    BY <2>1, <2>3 DEF Kept, Queues
  <2> QED
    BY <2>1, <2>2, <2>3
<1> QED
  BY <1>1, <1>2 DEF Kept, Queues

LEMMA DoomedBy ==
  ASSUME NEW f, NEW g, NEW C, NEW X, g.dead \subseteq Doomed(f, C) \cup X,
         \A d \in C : g.hand[d].stage = "bury" => \/ g.hand[d] = f.hand[d]
                                                  \/ g.hand[d].copy \in Doomed(f, C) \cup X
  PROVE  Doomed(g, C) \subseteq Doomed(f, C) \cup X
<1> SUFFICES ASSUME NEW d \in C, g.hand[d].stage = "bury", g.hand[d] = f.hand[d]
             PROVE  g.hand[d].copy \in Doomed(f, C)
  BY DEF Doomed
<1> QED
  BY DEF Doomed

LEMMA DeferredBy ==
  ASSUME NEW f, NEW g, NEW C, NEW X, g.waiting \subseteq Deferred(f, C) \cup X,
         \A d \in C : g.hand[d].stage = "park" => \/ g.hand[d] = f.hand[d]
                                                  \/ Again(g.hand[d].copy) \in Deferred(f, C) \cup X
  PROVE  Deferred(g, C) \subseteq Deferred(f, C) \cup X
<1> SUFFICES ASSUME NEW d \in C, g.hand[d].stage = "park", g.hand[d] = f.hand[d]
             PROVE  Again(g.hand[d].copy) \in Deferred(f, C)
  BY DEF Deferred
<1> QED
  BY DEF Deferred

-----------------------------------------------------------------------------
(* A hand that changes stage, or is put to rest, keeps its type, and so do *)
(* all the others.                                                         *)
LEMMA HandOf ==
  ASSUME NEW f, NEW C, NEW S, Typed(f, C, S), NEW c \in C, f.hand[c].stage \in Stage
  PROVE  f.hand[c] \in Busy(S) /\ f.hand[c] # AtRest
BY DEF Typed, HandsTyped, AtRest, Stage

LEMMA RestageTyped ==
  ASSUME NEW f, NEW g, NEW C, NEW S, Typed(f, C, S), NEW c \in C, NEW s \in Stage,
         Restage(f, g, c, s), s = "park" => Again(f.hand[c].copy) \in S
  PROVE  /\ HandsTyped(g, C, S)
         /\ g.hand[c] = [stage |-> s, copy |-> f.hand[c].copy, owned |-> f.hand[c].owned]
         /\ Others(f, g, C, c)
<1>1. f.hand[c] \in Busy(S)
  BY HandOf DEF Restage
<1>2. f.hand \in [C -> {AtRest} \cup Busy(S)]
  BY DEF Typed, HandsTyped
<1>3. /\ g.hand[c] = [stage |-> s, copy |-> f.hand[c].copy, owned |-> f.hand[c].owned]
      /\ Others(f, g, C, c)
      /\ g.hand = [d \in C |-> g.hand[d]]
  BY <1>1, <1>2 DEF Restage, Busy, Others
<1>4. g.hand[c] \in Busy(S)
  BY <1>1, <1>3 DEF Busy
<1>5. g.hand \in [C -> {AtRest} \cup Busy(S)]
  BY <1>2, <1>3, <1>4 DEF Others
<1>6. \A d \in C : g.hand[d].stage = "park" => Again(g.hand[d].copy) \in S
  BY <1>3 DEF Typed, HandsTyped, Others
<1> QED
  BY <1>3, <1>5, <1>6 DEF HandsTyped

LEMMA RestTyped ==
  ASSUME NEW f, NEW g, NEW C, NEW S, Typed(f, C, S), NEW c \in C,
         Rest(f, g, c)
  PROVE  /\ HandsTyped(g, C, S)
         /\ g.hand[c].stage = "idle"
         /\ Others(f, g, C, c)
BY DEF Typed, HandsTyped, AtRest, Rest, Others

-----------------------------------------------------------------------------
(* What a step is worth to a flow: types are kept, no body leaves it, and  *)
(* no copy is doomed or parked that was not.                               *)
Sound(f, g, C, S) ==
    /\ Typed(g, C, S)
    /\ \A b : Kept(f, C, b) => Kept(g, C, b)
    /\ Doomed(g, C) \subseteq Doomed(f, C)
    /\ Deferred(g, C) \subseteq Deferred(f, C)

LEMMA ArriveSound ==
  ASSUME NEW f, NEW g, NEW C, NEW S, Typed(f, C, S), NEW copy,
         Arrive(f, g, copy), g.ready = f.ready \/ copy \in S
  PROVE  /\ Sound(f, g, C, S)
         /\ g.ready # f.ready => Kept(g, C, copy.body)
BY DEF Arrive, Added, Sound, Typed, HandsTyped, Kept, Doomed, Deferred

LEMMA MoveSound ==
  ASSUME NEW f, NEW g, NEW C, NEW S, Typed(f, C, S), Move(f, g),
         \A copy \in S : Afresh(copy) \in S
  PROVE  Sound(f, g, C, S)
<1>1. PICK copy :
          \/ /\ Lessened(f.waiting, g.waiting, copy) /\ Added(f.ready, g.ready, copy)
             /\ g.dead = f.dead
          \/ /\ copy \in f.dead
             /\ \/ g.dead = f.dead
                   /\ (g.ready = f.ready \/ Added(f.ready, g.ready, Afresh(copy)))
                \/ Lessened(f.dead, g.dead, copy) /\ Added(f.ready, g.ready, Afresh(copy))
             /\ g.waiting = f.waiting
  BY DEF Move
<1>2. g.hand = f.hand
  BY DEF Move
<1>3. Afresh(copy).body = copy.body
  BY DEF Afresh
<1>4. f.ready \subseteq g.ready /\ g.waiting \subseteq f.waiting /\ g.dead \subseteq f.dead
  BY <1>1 DEF Lessened, Added
<1>5. g.ready \subseteq f.ready \cup {copy, Afresh(copy)}
  BY <1>1 DEF Added
<1>6. copy \in S /\ Afresh(copy) \in S
  BY <1>1 DEF Lessened, Typed
<1>7. Typed(g, C, S)
  BY <1>2, <1>4, <1>5, <1>6 DEF Typed, HandsTyped
<1>8. \A x \in f.ready \cup f.waiting \cup f.dead :
         \E y \in g.ready \cup g.waiting \cup g.dead : y.body = x.body
  BY <1>1, <1>3 DEF Lessened, Added
<1>9. \A b : Kept(f, C, b) => Kept(g, C, b)
  BY <1>2, <1>8 DEF Kept
<1> QED
  BY <1>2, <1>4, <1>7, <1>9 DEF Sound, Doomed, Deferred

(* A handler returns: its delivery is acked, parked or buried.             *)
LEMMA DecideSound ==
  ASSUME NEW f, NEW g, NEW C, NEW S, Typed(f, C, S), NEW c \in C, NEW s \in Stage,
         Decide(f, g, c, s), s = "park" => Again(f.hand[c].copy) \in S
  PROVE  /\ Typed(g, C, S)
         /\ \A b : Kept(f, C, b) => \/ Kept(g, C, b)
                                    \/ s = "ack" /\ b = f.hand[c].copy.body
         /\ Doomed(g, C) \subseteq
               Doomed(f, C) \cup (IF s = "bury" THEN {f.hand[c].copy} ELSE {})
         /\ Deferred(g, C) \subseteq
               Deferred(f, C) \cup (IF s = "park" THEN {Again(f.hand[c].copy)} ELSE {})
<1>1. /\ HandsTyped(g, C, S)
      /\ g.hand[c] = [stage |-> s, copy |-> f.hand[c].copy, owned |-> f.hand[c].owned]
      /\ Others(f, g, C, c)
  BY RestageTyped DEF Decide
<1>2. g.ready = f.ready /\ g.waiting = f.waiting /\ g.dead = f.dead
  BY DEF Decide
<1>3. Typed(g, C, S)
  BY <1>1, <1>2 DEF Typed
<1>4. ASSUME NEW b, Kept(f, C, b), s # "ack" \/ b # f.hand[c].copy.body
      PROVE  Kept(g, C, b)
  <2>1. Queues(g) = Queues(f)
    BY <1>2 DEF Queues
  <2>2. Firm(f.hand[c]) => Firm(g.hand[c]) \/ s = "ack"
    BY <1>1 DEF Firm, Stage
  <2>3. \A x \in Queues(f) : \E y \in Queues(g) : y.body = x.body
    BY <2>1
  <2>4. \A d \in C : Firm(f.hand[d]) => \/ g.hand[d] = f.hand[d]
                                        \/ /\ Firm(g.hand[d])
                                           /\ g.hand[d].copy = f.hand[d].copy
                                        \/ \E y \in Queues(g) : y.body = f.hand[d].copy.body
                                        \/ f.hand[d].copy.body # b
    BY <1>1, <1>4, <2>2 DEF Others
  <2> QED
    BY <1>4, <2>3, <2>4, KeptBy
<1>5. Doomed(g, C) \subseteq Doomed(f, C) \cup (IF s = "bury" THEN {f.hand[c].copy} ELSE {})
  <2> DEFINE X == IF s = "bury" THEN {f.hand[c].copy} ELSE {}
  <2>1. g.dead \subseteq Doomed(f, C) \cup X
    BY <1>2 DEF Doomed
  <2>2. \A d \in C : g.hand[d].stage = "bury" => g.hand[d] = f.hand[d] \/ g.hand[d].copy \in X
    BY <1>1 DEF Others
  <2> QED
    BY <2>1, <2>2, DoomedBy
<1>6. Deferred(g, C) \subseteq
        Deferred(f, C) \cup (IF s = "park" THEN {Again(f.hand[c].copy)} ELSE {})
  <2> DEFINE X == IF s = "park" THEN {Again(f.hand[c].copy)} ELSE {}
  <2>1. g.waiting \subseteq Deferred(f, C) \cup X
    BY <1>2 DEF Deferred
  <2>2. \A d \in C : g.hand[d].stage = "park" =>
           g.hand[d] = f.hand[d] \/ Again(g.hand[d].copy) \in X
    BY <1>1 DEF Others
  <2> QED
    BY <2>1, <2>2, DeferredBy
<1> QED
  BY <1>3, <1>4, <1>5, <1>6

(* The other steps of one delivery.                                        *)
LEMMA HopSound ==
  ASSUME NEW f, NEW g, NEW C, NEW S, Typed(f, C, S), NEW c \in C, Hop(f, g, c)
  PROVE  Sound(f, g, C, S)
<1>1. ASSUME Deliver1(f, g, c) PROVE Sound(f, g, C, S)
  <2>1. PICK copy : /\ Lessened(f.ready, g.ready, copy)
                    /\ g.hand = [f.hand EXCEPT ![c] =
                                   [stage |-> "handling", copy |-> copy, owned |-> TRUE]]
    BY <1>1 DEF Deliver1
  <2>2. /\ g.ready \subseteq f.ready /\ f.ready \subseteq g.ready \cup {copy} /\ copy \in S
        /\ g.waiting = f.waiting /\ g.dead = f.dead /\ f.hand[c].stage = "idle"
    BY <1>1, <2>1 DEF Lessened, Deliver1, Typed, AtRest
  <2>3. /\ g.hand[c] = [stage |-> "handling", copy |-> copy, owned |-> TRUE]
        /\ Others(f, g, C, c)
        /\ HandsTyped(g, C, S)
    BY <2>1, <2>2 DEF Typed, HandsTyped, Busy, Stage, Others
  <2>4. Typed(g, C, S)
    BY <2>2, <2>3 DEF Typed
  <2>5. \A b : Kept(f, C, b) => Kept(g, C, b)
    BY <2>2, <2>3 DEF Kept, Firm, Stage, Others
  <2> QED
    BY <2>2, <2>3, <2>4, <2>5 DEF Sound, Doomed, Deferred, Others
<1>2. ASSUME Park1(f, g, c) PROVE Sound(f, g, C, S)
  <2>1. PICK s \in {"ack", "nack"} : Restage(f, g, c, s)
    BY <1>2 DEF Park1
  <2>2. /\ HandsTyped(g, C, S)
        /\ g.hand[c] = [stage |-> s, copy |-> f.hand[c].copy, owned |-> f.hand[c].owned]
        /\ Others(f, g, C, c)
    <3>1. s \in Stage /\ s # "park"
      BY DEF Stage
    <3> QED
      BY <2>1, <3>1, RestageTyped
  <2>3. /\ f.waiting \subseteq g.waiting
        /\ g.waiting \subseteq f.waiting \cup {Again(f.hand[c].copy)}
        /\ g.ready = f.ready /\ g.dead = f.dead /\ f.hand[c].stage = "park"
        /\ s = "ack" => Again(f.hand[c].copy) \in g.waiting
    BY <1>2, <2>1, <2>2 DEF Park1, Added, Restage
  <2>4. Typed(g, C, S)
    <3>1. HandsTyped(f, C, S)
      BY DEF Typed
    <3>2. Again(f.hand[c].copy) \in S
      BY <2>3, <3>1 DEF HandsTyped
    <3> QED
      BY <2>2, <2>3, <3>2 DEF Typed
  <2>5. Again(f.hand[c].copy).body = f.hand[c].copy.body
    BY DEF Again
  <2>6. \A b : Kept(f, C, b) => Kept(g, C, b)
    <3>1. \A x \in Queues(f) : \E y \in Queues(g) : y.body = x.body
      BY <2>3 DEF Queues
    <3>2. Firm(f.hand[c]) => \/ Firm(g.hand[c]) /\ g.hand[c].copy = f.hand[c].copy
                             \/ \E y \in Queues(g) : y.body = f.hand[c].copy.body
      BY <2>2, <2>3, <2>5 DEF Firm, Stage, Queues
    <3> QED
      BY <2>2, <3>1, <3>2, KeptBy DEF Others
  <2>7. Again(f.hand[c].copy) \in Deferred(f, C)
    BY <2>3 DEF Deferred
  <2>8. Doomed(g, C) \subseteq Doomed(f, C) \cup {}
    <3>1. g.dead \subseteq Doomed(f, C) \cup {}
      BY <2>3 DEF Doomed
    <3>2. \A d \in C : g.hand[d].stage = "bury" => g.hand[d] = f.hand[d]
      BY <2>2 DEF Others
    <3> QED
      BY <3>1, <3>2, DoomedBy
  <2>9. Deferred(g, C) \subseteq Deferred(f, C) \cup {}
    <3>1. g.waiting \subseteq Deferred(f, C) \cup {}
      BY <2>3, <2>7 DEF Deferred
    <3>2. \A d \in C : g.hand[d].stage = "park" => g.hand[d] = f.hand[d]
      BY <2>2 DEF Others
    <3> QED
      BY <3>1, <3>2, DeferredBy
  <2> QED
    BY <2>4, <2>6, <2>8, <2>9 DEF Sound
<1>3. ASSUME Bury1(f, g, c) PROVE Sound(f, g, C, S)
  <2>1. PICK s \in {"ack", "nack"} : Restage(f, g, c, s)
    BY <1>3 DEF Bury1
  <2>2. /\ HandsTyped(g, C, S)
        /\ g.hand[c] = [stage |-> s, copy |-> f.hand[c].copy, owned |-> f.hand[c].owned]
        /\ Others(f, g, C, c)
    <3>1. s \in Stage /\ s # "park"
      BY DEF Stage
    <3> QED
      BY <2>1, <3>1, RestageTyped
  <2>3. /\ f.dead \subseteq g.dead /\ g.dead \subseteq f.dead \cup {f.hand[c].copy}
        /\ g.ready = f.ready /\ g.waiting = f.waiting /\ f.hand[c].stage = "bury"
        /\ s = "ack" => f.hand[c].copy \in g.dead
        /\ f.hand[c].copy \in S
    BY <1>3, <2>1, <2>2, HandOf DEF Bury1, Added, Restage, Busy
  <2>4. Typed(g, C, S)
    BY <2>2, <2>3 DEF Typed
  <2>6. \A b : Kept(f, C, b) => Kept(g, C, b)
    <3>1. \A x \in Queues(f) : \E y \in Queues(g) : y.body = x.body
      BY <2>3 DEF Queues
    <3>2. Firm(f.hand[c]) => \/ Firm(g.hand[c]) /\ g.hand[c].copy = f.hand[c].copy
                             \/ \E y \in Queues(g) : y.body = f.hand[c].copy.body
      BY <2>2, <2>3 DEF Firm, Stage, Queues
    <3> QED
      BY <2>2, <3>1, <3>2, KeptBy DEF Others
  <2>7. f.hand[c].copy \in Doomed(f, C)
    BY <2>3 DEF Doomed
  <2>8. Doomed(g, C) \subseteq Doomed(f, C) \cup {}
    <3>1. g.dead \subseteq Doomed(f, C) \cup {}
      BY <2>3, <2>7 DEF Doomed
    <3>2. \A d \in C : g.hand[d].stage = "bury" => g.hand[d] = f.hand[d]
      BY <2>2 DEF Others
    <3> QED
      BY <3>1, <3>2, DoomedBy
  <2>9. Deferred(g, C) \subseteq Deferred(f, C) \cup {}
    <3>1. g.waiting \subseteq Deferred(f, C) \cup {}
      BY <2>3 DEF Deferred
    <3>2. \A d \in C : g.hand[d].stage = "park" => g.hand[d] = f.hand[d]
      BY <2>2 DEF Others
    <3> QED
      BY <3>1, <3>2, DeferredBy
  <2> QED
    BY <2>4, <2>6, <2>8, <2>9 DEF Sound
<1>4. ASSUME Settle1(f, g, c) PROVE Sound(f, g, C, S)
  <2>1. /\ HandsTyped(g, C, S)
        /\ g.hand[c].stage = "idle"
        /\ Others(f, g, C, c)
    BY <1>4, RestTyped DEF Settle1
  <2>2. /\ g.ready = f.ready /\ g.waiting = f.waiting /\ g.dead = f.dead
        /\ f.hand[c].stage = "ack"
    BY <1>4 DEF Settle1
  <2>3. Typed(g, C, S)
    BY <2>1, <2>2 DEF Typed
  <2>4. \A b : Kept(f, C, b) => Kept(g, C, b)
    BY <2>1, <2>2 DEF Kept, Firm, Others
  <2> QED
    BY <2>1, <2>2, <2>3, <2>4 DEF Sound, Doomed, Deferred, Others
<1>5. ASSUME Release(f, g, c) PROVE Sound(f, g, C, S)
  <2>1. f.hand[c] \in Busy(S)
    BY <1>5, HandOf DEF Release
  <2>2. /\ f.ready \subseteq g.ready /\ g.ready \subseteq f.ready \cup {f.hand[c].copy}
        /\ g.waiting = f.waiting /\ g.dead = f.dead /\ f.hand[c].copy \in S
        /\ f.hand[c].owned => f.hand[c].copy \in g.ready
    BY <1>5, <2>1 DEF Release, Added, Busy
  <2>3. HandsTyped(f, C, S)
    BY DEF Typed
  <2>4. /\ HandsTyped(g, C, S) /\ Others(f, g, C, c)
        /\ g.hand[c].stage = "idle" \/ (g.hand[c].stage = f.hand[c].stage
                                            /\ g.hand[c].copy = f.hand[c].copy)
    <3>1. ASSUME Rest(f, g, c)
          PROVE  HandsTyped(g, C, S) /\ Others(f, g, C, c) /\ g.hand[c].stage = "idle"
      BY <3>1, RestTyped
    <3>2. ASSUME g.hand = [f.hand EXCEPT ![c].owned = FALSE]
          PROVE  /\ HandsTyped(g, C, S) /\ Others(f, g, C, c)
                 /\ g.hand[c].stage = f.hand[c].stage /\ g.hand[c].copy = f.hand[c].copy
      <4>1. f.hand \in [C -> {AtRest} \cup Busy(S)]
        BY <2>3 DEF HandsTyped
      <4>2. /\ g.hand[c] = [stage |-> f.hand[c].stage, copy |-> f.hand[c].copy,
                            owned |-> FALSE]
            /\ \A d \in C \ {c} : g.hand[d] = f.hand[d]
            /\ g.hand = [d \in C |-> g.hand[d]]
        BY <2>1, <3>2, <4>1 DEF Busy
      <4>3. g.hand[c] \in Busy(S)
        BY <2>1, <4>2 DEF Busy
      <4>4. g.hand \in [C -> {AtRest} \cup Busy(S)]
        BY <4>1, <4>2, <4>3
      <4>5. /\ g.hand[c].stage = f.hand[c].stage /\ g.hand[c].copy = f.hand[c].copy
            /\ \A d \in C \ {c} : g.hand[d] = f.hand[d]
        BY <4>2
      <4>6. \A d \in C : g.hand[d].stage = "park" => Again(g.hand[d].copy) \in S
        <5> SUFFICES ASSUME NEW d \in C, g.hand[d].stage = "park"
                     PROVE  f.hand[d].stage = "park" /\ f.hand[d].copy = g.hand[d].copy
          BY <2>3 DEF HandsTyped
        <5> QED
          BY <4>5
      <4> QED
        BY <4>4, <4>5, <4>6 DEF HandsTyped, Others
    <3> QED
      BY <1>5, <3>1, <3>2 DEF Release
  <2>5. Typed(g, C, S)
    BY <2>2, <2>4 DEF Typed
  <2>6. \A b : Kept(f, C, b) => Kept(g, C, b)
    <3> SUFFICES ASSUME NEW b, Kept(f, C, b) PROVE Kept(g, C, b)
      OBVIOUS
    <3>1. \A x \in Queues(f) : \E y \in Queues(g) : y.body = x.body
      BY <2>2 DEF Queues
    <3>2. Firm(f.hand[c]) => \E y \in Queues(g) : y.body = f.hand[c].copy.body
      BY <2>2 DEF Firm, Queues
    <3> QED
      BY <2>4, <3>1, <3>2, KeptBy DEF Others
  <2>7. Doomed(g, C) \subseteq Doomed(f, C)
    BY <2>2, <2>4 DEF Doomed, Others
  <2>8. Deferred(g, C) \subseteq Deferred(f, C)
    BY <2>2, <2>4 DEF Deferred, Others
  <2> QED
    BY <2>5, <2>6, <2>7, <2>8 DEF Sound
<1>6. ASSUME Decide(f, g, c, "nack") PROVE Sound(f, g, C, S)
  BY <1>6, DecideSound DEF Sound, Stage
<1> QED
  BY <1>1, <1>2, <1>3, <1>4, <1>5, <1>6 DEF Hop

(* A flow may be seen with a larger set of copies.                         *)
LEMMA TypedWider ==
  ASSUME NEW f, NEW C, NEW S, NEW T, S \subseteq T, Typed(f, C, S)
  PROVE  Typed(f, C, T)
BY DEF Typed, HandsTyped, Busy
=============================================================================
