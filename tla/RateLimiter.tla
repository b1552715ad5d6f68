----------------------------- MODULE RateLimiter -----------------------------
(***************************************************************************)
(* The keyed token-bucket limiter of pkg/ratelimit: the HTTP middleware    *)
(* and the gRPC interceptor ask it for one token per request (Allow).      *)
(*                                                                         *)
(* A call reads the clock BEFORE it takes the lock of its shard, so two    *)
(* calls may reach a bucket in the other order than their readings: the    *)
(* elapsed time is then negative.  Buckets refill lazily, and a sweep      *)
(* evicts the idle ones against a cutoff computed before it takes any      *)
(* lock.                                                                   *)
(*                                                                         *)
(* Time is counted in ticks, tokens in whole tokens, Rate is the tokens    *)
(* per tick.  Floating-point rounding of the refill is left out.           *)
(***************************************************************************)
EXTENDS Integers, FiniteSets

CONSTANTS Key,      \* client addresses
          Caller,   \* requests in flight
          Rate,     \* Config.Rate: tokens added per tick
          Burst,    \* Config.Burst: capacity of a bucket
          TTL,      \* Config.TTL: a bucket idle for this long is evicted
          MaxLag,   \* longest time between a reading of the clock and the lock
          Idle,     \* no call, no sweep in progress
          NoBucket  \* the key is not in the shard's map

(* Config.defaults makes the three settings positive.  The last conjunct   *)
(* is NOT enforced by the code: it says that a bucket idle for TTL, minus  *)
(* the slack of the clock readings, would have been full again.  The       *)
(* deployed values (50 or 100 per second, burst 100 or 200, ten minutes)   *)
(* satisfy it with a margin of three orders of magnitude.                  *)
ASSUME LimiterAssumption ==
    /\ Rate \in Nat \ {0} /\ Burst \in Nat \ {0}
    /\ TTL \in Nat \ {0} /\ MaxLag \in Nat
    /\ Idle \notin Nat /\ Idle \notin Key \X Nat
    /\ NoBucket \notin [tokens : Int, last : Nat]
    /\ Rate * (TTL - 2 * MaxLag) >= Burst

VARIABLES now,      \* the monotonic clock
          bucket,   \* bucket[k]: tokens and time of the last access, or NoBucket
          asked,    \* asked[c]: key and clock reading of the call c, or Idle
          cutoff,   \* the running sweep's cutoff, or Idle
          granted   \* history: for each key the grants <<serial number, clock reading>>
limiterVars == <<now, bucket, asked, cutoff, granted>>

Grants(k, a, b) == {g \in granted[k] : a <= g[2] /\ g[2] <= b}

-----------------------------------------------------------------------------
LimiterInit ==
    /\ now = 0
    /\ bucket = [k \in Key |-> NoBucket]
    /\ asked = [c \in Caller |-> Idle]
    /\ cutoff = Idle
    /\ granted = [k \in Key |-> {}]

(* time.Now() in AllowN: the reading is taken, the lock is not.            *)
Ask(c, k) ==
    /\ asked[c] = Idle
    /\ asked' = [asked EXCEPT ![c] = <<k, now>>]
    /\ UNCHANGED <<now, bucket, cutoff, granted>>

(* The bucket a call finds: a key not in the map gets a full one, last     *)
(* touched at the call's own reading.                                      *)
FoundEmpty(k, t) ==       \* a new bucket starts without tokens
    IF bucket[k] = NoBucket THEN [tokens |-> 0, last |-> t] ELSE bucket[k]

Found(k, t) ==
    IF bucket[k] = NoBucket THEN [tokens |-> Burst, last |-> t] ELSE bucket[k]

(* Lazy refill.  A reading older than the bucket's takes tokens away.      *)
Refilled(b, t) ==
    LET raw == b.tokens + (t - b.last) * Rate
    IN  IF raw > Burst THEN Burst ELSE raw

(* The critical section of AllowN, with n = 1: every caller uses Allow.    *)
AllowN(c) ==
    /\ asked[c] # Idle
    /\ LET k == asked[c][1]
           t == asked[c][2]
           tokens == Refilled(Found(k, t), t)
       IN  IF tokens >= 1
           THEN /\ bucket' = [bucket EXCEPT ![k] = [tokens |-> tokens - 1, last |-> t]]
                /\ granted' = [granted EXCEPT
                                 ![k] = @ \cup {<<Cardinality(@), t>>}]
           ELSE /\ bucket' = [bucket EXCEPT ![k] = [tokens |-> tokens, last |-> t]]
                /\ UNCHANGED granted
    /\ asked' = [asked EXCEPT ![c] = Idle]
    /\ UNCHANGED <<now, cutoff>>

(* A tick of the sweep computes the cutoff once for all shards.            *)
StartSweep ==
    /\ cutoff = Idle
    /\ now >= TTL
    /\ cutoff' = now - TTL
    /\ UNCHANGED <<now, bucket, asked, granted>>

StaleEarly(b) == b.last < cutoff + TTL \div 2   \* evicts after half the TTL

Stale(b) == b.last < cutoff

(* One shard: the keys are partitioned among the shards by their hash, and *)
(* S stands for the keys that share one.                                   *)
SweepShard(S) ==
    /\ cutoff # Idle
    /\ bucket' = [k \in Key |-> IF k \in S /\ bucket[k] # NoBucket /\ Stale(bucket[k])
                                THEN NoBucket ELSE bucket[k]]
    /\ UNCHANGED <<now, asked, cutoff, granted>>

EndSweep ==
    /\ cutoff # Idle
    /\ cutoff' = Idle
    /\ UNCHANGED <<now, bucket, asked, granted>>

(* Time passes; no call waits for its lock longer than MaxLag.             *)
Tick ==
    /\ \A c \in Caller : asked[c] # Idle => now < asked[c][2] + MaxLag
    /\ now' = now + 1
    /\ UNCHANGED <<bucket, asked, cutoff, granted>>

LimiterNext ==
    \/ \E c \in Caller, k \in Key : Ask(c, k)
    \/ \E c \in Caller : AllowN(c)
    \/ StartSweep
    \/ \E k \in Key : SweepShard({k})
    \/ EndSweep
    \/ Tick

LimiterSpec == LimiterInit /\ [][LimiterNext]_limiterVars

-----------------------------------------------------------------------------
Bucket == [tokens : Int, last : Nat]

LimiterTypeOK ==
    /\ now \in Nat
    /\ bucket \in [Key -> Bucket \cup {NoBucket}]
    /\ asked \in [Caller -> (Key \X Nat) \cup {Idle}]
    /\ cutoff \in Nat \cup {Idle}
    /\ granted \in [Key -> SUBSET (Nat \X Nat)]

(* However the calls, the lock and the sweep interleave, one key is        *)
(* granted at most Burst + Rate * (b - a) tokens at clock readings between *)
(* a and b: what "token bucket" promises (pkg/ratelimit/ratelimit.go:1).   *)
(* A lost clamp, an eviction that is too early or a bucket created with    *)
(* the wrong time break it only after several calls.                       *)
NeverOverGrants ==
    \A k \in Key : \A a, b \in 0..now :
        a <= b => Cardinality(Grants(k, a, b)) <= Burst + Rate * (b - a)

(* A bucket refuses only a client that earned it: when a call that read t  *)
(* is refused, some window up to now is full, give or take the tokens of   *)
(* one lag.  The slack is real: a call that reaches the bucket late finds  *)
(* it stamped later than its own reading, and the negative elapsed time    *)
(* takes back tokens the clamp had already cut off.                        *)
RefusalsEarned ==
    [][\A c \in Caller :
          asked[c] # Idle /\ asked'[c] = Idle /\ granted' = granted =>
              LET k == asked[c][1]
                  t == asked[c][2]
              IN  \E a \in 0..now : Cardinality(Grants(k, a, now)) + 1
                                      > Burst + Rate * (t - a - MaxLag)]_limiterVars
=============================================================================
