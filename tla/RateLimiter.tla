------------------------------ MODULE RateLimiter ------------------------------
(***************************************************************************)
(* internal/auth/ratelimit.go: one limiter, a map of token buckets under a *)
(* mutex, and its reaper.  The server has two, one keyed by API key and    *)
(* one by IP address, that share nothing.                                  *)
(*                                                                         *)
(* A request reads time.Now() before it takes the lock, so requests reach  *)
(* a bucket in another order than their instants.                          *)
(*                                                                         *)
(* Tokens are measured by the time their refill takes: one token of s is   *)
(* Cost[s] = 1/rate, and refilling adds the time that has passed.  A burst *)
(* is two seconds of refill in both limiters (ipBurst = 2 ipRatePerSec,    *)
(* keyBurstMul = 2).  The rounding of float64 is left out, and so is a     *)
(* change of rate_limit_rps while a bucket exists.                         *)
(***************************************************************************)
EXTENDS Clock, Sequences

CONSTANTS Subject,  \* the limiter's keys: "key:<id>" or "ip:<address>"
          Request,  \* requests being handled at the same time
          Cost,     \* Cost[s]: instants that refill one token of s
          Second,   \* instants in a second
          IdleTTL,  \* bucketIdleTTL
          MaxSkew   \* bound: the longest a request waits between time.Now()
                    \* and the lock

Burst == 2 * Second

(* The rates are integers of at least one request per second.  The last    *)
(* conjunct is what makes it safe to forget a bucket: thirty minutes       *)
(* against two seconds and two scheduling delays.                          *)
ASSUME LimiterAssumption ==
  /\ Second \in Nat \ {0}
  /\ Cost \in [Subject -> 1..Second]
  /\ IdleTTL \in Nat
  /\ MaxSkew \in Nat
  /\ 2 * Second + 2 * MaxSkew <= IdleTTL + 1

VARIABLES
  present, \* subjects that have a bucket
  tokens,  \* tokens[s], as refill time; negative after a request from the past
  last,    \* last[s]
  pc,      \* where each request is
  subj,    \* its subject
  at,      \* the `now' it passes to allow
  reaper,  \* "waiting" for the ticker, or "ticked"
  reapAt,  \* the instant the ticker sent
  grants,  \* history: the instants of the admitted requests of s, in order
  retryAt  \* history: the earliest instant that a Retry-After answer has
           \* named since the last grant of s, or NoPromise

bucketVars == <<present, tokens, last>>
requestVars == <<pc, subj, at>>
reaperVars == <<reaper, reapAt>>
vars == <<clock, bucketVars, requestVars, reaperVars, grants, retryAt>>

NoPromise == 0
Pc == {"idle", "arrived", "admitted", "refused"}

TypeOK ==
  /\ clock \in Nat
  /\ present \in SUBSET Subject
  /\ tokens \in [Subject -> Int]
  /\ last \in [Subject -> Nat]
  /\ pc \in [Request -> Pc]
  /\ subj \in [Request -> Subject]
  /\ at \in [Request -> Nat]
  /\ reaper \in {"waiting", "ticked"}
  /\ reapAt \in Nat
  /\ grants \in [Subject -> Seq(Nat)]
  /\ retryAt \in [Subject -> Nat]

Init ==
  /\ clock = 0
  /\ present = {}
  /\ tokens = [s \in Subject |-> 0]
  /\ last = [s \in Subject |-> 0]
  /\ pc = [r \in Request |-> "idle"]
  /\ subj \in [Request -> Subject]
  /\ at = [r \in Request |-> 0]
  /\ reaper = "waiting"
  /\ reapAt = 0
  /\ grants = [s \in Subject |-> << >>]
  /\ retryAt = [s \in Subject |-> NoPromise]

Tick ==
  /\ Advance
  /\ \A r \in Request : pc[r] = "arrived" => clock + 1 <= at[r] + MaxSkew
  /\ UNCHANGED <<bucketVars, requestVars, reaperVars, grants, retryAt>>

--------------------------------------------------------------------------------
(* A request through the middleware.  /v1/health never gets here. *)

Arrive(r) ==
  /\ pc[r] = "idle"
  /\ pc' = [pc EXCEPT ![r] = "arrived"]
  /\ \E s \in Subject : subj' = [subj EXCEPT ![r] = s]
  /\ at' = [at EXCEPT ![r] = clock]
  /\ UNCHANGED <<clock, bucketVars, reaperVars, grants, retryAt>>

Capped_Unlimited(x) == x

Capped(x) == IF x > Burst THEN Burst ELSE x

(* What allow finds in the bucket of s at instant t: a bucket it has to    *)
(* create is full.                                                         *)
Refilled(s, t) ==
  IF s \in present THEN Capped(tokens[s] + (t - last[s])) ELSE Burst

SetBucket(s, x, t) ==
  /\ present' = present \cup {s}
  /\ tokens' = [tokens EXCEPT ![s] = x]
  /\ last' = [last EXCEPT ![s] = t]

Admit(r) ==
  LET s == subj[r]
      x == Refilled(s, at[r])
  IN  /\ pc[r] = "arrived"
      /\ x >= Cost[s]
      /\ SetBucket(s, x - Cost[s], at[r])
      /\ pc' = [pc EXCEPT ![r] = "admitted"]
      /\ grants' = [grants EXCEPT ![s] = Append(@, at[r])]
      /\ retryAt' = [retryAt EXCEPT ![s] = NoPromise]
      /\ UNCHANGED <<clock, subj, at, reaperVars>>

RetryAfter_NoMinimum(wait) == wait \div Second

(* The header of tooMany: whole seconds, rounded down, at least one. *)
RetryAfter(wait) == IF wait < Second THEN 1 ELSE wait \div Second

(* The answer is 429: nothing is taken from the bucket. *)
Refuse(r) ==
  LET s == subj[r]
      x == Refilled(s, at[r])
      promise == clock + Second * RetryAfter(Cost[s] - x)
  IN  /\ pc[r] = "arrived"
      /\ x < Cost[s]
      /\ SetBucket(s, x, at[r])
      /\ pc' = [pc EXCEPT ![r] = "refused"]
      /\ retryAt' = [retryAt EXCEPT ![s] =
                       IF @ # NoPromise /\ @ < promise THEN @ ELSE promise]
      /\ UNCHANGED <<clock, subj, at, reaperVars, grants>>

Leave(r) ==
  /\ pc[r] \in {"admitted", "refused"}
  /\ pc' = [pc EXCEPT ![r] = "idle"]
  /\ at' = [at EXCEPT ![r] = 0]
  /\ UNCHANGED <<clock, bucketVars, subj, reaperVars, grants, retryAt>>

--------------------------------------------------------------------------------
(* reapLoop.  When it ticks is left open; the instant it was sent may be   *)
(* old when reap gets the lock.                                            *)

ReapTick ==
  /\ reaper = "waiting"
  /\ reaper' = "ticked"
  /\ reapAt' = clock
  /\ UNCHANGED <<clock, bucketVars, requestVars, grants, retryAt>>

Idle_WhenRefilled(s) == reapAt - last[s] >= Cost[s]

Idle(s) == reapAt - last[s] > IdleTTL

Reap ==
  /\ reaper = "ticked"
  /\ reaper' = "waiting"
  /\ reapAt' = 0
  /\ present' = {s \in present : ~Idle(s)}
  /\ tokens' = [s \in Subject |-> IF s \in present' THEN tokens[s] ELSE 0]
  /\ last' = [s \in Subject |-> IF s \in present' THEN last[s] ELSE 0]
  /\ UNCHANGED <<clock, requestVars, grants, retryAt>>

Next ==
  \/ Tick
  \/ \E r \in Request : Arrive(r) \/ Admit(r) \/ Refuse(r) \/ Leave(r)
  \/ ReapTick
  \/ Reap

Spec == Init /\ [][Next]_vars

--------------------------------------------------------------------------------
(* What must hold. *)

(* The rate limit itself: between any two grants of a subject, both        *)
(* included, there are no more than a burst plus what the time between     *)
(* them refills, in whatever order concurrent requests reach the bucket    *)
(* and whenever it is reaped and created again.                            *)
WithinRate ==
  \A s \in Subject : \A j \in 1..Len(grants[s]) : \A i \in 1..j :
    Cost[s] * (j - i + 1) <= Burst + grants[s][j] - grants[s][i]

(* Retry-After is honest although it is rounded down: unless another       *)
(* request of the same subject is granted first, a request that arrives    *)
(* that many seconds after a 429 is admitted.                              *)
RetryAfterIsEnough ==
  \A s \in Subject :
    retryAt[s] # NoPromise => Refilled(s, retryAt[s]) >= Cost[s]

(* The buckets implement the log: no request is refused that the log of    *)
(* grants would admit, none is admitted that it would refuse, a refused    *)
(* request costs its subject nothing, and reaping cannot be observed.      *)
Log == INSTANCE AdmissionLog
LogSpec == Log!Spec

(* The instant at which the bucket, left alone, is full. *)
FullAt(s) == last[s] + Burst - tokens[s]

(* The instant by which the grants of s from the i-th on are refilled, had *)
(* the bucket been full at the i-th.                                       *)
Refund(s, i) == grants[s][i] + Cost[s] * (Len(grants[s]) - i + 1)

(* The inductive invariant: a bucket is full when the last of the windows  *)
(* that end now is refilled, and the bucket of a subject that has none     *)
(* would be full for any request yet to take the lock.                     *)
BucketIsLog ==
  \A s \in present :
    /\ \A i \in 1..Len(grants[s]) : Refund(s, i) <= FullAt(s)
    /\ \E i \in 1..Len(grants[s]) : Refund(s, i) = FullAt(s)

AbsentIsFull ==
  \A s \in Subject \ present :
    \A i \in 1..Len(grants[s]) : Refund(s, i) <= clock - MaxSkew

SkewBounded ==
  /\ reapAt <= clock
  /\ \A r \in Request : pc[r] = "arrived" => at[r] <= clock /\ clock <= at[r] + MaxSkew
  /\ \A s \in present :
       /\ tokens[s] <= Burst
       /\ tokens[s] >= 0 - MaxSkew
       /\ FullAt(s) <= clock + Burst

IInv ==
  /\ TypeOK
  /\ SkewBounded
  /\ BucketIsLog
  /\ AbsentIsFull
  /\ WithinRate
  /\ RetryAfterIsEnough
================================================================================
