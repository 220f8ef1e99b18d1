------------------------------ MODULE AuthProofs ------------------------------
(***************************************************************************)
(* Theorems about internal/auth.  First the rate limiters (RateLimiter),   *)
(* for any subjects, rates and skew within the assumption: the rate holds  *)
(* over every window, and buckets implement admission by the log.  Then    *)
(* the key cache (AuthCache), for any keys, lookups and TTL: an answer is  *)
(* never older than the TTL and a new key is never refused because of an   *)
(* old answer.                                                             *)
(***************************************************************************)
EXTENDS RateLimiter, AuthCache, TLAPS

LEMMA Distribute ==
  ASSUME NEW c \in Int, NEW k \in Int
  PROVE  c * (k + 1) = c * k + c
BY SMT

LEMMA Regroup ==
  ASSUME NEW a \in Int, NEW b \in Int, NEW c \in Int
  PROVE  a + (b + c) = (a + b) + c
BY SMT

LEMMA Constants ==
  /\ Burst \in Nat
  /\ Second \in Nat /\ Second >= 1
  /\ IdleTTL \in Nat /\ MaxSkew \in Nat /\ MaxTime \in Nat
  /\ Burst = 2 * Second
  /\ Burst + 2 * MaxSkew <= IdleTTL + 1
  /\ \A s \in Subject : Cost[s] \in Int /\ Cost[s] >= 1 /\ Cost[s] <= Second
                        /\ Cost[s] <= Burst
BY LimiterAssumption, ClockAssumption, SMT DEF Burst

(* Refund is an integer for every position of the log. *)
LEMMA RefundType ==
  ASSUME TypeOK, NEW s \in Subject
  PROVE  /\ grants[s] \in Seq(Nat)
         /\ Len(grants[s]) \in Nat
         /\ \A i \in 1..Len(grants[s]) : Refund(s, i) \in Int /\ grants[s][i] \in Nat
<1>1. grants[s] \in Seq(Nat)
  BY DEF TypeOK
<1>2. Len(grants[s]) \in Nat
  BY <1>1
<1>3. ASSUME NEW i \in 1..Len(grants[s])
      PROVE  Refund(s, i) \in Int /\ grants[s][i] \in Nat
  <2>1. grants[s][i] \in Nat
    BY <1>1
  <2>2. Len(grants[s]) - i + 1 \in Int
    BY <1>2, SMT
  <2>3. Cost[s] * (Len(grants[s]) - i + 1) \in Int
    BY <2>2, Constants, SMT
  <2> QED BY <2>1, <2>3, SMT DEF Refund
<1> QED BY <1>1, <1>2, <1>3

(* A new grant of s moves every refund of s by the cost of a token. *)
LEMMA AppendRefund ==
  ASSUME TypeOK, NEW s \in Subject, NEW t \in Nat,
         grants' = [grants EXCEPT ![s] = Append(@, t)]
  PROVE  /\ Len(grants'[s]) = Len(grants[s]) + 1
         /\ \A i \in 1..Len(grants[s]) :
              /\ grants'[s][i] = grants[s][i]
              /\ Refund(s, i)' = Refund(s, i) + Cost[s]
         /\ grants'[s][Len(grants[s]) + 1] = t
         /\ \A i \in Nat : i = Len(grants[s]) + 1 => Refund(s, i)' = t + Cost[s]
         /\ \A u \in Subject : u # s => grants'[u] = grants[u]
<1> DEFINE L == Len(grants[s])
<1>1. grants[s] \in Seq(Nat) /\ L \in Nat /\ Cost[s] \in Int
  BY RefundType, Constants
<1>2. grants'[s] = Append(grants[s], t)
  BY DEF TypeOK
<1>3. Len(grants'[s]) = L + 1 /\ grants'[s][L + 1] = t
  BY <1>1, <1>2
<1>4. ASSUME NEW i \in 1..L
      PROVE  grants'[s][i] = grants[s][i] /\ Refund(s, i)' = Refund(s, i) + Cost[s]
  <2>1. grants'[s][i] = grants[s][i] /\ grants[s][i] \in Nat
    BY <1>1, <1>2
  <2>2. L - i + 1 \in Int /\ (L + 1) - i + 1 = (L - i + 1) + 1
    BY <1>1, SMT
  <2>3. Cost[s] * ((L + 1) - i + 1) = Cost[s] * (L - i + 1) + Cost[s]
    BY <2>2, <1>1, Distribute
  <2>4. Cost[s] * (L - i + 1) \in Int
    BY <2>2, <1>1, SMT
  <2>5. Refund(s, i)' = grants[s][i] + Cost[s] * ((L + 1) - i + 1)
    BY <1>3, <2>1 DEF Refund
  <2>6. Refund(s, i) = grants[s][i] + Cost[s] * (L - i + 1)
    BY DEF Refund
  <2>7. grants[s][i] + (Cost[s] * (L - i + 1) + Cost[s])
          = (grants[s][i] + Cost[s] * (L - i + 1)) + Cost[s]
    <3>1. grants[s][i] \in Int
      BY <2>1
    <3> QED BY <3>1, <2>4, <1>1, Regroup
  <2> QED BY <2>1, <2>3, <2>5, <2>6, <2>7
<1>5. ASSUME NEW i \in Nat, i = L + 1
      PROVE  Refund(s, i)' = t + Cost[s]
  <2>1. Refund(s, i)' = t + Cost[s] * ((L + 1) - i + 1)
    BY <1>3, <1>5 DEF Refund
  <2>2. (L + 1) - i + 1 = 1
    BY <1>1, <1>5, SMT
  <2>3. Cost[s] * 1 = Cost[s]
    BY <1>1, SMT
  <2> QED BY <2>1, <2>2, <2>3
<1>6. \A u \in Subject : u # s => grants'[u] = grants[u]
  BY DEF TypeOK
<1> QED BY <1>1, <1>3, <1>4, <1>5, <1>6

(* What allow finds in a bucket, as the instant at which it will be full.  *)
LEMMA RefilledIsFullAt ==
  ASSUME IInv, NEW s \in Subject, NEW t \in Nat
  PROVE  /\ Refilled(s, t) \in Int
         /\ Refilled(s, t) <= Burst
         /\ s \in present => /\ FullAt(s) \in Int
                             /\ t + Burst - Refilled(s, t) >= FullAt(s)
                             /\ FullAt(s) <= t => Refilled(s, t) = Burst
                             /\ FullAt(s) >= t => t + Burst - Refilled(s, t) = FullAt(s)
         /\ s \notin present => Refilled(s, t) = Burst
<1>1. tokens[s] \in Int /\ last[s] \in Nat
  BY DEF IInv, TypeOK
<1> QED BY <1>1, Constants, SMT DEF Refilled, Capped, FullAt

(* allow admits a request at t exactly when one more token of every refund *)
(* fits in a burst.                                                        *)
LEMMA AllowIsFits ==
  ASSUME IInv, NEW r \in Request, pc[r] = "arrived"
  PROVE  LET s == subj[r]
             t == at[r]
         IN  Refilled(s, t) >= Cost[s] <=>
               \A i \in 1..Len(grants[s]) : Refund(s, i) + Cost[s] <= t + Burst
<1> DEFINE s == subj[r]
           t == at[r]
<1>1. TypeOK /\ s \in Subject /\ t \in Nat
  BY DEF IInv, TypeOK
<1>2. t <= clock /\ clock <= t + MaxSkew /\ clock \in Nat
  BY DEF IInv, SkewBounded, TypeOK
<1> HIDE DEF s, t
<1>3. CASE s \in present
  <2>1. /\ \A i \in 1..Len(grants[s]) : Refund(s, i) <= FullAt(s)
        /\ \E i \in 1..Len(grants[s]) : Refund(s, i) = FullAt(s)
    BY <1>3 DEF IInv, BucketIsLog
  <2>2. /\ Refilled(s, t) \in Int /\ Refilled(s, t) <= Burst /\ FullAt(s) \in Int
        /\ t + Burst - Refilled(s, t) >= FullAt(s)
        /\ FullAt(s) <= t => Refilled(s, t) = Burst
        /\ FullAt(s) >= t => t + Burst - Refilled(s, t) = FullAt(s)
    BY <1>1, <1>3, RefilledIsFullAt
  <2>3. Refilled(s, t) >= Cost[s] <=> FullAt(s) + Cost[s] <= t + Burst
    BY <2>2, <1>1, Constants, SMT
  <2>4. \A i \in 1..Len(grants[s]) : Refund(s, i) \in Int
    BY <1>1, RefundType
  <2>5. FullAt(s) + Cost[s] <= t + Burst <=>
          \A i \in 1..Len(grants[s]) : Refund(s, i) + Cost[s] <= t + Burst
    BY <2>1, <2>2, <2>4, <1>1, Constants, SMTT(30)
  <2> QED BY <2>3, <2>5 DEF s, t
<1>4. CASE s \notin present
  <2>1. Refilled(s, t) = Burst
    BY <1>1, <1>4, RefilledIsFullAt
  <2>2. \A i \in 1..Len(grants[s]) : Refund(s, i) <= clock - MaxSkew
    BY <1>1, <1>4 DEF IInv, AbsentIsFull
  <2>3. \A i \in 1..Len(grants[s]) : Refund(s, i) \in Int
    BY <1>1, RefundType
  <2>4. \A i \in 1..Len(grants[s]) : Refund(s, i) + Cost[s] <= t + Burst
    BY <2>2, <2>3, <1>1, <1>2, Constants, SMT
  <2> QED BY <2>1, <2>4, <1>1, Constants DEF s, t
<1> QED BY <1>3, <1>4

--------------------------------------------------------------------------------
(* The steps that preserve the inductive invariant. *)

LEMMA InitIInv == Init => IInv
<1> SUFFICES ASSUME Init PROVE IInv
  OBVIOUS
<1>1. TypeOK
  BY Constants DEF Init, TypeOK, Pc, NoPromise
<1>2. \A s \in Subject : Len(grants[s]) = 0
  BY DEF Init
<1>3. SkewBounded
  BY DEF Init, SkewBounded
<1>4. BucketIsLog
  BY DEF Init, BucketIsLog
<1>5. AbsentIsFull
  BY <1>2, SMT DEF AbsentIsFull
<1>6. WithinRate
  BY <1>2, SMT DEF WithinRate
<1>7. RetryAfterIsEnough
  BY DEF Init, RetryAfterIsEnough
<1> QED BY <1>1, <1>3, <1>4, <1>5, <1>6, <1>7 DEF IInv

LEMMA TypeStep ==
  ASSUME IInv, [Next]_vars
  PROVE  TypeOK'
<1>1. TypeOK
  BY DEF IInv
<1>2. CASE Tick
  BY <1>1, <1>2, SMT DEF Tick, Advance, TypeOK, bucketVars, requestVars, reaperVars
<1>3. ASSUME NEW r \in Request, Arrive(r) PROVE TypeOK'
  BY <1>1, <1>3 DEF Arrive, TypeOK, bucketVars, reaperVars, Pc
<1>4. ASSUME NEW r \in Request, Admit(r) PROVE TypeOK'
  <2>1. subj[r] \in Subject /\ at[r] \in Nat
    BY <1>1 DEF TypeOK
  <2>2. Refilled(subj[r], at[r]) \in Int
    BY <2>1, RefilledIsFullAt
  <2>3. Refilled(subj[r], at[r]) - Cost[subj[r]] \in Int
    BY <2>1, <2>2, Constants, SMT
  <2>4. tokens' \in [Subject -> Int] /\ last' \in [Subject -> Nat] /\ present' \in SUBSET Subject
    BY <1>1, <1>4, <2>1, <2>3 DEF Admit, SetBucket, TypeOK
  <2>5. grants[subj[r]] \in Seq(Nat)
    BY <1>1, <2>1 DEF TypeOK
  <2>6. Append(grants[subj[r]], at[r]) \in Seq(Nat)
    BY <2>1, <2>5
  <2>7. grants' \in [Subject -> Seq(Nat)]
    BY <1>1, <1>4, <2>1, <2>6 DEF Admit, TypeOK
  <2>8. retryAt' \in [Subject -> Nat]
    BY <1>1, <1>4 DEF Admit, TypeOK, NoPromise
  <2>9. pc' \in [Request -> Pc]
    BY <1>1, <1>4 DEF Admit, TypeOK, Pc
  <2> QED BY <1>1, <1>4, <2>4, <2>7, <2>8, <2>9 DEF Admit, TypeOK, reaperVars
<1>5. ASSUME NEW r \in Request, Refuse(r) PROVE TypeOK'
  <2> DEFINE s == subj[r]
             x == Refilled(s, at[r])
             promise == clock + Second * RetryAfter(Cost[s] - x)
  <2>1. s \in Subject /\ at[r] \in Nat /\ clock \in Nat
    BY <1>1 DEF TypeOK
  <2>2. x \in Int
    BY <2>1, RefilledIsFullAt
  <2>3. tokens' \in [Subject -> Int] /\ last' \in [Subject -> Nat] /\ present' \in SUBSET Subject
    BY <1>1, <1>5, <2>1, <2>2 DEF Refuse, SetBucket, TypeOK
  <2>4. Cost[s] - x \in Int /\ Second \in Int /\ Second >= 1
    BY <2>1, <2>2, Constants, SMT
  <2>5. RetryAfter(Cost[s] - x) \in Nat
    BY <2>4, SMT DEF RetryAfter
  <2>6. Second * RetryAfter(Cost[s] - x) \in Nat
    BY <2>5, Constants, SMT
  <2>7. promise \in Nat
    BY <2>1, <2>6, SMT
  <2>8. retryAt' = [retryAt EXCEPT ![s] = IF @ # NoPromise /\ @ < promise THEN @ ELSE promise]
    BY <1>5 DEF Refuse
  <2> HIDE DEF promise
  <2>9. retryAt' \in [Subject -> Nat]
    BY <1>1, <2>1, <2>7, <2>8 DEF TypeOK
  <2>10. pc' \in [Request -> Pc]
    BY <1>1, <1>5 DEF Refuse, TypeOK, Pc
  <2> QED BY <1>1, <1>5, <2>3, <2>9, <2>10 DEF Refuse, TypeOK, reaperVars
<1>6. ASSUME NEW r \in Request, Leave(r) PROVE TypeOK'
  BY <1>1, <1>6 DEF Leave, TypeOK, bucketVars, reaperVars, Pc
<1>7. CASE ReapTick
  BY <1>1, <1>7 DEF ReapTick, TypeOK, bucketVars, requestVars
<1>8. CASE Reap
  BY <1>1, <1>8 DEF Reap, TypeOK, requestVars
<1>9. CASE UNCHANGED vars
  BY <1>1, <1>9 DEF TypeOK, vars, bucketVars, requestVars, reaperVars
<1> QED BY <1>2, <1>3, <1>4, <1>5, <1>6, <1>7, <1>8, <1>9 DEF Next

(* What a granted request does to its bucket, in instants. *)
LEMMA AdmitMoves ==
  ASSUME IInv, NEW r \in Request, Admit(r)
  PROVE  \E s \in Subject, t \in Nat :
             /\ s = subj[r] /\ t = at[r] /\ t <= clock /\ clock <= t + MaxSkew
             /\ present' = present \cup {s}
             /\ tokens'[s] = Refilled(s, t) - Cost[s]
             /\ last'[s] = t
             /\ \A u \in Subject : u # s => tokens'[u] = tokens[u] /\ last'[u] = last[u]
             /\ grants' = [grants EXCEPT ![s] = Append(@, t)]
             /\ Refilled(s, t) \in Int /\ Refilled(s, t) >= Cost[s]
             /\ retryAt'[s] = NoPromise
             /\ \A u \in Subject : u # s => retryAt'[u] = retryAt[u]
             /\ clock' = clock
<1>1. subj[r] \in Subject /\ at[r] \in Nat /\ TypeOK
  BY DEF IInv, TypeOK
<1>2. at[r] <= clock /\ clock <= at[r] + MaxSkew
  BY DEF IInv, SkewBounded, Admit
<1>3. Refilled(subj[r], at[r]) \in Int
  BY <1>1, RefilledIsFullAt
<1> QED BY <1>1, <1>2, <1>3 DEF Admit, SetBucket, TypeOK

(* What a refused request does: it finds a bucket that is full only later, *)
(* and leaves that instant as it was.                                      *)
LEMMA RefuseMoves ==
  ASSUME IInv, NEW r \in Request, Refuse(r)
  PROVE  \E s \in Subject, t \in Nat, promise \in Nat :
             /\ s = subj[r] /\ t = at[r] /\ t <= clock /\ clock <= t + MaxSkew
             /\ s \in present
             /\ present' = present
             /\ tokens'[s] = t + Burst - FullAt(s)
             /\ last'[s] = t
             /\ FullAt(s) \in Int /\ FullAt(s) > t
             /\ \A u \in Subject : u # s => tokens'[u] = tokens[u] /\ last'[u] = last[u]
             /\ grants' = grants
             /\ promise >= clock + Second
             /\ \/ retryAt'[s] = promise
                \/ retryAt'[s] = retryAt[s] /\ retryAt[s] # NoPromise
             /\ \A u \in Subject : u # s => retryAt'[u] = retryAt[u]
             /\ clock' = clock
<1> DEFINE s == subj[r]
           t == at[r]
           wait == Cost[s] - Refilled(s, t)
           promise == clock + Second * RetryAfter(wait)
<1>1. s \in Subject /\ t \in Nat /\ TypeOK /\ clock \in Nat
  BY DEF IInv, TypeOK
<1>2. t <= clock /\ clock <= t + MaxSkew
  BY DEF IInv, SkewBounded, Refuse
<1>3. Refilled(s, t) \in Int /\ Refilled(s, t) < Cost[s]
  BY <1>1, RefilledIsFullAt DEF Refuse
<1>4. s \in present
  <2>1. Refilled(s, t) # Burst
    BY <1>1, <1>3, Constants, SMT
  <2> QED BY <2>1, <1>1, RefilledIsFullAt
<1>5. FullAt(s) \in Int /\ FullAt(s) > t /\ Refilled(s, t) = t + Burst - FullAt(s)
  <2>1. /\ FullAt(s) \in Int
        /\ FullAt(s) <= t => Refilled(s, t) = Burst
        /\ FullAt(s) >= t => t + Burst - Refilled(s, t) = FullAt(s)
    BY <1>1, <1>4, RefilledIsFullAt
  <2> HIDE DEF s, t
  <2> QED BY <2>1, <1>1, <1>3, Constants, SMT
<1>6. promise \in Nat /\ promise >= clock + Second
  <2> HIDE DEF s, t
  <2>1. wait \in Int
    BY <1>1, <1>3, Constants, SMT
  <2>2. RetryAfter(wait) \in Nat /\ RetryAfter(wait) >= 1
    <3> HIDE DEF wait
    <3> QED BY <2>1, Constants, SMT DEF RetryAfter
  <2> HIDE DEF wait
  <2>3. Second * RetryAfter(wait) \in Nat /\ Second * RetryAfter(wait) >= Second
    BY <2>2, Constants, SMT
  <2> QED BY <2>3, <1>1, Constants, SMT
<1>7. present' = present /\ tokens'[s] = Refilled(s, t) /\ last'[s] = t
  BY <1>1, <1>4 DEF Refuse, SetBucket, TypeOK
<1>8. retryAt' = [retryAt EXCEPT ![s] = IF @ # NoPromise /\ @ < promise THEN @ ELSE promise]
  BY DEF Refuse
<1>9. \A u \in Subject : u # s => tokens'[u] = tokens[u] /\ last'[u] = last[u]
  BY <1>1 DEF Refuse, SetBucket, TypeOK
<1>10. /\ \/ retryAt'[s] = promise
          \/ retryAt'[s] = retryAt[s] /\ retryAt[s] # NoPromise
       /\ \A u \in Subject : u # s => retryAt'[u] = retryAt[u]
  <2> HIDE DEF promise
  <2> QED BY <1>1, <1>8 DEF TypeOK
<1>11. grants' = grants /\ clock' = clock
  BY DEF Refuse
<1> HIDE DEF promise
<1>12. tokens'[s] = t + Burst - FullAt(s)
  BY <1>5, <1>7
<1> USE <1>1, <1>6
<1> WITNESS s \in Subject, t \in Nat, promise \in Nat
<1> QED BY <1>1, <1>2, <1>4, <1>5, <1>6, <1>7, <1>9, <1>10, <1>11, <1>12

(* The steps that touch neither a bucket nor the log. *)
Elsewhere ==
  \/ Tick
  \/ \E r \in Request : Arrive(r) \/ Leave(r)
  \/ ReapTick
  \/ UNCHANGED vars

LEMMA ElsewhereMoves ==
  ASSUME IInv, Elsewhere
  PROVE  /\ UNCHANGED <<present, tokens, last, grants, retryAt>>
         /\ clock \in Nat /\ (clock' = clock \/ clock' = clock + 1)
BY DEF IInv, TypeOK, Elsewhere, Tick, Advance, Arrive, Leave, ReapTick, vars, bucketVars

LEMMA NextCases ==
  ASSUME [Next]_vars
  PROVE  \/ Elsewhere
         \/ \E r \in Request : Admit(r)
         \/ \E r \in Request : Refuse(r)
         \/ Reap
BY DEF Next, Elsewhere

LEMMA SkewStep ==
  ASSUME IInv, [Next]_vars
  PROVE  SkewBounded'
<1> DEFINE Requests == \A r \in Request :
             pc[r] = "arrived" => at[r] <= clock /\ clock <= at[r] + MaxSkew
           Buckets == \A s \in present :
             tokens[s] <= Burst /\ tokens[s] >= 0 - MaxSkew /\ FullAt(s) <= clock + Burst
<1>1. TypeOK /\ reapAt <= clock /\ Requests /\ Buckets /\ clock \in Nat /\ reapAt \in Nat
  BY DEF IInv, SkewBounded, TypeOK
<1>2. \A s \in Subject : tokens[s] \in Int /\ last[s] \in Nat
  BY <1>1 DEF TypeOK
<1>3. \A r \in Request : at[r] \in Nat
  BY <1>1 DEF TypeOK
<1>4. present \in SUBSET Subject
  BY <1>1 DEF TypeOK
<1>5. reapAt' <= clock'
  <2>1. CASE UNCHANGED <<clock, reapAt>>
    BY <1>1, <2>1
  <2>2. CASE clock' = clock + 1 /\ reapAt' = reapAt
    BY <1>1, <2>2, SMT
  <2>3. CASE clock' = clock /\ reapAt' \in {0, clock}
    BY <1>1, <2>3, SMT
  <2> QED BY <2>1, <2>2, <2>3 DEF Next, Tick, Advance, Arrive, Admit, Refuse, Leave, ReapTick, Reap,
                                  vars, bucketVars, requestVars, reaperVars
<1>6. Requests'
  <2>1. CASE Tick
    BY <1>1, <1>3, <2>1, SMT DEF Tick, Advance, requestVars
  <2>2. ASSUME NEW r \in Request, Arrive(r) PROVE Requests'
    BY <1>1, <1>3, <2>2, Constants, SMT DEF Arrive, TypeOK
  <2>3. ASSUME NEW r \in Request, Admit(r) \/ Refuse(r) \/ Leave(r) PROVE Requests'
    <3>1. /\ clock' = clock
          /\ \A q \in Request : pc'[q] = "arrived" => pc[q] = "arrived" /\ at'[q] = at[q]
      BY <1>1, <2>3 DEF Admit, Refuse, Leave, TypeOK
    <3> QED BY <1>1, <3>1
  <2>4. CASE ReapTick \/ Reap \/ UNCHANGED vars
    BY <1>1, <2>4 DEF ReapTick, Reap, vars, requestVars
  <2> QED BY <2>1, <2>2, <2>3, <2>4 DEF Next
<1>7. Buckets'
  <2>1. CASE Elsewhere
    <3>1. UNCHANGED <<present, tokens, last>> /\ (clock' = clock \/ clock' = clock + 1)
      BY <2>1, ElsewhereMoves
    <3> SUFFICES ASSUME NEW s \in present
                 PROVE  /\ tokens[s] <= Burst /\ tokens[s] >= 0 - MaxSkew
                        /\ FullAt(s) <= clock' + Burst
      BY <3>1 DEF FullAt
    <3>2. FullAt(s) \in Int
      BY <1>2, <1>4, Constants, SMT DEF FullAt
    <3> QED BY <1>1, <3>1, <3>2, Constants, SMT
  <2>2. ASSUME NEW r \in Request, Admit(r) PROVE Buckets'
    <3>1. PICK s \in Subject, t \in Nat :
          /\ t <= clock
          /\ present' = present \cup {s}
          /\ tokens'[s] = Refilled(s, t) - Cost[s] /\ last'[s] = t
          /\ \A u \in Subject : u # s => tokens'[u] = tokens[u] /\ last'[u] = last[u]
          /\ Refilled(s, t) \in Int /\ Refilled(s, t) >= Cost[s]
          /\ clock' = clock
      BY <2>2, AdmitMoves
    <3> DEFINE x == Refilled(s, t)
    <3>2. x <= Burst /\ x \in Int /\ x >= Cost[s] /\ tokens'[s] = x - Cost[s]
      BY <3>1, RefilledIsFullAt
    <3> HIDE DEF x
    <3> SUFFICES ASSUME NEW u \in present'
                 PROVE  /\ tokens'[u] <= Burst /\ tokens'[u] >= 0 - MaxSkew
                        /\ last'[u] + Burst - tokens'[u] <= clock + Burst
      BY <3>1 DEF FullAt
    <3>3. CASE u = s
      <4>1. x - Cost[s] <= Burst /\ x - Cost[s] >= 0 - MaxSkew
            /\ t + Burst - (x - Cost[s]) <= clock + Burst
        BY <1>1, <3>1, <3>2, Constants, SMT
      <4> QED BY <3>1, <3>2, <3>3, <4>1
    <3>4. CASE u # s
      BY <1>1, <1>4, <3>1, <3>4 DEF FullAt
    <3> QED BY <3>3, <3>4
  <2>3. ASSUME NEW r \in Request, Refuse(r) PROVE Buckets'
    <3>1. PICK s \in Subject, t \in Nat :
          /\ t <= clock /\ clock <= t + MaxSkew
          /\ s \in present /\ present' = present
          /\ tokens'[s] = t + Burst - FullAt(s) /\ last'[s] = t
          /\ FullAt(s) \in Int /\ FullAt(s) > t
          /\ \A u \in Subject : u # s => tokens'[u] = tokens[u] /\ last'[u] = last[u]
          /\ clock' = clock
      BY <2>3, RefuseMoves
    <3> SUFFICES ASSUME NEW u \in present
                 PROVE  /\ tokens'[u] <= Burst /\ tokens'[u] >= 0 - MaxSkew
                        /\ last'[u] + Burst - tokens'[u] <= clock + Burst
      BY <3>1 DEF FullAt
    <3>3. CASE u = s
      <4>1. FullAt(s) <= clock + Burst
        BY <1>1, <3>1
      <4>2. t + Burst - FullAt(s) <= Burst /\ t + Burst - FullAt(s) >= 0 - MaxSkew
            /\ t + Burst - (t + Burst - FullAt(s)) <= clock + Burst
        BY <1>1, <3>1, <4>1, Constants, SMT
      <4> QED BY <3>1, <3>3, <4>2
    <3>4. CASE u # s
      BY <1>1, <1>4, <3>1, <3>4 DEF FullAt
    <3> QED BY <3>3, <3>4
  <2>4. CASE Reap
    <3>1. /\ present' \subseteq present /\ clock' = clock
          /\ \A s \in present' : tokens'[s] = tokens[s] /\ last'[s] = last[s]
      BY <1>4, <2>4 DEF Reap
    <3> QED BY <1>1, <3>1 DEF FullAt
  <2> QED BY <2>1, <2>2, <2>3, <2>4, NextCases
<1> QED BY <1>5, <1>6, <1>7 DEF SkewBounded

LEMMA BucketIsLogStep ==
  ASSUME IInv, [Next]_vars
  PROVE  BucketIsLog'
<1>1. TypeOK /\ BucketIsLog /\ AbsentIsFull /\ present \in SUBSET Subject
  BY DEF IInv, TypeOK
<1>2. CASE Elsewhere
  <2>1. UNCHANGED <<present, tokens, last, grants>>
    BY <1>2, ElsewhereMoves
  <2> QED BY <1>1, <2>1 DEF BucketIsLog, Refund, FullAt
<1>3. ASSUME NEW r \in Request, Admit(r) PROVE BucketIsLog'
  <2>0. PICK s \in Subject, t \in Nat :
        /\ t <= clock /\ clock <= t + MaxSkew
        /\ present' = present \cup {s}
        /\ tokens'[s] = Refilled(s, t) - Cost[s] /\ last'[s] = t
        /\ \A u \in Subject : u # s => tokens'[u] = tokens[u] /\ last'[u] = last[u]
        /\ grants' = [grants EXCEPT ![s] = Append(@, t)]
        /\ Refilled(s, t) \in Int
    BY <1>3, AdmitMoves
  <2> DEFINE x == Refilled(s, t)
             L == Len(grants[s])
  <2>1. x \in Int /\ tokens'[s] = x - Cost[s]
    BY <2>0
  <2>2. /\ Len(grants'[s]) = L + 1
        /\ \A i \in 1..L : Refund(s, i)' = Refund(s, i) + Cost[s]
        /\ \A i \in Nat : i = L + 1 => Refund(s, i)' = t + Cost[s]
        /\ \A u \in Subject : u # s => grants'[u] = grants[u]
    BY <1>1, <2>0, <2>1, AppendRefund
  <2>3. L \in Nat /\ \A i \in 1..L : Refund(s, i) \in Int
    BY <1>1, <2>0, <2>1, RefundType
  <2>4. /\ x <= Burst
        /\ s \in present => /\ FullAt(s) \in Int
                            /\ t + Burst - x >= FullAt(s)
                            /\ FullAt(s) <= t => x = Burst
                            /\ FullAt(s) >= t => t + Burst - x = FullAt(s)
        /\ s \notin present => x = Burst
    BY <2>0, <2>1, RefilledIsFullAt
  <2>5. s \in present => /\ \A i \in 1..L : Refund(s, i) <= FullAt(s)
                         /\ \E i \in 1..L : Refund(s, i) = FullAt(s)
    BY <1>1 DEF BucketIsLog
  <2>6. s \notin present => \A i \in 1..L : Refund(s, i) <= clock - MaxSkew
    BY <1>1, <2>0, <2>1 DEF AbsentIsFull
  <2>7. clock \in Nat
    BY <1>1 DEF TypeOK
  <2> HIDE DEF x, L
  <2>8. FullAt(s)' = (t + Burst - x) + Cost[s]
    <3>1. FullAt(s)' = t + Burst - (x - Cost[s])
      BY <2>0, <2>1 DEF FullAt
    <3>2. t + Burst - (x - Cost[s]) = (t + Burst - x) + Cost[s]
      BY <2>0, <2>1, Constants, SMT
    <3> QED BY <3>1, <3>2
  <2>9. /\ \A i \in 1..L : Refund(s, i) <= t + Burst - x
        /\ t <= t + Burst - x
    BY <2>0, <2>1, <2>3, <2>4, <2>5, <2>6, <2>7, Constants, SMT
  <2>10. \/ t + Burst - x = t
         \/ \E i \in 1..L : Refund(s, i) = t + Burst - x
    <3>1. CASE x = Burst
      BY <2>0, <2>1, <3>1, Constants, SMT
    <3>2. CASE x # Burst
      BY <2>0, <2>1, <2>4, <2>5, <3>2, Constants, SMT
    <3> QED BY <3>1, <3>2
  <2> DEFINE f == t + Burst - x
  <2>13. f \in Int /\ Cost[s] \in Int
    BY <2>1, Constants, SMT
  <2>11. ASSUME NEW i \in 1..L + 1 PROVE Refund(s, i)' <= FullAt(s)'
    <3>1. CASE i \in 1..L
      <4>1. Refund(s, i) + Cost[s] <= (t + Burst - x) + Cost[s]
        <5>1. Refund(s, i) \in Int /\ Refund(s, i) <= f
          BY <2>3, <2>9, <3>1
        <5> HIDE DEF f
        <5>2. Refund(s, i) + Cost[s] <= f + Cost[s]
          BY <5>1, <2>13, SMT
        <5> QED BY <5>2 DEF f
      <4> QED BY <2>2, <2>8, <3>1, <4>1
    <3>2. CASE i = L + 1
      <4>1. t + Cost[s] <= (t + Burst - x) + Cost[s]
        <5> HIDE DEF f
        <5>1. t <= f
          BY <2>9 DEF f
        <5>2. t + Cost[s] <= f + Cost[s]
          BY <5>1, <2>13, SMT
        <5> QED BY <5>2 DEF f
      <4>2. Refund(s, i)' = t + Cost[s]
        BY <2>2, <2>3, <3>2, SMT
      <4> QED BY <2>8, <4>1, <4>2
    <3> QED BY <2>3, <3>1, <3>2, SMT
  <2>12. \E i \in 1..L + 1 : Refund(s, i)' = FullAt(s)'
    <3>1. CASE t + Burst - x = t
      <4>1. PICK i \in Nat : i = L + 1 /\ i \in 1..L + 1
        BY <2>3, SMT
      <4>2. Refund(s, i)' = FullAt(s)'
        BY <2>2, <2>8, <3>1, <4>1
      <4> QED BY <4>1, <4>2
    <3>2. ASSUME NEW i \in 1..L, Refund(s, i) = t + Burst - x
          PROVE  \E j \in 1..L + 1 : Refund(s, j)' = FullAt(s)'
      <4>1. i \in 1..L + 1
        BY <2>3, SMT
      <4>2. Refund(s, i)' = FullAt(s)'
        BY <2>2, <2>8, <3>2
      <4> QED BY <4>1, <4>2
    <3> QED BY <2>10, <3>1, <3>2
  <2>14. ASSUME NEW u \in present', u # s
         PROVE  /\ \A i \in 1..Len(grants'[u]) : Refund(u, i)' <= FullAt(u)'
                /\ \E i \in 1..Len(grants'[u]) : Refund(u, i)' = FullAt(u)'
    <3>1. u \in present /\ u \in Subject
      BY <1>1, <2>0, <2>1, <2>14
    <3>2. grants'[u] = grants[u] /\ tokens'[u] = tokens[u] /\ last'[u] = last[u]
      BY <2>0, <2>1, <2>2, <2>14, <3>1
    <3>3. FullAt(u)' = FullAt(u) /\ \A i \in 1..Len(grants[u]) : Refund(u, i)' = Refund(u, i)
      BY <3>2 DEF FullAt, Refund
    <3>4. /\ \A i \in 1..Len(grants[u]) : Refund(u, i) <= FullAt(u)
          /\ \E i \in 1..Len(grants[u]) : Refund(u, i) = FullAt(u)
      BY <1>1, <3>1 DEF BucketIsLog
    <3> QED BY <3>2, <3>3, <3>4
  <2> QED BY <2>2, <2>11, <2>12, <2>14 DEF BucketIsLog
<1>4. ASSUME NEW r \in Request, Refuse(r) PROVE BucketIsLog'
  <2>1. PICK s \in Subject, t \in Nat :
        /\ present' = present
        /\ tokens'[s] = t + Burst - FullAt(s) /\ last'[s] = t
        /\ FullAt(s) \in Int
        /\ \A u \in Subject : u # s => tokens'[u] = tokens[u] /\ last'[u] = last[u]
        /\ grants' = grants
    BY <1>4, RefuseMoves
  <2>2. ASSUME NEW u \in present PROVE FullAt(u)' = FullAt(u)
    <3>1. CASE u = s
      <4>1. t + Burst - (t + Burst - FullAt(s)) = FullAt(s)
        BY <2>1, Constants, SMT
      <4>2. FullAt(u)' = last'[u] + Burst - tokens'[u]
        BY DEF FullAt
      <4> QED BY <2>1, <3>1, <4>1, <4>2
    <3>2. CASE u # s
      BY <1>1, <2>1, <3>2 DEF FullAt
    <3> QED BY <3>1, <3>2
  <2> QED BY <1>1, <2>1, <2>2 DEF BucketIsLog, Refund
<1>5. CASE Reap
  <2>1. /\ present' \subseteq present /\ grants' = grants
        /\ \A s \in present' : tokens'[s] = tokens[s] /\ last'[s] = last[s]
    BY <1>1, <1>5 DEF Reap
  <2> QED BY <1>1, <2>1 DEF BucketIsLog, Refund, FullAt
<1> QED BY <1>2, <1>3, <1>4, <1>5, NextCases

(* Reaping needs IdleTTL to outlast a burst and two delays. *)
LEMMA AbsentIsFullStep ==
  ASSUME IInv, [Next]_vars
  PROVE  AbsentIsFull'
<1>1. TypeOK /\ AbsentIsFull /\ present \in SUBSET Subject /\ clock \in Nat
  BY DEF IInv, TypeOK
<1>2. ASSUME NEW s \in Subject
      PROVE  \A i \in 1..Len(grants[s]) : Refund(s, i) \in Int
  BY <1>1, <1>2, RefundType
<1>3. CASE Elsewhere
  <2>1. UNCHANGED <<present, grants>> /\ clock' \in Nat /\ clock' >= clock
    <3>1. UNCHANGED <<present, grants>> /\ (clock' = clock \/ clock' = clock + 1)
      BY <1>3, ElsewhereMoves
    <3>2. CASE clock' = clock
      BY <1>1, <3>1, <3>2, SMT
    <3>3. CASE clock' = clock + 1
      BY <1>1, <3>1, <3>3, SMT
    <3> QED BY <3>1, <3>2, <3>3
  <2> SUFFICES ASSUME NEW s \in Subject \ present, NEW i \in 1..Len(grants[s])
               PROVE  Refund(s, i) <= clock' - MaxSkew
    BY <2>1 DEF AbsentIsFull, Refund
  <2>2. PICK c \in Nat : c = clock' /\ c >= clock
    BY <2>1
  <2>3. Refund(s, i) <= clock - MaxSkew
    BY <1>1 DEF AbsentIsFull
  <2>4. Refund(s, i) <= c - MaxSkew
    BY <1>1, <1>2, <2>2, <2>3, Constants, SMT
  <2> QED BY <2>2, <2>4
<1>4. ASSUME NEW r \in Request, Admit(r) PROVE AbsentIsFull'
  <2>1. PICK s \in Subject, t \in Nat :
        /\ present' = present \cup {s}
        /\ grants' = [grants EXCEPT ![s] = Append(@, t)]
        /\ clock' = clock
    BY <1>4, AdmitMoves
  <2>2. \A u \in Subject : u # s => grants'[u] = grants[u]
    BY <1>1, <2>1 DEF TypeOK
  <2> QED BY <1>1, <2>1, <2>2 DEF AbsentIsFull, Refund
<1>5. ASSUME NEW r \in Request, Refuse(r) PROVE AbsentIsFull'
  <2>1. present' = present /\ grants' = grants /\ clock' = clock
    BY <1>5, RefuseMoves
  <2> QED BY <1>1, <2>1 DEF AbsentIsFull, Refund
<1>6. CASE Reap
  <2>1. /\ present' = {s \in present : ~Idle(s)}
        /\ UNCHANGED <<grants, clock>>
    BY <1>6 DEF Reap
  <2> SUFFICES ASSUME NEW s \in Subject \ present', NEW i \in 1..Len(grants[s])
               PROVE  Refund(s, i) <= clock - MaxSkew
    BY <2>1 DEF AbsentIsFull, Refund
  <2>2. CASE s \notin present
    BY <1>1, <2>2 DEF AbsentIsFull
  <2>3. CASE s \in present
    <3>1. reapAt - last[s] > IdleTTL
      BY <2>1, <2>3 DEF Idle
    <3>2. reapAt <= clock /\ reapAt \in Nat /\ last[s] \in Nat /\ tokens[s] \in Int
          /\ tokens[s] >= 0 - MaxSkew
      BY <1>1, <2>3 DEF IInv, TypeOK, SkewBounded
    <3>3. Refund(s, i) <= FullAt(s)
      BY <2>3 DEF IInv, BucketIsLog
    <3>4. FullAt(s) = last[s] + Burst - tokens[s]
      BY DEF FullAt
    <3>5. last[s] + Burst - tokens[s] <= clock - MaxSkew
      BY <1>1, <3>1, <3>2, Constants, SMTT(30)
    <3>6. FullAt(s) \in Int
      BY <3>2, <3>4, Constants, SMT
    <3> QED BY <1>1, <1>2, <3>3, <3>4, <3>5, <3>6, Constants, SMT
  <2> QED BY <2>2, <2>3
<1> QED BY <1>3, <1>4, <1>5, <1>6, NextCases

LEMMA WithinRateStep ==
  ASSUME IInv, [Next]_vars
  PROVE  WithinRate'
<1>1. TypeOK /\ WithinRate
  BY DEF IInv
<1>2. CASE UNCHANGED grants
  BY <1>1, <1>2 DEF WithinRate
<1>3. ASSUME NEW r \in Request, Admit(r) PROVE WithinRate'
  <2>1. PICK s \in Subject, t \in Nat :
        /\ s = subj[r] /\ t = at[r]
        /\ grants' = [grants EXCEPT ![s] = Append(@, t)]
        /\ Refilled(s, t) >= Cost[s]
    BY <1>3, AdmitMoves
  <2> DEFINE L == Len(grants[s])
  <2>2. /\ Len(grants'[s]) = L + 1
        /\ \A i \in 1..L : grants'[s][i] = grants[s][i]
        /\ grants'[s][L + 1] = t
        /\ \A u \in Subject : u # s => grants'[u] = grants[u]
    <3>1. grants' = [grants EXCEPT ![s] = Append(@, t)]
      BY <2>1
    <3>2. TypeOK
      BY <1>1
    <3> QED BY <3>1, <3>2, AppendRefund
  <2>3. \A i \in 1..L : Refund(s, i) + Cost[s] <= t + Burst
    BY <1>3, <2>1, AllowIsFits DEF Admit
  <2>4. L \in Nat /\ \A i \in 1..L : grants[s][i] \in Nat
    BY <1>1, RefundType
  <2>5. Cost[s] \in Int /\ Burst \in Int /\ Cost[s] <= Burst
    BY Constants
  <2>6. \A j \in 1..L : \A i \in 1..j :
          Cost[s] * (j - i + 1) <= Burst + grants[s][j] - grants[s][i]
    BY <1>1 DEF WithinRate
  <2>7. ASSUME NEW j \in 1..L + 1, NEW i \in 1..j
        PROVE  Cost[s] * (j - i + 1) <= Burst + grants'[s][j] - grants'[s][i]
    <3>1. CASE j \in 1..L
      <4>1. i \in 1..L
        BY <2>4, <3>1, SMT
      <4>2. grants'[s][i] = grants[s][i] /\ grants'[s][j] = grants[s][j]
        BY <2>2, <3>1, <4>1
      <4>3. Cost[s] * (j - i + 1) <= Burst + grants[s][j] - grants[s][i]
        BY <2>6, <3>1
      <4> QED BY <4>2, <4>3
    <3>2. CASE j = L + 1 /\ i = L + 1
      <4>1. j - i + 1 = 1
        BY <2>4, <3>2, SMT
      <4>2. Cost[s] * 1 = Cost[s] /\ Cost[s] <= Burst + t - t
        BY <2>5, SMT
      <4> QED BY <2>2, <3>2, <4>1, <4>2
    <3>3. CASE j = L + 1 /\ i # L + 1
      <4>1. i \in 1..L /\ i \in Int
        BY <2>4, <3>3, SMT
      <4>2. j - i + 1 = (L - i + 1) + 1 /\ L - i + 1 \in Int
        BY <2>4, <3>3, <4>1, SMT
      <4>3. Cost[s] * (j - i + 1) = Cost[s] * (L - i + 1) + Cost[s]
        BY <2>5, <4>2, Distribute
      <4> DEFINE c == Cost[s] * (L - i + 1)
      <4>4. c \in Int
        BY <2>5, <4>2, SMT
      <4>5. Refund(s, i) = grants[s][i] + c
        BY DEF Refund
      <4>6. Refund(s, i) + Cost[s] <= t + Burst
        BY <2>3, <4>1
      <4>7. grants[s][i] \in Int
        BY <2>4, <4>1
      <4> DEFINE g == grants[s][i]
      <4>8. g \in Int /\ (g + c) + Cost[s] <= t + Burst
        BY <4>5, <4>6, <4>7
      <4> HIDE DEF c, g
      <4>9. c + Cost[s] <= Burst + t - g
        BY <4>4, <4>8, <2>5, SMT
      <4>10. grants'[s][i] = g /\ grants'[s][j] = t
        BY <2>2, <3>3, <4>1 DEF g
      <4> QED BY <4>3, <4>9, <4>10 DEF c
    <3> QED BY <2>4, <3>1, <3>2, <3>3, SMT
  <2> HIDE DEF L
  <2> SUFFICES ASSUME NEW u \in Subject, NEW j \in 1..Len(grants'[u]), NEW i \in 1..j
               PROVE  Cost[u] * (j - i + 1) <= Burst + grants'[u][j] - grants'[u][i]
    BY DEF WithinRate
  <2>8. CASE u = s
    BY <2>2, <2>7, <2>8
  <2>9. CASE u # s
    BY <1>1, <2>2, <2>9 DEF WithinRate
  <2> QED BY <2>8, <2>9
<1>4. (\A r \in Request : ~Admit(r)) => UNCHANGED grants
  <2>1. Elsewhere => UNCHANGED grants
    BY ElsewhereMoves
  <2>2. Reap => UNCHANGED grants
    BY DEF Reap
  <2>3. \A r \in Request : Refuse(r) => UNCHANGED grants
    BY DEF Refuse
  <2> QED BY <2>1, <2>2, <2>3, NextCases
<1> QED BY <1>2, <1>3, <1>4

(* A bucket that is full only at p + Burst - Cost[s] or earlier holds a    *)
(* token at p.                                                             *)
LEMMA PromiseIsFullAt ==
  ASSUME IInv, NEW s \in present, NEW p \in Nat
  PROVE  Refilled(s, p) >= Cost[s] <=> FullAt(s) + Cost[s] <= p + Burst
<1>1. s \in Subject
  BY DEF IInv, TypeOK
<1>2. /\ Refilled(s, p) \in Int /\ Refilled(s, p) <= Burst /\ FullAt(s) \in Int
      /\ FullAt(s) <= p => Refilled(s, p) = Burst
      /\ FullAt(s) >= p => p + Burst - Refilled(s, p) = FullAt(s)
  BY <1>1, RefilledIsFullAt
<1> QED BY <1>1, <1>2, Constants, SMT

LEMMA RetryAfterStep ==
  ASSUME IInv, [Next]_vars
  PROVE  RetryAfterIsEnough'
<1>1. TypeOK /\ RetryAfterIsEnough /\ present \in SUBSET Subject /\ clock \in Nat
  BY DEF IInv, TypeOK
<1>2. CASE Elsewhere
  <2>1. UNCHANGED <<present, tokens, last, retryAt>>
    BY <1>2, ElsewhereMoves
  <2> QED BY <1>1, <2>1 DEF RetryAfterIsEnough, Refilled
<1>3. ASSUME NEW r \in Request, Admit(r) PROVE RetryAfterIsEnough'
  <2>1. PICK s \in Subject :
        /\ present' = present \cup {s}
        /\ \A u \in Subject : u # s => tokens'[u] = tokens[u] /\ last'[u] = last[u]
        /\ retryAt'[s] = NoPromise
        /\ \A u \in Subject : u # s => retryAt'[u] = retryAt[u]
    BY <1>3, AdmitMoves
  <2> SUFFICES ASSUME NEW u \in Subject, u # s, retryAt[u] # NoPromise
               PROVE  Refilled(u, retryAt[u])' >= Cost[u]
    BY <2>1 DEF RetryAfterIsEnough
  <2>2. Refilled(u, retryAt[u]) >= Cost[u]
    BY <1>1 DEF RetryAfterIsEnough
  <2>3. Refilled(u, retryAt[u])' = Refilled(u, retryAt[u])
    BY <2>1 DEF Refilled
  <2> QED BY <2>2, <2>3
<1>4. ASSUME NEW r \in Request, Refuse(r) PROVE RetryAfterIsEnough'
  <2>1. PICK s \in Subject, t \in Nat, promise \in Nat :
        /\ s \in present /\ present' = present
        /\ tokens'[s] = t + Burst - FullAt(s) /\ last'[s] = t
        /\ FullAt(s) \in Int
        /\ \A u \in Subject : u # s => tokens'[u] = tokens[u] /\ last'[u] = last[u]
        /\ promise >= clock + Second
        /\ \/ retryAt'[s] = promise
           \/ retryAt'[s] = retryAt[s] /\ retryAt[s] # NoPromise
        /\ \A u \in Subject : u # s => retryAt'[u] = retryAt[u]
    BY <1>4, RefuseMoves
  <2>2. FullAt(s) <= clock + Burst
    BY <2>1 DEF IInv, SkewBounded
  <2>3. PICK p \in Nat : p = retryAt'[s] /\ (p = promise \/ (p = retryAt[s] /\ p # NoPromise))
    BY <1>1, <2>1 DEF TypeOK
  <2>4. FullAt(s) + Cost[s] <= p + Burst
    <3>1. CASE p = promise
      BY <1>1, <2>1, <2>2, <3>1, Constants, SMT
    <3>2. CASE p = retryAt[s] /\ p # NoPromise
      <4>1. Refilled(s, p) >= Cost[s]
        BY <1>1, <3>2 DEF RetryAfterIsEnough
      <4> QED BY <2>1, <4>1, PromiseIsFullAt
    <3> QED BY <2>3, <3>1, <3>2
  <2>5. Refilled(s, p)' >= Cost[s]
    <3>1. Refilled(s, p)' = Capped((t + Burst - FullAt(s)) + (p - t))
      BY <2>1 DEF Refilled, Capped
    <3> DEFINE full == FullAt(s)
    <3>2. full \in Int /\ full + Cost[s] <= p + Burst
      BY <2>1, <2>4
    <3> HIDE DEF full
    <3>3. Capped((t + Burst - full) + (p - t)) >= Cost[s]
      BY <3>2, Constants, SMT DEF Capped
    <3> QED BY <3>1, <3>3 DEF full
  <2> SUFFICES ASSUME NEW u \in Subject, retryAt'[u] # NoPromise
               PROVE  Refilled(u, retryAt[u])' >= Cost[u]
    BY DEF RetryAfterIsEnough
  <2>6. CASE u = s
    <3>1. Refilled(u, retryAt[u])' = Refilled(s, p)'
      BY <2>3, <2>6 DEF Refilled
    <3> QED BY <2>5, <2>6, <3>1
  <2>7. CASE u # s
    <3>1. Refilled(u, retryAt[u]) >= Cost[u]
      BY <1>1, <2>1, <2>7 DEF RetryAfterIsEnough
    <3>2. Refilled(u, retryAt[u])' = Refilled(u, retryAt[u])
      BY <2>1, <2>7 DEF Refilled
    <3> QED BY <3>1, <3>2
  <2> QED BY <2>6, <2>7
<1>5. CASE Reap
  <2>1. /\ present' \subseteq present /\ retryAt' = retryAt
        /\ \A s \in present' : tokens'[s] = tokens[s] /\ last'[s] = last[s]
    BY <1>1, <1>5 DEF Reap
  <2> SUFFICES ASSUME NEW s \in Subject, retryAt[s] # NoPromise
               PROVE  Refilled(s, retryAt[s])' >= Cost[s]
    BY <2>1 DEF RetryAfterIsEnough
  <2>2. CASE s \in present'
    <3>1. Refilled(s, retryAt[s])' = Refilled(s, retryAt[s])
      BY <2>1, <2>2 DEF Refilled
    <3> QED BY <1>1, <3>1 DEF RetryAfterIsEnough
  <2>3. CASE s \notin present'
    <3>1. Refilled(s, retryAt[s])' = Burst
      BY <2>3 DEF Refilled
    <3> QED BY <3>1, Constants
  <2> QED BY <2>2, <2>3
<1> QED BY <1>2, <1>3, <1>4, <1>5, NextCases

--------------------------------------------------------------------------------

(* The inductive invariant holds: buckets are summaries of the grant log.  *)
THEOREM LimiterInvariant == Spec => []IInv
<1>1. IInv /\ [Next]_vars => IInv'
  BY TypeStep, SkewStep, BucketIsLogStep, AbsentIsFullStep, WithinRateStep, RetryAfterStep
     DEF IInv
<1> QED BY <1>1, InitIInv, PTL DEF Spec

(* No two grants of a subject have more grants between them than a burst   *)
(* and the refill of the time between them, whatever the order of          *)
(* concurrent requests and of reaping.                                     *)
THEOREM LimiterKeepsRate == Spec => []WithinRate
<1>1. IInv => WithinRate
  BY DEF IInv
<1> QED BY <1>1, LimiterInvariant, PTL

(* Whoever waits for as long as Retry-After says is served, unless another *)
(* request of the same subject was.                                        *)
THEOREM LimiterHonestRetry == Spec => []RetryAfterIsEnough
<1>1. IInv => RetryAfterIsEnough
  BY DEF IInv
<1> QED BY <1>1, LimiterInvariant, PTL

(* Every step of the limiter is a step of the log of grants, or none. *)
LEMMA StepImplementsLog ==
  ASSUME IInv, [Next]_vars
  PROVE  [Log!Next]_(Log!vars)
<1>1. TypeOK
  BY DEF IInv
<1>2. ASSUME NEW r \in Request, Arrive(r) PROVE Log!Arrive(r)
  <2>1. at'[r] \in Nat /\ at' = [at EXCEPT ![r] = at'[r]]
    BY <1>1, <1>2 DEF Arrive, TypeOK
  <2> QED BY <1>2, <2>1 DEF Arrive, Log!Arrive
<1>3. ASSUME NEW r \in Request, pc[r] = "arrived"
      PROVE  Refilled(subj[r], at[r]) >= Cost[subj[r]] <=> Log!Fits(subj[r], at[r])
  <2> DEFINE s == subj[r]
             t == at[r]
  <2>1. s \in Subject /\ t \in Nat
    BY <1>1 DEF TypeOK
  <2>2. Refilled(s, t) >= Cost[s] <=>
          \A i \in 1..Len(grants[s]) : Refund(s, i) + Cost[s] <= t + Burst
    BY <1>3, AllowIsFits
  <2> HIDE DEF s, t
  <2>3. ASSUME NEW i \in 1..Len(grants[s])
        PROVE  Refund(s, i) + Cost[s] <= t + Burst <=>
               Cost[s] * (Len(grants[s]) - i + 1) + Cost[s] <= Burst + t - grants[s][i]
    <3> DEFINE c == Cost[s] * (Len(grants[s]) - i + 1)
               g == grants[s][i]
    <3>1. Len(grants[s]) \in Nat /\ g \in Int
      BY <1>1, <2>1, RefundType
    <3>2. Len(grants[s]) - i + 1 \in Int
      BY <3>1, SMT
    <3>3. c \in Int /\ Cost[s] \in Int /\ Burst \in Int
      BY <2>1, <3>2, Constants, SMT
    <3>4. Refund(s, i) = g + c
      BY DEF Refund
    <3> HIDE DEF c, g
    <3>5. (g + c) + Cost[s] <= t + Burst <=> c + Cost[s] <= Burst + t - g
      BY <2>1, <3>1, <3>3, SMT
    <3> QED BY <3>4, <3>5 DEF c, g
  <2> QED BY <2>2, <2>3 DEF Log!Fits, s, t
<1>4. ASSUME NEW r \in Request, Admit(r) PROVE Log!Admit(r)
  BY <1>3, <1>4 DEF Admit, Log!Admit
<1>5. ASSUME NEW r \in Request, Refuse(r) PROVE Log!Refuse(r)
  <2>1. Refilled(subj[r], at[r]) \in Int /\ Cost[subj[r]] \in Int
    BY <1>1, RefilledIsFullAt, Constants DEF TypeOK
  <2>2. ~(Refilled(subj[r], at[r]) >= Cost[subj[r]])
    BY <1>5, <2>1, SMT DEF Refuse
  <2> QED BY <1>3, <1>5, <2>2 DEF Refuse, Log!Refuse
<1>6. ASSUME NEW r \in Request, Leave(r) PROVE Log!Leave(r)
  BY <1>6 DEF Leave, Log!Leave
<1>7. CASE Tick \/ ReapTick \/ Reap \/ UNCHANGED vars
  BY <1>7 DEF Tick, Advance, ReapTick, Reap, vars, requestVars, Log!vars
<1> QED BY <1>2, <1>4, <1>5, <1>6, <1>7 DEF Next, Log!Next

(* The limiter implements the log: it admits a request exactly when the    *)
(* log of grants leaves room for it.                                       *)
THEOREM LimiterImplementsLog == Spec => LogSpec
<1>1. Init => Log!Init
  BY DEF Init, Log!Init
<1>2. IInv /\ [Next]_vars => [Log!Next]_(Log!vars)
  BY StepImplementsLog
<1> QED BY <1>1, <1>2, LimiterInvariant, PTL DEF Spec, LogSpec, Log!Spec

--------------------------------------------------------------------------------
(* The key cache. *)

LEMMA CacheInitInv == ASSUME CacheInit PROVE CacheInv
<1>1. Never \in Nat /\ Never > 0
  BY AuthAssumption, ClockAssumption DEF Never
<1>2. CacheTypeOK
  BY <1>1, AuthAssumption, ClockAssumption DEF CacheInit, CacheTypeOK, LookupPc, Version
<1>3. NothingFromTheFuture
  BY <1>2 DEF CacheInit, NothingFromTheFuture, CacheTypeOK
<1>4. StoreIsCurrent /\ EntryExpiresInTime /\ AnswerNotStale /\ NewKeyUsable
  BY DEF CacheInit, StoreIsCurrent, EntryExpiresInTime, AnswerNotStale, NewKeyUsable
<1>5. QED
  BY <1>2, <1>3, <1>4 DEF CacheInv

(* Time passes: only the comparison of the past with the clock is weaker. *)
LEMMA TickInv ==
  ASSUME CacheInv, TimePasses
  PROVE  CacheInv'
<1>1. CacheTypeOK'
  BY AuthAssumption, ClockAssumption
     DEF CacheInv, TimePasses, Advance, CacheTypeOK, tableVars, cacheVars
<1>2. NothingFromTheFuture'
  BY AuthAssumption, ClockAssumption
     DEF CacheInv, TimePasses, Advance, CacheTypeOK, NothingFromTheFuture, tableVars, cacheVars
<1>3. (StoreIsCurrent /\ EntryExpiresInTime /\ AnswerNotStale /\ NewKeyUsable)'
  BY DEF CacheInv, TimePasses, Advance, StoreIsCurrent, EntryExpiresInTime, AnswerNotStale,
         NewKeyUsable, tableVars, cacheVars
<1>4. QED
  BY <1>1, <1>2, <1>3 DEF CacheInv

--------------------------------------------------------------------------------
(* The operator's statements. *)

(* A version that ends now ends after every lookup in progress began and   *)
(* TTL or less before any entry expires.                                   *)
LEMMA EndingNowIsHarmless ==
  ASSUME CacheInv, clock' = clock,
         UNCHANGED <<cached, centry, expires, lookupPc, key, now, found>>,
         \A k \in Key, v \in Version :
           endedAt'[k][v] = endedAt[k][v] \/ endedAt'[k][v] = clock
  PROVE  (StoreIsCurrent /\ EntryExpiresInTime /\ AnswerNotStale)'
<1>1. /\ \A l \in Lookup : /\ now[l] \in Nat /\ now[l] <= clock /\ key[l] \in Key
                           /\ found[l] # 0 => found[l] \in Version
      /\ \A k \in cached : /\ k \in Key /\ expires[k] <= clock + TTL
                           /\ centry[k] # 0 => centry[k] \in Version
      /\ clock \in Nat /\ TTL \in Nat
  BY AuthAssumption, ClockAssumption DEF CacheInv, CacheTypeOK, NothingFromTheFuture, Version
<1>2. StoreIsCurrent'
  BY <1>1 DEF CacheInv, StoreIsCurrent
<1>3. EntryExpiresInTime'
  BY <1>1 DEF CacheInv, EntryExpiresInTime
<1>4. AnswerNotStale'
  BY <1>1 DEF CacheInv, AnswerNotStale
<1>5. QED
  BY <1>2, <1>3, <1>4

(* The effect of ending the latest version of a row. *)
LEMMA EndLatest ==
  ASSUME CacheTypeOK, NEW k \in Key,
         endedAt' = [endedAt EXCEPT ![k] = [@ EXCEPT ![issued[k]] = clock]]
  PROVE  /\ endedAt' \in [Key -> [Version -> 0..Never]]
         /\ \A j \in Key, v \in Version :
              \/ endedAt'[j][v] = endedAt[j][v]
              \/ endedAt'[j][v] = clock /\ j = k /\ v = issued[k]
<1> DEFINE row == [endedAt[k] EXCEPT ![issued[k]] = clock]
<1>1. clock \in 0..Never
  BY AuthAssumption, ClockAssumption DEF CacheTypeOK, Never
<1>2. row \in [Version -> 0..Never]
  BY <1>1 DEF CacheTypeOK
<1>3. \A v \in Version : row[v] = endedAt[k][v] \/ (row[v] = clock /\ v = issued[k])
  BY DEF CacheTypeOK
<1>4. endedAt' = [endedAt EXCEPT ![k] = row]
  OBVIOUS
<1> HIDE DEF row
<1> DEFINE Row == [Version -> 0..Never]
<1>5. endedAt' \in [Key -> Row]
  <2>1. endedAt \in [Key -> Row] /\ row \in Row
    BY <1>2 DEF CacheTypeOK
  <2> HIDE DEF Row
  <2>2. QED
    BY <1>4, <2>1
<1>6. endedAt'[k] = row /\ \A j \in Key : j # k => endedAt'[j] = endedAt[j]
  BY <1>4 DEF CacheTypeOK
<1>7. QED
  BY <1>3, <1>5, <1>6

LEMMA WriteRowInv ==
  ASSUME CacheInv, NEW k \in Key, WriteRow(k)
  PROVE  CacheInv'
<1>1. /\ CacheTypeOK /\ NothingFromTheFuture /\ clock' = clock
      /\ UNCHANGED <<cached, centry, expires, lookupPc, key, now, found>>
      /\ issued' = [issued EXCEPT ![k] = @ + 1]
      /\ live' = [live EXCEPT ![k] = "yes"]
      /\ issued[k] \in 0..MaxVersions /\ issued[k] < MaxVersions
      /\ clock \in 0..MaxTime /\ MaxVersions \in Nat /\ TTL \in Nat /\ MaxTime \in Nat
  BY AuthAssumption, ClockAssumption DEF CacheInv, WriteRow, cacheVars, CacheTypeOK
<1>2. /\ endedAt' \in [Key -> [Version -> 0..Never]]
      /\ \A j \in Key, v \in Version :
           \/ endedAt'[j][v] = endedAt[j][v]
           \/ endedAt'[j][v] = clock /\ j = k /\ v = issued[k]
  <2>1. CASE live[k] = "yes"
    BY <1>1, <2>1, EndLatest DEF WriteRow
  <2>2. CASE live[k] # "yes"
    BY <1>1, <2>2 DEF WriteRow, CacheTypeOK
  <2>3. QED
    BY <2>1, <2>2
<1>3. CacheTypeOK'
  <2>1. issued' \in [Key -> 0..MaxVersions] /\ live' \in [Key -> {"yes", "no"}]
    BY <1>1 DEF CacheTypeOK
  <2>2. liveSince' \in [Key -> Nat]
    BY <1>1 DEF WriteRow, CacheTypeOK
  <2>3. QED
    BY <1>1, <1>2, <2>1, <2>2 DEF CacheTypeOK
<1>4. NothingFromTheFuture'
  <2>1. \A j \in Key, v \in Version :
          (v > issued'[j] \/ (v = issued'[j] /\ live'[j] = "yes")) => endedAt'[j][v] = Never
    <3> SUFFICES ASSUME NEW j \in Key, NEW v \in Version,
                        v > issued'[j] \/ (v = issued'[j] /\ live'[j] = "yes")
                 PROVE  endedAt'[j][v] = Never
      OBVIOUS
    <3>1. v \in Int /\ issued[j] \in Int
      BY <1>1 DEF CacheTypeOK, Version
    <3>2. CASE j = k
      <4>1. v >= issued[k] + 1
        BY <1>1, <3>1, <3>2 DEF CacheTypeOK
      <4>2. v > issued[k] /\ v # issued[k]
        BY <1>1, <3>1, <4>1
      <4>3. endedAt[k][v] = Never /\ endedAt'[k][v] = endedAt[k][v]
        BY <1>1, <1>2, <4>2 DEF NothingFromTheFuture
      <4>4. QED
        BY <3>2, <4>3
    <3>3. CASE j # k
      BY <1>1, <1>2, <3>1, <3>3 DEF NothingFromTheFuture, CacheTypeOK
    <3>4. QED
      BY <3>2, <3>3
  <2>2. \A j \in Key : live'[j] = "yes" => issued'[j] # 0
    BY <1>1 DEF NothingFromTheFuture, CacheTypeOK
  <2>3. QED
    BY <1>1, <2>1, <2>2 DEF NothingFromTheFuture
<1>5. (StoreIsCurrent /\ EntryExpiresInTime /\ AnswerNotStale)'
  BY <1>1, <1>2, EndingNowIsHarmless
<1>6. NewKeyUsable'
  <2> SUFFICES ASSUME NEW l \in Lookup, lookupPc[l] = "answered", found[l] = 0,
                      live'[key[l]] = "yes", liveSince'[key[l]] < now[l]
               PROVE  FALSE
    BY <1>1 DEF NewKeyUsable
  <2>1. /\ ~(live[key[l]] = "yes" /\ liveSince[key[l]] < now[l])
        /\ key[l] \in Key /\ now[l] \in Nat /\ now[l] <= clock
    BY DEF CacheInv, NewKeyUsable, CacheTypeOK, NothingFromTheFuture
  <2>2. CASE key[l] = k /\ live[k] = "no"
    BY <1>1, <2>1, <2>2 DEF WriteRow, CacheTypeOK
  <2>3. CASE key[l] = k /\ live[k] = "yes"
    BY <1>1, <2>1, <2>3 DEF WriteRow
  <2>4. CASE key[l] # k
    <3>1. liveSince'[key[l]] = liveSince[key[l]] /\ live'[key[l]] = live[key[l]]
      BY <1>1, <2>1, <2>4 DEF WriteRow, CacheTypeOK
    <3>2. QED
      BY <2>1, <3>1
  <2>5. QED
    BY <1>1, <2>2, <2>3, <2>4 DEF CacheTypeOK
<1>7. QED
  BY <1>3, <1>4, <1>5, <1>6 DEF CacheInv

LEMMA RevokeInv ==
  ASSUME CacheInv, NEW k \in Key, Revoke(k)
  PROVE  CacheInv'
<1>1. /\ CacheTypeOK /\ NothingFromTheFuture /\ clock' = clock
      /\ UNCHANGED <<issued, liveSince, cached, centry, expires, lookupPc, key, now, found>>
      /\ live' = [live EXCEPT ![k] = "no"]
      /\ endedAt' = [endedAt EXCEPT ![k] = [@ EXCEPT ![issued[k]] = clock]]
      /\ clock \in 0..MaxTime /\ MaxTime \in Nat
  BY AuthAssumption, ClockAssumption DEF CacheInv, Revoke, cacheVars, CacheTypeOK
<1>2. /\ endedAt' \in [Key -> [Version -> 0..Never]]
      /\ \A j \in Key, v \in Version :
           \/ endedAt'[j][v] = endedAt[j][v]
           \/ endedAt'[j][v] = clock /\ j = k /\ v = issued[k]
  BY <1>1, EndLatest
<1>3. CacheTypeOK'
  <2>1. live' \in [Key -> {"yes", "no"}]
    BY <1>1 DEF CacheTypeOK
  <2>2. QED
    BY <1>1, <1>2, <2>1 DEF CacheTypeOK
<1>4. NothingFromTheFuture'
  BY <1>1, <1>2 DEF NothingFromTheFuture, CacheTypeOK
<1>5. (StoreIsCurrent /\ EntryExpiresInTime /\ AnswerNotStale)'
  BY <1>1, <1>2, EndingNowIsHarmless
<1>6. NewKeyUsable'
  BY <1>1 DEF CacheInv, NewKeyUsable, CacheTypeOK
<1>7. QED
  BY <1>3, <1>4, <1>5, <1>6 DEF CacheInv

--------------------------------------------------------------------------------
(* A step of one lookup. *)

(* The parts of the invariant about the table and the clock survive any    *)
(* step that leaves them alone.                                            *)
LEMMA BeginInv ==
  ASSUME CacheInv, NEW l \in Lookup, NEW k \in Key, Begin(l, k)
  PROVE  CacheInv'
<1>1. /\ CacheTypeOK
      /\ UNCHANGED <<clock, issued, live, endedAt, liveSince, cached, centry, expires, found>>
      /\ lookupPc' = [lookupPc EXCEPT ![l] = "check"] /\ key' = [key EXCEPT ![l] = k]
      /\ now' = [now EXCEPT ![l] = clock] /\ clock \in 0..MaxTime /\ MaxTime \in Nat
  BY AuthAssumption, ClockAssumption DEF CacheInv, Begin, tableVars, cacheVars, CacheTypeOK
<1>2. CacheTypeOK'
  BY <1>1 DEF CacheTypeOK, LookupPc
<1>3. NothingFromTheFuture' /\ EntryExpiresInTime'
  BY <1>1 DEF CacheInv, NothingFromTheFuture, EntryExpiresInTime, CacheTypeOK
<1>4. \A m \in Lookup : \/ lookupPc'[m] = "check"
                        \/ lookupPc'[m] = lookupPc[m] /\ key'[m] = key[m] /\ now'[m] = now[m]
  BY <1>1 DEF CacheTypeOK
<1>5. StoreIsCurrent' /\ AnswerNotStale' /\ NewKeyUsable'
  BY <1>1, <1>4 DEF CacheInv, StoreIsCurrent, AnswerNotStale, NewKeyUsable
<1>6. QED
  BY <1>2, <1>3, <1>5 DEF CacheInv

(* A step of l that leaves the cache alone and takes l to a place where    *)
(* its answer, if it has one, is justified.                                *)
LEMMA LocalInv ==
  ASSUME CacheInv, NEW l \in Lookup, NEW p \in LookupPc, NEW v \in 0..MaxVersions,
         UNCHANGED <<clock, issued, live, endedAt, liveSince, cached, centry, expires, key, now>>,
         lookupPc' = [lookupPc EXCEPT ![l] = p], found' = [found EXCEPT ![l] = v],
         p = "store" => v # 0 /\ now[l] <= endedAt[key[l]][v],
         p = "answered" /\ v # 0 => \/ now[l] <= endedAt[key[l]][v]
                                   \/ now[l] < endedAt[key[l]][v] + TTL,
         p = "answered" /\ v = 0 => ~(live[key[l]] = "yes" /\ liveSince[key[l]] < now[l])
  PROVE  CacheInv'
<1>1. CacheTypeOK'
  BY DEF CacheInv, CacheTypeOK
<1>2. NothingFromTheFuture' /\ EntryExpiresInTime'
  BY DEF CacheInv, NothingFromTheFuture, EntryExpiresInTime
<1>3. \A m \in Lookup : IF m = l THEN lookupPc'[m] = p /\ found'[m] = v
                                 ELSE lookupPc'[m] = lookupPc[m] /\ found'[m] = found[m]
  BY DEF CacheInv, CacheTypeOK
<1>4. StoreIsCurrent'
  BY <1>3 DEF CacheInv, StoreIsCurrent
<1>5. AnswerNotStale'
  BY <1>3 DEF CacheInv, AnswerNotStale
<1>6. NewKeyUsable'
  BY <1>3 DEF CacheInv, NewKeyUsable
<1>7. QED
  BY <1>1, <1>2, <1>4, <1>5, <1>6 DEF CacheInv

(* A cache hit: the entry outlives `now', so `now' is less than TTL after  *)
(* the end of the version.                                                 *)
LEMMA HitInv ==
  ASSUME CacheInv, NEW l \in Lookup, Hit(l)
  PROVE  CacheInv'
<1> DEFINE k == key[l]
           v == centry[k]
<1>1. /\ k \in cached /\ k \in Key /\ expires[k] > now[l]
      /\ now[l] \in Nat /\ expires[k] \in Nat /\ v \in 0..MaxVersions
      /\ v # 0 /\ expires[k] <= endedAt[k][v] + TTL
  BY DEF CacheInv, Hit, Fresh, CacheTypeOK, EntryExpiresInTime
<1>2. v \in Version /\ endedAt[k][v] \in Nat /\ TTL \in Nat
  BY <1>1, AuthAssumption, ClockAssumption DEF CacheInv, CacheTypeOK, Version, Never
<1>3. now[l] < endedAt[k][v] + TTL
  BY <1>1, <1>2
<1>4. /\ lookupPc' = [lookupPc EXCEPT ![l] = "answered"] /\ found' = [found EXCEPT ![l] = v]
      /\ UNCHANGED <<clock, issued, live, endedAt, liveSince, cached, centry, expires, key, now>>
  BY DEF Hit, tableVars, cacheVars
<1>5. "answered" \in LookupPc /\ "answered" # "store"
  BY DEF LookupPc
<1>6. QED
  BY <1>1, <1>3, <1>4, <1>5, LocalInv

LEMMA MissInv ==
  ASSUME CacheInv, NEW l \in Lookup, Miss(l) \/ QueryFails(l)
  PROVE  CacheInv'
<1>1. /\ found[l] \in 0..MaxVersions /\ found' = [found EXCEPT ![l] = found[l]]
      /\ UNCHANGED <<clock, issued, live, endedAt, liveSince, cached, centry, expires, key, now>>
  BY DEF CacheInv, CacheTypeOK, Miss, QueryFails, tableVars, cacheVars
<1>2. \/ lookupPc' = [lookupPc EXCEPT ![l] = "query"]
      \/ lookupPc' = [lookupPc EXCEPT ![l] = "failed"]
  BY DEF Miss, QueryFails
<1>3. /\ {"query", "failed"} \subseteq LookupPc
      /\ \A p \in {"query", "failed"} : p # "store" /\ p # "answered"
  BY DEF LookupPc
<1>4. QED
  BY <1>1, <1>2, <1>3, LocalInv

(* The query: the version read has not ended, so it ends at `now' or later. *)
LEMMA QueryRowInv ==
  ASSUME CacheInv, NEW l \in Lookup, QueryRow(l)
  PROVE  CacheInv'
<1> DEFINE k == key[l]
           v == RowVersion(k)
           p == IF live[k] = "yes" THEN "store" ELSE "answered"
<1>1. /\ lookupPc' = [lookupPc EXCEPT ![l] = p] /\ found' = [found EXCEPT ![l] = v]
      /\ UNCHANGED <<clock, issued, live, endedAt, liveSince, cached, centry, expires, key, now>>
  BY DEF QueryRow, tableVars, cacheVars
<1>2. /\ k \in Key /\ v \in 0..MaxVersions /\ p \in LookupPc /\ now[l] \in Nat /\ now[l] <= clock
      /\ clock \in 0..MaxTime
  BY AuthAssumption, ClockAssumption
     DEF CacheInv, CacheTypeOK, RowVersion, LookupPc, NothingFromTheFuture
<1>3. CASE live[k] = "yes"
  <2>1. v = issued[k] /\ v # 0 /\ v \in Version
    BY <1>2, <1>3 DEF CacheInv, NothingFromTheFuture, CacheTypeOK, RowVersion, Version
  <2>2. endedAt[k][v] = Never
    BY <1>2, <1>3, <2>1 DEF CacheInv, NothingFromTheFuture
  <2>3. now[l] <= endedAt[k][v]
    BY <1>2, <2>2, AuthAssumption, ClockAssumption DEF Never
  <2>4. QED
    BY <1>1, <1>2, <1>3, <2>1, <2>3, LocalInv
<1>4. CASE live[k] # "yes"
  <2>1. v = 0 /\ p = "answered"
    BY <1>4 DEF RowVersion
  <2>2. QED
    BY <1>1, <1>2, <1>4, <2>1, LocalInv
<1>5. QED
  BY <1>3, <1>4

(* The entry stored expires TTL after `now', which is not after the end of *)
(* the version.                                                            *)
LEMMA StoreInv ==
  ASSUME CacheInv, NEW l \in Lookup, Store(l)
  PROVE  CacheInv'
<1> DEFINE k == key[l]
           v == found[l]
<1>1. /\ k \in Key /\ v \in 0..MaxVersions /\ v # 0 /\ now[l] \in Nat /\ now[l] <= clock
      /\ clock \in 0..MaxTime /\ MaxTime \in Nat /\ TTL \in Nat
      /\ now[l] <= endedAt[k][v] /\ lookupPc[l] = "store"
  BY AuthAssumption, ClockAssumption
     DEF CacheInv, CacheTypeOK, NothingFromTheFuture, StoreIsCurrent, Store
<1>2. /\ UNCHANGED <<clock, issued, live, endedAt, liveSince, key, now, found>>
      /\ cached' = cached \cup {k} /\ centry' = [centry EXCEPT ![k] = v]
      /\ expires' = [expires EXCEPT ![k] = now[l] + TTL]
      /\ lookupPc' = [lookupPc EXCEPT ![l] = "answered"]
  BY DEF Store, ExpiryOf, tableVars
<1>3. CacheTypeOK'
  BY <1>1, <1>2 DEF CacheInv, CacheTypeOK, LookupPc
<1>4. v \in Version /\ endedAt[k][v] \in Nat
  BY <1>1, AuthAssumption, ClockAssumption DEF CacheInv, CacheTypeOK, Version, Never
<1>5. now[l] + TTL <= endedAt[k][v] + TTL /\ now[l] + TTL <= clock + TTL
  BY <1>1, <1>4
<1>6. \A j \in cached' : IF j = k THEN centry'[j] = v /\ expires'[j] = now[l] + TTL
                         ELSE j \in cached /\ centry'[j] = centry[j] /\ expires'[j] = expires[j]
  BY <1>1, <1>2 DEF CacheInv, CacheTypeOK
<1>7. EntryExpiresInTime'
  BY <1>1, <1>2, <1>5, <1>6 DEF CacheInv, EntryExpiresInTime
<1>8. NothingFromTheFuture'
  BY <1>2, <1>5, <1>6 DEF CacheInv, NothingFromTheFuture
<1>9. \A m \in Lookup : lookupPc'[m] = IF m = l THEN "answered" ELSE lookupPc[m]
  BY <1>2 DEF CacheInv, CacheTypeOK
<1>10. StoreIsCurrent' /\ AnswerNotStale' /\ NewKeyUsable'
  BY <1>1, <1>2, <1>9 DEF CacheInv, StoreIsCurrent, AnswerNotStale, NewKeyUsable
<1>11. QED
  BY <1>3, <1>7, <1>8, <1>10 DEF CacheInv

LEMMA FinishInv ==
  ASSUME CacheInv, NEW l \in Lookup, Finish(l)
  PROVE  CacheInv'
<1>1. /\ UNCHANGED <<clock, issued, live, endedAt, liveSince, cached, centry, expires, key>>
      /\ lookupPc' = [lookupPc EXCEPT ![l] = "idle"] /\ now' = [now EXCEPT ![l] = 0]
      /\ found' = [found EXCEPT ![l] = 0]
  BY DEF Finish, tableVars, cacheVars
<1>2. CacheTypeOK'
  BY <1>1, AuthAssumption, ClockAssumption DEF CacheInv, CacheTypeOK, LookupPc
<1>3. NothingFromTheFuture' /\ EntryExpiresInTime'
  BY <1>1, AuthAssumption, ClockAssumption
     DEF CacheInv, NothingFromTheFuture, EntryExpiresInTime, CacheTypeOK
<1>4. \A m \in Lookup : \/ lookupPc'[m] = "idle"
                        \/ lookupPc'[m] = lookupPc[m] /\ found'[m] = found[m] /\ now'[m] = now[m]
  BY <1>1 DEF CacheInv, CacheTypeOK
<1>5. StoreIsCurrent' /\ AnswerNotStale' /\ NewKeyUsable'
  BY <1>1, <1>4 DEF CacheInv, StoreIsCurrent, AnswerNotStale, NewKeyUsable
<1>6. QED
  BY <1>2, <1>3, <1>5 DEF CacheInv

--------------------------------------------------------------------------------

LEMMA CacheStutter ==
  ASSUME CacheInv, UNCHANGED authVars
  PROVE  CacheInv'
BY DEF CacheInv, authVars, tableVars, cacheVars, CacheTypeOK, NothingFromTheFuture, StoreIsCurrent,
       EntryExpiresInTime, AnswerNotStale, NewKeyUsable

(* The inductive invariant holds in every reachable state. *)
THEOREM CacheInvariant == CacheSpec => []CacheInv
<1>1. CacheInv /\ [CacheNext]_authVars => CacheInv'
  BY TickInv, WriteRowInv, RevokeInv, BeginInv, HitInv, MissInv, QueryRowInv, StoreInv,
     FinishInv, CacheStutter DEF CacheNext, Step
<1>2. QED
  BY CacheInitInv, <1>1, PTL DEF CacheSpec

(* No lookup that begins TTL or more after a key was revoked, or after its *)
(* limits were changed, is answered with the old row.                      *)
THEOREM RevocationIsTimely == CacheSpec => []AnswerNotStale
<1>1. CacheInv => AnswerNotStale
  BY DEF CacheInv
<1>2. QED
  BY <1>1, CacheInvariant, PTL

(* A request that begins after a key was issued is not refused for an      *)
(* earlier answer.                                                         *)
THEOREM NewKeysWork == CacheSpec => []NewKeyUsable
<1>1. CacheInv => NewKeyUsable
  BY DEF CacheInv
<1>2. QED
  BY <1>1, CacheInvariant, PTL

================================================================================
