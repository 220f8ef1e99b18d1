---------------------------- MODULE UsageMeterProofs ----------------------------
(***************************************************************************)
(* Proofs about UsageMeter, for every set of classes, channel capacity,    *)
(* batch size, number of requests and of late commits: its inductive invariant, the safety  *)
(* properties the runs check, and that it implements UsageLedger; then     *)
(* about the usage report that reads beside the meter (UsageReport).       *)
(***************************************************************************)
EXTENDS UsageReport, FiniteSetTheorems, FunctionTheorems, TLAPS

--------------------------------------------------------------------------------
(* Counting the events of a class. *)

(* The events of a class among finitely many accepted ones can be counted. *)
LEMMA CountType ==
  ASSUME TypeOK, NEW S \in SUBSET (1..Len(accepted)), NEW c
  PROVE  IsFiniteSet(S) /\ IsFiniteSet(OfClass(S, c)) /\ CountIn(S, c) \in Nat
<1>1. Len(accepted) \in Nat
  BY DEF TypeOK
<1>2. IsFiniteSet(1..Len(accepted))
  BY <1>1, FS_Interval
<1>3. IsFiniteSet(S)
  BY <1>2, FS_Subset
<1>4. OfClass(S, c) \in SUBSET S
  BY DEF OfClass
<1>5. IsFiniteSet(OfClass(S, c))
  BY <1>3, <1>4, FS_Subset
<1>6. QED
  BY <1>3, <1>5, FS_CardinalityType DEF CountIn

(* Nothing is counted in the empty set. *)
LEMMA CountEmpty ==
  ASSUME NEW c
  PROVE  CountIn({}, c) = 0
<1>1. OfClass({}, c) = {}
  BY DEF OfClass
<1>2. QED
  BY <1>1, FS_EmptySet DEF CountIn

(* One more event adds one to the count of its own class only. *)
LEMMA CountAdd ==
  ASSUME TypeOK, NEW S \in SUBSET (1..Len(accepted)), NEW c,
         NEW k \in 1..Len(accepted), k \notin S
  PROVE  CountIn(S \cup {k}, c) =
           IF accepted[k] = c THEN CountIn(S, c) + 1 ELSE CountIn(S, c)
<1>1. IsFiniteSet(OfClass(S, c))
  BY CountType
<1>2. CASE accepted[k] = c
  <2>1. OfClass(S \cup {k}, c) = OfClass(S, c) \cup {k}
    BY <1>2 DEF OfClass
  <2>2. k \notin OfClass(S, c)
    BY DEF OfClass
  <2>3. Cardinality(OfClass(S, c) \cup {k}) = Cardinality(OfClass(S, c)) + 1
    BY <1>1, <2>2, FS_AddElement
  <2>4. QED
    BY <1>2, <2>1, <2>3 DEF CountIn
<1>3. CASE accepted[k] # c
  <2>1. OfClass(S \cup {k}, c) = OfClass(S, c)
    BY <1>3 DEF OfClass
  <2>2. QED
    BY <1>3, <2>1 DEF CountIn
<1>4. QED
  BY <1>2, <1>3

(* Disjoint sets of events are counted separately. *)
LEMMA CountUnion ==
  ASSUME TypeOK, NEW S \in SUBSET (1..Len(accepted)),
         NEW T \in SUBSET (1..Len(accepted)), S \cap T = {}, NEW c
  PROVE  CountIn(S \cup T, c) = CountIn(S, c) + CountIn(T, c)
<1>1. /\ IsFiniteSet(OfClass(S, c)) /\ IsFiniteSet(OfClass(T, c))
      /\ CountIn(S, c) \in Nat /\ CountIn(T, c) \in Nat
  BY CountType
<1>2. OfClass(S \cup T, c) = OfClass(S, c) \cup OfClass(T, c)
  BY DEF OfClass
<1>3. OfClass(S, c) \cap OfClass(T, c) = {}
  BY DEF OfClass
<1>4. Cardinality(OfClass(S, c) \cup OfClass(T, c))
        = Cardinality(OfClass(S, c)) + Cardinality(OfClass(T, c)) - Cardinality({})
  BY <1>1, <1>3, FS_Union
<1>5. CountIn(S \cup T, c) = CountIn(S, c) + CountIn(T, c) - 0
  BY <1>2, <1>4, FS_EmptySet DEF CountIn
<1>6. QED
  BY <1>1, <1>5

(* Accepting another event changes no count of the earlier ones. *)
LEMMA CountStable ==
  ASSUME TypeOK, NEW d \in Class, accepted' = Append(accepted, d),
         NEW S \in SUBSET (1..Len(accepted)), NEW c
  PROVE  Cardinality({i \in S : accepted'[i] = c}) = CountIn(S, c)
<1>1. \A i \in S : accepted'[i] = accepted[i]
  BY DEF TypeOK
<1>2. {i \in S : accepted'[i] = c} = OfClass(S, c)
  BY <1>1 DEF OfClass
<1>3. QED
  BY <1>2 DEF CountIn

(* Where each class counts its events of S, the units of all classes of C  *)
(* are as many as the events of S in C: a bijection, put together class by *)
(* class.                                                                  *)
LEMMA UnitsAreEvents ==
  ASSUME TypeOK, NEW S \in SUBSET (1..Len(accepted)), NEW C \in SUBSET Class, NEW counts,
         \A c \in C : counts[c] = CountIn(S, c)
  PROVE  /\ IsFiniteSet({i \in S : accepted[i] \in C})
         /\ IsFiniteSet(Units(counts, C))
         /\ Total(counts, C) = Cardinality({i \in S : accepted[i] \in C})
<1> DEFINE U == Units(counts, C)
           Events == {i \in S : accepted[i] \in C}
           Nth(c) == CHOOSE g : g \in Bijection(1..counts[c], OfClass(S, c))
           F == [u \in U |-> Nth(u[1])[u[2]]]
<1>1. IsFiniteSet(Events)
  <2>1. IsFiniteSet(S) /\ Events \in SUBSET S
    BY CountType
  <2>2. QED
    BY <2>1, FS_Subset
<1>2. ASSUME NEW c \in C
      PROVE  Nth(c) \in Bijection(1..counts[c], OfClass(S, c))
  <2>1. IsFiniteSet(OfClass(S, c)) /\ counts[c] = Cardinality(OfClass(S, c))
    BY CountType DEF CountIn
  <2>2. ExistsBijection(1..Cardinality(OfClass(S, c)), OfClass(S, c))
    BY <2>1, FS_CardinalityType
  <2>3. \E g : g \in Bijection(1..counts[c], OfClass(S, c))
    BY <2>1, <2>2 DEF ExistsBijection
  <2>4. QED
    BY <2>3
<1> HIDE DEF Nth
<1>3. ASSUME NEW c \in C
      PROVE  /\ \A k \in 1..counts[c] : Nth(c)[k] \in S /\ accepted[Nth(c)[k]] = c
             /\ \A j, k \in 1..counts[c] : Nth(c)[j] = Nth(c)[k] => j = k
             /\ \A i \in S : accepted[i] = c => \E k \in 1..counts[c] : Nth(c)[k] = i
  <2>1. /\ Nth(c) \in [1..counts[c] -> OfClass(S, c)]
        /\ \A j, k \in 1..counts[c] : Nth(c)[j] = Nth(c)[k] => j = k
        /\ \A i \in OfClass(S, c) : \E k \in 1..counts[c] : Nth(c)[k] = i
    BY <1>2 DEF Bijection, Injection, Surjection, IsInjective
  <2>2. \A k \in 1..counts[c] : Nth(c)[k] \in OfClass(S, c)
    BY <2>1
  <2>3. QED
    BY <2>1, <2>2 DEF OfClass
<1>4. \A u \in U : u[1] \in C /\ u[2] \in 1..counts[u[1]] /\ u = <<u[1], u[2]>>
  BY DEF Units
<1>5. \A c \in C : \A k \in 1..counts[c] : <<c, k>> \in U
  BY DEF Units
<1>6. \A i : i \in Events <=> i \in S /\ accepted[i] \in C
  OBVIOUS
<1> HIDE DEF U, Events
<1>7. F \in Bijection(U, Events)
  <2>1. F \in [U -> Events]
    BY <1>3, <1>4, <1>6
  <2>2. ASSUME NEW u \in U, NEW v \in U, F[u] = F[v]
        PROVE  u = v
    <3>1. u[1] = v[1]
      BY <1>3, <1>4, <2>2
    <3>2. u[2] = v[2]
      BY <1>3, <1>4, <2>2, <3>1
    <3>3. QED
      BY <1>4, <3>1, <3>2
  <2>3. ASSUME NEW i \in Events
        PROVE  \E u \in U : F[u] = i
    <3>1. i \in S /\ accepted[i] \in C
      BY <1>6
    <3>2. PICK k \in 1..counts[accepted[i]] : Nth(accepted[i])[k] = i
      BY <1>3, <3>1
    <3>3. <<accepted[i], k>> \in U
      BY <1>5, <3>1
    <3>4. F[<<accepted[i], k>>] = i
      BY <3>2, <3>3
    <3>5. QED
      BY <3>3, <3>4
  <2>4. F \in Injection(U, Events)
    BY <2>1, <2>2 DEF Injection, IsInjective
  <2>5. F \in Surjection(U, Events)
    BY <2>1, <2>3 DEF Surjection
  <2>6. QED
    BY <2>4, <2>5 DEF Bijection
<1>8. ExistsBijection(Events, U)
  BY <1>7, Fun_ExistsBijSymmetric DEF ExistsBijection
<1>9. IsFiniteSet(U) /\ Cardinality(U) = Cardinality(Events)
  BY <1>1, <1>8, FS_Bijection
<1>10. QED
  BY <1>1, <1>9 DEF Total, U, Events

(* The aggregation map is empty only when no event was received since the  *)
(* last flush, so that skipping an empty flush skips no event.             *)
LEMMA EmptyBatch ==
  ASSUME TypeOK, BatchExact
  PROVE  agg = Empty <=> n = 0
<1>1. CASE flushed = taken
  <2>1. Unflushed = {} /\ n = 0
    BY <1>1 DEF TypeOK, BatchExact, Unflushed
  <2>2. \A c \in Class : agg[c] = 0
    BY <2>1, CountEmpty DEF BatchExact
  <2>3. QED
    BY <2>1, <2>2 DEF TypeOK, Empty
<1>2. CASE flushed # taken
  <2>1. /\ taken \in Unflushed /\ Unflushed \in SUBSET (1..Len(accepted))
        /\ taken \in 1..Len(accepted) /\ accepted[taken] \in Class /\ n # 0
    BY <1>2 DEF TypeOK, BatchExact, Unflushed
  <2> DEFINE c == accepted[taken]
             R == Unflushed \ {taken}
  <2>2. R \in SUBSET (1..Len(accepted)) /\ R \cup {taken} = Unflushed /\ taken \notin R
    BY <2>1
  <2>3. CountIn(R, c) \in Nat
    BY <2>2, CountType
  <2>4. CountIn(R \cup {taken}, c) = CountIn(R, c) + 1
    BY <2>1, <2>2, CountAdd
  <2>5. agg[c] = CountIn(Unflushed, c)
    BY <2>1 DEF BatchExact
  <2>6. CountIn(Unflushed, c) = CountIn(R, c) + 1
    BY <2>2, <2>4
  <2>7. agg[c] # 0
    BY <2>3, <2>5, <2>6
  <2>8. QED
    BY <2>1, <2>7 DEF Empty
<1>3. QED
  BY <1>1, <1>2

--------------------------------------------------------------------------------
(* The inductive invariant. *)

LEMMA Bounds ==
  ASSUME TypeOK
  PROVE  /\ Len(accepted) \in Nat /\ taken \in Nat /\ flushed \in Nat
         /\ flushed <= taken /\ taken <= Len(accepted)
<1>1. Len(accepted) \in Nat
  BY DEF TypeOK
<1>2. taken \in 0..Len(accepted) /\ flushed \in 0..taken
  BY DEF TypeOK
<1>3. QED
  BY <1>1, <1>2

LEMMA SameBatch == accepted' = accepted => Batch' = Batch
BY DEF Batch


LEMMA InitInv == Init => IInv
<1> SUFFICES ASSUME Init PROVE IInv
  OBVIOUS
<1>1. /\ accepted = << >> /\ Len(accepted) = 0 /\ taken = 0 /\ flushed = 0
      /\ logged = {} /\ lost = {} /\ late = {} /\ n = 0 /\ pc = "select" /\ chan = "open"
      /\ agg = Empty /\ usageLog = Empty
  BY DEF Init
<1>2. TypeOK
  BY <1>1 DEF Init, TypeOK, RunPc, Empty
<1>3. Unflushed = {}
  BY <1>1 DEF Unflushed
<1>4. BatchExact
  BY <1>1, <1>3, CountEmpty DEF BatchExact, Empty
<1>5. BilledExactlyOnce
  BY <1>1, CountEmpty DEF BilledExactlyOnce, Empty
<1>6. QED
  BY <1>1, <1>2, <1>4, <1>5, MeterAssumption DEF IInv, LateApart, Committed, ChanLen

(* A request's event enters the channel. *)
LEMMA SendInv ==
  ASSUME IInv, NEW d \in Class, Send(d)
  PROVE  IInv'
<1>0. Len(accepted) \in Nat
  BY DEF IInv, TypeOK
<1>1. /\ TypeOK /\ BatchExact /\ BilledExactlyOnce
      /\ accepted' = Append(accepted, d) /\ Len(accepted) \in Nat
      /\ UNCHANGED <<taken, dropped, chan, pc, agg, n, usageLog, flushed, logged, lost, late>>
      /\ chan = "open" /\ pc # "dead" /\ ChanLen < MeterBuffer
  BY <1>0 DEF IInv, Send, chanVars, runVars
<1>2. accepted' \in Seq(Class) /\ Len(accepted') = Len(accepted) + 1
  BY <1>1 DEF TypeOK
<1>11. late' \subseteq Batch'
  BY <1>1, <1>2 DEF TypeOK, Batch
<1>3. TypeOK'
  BY <1>11, <1>1, <1>2 DEF TypeOK
<1>4. \A S \in SUBSET (1..Len(accepted)), c \in Class :
        Cardinality({i \in S : accepted'[i] = c}) = CountIn(S, c)
  BY <1>1, CountStable
<1>5. Unflushed \in SUBSET (1..Len(accepted)) /\ Unflushed' = Unflushed
  BY <1>1 DEF Unflushed, TypeOK
<1>6. BatchExact'
  BY <1>1, <1>4, <1>5 DEF BatchExact, CountIn, OfClass
<1>7. BilledExactlyOnce'
  BY <1>1, <1>4 DEF BilledExactlyOnce, CountIn, OfClass, TypeOK
<1>8. ChanLen' <= MeterBuffer
  BY <1>1, <1>2, MeterAssumption DEF ChanLen, TypeOK
<1>9. LateApart'
  BY <1>1 DEF IInv, LateApart
<1>10. QED
  BY <1>1, <1>2, <1>3, <1>5, <1>6, <1>7, <1>8, <1>9 DEF IInv, Committed

(* run takes an event out of the channel and aggregates it. *)
LEMMA ReceiveInv ==
  ASSUME IInv, Receive
  PROVE  IInv'
<1> DEFINE k == taken + 1
<1>1. /\ TypeOK /\ BatchExact /\ BilledExactlyOnce
      /\ pc = "select" /\ n < FlushMax /\ ChanLen > 0
      /\ taken' = k /\ n' = n + 1
      /\ agg' = [agg EXCEPT ![accepted[k]] = @ + 1]
      /\ pc' = IF BatchFull THEN "insert" ELSE "select"
      /\ UNCHANGED <<accepted, dropped, chan, usageLog, flushed, logged, lost, late>>
  BY DEF IInv, Receive
<1>2. k \in 1..Len(accepted) /\ accepted[k] \in Class /\ Len(accepted) \in Nat
  <2>1. k \in 1..Len(accepted) /\ Len(accepted) \in Nat
    BY <1>1, Bounds DEF ChanLen
  <2>2. accepted \in Seq(Class)
    BY <1>1 DEF TypeOK
  <2>3. QED
    BY <2>1, <2>2
<1>3. TypeOK'
  <2>1. taken' \in 0..Len(accepted') /\ flushed' \in 0..taken'
    <3>1. taken' = taken + 1 /\ flushed' = flushed /\ accepted' = accepted
      BY <1>1
    <3>2. QED
      BY <1>1, <1>2, <3>1, Bounds
  <2>2. agg' \in [Class -> Nat] /\ n' \in Nat
    <3>1. agg \in [Class -> Nat] /\ n \in Nat
      BY <1>1 DEF TypeOK
    <3>2. agg' = [agg EXCEPT ![accepted[k]] = @ + 1] /\ n' = n + 1
      BY <1>1
    <3>3. QED
      BY <1>2, <3>1, <3>2
  <2>3. pc' \in RunPc
    BY <1>1 DEF RunPc
  <2>4. QED
    BY <1>1, <2>1, <2>2, <2>3, SameBatch DEF TypeOK
<1>4. /\ Unflushed \in SUBSET (1..Len(accepted)) /\ k \notin Unflushed
      /\ Unflushed' = Unflushed \cup {k}
  <2>1. taken' = taken + 1 /\ flushed' = flushed
    BY <1>1
  <2>2. QED
    BY <1>1, <2>1, Bounds DEF Unflushed
<1>5. ASSUME NEW c \in Class
      PROVE  agg'[c] = CountIn(Unflushed \cup {k}, c)
  <2>1. agg[c] = CountIn(Unflushed, c)
    BY <1>1 DEF BatchExact
  <2>2. agg'[c] = IF accepted[k] = c THEN agg[c] + 1 ELSE agg[c]
    BY <1>1, <1>2 DEF TypeOK
  <2>3. QED
    BY <1>1, <1>2, <1>4, <2>1, <2>2, CountAdd
<1>6. BatchExact'
  <2>1. n' = taken' - flushed'
    BY <1>1 DEF BatchExact, TypeOK
  <2>2. \A c \in Class : agg'[c] = CountIn(Unflushed, c)'
    BY <1>1, <1>4, <1>5 DEF CountIn, OfClass
  <2>3. QED
    BY <2>1, <2>2 DEF BatchExact
<1>7. BilledExactlyOnce'
  BY <1>1 DEF BilledExactlyOnce, CountIn, OfClass
<1>8. n' <= FlushMax /\ (pc' = "select" => n' < FlushMax)
  BY <1>1, MeterAssumption DEF BatchFull, TypeOK
<1>9. ChanLen' <= MeterBuffer
  BY <1>1, <1>2, MeterAssumption DEF IInv, ChanLen, TypeOK
<1>10. (logged \cup lost)' = 1..flushed' /\ ~Committed' /\ pc' \in {"select", "insert"}
  BY <1>1 DEF IInv, Committed
<1>11. LateApart'
  BY <1>1 DEF IInv, LateApart
<1>12. QED
  BY <1>3, <1>6, <1>7, <1>8, <1>9, <1>10, <1>11 DEF IInv

(* Steps that leave the channel's history and the table alone and reset    *)
(* run's batch, whether its events were billed or lost.                    *)
LEMMA ResetBatchExact ==
  ASSUME NEW m \in Nat, flushed' = m, taken' = m, n' = 0, agg' = Empty
  PROVE  BatchExact'
<1>1. Unflushed' = {}
  BY DEF Unflushed
<1>2. \A c \in Class : CountIn(Unflushed, c)' = 0
  <2>1. \A c : OfClass(Unflushed, c)' = {}
    BY <1>1 DEF OfClass
  <2>2. QED
    BY <2>1, FS_EmptySet DEF CountIn
<1>3. n' = taken' - flushed'
  OBVIOUS
<1>4. QED
  BY <1>2, <1>3 DEF BatchExact, Empty

(* Steps that touch neither the events nor the counts. *)
LEMMA SameCounts ==
  ASSUME BatchExact, BilledExactlyOnce,
         UNCHANGED <<accepted, taken, agg, n, usageLog, flushed, logged, lost, late>>
  PROVE  BatchExact' /\ BilledExactlyOnce'
BY DEF BatchExact, BilledExactlyOnce, CountIn, OfClass, Unflushed

(* The steps of the request path, the ticker and the process that change   *)
(* only where the channel and run stand.                                   *)
LEMMA ControlInv ==
  ASSUME IInv, Drop \/ CloseChannel \/ Tick \/ ReceiveClosed \/ Restart \/ UNCHANGED vars
  PROVE  IInv'
<1> USE DEF IInv
<1>1. /\ UNCHANGED <<accepted, taken, agg, n, usageLog, flushed, logged, lost, late>>
      /\ Unflushed' = Unflushed /\ ChanLen' = ChanLen
  BY DEF Drop, CloseChannel, Tick, ReceiveClosed, Restart, vars, chanVars, runVars,
         Unflushed, ChanLen
<1>2. BatchExact' /\ BilledExactlyOnce'
  BY <1>1, SameCounts
<1>3. /\ dropped' \in Nat /\ chan' \in {"open", "closed"} /\ pc' \in RunPc
      /\ pc' = "select" => n < FlushMax
      /\ Committed' = Committed
      /\ pc' \in {"finalInsert", "finalCommitted", "done"} => chan' = "closed" /\ ChanLen = 0
  <2>1. CASE Drop
    BY <2>1 DEF Drop, TypeOK, Committed, runVars
  <2>2. CASE CloseChannel
    BY <2>2 DEF CloseChannel, TypeOK, Committed, runVars
  <2>3. CASE Tick
    BY <2>3 DEF Tick, TypeOK, Committed, chanVars, RunPc
  <2>4. CASE ReceiveClosed
    BY <2>4 DEF ReceiveClosed, TypeOK, Committed, chanVars, RunPc
  <2>5. CASE Restart
    <3>1. n = 0
      BY <2>5 DEF Restart, BatchExact, TypeOK
    <3>2. QED
      BY <2>5, <3>1, MeterAssumption DEF Restart, Committed, RunPc
  <2>6. CASE UNCHANGED vars
    BY <2>6 DEF vars, chanVars, runVars, TypeOK, Committed
  <2>7. QED
    BY <2>1, <2>2, <2>3, <2>4, <2>5, <2>6
<1>4. pc' \in {"done", "dead"} => flushed = Len(accepted)
  <2>1. CASE ReceiveClosed
    <3>1. pc' = "done" => n = 0
      BY <2>1, EmptyBatch DEF ReceiveClosed
    <3>2. ChanLen = 0 /\ pc' # "dead"
      BY <2>1 DEF ReceiveClosed
    <3>3. QED
      BY <3>1, <3>2 DEF BatchExact, ChanLen, TypeOK
  <2>2. CASE ~ReceiveClosed
    BY <2>2 DEF Drop, CloseChannel, Tick, Restart, vars, runVars
  <2>3. QED
    BY <2>1, <2>2
<1>5. TypeOK'
  BY <1>1, <1>3, SameBatch DEF TypeOK
<1>6. LateApart'
  BY <1>1 DEF LateApart
<1>7. QED
  BY <1>1, <1>2, <1>3, <1>4, <1>5, <1>6

(* PostgreSQL commits a batch: its events are billed, each once. *)
LEMMA CommitInv ==
  ASSUME IInv, CommitInsert
  PROVE  IInv'
<1>1. /\ TypeOK /\ BatchExact /\ BilledExactlyOnce /\ Inserting /\ ~Committed
      /\ logged \cup lost = 1..flushed
      /\ pc' = IF pc = "insert" THEN "committed" ELSE "finalCommitted"
      /\ usageLog' = [c \in Class |-> usageLog[c] + agg[c]]
      /\ logged' = logged \cup Unflushed
      /\ UNCHANGED <<accepted, taken, dropped, chan, agg, n, flushed, lost, late>>
      /\ Unflushed' = Unflushed
  BY DEF IInv, CommitInsert, Inserting, Committed, chanVars, Unflushed
<1>2. /\ Unflushed \in SUBSET (1..Len(accepted)) /\ logged \in SUBSET (1..Len(accepted))
      /\ logged \cap Unflushed = {} /\ lost \cap Unflushed = {}
      /\ (1..flushed) \cup Unflushed = 1..taken
  <2>1. /\ Unflushed \in SUBSET (1..Len(accepted)) /\ Unflushed \cap (1..flushed) = {}
        /\ (1..flushed) \cup Unflushed = 1..taken
    BY <1>1, Bounds DEF Unflushed
  <2>2. logged \in SUBSET (1..Len(accepted))
    BY <1>1 DEF TypeOK
  <2>3. QED
    BY <1>1, <2>1, <2>2
<1>3. TypeOK'
  <2>1. usageLog' \in [Class -> Nat]
    <3>1. usageLog \in [Class -> Nat] /\ agg \in [Class -> Nat]
      BY <1>1 DEF TypeOK
    <3>2. QED
      BY <1>1, <3>1
  <2>2. logged' \in SUBSET (1..Len(accepted)) /\ pc' \in RunPc
    BY <1>1, <1>2 DEF RunPc
  <2>3. QED
    BY <1>1, <2>1, <2>2, SameBatch DEF TypeOK
<1>4. BatchExact'
  BY <1>1 DEF BatchExact, CountIn, OfClass
<1>5. BilledExactlyOnce'
  <2>1. ASSUME NEW c \in Class
        PROVE  usageLog'[c] = CountIn(logged \cup Unflushed, c)
    <3>1. usageLog[c] = CountIn(logged, c) /\ agg[c] = CountIn(Unflushed, c)
      BY <1>1 DEF BatchExact, BilledExactlyOnce
    <3>2. QED
      BY <1>1, <1>2, <3>1, CountUnion
  <2>2. \A c \in Class : usageLog'[c] = CountIn(logged, c)'
    BY <1>1, <2>1 DEF CountIn, OfClass
  <2>3. \A batch \in late' : batch \cap logged' = {}
    BY <1>1, <1>2 DEF IInv, LateApart, BilledExactlyOnce
  <2>4. QED
    BY <2>2, <2>3 DEF BilledExactlyOnce
<1>6. Committed' /\ logged' \cup lost' = 1..taken' /\ Unflushed' \subseteq logged'
  BY <1>1, <1>2 DEF Committed, Inserting
<1>7. LateApart'
  BY <1>1 DEF IInv, LateApart
<1>8. QED
  BY <1>1, <1>3, <1>4, <1>5, <1>6, <1>7 DEF IInv, Inserting, ChanLen, Committed

(* A batch that is given up shares no event with what is billed, nor with  *)
(* an insert given up before it.                                           *)
LEMMA GivenUp ==
  ASSUME IInv, late' \in MayStay, logged' = logged, lost \subseteq lost',
         Inserting => Unflushed \subseteq lost'
  PROVE  /\ late' \subseteq Batch
         /\ \A batch \in late' : batch \cap logged' = {}
         /\ LateApart'
<1>1. CASE late' = late
  BY <1>1 DEF IInv, TypeOK, BilledExactlyOnce, LateApart
<1>2. CASE Inserting /\ late' = late \cup {Unflushed}
  <2>1. Unflushed \in SUBSET (1..Len(accepted)) /\ Unflushed \cap (1..flushed) = {}
    BY DEF IInv, TypeOK, Unflushed
  <2>2. logged \cup lost = 1..flushed
    BY <1>2 DEF IInv, Inserting, Committed
  <2>3. Unflushed \cap logged = {} /\ \A batch \in late : batch \cap Unflushed = {}
    BY <2>1, <2>2 DEF IInv, LateApart
  <2>4. late' \subseteq Batch
    BY <1>2, <2>1 DEF IInv, TypeOK, Batch
  <2>5. \A batch \in late' : batch \cap logged' = {} /\ batch \subseteq lost'
    BY <1>2, <2>3 DEF IInv, LateApart, BilledExactlyOnce
  <2>6. \A b, d \in late' : b = d \/ b \cap d = {}
    BY <1>2, <2>3 DEF IInv, LateApart
  <2>7. QED
    BY <2>4, <2>5, <2>6 DEF LateApart
<1>3. QED
  BY <1>1, <1>2 DEF MayStay

(* PostgreSQL commits an insert that was given up: its events are billed,  *)
(* and no other insert holds them.                                         *)
LEMMA CommitLateInv ==
  ASSUME IInv, CommitLate
  PROVE  IInv'
<1>1. PICK batch \in late :
        /\ late' = late \ {batch}
        /\ usageLog' = [c \in Class |-> usageLog[c] + CountIn(batch, c)]
        /\ logged' = logged \cup batch
  BY DEF CommitLate
<1>2. /\ TypeOK /\ BatchExact /\ BilledExactlyOnce /\ LateApart
      /\ UNCHANGED <<accepted, taken, dropped, chan, pc, agg, n, flushed, lost>>
      /\ Unflushed' = Unflushed /\ ChanLen' = ChanLen /\ Committed' = Committed
  BY DEF IInv, CommitLate, chanVars, runVars, Unflushed, ChanLen, Committed
<1>3. /\ batch \in SUBSET (1..Len(accepted)) /\ logged \in SUBSET (1..Len(accepted))
      /\ batch \subseteq lost /\ batch \cap logged = {}
      /\ \A c \in Class : usageLog[c] = CountIn(logged, c)
      /\ late' \subseteq late /\ \A d \in late' : d \cap batch = {} /\ d \cap logged = {}
  BY <1>1, <1>2 DEF TypeOK, Batch, BilledExactlyOnce, LateApart
<1>4. usageLog' \in [Class -> Nat]
  <2>1. \A c \in Class : usageLog[c] \in Nat /\ CountIn(batch, c) \in Nat
    BY <1>2, <1>3, CountType DEF TypeOK
  <2>2. QED
    BY <1>1, <2>1
<1>5. TypeOK'
  BY <1>1, <1>2, <1>3, <1>4, SameBatch DEF TypeOK
<1>6. BatchExact'
  BY <1>2 DEF BatchExact, CountIn, OfClass
<1>7. BilledExactlyOnce'
  <2>1. ASSUME NEW c \in Class
        PROVE  usageLog'[c] = CountIn(logged \cup batch, c)
    BY <1>1, <1>2, <1>3, CountUnion
  <2>2. \A c \in Class : usageLog'[c] = CountIn(logged, c)'
    BY <1>1, <1>2, <2>1 DEF CountIn, OfClass
  <2>3. QED
    BY <1>1, <1>3, <2>2 DEF BilledExactlyOnce
<1>8. LateApart'
  BY <1>2, <1>3 DEF LateApart
<1>9. /\ logged' \cup lost' = logged \cup lost
      /\ Committed => Unflushed \subseteq logged'
  BY <1>1, <1>2, <1>3 DEF IInv
<1>10. QED
  BY <1>2, <1>5, <1>6, <1>7, <1>8, <1>9 DEF IInv

(* insert returns: flush forgets the batch, billed or not. *)
LEMMA ReturnInv ==
  ASSUME IInv, InsertReturns \/ InsertFails
  PROVE  IInv'
<1>1. /\ TypeOK /\ BatchExact /\ BilledExactlyOnce
      /\ UNCHANGED <<accepted, taken, dropped, chan, usageLog, logged>>
      /\ agg' = Empty /\ n' = 0 /\ flushed' = taken
      /\ pc' = IF pc \in {"finalInsert", "finalCommitted"} THEN "done" ELSE "select"
  BY DEF IInv, InsertReturns, InsertFails, ResetBatch, chanVars
<1>2. taken \in Nat /\ Len(accepted) \in Nat /\ taken \in 0..Len(accepted)
  BY <1>1 DEF TypeOK
<1>3. /\ logged' \cup lost' = 1..taken
      /\ lost' \in SUBSET (1..Len(accepted)) /\ late' \subseteq Batch
      /\ \A batch \in late' : batch \cap logged' = {}
      /\ LateApart'
  <2>1. CASE InsertReturns
    BY <1>1, <2>1 DEF IInv, InsertReturns, BilledExactlyOnce, LateApart, TypeOK
  <2>2. CASE InsertFails
    <3>1. /\ lost' = lost \cup Unflushed /\ logged \cup lost = 1..flushed
          /\ late' \in MayStay
      BY <2>2 DEF IInv, InsertFails, Inserting, Committed
    <3>2. (1..flushed) \cup Unflushed = 1..taken /\ Unflushed \subseteq 1..Len(accepted)
      BY <1>1 DEF TypeOK, Unflushed
    <3>3. /\ late' \subseteq Batch
          /\ \A batch \in late' : batch \cap logged' = {}
          /\ LateApart'
      BY <1>1, <3>1, GivenUp
    <3>4. QED
      BY <1>1, <1>2, <3>1, <3>2, <3>3 DEF TypeOK
  <2>3. QED
    BY <2>1, <2>2
<1>4. TypeOK'
  <2>1. agg' \in [Class -> Nat]
    BY <1>1 DEF Empty
  <2>2. pc' \in RunPc
    BY <1>1 DEF RunPc
  <2>3. QED
    BY <1>1, <1>2, <1>3, <2>1, <2>2, SameBatch, SMTT(30) DEF TypeOK
<1>5. BatchExact'
  BY <1>1, <1>2, ResetBatchExact
<1>6. BilledExactlyOnce'
  BY <1>1, <1>3 DEF BilledExactlyOnce, CountIn, OfClass
<1>7. n' <= FlushMax /\ n' < FlushMax
  BY <1>1, MeterAssumption
<1>8. pc' = "done" => chan' = "closed" /\ ChanLen' = 0 /\ flushed' = Len(accepted')
  BY <1>1, <1>2 DEF IInv, ChanLen
<1>9. ~Committed' /\ pc' \in {"select", "done"} /\ ChanLen' <= MeterBuffer
  BY <1>1 DEF IInv, Committed, ChanLen
<1>10. QED
  BY <1>1, <1>3, <1>4, <1>5, <1>6, <1>7, <1>8, <1>9 DEF IInv

(* The process dies: what was not committed is lost, nothing else is. *)
LEMMA CrashInv ==
  ASSUME IInv, Crash
  PROVE  IInv'
<1>1. /\ TypeOK /\ BatchExact /\ BilledExactlyOnce
      /\ pc' = "dead" /\ taken' = Len(accepted) /\ flushed' = Len(accepted)
      /\ agg' = Empty /\ n' = 0
      /\ lost' = lost \cup (1..Len(accepted) \ logged)
      /\ late' \in MayStay
      /\ UNCHANGED <<accepted, dropped, chan, usageLog, logged>>
      /\ Len(accepted) \in Nat
  BY Bounds DEF IInv, Crash
<1>0. /\ late' \subseteq Batch
      /\ \A batch \in late' : batch \cap logged' = {}
      /\ LateApart'
  <2>1. Inserting => Unflushed \cap logged = {} /\ Unflushed \subseteq 1..Len(accepted)
    <3>1. Unflushed \subseteq 1..Len(accepted) /\ Unflushed \cap (1..flushed) = {}
      BY <1>1 DEF TypeOK, Unflushed
    <3>2. Inserting => logged \subseteq 1..flushed
      BY DEF IInv, Inserting, Committed
    <3>3. QED
      BY <3>1, <3>2
  <2>2. QED
    BY <1>1, <2>1, GivenUp
<1>2. TypeOK'
  <2>1. agg' \in [Class -> Nat]
    BY <1>1 DEF Empty
  <2>2. /\ taken' \in 0..Len(accepted') /\ flushed' \in 0..taken'
        /\ lost' \subseteq 1..Len(accepted')
    <3>1. Len(accepted) \in 0..Len(accepted)
      BY <1>1
    <3>2. lost' \subseteq 1..Len(accepted)
      BY <1>1, Zenon DEF TypeOK
    <3>3. QED
      BY <1>1, <3>1, <3>2
  <2>3. pc' \in RunPc
    BY <1>1 DEF RunPc
  <2>4. QED
    BY <1>0, <1>1, <2>1, <2>2, <2>3, SameBatch DEF TypeOK
<1>3. BatchExact'
  BY <1>1, ResetBatchExact
<1>4. BilledExactlyOnce' /\ logged' \cup lost' = 1..flushed'
  BY <1>0, <1>1 DEF BilledExactlyOnce, CountIn, OfClass, TypeOK
<1>5. n' <= FlushMax /\ ChanLen' <= MeterBuffer
  BY <1>1, MeterAssumption DEF ChanLen
<1>6. ~Committed'
  BY <1>1 DEF Committed
<1>7. QED
  BY <1>0, <1>1, <1>2, <1>3, <1>4, <1>5, <1>6 DEF IInv

LEMMA StepInv == IInv /\ [Next]_vars => IInv'
  BY SendInv, ReceiveInv, ControlInv, CommitInv, CommitLateInv, ReturnInv, CrashInv
     DEF Next, Run

(* The meter's inductive invariant holds in every reachable state: run's   *)
(* map, its counter, the table and the history agree at every point of     *)
(* every interleaving of requests, flushes, failures and crashes.          *)
THEOREM MeterInvariant == Spec => []IInv
  BY InitInv, StepInv, PTL DEF Spec

--------------------------------------------------------------------------------
(* What follows from it. *)

(* usage_log counts each event of a committed insert once, late or not.    *)
THEOREM MeterBillsExactlyOnce == Spec => []BilledExactlyOnce
<1>1. IInv => BilledExactlyOnce
  BY DEF IInv
<1>2. QED
  BY <1>1, MeterInvariant, PTL

LEMMA LagBounded == IInv => UnsettledBounded
<1> SUFFICES ASSUME IInv PROVE Cardinality(Unsettled) <= MeterBuffer + FlushMax
  BY DEF UnsettledBounded
<1> DEFINE Waiting == flushed + 1 .. Len(accepted)
<1>1. /\ Len(accepted) \in Nat /\ flushed \in Nat /\ taken \in Nat
      /\ flushed <= taken /\ taken <= Len(accepted)
      /\ taken - flushed <= FlushMax /\ Len(accepted) - taken <= MeterBuffer
  BY DEF IInv, TypeOK, BatchExact, ChanLen
<1>2. 1..flushed \subseteq logged \cup lost
  BY <1>1 DEF IInv
<1>3. Unsettled \in SUBSET Waiting
  BY <1>1, <1>2 DEF Unsettled
<1>4. IsFiniteSet(Waiting) /\ Cardinality(Waiting) <= MeterBuffer + FlushMax
  <2>1. flushed + 1 \in Int /\ Len(accepted) \in Int
    BY <1>1
  <2>2. /\ IsFiniteSet(Waiting)
        /\ Cardinality(Waiting) = IF flushed + 1 > Len(accepted) THEN 0
                                  ELSE Len(accepted) - (flushed + 1) + 1
    BY <2>1, FS_Interval
  <2>3. QED
    BY <1>1, <2>2, MeterAssumption
<1>5. Cardinality(Unsettled) <= Cardinality(Waiting)
  BY <1>3, <1>4, FS_Subset
<1>6. Cardinality(Unsettled) \in Nat /\ Cardinality(Waiting) \in Nat
  BY <1>3, <1>4, FS_Subset, FS_CardinalityType
<1>7. QED
  BY <1>4, <1>5, <1>6, MeterAssumption

(* Never more than a full channel and a full batch wait to be billed. *)
THEOREM MeterLagBounded == Spec => []UnsettledBounded
BY LagBounded, MeterInvariant, PTL

(* When run has returned, every accepted event has been billed or lost. *)
THEOREM MeterCloseDrains == Spec => []CloseDrains
<1>1. IInv => CloseDrains
  BY DEF IInv, CloseDrains, Unsettled, Committed
<1>2. QED
  BY <1>1, MeterInvariant, PTL

--------------------------------------------------------------------------------
(* UsageMeter implements UsageLedger. *)

(* The initial states are the ledger's. *)
LEMMA LedgerInit == Init => Ledger!Init
BY DEF Init, Gone, Ledger!Init, Empty

(* What the ledger still expects is what the meter has not settled and     *)
(* what an insert that was given up may bill.                              *)
LEMMA LedgerPending ==
  ASSUME IInv
  PROVE  /\ Ledger!Pending = Unsettled \cup (UNION late)
         /\ Unsettled \cap lost = {}
BY DEF IInv, TypeOK, BilledExactlyOnce, LateApart, Gone, Unsettled,
       Ledger!Pending, Ledger!Event

(* A batch that no insert holds yet was settled by none. *)
LEMMA BatchPending ==
  ASSUME IInv, Inserting
  PROVE  Unflushed \subseteq Unsettled
<1>1. logged \cup lost = 1..flushed
  BY DEF IInv, Inserting, Committed
<1>2. QED
  BY <1>1 DEF IInv, TypeOK, Unflushed, Unsettled

(* What is given up the ledger loses, but for what may still be billed.    *)
LEMMA LedgerLoses ==
  ASSUME IInv, NEW S \in SUBSET Unsettled, lost' = lost \cup S,
         late' = late \/ (Inserting /\ Unflushed \subseteq S /\ late' = late \cup {Unflushed}),
         UNCHANGED <<accepted, usageLog, logged>>
  PROVE  Ledger!Next
<1>1. S \subseteq Ledger!Pending /\ S \cap (logged \cup (UNION late)) = {}
  BY LedgerPending DEF IInv, LateApart, Unsettled
<1>2. CASE late' = late
  <2>1. Gone' = Gone \cup S
    BY <1>1, <1>2 DEF Gone
  <2>2. Ledger!Lose(S)
    BY <2>1 DEF Ledger!Lose
  <2>3. QED
    BY <1>1, <2>2 DEF Ledger!Next
<1>3. CASE Unflushed \subseteq S /\ late' = late \cup {Unflushed}
  <2>1. Gone' = Gone \cup (S \ Unflushed)
    <3>1. UNION late' = (UNION late) \cup Unflushed
      BY <1>3
    <3>2. Unflushed \cap lost = {}
      BY <1>3, LedgerPending
    <3>3. QED
      BY <1>1, <3>1, <3>2 DEF Gone
  <2>2. Ledger!Lose(S \ Unflushed)
    BY <2>1 DEF Ledger!Lose
  <2>3. (S \ Unflushed) \in SUBSET Ledger!Pending
    BY <1>1
  <2>4. QED
    BY <2>2, <2>3 DEF Ledger!Next
<1>4. QED
  BY <1>2, <1>3

(* Every step of the meter is a step of the ledger or changes nothing the  *)
(* ledger sees.                                                            *)
LEMMA LedgerStep == IInv /\ [Next]_vars => [Ledger!Next]_(Ledger!vars)
<1> SUFFICES ASSUME IInv, [Next]_vars
             PROVE  Ledger!Next \/ UNCHANGED Ledger!vars
  OBVIOUS
<1>1. ASSUME NEW c \in Class, Send(c)
      PROVE  Ledger!Next
  <2>1. Gone' = Gone
    BY <1>1 DEF Send, Gone
  <2>2. QED
    BY <1>1, <2>1 DEF Send, Ledger!Next, Ledger!Accept
<1>2. CASE CommitInsert
  <2>1. Unflushed \in SUBSET Ledger!Pending /\ Unflushed \cap lost = {}
    BY <1>2, BatchPending, LedgerPending DEF CommitInsert
  <2>2. \A c \in Class : agg[c] = Ledger!CountIn(Unflushed, c)
    BY DEF IInv, BatchExact, CountIn, OfClass, Ledger!CountIn, Cardinality, Ledger!Cardinality
  <2>3. Gone' = Gone
    BY <1>2, <2>1 DEF CommitInsert, Gone
  <2>4. Ledger!Bill(Unflushed)
    BY <1>2, <2>2, <2>3 DEF CommitInsert, chanVars, Ledger!Bill
  <2>5. QED
    BY <2>1, <2>4 DEF Ledger!Next
<1>3. CASE CommitLate
  <2>1. PICK batch \in late :
          /\ late' = late \ {batch}
          /\ usageLog' = [c \in Class |-> usageLog[c] + CountIn(batch, c)]
          /\ logged' = logged \cup batch
    BY <1>3 DEF CommitLate
  <2>2. batch \in SUBSET Ledger!Pending
    BY LedgerPending
  <2>3. logged' \cup (UNION late') = logged \cup (UNION late)
    BY <2>1
  <2>4. Gone' = Gone
    BY <1>3, <2>3 DEF CommitLate, Gone
  <2>5. \A c \in Class : CountIn(batch, c) = Ledger!CountIn(batch, c)
    BY DEF CountIn, OfClass, Ledger!CountIn, Cardinality, Ledger!Cardinality
  <2>6. Ledger!Bill(batch)
    BY <1>3, <2>1, <2>4, <2>5 DEF CommitLate, chanVars, Ledger!Bill
  <2>7. QED
    BY <2>2, <2>6 DEF Ledger!Next
<1>4. CASE InsertFails
  <2>1. Unflushed \in SUBSET Unsettled
    BY <1>4, BatchPending DEF InsertFails
  <2>2. /\ lost' = lost \cup Unflushed /\ UNCHANGED <<accepted, usageLog, logged>>
        /\ late' = late \/ (Inserting /\ late' = late \cup {Unflushed})
    BY <1>4 DEF InsertFails, MayStay, chanVars
  <2>3. QED
    BY <2>1, <2>2, LedgerLoses
<1>5. CASE Crash
  <2>1. lost' = lost \cup Unsettled
    BY <1>5 DEF Crash, Unsettled
  <2>2. /\ UNCHANGED <<accepted, usageLog, logged>>
        /\ late' = late \/ (Inserting /\ late' = late \cup {Unflushed})
    BY <1>5 DEF Crash, MayStay
  <2>3. Inserting => Unflushed \subseteq Unsettled
    BY BatchPending
  <2>4. QED
    BY <2>1, <2>2, <2>3, LedgerLoses
<1>6. CASE \/ Drop \/ CloseChannel \/ Receive \/ Tick \/ ReceiveClosed
           \/ InsertReturns \/ Restart \/ UNCHANGED vars
  <2>1. UNCHANGED <<accepted, usageLog, logged, lost, late>>
    BY <1>6 DEF Drop, CloseChannel, Receive, Tick, ReceiveClosed, InsertReturns,
                Restart, vars, chanVars, runVars
  <2>2. QED
    BY <2>1 DEF Gone, Ledger!vars
<1>7. QED
  BY <1>1, <1>2, <1>3, <1>4, <1>5, <1>6 DEF Next, Run

(* Every behaviour of the meter is one of the ledger: an accepted event is *)
(* settled at most once, in a batch that is billed or lost as a whole.     *)
THEOREM MeterImplementsLedger == Spec => LedgerSpec
BY LedgerInit, LedgerStep, MeterInvariant, PTL DEF Spec, LedgerSpec, Ledger!Spec

--------------------------------------------------------------------------------
(* The usage report beside the meter. *)

(* A step of the report's process is one of the meter or leaves it alone. *)
LEMMA ReportStepIsMeterStep == [ReportNext]_allVars => [Next]_vars
<1>1. CASE Begin \/ Metered
  BY <1>1, ReportAssumption DEF Begin, Metered, Billable, Next
<1>2. CASE Process \/ MeterRun
  BY <1>2 DEF Process, MeterRun, Next
<1>3. CASE ReadItems \/ ReadUsed \/ End \/ Clock \/ UNCHANGED allVars
  BY <1>3 DEF ReadItems, ReadUsed, End, Clock, allVars
<1>4. QED
  BY <1>1, <1>2, <1>3 DEF ReportNext

(* Reports do not disturb the meter: all that is proved of it holds beside *)
(* them.                                                                   *)
THEOREM ReportImplementsMeter == ReportSpec => Spec
<1>1. ReportInit => Init
  BY DEF ReportInit
<1>2. QED
  BY <1>1, ReportStepIsMeterStep, PTL DEF ReportSpec, Spec

(* The sum over classes of table is the number of logged events of them.   *)
LEMMA TotalIsLogged ==
  ASSUME TypeOK, BilledExactlyOnce, NEW C \in SUBSET Class
  PROVE  /\ IsFiniteSet({i \in logged : accepted[i] \in C})
         /\ IsFiniteSet(Units(usageLog, C))
         /\ Total(usageLog, C) = Cardinality({i \in logged : accepted[i] \in C})
<1>1. /\ logged \in SUBSET (1..Len(accepted))
      /\ \A c \in C : usageLog[c] = CountIn(logged, c)
  BY DEF TypeOK, BilledExactlyOnce
<1>2. QED
  BY <1>1, UnitsAreEvents

(* What was read once is not more than what a later sum counts. *)
LEMMA TotalGrows ==
  ASSUME TypeOK, BilledExactlyOnce, NEW C \in SUBSET Class, NEW counts,
         \A c \in C : counts[c] \in 0..usageLog[c]
  PROVE  Total(counts, C) <= Total(usageLog, C)
<1> DEFINE Before == Units(counts, C)
           After == Units(usageLog, C)
<1>1. IsFiniteSet(After)
  BY TotalIsLogged
<1>2. Before \in SUBSET After
  <2>1. \A c \in C : usageLog[c] \in Nat /\ counts[c] \in Nat /\ counts[c] <= usageLog[c]
    BY DEF TypeOK
  <2>2. \A c \in C : 1..counts[c] \subseteq 1..usageLog[c]
    BY <2>1
  <2>3. QED
    BY <2>2 DEF Units
<1>3. Cardinality(Before) <= Cardinality(After)
  BY <1>1, <1>2, FS_Subset
<1>4. QED
  BY <1>3 DEF Total

(* The handler's queries, one after the other. *)
LEMMA QueriesInOrder ==
  /\ Head(Queries) = "items" /\ Tail(Queries) = <<"used", "send">>
  /\ Head(<<"used", "send">>) = "used" /\ Tail(<<"used", "send">>) = <<"send">>
  /\ Head(<<"send">>) = "send"
  /\ Queries # << >> /\ <<"used", "send">> # << >> /\ <<"send">> # << >>
  /\ Queries # <<"used", "send">> /\ Queries # <<"send">> /\ <<"used", "send">> # <<"send">>
BY DEF Queries

LEMMA ReportStarts == ReportInit => ReportInv
BY DEF ReportInit, ReportInv, ItemsWithinUsed, Queries

(* Each event only adds to what is accepted and to what the table holds. *)
LEMMA MeterGrows ==
  ASSUME TypeOK, [Next]_vars
  PROVE  /\ Len(accepted) <= Len(accepted') /\ Len(accepted') \in Nat
         /\ \A c \in Class : usageLog[c] <= usageLog'[c] /\ usageLog'[c] \in Nat
<1>1. ASSUME NEW c \in Class, Send(c)
      PROVE  Len(accepted') = Len(accepted) + 1 /\ usageLog' = usageLog
  BY <1>1 DEF TypeOK, Send
<1>2. CASE CommitInsert
  BY <1>2 DEF TypeOK, CommitInsert, chanVars
<1>5. CASE CommitLate
  <2>1. PICK batch \in late :
          /\ accepted' = accepted
          /\ usageLog' = [c \in Class |-> usageLog[c] + CountIn(batch, c)]
    BY <1>5 DEF CommitLate, chanVars
  <2>2. \A c \in Class : CountIn(batch, c) \in Nat
    BY CountType DEF TypeOK, Batch
  <2>3. QED
    BY <2>1, <2>2 DEF TypeOK
<1>3. CASE \/ Drop \/ CloseChannel \/ Receive \/ Tick \/ ReceiveClosed
           \/ InsertReturns \/ InsertFails \/ Crash \/ Restart \/ UNCHANGED vars
  <2>1. accepted' = accepted /\ usageLog' = usageLog
    BY <1>3 DEF Drop, CloseChannel, Receive, Tick, ReceiveClosed, InsertReturns,
                InsertFails, Crash, Restart, vars, chanVars
  <2>2. QED
    BY <2>1 DEF TypeOK
<1>4. QED
  BY <1>1, <1>2, <1>3, <1>5 DEF TypeOK, Next, Run

(* Steps that leave the handler alone. *)
LEMMA ReportWaits ==
  ASSUME TypeOK, [Next]_vars, ReportInv, UNCHANGED reportVars
  PROVE  ReportInv'
<1>1. left' = left /\ items' = items /\ used' = used /\ month' = month /\ begun' = begun
  BY DEF reportVars
<1>2. left' # << >> => begun' \in 0..Len(accepted')
  <2>1. Len(accepted) \in Nat /\ Len(accepted') \in Nat /\ Len(accepted) <= Len(accepted')
    BY MeterGrows, Bounds
  <2>2. QED
    BY <1>1, <2>1 DEF ReportInv
<1>3. left' = <<"used", "send">> => \A c \in Class : items'[c] \in 0..usageLog'[c]
  <2>1. \A c \in Class : /\ usageLog[c] \in Nat /\ usageLog'[c] \in Nat
                         /\ usageLog[c] <= usageLog'[c]
    BY MeterGrows DEF TypeOK
  <2>2. QED
    BY <1>1, <2>1 DEF ReportInv
<1>4. ItemsWithinUsed'
  BY <1>1 DEF ReportInv, ItemsWithinUsed, Total, Billable
<1>5. QED
  BY <1>1, <1>2, <1>3, <1>4 DEF ReportInv, Queries

LEMMA ReportStep == IInv /\ ReportInv /\ [ReportNext]_allVars => ReportInv'
<1> SUFFICES ASSUME IInv, ReportInv, [ReportNext]_allVars PROVE ReportInv'
  OBVIOUS
<1>1. TypeOK /\ BilledExactlyOnce /\ [Next]_vars
  BY ReportStepIsMeterStep DEF IInv
<1>2. CASE Begin
  <2>1. left' = Queries /\ begun' = Len(accepted)
    BY <1>2 DEF Begin
  <2>2. Len(accepted) \in Nat /\ Len(accepted') \in Nat /\ Len(accepted) <= Len(accepted')
    BY <1>1, MeterGrows, Bounds
  <2>3. QED
    BY <2>1, <2>2 DEF ReportInv, ItemsWithinUsed, Queries
<1>3. CASE ReadItems
  <2>1. /\ left' = Tail(left) /\ left # << >> /\ Head(left) = "items"
        /\ items' = usageLog /\ UNCHANGED <<accepted, usageLog, begun>>
    BY <1>3 DEF ReadItems, Proceed, vars, chanVars
  <2>2. left' = <<"used", "send">>
    BY <2>1, QueriesInOrder DEF ReportInv
  <2>3. \A c \in Class : items'[c] \in 0..usageLog'[c]
    BY <1>1, <2>1 DEF TypeOK
  <2>4. begun' \in 0..Len(accepted')
    BY <2>1 DEF ReportInv
  <2>5. QED
    BY <2>2, <2>3, <2>4, QueriesInOrder DEF ReportInv, ItemsWithinUsed
<1>4. CASE ReadUsed
  <2> DEFINE C == {c \in Billable : Minute[c] >= MonthStart}
  <2>1. /\ left' = Tail(left) /\ left # << >> /\ Head(left) = "used"
        /\ used' = Total(usageLog, {c \in Billable : InMonth(c)})
        /\ month' = MonthStart
        /\ UNCHANGED <<accepted, items, begun>>
    BY <1>4 DEF ReadUsed, Proceed, vars, chanVars
  <2>2. left = <<"used", "send">> /\ left' = <<"send">>
    BY <2>1, QueriesInOrder DEF ReportInv
  <2>3. Total(items, C) <= Total(usageLog, C)
    <3>1. C \in SUBSET Class
      BY DEF Billable
    <3>2. \A c \in C : items[c] \in 0..usageLog[c]
      BY <2>2, <3>1 DEF ReportInv
    <3>3. QED
      BY <1>1, <3>1, <3>2, TotalGrows
  <2>4. used' = Total(usageLog, C)
    BY <2>1 DEF InMonth
  <2>5. {c \in Billable : Minute[c] >= month'} = C
    BY <2>1
  <2>6. ItemsWithinUsed'
    <3>1. Total(items', {c \in Billable : Minute[c] >= month'}) <= used'
      BY <2>1, <2>3, <2>4, <2>5
    <3>2. QED
      BY <3>1 DEF ItemsWithinUsed, Total, Billable
  <2>7. QED
    BY <2>1, <2>2, <2>6 DEF ReportInv, Queries
<1>5. CASE End \/ Process
  <2>1. left' = << >>
    BY <1>5 DEF End, Process, Forget
  <2>2. QED
    BY <2>1 DEF ReportInv, ItemsWithinUsed, Queries
<1>6. CASE Metered \/ Clock \/ MeterRun \/ UNCHANGED allVars
  <2>1. UNCHANGED reportVars
    BY <1>6 DEF Metered, Clock, MeterRun, allVars
  <2>2. QED
    BY <1>1, <2>1, ReportWaits
<1>7. QED
  BY <1>2, <1>3, <1>4, <1>5, <1>6 DEF ReportNext

THEOREM ReportInvariant == ReportSpec => [](IInv /\ ReportInv)
<1>1. ReportSpec => []IInv
  BY ReportImplementsMeter, MeterInvariant, PTL
<1>2. QED
  BY <1>1, ReportStarts, ReportStep, PTL DEF ReportSpec

(* Whatever is committed and whatever month begins between the two         *)
(* queries, the report's items of a month are not more than its use.       *)
THEOREM ReportAgrees == ReportSpec => []ItemsWithinUsed
<1>1. ReportInv => ItemsWithinUsed
  BY DEF ReportInv
<1>2. QED
  BY <1>1, ReportInvariant, PTL

(* At the second query: what is due and not counted is on its way or lost. *)
LEMMA UseIsDue ==
  ASSUME IInv, ReportInv, left # << >>, ReadUsed
  PROVE  LET due(k) == {i \in 1..k : accepted[i] \in Billable /\ Minute[accepted[i]] >= MonthStart}
         IN  /\ used' + Cardinality(due(begun) \cap (Unsettled \cup (lost \ logged)))
                  >= Cardinality(due(begun))
             /\ used' <= Cardinality(due(Len(accepted)))
<1> DEFINE due(k) == {i \in 1..k : accepted[i] \in Billable /\ Minute[accepted[i]] >= MonthStart}
           C == {c \in Billable : InMonth(c)}
           Counted == {i \in logged : accepted[i] \in C}
           Missing == due(begun) \cap (Unsettled \cup (lost \ logged))
<1>1. TypeOK /\ BilledExactlyOnce
  BY DEF IInv
<1>2. /\ Len(accepted) \in Nat /\ begun \in 0..Len(accepted)
      /\ logged \in SUBSET (1..Len(accepted))
  BY <1>1 DEF TypeOK, ReportInv
<1>3. IsFiniteSet(Counted) /\ used' = Cardinality(Counted)
  <2>1. C \in SUBSET Class
    BY DEF Billable
  <2>2. used' = Total(usageLog, C)
    BY DEF ReadUsed
  <2>3. QED
    BY <1>1, <2>1, <2>2, TotalIsLogged
<1>4. IsFiniteSet(due(begun)) /\ IsFiniteSet(due(Len(accepted)))
  <2>1. IsFiniteSet(1..begun) /\ IsFiniteSet(1..Len(accepted))
    BY <1>2, FS_Interval
  <2>2. due(begun) \in SUBSET (1..begun) /\ due(Len(accepted)) \in SUBSET (1..Len(accepted))
    OBVIOUS
  <2>3. QED
    BY <2>1, <2>2, FS_Subset
<1>5. Cardinality(Counted) <= Cardinality(due(Len(accepted)))
  <2>1. Counted \in SUBSET due(Len(accepted))
    BY <1>2 DEF InMonth
  <2>2. QED
    BY <1>4, <2>1, FS_Subset
<1>6. due(begun) \in SUBSET (Counted \cup Missing)
  <2>1. 1..begun \subseteq 1..Len(accepted)
    BY <1>2
  <2>2. 1..Len(accepted) \subseteq logged \cup (Unsettled \cup (lost \ logged))
    BY DEF Unsettled
  <2>3. QED
    BY <2>1, <2>2 DEF InMonth
<1>7. IsFiniteSet(Missing)
  <2>1. Missing \in SUBSET due(begun)
    OBVIOUS
  <2>2. QED
    BY <1>4, <2>1, FS_Subset
<1> HIDE DEF Counted, Missing, due
<1>8. Cardinality(due(begun)) <= Cardinality(Counted) + Cardinality(Missing)
  <2>1. /\ IsFiniteSet(Counted \cup Missing)
        /\ Cardinality(Counted \cup Missing)
             = Cardinality(Counted) + Cardinality(Missing) - Cardinality(Counted \cap Missing)
    BY <1>3, <1>7, FS_Union
  <2>2. Counted \cap Missing \in SUBSET Missing
    OBVIOUS
  <2>3. IsFiniteSet(Counted \cap Missing)
    BY <1>7, <2>2, FS_Subset
  <2>4. Cardinality(due(begun)) <= Cardinality(Counted \cup Missing)
    BY <1>6, <2>1, FS_Subset
  <2>5. /\ Cardinality(Counted) \in Nat /\ Cardinality(Missing) \in Nat
        /\ Cardinality(Counted \cap Missing) \in Nat /\ Cardinality(due(begun)) \in Nat
    BY <1>3, <1>4, <1>7, <2>3, FS_CardinalityType
  <2>6. QED
    BY <2>1, <2>4, <2>5
<1>9. /\ Cardinality(Counted) \in Nat
      /\ Cardinality(Missing) \in Nat
      /\ Cardinality(due(begun)) \in Nat
  BY <1>3, <1>4, <1>7, FS_CardinalityType
<1>10. /\ used' + Cardinality(Missing) >= Cardinality(due(begun))
       /\ used' <= Cardinality(due(Len(accepted)))
  BY <1>3, <1>5, <1>8, <1>9
<1>11. QED
  BY <1>10 DEF Missing, due

(* The month's use that a report gives is wrong by no more than what the   *)
(* meter has not settled or has lost, and never too high.                  *)
THEOREM ReportIsHonest == ReportSpec => RemainingHonest
<1> DEFINE Asks == left # << >> /\ Head(left) = "used" /\ left' = Tail(left)
           Honest == LET due(k) == {i \in 1..k : accepted[i] \in Billable
                                                   /\ Minute[accepted[i]] >= MonthStart}
                     IN  /\ used' + Cardinality(due(begun) \cap (Unsettled \cup (lost \ logged)))
                              >= Cardinality(due(begun))
                         /\ used' <= Cardinality(due(Len(accepted)))
<1>1. IInv /\ ReportInv /\ [ReportNext]_allVars => [Asks => Honest]_allVars
  <2> SUFFICES ASSUME IInv, ReportInv, ReportNext, Asks PROVE Honest
    OBVIOUS
  <2>1. left = <<"used", "send">> /\ left' = <<"send">>
    BY QueriesInOrder DEF ReportInv
  <2>2. ReadUsed
    <3>1. ~Begin /\ ~ReadItems
      BY <2>1 DEF Begin, ReadItems, Proceed
    <3>2. ~End /\ ~Process
      BY <2>1 DEF End, Process, Forget
    <3>3. ~Metered /\ ~Clock /\ ~MeterRun
      BY <2>1 DEF Metered, Clock, MeterRun, reportVars
    <3>4. QED
      BY <3>1, <3>2, <3>3 DEF ReportNext
  <2>3. QED
    BY <2>2, UseIsDue
<1>2. QED
  BY <1>1, ReportInvariant, PTL DEF ReportSpec, RemainingHonest

================================================================================
