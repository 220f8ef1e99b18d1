------------------------- MODULE ServerLifecycleProofs -------------------------
(***************************************************************************)
(* Theorems about ServerLifecycle.  The meter's own invariant is not       *)
(* proved again: every step of the server is a step of UsageMeter or       *)
(* leaves it alone, so the lemmas of UsageMeterProofs apply.               *)
(***************************************************************************)
EXTENDS ServerLifecycle, FiniteSetTheorems, TLAPS

(* Reports play no part here. *)
MP == INSTANCE UsageMeterProofs
        WITH Minute <- [c \in Class |-> 0], MonthLength <- 1, LastMinute <- 0,
             now <- 0, left <- << >>, items <- [c \in Class |-> 0], used <- 0,
             month <- 0, begun <- 0

LEMMA SameNext == [M!Next]_(M!vars) <=> [MP!Next]_(MP!vars)
BY DEF M!Next, MP!Next, M!Send, MP!Send, M!Drop, MP!Drop, M!CloseChannel, MP!CloseChannel,
       M!Run, MP!Run, M!Receive, MP!Receive, M!Tick, MP!Tick,
       M!ReceiveClosed, MP!ReceiveClosed, M!CommitInsert, MP!CommitInsert,
       M!InsertReturns, MP!InsertReturns, M!InsertFails, MP!InsertFails,
       M!Crash, MP!Crash, M!Restart, MP!Restart, M!CanMeter, MP!CanMeter,
       M!ChanLen, MP!ChanLen, M!Empty, MP!Empty, M!Unflushed, MP!Unflushed,
       M!BatchFull, MP!BatchFull, M!Inserting, MP!Inserting, M!Committed, MP!Committed,
       M!CommitLate, MP!CommitLate, M!MayStay, MP!MayStay, M!CountIn, MP!CountIn,
       M!OfClass, MP!OfClass, M!Cardinality, MP!Cardinality,
       M!ResetBatch, MP!ResetBatch, M!chanVars, MP!chanVars, M!runVars, MP!runVars,
       M!vars, MP!vars

LEMMA SameInit == M!Init <=> MP!Init
BY DEF M!Init, MP!Init, M!Empty, MP!Empty

LEMMA SameInv == M!IInv <=> MP!IInv
BY DEF M!IInv, MP!IInv, M!TypeOK, MP!TypeOK, M!BatchExact, MP!BatchExact,
       M!BilledExactlyOnce, MP!BilledExactlyOnce, M!CountIn, MP!CountIn,
       M!OfClass, MP!OfClass, M!Cardinality, MP!Cardinality, M!ChanLen, MP!ChanLen,
       M!Empty, MP!Empty, M!Unflushed, MP!Unflushed, M!Committed, MP!Committed,
       M!RunPc, MP!RunPc, M!LateApart, MP!LateApart,
       M!Batch, MP!Batch

(* The meter's invariant, started and kept by the meter's steps. *)
LEMMA MeterStarts == M!Init => M!IInv
<1>1. MP!Init => MP!IInv
  BY MP!InitInv, LifecycleAssumption DEF MP!MeterAssumption, MP!ReportAssumption
<1> QED BY <1>1, SameInit, SameInv

LEMMA MeterKeeps == M!IInv /\ [M!Next]_(M!vars) => M!IInv'
<1>1. MP!IInv /\ [MP!Next]_(MP!vars) => MP!IInv'
  BY MP!StepInv, LifecycleAssumption DEF MP!MeterAssumption, MP!ReportAssumption
<1>2. M!IInv' <=> MP!IInv'
  BY SameInv, PTL
<1> QED BY <1>1, <1>2, SameNext, SameInv

(* Every step of the server is one of the meter, or none. *)
LEMMA StepImplementsMeter ==
  ASSUME IInv, [Next]_vars
  PROVE  [M!Next]_(M!vars)
<1>1. ASSUME NEW h \in Handler, MeterRequest(h) PROVE M!Next
  <2>1. class[h] \in Class
    BY DEF IInv, TypeOK
  <2> QED BY <1>1, <2>1 DEF MeterRequest, M!Next
<1>2. CASE MeterRun \/ CommitLate \/ CloseMeter \/ Restart
  BY <1>2 DEF MeterRun, CommitLate, CloseMeter, Restart, M!Next
<1>3. CASE Crash
  <2>1. UNCHANGED meterVars => UNCHANGED M!vars
    BY DEF meterVars, M!vars, M!chanVars, M!runVars
  <2> QED BY <1>3, <2>1 DEF Crash, M!Next
<1>4. ASSUME UNCHANGED meterVars PROVE UNCHANGED M!vars
  BY <1>4 DEF meterVars, M!vars, M!chanVars, M!runVars
<1>5. ASSUME NEW h \in Handler,
             Accept(h) \/ PassAuth(h) \/ RefuseByCap(h) \/ EndUnmetered(h)
               \/ MeterPanics(h) \/ Finish(h)
      PROVE  UNCHANGED meterVars
  BY <1>5 DEF Accept, PassAuth, RefuseByCap, EndUnmetered, MeterPanics, Finish
<1>6. ASSUME Signal \/ ShutdownReturns \/ ShutdownTimesOut \/ MeterClosed \/ Exit
      PROVE  UNCHANGED meterVars
  BY <1>6 DEF Signal, ShutdownReturns, ShutdownTimesOut, MeterClosed, Exit
<1>7. UNCHANGED vars => UNCHANGED meterVars
  BY DEF vars
<1> QED BY <1>1, <1>2, <1>3, <1>4, <1>5, <1>6, <1>7 DEF Next, Handle, Main

--------------------------------------------------------------------------------
(* The inductive invariant.  What it adds to the meter's is about main,    *)
(* the connections, and two variables of the meter: chan and pc.           *)

MainInv ==
  /\ phase \in {"serving", "draining", "drained"} => chan = "open"
  /\ phase \in {"closing", "metered", "exited"} => chan = "closed"
  /\ phase \in {"metered", "exited"} => pc = "done"
  /\ phase = "crashed" => pc \in {"done", "dead"}
  /\ Alive => pc # "dead"
  /\ phase \in {"serving", "draining"} => drain = "pending"
  /\ phase \in {"drained", "closing", "metered", "exited"} => drain # "pending"
  /\ drain = "clean" => NoRequest
  /\ ~Alive => NoRequest
  /\ PanicOnlyAfterTimeout

ServerTypes ==
  /\ phase \in Phase
  /\ drain \in {"pending", "clean", "timeout"}
  /\ hpc \in [Handler -> HandlerPc]
  /\ class \in [Handler -> Class]

LEMMA Parts == IInv <=> ServerTypes /\ M!IInv /\ MainInv
BY DEF IInv, TypeOK, ServerTypes, MainInv, M!IInv

LEMMA ServerStarts == Init => IInv
<1> SUFFICES ASSUME Init PROVE ServerTypes /\ M!IInv /\ MainInv
  BY Parts
<1>1. M!IInv
  BY MeterStarts DEF Init
<1>2. NoClass \in Class
  BY LifecycleAssumption DEF NoClass
<1>3. ServerTypes
  BY <1>2 DEF Init, ServerTypes, Phase, HandlerPc
<1>4. MainInv
  BY DEF Init, MainInv, M!Init, Alive, PanicOnlyAfterTimeout
<1> QED BY <1>1, <1>3, <1>4

LEMMA TypesStep ==
  ASSUME ServerTypes, [Next]_vars
  PROVE  ServerTypes'
<1>1. NoClass \in Class
  BY LifecycleAssumption DEF NoClass
<1>2. ASSUME NEW h \in Handler, Handle(h) PROVE ServerTypes'
  BY <1>1, <1>2 DEF ServerTypes, HandlerPc, Handle, Accept, PassAuth, RefuseByCap,
                    EndUnmetered, MeterRequest, MeterPanics, Finish, mainVars
<1>3. CASE Signal \/ Main \/ MeterRun \/ CommitLate
  BY <1>3 DEF ServerTypes, Phase, Signal, Main, ShutdownReturns, ShutdownTimesOut, CloseMeter,
              MeterClosed, MeterRun, CommitLate, mainVars, handlerVars
<1>4. CASE Exit \/ Crash \/ Restart
  BY <1>1, <1>4 DEF ServerTypes, Phase, HandlerPc, Exit, Crash, Restart, handlerVars
<1>5. CASE UNCHANGED vars
  BY <1>5 DEF ServerTypes, vars, mainVars, handlerVars
<1> QED BY <1>2, <1>3, <1>4, <1>5 DEF Next

(* What the meter's steps do to chan and pc. *)
LEMMA MeterMoves ==
  /\ (\E c \in Class : M!Send(c)) \/ M!Drop => UNCHANGED <<chan, pc>>
  /\ M!CloseChannel => chan' = "closed" /\ pc' = pc
  /\ M!Run => chan' = chan /\ pc \notin {"done", "dead"} /\ pc' # "dead"
  /\ M!CommitLate => UNCHANGED <<chan, pc>>
  /\ M!Crash => chan' = chan /\ pc' = "dead"
  /\ M!Restart => chan' = "open" /\ pc' = "select"
<1>1. M!Run => chan' = chan /\ pc \notin {"done", "dead"} /\ pc' # "dead"
  BY DEF M!Run, M!Receive, M!Tick, M!ReceiveClosed, M!CommitInsert, M!InsertReturns,
         M!InsertFails, M!ResetBatch, M!Inserting, M!Committed, M!chanVars
<1> QED BY <1>1 DEF M!Send, M!Drop, M!CloseChannel, M!CommitLate, M!Crash, M!Restart,
                    M!chanVars, M!runVars

LEMMA MainStep ==
  ASSUME ServerTypes, MainInv, [Next]_vars
  PROVE  MainInv'
<1> USE DEF MainInv, Alive
<1>1. ASSUME NEW h \in Handler, Handle(h) PROVE MainInv'
  <2>1. UNCHANGED <<phase, drain>>
    BY <1>1 DEF Handle, Accept, PassAuth, RefuseByCap, EndUnmetered, MeterRequest,
                MeterPanics, Finish, mainVars
  <2>2. UNCHANGED <<chan, pc>>
    <3>1. CASE MeterRequest(h)
      <4>1. class[h] \in Class
        BY DEF ServerTypes
      <4> QED BY <3>1, <4>1, MeterMoves DEF MeterRequest
    <3>2. CASE ~MeterRequest(h)
      BY <1>1, <3>2 DEF Handle, Accept, PassAuth, RefuseByCap, EndUnmetered, MeterPanics,
                        Finish, meterVars
    <3> QED BY <3>1, <3>2
  <2>3. phase \notin {"exited", "crashed"} /\ (Accept(h) \/ hpc[h] # "free")
    BY <1>1 DEF Handle, Accept, PassAuth, RefuseByCap, EndUnmetered, MeterRequest,
                MeterPanics, Finish
  <2>4. drain # "clean"
    BY <2>3 DEF Accept, NoRequest
  <2>5. PanicOnlyAfterTimeout'
    <3>1. CASE MeterPanics(h)
      <4>1. phase \in {"closing", "metered"}
        BY <2>3, <3>1 DEF MeterPanics, ServerTypes, Phase
      <4>2. drain = "timeout"
        BY <2>4, <4>1 DEF ServerTypes
      <4> QED BY <2>1, <4>2 DEF PanicOnlyAfterTimeout
    <3>2. CASE ~MeterPanics(h)
      <4>1. \A g \in Handler : hpc'[g] = "panicked" => hpc[g] = "panicked"
        BY <1>1, <3>2 DEF Handle, Accept, PassAuth, RefuseByCap, EndUnmetered, MeterRequest,
                          Finish, ServerTypes
      <4> QED BY <2>1, <4>1 DEF PanicOnlyAfterTimeout
    <3> QED BY <3>1, <3>2
  <2> QED BY <2>1, <2>2, <2>3, <2>4, <2>5
<1>8. CASE CommitLate
  <2>1. UNCHANGED <<chan, pc, phase, drain, hpc>>
    BY <1>8, MeterMoves DEF CommitLate, mainVars, handlerVars
  <2> QED BY <2>1 DEF NoRequest, PanicOnlyAfterTimeout
<1>2. CASE MeterRun
  <2>1. chan' = chan /\ pc \notin {"done", "dead"} /\ pc' # "dead"
    BY <1>2, MeterMoves DEF MeterRun
  <2>2. UNCHANGED <<phase, drain, hpc>>
    BY <1>2 DEF MeterRun, mainVars, handlerVars
  <2> QED BY <2>1, <2>2 DEF NoRequest, PanicOnlyAfterTimeout
<1>3. CASE Signal \/ ShutdownReturns \/ ShutdownTimesOut \/ MeterClosed
  <2>1. UNCHANGED <<chan, pc, hpc>>
    BY <1>3 DEF Signal, ShutdownReturns, ShutdownTimesOut, MeterClosed, meterVars, handlerVars
  <2> QED BY <1>3, <2>1 DEF Signal, ShutdownReturns, ShutdownTimesOut, MeterClosed, NoRequest,
                            PanicOnlyAfterTimeout
<1>4. CASE CloseMeter
  <2>1. chan' = "closed" /\ pc' = pc /\ phase = "drained" /\ phase' = "closing"
    BY <1>4, MeterMoves DEF CloseMeter
  <2>2. UNCHANGED <<drain, hpc>>
    BY <1>4 DEF CloseMeter, handlerVars
  <2> QED BY <2>1, <2>2 DEF NoRequest, PanicOnlyAfterTimeout
<1>5. CASE Exit \/ Crash
  <2>1. \A h \in Handler : hpc'[h] = "free"
    BY <1>5 DEF Exit, Crash
  <2>2. NoRequest' /\ PanicOnlyAfterTimeout'
    BY <2>1 DEF NoRequest, PanicOnlyAfterTimeout
  <2>3. CASE Exit
    BY <2>2, <2>3 DEF Exit, meterVars
  <2>4. CASE Crash
    <3>1. phase' = "crashed" /\ pc' \in {"done", "dead"}
      BY <2>4, MeterMoves DEF Crash, meterVars
    <3> QED BY <2>2, <3>1
  <2> QED BY <1>5, <2>3, <2>4
<1>6. CASE Restart
  <2>1. chan' = "open" /\ pc' = "select" /\ phase' = "serving" /\ drain' = "pending" /\ hpc' = hpc
    BY <1>6, MeterMoves DEF Restart, handlerVars
  <2>2. \A h \in Handler : hpc[h] = "free"
    BY <1>6 DEF Restart, NoRequest
  <2> QED BY <2>1, <2>2 DEF PanicOnlyAfterTimeout, NoRequest
<1>7. CASE UNCHANGED vars
  BY <1>7 DEF vars, meterVars, mainVars, handlerVars, NoRequest, PanicOnlyAfterTimeout
<1> QED BY <1>1, <1>2, <1>3, <1>4, <1>5, <1>6, <1>7, <1>8 DEF Next, Main

(* main's phases, the drain and the meter agree in every reachable state.  *)
THEOREM LifecycleInvariant == Spec => []IInv
<1>1. IInv /\ [Next]_vars => IInv'
  <2> SUFFICES ASSUME IInv, [Next]_vars PROVE IInv'
    OBVIOUS
  <2>1. ServerTypes /\ M!IInv /\ MainInv
    BY Parts
  <2>2. M!IInv'
    BY <2>1, StepImplementsMeter, MeterKeeps
  <2>3. ServerTypes' /\ MainInv'
    BY <2>1, TypesStep, MainStep
  <2>4. IInv' <=> ServerTypes' /\ M!IInv' /\ MainInv'
    BY Parts, PTL
  <2> QED BY <2>2, <2>3, <2>4
<1> QED BY <1>1, ServerStarts, PTL DEF Spec

(* A request meets the closed channel of the meter only when the ten       *)
(* seconds of the drain were not enough.                                   *)
THEOREM PanicNeedsTimeout == Spec => []PanicOnlyAfterTimeout
<1>1. IInv => PanicOnlyAfterTimeout
  BY DEF IInv
<1> QED BY <1>1, LifecycleInvariant, PTL

(* main closes the pool, and returns, with every accepted event settled.   *)
THEOREM ExitSettles == Spec => []GracefulExitSettles
<1>1. IInv => GracefulExitSettles
  <2> SUFFICES ASSUME IInv, pc = "done" PROVE M!Unsettled = {}
    BY DEF IInv, GracefulExitSettles
  <2>1. flushed = Len(accepted) /\ ~M!Committed
    BY DEF IInv, M!IInv, M!Committed
  <2>2. logged \cup lost = 1..flushed
    BY <2>1 DEF IInv, M!IInv
  <2> QED BY <2>1, <2>2 DEF M!Unsettled
<1> QED BY <1>1, LifecycleInvariant, PTL

(* The server uses the meter as the meter expects: all that is proved of   *)
(* UsageMeter holds of the meter inside the server.                        *)
THEOREM ServerImplementsMeter == Spec => M!Spec
<1>1. Init => M!Init
  BY DEF Init
<1>2. IInv /\ [Next]_vars => [M!Next]_(M!vars)
  BY StepImplementsMeter
<1> QED BY <1>1, <1>2, LifecycleInvariant, PTL DEF Spec, M!Spec

--------------------------------------------------------------------------------
(* The monthly cap.  What the month's use counts is read from usage_log,   *)
(* class by class; each class is counted there by as many requests as were *)
(* logged, so that the sum is the number of logged requests.               *)

LEMMA UsedIsLogged ==
  IInv => /\ IsFiniteSet(Billable \cap logged)
          /\ Used = Cardinality(Billable \cap logged)
<1> SUFFICES ASSUME IInv
             PROVE  /\ IsFiniteSet(Billable \cap logged)
                    /\ Used = Cardinality(Billable \cap logged)
  OBVIOUS
<1> DEFINE C == Class \ Meta
           Counted == {i \in logged : accepted[i] \in C}
<1>1. MP!TypeOK /\ MP!BilledExactlyOnce
  BY SameInv DEF IInv, MP!IInv
<1>2. C \in SUBSET Class
  OBVIOUS
<1>3. Counted = Billable \cap logged
  <2>1. \A i \in logged : i \in 1..Len(accepted) /\ accepted[i] \in Class
    BY <1>1 DEF MP!TypeOK
  <2> QED BY <2>1 DEF Billable
<1>4. Used = MP!Total(usageLog, C)
  BY DEF Used, Sum, MP!Total, MP!Units, MP!Cardinality, Cardinality
<1>5. MP!MeterAssumption /\ MP!ReportAssumption
  BY LifecycleAssumption DEF MP!MeterAssumption, MP!ReportAssumption
<1> HIDE DEF C
<1>6. MP!IsFiniteSet(Counted) /\ MP!Total(usageLog, C) = MP!Cardinality(Counted)
  BY <1>1, <1>2, <1>5, MP!TotalIsLogged
<1> QED BY <1>3, <1>4, <1>6 DEF MP!IsFiniteSet, IsFiniteSet, MP!Cardinality, Cardinality

LEMMA FiniteCounts ==
  ASSUME IInv
  PROVE  /\ IsFiniteSet(Billable) /\ Billable \subseteq 1..Len(accepted)
         /\ IsFiniteSet(PastCap) /\ Cardinality(PastCap) <= Cardinality(Handler)
         /\ Cardinality(PastCap) \in Nat /\ Cardinality(Handler) \in Nat
         /\ Cardinality(Billable) \in Nat
         /\ IsFiniteSet(Billable \cap lost) /\ Cardinality(Billable \cap lost) \in Nat
<1>1. Len(accepted) \in Nat
  BY DEF IInv, TypeOK, M!TypeOK
<1>2. IsFiniteSet(1..Len(accepted))
  BY <1>1, FS_Interval
<1>3. Billable \in SUBSET (1..Len(accepted))
  BY DEF Billable
<1>4. IsFiniteSet(Billable)
  BY <1>2, <1>3, FS_Subset
<1>5. Billable \cap lost \in SUBSET Billable
  OBVIOUS
<1>6. IsFiniteSet(Billable \cap lost)
  BY <1>4, <1>5, FS_Subset
<1>7. PastCap \in SUBSET Handler
  BY DEF PastCap
<1>8. IsFiniteSet(PastCap) /\ Cardinality(PastCap) <= Cardinality(Handler)
  BY <1>7, FS_Subset, LifecycleAssumption
<1> QED BY <1>3, <1>4, <1>6, <1>8, FS_CardinalityType, LifecycleAssumption

(* What is billable has been logged or lost, or is on its way: in the      *)
(* channel or in a batch.                                                  *)
LEMMA BillableSplit ==
  ASSUME IInv
  PROVE  Cardinality(Billable)
           <= Used + Cardinality(Billable \cap lost) + MeterBuffer + FlushMax
<1> DEFINE Late == Billable \cap M!Unsettled
<1>1. Billable = ((Billable \cap logged) \cup (Billable \cap lost)) \cup Late
  BY FiniteCounts DEF M!Unsettled
<1>2. IsFiniteSet(Billable \cap logged) /\ Used = Cardinality(Billable \cap logged)
  BY UsedIsLogged
<1>3. IsFiniteSet(Billable \cap lost)
  BY FiniteCounts
<1>4. IsFiniteSet(M!Unsettled) /\ Cardinality(M!Unsettled) <= MeterBuffer + FlushMax
  <2>1. MP!UnsettledBounded
    BY SameInv, MP!LagBounded, LifecycleAssumption DEF MP!MeterAssumption, MP!ReportAssumption, IInv
  <2>2. Cardinality(M!Unsettled) <= MeterBuffer + FlushMax
    BY <2>1 DEF MP!UnsettledBounded, MP!Unsettled, M!Unsettled, MP!Cardinality, Cardinality
  <2>3. Len(accepted) \in Nat
    BY DEF IInv, TypeOK, M!TypeOK
  <2>4. IsFiniteSet(1..Len(accepted)) /\ M!Unsettled \in SUBSET (1..Len(accepted))
    BY <2>3, FS_Interval DEF M!Unsettled
  <2>5. IsFiniteSet(M!Unsettled)
    BY <2>4, FS_Subset
  <2> QED BY <2>2, <2>5
<1>5. Late \in SUBSET M!Unsettled
  OBVIOUS
<1>6. IsFiniteSet(Late) /\ Cardinality(Late) <= Cardinality(M!Unsettled)
  BY <1>4, <1>5, FS_Subset
<1>7. /\ IsFiniteSet((Billable \cap logged) \cup (Billable \cap lost))
      /\ Cardinality((Billable \cap logged) \cup (Billable \cap lost))
           = Cardinality(Billable \cap logged) + Cardinality(Billable \cap lost)
             - Cardinality((Billable \cap logged) \cap (Billable \cap lost))
  BY <1>2, <1>3, FS_Union
<1>8. Cardinality(Billable)
        = Cardinality((Billable \cap logged) \cup (Billable \cap lost)) + Cardinality(Late)
          - Cardinality(((Billable \cap logged) \cup (Billable \cap lost)) \cap Late)
  BY <1>1, <1>6, <1>7, FS_Union
<1>9. /\ IsFiniteSet((Billable \cap logged) \cap (Billable \cap lost))
      /\ IsFiniteSet(((Billable \cap logged) \cup (Billable \cap lost)) \cap Late)
  <2>1. (Billable \cap logged) \cap (Billable \cap lost) \in SUBSET (Billable \cap lost)
    OBVIOUS
  <2>2. ((Billable \cap logged) \cup (Billable \cap lost)) \cap Late \in SUBSET Late
    OBVIOUS
  <2> QED BY <1>3, <1>6, <2>1, <2>2, FS_Subset
<1>10. /\ Cardinality((Billable \cap logged) \cap (Billable \cap lost)) \in Nat
       /\ Cardinality(((Billable \cap logged) \cup (Billable \cap lost)) \cap Late) \in Nat
       /\ Cardinality(Billable \cap logged) \in Nat
       /\ Cardinality(Billable \cap lost) \in Nat
       /\ Cardinality(Late) \in Nat /\ Cardinality(M!Unsettled) \in Nat
       /\ Cardinality((Billable \cap logged) \cup (Billable \cap lost)) \in Nat
  BY <1>2, <1>3, <1>4, <1>6, <1>7, <1>9, FS_CardinalityType
<1> HIDE DEF Late
<1> QED BY <1>2, <1>4, <1>6, <1>7, <1>8, <1>10, LifecycleAssumption

(* Steps that make nothing billable and let nobody past the cap. *)
LEMMA CapQuiet ==
  ASSUME IInv, CapOverrunBounded,
         Billable' = Billable, lost \subseteq lost', PastCap' \subseteq PastCap
  PROVE  CapOverrunBounded'
<1>1. Cardinality(PastCap') <= Cardinality(PastCap) /\ Cardinality(PastCap') \in Nat
  <2>1. PastCap' \in SUBSET PastCap /\ IsFiniteSet(PastCap)
    BY FiniteCounts
  <2> QED BY <2>1, FS_Subset, FS_CardinalityType
<1>2. /\ Cardinality(Billable \cap lost) <= Cardinality(Billable \cap lost')
      /\ Cardinality(Billable \cap lost') \in Nat
  <2>1. Billable \cap lost \in SUBSET (Billable \cap lost')
    OBVIOUS
  <2>2. Billable \cap lost' \in SUBSET Billable /\ IsFiniteSet(Billable)
    BY FiniteCounts
  <2>3. IsFiniteSet(Billable \cap lost')
    BY <2>2, FS_Subset
  <2> QED BY <2>1, <2>3, FS_Subset, FS_CardinalityType
<1>3. (Billable \cap lost)' = Billable \cap lost'
  OBVIOUS
<1>4. /\ Cardinality(Billable) \in Nat /\ Cardinality(PastCap) \in Nat
      /\ Cardinality(Billable \cap lost) \in Nat /\ Cardinality(Handler) \in Nat
  BY FiniteCounts
<1>5. Cardinality(Billable) + Cardinality(PastCap')
        <= (Cap - 1) + MeterBuffer + FlushMax + Cardinality(Handler)
           + Cardinality(Billable \cap lost')
  BY <1>1, <1>2, <1>4, LifecycleAssumption DEF CapOverrunBounded
<1> QED BY <1>3, <1>5 DEF CapOverrunBounded

(* A request that finds some of its quota left has all that is logged      *)
(* below the cap, and takes one place of the connections.                  *)
LEMMA CapPass ==
  ASSUME IInv, IInv', CapOverrunBounded, NEW h \in Handler, PassAuth(h)
  PROVE  CapOverrunBounded'
<1>1. /\ Billable' = Billable /\ lost' = lost /\ class' = class
      /\ hpc' = [hpc EXCEPT ![h] = "counted"] /\ CapLeft(class[h])
  BY DEF PassAuth, meterVars, Billable
<1>2. CASE class[h] \in Meta
  <2>1. PastCap' \subseteq PastCap
    BY <1>1, <1>2 DEF PastCap, IInv, TypeOK
  <2> QED BY <1>1, <2>1, CapQuiet
<1>3. CASE class[h] \notin Meta
  <2>1. Used < Cap
    BY <1>1, <1>3 DEF CapLeft
  <2>2. Used \in Nat
    BY UsedIsLogged, FS_CardinalityType
  <2>3. Cardinality(Billable)
          <= Used + Cardinality(Billable \cap lost) + MeterBuffer + FlushMax
    BY BillableSplit
  <2>4. Cardinality(PastCap)' <= Cardinality(Handler) /\ Cardinality(PastCap)' \in Nat
    <3>1. PastCap' \in SUBSET Handler
      BY DEF PastCap
    <3> QED BY <3>1, FS_Subset, FS_CardinalityType, LifecycleAssumption
  <2>5. Cardinality(Billable)' = Cardinality(Billable)
    BY <1>1
  <2>6. Cardinality(Billable \cap lost)' = Cardinality(Billable \cap lost)
    BY <1>1
  <2>7. /\ Cardinality(Billable) \in Nat /\ Cardinality(Handler) \in Nat
        /\ Cardinality(Billable \cap lost) \in Nat
    BY FiniteCounts
  <2>8. Cardinality(Billable) + Cardinality(PastCap)'
          <= (Cap - 1) + MeterBuffer + FlushMax + Cardinality(Handler)
             + Cardinality(Billable \cap lost)
    BY <2>1, <2>2, <2>3, <2>4, <2>7, LifecycleAssumption
  <2> QED BY <2>5, <2>6, <2>8 DEF CapOverrunBounded
<1> QED BY <1>2, <1>3

(* The meter's middleware: one past the cap less, one billable event more. *)
LEMMA CapMeter ==
  ASSUME IInv, CapOverrunBounded, NEW h \in Handler, MeterRequest(h)
  PROVE  CapOverrunBounded'
<1>1. /\ lost' = lost /\ class' = [class EXCEPT ![h] = NoClass]
      /\ class \in [Handler -> Class]
      /\ hpc[h] = "counted" /\ hpc' = [hpc EXCEPT ![h] = "handling"]
      /\ class[h] \in Class /\ hpc \in [Handler -> HandlerPc]
      /\ accepted \in Seq(Class) /\ Len(accepted) \in Nat
      /\ lost \in SUBSET (1..Len(accepted))
  BY DEF MeterRequest, M!Send, M!Drop, IInv, TypeOK, M!TypeOK
<1>2. PastCap' = PastCap \ {h}
  BY <1>1 DEF PastCap
<1>3. CASE M!Drop
  <2>1. Billable' = Billable
    BY <1>3 DEF M!Drop, Billable
  <2> QED BY <1>1, <1>2, <2>1, CapQuiet
<1>4. CASE M!Send(class[h])
  <2> DEFINE k == Len(accepted) + 1
  <2>1. /\ Len(accepted') = k
        /\ \A i \in 1..Len(accepted) : accepted'[i] = accepted[i]
        /\ accepted'[k] = class[h]
    BY <1>1, <1>4 DEF M!Send
  <2>2. 1..Len(accepted') = 1..Len(accepted) \cup {k} /\ k \notin 1..Len(accepted)
    BY <1>1, <2>1
  <2>3. CASE class[h] \in Meta
    <3>1. Billable' = Billable
      BY <2>1, <2>2, <2>3 DEF Billable
    <3> QED BY <1>1, <1>2, <3>1, CapQuiet
  <2>4. CASE class[h] \notin Meta
    <3>1. Billable' = Billable \cup {k} /\ k \notin Billable
      BY <2>1, <2>2, <2>4 DEF Billable
    <3>2. (Billable \cap lost)' = Billable \cap lost
      BY <1>1, <2>2, <3>1
    <3>3. h \in PastCap
      BY <1>1, <2>4 DEF PastCap
    <3>4. Cardinality(Billable \cup {k}) = Cardinality(Billable) + 1
      BY <3>1, FiniteCounts, FS_AddElement
    <3>5. Cardinality(PastCap \ {h}) = Cardinality(PastCap) - 1
      BY <3>3, FiniteCounts, FS_RemoveElement
    <3>6. /\ Cardinality(Billable) \in Nat /\ Cardinality(PastCap) \in Nat
          /\ Cardinality(Billable \cap lost) \in Nat /\ Cardinality(Handler) \in Nat
      BY FiniteCounts
    <3>7. Cardinality(Billable \cup {k}) + Cardinality(PastCap \ {h})
            <= (Cap - 1) + MeterBuffer + FlushMax + Cardinality(Handler)
               + Cardinality(Billable \cap lost)
      BY <3>4, <3>5, <3>6, LifecycleAssumption DEF CapOverrunBounded
    <3> QED BY <1>2, <3>1, <3>2, <3>7 DEF CapOverrunBounded
  <2> QED BY <2>3, <2>4
<1> QED BY <1>3, <1>4 DEF MeterRequest

(* The cap is overrun by no more than the channel, a batch, the concurrent *)
(* requests and what was not written in time.                              *)
THEOREM CapHolds == Spec => []CapOverrunBounded
<1>1. Init => CapOverrunBounded
  <2> SUFFICES ASSUME Init PROVE CapOverrunBounded
    OBVIOUS
  <2>1. Billable = {} /\ PastCap = {} /\ Billable \cap lost = {}
    BY DEF Init, M!Init, Billable, PastCap
  <2>2. Cardinality({}) = 0 /\ Cardinality(Handler) \in Nat
    BY FS_EmptySet, FS_CardinalityType, LifecycleAssumption
  <2> QED BY <2>1, <2>2, LifecycleAssumption DEF CapOverrunBounded
<1>2. IInv /\ IInv' /\ CapOverrunBounded /\ [Next]_vars => CapOverrunBounded'
  <2> SUFFICES ASSUME IInv, IInv', CapOverrunBounded, [Next]_vars PROVE CapOverrunBounded'
    OBVIOUS
  <2> DEFINE Quiet == /\ Billable' = Billable
                      /\ lost \subseteq lost'
                      /\ PastCap' \subseteq PastCap
  <2>1. ASSUME NEW h \in Handler,
               Accept(h) \/ RefuseByCap(h) \/ EndUnmetered(h) \/ MeterPanics(h) \/ Finish(h)
        PROVE  Quiet
    <3>1. /\ accepted' = accepted /\ lost' = lost
          /\ \A g \in Handler : g # h => hpc'[g] = hpc[g] /\ class'[g] = class[g]
          /\ hpc'[h] # "counted"
      BY <2>1 DEF Accept, RefuseByCap, EndUnmetered, MeterPanics, Finish, meterVars,
                  IInv, TypeOK
    <3> QED BY <3>1 DEF Billable, PastCap
  <2>2. ASSUME Signal \/ Main \/ UNCHANGED vars PROVE Quiet
    BY <2>2 DEF Signal, Main, ShutdownReturns, ShutdownTimesOut, CloseMeter, MeterClosed,
                M!CloseChannel, vars, meterVars, handlerVars, Billable, PastCap
  <2>3. ASSUME MeterRun \/ CommitLate PROVE Quiet
    <3>1. accepted' = accepted /\ lost \subseteq lost'
      BY <2>3 DEF MeterRun, CommitLate, M!CommitLate, M!Run, M!Receive, M!Tick, M!ReceiveClosed, M!CommitInsert,
                  M!InsertReturns, M!InsertFails, M!chanVars
    <3>2. UNCHANGED <<hpc, class>>
      BY <2>3 DEF MeterRun, CommitLate, handlerVars
    <3> QED BY <3>1, <3>2 DEF Billable, PastCap
  <2>4. ASSUME Exit \/ Crash \/ Restart PROVE Quiet
    <3>1. accepted' = accepted /\ lost \subseteq lost'
      BY <2>4 DEF Exit, Crash, Restart, M!Crash, M!Restart, meterVars
    <3>2. (\A h \in Handler : hpc'[h] # "counted") \/ UNCHANGED <<hpc, class>>
      BY <2>4 DEF Exit, Crash, Restart, handlerVars
    <3> QED BY <3>1, <3>2 DEF Billable, PastCap
  <2>5. Quiet => CapOverrunBounded'
    BY CapQuiet
  <2> QED BY <2>1, <2>2, <2>3, <2>4, <2>5, CapPass, CapMeter DEF Next, Handle
<1> QED BY <1>1, <1>2, LifecycleInvariant, PTL DEF Spec

(* No key is refused before its quota is used up: what was logged when it  *)
(* was refused stays logged.                                               *)
THEOREM RefusalsAreDue == Spec => []NotRefusedEarly
<1>1. Init => NotRefusedEarly
  BY DEF Init, NotRefusedEarly
<1> DEFINE Finite == IsFiniteSet(Billable \cap logged)
<1>2. IInv' => Finite'
  <2>1. IInv => Finite
    BY UsedIsLogged
  <2> HIDE DEF Finite
  <2> QED BY <2>1, PTL
<1>3. IInv /\ IInv' /\ NotRefusedEarly /\ [Next]_vars => NotRefusedEarly'
  <2> SUFFICES ASSUME IInv, IInv', NotRefusedEarly, [Next]_vars, NEW g \in Handler,
                      hpc'[g] = "refused"
               PROVE  Cardinality(Billable \cap logged)' >= Cap
    BY DEF NotRefusedEarly
  <2> DEFINE Due == Billable \cap logged
  <2>1. Due \subseteq Due'
    <3>1. [M!Next]_(M!vars)
      BY StepImplementsMeter
    <3>2. accepted \in Seq(Class) /\ Len(accepted) \in Nat
      BY DEF IInv, TypeOK, M!TypeOK
    <3>3. logged \subseteq logged'
      BY <3>1 DEF M!Next, M!Send, M!Drop, M!CloseChannel, M!Run, M!Receive, M!Tick,
                  M!ReceiveClosed, M!CommitInsert, M!InsertReturns, M!InsertFails, M!CommitLate, M!Crash,
                  M!Restart, M!vars
    <3>4. accepted' = accepted \/ \E c \in Class : accepted' = Append(accepted, c)
      BY <3>1 DEF M!Next, M!Send, M!Drop, M!CloseChannel, M!Run, M!Receive, M!Tick,
                  M!ReceiveClosed, M!CommitInsert, M!InsertReturns, M!InsertFails, M!CommitLate, M!Crash,
                  M!Restart, M!vars, M!chanVars
    <3>5. /\ Len(accepted) <= Len(accepted') /\ Len(accepted') \in Nat
          /\ \A i \in 1..Len(accepted) : accepted'[i] = accepted[i]
      BY <3>2, <3>4
    <3>6. Billable \subseteq Billable'
      BY <3>2, <3>5 DEF Billable
    <3> QED BY <3>3, <3>6
  <2>2. IsFiniteSet(Due')
    BY <1>2
  <2>3. Cardinality(Due) <= Cardinality(Due')
    BY <2>1, <2>2, FS_Subset
  <2>4. Cardinality(Due) \in Nat /\ Cardinality(Due') \in Nat
    BY <2>2, UsedIsLogged, FS_CardinalityType
  <2>5. Cardinality(Due) >= Cap
    <3>1. CASE hpc[g] = "refused"
      BY <3>1 DEF NotRefusedEarly
    <3>2. CASE hpc[g] # "refused"
      <4>1. PICK h \in Handler : RefuseByCap(h)
        BY <3>2 DEF Next, Handle, Accept, PassAuth, EndUnmetered, MeterRequest, MeterPanics,
                    Finish, MeterRun, CommitLate, Signal, Main, ShutdownReturns, ShutdownTimesOut,
                    CloseMeter, MeterClosed, Exit, Crash, Restart, handlerVars, vars,
                    IInv, TypeOK
      <4>2. ~(Used < Cap)
        BY <4>1 DEF RefuseByCap, CapLeft
      <4>3. Used = Cardinality(Due)
        BY UsedIsLogged
      <4> QED BY <2>4, <4>2, <4>3, LifecycleAssumption
    <3> QED BY <3>1, <3>2
  <2> QED BY <2>3, <2>4, <2>5, LifecycleAssumption
<1> QED BY <1>1, <1>3, LifecycleInvariant, PTL DEF Spec

================================================================================
