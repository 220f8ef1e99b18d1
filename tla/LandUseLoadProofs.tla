--------------------------- MODULE LandUseLoadProofs ---------------------------
(***************************************************************************)
(* Theorems about LandUseLoad and the request that reads beside it, for    *)
(* any number of loaders and any bundles.                                  *)
(***************************************************************************)
EXTENDS LandUseQuery, SequenceTheorems, TLAPS

LEMMA PartsType ==
  ASSUME NEW b \in Bundle
  PROVE  /\ Len(Parts[b]) \in Nat
         /\ \A p \in 1..Len(Parts[b]) : Parts[b][p] \in SUBSET Key
         /\ Parts[b] = << >> <=> Len(Parts[b]) = 0
<1>1. Parts[b] \in Seq(SUBSET Key)
  BY LandUseAssumption
<1> QED BY <1>1, EmptySeq

(* What is staged after one more part. *)
LEMMA StagedNext ==
  ASSUME NEW b \in Bundle, NEW n \in Nat, n < Len(Parts[b])
  PROVE  Staged(b, n + 1) =
           Staged(b, n) \cup [key : Parts[b][n + 1], bundle : {b}, part : {n + 1}]
<1>1. Parts[b][n + 1] \in SUBSET Key /\ 1..(n + 1) = 1..n \cup {n + 1}
  BY PartsType
<1>2. ASSUME NEW r
      PROVE  r \in Staged(b, n + 1) <=>
             r \in Staged(b, n) \cup [key : Parts[b][n + 1], bundle : {b}, part : {n + 1}]
  BY <1>1 DEF Staged
<1> QED BY <1>2

LEMMA StagedType ==
  ASSUME NEW b \in Bundle, NEW n \in Nat
  PROVE  Staged(b, n) \in SUBSET Row /\ Staged(b, 0) = {}
BY DEF Staged, Row

(* What INSERT ... SELECT DISTINCT ON takes from a full staging table into *)
(* an empty plan is the bundle without duplicates.                         *)
LEMMA DistinctIsWhole ==
  ASSUME NEW b \in Bundle, NEW l \in Loader, NEW d \in DistinctOn(RowsOf(b))
  PROVE  IsWhole(b, ByLoader(l, d))
<1> DEFINE Out(r) == [by |-> l, key |-> r.key, bundle |-> r.bundle, part |-> r.part]
<1>1. d \subseteq RowsOf(b) /\ Unique(d) /\ KeysOf(d) = KeysOf(RowsOf(b))
  BY DEF DistinctOn
<1>2. RowsOf(b) \subseteq Row
  BY PartsType, StagedType DEF RowsOf
<1>3. ASSUME NEW r \in d
      PROVE  /\ [key |-> Out(r).key, bundle |-> Out(r).bundle, part |-> Out(r).part] = r
             /\ Out(r).key = r.key
  BY <1>1, <1>2 DEF Row
<1>4. ByLoader(l, d) = {Out(r) : r \in d}
  BY DEF ByLoader
<1> HIDE DEF Out
<1>5. {[key |-> o.key, bundle |-> o.bundle, part |-> o.part] : o \in ByLoader(l, d)} \subseteq RowsOf(b)
  BY <1>1, <1>3, <1>4
<1>6. Unique(ByLoader(l, d))
  BY <1>1, <1>3, <1>4 DEF Unique
<1>7. KeysOf(ByLoader(l, d)) = KeysOf(d)
  BY <1>3, <1>4 DEF KeysOf
<1> QED BY <1>1, <1>5, <1>6, <1>7 DEF IsWhole

--------------------------------------------------------------------------------
(* The inductive invariant. *)

LEMMA InitInv == Init => IInv
BY DEF Init, IInv, TypeOK, OnePast, NotTorn, Progress, Past, Active, Busy

LEMMA StepType ==
  ASSUME TypeOK, [Next]_vars
  PROVE  TypeOK'
<1>1. ASSUME NEW l \in Loader, NEW b \in Bundle, Start(l, b) PROVE TypeOK'
  BY <1>1 DEF TypeOK, Start, Goto, Busy, dbVars
<1>2. ASSUME NEW l \in Loader,
             TruncatePlan(l) \/ CreateStaging(l) \/ CleanStaging(l) \/ CopiesDone(l)
               \/ DropPk(l) \/ AddPk(l) \/ DropStaging(l) \/ Refuse(l) \/ Fail(l)
      PROVE  TypeOK'
  BY <1>2 DEF TypeOK, TruncatePlan, CreateStaging, CleanStaging, CopiesDone, DropPk,
              AddPk, DropStaging, Refuse, Fail, Goto, Busy, dbVars
<1>3. ASSUME NEW l \in Loader, CopyPart(l) PROVE TypeOK'
  <2>1. bundle[l] \in Bundle /\ done[l] \in Nat
    BY DEF TypeOK
  <2>2. Parts[bundle[l]][done[l] + 1] \in SUBSET Key
    BY <1>3, <2>1, PartsType DEF CopyPart
  <2>3. stg' \in SUBSET Row
    BY <1>3, <2>1, <2>2 DEF TypeOK, CopyPart, Row
  <2> QED BY <1>3, <2>1, <2>3 DEF TypeOK, CopyPart
<1>4. ASSUME NEW l \in Loader, Insert(l) PROVE TypeOK'
  <2>1. PICK d \in DistinctOn(stg) : plan' = plan \cup ByLoader(l, d)
    BY <1>4 DEF Insert
  <2>2. d \in SUBSET Row
    BY <2>1 DEF DistinctOn, TypeOK
  <2>3. ByLoader(l, d) \in SUBSET PlanRow
    BY <2>2 DEF ByLoader, Row, PlanRow
  <2> QED BY <1>4, <2>1, <2>3 DEF TypeOK, Insert, Goto, Busy
<1>5. CASE DbCrash
  BY <1>5 DEF TypeOK, DbCrash
<1>6. CASE UNCHANGED vars
  BY <1>6 DEF TypeOK, vars, dbVars
<1> QED BY <1>1, <1>2, <1>3, <1>4, <1>5, <1>6 DEF Next, Step

(* The invariant without the types, for a state in which nothing overlaps. *)
LoneInv == OnePast /\ NotTorn /\ \A l \in Loader : Progress(l)

LEMMA StepLone ==
  ASSUME IInv, [Next]_vars, tainted' = "no"
  PROVE  LoneInv'
<1> USE DEF LoneInv, OnePast, NotTorn, Progress, Past, Active, Busy
<1>0. TypeOK /\ TypeOK'
  BY StepType DEF IInv
<1>1. ASSUME NEW l \in Loader, NEW b \in Bundle, Start(l, b) PROVE LoneInv'
  BY <1>0, <1>1 DEF IInv, Start, Goto, dbVars, TypeOK
<1>2. ASSUME NEW l \in Loader, TruncatePlan(l) PROVE LoneInv'
  <2>1. \A m \in Loader \ {l} : ~Active(m)
    BY <1>2 DEF TruncatePlan
  <2> QED BY <1>0, <1>2, <2>1 DEF IInv, TruncatePlan, Goto, TypeOK
<1>3. ASSUME NEW l \in Loader, CreateStaging(l) PROVE LoneInv'
  BY <1>0, <1>3 DEF IInv, CreateStaging, Goto, TypeOK
<1>4. ASSUME NEW l \in Loader, CleanStaging(l) PROVE LoneInv'
  <2>1. Staged(bundle[l], 0) = {} /\ Len(Parts[bundle[l]]) \in Nat
    BY <1>0, StagedType, PartsType DEF TypeOK
  <2> QED BY <1>0, <1>4, <2>1 DEF IInv, CleanStaging, Goto, TypeOK
<1>5. ASSUME NEW l \in Loader, CopyPart(l) PROVE LoneInv'
  <2>1. bundle[l] \in Bundle /\ done[l] \in Nat /\ Len(Parts[bundle[l]]) \in Nat
    BY <1>0, PartsType DEF TypeOK
  <2>2. stg' = Staged(bundle[l], done[l] + 1)
    BY <1>0, <1>5, <2>1, StagedNext DEF IInv, CopyPart
  <2>3. bundle'[l] = bundle[l] /\ done'[l] = done[l] + 1 /\ done[l] + 1 <= Len(Parts[bundle[l]])
    BY <1>0, <1>5, <2>1 DEF CopyPart, TypeOK
  <2>4. Progress(l)'
    BY <1>0, <1>5, <2>1, <2>2, <2>3 DEF IInv, CopyPart, TypeOK
  <2>5. ASSUME NEW m \in Loader \ {l} PROVE Progress(m)'
    BY <1>0, <1>5, <2>5 DEF IInv, CopyPart, TypeOK
  <2> QED BY <1>0, <1>5, <2>4, <2>5 DEF IInv, CopyPart, TypeOK
<1>6. ASSUME NEW l \in Loader, CopiesDone(l) PROVE LoneInv'
  BY <1>0, <1>6 DEF IInv, CopiesDone, Goto, dbVars, RowsOf, TypeOK
<1>7. ASSUME NEW l \in Loader, DropPk(l) PROVE LoneInv'
  BY <1>0, <1>7 DEF IInv, DropPk, Goto, TypeOK
<1>8. ASSUME NEW l \in Loader, Insert(l) PROVE LoneInv'
  <2>1. PICK d \in DistinctOn(stg) : plan' = plan \cup ByLoader(l, d)
    BY <1>8 DEF Insert
  <2>2. plan = {} /\ stg = RowsOf(bundle[l]) /\ bundle[l] \in Bundle
    BY <1>0, <1>8 DEF IInv, Insert, TypeOK
  <2>3. IsWhole(bundle[l], ByLoader(l, d)) /\ plan' = ByLoader(l, d)
    BY <2>1, <2>2, DistinctIsWhole
  <2>4. IsWhole(bundle[l], plan)'
    BY <1>8, <2>3 DEF Insert, IsWhole, Unique, KeysOf, RowsOf, Staged
  <2> QED BY <1>0, <1>8, <2>2, <2>4 DEF IInv, Insert, Goto, TypeOK
<1>9. ASSUME NEW l \in Loader, AddPk(l) PROVE LoneInv'
  <2>1. \A b : IsWhole(b, plan)' <=> IsWhole(b, plan)
    BY <1>9 DEF AddPk, IsWhole, Unique, KeysOf, RowsOf, Staged
  <2> QED BY <1>0, <1>9, <2>1 DEF IInv, AddPk, Goto, TypeOK
<1>10. ASSUME NEW l \in Loader, DropStaging(l) PROVE LoneInv'
  <2>1. \A b : IsWhole(b, plan)' <=> IsWhole(b, plan)
    BY <1>10 DEF DropStaging, IsWhole, Unique, KeysOf, RowsOf, Staged
  <2> QED BY <1>0, <1>10, <2>1 DEF IInv, DropStaging, Goto, TypeOK
<1>11. ASSUME NEW l \in Loader, Refuse(l) \/ Fail(l) PROVE LoneInv'
  BY <1>0, <1>11 DEF IInv, Refuse, Fail, Goto, dbVars, TypeOK
<1>12. CASE DbCrash
  BY <1>0, <1>12 DEF IInv, DbCrash, TypeOK
<1>13. CASE UNCHANGED vars
  BY <1>0, <1>13 DEF IInv, vars, dbVars
<1> QED BY <1>1, <1>2, <1>3, <1>4, <1>5, <1>6, <1>7, <1>8, <1>9, <1>10, <1>11, <1>12, <1>13
        DEF Next, Step

LEMMA StepInv == IInv /\ [Next]_vars => IInv'
<1> SUFFICES ASSUME IInv, [Next]_vars PROVE IInv'
  OBVIOUS
<1>1. TypeOK /\ TypeOK'
  BY StepType DEF IInv
<1>2. ASSUME NEW l \in Loader, pc'[l] = "truncate" PROVE done'[l] = 0
  BY <1>1, <1>2 DEF IInv, TypeOK, Next, Step, Start, TruncatePlan, CreateStaging,
     CleanStaging, CopyPart, CopiesDone, DropPk, Insert, AddPk, DropStaging, Refuse,
     Fail, DbCrash, Goto, vars, Busy
<1> QED BY <1>1, <1>2, StepLone DEF IInv, LoneInv

THEOREM LoadInvariant == Spec => []IInv
BY InitInv, StepInv, PTL DEF Spec

--------------------------------------------------------------------------------
(* The promises. *)

LEMMA LoneNotRefused ==
  ASSUME IInv
  PROVE  RetryNotRefused
<1> SUFFICES ASSUME tainted = "no", NEW l \in Loader PROVE ~Refused(l)
  BY DEF RetryNotRefused
<1>1. Progress(l)
  BY DEF IInv
<1>2. pc[l] = "addPk" => Unique(plan)
  BY <1>1 DEF Progress, IsWhole
<1>3. pc[l] = "insert" => KeysOf(plan) = {}
  BY <1>1 DEF Progress, KeysOf
<1> QED BY <1>1, <1>2, <1>3 DEF Refused, Progress

(* A load that runs alone is not refused by what an earlier one left. *)
THEOREM RetryIsNotRefused == Spec => []RetryNotRefused
BY LoadInvariant, LoneNotRefused, PTL

LEMMA SuccessStep ==
  ASSUME IInv, [Next]_vars, NEW l \in Loader, pc[l] # "ok", pc'[l] = "ok", tainted = "no"
  PROVE  pk' = "yes" /\ IsWhole(bundle'[l], plan')
<1>1. DropStaging(l)
  BY DEF IInv, TypeOK, Next, Step, Start, TruncatePlan, CreateStaging, CleanStaging,
         CopyPart, CopiesDone, DropPk, Insert, AddPk, DropStaging, Refuse, Fail,
         DbCrash, Goto, vars, Active, Busy
<1>2. pk = "yes" /\ IsWhole(bundle[l], plan)
  BY <1>1 DEF IInv, Progress, DropStaging
<1> QED BY <1>1, <1>2 DEF DropStaging

(* Success, alone, means the whole bundle under its key. *)
THEOREM SuccessMeansComplete == Spec => SuccessIsComplete
<1>1. IInv /\ [Next]_vars =>
        [\A l \in Loader : (pc[l] # "ok" /\ pc'[l] = "ok" /\ tainted = "no") =>
           pk' = "yes" /\ IsWhole(bundle'[l], plan')]_vars
  BY SuccessStep
<1> QED BY <1>1, LoadInvariant, PTL DEF Spec, SuccessIsComplete

--------------------------------------------------------------------------------
(* Refinement: readers see the abstract table. *)

LEMMA StepImplementsTable ==
  ASSUME IInv, IInv', [Next]_vars
  PROVE  [Table!Clear \/ Table!Overlap \/ \E b \in Bundle : Table!Publish(b)]_Content
<1>1. CASE tainted' # "no"
  BY <1>1 DEF Table!Overlap, Table!Mixture, Content
<1>2. CASE tainted' = "no" /\ plan' = {}
  BY <1>2 DEF Table!Clear, Table!Nothing, Content
<1>3. CASE tainted' = "no" /\ plan' # {}
  <2>1. PICK c \in Bundle : IsWhole(c, plan')
    BY <1>3 DEF IInv, NotTorn, IsWhole, Unique, KeysOf, RowsOf, Staged
  <2>2. tainted = "no"
    BY <1>3 DEF Next, Step, Start, TruncatePlan, CreateStaging, CleanStaging,
         CopyPart, CopiesDone, DropPk, Insert, AddPk, DropStaging, Refuse, Fail,
         DbCrash, vars
  <2>3. CASE plan' = plan
    BY <1>3, <2>2, <2>3 DEF Content, IsWhole, Unique, KeysOf, RowsOf, Staged
  <2>4. CASE plan' # plan
    <3>1. PICK l \in Loader : Insert(l)
      BY <1>3, <2>4 DEF Next, Step, Start, TruncatePlan, CreateStaging, CleanStaging,
         CopyPart, CopiesDone, DropPk, Insert, AddPk, DropStaging, Refuse, Fail,
         DbCrash, dbVars, vars
    <3>2. plan = {}
      BY <2>2, <3>1 DEF IInv, Progress, Insert
    <3>3. Content = <<"nothing">>
      BY <2>2, <3>2 DEF Content
    <3>4. (CHOOSE b \in Bundle : IsWhole(b, plan')) \in Bundle
      BY <2>1
    <3>5. Content' = <<"whole", CHOOSE b \in Bundle : IsWhole(b, plan')>>
      BY <1>3, <2>1 DEF Content, IsWhole, Unique, KeysOf, RowsOf, Staged
    <3> QED BY <3>3, <3>4, <3>5 DEF Table!Publish, Table!Nothing, Table!Whole
  <2> QED BY <2>3, <2>4
<1> QED BY <1>1, <1>2, <1>3 DEF IInv, TypeOK

(* Unless loads overlap, readers find nothing or one whole bundle. *)
THEOREM LoadImplementsTable == Spec => NothingOrWhole
<1>1. Init => Table!Init
  BY DEF Init, Table!Init, Table!Nothing, Content
<1>2. IInv /\ IInv' /\ [Next]_vars =>
        [Table!Clear \/ Table!Overlap \/ \E b \in Bundle : Table!Publish(b)]_Content
  BY StepImplementsTable
<1> QED BY <1>1, <1>2, LoadInvariant, PTL DEF Spec, NothingOrWhole, Table!ClearingSpec

--------------------------------------------------------------------------------
(* The request of LandUseQuery. *)

(* Between its two queries a parcel gets zones only from rows that come.   *)
NoneYet == late = "no" /\ phase = "region" => ZonesOf(asked) = {}

QueryInv == QueryTypeOK /\ NoneYet /\ NoneMeansNone

LEMMA QueryStep == QueryInv /\ [QueryNext]_allVars => QueryInv'
<1> SUFFICES ASSUME QueryInv, [QueryNext]_allVars PROVE QueryInv'
  OBVIOUS
<1> USE DEF QueryInv, NoneYet, QueryTypeOK, NoneMeansNone, Waiting, Answers
<1>1. ASSUME NEW p \in Pnu, Ask(p) PROVE QueryInv'
  BY <1>1 DEF Ask
<1>2. ASSUME plan' = plan, asked' = asked
      PROVE  /\ ZonesOf(asked)' = ZonesOf(asked)
             /\ HasRegion(asked)' = HasRegion(asked)
  BY <1>2 DEF ZonesOf, HasRegion
<1>3. CASE ReadZones
  BY <1>2, <1>3 DEF ReadZones, vars, dbVars
<1>4. CASE ReadRegion
  BY <1>2, <1>4 DEF ReadRegion, vars, dbVars
<1>5. CASE QueryFails
  BY <1>2, <1>5 DEF QueryFails
<1>6. CASE UNCHANGED allVars
  BY <1>2, <1>6 DEF allVars, queryVars, vars, dbVars
<1>7. CASE LoadGoesOn
  <2>1. asked' = asked /\ phase' = phase
    BY <1>7 DEF LoadGoesOn
  <2>2. late' \in {"yes", "no"}
    BY <1>7 DEF LoadGoesOn
  <2>3. ASSUME late' = "no", phase = "region" PROVE ZonesOf(asked)' = {}
    <3>1. late = "no" /\ plan' \subseteq plan
      BY <1>7, <2>3 DEF LoadGoesOn
    <3> QED
      BY <2>1, <2>3, <3>1 DEF ZonesOf
  <2>4. ASSUME late' = "no", phase \in {"404", "REGION_NOT_LOADED"}
        PROVE  late = "no" /\ plan' = plan
    BY <1>7, <2>4 DEF LoadGoesOn
  <2> QED
    BY <1>2, <2>1, <2>2, <2>3, <2>4
<1> QED
  BY <1>1, <1>3, <1>4, <1>5, <1>6, <1>7 DEF QueryNext

(* A request is told that a parcel has no plan, or that its region is not  *)
(* loaded, only when it is so, unless rows came between its two queries    *)
(* (appraisalLandUse, whose two queries share no snapshot).                *)
THEOREM NoneIsTrue == QuerySpec => []NoneMeansNone
<1>1. QueryInit => QueryInv
  BY DEF QueryInit, QueryInv, QueryTypeOK, NoneYet, NoneMeansNone, Answers
<1>2. QueryInv => NoneMeansNone
  BY DEF QueryInv
<1> QED
  BY <1>1, <1>2, QueryStep, PTL DEF QuerySpec

(* Requests do not get into the way of loads: what holds of Load holds     *)
(* beside them.                                                            *)
THEOREM QueriesRefineLoads == QuerySpec => Spec
<1>1. QueryInit => Init
  BY DEF QueryInit
<1>2. [QueryNext]_allVars => [Next]_vars
  BY DEF QueryNext, LoadGoesOn, Ask, ReadZones, ReadRegion, QueryFails, allVars
<1> QED
  BY <1>1, <1>2, PTL DEF QuerySpec, Spec
================================================================================
