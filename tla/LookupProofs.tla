------------------------------ MODULE LookupProofs ------------------------------
(***************************************************************************)
(* Theorems about what is looked up while it is loaded: PriceLookup, for   *)
(* any number of loaders, any bundles and any parcels, and Geocode, for    *)
(* any addresses, lots and manners of writing them.                        *)
(***************************************************************************)
EXTENDS PriceLookup, Geocode, SequenceTheorems, FiniteSetTheorems, WellFoundedInduction, TLAPS

LEMMA PartsType ==
  ASSUME NEW b \in Bundle
  PROVE  /\ Len(Parts[b]) \in Nat
         /\ Len(Batches[b]) \in Nat
         /\ \A n \in 1..Len(Parts[b]) : Parts[b][n] \in SUBSET Pnu
<1>1. Parts[b] \in Seq(SUBSET Pnu) /\ Batches[b] \in Seq(SUBSET Pnu)
  BY LookupAssumption
<1> QED BY <1>1

(* What is staged before the first part, and after one more. *)
LEMMA CopiedNext ==
  ASSUME NEW b \in Bundle, NEW n \in Nat
  PROVE  /\ Copied(b, 0) = {}
         /\ Copied(b, n + 1) = Copied(b, n) \cup (Parts[b][n + 1] \X {b})
<1>1. 1..0 = {} /\ 1..(n + 1) = 1..n \cup {n + 1}
  OBVIOUS
<1>2. Copied(b, 0) = {}
  BY <1>1 DEF Copied
<1>3. ASSUME NEW r
      PROVE  r \in Copied(b, n + 1) <=> r \in Copied(b, n) \cup (Parts[b][n + 1] \X {b})
  <2>1. r \in Copied(b, n + 1) <=> \E k \in 1..(n + 1) : \E p \in Parts[b][k] : r = <<p, b>>
    BY DEF Copied
  <2>2. r \in Copied(b, n) <=> \E k \in 1..n : \E p \in Parts[b][k] : r = <<p, b>>
    BY DEF Copied
  <2> QED BY <1>1, <2>1, <2>2
<1> QED BY <1>2, <1>3

(* Only `any row' of standard_lots stands for its rows. *)
LEMMA AnyRowType == AnyStandardRow \in StandardRow /\ AnyStandardRow # None
BY LookupAssumption DEF AnyStandardRow, StandardRow

--------------------------------------------------------------------------------
(* Types *)

LEMMA InitInv == Init => IInv
BY DEF Init, IInv, TypeOK, OneKind, StagedInv, OnePast, StagedSoFar, Past, Active,
       WrittenSoFar, StillThere, KnownIsFound

LEMMA LoadType ==
  ASSUME TypeOK, Load
  PROVE  TypeOK'
<1> USE DEF TypeOK, Goto, askVars
<1>1. UNCHANGED <<target, standard, met, askVars>>
  BY DEF Load
<1>2. CASE DbCrash
  <2>1. PICK spared \in SUBSET {l \in Loader : Active(l)} :
          pc' = [l \in Loader |-> IF Active(l) /\ l \notin spared THEN "failed" ELSE pc[l]]
    BY <1>2 DEF DbCrash
  <2> QED BY <1>1, <1>2, <2>1 DEF DbCrash
<1>3. ASSUME NEW l \in Loader, NEW b \in Bundle, Start(l, b) PROVE TypeOK'
  BY <1>1, <1>3 DEF Start
<1>4. ASSUME NEW l \in Loader, CreateStaging(l) \/ CleanStaging(l) \/ DropStaging(l) \/ Fail(l)
      PROVE  TypeOK'
  BY <1>1, <1>4 DEF CreateStaging, CleanStaging, DropStaging, Fail
<1>5. ASSUME NEW l \in Loader, CopiesDone(l) PROVE TypeOK'
  BY <1>1, <1>5 DEF CopiesDone
<1>6. ASSUME NEW l \in Loader, CopyPart(l) PROVE TypeOK'
  <2>1. Parts[bundle[l]][done[l] + 1] \in SUBSET Pnu
    BY <1>6, PartsType DEF CopyPart
  <2>2. stg' \in SUBSET (Pnu \X Bundle)
    BY <1>6, <2>1 DEF CopyPart
  <2> QED BY <1>1, <1>6, <2>2 DEF CopyPart
<1>7. ASSUME NEW l \in Loader, Upsert(l) PROVE TypeOK'
  <2>1. rows' \in [Pnu -> Bundle \cup {None}]
    BY <1>7 DEF Upsert, Merged
  <2> QED BY <1>1, <1>7, <2>1 DEF Upsert
<1> QED BY <1>2, <1>3, <1>4, <1>5, <1>6, <1>7 DEF Load

LEMMA StandardType ==
  ASSUME TypeOK, LoadStandard
  PROVE  TypeOK'
<1> USE DEF TypeOK, askVars, stgVars, loadVars
<1>1. ASSUME target = "standard_lots", NEW l \in Loader, Standard!Step(l),
             UNCHANGED <<target, stgVars, askVars, trueAt>>
      PROVE  TypeOK'
  <2>1. ASSUME NEW b \in Bundle, Standard!Start(l, b) PROVE TypeOK'
    BY <1>1, <2>1 DEF Standard!Start
  <2>2. ASSUME Standard!Commits(l)
        PROVE  /\ standard' \in [Pnu -> StandardRow \cup {None}]
               /\ met' \in [Loader -> {"no", "yes"}]
               /\ bundle' = bundle
    <3>1. [bundle |-> bundle[l], batch |-> done[l] + 1] \in StandardRow
      BY DEF StandardRow
    <3> QED BY <2>2, <3>1 DEF Standard!Commits, Standard!Upserted
  <2>3. CASE Standard!Flush(l) \/ Standard!FlushUnanswered(l)
    BY <1>1, <2>2, <2>3 DEF Standard!Flush, Standard!FlushUnanswered
  <2>4. CASE Standard!Fail(l) \/ Standard!Finish(l)
    BY <1>1, <2>4 DEF Standard!Fail, Standard!Finish
  <2> QED BY <1>1, <2>1, <2>3, <2>4 DEF Standard!Step
<1>2. ASSUME NEW p \in Pnu, standard' = [standard EXCEPT ![p] = AnyStandardRow],
             UNCHANGED <<target, loadVars, askVars>>
      PROVE  TypeOK'
  BY <1>2, AnyRowType
<1> QED BY <1>1, <1>2 DEF LoadStandard

LEMMA HandleType ==
  ASSUME TypeOK, Handle
  PROVE  TypeOK'
BY DEF TypeOK, Handle, Ask, QueryStandard, QueryRows, QueryRegion, QueryFails, Leave,
       Answered, loadVars, stgVars

LEMMA StepType ==
  ASSUME TypeOK, [Next]_vars
  PROVE  TypeOK'
<1>1. CASE UNCHANGED vars
  BY <1>1 DEF TypeOK, vars, loadVars, stgVars, askVars
<1> QED BY <1>1, LoadType, StandardType, HandleType DEF Next

--------------------------------------------------------------------------------
(* The staging table *)

(* What a step of a load leaves of OneKind and StagedInv. *)
LEMMA LoadStaged ==
  ASSUME TypeOK, TypeOK', OneKind, StagedInv, Load
  PROVE  OneKind' /\ StagedInv'
<1> USE DEF StagedInv, OnePast, StagedSoFar, OneKind, Past, Active, Goto
<1>0. /\ target # "standard_lots" /\ target' = target
      /\ DOMAIN pc = Loader
      /\ bundle \in [Loader -> Bundle] /\ done \in [Loader -> Nat]
  BY DEF Load, TypeOK
<1>1. CASE DbCrash
  <2>1. PICK spared \in SUBSET {l \in Loader : Active(l)} :
          /\ pc' = [l \in Loader |-> IF Active(l) /\ l \notin spared THEN "failed" ELSE pc[l]]
          /\ tainted' = IF tainted = "no" /\ \E l \in spared : pc[l] \in {"copy", "upsert"}
                     THEN "crash" ELSE tainted
    BY <1>1 DEF DbCrash
  <2>2. \A l \in Loader : pc'[l] = pc[l] \/ pc'[l] = "failed"
    BY <1>0, <2>1
  <2>3. tainted' = "no" => tainted = "no" /\ \A l \in Loader : pc'[l] \notin {"copy", "upsert"}
    BY <1>0, <2>1
  <2> QED BY <1>0, <1>1, <2>2, <2>3 DEF DbCrash
<1>2. ASSUME NEW l \in Loader, NEW b \in Bundle, Start(l, b) PROVE OneKind' /\ StagedInv'
  BY <1>0, <1>2 DEF Start, Copied, RowsOf
<1>3. ASSUME NEW l \in Loader, CreateStaging(l) PROVE OneKind' /\ StagedInv'
  BY <1>0, <1>3 DEF CreateStaging, Copied, RowsOf
<1>4. ASSUME NEW l \in Loader, CleanStaging(l) PROVE OneKind' /\ StagedInv'
  <2>1. Copied(bundle[l], 0) = {} /\ Len(Parts[bundle[l]]) \in Nat
    BY <1>0, CopiedNext, PartsType
  <2>2. done[l] = 0 /\ done' = done /\ bundle' = bundle /\ stg' = {}
    BY <1>4 DEF CleanStaging
  <2>3. tainted' = "no" => \A m \in Loader \ {l} : ~Active(m)
    BY <1>4 DEF CleanStaging
  <2>4. pc'[l] = "copy" /\ \A m \in Loader \ {l} : pc'[m] = pc[m]
    BY <1>0, <1>4 DEF CleanStaging
  <2> QED BY <1>0, <2>1, <2>2, <2>3, <2>4 DEF Copied
<1>5. ASSUME NEW l \in Loader, CopyPart(l) PROVE OneKind' /\ StagedInv'
  <2>1. bundle[l] \in Bundle /\ done[l] \in Nat /\ Len(Parts[bundle[l]]) \in Nat
    BY <1>0, PartsType
  <2>2. tainted = "no" => stg' = Copied(bundle[l], done[l] + 1)
    BY <1>5, <2>1, CopiedNext DEF CopyPart
  <2>3. /\ UNCHANGED <<pc, bundle, tainted>>
        /\ done'[l] = done[l] + 1 /\ done[l] + 1 <= Len(Parts[bundle[l]])
        /\ \A m \in Loader \ {l} : done'[m] = done[m]
        /\ pc[l] = "copy"
    BY <1>0, <1>5, <2>1 DEF CopyPart
  <2> HIDE DEF Copied
  <2>4. tainted' = "no" => OnePast' /\ \A m \in Loader : StagedSoFar(m)'
    <3> SUFFICES ASSUME tainted = "no", NEW m \in Loader PROVE StagedSoFar(m)' /\ OnePast'
      BY <2>3
    <3>1. CASE m = l
      BY <2>2, <2>3, <3>1 DEF Copied
    <3>2. CASE m # l
      BY <2>3, <3>2
    <3> QED BY <2>3, <3>1, <3>2
  <2> QED BY <1>0, <2>3, <2>4
<1>6. ASSUME NEW l \in Loader, CopiesDone(l) PROVE OneKind' /\ StagedInv'
  BY <1>0, <1>6 DEF CopiesDone, RowsOf, Copied
<1>7. ASSUME NEW l \in Loader, Upsert(l) PROVE OneKind' /\ StagedInv'
  BY <1>0, <1>7 DEF Upsert, RowsOf, Copied
<1>8. ASSUME NEW l \in Loader, DropStaging(l) PROVE OneKind' /\ StagedInv'
  BY <1>0, <1>8 DEF DropStaging, RowsOf, Copied
<1>9. ASSUME NEW l \in Loader, Fail(l) PROVE OneKind' /\ StagedInv'
  BY <1>0, <1>9 DEF Fail, RowsOf, Copied
<1> QED BY <1>1, <1>2, <1>3, <1>4, <1>5, <1>6, <1>7, <1>8, <1>9 DEF Load

LEMMA StandardStaged ==
  ASSUME TypeOK, OneKind, StagedInv, LoadStandard
  PROVE  OneKind' /\ StagedInv'
<1> USE DEF StagedInv, OnePast, StagedSoFar, OneKind, Past, Active, Copied, RowsOf
<1>1. ASSUME target = "standard_lots", NEW l \in Loader, Standard!Step(l),
             UNCHANGED <<target, stgVars, askVars, trueAt>>
      PROVE  OneKind' /\ StagedInv'
  <2>1. \A m \in Loader : pc'[m] = pc[m] \/ pc'[m] \in {"run", "ok", "failed"}
    BY <1>1 DEF TypeOK, Standard!Step, Standard!Start, Standard!Flush, Standard!FlushUnanswered,
                Standard!Commits, Standard!Fail, Standard!Finish
  <2> QED BY <1>1, <2>1 DEF stgVars
<1>2. CASE UNCHANGED <<target, loadVars, askVars>>
  BY <1>2 DEF loadVars, stgVars
<1> QED BY <1>1, <1>2 DEF LoadStandard

LEMMA RestStaged ==
  ASSUME OneKind, StagedInv, UNCHANGED <<target, loadVars>>
  PROVE  OneKind' /\ StagedInv'
BY DEF StagedInv, OnePast, StagedSoFar, OneKind, Past, Active, Copied, RowsOf, loadVars, stgVars

(* An upsert by a load that nothing disturbed merges its whole bundle, and *)
(* nothing else writes the table.                                          *)
LEMMA MergeStep ==
  ASSUME TypeOK, StagedInv, [Next]_vars, tainted = "no"
  PROVE  rows' = rows \/ \E b \in Bundle : rows' \in Merged(rows, RowsOf(b))
<1>1. ASSUME NEW l \in Loader, Upsert(l)
      PROVE  \E b \in Bundle : rows' \in Merged(rows, RowsOf(b))
  <2>1. rows' \in Merged(rows, stg) /\ stg = RowsOf(bundle[l]) /\ bundle[l] \in Bundle
    BY <1>1 DEF Upsert, StagedInv, StagedSoFar, TypeOK
  <2> QED BY <2>1
<1>2. CASE Load
  BY <1>1, <1>2 DEF Load, DbCrash, Start, CreateStaging, CleanStaging, CopyPart, CopiesDone,
                    DropStaging, Fail
<1>3. CASE LoadStandard \/ Handle \/ UNCHANGED vars
  BY <1>3 DEF LoadStandard, Handle, vars, loadVars, stgVars
<1> QED BY <1>2, <1>3 DEF Next

--------------------------------------------------------------------------------
(* standard_lots *)

(* It survives a step that leaves the load and its rows alone. *)
LEMMA WrittenRests ==
  ASSUME NEW m \in Loader, WrittenSoFar(m), UNCHANGED standard,
         bundle'[m] = bundle[m], done'[m] = done[m],
         pc'[m] = "run" => pc[m] = "run", met'[m] = "no" => met[m] = "no"
  PROVE  WrittenSoFar(m)'
<1>1. CASE ~(pc'[m] = "run" /\ met'[m] = "no")
  BY <1>1 DEF WrittenSoFar
<1>2. CASE pc[m] = "run" /\ met[m] = "no"
  <2> DEFINE Shown(b, d) ==
        /\ d <= Len(Batches[b])
        /\ \A n \in 1..d : \A k \in Batches[b][n] :
             \E last \in n..d :
               /\ standard[k] = [bundle |-> b, batch |-> last]
               /\ k \in Batches[b][last]
               /\ \A later \in (last + 1)..d : k \notin Batches[b][later]
  <2>1. Shown(bundle[m], done[m])
    BY <1>2 DEF WrittenSoFar
  <2>2. Shown(bundle'[m], done'[m])
    <3> HIDE DEF Shown
    <3> QED BY <2>1
  <2> QED BY <2>2 DEF WrittenSoFar
<1> QED BY <1>1, <1>2

LEMMA WrittenStart ==
  ASSUME TypeOK, NEW l \in Loader, NEW b \in Bundle, Standard!Start(l, b),
         NEW m \in Loader, WrittenSoFar(m)
  PROVE  WrittenSoFar(m)'
<1>1. CASE m = l
  <2>1. done'[l] = 0 /\ bundle'[l] = b
    BY DEF TypeOK, Standard!Start
  <2>2. Len(Batches[b]) \in Nat
    BY PartsType
  <2> QED BY <1>1, <2>1, <2>2 DEF WrittenSoFar
<1>2. CASE m # l
  <2>1. pc'[m] = pc[m] /\ met'[m] = met[m] /\ done'[m] = done[m] /\ bundle'[m] = bundle[m]
        /\ standard' = standard
    BY <1>2 DEF TypeOK, Standard!Start
  <2> QED BY <2>1, WrittenRests
<1> QED BY <1>1, <1>2

(* One batch more. *)
LEMMA WrittenFlush ==
  ASSUME TypeOK, NEW l \in Loader, Standard!Flush(l), WrittenSoFar(l)
  PROVE  WrittenSoFar(l)'
<1> DEFINE b == bundle[l]
           d == done[l]
<1>1. /\ pc[l] = "run" /\ d < Len(Batches[b])
      /\ done'[l] = d + 1 /\ bundle' = bundle /\ met'[l] = met[l]
      /\ standard' = [k \in Pnu |-> IF k \in Batches[b][d + 1]
                                    THEN [bundle |-> b, batch |-> d + 1]
                                    ELSE standard[k]]
  BY DEF TypeOK, Standard!Flush, Standard!Commits, Standard!More, Standard!Upserted
<1>2. d \in Nat /\ b \in Bundle /\ Len(Batches[b]) \in Nat
  BY PartsType DEF TypeOK
<1>3. \A n \in 1..Len(Batches[b]) : Batches[b][n] \in SUBSET Pnu
  <2>1. Batches[b] \in Seq(SUBSET Pnu)
    BY <1>2, LookupAssumption
  <2> QED BY <2>1
<1> HIDE DEF b, d
<1>0. done'[l] <= Len(Batches[bundle'[l]])
  BY <1>1, <1>2 DEF b
<1> SUFFICES ASSUME met'[l] = "no", NEW n \in 1..done'[l], NEW k \in Batches[bundle'[l]][n]
             PROVE  \E last \in n..done'[l] :
                      /\ standard'[k] = [bundle |-> bundle'[l], batch |-> last]
                      /\ k \in Batches[bundle'[l]][last]
                      /\ \A later \in (last + 1)..done'[l] : k \notin Batches[bundle'[l]][later]
  BY <1>0 DEF WrittenSoFar
<1> SUFFICES \E last \in n..(d + 1) :
               /\ standard'[k] = [bundle |-> b, batch |-> last]
               /\ k \in Batches[b][last]
               /\ \A later \in (last + 1)..(d + 1) : k \notin Batches[b][later]
  BY <1>1 DEF b
<1>range. n \in 1..(d + 1) /\ k \in Batches[b][n] /\ met[l] = "no"
  BY <1>1 DEF b
<1>4. k \in Pnu
  BY <1>1, <1>2, <1>3, <1>range
<1>5. CASE k \in Batches[b][d + 1]
  <2>1. standard'[k] = [bundle |-> b, batch |-> d + 1]
    BY <1>1, <1>4, <1>5
  <2>2. d + 1 \in n..(d + 1) /\ ((d + 1) + 1)..(d + 1) = {}
    BY <1>2, <1>range
  <2> QED BY <1>5, <1>range, <2>1, <2>2
<1>6. CASE k \notin Batches[b][d + 1]
  <2>1. n \in 1..d
    BY <1>2, <1>6, <1>range
  <2>2. PICK last \in n..d :
          /\ standard[k] = [bundle |-> b, batch |-> last]
          /\ k \in Batches[b][last]
          /\ \A later \in (last + 1)..d : k \notin Batches[b][later]
    BY <1>1, <1>range, <2>1 DEF WrittenSoFar, b, d
  <2>3. standard'[k] = standard[k]
    BY <1>1, <1>4, <1>6
  <2>4. \A later \in (last + 1)..(d + 1) : later \in (last + 1)..d \/ later = d + 1
    BY <1>2
  <2> QED BY <1>2, <1>6, <1>range, <2>2, <2>3, <2>4
<1> QED BY <1>5, <1>6

LEMMA StandardWritten ==
  ASSUME TypeOK, OneKind, LoadStandard, NEW m \in Loader, WrittenSoFar(m)
  PROVE  WrittenSoFar(m)'
<1>1. ASSUME NEW l \in Loader, Standard!Step(l) PROVE WrittenSoFar(m)'
  <2>1. ASSUME Standard!Commits(l), m # l PROVE WrittenSoFar(m)'
    BY <2>1 DEF Standard!Commits, WrittenSoFar
  <2>2. CASE Standard!Flush(l)
    BY <2>1, <2>2, WrittenFlush DEF Standard!Flush
  <2>3. CASE Standard!FlushUnanswered(l)
    <3>1. m = l => pc'[m] = "failed"
      BY <2>3 DEF Standard!FlushUnanswered, TypeOK
    <3> QED BY <2>1, <2>3, <3>1 DEF Standard!FlushUnanswered, WrittenSoFar
  <2>4. CASE Standard!Fail(l) \/ Standard!Finish(l)
    <3>1. UNCHANGED <<standard, bundle, done, met>> /\ (pc'[m] = "run" => pc[m] = "run")
      BY <2>4 DEF Standard!Fail, Standard!Finish, TypeOK
    <3> QED BY <3>1, WrittenRests
  <2> QED BY <1>1, <2>2, <2>3, <2>4, WrittenStart DEF Standard!Step
<1>2. CASE target = "official_land_prices" /\ UNCHANGED <<target, loadVars, askVars>>
  BY <1>2 DEF OneKind, WrittenSoFar, loadVars
<1> QED BY <1>1, <1>2 DEF LoadStandard

LEMMA StepWritten ==
  ASSUME TypeOK, OneKind, OneKind', [Next]_vars, NEW m \in Loader, WrittenSoFar(m)
  PROVE  WrittenSoFar(m)'
<1>1. CASE Load
  BY <1>1 DEF Load, OneKind, WrittenSoFar
<1>2. CASE LoadStandard
  BY <1>2, StandardWritten
<1>3. CASE Handle \/ UNCHANGED vars
  BY <1>3, WrittenRests DEF Handle, vars, loadVars
<1> QED BY <1>1, <1>2, <1>3 DEF Next

(* A load ends well only with every batch written. *)
LEMMA FinishStep ==
  ASSUME TypeOK, OneKind, [Next]_vars, NEW l \in Loader, WrittenSoFar(l),
         pc[l] = "run", pc'[l] = "ok", met[l] = "no",
         NEW k \in Standard!KeysOf(bundle[l])
  PROVE  standard'[k] = Standard!LastRow(bundle[l], k)
<1> DEFINE b == bundle[l]
           N == Len(Batches[b])
           IsLast(n) == k \in Batches[b][n] /\ \A later \in (n + 1)..N : k \notin Batches[b][later]
<1>1. Standard!Finish(l)
  <2>1. pc' # pc /\ target = "standard_lots"
    BY DEF OneKind
  <2>2. PICK m \in Loader : Standard!Step(m)
    BY <2>1 DEF Next, Load, LoadStandard, Handle, vars, loadVars
  <2>3. pc'[l] # pc[l] /\ pc'[l] # "run" /\ pc'[l] # "failed" /\ l \in DOMAIN pc
    BY DEF TypeOK
  <2> QED BY <2>2, <2>3 DEF Standard!Step, Standard!Start, Standard!Flush,
             Standard!FlushUnanswered, Standard!Commits, Standard!Fail, Standard!Finish
<1>2. done[l] = N /\ standard' = standard
  <2>1. N \in Nat /\ done[l] \in Nat
    BY PartsType DEF TypeOK
  <2> QED BY <1>1, <2>1 DEF Standard!Finish, Standard!More, WrittenSoFar
<1>3. PICK n \in 1..N : k \in Batches[b][n]
  BY DEF Standard!KeysOf
<1>4. PICK last \in n..N : standard[k] = [bundle |-> b, batch |-> last] /\ IsLast(last)
  BY <1>2, <1>3 DEF WrittenSoFar
<1>5. N \in Nat /\ last \in 1..N
  <2>1. N \in Nat
    BY PartsType DEF TypeOK
  <2> QED BY <1>4, <2>1
<1>6. \A i, j \in 1..N : IsLast(i) /\ IsLast(j) => i = j
  <2> SUFFICES ASSUME NEW i \in 1..N, NEW j \in 1..N, IsLast(i), IsLast(j), i < j PROVE FALSE
    BY <1>5
  <2>1. j \in (i + 1)..N
    BY <1>5
  <2> QED BY <2>1
<1>7. (CHOOSE i \in 1..N : IsLast(i)) = last
  <2> HIDE DEF IsLast
  <2> QED BY <1>4, <1>5, <1>6
<1> QED BY <1>2, <1>4, <1>7 DEF Standard!LastRow

--------------------------------------------------------------------------------
(* The request *)

(* No step takes a row away. *)
LEMMA RowsStay ==
  ASSUME TypeOK, [Next]_vars, NEW p \in Pnu
  PROVE  /\ rows[p] # None => rows'[p] # None
         /\ target # "standard_lots" /\ standard[p] # None => standard'[p] # None
<1>1. ASSUME NEW l \in Loader, Upsert(l) PROVE rows[p] # None => rows'[p] # None
  <2> DEFINE from == {b \in Bundle : <<p, b>> \in stg}
  <2>1. IF from = {} THEN rows'[p] = rows[p] ELSE rows'[p] \in from
    BY <1>1 DEF Upsert, Merged
  <2> QED BY <2>1, LookupAssumption
<1>2. CASE Load
  BY <1>1, <1>2 DEF Load, DbCrash, Start, CreateStaging, CleanStaging, CopyPart, CopiesDone,
                    DropStaging, Fail
<1>3. CASE LoadStandard
  BY <1>3, AnyRowType DEF LoadStandard, loadVars, stgVars, TypeOK
<1>4. CASE Handle \/ UNCHANGED vars
  BY <1>4 DEF Handle, vars, loadVars, stgVars
<1> QED BY <1>2, <1>3, <1>4 DEF Next

LEMMA StepFound ==
  ASSUME TypeOK, StillThere, KnownIsFound, [Next]_vars
  PROVE  StillThere' /\ KnownIsFound'
<1> USE DEF StillThere, KnownIsFound
<1>1. CASE UNCHANGED <<target, askVars>>
  BY <1>1, RowsStay DEF askVars, TypeOK
<1>2. CASE Handle
  <2>1. UNCHANGED <<target, standard, rows>>
    BY <1>2 DEF Handle, loadVars, stgVars
  <2>2. ASSUME NEW p \in Pnu, Ask(p) PROVE StillThere' /\ KnownIsFound'
    BY <2>1, <2>2 DEF Ask, TrueAnswer
  <2>3. CASE QueryStandard
    BY <2>1, <2>3 DEF QueryStandard, Answered
  <2>4. CASE QueryRows
    BY <2>1, <2>4 DEF QueryRows, Answered
  <2>5. CASE QueryRegion
    BY <2>1, <2>5 DEF QueryRegion, Answered
  <2>6. CASE QueryFails
    BY <2>1, <2>6 DEF QueryFails, Answered
  <2>7. CASE Leave
    BY <2>1, <2>7 DEF Leave
  <2> QED BY <1>2, <2>2, <2>3, <2>4, <2>5, <2>6, <2>7 DEF Handle
<1>3. CASE Load \/ LoadStandard \/ UNCHANGED vars
  BY <1>1, <1>3 DEF Load, LoadStandard, vars
<1> QED BY <1>2, <1>3 DEF Next

--------------------------------------------------------------------------------
(* The theorems *)

LEMMA StepInv == IInv /\ [Next]_vars => IInv'
<1> SUFFICES ASSUME IInv, [Next]_vars PROVE IInv'
  OBVIOUS
<1>1. TypeOK /\ TypeOK' /\ OneKind /\ StagedInv
  BY StepType DEF IInv
<1>2. OneKind' /\ StagedInv'
  <2>1. CASE Handle \/ UNCHANGED vars
    BY <1>1, <2>1, RestStaged DEF Handle, vars
  <2> QED BY <1>1, <2>1, LoadStaged, StandardStaged DEF Next
<1>3. \A l \in Loader : WrittenSoFar(l)'
  BY <1>1, <1>2, StepWritten DEF IInv
<1> QED BY <1>1, <1>2, <1>3, StepFound DEF IInv

(* The invariant of both kinds of load and of the request between them. *)
THEOREM LookupInvariant == Spec => []IInv
BY InitInv, StepInv, PTL DEF Spec

(* However loads overlap, fail or crash, a pnu that had a price or a row   *)
(* when the request began is not answered 404 or REGION_NOT_LOADED.        *)
THEOREM KnownPriceIsFound == Spec => []KnownIsFound
BY LookupInvariant, PTL DEF IInv

(* Undisturbed, each change of official_land_prices or land_features       *)
(* merges the whole of a bundle.                                           *)
THEOREM UpsertMergesWhole == Spec => MergesWholeBundle
<1>1. IInv /\ [Next]_vars =>
        [tainted = "no" => rows' = rows \/ \E b \in Bundle : rows' \in Merged(rows, RowsOf(b))]_vars
  BY MergeStep DEF IInv
<1> QED BY <1>1, LookupInvariant, PTL DEF Spec, MergesWholeBundle

(* A load of standard_lots that succeeds and that no other met leaves the  *)
(* last row of its input under each of its keys.                           *)
THEOREM StandardLoadConverges == Spec => StandardConverges
<1>1. IInv /\ [Next]_vars =>
        [\A l \in Loader :
           (pc[l] = "run" /\ pc'[l] = "ok" /\ met[l] = "no") =>
             \A k \in Standard!KeysOf(bundle[l]) :
               standard'[k] = Standard!LastRow(bundle[l], k)]_Standard!vars
  BY FinishStep DEF IInv
<1> QED BY <1>1, LookupInvariant, PTL DEF Spec, StandardConverges, Standard!RetryConverges

--------------------------------------------------------------------------------
(* Geocode. *)

(* A set of naturals that is not empty has a least one: this stands for   *)
(* induction on the length of a sentence.                                  *)
LEMMA Least ==
  ASSUME NEW T \in SUBSET Nat, T # {}
  PROVE \E x \in T : \A y \in T : x <= y
<1> DEFINE R == {ss \in Nat \X Nat : ss[1] < ss[2]}
<1>1. IsWellFoundedOn(R, Nat)
  BY NatLessThanWellFounded DEF OpToRel
<1>2. \E x \in T : \A y \in T : ~(<<y, x>> \in R)
  <2> HIDE DEF R
  <2> QED BY <1>1, WFMin
<1>3. PICK x \in T : \A y \in T : ~(<<y, x>> \in R)
  BY <1>2
<1>4. ASSUME NEW y \in T
      PROVE  x <= y
  <2>1. x \in Nat /\ y \in Nat /\ ~(<<y, x>> \in R)
    BY <1>3
  <2>2. ~(y < x)
    BY <2>1
  <2> QED BY <2>1, <2>2
<1> QED BY <1>4

--------------------------------------------------------------------------------
(* What the parser makes of a word after others. *)

Word ==
  {"sido", "short", "sigungu", "road", "under", "dong", "myeon", "num", "san", "other"}
    \X (STRING \cup {""})

(* Sequences of words are put together in any order. *)
LEMMA Joined ==
  ASSUME NEW s \in Seq(Word), NEW t \in Seq(Word)
  PROVE  s \o t \in Seq(Word)
BY ConcatProperties

LEMMA Concat3 ==
  ASSUME NEW s \in Seq(Word), NEW t \in Seq(Word), NEW u \in Seq(Word)
  PROVE  s \o (t \o u) = (s \o t) \o u
BY ConcatAssociative, SMTT(30)

LEMMA Concat4 ==
  ASSUME NEW s \in Seq(Word), NEW t \in Seq(Word), NEW u \in Seq(Word), NEW v \in Seq(Word)
  PROVE  s \o ((t \o u) \o v) = ((s \o t) \o u) \o v
<1> DEFINE tu == t \o u
           st == s \o t
<1>1. tu \in Seq(Word)
  BY Joined
<1>2. s \o tu = st \o u
  BY Concat3, SMTT(30)
<1> HIDE DEF tu
<1>3. s \o (tu \o v) = (s \o tu) \o v
  BY <1>1, Concat3, SMTT(30)
<1> QED BY <1>2, <1>3 DEF tu

(* The states in which the parser has read the first words, up to k. *)
Read(f, ws, k) == f = [n \in 0..k |-> IF n = 0 THEN Blank ELSE Take(f[n - 1], ws[n])]

LEMMA ReadExists ==
  ASSUME NEW ws
  PROVE  \A k \in Nat : \E f : Read(f, ws, k)
<1> DEFINE T == {k \in Nat : ~ \E f : Read(f, ws, k)}
<1>1. SUFFICES ASSUME T # {}
               PROVE  FALSE
  OBVIOUS
<1>2. PICK k \in T : \A j \in T : k <= j
  BY <1>1, Least
<1>3. CASE k = 0
  <2>1. Read([n \in 0..0 |-> Blank], ws, 0)
    BY DEF Read
  <2> QED BY <1>3, <2>1
<1>4. CASE k # 0
  <2>1. k - 1 \in Nat /\ k - 1 \notin T
    BY <1>2, <1>4
  <2>2. PICK f : Read(f, ws, k - 1)
    BY <2>1
  <2> DEFINE g == [n \in 0..k |-> IF n < k THEN f[n] ELSE Take(f[k - 1], ws[k])]
  <2>3. ASSUME NEW n \in 0..k
        PROVE  g[n] = IF n = 0 THEN Blank ELSE Take(g[n - 1], ws[n])
    <3>1. CASE n < k
      <4>1. n \in 0..(k - 1)
        BY <3>1
      <4>2. f[n] = IF n = 0 THEN Blank ELSE Take(f[n - 1], ws[n])
        BY <2>2, <4>1 DEF Read
      <4>3. n # 0 => n - 1 \in 0..k /\ n - 1 < k
        BY <3>1
      <4> QED BY <3>1, <4>2, <4>3
    <3>2. CASE n = k
      <4>1. k - 1 \in 0..k /\ k - 1 < k
        BY <1>4
      <4> QED BY <1>4, <3>2, <4>1
    <3> QED BY <3>1, <3>2
  <2>4. Read(g, ws, k)
    <3> HIDE DEF g
    <3>1. g = [n \in 0..k |-> g[n]]
      BY DEF g
    <3> QED BY <2>3, <3>1 DEF Read
  <2> QED BY <2>4
<1> QED BY <1>3, <1>4

(* Where they agree on the words, they agree on what was read. *)
LEMMA ReadsAgree ==
  ASSUME NEW ws, NEW vs, NEW k \in Nat, NEW l \in Nat, NEW f, NEW g,
         Read(f, ws, k), Read(g, vs, l), k <= l, \A n \in 1..k : ws[n] = vs[n]
  PROVE  \A n \in 0..k : f[n] = g[n]
<1> DEFINE T == {n \in 0..k : f[n] # g[n]}
<1>1. SUFFICES ASSUME T # {}
               PROVE  FALSE
  OBVIOUS
<1>2. T \in SUBSET Nat
  OBVIOUS
<1>3. PICK n \in T : \A j \in T : n <= j
  BY <1>1, <1>2, Least
<1>4. n \in 0..k /\ n \in 0..l
  OBVIOUS
<1>5. /\ f[n] = IF n = 0 THEN Blank ELSE Take(f[n - 1], ws[n])
      /\ g[n] = IF n = 0 THEN Blank ELSE Take(g[n - 1], vs[n])
  BY <1>4 DEF Read
<1>6. n # 0 => n - 1 \in 0..k /\ n - 1 \notin T /\ n \in 1..k
  BY <1>3, <1>4
<1> QED BY <1>4, <1>5, <1>6

(* Parse, without the function inside it. *)
LEMMA ParseRead ==
  ASSUME NEW ws, Len(ws) \in Nat
  PROVE  \E f : Read(f, ws, Len(ws)) /\ Parse(ws) = f[Len(ws)]
<1> DEFINE read == CHOOSE f : Read(f, ws, Len(ws))
<1>1. \E f : Read(f, ws, Len(ws))
  BY ReadExists
<1>2. Read(read, ws, Len(ws))
  BY <1>1
<1>3. Parse(ws) = read[Len(ws)]
  BY DEF Parse, Read
<1> HIDE DEF read
<1> QED BY <1>2, <1>3

(* A sentence is read word by word. *)
LEMMA ParseStep ==
  ASSUME NEW ws \in Seq(Word), NEW w \in Word
  PROVE  /\ ws \o <<w>> \in Seq(Word)
         /\ Parse(ws \o <<w>>) = Take(Parse(ws), w)
         /\ Parse(<< >>) = Blank
<1> DEFINE vs == ws \o <<w>>
<1>1. vs \in Seq(Word) /\ Len(vs) = Len(ws) + 1 /\ vs[Len(ws) + 1] = w
      /\ \A n \in 1..Len(ws) : ws[n] = vs[n]
  BY ConcatProperties, <<w>> \in Seq(Word), Len(<<w>>) = 1, Len(ws) \in Nat
<1>0. Len(ws) \in Nat /\ Len(vs) \in Nat /\ Len(ws) <= Len(vs) /\ Len(ws) \in 0..Len(ws)
  <2> HIDE DEF vs
  <2> QED BY <1>1
<1>2. PICK f : Read(f, ws, Len(ws)) /\ Parse(ws) = f[Len(ws)]
  BY ParseRead
<1>3. PICK g : Read(g, vs, Len(vs)) /\ Parse(vs) = g[Len(vs)]
  <2> HIDE DEF vs
  <2>1. Len(vs) \in Nat
    BY <1>1
  <2> QED BY <2>1, ParseRead
<1>4. f[Len(ws)] = g[Len(ws)]
  <2> HIDE DEF vs
  <2>1. Read(f, ws, Len(ws)) /\ Read(g, vs, Len(vs)) /\ \A n \in 1..Len(ws) : ws[n] = vs[n]
    BY <1>1, <1>2, <1>3
  <2> DEFINE k == Len(ws)
             l == Len(vs)
  <2>2. \A n \in 0..k : f[n] = g[n]
    <3> HIDE DEF k, l
    <3>1. k \in Nat /\ l \in Nat /\ k <= l
      BY <1>0 DEF k, l
    <3> QED BY <2>1, <3>1, ReadsAgree DEF k, l
  <2> HIDE DEF k
  <2>3. k \in 0..k
    BY <1>0 DEF k
  <2> QED BY <2>2, <2>3 DEF k
<1>5. g[Len(vs)] = Take(g[Len(ws)], w)
  <2> HIDE DEF vs
  <2>1. Len(vs) \in 0..Len(vs) /\ Len(vs) # 0 /\ Len(vs) - 1 = Len(ws)
    BY <1>1
  <2> QED BY <1>1, <1>3, <2>1 DEF Read
<1>6. Parse(<< >>) = Blank
  <2>1. Len(<< >>) = 0
    OBVIOUS
  <2>2. PICK h : Read(h, << >>, 0) /\ Parse(<< >>) = h[0]
    BY <2>1, ParseRead
  <2> QED BY <2>2 DEF Read
<1> QED BY <1>1, <1>2, <1>3, <1>4, <1>5, <1>6

--------------------------------------------------------------------------------
(* Addresses, word by word. *)

(* What was read before the road. *)
Begun(at, sido, sigungu, emd) ==
  [Blank EXCEPT !.at = at, !.sido = sido, !.sigungu = sigungu, !.emd = emd]

(* What was read with the number of a, or of the lot p. *)
Whole(sido, sigungu, emd, a) ==
  [at |-> "rest", sido |-> sido, sigungu |-> sigungu, emd |-> emd,
   road |-> Words("road", a.road), under |-> a.under, num |-> a.num, san |-> "0"]

WholeLot(sido, sigungu, p) ==
  [at |-> "rest", sido |-> sido, sigungu |-> sigungu, emd |-> p.emd,
   road |-> << >>, under |-> "0", num |-> p.num, san |-> p.san]

LEMMA AddressTyped ==
  ASSUME NEW a \in Address
  PROVE  /\ a.sido \in STRING /\ a.sigungu \in Sigungu /\ a.emd \in Emd
         /\ a.road \in STRING /\ a.under \in {"0", "1"}
         /\ a.num \in STRING /\ a.num # ""
BY GeocodeAssumption

LEMMA LotTyped ==
  ASSUME NEW p \in Lot
  PROVE  /\ p.sido \in STRING /\ p.sigungu \in Sigungu /\ p.emd \in Emds
         /\ p.num \in STRING /\ p.num # "" /\ p.san \in {"0", "1"}
BY GeocodeAssumption

(* No record is an address and a lot. *)
LEMMA Disjoint ==
  Address \cap Lot = {}
<1>1. ASSUME NEW a \in Address, a \in Lot
      PROVE  FALSE
  <2>1. a \in [sido : STRING, sigungu : Sigungu, emd : Emd,
               road : STRING, under : {"0", "1"}, num : STRING \ {""}]
    BY GeocodeAssumption
  <2>2. a \in [sido : STRING, sigungu : Sigungu, emd : Emds,
               num : STRING \ {""}, san : {"0", "1"}]
    BY <1>1, GeocodeAssumption
  <2>3. "road" \in DOMAIN a
    BY <2>1
  <2>4. "road" \notin DOMAIN a
    BY <2>2
  <2> QED BY <2>3, <2>4
<1> QED BY <1>1

(* A sequence of at most two words of one kind *)
LEMMA ShortShape ==
  ASSUME NEW Kind, Kind \subseteq Word, NEW sg \in Seq(Kind), Len(sg) <= 2
  PROVE  /\ sg \in Seq(Word)
         /\ Len(sg) \in 0..2
         /\ \/ sg = << >>
            \/ \E x \in Kind : sg = <<x>>
            \/ \E x, y \in Kind : sg = <<x>> \o <<y>>
<1>1. sg \in Seq(Kind) /\ Len(sg) \in Nat /\ Len(sg) <= 2
  BY LenProperties
<1>2. Kind \subseteq Word
  OBVIOUS
<1>3. sg \in Seq(Word)
  BY <1>1, <1>2, SeqMonotonic
<1>4. Len(sg) = 0 => sg = << >>
  BY <1>1, EmptySeq
<1>5. Len(sg) = 1 => \E x \in Kind : sg = <<x>>
  <2>1. SUFFICES ASSUME Len(sg) = 1
                 PROVE  sg[1] \in Kind /\ sg = <<sg[1]>>
    OBVIOUS
  <2>2. sg[1] \in Kind
    BY <1>1, <2>1, ElementOfSeq
  <2>3. <<sg[1]>> \in Seq(Kind) /\ Len(<<sg[1]>>) = 1
    BY <2>2
  <2> QED BY <1>1, <2>1, <2>2, <2>3, SeqEqual
<1>6. Len(sg) = 2 => \E x, y \in Kind : sg = <<x>> \o <<y>>
  <2>1. SUFFICES ASSUME Len(sg) = 2
                 PROVE  /\ sg[1] \in Kind /\ sg[2] \in Kind
                        /\ sg = <<sg[1]>> \o <<sg[2]>>
    OBVIOUS
  <2>2. sg[1] \in Kind /\ sg[2] \in Kind
    <3>1. 1 \in 1..Len(sg) /\ 2 \in 1..Len(sg)
      BY <2>1
    <3> QED BY <1>1, <3>1, ElementOfSeq
  <2>3. /\ <<sg[1]>> \in Seq(Kind) /\ Len(<<sg[1]>>) = 1
        /\ <<sg[2]>> \in Seq(Kind) /\ Len(<<sg[2]>>) = 1
    BY <2>2
  <2>4. /\ <<sg[1]>> \o <<sg[2]>> \in Seq(Kind)
        /\ Len(<<sg[1]>> \o <<sg[2]>>) = 2
        /\ (<<sg[1]>> \o <<sg[2]>>)[1] = sg[1] /\ (<<sg[1]>> \o <<sg[2]>>)[2] = sg[2]
    BY <2>3, ConcatProperties
  <2> QED BY <1>1, <2>1, <2>2, <2>4, SeqEqual
<1>7. \A n \in Nat : n <= 2 => n \in 0..2 /\ (n = 0 \/ n = 1 \/ n = 2)
  OBVIOUS
<1>8. Len(sg) \in 0..2 /\ (Len(sg) = 0 \/ Len(sg) = 1 \/ Len(sg) = 2)
  BY <1>1, <1>7
<1> QED BY <1>3, <1>4, <1>5, <1>6, <1>8

LEMMA SigunguShape ==
  ASSUME NEW sg \in Sigungu
  PROVE  /\ sg \in Seq(Word)
         /\ Len(sg) \in 0..2
         /\ \/ sg = << >>
            \/ \E x \in District : sg = <<x>>
            \/ \E x, y \in District : sg = <<x>> \o <<y>>
<1>1. sg \in Seq(District) /\ Len(sg) <= 2
  BY DEF Sigungu
<1>2. District \subseteq Word
  BY DEF District, Word
<1> QED BY <1>1, <1>2, ShortShape

LEMMA EmdsShape ==
  ASSUME NEW es \in Emds
  PROVE  /\ es \in Seq(Word) /\ es # << >>
         /\ \/ \E x \in Emd : es = <<x>>
            \/ \E x, y \in Emd : es = <<x>> \o <<y>>
<1>1. es \in Seq(Emd) /\ Len(es) <= 2 /\ Len(es) # 0
  <2>1. es \in Seq(Emd) /\ Len(es) \in {1, 2}
    BY DEF Emds
  <2>2. \A n \in {1, 2} : n <= 2 /\ n # 0
    OBVIOUS
  <2> QED BY <2>1, <2>2
<1>2. Emd \subseteq Word
  BY DEF Emd, Word
<1>3. es # << >>
  BY <1>1
<1> QED BY <1>1, <1>2, <1>3, ShortShape

(* What another word can stand for a sido *)
LEMMA AliasWords ==
  ASSUME NEW w \in DOMAIN Alias
  PROVE  /\ w[1] \in {"short", "sigungu"}
         /\ w[1] = "short" => Alias[w] = <<"sido", w[2]>>
<1>1. \/ w \in {"short"} \X STRING /\ Alias[w] = <<"sido", w[2]>>
      \/ w \in {"sigungu"} \X STRING
  BY GeocodeAssumption DEF District
<1> QED BY <1>1

(* A district is read before everything but a sido. *)
LEMMA ReadDistrict ==
  ASSUME NoCityIsSido, NEW ws \in Seq(Word), NEW at \in {"start", "sigungu"}, NEW sido, NEW sg, NEW next,
         NEW x \in District, Parse(ws) = Begun(at, sido, sg, << >>),
         Len(sg) < 2, Append(sg, x) = next
  PROVE  /\ ws \o <<x>> \in Seq(Word)
         /\ Parse(ws \o <<x>>) = Begun("sigungu", sido, next, << >>)
<1>1. x \in Word /\ x[1] = "sigungu" /\ x \notin DOMAIN Alias
  BY DEF NoCityIsSido, District, Word
<1>2. ws \o <<x>> \in Seq(Word) /\ Parse(ws \o <<x>>) = Take(Parse(ws), x)
  BY <1>1, ParseStep
<1>3. Take(Parse(ws), x) = TakeSigungu(Parse(ws), x)
  BY <1>1 DEF Take, TakeSido, Begun, Blank
<1>4. TakeSigungu(Parse(ws), x) = Begun("sigungu", sido, next, << >>)
  BY <1>1 DEF TakeSigungu, Begun, Blank
<1> QED BY <1>2, <1>3, <1>4

LEMMA ReadSigungu ==
  ASSUME NoCityIsSido, NEW ws \in Seq(Word), NEW at \in {"start", "sigungu"}, NEW sido,
         Parse(ws) = Begun(at, sido, << >>, << >>), NEW sg \in Sigungu
  PROVE  /\ ws \o sg \in Seq(Word)
         /\ \E after \in {"start", "sigungu"} : Parse(ws \o sg) = Begun(after, sido, sg, << >>)
<1>1. ASSUME NEW x \in District
      PROVE  /\ ws \o <<x>> \in Seq(Word)
             /\ Parse(ws \o <<x>>) = Begun("sigungu", sido, <<x>>, << >>)
  <2> DEFINE none == << >>
             one == <<x>>
  <2>1. Len(none) < 2 /\ Append(none, x) = one
    OBVIOUS
  <2>2. Parse(ws) = Begun(at, sido, none, << >>)
    OBVIOUS
  <2> HIDE DEF none, one
  <2>3. /\ ws \o <<x>> \in Seq(Word)
        /\ Parse(ws \o <<x>>) = Begun("sigungu", sido, one, << >>)
    BY <2>1, <2>2, ReadDistrict
  <2> QED BY <2>3 DEF one
<1>2. CASE sg = << >>
  BY <1>2, ConcatEmptySeq
<1>3. ASSUME NEW x \in District, NEW y \in District, sg = <<x>> \o <<y>>
      PROVE  /\ ws \o sg \in Seq(Word)
             /\ Parse(ws \o sg) = Begun("sigungu", sido, sg, << >>)
  <2>1. x \in Word /\ y \in Word
    BY DEF District, Word
  <2>2. <<x>> \in Seq(Word) /\ <<y>> \in Seq(Word)
    BY <2>1
  <2>3. Append(<<x>>, y) = sg
    BY <1>3, <2>1, <2>2, AppendIsConcat
  <2> DEFINE one == <<x>>
             vs == ws \o <<x>>
  <2>4. Len(one) < 2 /\ Append(one, y) = sg
    BY <2>3
  <2>5. vs \in Seq(Word) /\ Parse(vs) = Begun("sigungu", sido, one, << >>)
    BY <1>1
  <2> DEFINE other == <<y>>
  <2>6. vs \o <<y>> = ws \o sg
    <3>1. one \in Seq(Word) /\ other \in Seq(Word) /\ sg = one \o other /\ vs = ws \o one
      BY <1>3, <2>2
    <3> HIDE DEF one, other, vs
    <3>2. ws \o (one \o other) = vs \o other
      BY <3>1, Concat3
    <3> QED BY <3>1, <3>2 DEF other
  <2> HIDE DEF one, vs
  <2>7. vs \o <<y>> \in Seq(Word) /\ Parse(vs \o <<y>>) = Begun("sigungu", sido, sg, << >>)
    BY <2>4, <2>5, ReadDistrict, SMTT(30)
  <2> QED BY <2>6, <2>7
<1> QED BY <1>1, <1>2, <1>3, SigunguShape

(* A dong or a myeon ends the districts. *)
LEMMA ReadEmd ==
  ASSUME NEW ws \in Seq(Word), NEW at \in {"start", "sigungu"}, NEW sido, NEW sg,
         Parse(ws) = Begun(at, sido, sg, << >>), NEW e \in Emd
  PROVE  /\ ws \o <<e>> \in Seq(Word)
         /\ Parse(ws \o <<e>>) = Begun("names", sido, sg, <<e>>)
<1>1. e \in Word /\ e[1] \in {"dong", "myeon"} /\ e \notin DOMAIN Alias
  BY AliasWords DEF Emd, Word
<1>2. ws \o <<e>> \in Seq(Word) /\ Parse(ws \o <<e>>) = Take(Parse(ws), e)
  BY <1>1, ParseStep
<1>3. Take(Parse(ws), e) = TakeName(Parse(ws), e)
  BY <1>1 DEF Take, TakeSido, TakeSigungu, Begun, Blank
<1>4. Append(<< >>, e) = <<e>>
  OBVIOUS
<1>5. TakeName(Parse(ws), e) = Begun("names", sido, sg, <<e>>)
  BY <1>1, <1>4 DEF TakeName, IsNum, Begun, Blank
<1> QED BY <1>2, <1>3, <1>5

LEMMA OneWord ==
  ASSUME NEW w \in Word
  PROVE  <<w>> \in Seq(Word)
OBVIOUS

LEMMA TwoWords ==
  ASSUME NEW v \in Word, NEW w \in Word
  PROVE  /\ <<v>> \o <<w>> \in Seq(Word) /\ Len(<<v>> \o <<w>>) = 2
         /\ (<<v>> \o <<w>>)[1] = v /\ (<<v>> \o <<w>>)[2] = w
<1>1. /\ <<v>> \in Seq(Word) /\ Len(<<v>>) = 1
      /\ <<w>> \in Seq(Word) /\ Len(<<w>>) = 1
  OBVIOUS
<1> QED BY <1>1, ConcatProperties

(* The words of the end of an address, and their parts. *)
LEMMA EndWords ==
  ASSUME NEW a \in Address
  PROVE  /\ Words("road", a.road) \in Seq(Word) /\ Words("num", a.num) \in Seq(Word)
         /\ Words("under", "") \in Seq(Word) /\ << >> \in Seq(Word)
         /\ AddressEnd(a) \in Seq(Word)
<1>1. <<"road", a.road>> \in Word /\ <<"num", a.num>> \in Word /\ <<"under", "">> \in Word
  BY AddressTyped DEF Word
<1>2. /\ Words("road", a.road) \in Seq(Word) /\ Words("num", a.num) \in Seq(Word)
      /\ Words("under", "") \in Seq(Word) /\ << >> \in Seq(Word)
  BY <1>1, OneWord, EmptySeq DEF Words
<1> DEFINE r == Words("road", a.road)
           n == Words("num", a.num)
           under == IF a.under = "1" THEN Words("under", "") ELSE << >>
<1>3. under \in Seq(Word)
  BY <1>2
<1>4. (r \o under) \o n \in Seq(Word)
  <2> HIDE DEF r, n, under
  <2>1. r \in Seq(Word) /\ n \in Seq(Word)
    BY <1>2 DEF r, n
  <2>2. r \o under \in Seq(Word)
    BY <1>3, <2>1, Joined
  <2> QED BY <2>1, <2>2, Joined
<1> QED BY <1>2, <1>4 DEF AddressEnd

(* Road, underground and number end what is read. *)
LEMMA ReadEnd ==
  ASSUME NEW ws \in Seq(Word), NEW at \in {"start", "sigungu", "names"}, NEW sido, NEW sg,
         NEW emd, Parse(ws) = Begun(at, sido, sg, emd), NEW a \in Address
  PROVE  /\ ws \o AddressEnd(a) \in Seq(Word)
         /\ Parse(ws \o AddressEnd(a)) = Whole(sido, sg, emd, a)
<1> DEFINE r == <<"road", a.road>>
           n == <<"num", a.num>>
           u == <<"under", "">>
           under == IF a.under = "1" THEN <<u>> ELSE << >>
           onRoad == [Begun("names", sido, sg, emd) EXCEPT !.road = <<r>>]
<1>1. r \in Word /\ n \in Word /\ u \in Word
  BY AddressTyped DEF Word
<1>2. /\ r \notin DOMAIN Alias
      /\ r[1] = "road" /\ n[1] = "num" /\ u[1] = "under" /\ n[2] = a.num
  <2>1. r[1] = "road" /\ n[1] = "num" /\ u[1] = "under" /\ n[2] = a.num
    OBVIOUS
  <2> QED BY <2>1, AliasWords
<1>3. ws \o <<r>> \in Seq(Word) /\ Parse(ws \o <<r>>) = Take(Parse(ws), r)
  BY <1>1, ParseStep
<1>4. Take(Parse(ws), r) = onRoad
  <2>1. Append(<< >>, r) = <<r>>
    OBVIOUS
  <2>2. Take(Parse(ws), r) = TakeName(Parse(ws), r)
    BY <1>2 DEF Take, TakeSido, TakeSigungu, Begun, Blank
  <2>3. TakeName(Parse(ws), r) = onRoad
    <3> HIDE DEF r
    <3> QED BY <1>2, <2>1 DEF TakeName, IsNum, Begun, Blank
  <2> QED BY <2>2, <2>3
<1>5. /\ (ws \o <<r>>) \o under \in Seq(Word)
      /\ Parse((ws \o <<r>>) \o under) = [onRoad EXCEPT !.under = a.under]
  <2> DEFINE vs == ws \o <<r>>
             onUnder == [onRoad EXCEPT !.under = "1"]
             onGround == [onRoad EXCEPT !.under = "0"]
  <2>1. CASE a.under = "1"
    <3>1. /\ vs \o <<u>> \in Seq(Word)
          /\ Parse(vs \o <<u>>) = Take(onRoad, u)
      <4> HIDE DEF r, u, onRoad
      <4> QED BY <1>1, <1>3, <1>4, ParseStep
    <3>2. Take(onRoad, u) = TakeName(onRoad, u)
      BY DEF Take, Begun, Blank
    <3>3. TakeName(onRoad, u) = onUnder
      <4> HIDE DEF u
      <4> QED BY <1>2 DEF TakeName, IsNum, Begun, Blank
    <3>4. under = <<u>> /\ [onRoad EXCEPT !.under = a.under] = onUnder
      BY <2>1
    <3> HIDE DEF vs, under, onRoad, onUnder, u
    <3> QED BY <3>1, <3>2, <3>3, <3>4 DEF vs
  <2>2. CASE a.under = "0"
    <3>1. vs \o << >> = vs
      BY <1>3, ConcatEmptySeq
    <3>2. onGround = onRoad
      BY ZenonT(40) DEF Begun, Blank
    <3>3. under = << >> /\ [onRoad EXCEPT !.under = a.under] = onGround
      BY <2>2
    <3> HIDE DEF under, onRoad, onGround, r
    <3> QED BY <1>3, <1>4, <3>1, <3>2, <3>3
  <2> QED BY <2>1, <2>2, AddressTyped
<1>6. /\ ((ws \o <<r>>) \o under) \o <<n>> \in Seq(Word)
      /\ Parse(((ws \o <<r>>) \o under) \o <<n>>) = Take([onRoad EXCEPT !.under = a.under], n)
  <2> HIDE DEF n, under, onRoad
  <2> QED BY <1>1, <1>5, ParseStep
<1>7. Take([onRoad EXCEPT !.under = a.under], n) = Whole(sido, sg, emd, a)
  <2>1. Take([onRoad EXCEPT !.under = a.under], n) = TakeName([onRoad EXCEPT !.under = a.under], n)
    BY DEF Take, Begun, Blank
  <2>2. TakeName([onRoad EXCEPT !.under = a.under], n) = Whole(sido, sg, emd, a)
    BY <1>2 DEF TakeName, IsNum, Begun, Blank, Whole, Words
  <2> QED BY <2>1, <2>2
<1>8. ws \o AddressEnd(a) = ((ws \o <<r>>) \o under) \o <<n>>
  <2>1. <<r>> \in Seq(Word) /\ under \in Seq(Word) /\ <<n>> \in Seq(Word)
    BY <1>1, OneWord, EmptySeq
  <2>2. AddressEnd(a) = (<<r>> \o under) \o <<n>>
    BY DEF AddressEnd, Words
  <2> HIDE DEF r, n, under
  <2> QED BY <2>1, <2>2, Concat4
<1> QED BY <1>6, <1>7, <1>8

(* A dong, or a myeon and a ri. *)
LEMMA ReadEmds ==
  ASSUME NEW ws \in Seq(Word), NEW at \in {"start", "sigungu"}, NEW sido, NEW sg,
         Parse(ws) = Begun(at, sido, sg, << >>), NEW es \in Emds
  PROVE  /\ ws \o es \in Seq(Word)
         /\ Parse(ws \o es) = Begun("names", sido, sg, es)
<1>1. CASE \E x \in Emd : es = <<x>>
  BY <1>1, ReadEmd
<1>2. ASSUME NEW x \in Emd, NEW y \in Emd, es = <<x>> \o <<y>>
      PROVE  /\ ws \o es \in Seq(Word)
             /\ Parse(ws \o es) = Begun("names", sido, sg, es)
  <2> DEFINE one == <<x>>
             other == <<y>>
             vs == ws \o one
  <2>1. /\ x \in Word /\ y \in Word /\ y[1] \in {"dong", "myeon"}
        /\ one \in Seq(Word) /\ other \in Seq(Word)
    <3>1. x \in Word /\ y \in Word /\ y[1] \in {"dong", "myeon"}
      BY DEF Emd, Word
    <3> QED BY <3>1, OneWord
  <2>2. vs \in Seq(Word) /\ Parse(vs) = Begun("names", sido, sg, one)
    BY ReadEmd
  <2>3. vs \o <<y>> \in Seq(Word) /\ Parse(vs \o <<y>>) = Take(Parse(vs), y)
    <3> HIDE DEF vs
    <3> QED BY <2>1, <2>2, ParseStep
  <2>4. Append(one, y) = es
    BY <1>2, <2>1, AppendIsConcat
  <2>5. Take(Begun("names", sido, sg, one), y) = TakeName(Begun("names", sido, sg, one), y)
    BY DEF Take, Begun, Blank
  <2>6. TakeName(Begun("names", sido, sg, one), y) = Begun("names", sido, sg, es)
    <3> HIDE DEF one
    <3> QED BY <2>1, <2>4 DEF TakeName, IsNum, Begun, Blank
  <2>7. vs \o <<y>> = ws \o es
    <3>1. es = one \o other /\ vs = ws \o one
      BY <1>2
    <3> HIDE DEF one, other, vs
    <3>2. ws \o (one \o other) = vs \o other
      BY <2>1, <3>1, Concat3
    <3> QED BY <3>1, <3>2 DEF other
  <2> HIDE DEF vs, one
  <2> QED BY <2>2, <2>3, <2>5, <2>6, <2>7
<1> QED BY <1>1, <1>2, EmdsShape

(* The names of a place and a lot number, as well. *)
LEMMA ReadLotEnd ==
  ASSUME NEW ws \in Seq(Word), NEW at \in {"start", "sigungu"}, NEW sido, NEW sg,
         Parse(ws) = Begun(at, sido, sg, << >>), NEW p \in Lot
  PROVE  LET end == p.emd \o Words(IF p.san = "1" THEN "san" ELSE "num", p.num)
         IN  /\ end \in Seq(Word)
             /\ ws \o end \in Seq(Word)
             /\ Parse(ws \o end) = WholeLot(sido, sg, p)
<1> DEFINE es == p.emd
           n == <<IF p.san = "1" THEN "san" ELSE "num", p.num>>
           other == <<n>>
<1>1. es \in Emds /\ es \in Seq(Word) /\ n \in Word /\ other \in Seq(Word)
  <2>1. es \in Emds
    BY LotTyped
  <2>2. es \in Seq(Word)
    BY <2>1, EmdsShape
  <2>3. n \in Word
    BY LotTyped DEF Word
  <2>4. other \in Seq(Word)
    <3> HIDE DEF n
    <3> QED BY <2>3
  <2> QED BY <2>1, <2>2, <2>3, <2>4
<1>2. n[1] = (IF p.san = "1" THEN "san" ELSE "num") /\ n[2] = p.num /\ p.san \in {"0", "1"}
  BY LotTyped
<1>3. ws \o es \in Seq(Word) /\ Parse(ws \o es) = Begun("names", sido, sg, es)
  <2> HIDE DEF es
  <2> QED BY <1>1, ReadEmds
<1>4. /\ (ws \o es) \o <<n>> \in Seq(Word)
      /\ Parse((ws \o es) \o <<n>>) = Take(Begun("names", sido, sg, es), n)
  <2> HIDE DEF es, n
  <2> QED BY <1>1, <1>3, ParseStep
<1>5. Take(Begun("names", sido, sg, es), n) = WholeLot(sido, sg, p)
  <2>1. Take(Begun("names", sido, sg, es), n) = TakeName(Begun("names", sido, sg, es), n)
    BY DEF Take, Begun, Blank
  <2> HIDE DEF n
  <2>2. TakeName(Begun("names", sido, sg, es), n) = WholeLot(sido, sg, p)
    BY <1>2 DEF TakeName, IsNum, Begun, Blank, WholeLot
  <2> QED BY <2>1, <2>2
<1>6. (ws \o es) \o other = ws \o (es \o other) /\ es \o other \in Seq(Word)
  <2> HIDE DEF es, other
  <2> QED BY <1>1, Concat3, Joined, SMTT(30)
<1>7. es \o other = p.emd \o Words(IF p.san = "1" THEN "san" ELSE "num", p.num)
  BY DEF Words
<1> DEFINE end == p.emd \o Words(IF p.san = "1" THEN "san" ELSE "num", p.num)
           last == es \o other
<1>8. end = last
  BY <1>7
<1>9. last \in Seq(Word) /\ ws \o last \in Seq(Word) /\ Parse(ws \o last) = WholeLot(sido, sg, p)
  <2>1. (ws \o es) \o <<n>> = ws \o last
    BY <1>6
  <2> HIDE DEF es, n, last
  <2>2. Parse((ws \o es) \o <<n>>) = WholeLot(sido, sg, p)
    BY <1>4, <1>5
  <2>3. last \in Seq(Word)
    BY <1>6 DEF last
  <2> QED BY <1>4, <2>1, <2>2, <2>3
<1> HIDE DEF last, end
<1>10. end \in Seq(Word) /\ ws \o end \in Seq(Word) /\ Parse(ws \o end) = WholeLot(sido, sg, p)
  BY <1>8, <1>9
<1> QED BY <1>10 DEF end

--------------------------------------------------------------------------------
(* What the parser makes of what people write. *)

(* The districts that m writes of a. *)
Part(a, m) ==
  IF m = "bare" THEN << >>
  ELSE IF m = "noCity" THEN (IF Len(a.sigungu) = 2 THEN Tail(a.sigungu) ELSE << >>)
  ELSE a.sigungu

LEMMA PartTyped ==
  ASSUME NEW a \in Address, NEW m
  PROVE  Part(a, m) \in Sigungu /\ << >> \in Sigungu
<1>1. << >> \in Sigungu
  BY EmptySeq DEF Sigungu
<1>2. ASSUME Len(a.sigungu) = 2
      PROVE  Tail(a.sigungu) \in Sigungu
  <2>1. a.sigungu \in Seq(District) /\ a.sigungu # << >>
    <3>1. a.sigungu \in Seq(District)
      BY AddressTyped DEF Sigungu
    <3>2. Len(<< >>) = 0
      OBVIOUS
    <3> QED BY <1>2, <3>1, <3>2
  <2> DEFINE tl == Tail(a.sigungu)
  <2>2. tl \in Seq(District) /\ Len(tl) = 1
    BY <1>2, <2>1, HeadTailProperties
  <2> HIDE DEF tl
  <2>3. tl \in Sigungu
    BY <2>2 DEF Sigungu
  <2> QED BY <2>3 DEF tl
<1> QED BY <1>1, <1>2, AddressTyped DEF Part

(* A field that has the value it is given stays as it is. *)
LEMMA SameField ==
  ASSUME NEW f, NEW x, NEW v, f = [k \in DOMAIN f |-> f[k]], f[x] = v
  PROVE  [f EXCEPT ![x] = v] = f
OBVIOUS

LEMMA BegunBlank ==
  Begun("start", NoWord, << >>, << >>) = Blank
<1>1. Blank = [k \in DOMAIN Blank |-> Blank[k]]
  BY DEF Blank
<1>2. Blank["at"] = "start" /\ Blank["sido"] = NoWord
      /\ Blank["sigungu"] = << >> /\ Blank["emd"] = << >>
  BY DEF Blank
<1>3. [Blank EXCEPT !["at"] = "start"] = Blank /\ [Blank EXCEPT !["sido"] = NoWord] = Blank
  BY <1>1, <1>2, SameField
<1>4. [Blank EXCEPT !["sigungu"] = << >>] = Blank /\ [Blank EXCEPT !["emd"] = << >>] = Blank
  BY <1>1, <1>2, SameField
<1>5. Begun("start", NoWord, << >>, << >>) =
        [[[[Blank EXCEPT !.at = "start"] EXCEPT !.sido = NoWord] EXCEPT !.sigungu = << >>]
           EXCEPT !.emd = << >>]
  BY DEF Begun
<1> QED BY <1>3, <1>4, <1>5

LEMMA BegunSido ==
  ASSUME NEW sido
  PROVE  Begun("sigungu", sido, << >>, << >>) = [Blank EXCEPT !.at = "sigungu", !.sido = sido]
<1> DEFINE b == [Blank EXCEPT !.at = "sigungu", !.sido = sido]
<1>1. b = [k \in DOMAIN b |-> b[k]]
  OBVIOUS
<1>2. b["sigungu"] = << >> /\ b["emd"] = << >>
  BY DEF Blank
<1>3. Begun("sigungu", sido, << >>, << >>) =
        [[b EXCEPT !.sigungu = << >>] EXCEPT !.emd = << >>]
  BY DEF Begun
<1> HIDE DEF b
<1>4. [b EXCEPT !["sigungu"] = << >>] = b /\ [b EXCEPT !["emd"] = << >>] = b
  BY <1>1, <1>2, SameField
<1> QED BY <1>3, <1>4 DEF b

(* A sido, in full or in short, is read first. *)
LEMMA ReadSido ==
  ASSUME NEW kind \in {"sido", "short"}, NEW name \in STRING,
         kind = "short" => <<"short", name>> \in DOMAIN Alias
  PROVE  /\ Words(kind, name) \in Seq(Word)
         /\ Parse(Words(kind, name)) = Begun("sigungu", <<"sido", name>>, << >>, << >>)
<1> DEFINE w == <<kind, name>>
<1>1. w \in Word /\ w[1] = kind /\ w[2] = name
  BY DEF Word
<1>2. << >> \in Seq(Word) /\ <<w>> \in Seq(Word) /\ << >> \o <<w>> = <<w>>
  <2> HIDE DEF w
  <2> QED BY <1>1, OneWord, EmptySeq, ConcatEmptySeq
<1>3. Parse(<< >> \o <<w>>) = Take(Parse(<< >>), w) /\ Parse(<< >>) = Blank
  <2> HIDE DEF w
  <2> QED BY <1>1, <1>2, ParseStep
<1>4. Take(Blank, w) = TakeSido(Blank, w)
  BY DEF Take, Blank
<1>5. TakeSido(Blank, w) = [Blank EXCEPT !.at = "sigungu", !.sido = <<"sido", name>>]
  <2>1. CASE kind = "sido"
    BY <1>1, <2>1 DEF TakeSido
  <2>2. CASE kind = "short"
    <3>1. w \in DOMAIN Alias /\ w[1] = "short" /\ w[2] = name
      BY <1>1, <2>2
    <3>3. Alias[w] = <<"sido", name>>
      <4> HIDE DEF w
      <4> QED BY <3>1, AliasWords
    <3>2. w[1] # "sido"
      BY <1>1, <2>2
    <3> HIDE DEF w
    <3> QED BY <3>1, <3>2, <3>3 DEF TakeSido
  <2> QED BY <2>1, <2>2
<1> QED BY <1>2, <1>3, <1>4, <1>5, BegunSido DEF Words

LEMMA ParseEmpty ==
  Parse(<< >>) = Begun("start", NoWord, << >>, << >>) /\ << >> \in Seq(Word)
<1>1. <<"num", "">> \in Word
  BY DEF Word
<1>2. << >> \in Seq(Word)
  BY EmptySeq
<1>3. Parse(<< >>) = Blank
  BY <1>1, <1>2, ParseStep
<1> QED BY <1>2, <1>3, BegunBlank

(* What the parser makes of a, however it is written. *)
LEMMA ParseWritten ==
  ASSUME NoCityIsSido, NEW a \in Address, NEW m \in Manner, m \in WithSido \cup WithoutSido
  PROVE  /\ Written(a)[m] \in Seq(Word)
         /\ Parse(Written(a)[m]) =
              Whole(IF m \in WithSido THEN <<"sido", a.sido>> ELSE NoWord, Part(a, m),
                    IF m = "withDong" THEN <<a.emd>> ELSE << >>, a)
         /\ m \in WithoutSido => Written(a)[m] = Part(a, m) \o AddressEnd(a)
<1> DEFINE sg == a.sigungu
           end == AddressEnd(a)
<1>1. sg \in Sigungu /\ a.sido \in STRING /\ end \in Seq(Word)
  BY AddressTyped, EndWords
<1>2. ASSUME NEW kind \in {"sido", "short"},
             kind = "short" => <<"short", a.sido>> \in DOMAIN Alias
      PROVE  /\ Words(kind, a.sido) \o sg \in Seq(Word)
             /\ \E at \in {"start", "sigungu"} :
                  Parse(Words(kind, a.sido) \o sg) = Begun(at, <<"sido", a.sido>>, sg, << >>)
  <2> DEFINE ws == Words(kind, a.sido)
             sido == <<"sido", a.sido>>
  <2>1. ws \in Seq(Word) /\ Parse(ws) = Begun("sigungu", sido, << >>, << >>)
    BY <1>1, <1>2, ReadSido
  <2>2. /\ ws \o sg \in Seq(Word)
        /\ \E at \in {"start", "sigungu"} : Parse(ws \o sg) = Begun(at, sido, sg, << >>)
    <3> HIDE DEF ws, sido, sg
    <3> QED BY <1>1, <2>1, ReadSigungu
  <2> QED BY <2>2
<1>3. CASE m \in {"stored", "short"}
  <2> DEFINE kind == IF m = "short" THEN "short" ELSE "sido"
             ws == Words(kind, a.sido) \o sg
             sido == <<"sido", a.sido>>
  <2>1. kind \in {"sido", "short"} /\ (kind = "short" => <<"short", a.sido>> \in DOMAIN Alias)
    BY <1>3, GeocodeAssumption
  <2>2. ws \in Seq(Word) /\ \E at \in {"start", "sigungu"} : Parse(ws) = Begun(at, sido, sg, << >>)
    <3> HIDE DEF kind
    <3> QED BY <1>2, <2>1
  <2>3. ws \o end \in Seq(Word) /\ Parse(ws \o end) = Whole(sido, sg, << >>, a)
    <3> HIDE DEF ws, sido, sg
    <3> QED BY <2>2, ReadEnd
  <2>4. Written(a)[m] = ws \o end
    <3>1. CASE m = "stored"
      BY <3>1 DEF Written, Norm
    <3>2. CASE m = "short"
      BY <3>2 DEF Written
    <3> QED BY <1>3, <3>1, <3>2
  <2> QED BY <1>3, <2>3, <2>4 DEF Part, WithSido, WithoutSido
<1>4. CASE m = "withDong"
  <2> DEFINE ws == Words("sido", a.sido) \o sg
             sido == <<"sido", a.sido>>
             e == a.emd
  <2>1. ws \in Seq(Word) /\ \E at \in {"start", "sigungu"} : Parse(ws) = Begun(at, sido, sg, << >>)
    BY <1>2
  <2>2. e \in Emd
    BY AddressTyped
  <2>3. ws \o <<e>> \in Seq(Word) /\ Parse(ws \o <<e>>) = Begun("names", sido, sg, <<e>>)
    <3> HIDE DEF ws, sido, sg, e
    <3> QED BY <2>1, <2>2, ReadEmd
  <2> DEFINE vs == ws \o <<e>>
             es == <<e>>
  <2>4. vs \o end \in Seq(Word) /\ Parse(vs \o end) = Whole(sido, sg, es, a)
    <3>1. vs \in Seq(Word) /\ Parse(vs) = Begun("names", sido, sg, es)
      BY <2>3
    <3> HIDE DEF vs, sido, sg, es
    <3> QED BY <3>1, ReadEnd
  <2>5. Written(a)[m] = vs \o end
    BY <1>4 DEF Written
  <2> QED BY <1>4, <2>4, <2>5 DEF Part, WithSido, WithoutSido
<1>5. CASE m \in WithoutSido
  <2> DEFINE part == Part(a, m)
             none == NoWord
  <2>1. part \in Sigungu /\ part \in Seq(Word)
    BY PartTyped, SigunguShape
  <2>2. /\ << >> \o part \in Seq(Word)
        /\ \E at \in {"start", "sigungu"} : Parse(<< >> \o part) = Begun(at, none, part, << >>)
    <3>1. << >> \in Seq(Word) /\ Parse(<< >>) = Begun("start", none, << >>, << >>)
      BY ParseEmpty
    <3> HIDE DEF part, none
    <3> QED BY <2>1, <3>1, ReadSigungu
  <2>3. << >> \o part = part
    BY <2>1, ConcatEmptySeq
  <2>4. part \o end \in Seq(Word) /\ Parse(part \o end) = Whole(none, part, << >>, a)
    <3> HIDE DEF part, none
    <3> QED BY <2>2, <2>3, ReadEnd
  <2>5. Written(a)[m] = part \o end
    <3>1. CASE m = "bare"
      BY <1>1, <3>1, ConcatEmptySeq DEF Written, Part
    <3>2. CASE m = "noSido"
      BY <3>2 DEF Written, Part
    <3>3. CASE m = "noCity"
      BY <3>3 DEF Written, Part
    <3> QED BY <1>5, <3>1, <3>2, <3>3 DEF WithoutSido
  <2> QED BY <1>5, <2>4, <2>5 DEF WithSido, WithoutSido
<1> QED BY <1>3, <1>4, <1>5 DEF WithSido

(* What the parser makes of a lot. *)
LEMMA ParseLot ==
  ASSUME NoCityIsSido, NEW p \in Lot, NEW m \in LotManner
  PROVE  \E sido : \E sg \in {p.sigungu, << >>} : Parse(LotWritten(p)[m]) = WholeLot(sido, sg, p)
<1> DEFINE sg == p.sigungu
           end == p.emd \o Words(IF p.san = "1" THEN "san" ELSE "num", p.num)
<1>1. sg \in Sigungu /\ sg \in Seq(Word) /\ p.sido \in STRING
  BY LotTyped, SigunguShape
<1>2. ASSUME NEW ws \in Seq(Word), NEW at \in {"start", "sigungu"}, NEW sido, NEW part,
             Parse(ws) = Begun(at, sido, part, << >>)
      PROVE  /\ end \in Seq(Word)
             /\ Parse(ws \o end) = WholeLot(sido, part, p)
  BY <1>2, ReadLotEnd
<1> HIDE DEF sg, end
<1>3. CASE m = "stored"
  <2> DEFINE ws == Words("sido", p.sido)
             sido == <<"sido", p.sido>>
  <2>1. ws \in Seq(Word) /\ Parse(ws) = Begun("sigungu", sido, << >>, << >>)
    BY <1>1, ReadSido
  <2>2. /\ ws \o sg \in Seq(Word)
        /\ \E at \in {"start", "sigungu"} : Parse(ws \o sg) = Begun(at, sido, sg, << >>)
    <3> HIDE DEF ws, sido
    <3> QED BY <1>1, <2>1, ReadSigungu
  <2>3. Parse((ws \o sg) \o end) = WholeLot(sido, sg, p)
    <3> HIDE DEF ws, sido
    <3> QED BY <1>2, <2>2
  <2>4. LotWritten(p)[m] = (ws \o sg) \o end
    BY <1>3 DEF LotWritten, sg, end
  <2> QED BY <2>3, <2>4 DEF sg
<1>4. << >> \in Seq(Word) /\ Parse(<< >>) = Begun("start", NoWord, << >>, << >>)
  BY ParseEmpty
<1>5. CASE m = "noSido"
  <2>1. << >> \o sg = sg
    BY <1>1, ConcatEmptySeq
  <2> DEFINE ws == << >>
  <2>2. ws \in Seq(Word) /\ Parse(ws) = Begun("start", NoWord, << >>, << >>) /\ ws \o sg = sg
    BY <1>4, <2>1
  <2> HIDE DEF ws
  <2>5. sg \in Seq(Word) /\ \E at \in {"start", "sigungu"} : Parse(sg) = Begun(at, NoWord, sg, << >>)
    <3> DEFINE none == NoWord
    <3>1. Parse(ws) = Begun("start", none, << >>, << >>)
      BY <2>2
    <3> HIDE DEF none
    <3>2. /\ ws \o sg \in Seq(Word)
          /\ \E at \in {"start", "sigungu"} : Parse(ws \o sg) = Begun(at, none, sg, << >>)
      BY <1>1, <2>2, <3>1, ReadSigungu
    <3> QED BY <2>2, <3>2 DEF none
  <2>3. Parse(sg \o end) = WholeLot(NoWord, sg, p)
    BY <1>2, <2>5
  <2>4. LotWritten(p)[m] = sg \o end
    BY <1>5 DEF LotWritten, sg, end
  <2> QED BY <2>3, <2>4 DEF sg
<1>6. CASE m = "bare"
  <2>1. end \in Seq(Word) /\ Parse(<< >> \o end) = WholeLot(NoWord, << >>, p)
    BY <1>2, <1>4
  <2>2. << >> \o end = end
    BY <2>1, ConcatEmptySeq
  <2>3. LotWritten(p)[m] = end
    BY <1>6 DEF LotWritten, end
  <2> QED BY <2>1, <2>2, <2>3
<1> QED BY <1>3, <1>5, <1>6 DEF LotManner

--------------------------------------------------------------------------------
(* Keys and names: what the queries look for. *)

LEMMA EndWritten ==
  ASSUME NEW front \in Seq(Word), NEW a \in Address
  PROVE  front \o AddressEnd(a) =
           ((front \o Words("road", a.road))
              \o (IF a.under = "1" THEN Words("under", "") ELSE << >>)) \o Words("num", a.num)
<1> DEFINE r == Words("road", a.road)
           n == Words("num", a.num)
           under == IF a.under = "1" THEN Words("under", "") ELSE << >>
<1>1. r \in Seq(Word) /\ n \in Seq(Word) /\ under \in Seq(Word)
  BY EndWords
<1>2. AddressEnd(a) = (r \o under) \o n
  BY DEF AddressEnd
<1>3. front \o ((r \o under) \o n) = ((front \o r) \o under) \o n
  <2> DEFINE ru == r \o under
             fr == front \o r
  <2>1. ru \in Seq(Word)
    BY <1>1, ConcatProperties
  <2>2. front \o ru = fr \o under
    <3> HIDE DEF r, n, under
    <3> QED BY <1>1, Concat3
  <2> HIDE DEF r, n, under, ru
  <2>3. front \o (ru \o n) = (front \o ru) \o n
    BY <1>1, <2>1, Concat3, SMTT(30)
  <2> QED BY <2>2, <2>3 DEF ru
<1> QED BY <1>2, <1>3

(* An address on the ground of a dong, in any manner but the official one, *)
(* has the key under which the loader stores it, or the end of that key.   *)
LEMMA KeyOfWritten ==
  ASSUME NoCityIsSido, NEW a \in Address, NEW m \in Manner, m \in WithSido \cup WithoutSido,
         a.emd[1] = "dong"
  PROVE  LET p == Parse(Written(a)[m])
         IN  /\ HasRoadKey(p)
             /\ Full(p) <=> m \in WithSido
             /\ RoadKey(p) = IF m \in WithSido THEN Norm(a) ELSE Written(a)[m]
<1> DEFINE p == Parse(Written(a)[m])
           sido == IF m \in WithSido THEN <<"sido", a.sido>> ELSE NoWord
           sg == Part(a, m)
           emd == IF m = "withDong" THEN <<a.emd>> ELSE << >>
           r == Words("road", a.road)
           n == Words("num", a.num)
           under == IF a.under = "1" THEN Words("under", "") ELSE << >>
           front == (IF m \in WithSido THEN <<sido>> ELSE << >>) \o sg
<1>1. p = Whole(sido, sg, emd, a)
  BY ParseWritten
<1> HIDE DEF p
<1>2. /\ p.sido = sido /\ p.sigungu = sg /\ p.emd = emd /\ p.road = r
      /\ p.under = a.under /\ p.num = a.num
  <2> HIDE DEF sido, sg, emd, r
  <2> QED BY <1>1 DEF Whole, r
<1>3. r # << >> /\ BldNo(p) = a.num
  BY <1>2 DEF Words, BldNo
<1>4. HasRoadKey(p)
  BY <1>2, <1>3, AddressTyped DEF HasRoadKey
<1>5. Full(p) <=> m \in WithSido
  <2>1. CASE m \in WithSido
    <3>1. <<"sido", a.sido>> # <<"none", "">>
      OBVIOUS
    <3> QED BY <1>2, <2>1, <3>1 DEF Full, NoWord
  <2>2. CASE m \notin WithSido
    BY <1>2, <2>2 DEF Full
  <2> QED BY <2>1, <2>2
<1>6. ~(emd # << >> /\ Last(emd)[1] = "myeon")
  BY DEF Last
<1>7. RoadKey(p) = (((front \o << >>) \o r) \o under) \o n
  <2> HIDE DEF sido, sg, emd, r, n
  <2> QED BY <1>2, <1>3, <1>5, <1>6 DEF RoadKey, n
<1>8. front \in Seq(Word) /\ (m \in WithoutSido => front = sg)
  <2>1. sg \in Seq(Word)
    BY PartTyped, SigunguShape
  <2>2. CASE m \in WithSido
    <3>1. <<"sido", a.sido>> \in Word
      BY AddressTyped DEF Word
    <3> DEFINE w == <<"sido", a.sido>>
    <3>2. <<w>> \o sg \in Seq(Word)
      <4> HIDE DEF w, sg
      <4> QED BY <2>1, <3>1, OneWord, ConcatProperties DEF w
    <3>3. m \notin WithoutSido
      BY <2>2 DEF WithSido, WithoutSido
    <3> QED BY <2>2, <3>2, <3>3
  <2>3. CASE m \notin WithSido
    <3> HIDE DEF sg
    <3> QED BY <2>1, <2>3, ConcatEmptySeq
  <2> QED BY <2>2, <2>3
<1>9. RoadKey(p) = front \o AddressEnd(a)
  <2> HIDE DEF front
  <2>1. front \o << >> = front
    BY <1>8, ConcatEmptySeq
  <2>2. front \o AddressEnd(a) = ((front \o r) \o under) \o n
    BY <1>8, EndWritten
  <2> QED BY <1>7, <2>1, <2>2
<1>10. CASE m \in WithSido
  <2>1. sg = a.sigungu /\ Norm(a) = front \o AddressEnd(a)
    BY <1>10 DEF Part, WithSido, Norm, Words
  <2> QED BY <1>4, <1>5, <1>9, <1>10, <2>1 DEF p
<1>11. CASE m \in WithoutSido
  <2>1. m \notin WithSido
    BY <1>11 DEF WithSido, WithoutSido
  <2>2. Written(a)[m] = sg \o AddressEnd(a)
    BY <1>11, ParseWritten
  <2> QED BY <1>4, <1>5, <1>8, <1>9, <1>11, <2>1, <2>2 DEF p
<1> QED BY <1>10, <1>11

(* A pattern is found at the end of what it ends. *)
LEMMA EndMatches ==
  ASSUME NEW name \in Seq(Word), NEW pattern \in Seq(Word), pattern # << >>,
         NEW f \in Nat, Len(name) = f + Len(pattern),
         \A i \in 1..Len(pattern) : name[f + i] = pattern[i]
  PROVE  EndsLike(name, pattern)
<1> DEFINE k == Len(pattern)
<1>1. Len(name) = f + k /\ \A i \in 1..k : name[f + i] = pattern[i]
  OBVIOUS
<1>2. f \in Nat /\ k \in Nat /\ k # 0
  BY EmptySeq
<1>3. /\ Tail(pattern) \in Seq(Word) /\ Len(Tail(pattern)) = k - 1
      /\ \A i \in 1..(k - 1) : Tail(pattern)[i] = pattern[i + 1]
  BY HeadTailProperties
<1>4. Head(pattern) = pattern[1]
  OBVIOUS
<1> DEFINE from == Len(name) - k + 1
           sub == SubSeq(name, from + 1, Len(name))
<1>5. from = f + 1
  <2>1. from = Len(name) - Len(pattern) + 1
    OBVIOUS
  <2>2. Len(name) = f + Len(pattern) /\ Len(pattern) \in Nat
    BY LenProperties
  <2>3. \A a, b \in Nat : a + b - b + 1 = a + 1
    OBVIOUS
  <2> HIDE DEF from
  <2> QED BY <2>1, <2>2, <2>3
<1>6. sub \in Seq(Word) /\ Len(sub) = k - 1 /\ \A i \in 1..(k - 1) : sub[i] = name[f + 1 + i]
  <2> HIDE DEF k
  <2> DEFINE lo == f + 2
             hi == f + k
  <2>1. lo \in Int /\ hi \in Int
    BY <1>2
  <2>2. \A i \in lo..hi : name[i] \in Word
    <3>1. \A i \in 1..Len(name) : name[i] \in Word
      BY <1>1, ElementOfSeq
    <3> QED BY <1>1, <1>2, <3>1
  <2>3. sub = SubSeq(name, lo, hi)
    <3>1. from + 1 = f + 1 + 1 /\ Len(name) = hi
      BY <1>1, <1>5
    <3>2. f + 1 + 1 = lo
      BY <1>2
    <3> QED BY <3>1, <3>2
  <2>7. sub = SubSeq(name, from + 1, Len(name))
    OBVIOUS
  <2>4. (IF lo <= hi THEN hi - lo + 1 ELSE 0) = k - 1 /\ hi - lo + 1 = k - 1
    BY <1>2
  <2>5. \A i \in 1..(k - 1) : lo + i - 1 = f + 1 + i
    BY <1>2
  <2> HIDE DEF lo, hi, sub
  <2>6. /\ SubSeq(name, lo, hi) \in Seq(Word)
        /\ Len(SubSeq(name, lo, hi)) = IF lo <= hi THEN hi - lo + 1 ELSE 0
        /\ \A i \in 1..(hi - lo + 1) : SubSeq(name, lo, hi)[i] = name[lo + i - 1]
    BY <2>1, <2>2, SubSeqProperties
  <2> QED BY <2>3, <2>4, <2>5, <2>6
<1>7. \A i \in 1..(k - 1) : name[f + 1 + i] = pattern[i + 1]
  <2> HIDE DEF k
  <2>1. \A i \in 1..(k - 1) : i + 1 \in 1..k /\ f + (i + 1) = f + 1 + i
    BY <1>2
  <2> QED BY <1>1, <1>2, <2>1
<1>8. Tail(pattern) = sub
  <2> DEFINE tail == Tail(pattern)
  <2>1. tail \in Seq(Word) /\ Len(tail) = k - 1 /\ \A i \in 1..(k - 1) : tail[i] = pattern[i + 1]
    BY <1>3
  <2> HIDE DEF tail, sub, k
  <2>2. Len(tail) = Len(sub) /\ \A i \in 1..Len(tail) : tail[i] = sub[i]
    BY <1>6, <1>7, <2>1
  <2>3. tail = sub
    BY <1>6, <2>1, <2>2, SeqEqual
  <2> QED BY <2>3 DEF tail
<1>9. name[f + 1] = pattern[1]
  <2> HIDE DEF k
  <2>1. 1 \in 1..k
    BY <1>2
  <2> QED BY <1>1, <1>2, <2>1
<1>10. f + 1 >= 1
  OBVIOUS
<1>11. from >= 1 /\ name[from] = Head(pattern)
  <2> HIDE DEF k
  <2> QED BY <1>4, <1>5, <1>9, <1>10
<1> QED BY <1>8, <1>11 DEF EndsLike

LEMMA ConcatMatches ==
  ASSUME NEW front \in Seq(Word), NEW pattern \in Seq(Word), pattern # << >>
  PROVE  EndsLike(front \o pattern, pattern)
<1> DEFINE name == front \o pattern
           f == Len(front)
           k == Len(pattern)
<1>1. name \in Seq(Word) /\ Len(name) = f + k
      /\ \A i \in 1..(f + k) : name[i] = IF i <= f THEN front[i] ELSE pattern[i - f]
  BY ConcatProperties
<1>2. f \in Nat /\ k \in Nat
  BY LenProperties
<1>3. \A i \in 1..k : name[f + i] = pattern[i]
  <2> HIDE DEF name, f, k
  <2>1. ASSUME NEW i \in 1..k
        PROVE  name[f + i] = pattern[i]
    <3> DEFINE j == f + i
    <3>1. j \in 1..(f + k) /\ ~(j <= f) /\ j - f = i
      BY <1>2
    <3> HIDE DEF j
    <3>2. name[j] = pattern[j - f]
      BY <1>1, <3>1
    <3> QED BY <3>1, <3>2 DEF j
  <2> QED BY <2>1
<1> HIDE DEF name, f
<1>4. EndsLike(name, pattern)
  BY <1>1, <1>2, <1>3, EndMatches
<1> QED BY <1>4 DEF name

(* The name of the place of a lot, and its parts. *)
LEMMA NameOfLot ==
  ASSUME NEW p \in Lot
  PROVE  LET sido == Words("sido", p.sido)
             sg == p.sigungu
             e == p.emd
         IN  /\ sido \in Seq(Word) /\ sg \in Seq(Word)
             /\ e \in Seq(Word) /\ e # << >>
             /\ sido \o sg \in Seq(Word)
             /\ NameOf(p) = (sido \o sg) \o e
             /\ NameOf(p) \in Seq(Word)
<1> DEFINE s == <<"sido", p.sido>>
           sido == <<s>>
           sg == p.sigungu
           e == p.emd
<1>1. s \in Word /\ sg \in Seq(Word) /\ e \in Seq(Word) /\ e # << >>
  BY LotTyped, SigunguShape, EmdsShape DEF Word
<1>2. sido \in Seq(Word)
  <2> HIDE DEF s
  <2> QED BY <1>1, OneWord
<1>3. sido \o sg \in Seq(Word) /\ (sido \o sg) \o e \in Seq(Word)
  <2> HIDE DEF sido, sg, e
  <2> QED BY <1>1, <1>2, Joined
<1>4. NameOf(p) = (sido \o sg) \o e
  BY DEF NameOf, Words
<1> QED BY <1>1, <1>2, <1>3, <1>4 DEF Words

(* A name that is like more words is like the last of them. *)
LEMMA EndsLikeEnd ==
  ASSUME NEW name \in Seq(Word), NEW front \in Seq(Word), NEW e \in Seq(Word), e # << >>,
         EndsLike(name, front \o e)
  PROVE  EndsLike(name, e)
<1> DEFINE pattern == front \o e
           f == Len(front)
           l == Len(e)
           k == Len(name)
           from == k - Len(pattern) + 1
<1>1. /\ pattern \in Seq(Word) /\ Len(pattern) = f + l
      /\ \A i \in 1..(f + l) : pattern[i] = IF i <= f THEN front[i] ELSE e[i - f]
  BY ConcatProperties
<1>2. f \in Nat /\ l \in Nat /\ l # 0 /\ k \in Nat
  BY EmptySeq, LenProperties
<1>3. from >= 1 /\ Tail(pattern) = SubSeq(name, from + 1, k)
  BY DEF EndsLike
<1>4. CASE f = 0
  <2>1. front = << >>
    BY <1>4, EmptySeq
  <2>2. front \o e = e
    BY <2>1, ConcatEmptySeq
  <2> QED BY <2>2
<1>5. CASE f # 0
  <2> DEFINE tail == Tail(pattern)
  <2>1. Len(tail) = f + l - 1 /\ \A i \in 1..(f + l - 1) : tail[i] = pattern[i + 1]
    <3>1. pattern # << >>
      <4>1. Len(pattern) # 0
        <5> HIDE DEF pattern, f, l
        <5> QED BY <1>1, <1>2
      <4> QED BY <4>1
    <3> HIDE DEF pattern, f, l
    <3>2. /\ Len(Tail(pattern)) = Len(pattern) - 1
          /\ \A i \in 1..Len(Tail(pattern)) : Tail(pattern)[i] = pattern[i + 1]
      BY <1>1, <3>1, HeadTailProperties
    <3>3. Len(pattern) = f + l
      BY <1>1
    <3>4. Len(Tail(pattern)) = f + l - 1
      BY <1>2, <3>2, <3>3
    <3> QED BY <3>2, <3>4
  <2> DEFINE lo == from + 1
  <2>2. lo = k - f - l + 2 /\ lo \in Int /\ k \in Int /\ lo >= 1
    <3> HIDE DEF pattern, f, l, k
    <3> QED BY <1>1, <1>2, <1>3
  <2>3. \A i \in lo..k : name[i] \in Word
    <3>1. \A i \in 1..Len(name) : name[i] \in Word
      BY ElementOfSeq
    <3> HIDE DEF lo
    <3> QED BY <2>2, <3>1
  <2>4. \A i \in 1..(k - lo + 1) : SubSeq(name, lo, k)[i] = name[lo + i - 1]
    <3> HIDE DEF lo, k
    <3> QED BY <2>2, <2>3, SubSeqProperties
  <2>5. tail = SubSeq(name, lo, k)
    BY <1>3
  <2> HIDE DEF tail, lo
  <2>6. ASSUME NEW i \in 1..l
        PROVE  name[(k - l) + i] = e[i]
    <3> DEFINE j == f + i - 1
    <3>1. /\ j \in 1..(f + l - 1) /\ j \in 1..(k - lo + 1)
          /\ j + 1 \in 1..(f + l) /\ ~(j + 1 <= f) /\ (j + 1) - f = i
          /\ lo + j - 1 = (k - l) + i
      <4> HIDE DEF f, l, k
      <4> QED BY <1>2, <1>5, <2>2
    <3> HIDE DEF j, f, l, k, pattern
    <3>2. tail[j] = e[i]
      BY <1>1, <2>1, <3>1
    <3>3. tail[j] = name[lo + j - 1]
      BY <2>4, <2>5, <3>1
    <3> QED BY <3>1, <3>2, <3>3
  <2>7. k - l \in Nat /\ k = (k - l) + l
    <3> HIDE DEF f, l, k
    <3> QED BY <1>2, <1>5, <2>2
  <2> DEFINE g == k - l
  <2>8. g \in Nat /\ Len(name) = g + Len(e) /\ \A i \in 1..Len(e) : name[g + i] = e[i]
    BY <2>6, <2>7
  <2> HIDE DEF g
  <2> QED BY <2>8, EndMatches
<1> QED BY <1>4, <1>5

(* A lot is looked for under its name and number, and what is found in its *)
(* place has a name of that end.                                           *)
LEMMA LotLike ==
  ASSUME NoCityIsSido, NEW p \in Lot, NEW m \in LotManner
  PROVE  LET q == Parse(LotWritten(p)[m])
         IN  /\ ~HasRoadKey(q) /\ AfterRoad(q) = "jibun"
             /\ JibunNo(q) = p.num /\ q.san = p.san
             /\ NameLike(q, p)
             /\ \A lot \in Lot : NameLike(q, lot) => EndsLike(NameOf(lot), p.emd)
<1> DEFINE q == Parse(LotWritten(p)[m])
           e == p.emd
<1>0. PICK sido : \E sg \in {p.sigungu, << >>} : q = WholeLot(sido, sg, p)
  BY ParseLot
<1>1. PICK sg \in {p.sigungu, << >>} : q = WholeLot(sido, sg, p)
  BY <1>0
<1> HIDE DEF q
<1>2. /\ q.sigungu = sg /\ q.emd = e /\ q.road = << >> /\ q.num = p.num /\ q.san = p.san
  BY <1>1 DEF WholeLot
<1>3. JibunNo(q) = p.num /\ ~HasRoadKey(q)
  BY <1>2 DEF JibunNo, HasRoadKey
<1>4. /\ e \in Seq(Word) /\ e # << >> /\ p.sigungu \in Seq(Word) /\ sg \in Seq(Word)
      /\ p.num # ""
  BY NameOfLot, LotTyped, EmptySeq
<1>5. AfterRoad(q) = "jibun"
  BY <1>2, <1>3, <1>4 DEF AfterRoad
<1> DEFINE pattern == sg \o e
<1>6. NameLike(q, p)
  <2> DEFINE s == Words("sido", p.sido)
             g == p.sigungu
             name == NameOf(p)
  <2>1. s \in Seq(Word) /\ s \o g \in Seq(Word) /\ name = (s \o g) \o e
    BY NameOfLot
  <2>0. s \in Seq(Word) /\ g \in Seq(Word) /\ e \in Seq(Word)
    BY <1>4, <2>1
  <2>2. \E front \in Seq(Word) : name = front \o pattern
    <3> HIDE DEF s, name, e
    <3>1. CASE sg = g
      <4>1. (s \o g) \o e = s \o (g \o e)
        BY <2>0, Concat3
      <4> QED BY <2>1, <3>1, <4>1
    <3>2. CASE sg = << >>
      <4>1. << >> \o e = e
        BY <1>4, ConcatEmptySeq
      <4> QED BY <2>1, <3>2, <4>1
    <3> QED BY <1>1, <3>1, <3>2
  <2>3. PICK front \in Seq(Word) : name = front \o pattern
    BY <2>2
  <2>4. pattern \in Seq(Word) /\ pattern # << >>
    <3>1. sg \in Seq(Word) /\ e \in Seq(Word) /\ e # << >> /\ << >> \in Seq(Word)
      BY <1>4, EmptySeq
    <3>2. sg \o e \in Seq(Word) /\ (sg \o e = << >> <=> (sg = << >> /\ e = << >>))
      <4> HIDE DEF e
      <4> QED BY <3>1, Joined, ConcatEqualIffEmpty
    <3> QED BY <3>1, <3>2
  <2> HIDE DEF pattern, name
  <2>5. EndsLike(name, pattern)
    BY <2>3, <2>4, ConcatMatches
  <2> QED BY <1>2, <2>5 DEF NameLike, name, pattern
<1>7. ASSUME NEW lot \in Lot, NameLike(q, lot)
      PROVE  EndsLike(NameOf(lot), p.emd)
  <2>1. NameOf(lot) \in Seq(Word)
    BY NameOfLot
  <2>2. EndsLike(NameOf(lot), sg \o e)
    BY <1>2, <1>7 DEF NameLike
  <2> HIDE DEF e
  <2>3. EndsLike(NameOf(lot), e)
    BY <1>4, <2>1, <2>2, EndsLikeEnd
  <2> QED BY <2>3 DEF e
<1> QED BY <1>2, <1>3, <1>5, <1>6, <1>7 DEF q

--------------------------------------------------------------------------------
(* Keys that end others. *)

(* Being a suffix, without the reversal that defines it. *)
LEMMA SuffixAt ==
  ASSUME NEW s \in Seq(Word), NEW t \in Seq(Word)
  PROVE  IsSuffix(s, t) <=>
           /\ Len(s) <= Len(t)
           /\ \A i \in 1..Len(s) : s[i] = t[Len(t) - Len(s) + i]
<1> DEFINE l == Len(s)
           k == Len(t)
           rs == Reverse(s)
           rt == Reverse(t)
<1>1. l \in Nat /\ k \in Nat
  BY LenProperties
<1>2. \A i \in 1..l : s[i] \in Word
  BY ElementOfSeq
<1>3. \A i \in 1..k : t[i] \in Word
  BY ElementOfSeq
<1> HIDE DEF l, k
<1>4. rs = [i \in 1..l |-> s[(l - i) + 1]] /\ rt = [i \in 1..k |-> t[(k - i) + 1]]
  BY DEF Reverse, l, k
<1> HIDE DEF rs, rt
<1>5. /\ rs \in Seq(Word) /\ Len(rs) = l /\ \A i \in 1..l : rs[i] = s[(l - i) + 1]
  <2>1. \A i \in 1..l : (l - i) + 1 \in 1..l
    BY <1>1
  <2>2. rs \in [1..l -> Word]
    BY <1>2, <1>4, <2>1
  <2> QED BY <1>1, <1>4, <2>2
<1>6. /\ rt \in Seq(Word) /\ Len(rt) = k /\ \A i \in 1..k : rt[i] = t[(k - i) + 1]
  <2>1. \A i \in 1..k : (k - i) + 1 \in 1..k
    BY <1>1
  <2>2. rt \in [1..k -> Word]
    BY <1>3, <1>4, <2>1
  <2> QED BY <1>1, <1>4, <2>2
<1>7. IsSuffix(s, t) <=> l <= k /\ SubSeq(rs, 1, l) = SubSeq(rt, 1, l)
  BY <1>5, <1>6 DEF IsSuffix, IsPrefix, rs, rt
<1>8. SUFFICES ASSUME l <= k
               PROVE  SubSeq(rs, 1, l) = SubSeq(rt, 1, l)
                        <=> \A i \in 1..l : s[i] = t[k - l + i]
  BY <1>7 DEF l, k
<1>9. \A i \in 1..l : rs[i] \in Word /\ rt[i] \in Word
  <2>1. (\A i \in 1..Len(rs) : rs[i] \in Word) /\ (\A i \in 1..Len(rt) : rt[i] \in Word)
    BY <1>5, <1>6, ElementOfSeq
  <2> QED BY <1>1, <1>5, <1>6, <1>8, <2>1
<1> DEFINE a == SubSeq(rs, 1, l)
           b == SubSeq(rt, 1, l)
<1>10. a \in Seq(Word) /\ Len(a) = l /\ \A i \in 1..l : a[i] = rs[i]
  <2>1. /\ SubSeq(rs, 1, l) \in Seq(Word)
        /\ Len(SubSeq(rs, 1, l)) = IF 1 <= l THEN l - 1 + 1 ELSE 0
        /\ \A i \in 1..(l - 1 + 1) : SubSeq(rs, 1, l)[i] = rs[1 + i - 1]
    BY <1>1, <1>9, SubSeqProperties
  <2>2. (IF 1 <= l THEN l - 1 + 1 ELSE 0) = l /\ l - 1 + 1 = l /\ \A i \in 1..l : 1 + i - 1 = i
    BY <1>1
  <2> QED BY <2>1, <2>2
<1>11. b \in Seq(Word) /\ Len(b) = l /\ \A i \in 1..l : b[i] = rt[i]
  <2>1. /\ SubSeq(rt, 1, l) \in Seq(Word)
        /\ Len(SubSeq(rt, 1, l)) = IF 1 <= l THEN l - 1 + 1 ELSE 0
        /\ \A i \in 1..(l - 1 + 1) : SubSeq(rt, 1, l)[i] = rt[1 + i - 1]
    BY <1>1, <1>9, SubSeqProperties
  <2>2. (IF 1 <= l THEN l - 1 + 1 ELSE 0) = l /\ l - 1 + 1 = l /\ \A i \in 1..l : 1 + i - 1 = i
    BY <1>1
  <2> QED BY <2>1, <2>2
<1> HIDE DEF a, b
<1>12. a = b <=> \A i \in 1..l : rs[i] = rt[i]
  <2>1. (\A i \in 1..l : a[i] = b[i]) => a = b
    BY <1>10, <1>11, SeqEqual
  <2> QED BY <1>10, <1>11, <2>1
<1>13. (\A i \in 1..l : rs[i] = rt[i]) <=> \A i \in 1..l : s[i] = t[k - l + i]
  <2>1. \A i \in 1..l : rs[i] = s[(l - i) + 1] /\ rt[i] = t[(k - i) + 1]
    BY <1>1, <1>5, <1>6, <1>8
  <2>2. \A i \in 1..l : (l - i) + 1 \in 1..l /\ (l - ((l - i) + 1)) + 1 = i
                       /\ (k - ((l - i) + 1)) + 1 = k - l + i
                       /\ k - l + ((l - i) + 1) = (k - i) + 1
    BY <1>1
  <2>3. ASSUME \A i \in 1..l : rs[i] = rt[i], NEW i \in 1..l
        PROVE  s[i] = t[k - l + i]
    <3>1. rs[(l - i) + 1] = rt[(l - i) + 1]
      BY <2>2, <2>3
    <3>2. rs[(l - i) + 1] = s[i] /\ rt[(l - i) + 1] = t[k - l + i]
      BY <2>1, <2>2
    <3> QED BY <3>1, <3>2
  <2>4. ASSUME \A i \in 1..l : s[i] = t[k - l + i], NEW i \in 1..l
        PROVE  rs[i] = rt[i]
    <3>1. s[(l - i) + 1] = t[k - l + ((l - i) + 1)]
      BY <2>2, <2>4
    <3> QED BY <2>1, <2>2, <3>1
  <2> QED BY <2>3, <2>4
<1> QED BY <1>12, <1>13 DEF a, b

(* The second part of a concatenation is a suffix of it. *)
LEMMA ConcatSuffix ==
  ASSUME NEW front \in Seq(Word), NEW s \in Seq(Word), front # << >>
  PROVE  IsStrictSuffix(s, front \o s)
<1> DEFINE t == front \o s
           f == Len(front)
           l == Len(s)
<1>1. t \in Seq(Word) /\ Len(t) = f + l
      /\ \A i \in 1..(f + l) : t[i] = IF i <= f THEN front[i] ELSE s[i - f]
  BY ConcatProperties
<1>2. f \in Nat /\ l \in Nat
  BY LenProperties
<1>3. s # t
  BY ConcatEqualIffEmpty
<1> HIDE DEF t, f, l
<1>4. l <= Len(t) /\ \A i \in 1..l : s[i] = t[Len(t) - l + i]
  <2>1. \A i \in 1..l : Len(t) - l + i = f + i /\ f + i \in 1..(f + l)
                       /\ ~(f + i <= f) /\ f + i - f = i
    BY <1>1, <1>2
  <2>2. l <= Len(t)
    BY <1>1, <1>2
  <2>3. ASSUME NEW i \in 1..l
        PROVE  s[i] = t[Len(t) - l + i]
    <3> DEFINE j == f + i
    <3>1. j \in 1..(f + l) /\ ~(j <= f) /\ j - f = i /\ Len(t) - l + i = j
      BY <1>1, <1>2
    <3> HIDE DEF j
    <3>2. t[j] = s[j - f]
      BY <1>1, <3>1
    <3> QED BY <3>1, <3>2
  <2> QED BY <2>2, <2>3
<1>5. IsSuffix(s, t)
  BY <1>1, <1>4, SuffixAt DEF l
<1> QED BY <1>3, <1>5 DEF IsStrictSuffix, t

(* An address ends in its only road and what follows it. *)
LEMMA EndKinds ==
  ASSUME NEW a \in Address
  PROVE  /\ Len(AddressEnd(a)) \in Nat \ {0}
         /\ AddressEnd(a)[1][1] = "road"
         /\ \A i \in 2..Len(AddressEnd(a)) : AddressEnd(a)[i][1] # "road"
<1> DEFINE r == <<"road", a.road>>
           n == <<"num", a.num>>
           u == <<"under", "">>
           end == AddressEnd(a)
<1>1. r \in Word /\ n \in Word /\ u \in Word
  BY AddressTyped DEF Word
<1>2. r[1] = "road" /\ n[1] # "road" /\ u[1] # "road"
  OBVIOUS
<1>3. CASE a.under = "1"
  <2>1. end = (<<r>> \o <<u>>) \o <<n>>
    BY <1>3 DEF AddressEnd, Words
  <2> HIDE DEF r, n, u, end
  <2> DEFINE ru == <<r>> \o <<u>>
  <2>2. ru \in Seq(Word) /\ Len(ru) = 2 /\ ru[1] = r /\ ru[2] = u
    BY <1>1, TwoWords
  <2> HIDE DEF ru
  <2>3. Len(end) = 3 /\ end[1] = r /\ end[2] = u /\ end[3] = n
    <3>1. ru \o <<n>> = end /\ <<n>> \in Seq(Word) /\ Len(<<n>>) = 1 /\ <<n>>[1] = n
      BY <1>1, <2>1, OneWord DEF ru
    <3> QED BY <2>2, <3>1, ConcatProperties
  <2>4. \A i \in 2..3 : i = 2 \/ i = 3
    OBVIOUS
  <2>5. \A i \in 2..Len(end) : end[i][1] # "road"
    BY <1>2, <2>3, <2>4
  <2>6. Len(end) \in Nat \ {0}
    BY <2>3
  <2> QED BY <1>2, <2>3, <2>5, <2>6 DEF end
<1>4. CASE a.under # "1"
  <2>1. end = (<<r>> \o << >>) \o <<n>>
    BY <1>4 DEF AddressEnd, Words
  <2> HIDE DEF r, n, end
  <2>2. <<r>> \in Seq(Word) /\ <<r>> \o << >> = <<r>>
    BY <1>1, OneWord, ConcatEmptySeq
  <2>3. Len(end) = 2 /\ end[1] = r /\ end[2] = n
    <3>1. <<r>> \o <<n>> = end
      BY <2>1, <2>2
    <3>2. /\ Len(<<r>> \o <<n>>) = 2
          /\ (<<r>> \o <<n>>)[1] = r /\ (<<r>> \o <<n>>)[2] = n
      BY <1>1, TwoWords
    <3> QED BY <3>1, <3>2
  <2>4. \A i \in 2..2 : i = 2
    OBVIOUS
  <2>5. \A i \in 2..Len(end) : end[i][1] # "road"
    BY <1>2, <2>3, <2>4
  <2>6. Len(end) \in Nat \ {0}
    BY <2>3
  <2> QED BY <1>2, <2>3, <2>5, <2>6 DEF end
<1> QED BY <1>3, <1>4

LEMMA OneRoad ==
  ASSUME NEW front \in Seq(Word), \A i \in 1..Len(front) : front[i][1] # "road",
         NEW a \in Address
  PROVE  LET key == front \o AddressEnd(a)
             f == Len(front)
             e == Len(AddressEnd(a))
         IN  /\ key \in Seq(Word) /\ f \in Nat /\ e \in Nat \ {0} /\ Len(key) = f + e
             /\ \A i \in 1..f : key[i] = front[i]
             /\ \A i \in 1..e : key[f + i] = AddressEnd(a)[i]
             /\ \A i \in 1..(f + e) : key[i][1] = "road" <=> i = f + 1
<1> DEFINE end == AddressEnd(a)
           key == front \o end
           f == Len(front)
           e == Len(end)
<1>1. end \in Seq(Word) /\ f \in Nat
  BY EndWords, LenProperties
<1>2. e \in Nat \ {0} /\ end[1][1] = "road" /\ \A i \in 2..e : end[i][1] # "road"
  BY EndKinds
<1> HIDE DEF end
<1>3. key \in Seq(Word) /\ Len(key) = f + e
      /\ \A i \in 1..(f + e) : key[i] = IF i <= f THEN front[i] ELSE end[i - f]
  BY <1>1, ConcatProperties
<1>4. \A i \in 1..f : front[i][1] # "road"
  OBVIOUS
<1> HIDE DEF key, f, e
<1>5. \A i \in 1..f : key[i] = front[i]
  <2>1. \A i \in 1..f : i \in 1..(f + e) /\ i <= f
    BY <1>1, <1>2
  <2> QED BY <1>3, <2>1
<1>6. \A i \in 1..e : key[f + i] = end[i]
  <2>1. SUFFICES ASSUME NEW i \in 1..e
                 PROVE  key[f + i] = end[i]
    OBVIOUS
  <2> DEFINE j == f + i
  <2>2. j \in 1..(f + e) /\ ~(j <= f) /\ j - f = i
    BY <1>1, <1>2
  <2> HIDE DEF j
  <2>3. key[j] = end[j - f]
    BY <1>3, <2>2
  <2> QED BY <2>2, <2>3 DEF j
<1>7. ASSUME NEW i \in 1..(f + e)
      PROVE  key[i][1] = "road" <=> i = f + 1
  <2>1. CASE i <= f
    <3>1. i \in 1..f /\ i # f + 1
      BY <1>1, <2>1
    <3> QED BY <1>4, <1>5, <3>1
  <2>2. CASE i = f + 1
    <3>1. 1 \in 1..e
      BY <1>2
    <3> QED BY <1>2, <1>6, <2>2, <3>1
  <2>3. CASE i > f + 1
    <3>1. i - f \in 2..e /\ i - f \in 1..e /\ f + (i - f) = i /\ i # f + 1
      BY <1>1, <1>2, <2>3
    <3> DEFINE j == i - f
    <3> HIDE DEF j
    <3>2. key[f + j] = end[j] /\ end[j][1] # "road" /\ f + j = i
      BY <1>2, <1>6, <3>1 DEF j
    <3> QED BY <3>1, <3>2
  <2> QED BY <1>1, <2>1, <2>2, <2>3
<1> QED BY <1>1, <1>2, <1>3, <1>5, <1>6, <1>7 DEF key, f, e, end

(* A key that ends another has the same road and number and its front ends *)
(* the front of the other.                                                 *)
LEMMA SuffixParts ==
  ASSUME NEW s \in Seq(Word), \A i \in 1..Len(s) : s[i][1] # "road",
         NEW t \in Seq(Word), \A i \in 1..Len(t) : t[i][1] # "road",
         NEW a \in Address, NEW b \in Address,
         IsSuffix(s \o AddressEnd(a), t \o AddressEnd(b))
  PROVE  /\ AddressEnd(a) = AddressEnd(b)
         /\ Len(s) <= Len(t)
         /\ \A i \in 1..Len(s) : s[i] = t[Len(t) - Len(s) + i]
<1> DEFINE ea == AddressEnd(a)
           eb == AddressEnd(b)
           p == s \o ea
           q == t \o eb
           f == Len(s)
           g == Len(t)
           m == Len(ea)
           n == Len(eb)
<1>1. /\ p \in Seq(Word) /\ f \in Nat /\ m \in Nat \ {0} /\ Len(p) = f + m
      /\ \A i \in 1..f : p[i] = s[i]
      /\ \A i \in 1..m : p[f + i] = ea[i]
      /\ \A i \in 1..(f + m) : p[i][1] = "road" <=> i = f + 1
  BY OneRoad
<1>2. /\ q \in Seq(Word) /\ g \in Nat /\ n \in Nat \ {0} /\ Len(q) = g + n
      /\ \A i \in 1..g : q[i] = t[i]
      /\ \A i \in 1..n : q[g + i] = eb[i]
      /\ \A i \in 1..(g + n) : q[i][1] = "road" <=> i = g + 1
  BY OneRoad
<1>3. ea \in Seq(Word) /\ eb \in Seq(Word) /\ IsSuffix(p, q)
  BY EndWords
<1> HIDE DEF ea, eb, p, q, f, g, m, n
<1>4. Len(p) <= Len(q) /\ \A i \in 1..Len(p) : p[i] = q[Len(q) - Len(p) + i]
  <2>1. p \in Seq(Word) /\ q \in Seq(Word) /\ IsSuffix(p, q)
    BY <1>1, <1>2, <1>3
  <2> QED BY <2>1, SuffixAt
<1> DEFINE d == (g + n) - (f + m)
<1>5. d \in Nat /\ \A i \in 1..(f + m) : p[i] = q[d + i] /\ d + i \in 1..(g + n)
  BY <1>1, <1>2, <1>4
<1>6. d + f = g
  <2>1. f + 1 \in 1..(f + m)
    BY <1>1
  <2>2. q[d + (f + 1)][1] = "road" /\ d + (f + 1) \in 1..(g + n)
    <3> HIDE DEF d
    <3> QED BY <1>1, <1>5, <2>1
  <2>3. d + (f + 1) = g + 1
    <3> HIDE DEF d
    <3> QED BY <1>2, <2>2
  <2>4. f \in Nat /\ g \in Nat /\ d \in Nat
    BY <1>1, <1>2, <1>5
  <2> HIDE DEF d
  <2> QED BY <2>3, <2>4
<1>7. m = n /\ f <= g /\ d = g - f
  BY <1>1, <1>2, <1>5, <1>6
<1> HIDE DEF d
<1>8. ASSUME NEW i \in 1..m
      PROVE  ea[i] = eb[i]
  <2>1. f + i \in 1..(f + m) /\ d + (f + i) = g + i /\ i \in 1..n
    BY <1>1, <1>2, <1>5, <1>6, <1>7
  <2>2. p[f + i] = q[g + i]
    BY <1>5, <2>1
  <2> QED BY <1>1, <1>2, <2>1, <2>2
<1>9. ea = eb
  <2>1. Len(ea) = Len(eb) /\ \A i \in 1..Len(ea) : ea[i] = eb[i]
    BY <1>7, <1>8 DEF m, n
  <2> QED BY <1>3, <2>1, SeqEqual
<1>10. ASSUME NEW i \in 1..f
       PROVE  s[i] = t[g - f + i]
  <2>1. i \in 1..(f + m) /\ d + i \in 1..g /\ d + i = g - f + i
    BY <1>1, <1>2, <1>6, <1>7
  <2>2. s[i] = q[d + i] /\ q[d + i] = t[d + i]
    BY <1>1, <1>2, <1>5, <2>1
  <2> QED BY <2>1, <2>2
<1> QED BY <1>7, <1>9, <1>10 DEF f, g, ea, eb

(* What comes before the road in a stored key. *)
LEMMA NormFront ==
  ASSUME NEW a \in Address
  PROVE  LET front == Words("sido", a.sido) \o a.sigungu
             sg == a.sigungu
         IN  /\ front \in Seq(Word) /\ sg \in Seq(Word) /\ Len(sg) \in 0..2
             /\ Len(front) = 1 + Len(sg)
             /\ front[1] = <<"sido", a.sido>>
             /\ \A i \in 1..Len(sg) : front[1 + i] = sg[i]
             /\ \A i \in 1..Len(front) : front[i][1] # "road"
             /\ Norm(a) = front \o AddressEnd(a) /\ Norm(a) \in Seq(Word)
<1> DEFINE s == <<"sido", a.sido>>
           one == <<s>>
           sg == a.sigungu
           front == one \o sg
           g == Len(sg)
<1>1. s \in Word /\ s[1] # "road"
  BY AddressTyped DEF Word
<1>2. one \in Seq(Word) /\ Len(one) = 1 /\ one[1] = s
  <2> HIDE DEF s
  <2> QED BY <1>1, OneWord
<1>3. sg \in Seq(Word) /\ g \in 0..2 /\ g \in Nat /\ \A i \in 1..g : sg[i][1] # "road"
  <2>1. sg \in Sigungu /\ sg \in Seq(Word) /\ g \in 0..2
    BY AddressTyped, SigunguShape
  <2>2. sg \in Seq(District)
    BY <2>1 DEF Sigungu
  <2>3. \A i \in 1..g : sg[i] \in District
    BY <2>2, ElementOfSeq
  <2>4. \A w \in District : w[1] # "road"
    BY DEF District
  <2> QED BY <2>1, <2>3, <2>4
<1> HIDE DEF s, one, sg
<1>4. front \in Seq(Word) /\ Len(front) = 1 + g
      /\ \A i \in 1..(1 + g) : front[i] = IF i <= 1 THEN one[i] ELSE sg[i - 1]
  <2>1. /\ front \in Seq(Word) /\ Len(front) = Len(one) + Len(sg)
        /\ \A i \in 1..Len(one) + Len(sg) :
             front[i] = IF i <= Len(one) THEN one[i] ELSE sg[i - Len(one)]
    BY <1>2, <1>3, ConcatProperties
  <2> HIDE DEF front
  <2> QED BY <1>2, <2>1
<1> HIDE DEF front, g
<1>5. front[1] = s
  <2>1. 1 \in 1..(1 + g)
    BY <1>3
  <2> QED BY <1>2, <1>4, <2>1
<1>6. ASSUME NEW i \in 1..g
      PROVE  front[1 + i] = sg[i]
  <2> DEFINE j == 1 + i
  <2>1. j \in 1..(1 + g) /\ ~(j <= 1) /\ j - 1 = i
    BY <1>3
  <2> HIDE DEF j
  <2>2. front[j] = sg[i]
    BY <1>4, <2>1
  <2> QED BY <2>2 DEF j
<1>7. ASSUME NEW i \in 1..(1 + g)
      PROVE  front[i][1] # "road"
  <2>1. CASE i = 1
    BY <1>1, <1>5, <2>1
  <2>2. CASE i # 1
    <3>1. i - 1 \in 1..g /\ 1 + (i - 1) = i
      BY <1>3, <2>2
    <3> DEFINE j == i - 1
    <3> HIDE DEF j
    <3>2. j \in 1..g /\ 1 + j = i
      BY <3>1 DEF j
    <3> QED BY <1>3, <1>6, <3>2
  <2> QED BY <2>1, <2>2
<1>8. Norm(a) = front \o AddressEnd(a)
  BY DEF Norm, front, one, s, sg, Words
<1>9. Norm(a) \in Seq(Word)
  BY <1>4, <1>8, EndWords, ConcatProperties
<1>10. Words("sido", a.sido) \o a.sigungu = front
  BY DEF front, one, s, sg, Words
<1> QED BY <1>3, <1>4, <1>5, <1>6, <1>7, <1>8, <1>9, <1>10 DEF g, sg, s

LEMMA PartWords ==
  ASSUME NEW a \in Address, NEW m
  PROVE  /\ Part(a, m) \in Seq(Word) /\ Len(Part(a, m)) \in 0..2
         /\ \A i \in 1..Len(Part(a, m)) : Part(a, m)[i][1] = "sigungu"
<1> DEFINE part == Part(a, m)
<1>1. part \in Sigungu /\ part \in Seq(Word) /\ Len(part) \in 0..2
  BY PartTyped, SigunguShape
<1> HIDE DEF part
<1>2. part \in Seq(District)
  BY <1>1 DEF Sigungu
<1>3. \A i \in 1..Len(part) : part[i] \in District
  BY <1>2, ElementOfSeq
<1>4. \A w \in District : w[1] = "sigungu"
  BY DEF District
<1>5. \A i \in 1..Len(part) : part[i][1] = "sigungu"
  BY <1>3, <1>4
<1> QED BY <1>1, <1>5 DEF part

LEMMA TailOfTwo ==
  ASSUME NEW x \in Word, NEW y \in Word
  PROVE  Tail(<<x>> \o <<y>>) = <<y>>
<1> DEFINE two == <<x>> \o <<y>>
           one == <<y>>
<1>1. two \in Seq(Word) /\ Len(two) = 2 /\ two[2] = y
  BY TwoWords
<1>2. one \in Seq(Word) /\ Len(one) = 1 /\ one[1] = y
  BY OneWord
<1>3. two # << >>
  <2> HIDE DEF two
  <2>1. Len(two) # 0
    BY <1>1
  <2> QED BY <2>1
<1> DEFINE tail == Tail(two)
<1>4. tail \in Seq(Word) /\ Len(tail) = Len(two) - 1 /\ \A i \in 1..Len(tail) : tail[i] = two[i + 1]
  <2> HIDE DEF two
  <2> QED BY <1>1, <1>3, HeadTailProperties
<1> HIDE DEF two, one, tail
<1>5. Len(tail) = Len(one) /\ \A i \in 1..Len(tail) : tail[i] = one[i]
  <2>1. Len(tail) = 1
    BY <1>1, <1>4
  <2>2. \A i \in 1..1 : i = 1 /\ i + 1 = 2
    OBVIOUS
  <2> QED BY <1>1, <1>2, <1>4, <2>1, <2>2
<1>6. tail = one
  BY <1>2, <1>4, <1>5, SeqEqual
<1> QED BY <1>6 DEF tail, two, one

(* What is written without the sido ends the key that is stored. *)
LEMMA WrittenEndsNorm ==
  ASSUME NEW a \in Address, NEW m \in WithoutSido
  PROVE  /\ Part(a, m) \o AddressEnd(a) \in Seq(Word)
         /\ IsStrictSuffix(Part(a, m) \o AddressEnd(a), Norm(a))
<1> DEFINE s == Words("sido", a.sido)
           sg == a.sigungu
           part == Part(a, m)
           end == AddressEnd(a)
           key == part \o end
<1>1. s \in Seq(Word) /\ s # << >>
  BY AddressTyped, ReadSido DEF Words
<1>2. sg \in Seq(Word) /\ s \o sg \in Seq(Word) /\ Norm(a) = (s \o sg) \o end
  BY NormFront
<1>3. end \in Seq(Word) /\ part \in Seq(Word)
  BY EndWords, PartWords
<1>4. key \in Seq(Word)
  <2> HIDE DEF part, end
  <2> QED BY <1>3, ConcatProperties
<1>5. \E front \in Seq(Word) : front # << >> /\ Norm(a) = front \o key
  <2>1. CASE part = sg
    <3> HIDE DEF s, sg, part, end
    <3>1. (s \o sg) \o end = s \o (sg \o end)
      BY <1>1, <1>2, <1>3, Concat3
    <3> QED BY <1>1, <1>2, <2>1, <3>1 DEF key
  <2>2. CASE part = << >>
    <3>1. key = end
      BY <1>3, <2>2, ConcatEmptySeq
    <3>2. s \o sg # << >>
      <4> HIDE DEF s, sg
      <4> QED BY <1>1, <1>2, ConcatEqualIffEmpty
    <3> QED BY <1>2, <3>1, <3>2
  <2>3. CASE Len(sg) = 2 /\ part = Tail(sg)
    <3>1. PICK x \in District, y \in District : sg = <<x>> \o <<y>>
      <4>1. sg \in Sigungu
        BY AddressTyped
      <4>2. sg # << >> /\ \A x \in District : sg # <<x>>
        <5> HIDE DEF sg
        <5>1. sg # << >>
          <6>1. Len(sg) # 0
            BY <2>3
          <6> QED BY <6>1
        <5>2. ASSUME NEW x \in District, sg = <<x>>
              PROVE  FALSE
          <6>1. Len(<<x>>) = 1
            OBVIOUS
          <6> QED BY <2>3, <5>2, <6>1
        <5> QED BY <5>1, <5>2
      <4> HIDE DEF sg
      <4> QED BY <4>1, <4>2, SigunguShape
    <3>2. x \in Word /\ y \in Word
      BY DEF District, Word
    <3> DEFINE ox == <<x>>
               oy == <<y>>
    <3>3. ox \in Seq(Word) /\ oy \in Seq(Word)
      BY <3>2, OneWord
    <3>4. part = oy
      BY <2>3, <3>1, <3>2, TailOfTwo
    <3> DEFINE front == s \o ox
    <3>5. front \in Seq(Word) /\ front # << >>
      <4> HIDE DEF s, ox
      <4> QED BY <1>1, <3>3, ConcatProperties, ConcatEqualIffEmpty
    <3>6. s \o sg = front \o oy
      <4>1. sg = ox \o oy
        BY <3>1
      <4> HIDE DEF s, sg, ox, oy
      <4> QED BY <1>1, <3>3, <4>1, Concat3
    <3>7. (front \o oy) \o end = front \o (oy \o end)
      <4> HIDE DEF front, oy, end
      <4> QED BY <1>3, <3>3, <3>5, Concat3, SMTT(30)
    <3> QED BY <1>2, <3>4, <3>5, <3>6, <3>7
  <2> QED BY <2>1, <2>2, <2>3 DEF Part
<1>6. PICK front \in Seq(Word) : front # << >> /\ Norm(a) = front \o key
  BY <1>5
<1> HIDE DEF key
<1>7. IsStrictSuffix(key, Norm(a))
  BY <1>4, <1>6, ConcatSuffix
<1> QED BY <1>4, <1>7 DEF key

(* What ends a stored key, without the sido, is what people write of it. *)
LEMMA SuffixIsWritten ==
  ASSUME NEW a \in Address, NEW b \in Address, NEW m \in WithoutSido,
         IsStrictSuffix(Part(a, m) \o AddressEnd(a), Norm(b))
  PROVE  \E o \in WithoutSido : Part(a, m) \o AddressEnd(a) = Part(b, o) \o AddressEnd(b)
<1> DEFINE part == Part(a, m)
           front == Words("sido", b.sido) \o b.sigungu
           sg == b.sigungu
           f == Len(part)
           g == Len(sg)
<1>1. /\ part \in Seq(Word) /\ f \in 0..2
      /\ \A i \in 1..f : part[i][1] = "sigungu"
  BY PartWords
<1>2. /\ front \in Seq(Word) /\ sg \in Seq(Word) /\ g \in 0..2 /\ Len(front) = 1 + g
      /\ front[1] = <<"sido", b.sido>> /\ \A i \in 1..g : front[1 + i] = sg[i]
      /\ \A i \in 1..Len(front) : front[i][1] # "road"
      /\ Norm(b) = front \o AddressEnd(b)
  BY NormFront
<1>3. front[1][1] # "sigungu"
  <2>1. front[1] = <<"sido", b.sido>>
    BY <1>2
  <2>2. <<"sido", b.sido>>[1] = "sido"
    OBVIOUS
  <2> HIDE DEF front
  <2> QED BY <2>1, <2>2
<1>4. IsSuffix(part \o AddressEnd(a), front \o AddressEnd(b))
  BY <1>2 DEF IsStrictSuffix
<1> HIDE DEF part, front, sg
<1>5. /\ AddressEnd(a) = AddressEnd(b)
      /\ Len(part) <= Len(front)
      /\ \A i \in 1..Len(part) : part[i] = front[Len(front) - Len(part) + i]
  <2>1. \A i \in 1..Len(part) : part[i][1] # "road"
    BY <1>1
  <2> QED BY <1>1, <1>2, <1>4, <2>1, SuffixParts
<1> HIDE DEF f, g
<1>6. f \in Nat /\ g \in Nat /\ f <= 2 /\ g <= 2
  BY <1>1, <1>2
<1>7. f <= 1 + g /\ \A i \in 1..f : part[i] = front[1 + g - f + i]
  BY <1>2, <1>5 DEF f
<1>8. f <= g
  <2>1. SUFFICES ASSUME f = 1 + g
                 PROVE  FALSE
    BY <1>6, <1>7
  <2>2. 1 \in 1..f /\ 1 + g - f + 1 = 1
    BY <1>6, <2>1
  <2>3. part[1] = front[1]
    BY <1>7, <2>2
  <2> QED BY <1>1, <1>3, <2>2, <2>3
<1>9. ASSUME NEW i \in 1..f
      PROVE  part[i] = sg[g - f + i]
  <2> DEFINE j == g - f + i
  <2>1. j \in 1..g /\ 1 + g - f + i = 1 + j
    BY <1>6, <1>8
  <2> HIDE DEF j
  <2>2. part[i] = front[1 + j] /\ front[1 + j] = sg[j]
    BY <1>2, <1>7, <2>1
  <2> QED BY <2>2 DEF j
<1>10. CASE f = 0
  <2>1. part = << >>
    BY <1>1, <1>10, EmptySeq DEF f
  <2> QED BY <1>5, <2>1 DEF part, Part, WithoutSido
<1>11. CASE f = g
  <2>1. Len(part) = Len(sg) /\ \A i \in 1..Len(part) : part[i] = sg[i]
    <3>1. \A i \in 1..f : g - f + i = i
      BY <1>6, <1>11
    <3> QED BY <1>9, <1>11, <3>1 DEF f, g
  <2>2. part = sg
    BY <1>1, <1>2, <2>1, SeqEqual
  <2>3. Part(b, "noSido") = sg /\ "noSido" \in WithoutSido
    BY DEF Part, sg, WithoutSido
  <2> QED BY <1>5, <2>2, <2>3 DEF part
<1>12. CASE f = 1 /\ g = 2
  <2> DEFINE tail == Tail(sg)
  <2>1. sg # << >>
    <3>1. Len(sg) # 0
      BY <1>12 DEF g
    <3> QED BY <3>1
  <2>2. tail \in Seq(Word) /\ Len(tail) = Len(sg) - 1 /\ \A i \in 1..Len(tail) : tail[i] = sg[i + 1]
    BY <1>2, <2>1, HeadTailProperties
  <2> HIDE DEF tail
  <2>3. Len(tail) = 1
    BY <1>12, <2>2 DEF g
  <2>4. tail[1] = sg[2] /\ part[1] = sg[2]
    <3>1. 1 \in 1..1 /\ 1 + 1 = 2 /\ 2 - 1 + 1 = 2
      OBVIOUS
    <3> QED BY <1>9, <1>12, <2>2, <2>3, <3>1
  <2>5. part = tail
    <3>1. Len(part) = Len(tail) /\ \A i \in 1..Len(part) : part[i] = tail[i]
      <4>1. \A i \in 1..1 : i = 1
        OBVIOUS
      <4> QED BY <1>12, <2>3, <2>4, <4>1 DEF f
    <3> QED BY <1>1, <2>2, <3>1, SeqEqual
  <2>6. Part(b, "noCity") = tail /\ "noCity" \in WithoutSido
    BY <1>12 DEF Part, sg, g, tail, WithoutSido
  <2> QED BY <1>5, <2>5, <2>6 DEF part
<1>13. f = 0 \/ f = g \/ (f = 1 /\ g = 2)
  BY <1>6, <1>8
<1> QED BY <1>10, <1>11, <1>12, <1>13

--------------------------------------------------------------------------------
(* The rows of a search, and the candidates among them. *)

(* DISTINCT ON keeps one row of each address. *)
LEMMA OneRowEach ==
  ASSUME NEW R \in SUBSET [address : Address, copy : Nat]
  PROVE  /\ \A r \in R : \E s \in DistinctRows(R) : s.address = r.address
         /\ \A r, s \in DistinctRows(R) : r.address = s.address => r = s
<1>1. ASSUME NEW r \in R
      PROVE  \E s \in DistinctRows(R) : s.address = r.address
  <2> DEFINE T == {s.copy : s \in {t \in R : t.address = r.address}}
  <2>1. T \in SUBSET Nat /\ T # {}
    OBVIOUS
  <2>2. PICK n \in T : \A k \in T : n <= k
    <3> HIDE DEF T
    <3> QED BY <2>1, Least
  <2>3. PICK s \in R : s.address = r.address /\ s.copy = n
    BY <2>2
  <2>4. ASSUME NEW t \in R, t.address = s.address
        PROVE  s.copy <= t.copy
    BY <2>2, <2>3, <2>4
  <2> QED BY <2>3, <2>4 DEF DistinctRows
<1>2. ASSUME NEW r \in DistinctRows(R), NEW s \in DistinctRows(R), r.address = s.address
      PROVE  r = s
  <2>1. r \in [address : Address, copy : Nat] /\ s \in [address : Address, copy : Nat]
    BY DEF DistinctRows
  <2>2. r.copy <= s.copy /\ s.copy <= r.copy
    BY <1>2 DEF DistinctRows
  <2>3. r.copy = s.copy
    BY <2>1, <2>2
  <2> QED BY <1>2, <2>1, <2>3
<1> QED BY <1>1, <1>2

(* The search lists all the addresses of its rows, each once, or as many   *)
(* as it lists at most.                                                    *)
LEMMA Candidates ==
  ASSUME NEW R \in SUBSET [address : Address, copy : Nat], IsFiniteSet(R),
         NEW hits \in FirstOf(DistinctRows(R))
  PROVE  LET found == {t.address : t \in hits}
         IN  /\ hits \subseteq R
             /\ \A r, s \in hits : r # s => r.address # s.address
             /\ \/ \A r \in R : r.address \in found
                \/ Cardinality(found) = MaxCandidates /\ hits # {} /\ \A r : hits # {r}
<1> DEFINE D == DistinctRows(R)
           found == {t.address : t \in hits}
<1>1. hits \subseteq D /\ D \subseteq R
  BY DEF FirstOf, DistinctRows
<1>2. \A r, s \in hits : r # s => r.address # s.address
  BY <1>1, OneRowEach
<1>3. CASE hits = D
  <2>1. \A r \in R : r.address \in found
    BY <1>3, OneRowEach
  <2> QED BY <1>1, <1>2, <2>1
<1>4. CASE hits # D
  <2>1. Cardinality(hits) = MaxCandidates
    BY <1>4 DEF FirstOf
  <2>2. IsFiniteSet(hits)
    BY <1>1, FS_Subset
  <2> DEFINE f == [t \in hits |-> t.address]
  <2>3. f \in Bijection(hits, found)
    BY <1>2 DEF Bijection, Injection, Surjection, IsInjective
  <2>4. ExistsBijection(hits, found)
    BY <2>3 DEF ExistsBijection
  <2>5. Cardinality(found) = Cardinality(hits)
    <3> HIDE DEF found
    <3> QED BY <2>2, <2>4, FS_Bijection
  <2>6. MaxCandidates # 0 /\ MaxCandidates # 1
    BY GeocodeAssumption
  <2>7. hits # {}
    BY <2>1, <2>6, FS_EmptySet
  <2>8. \A r : hits # {r}
    <3>1. \A r : Cardinality({r}) = 1
      BY FS_Singleton
    <3> QED BY <2>1, <2>6, <3>1
  <2> QED BY <1>1, <1>2, <2>1, <2>5, <2>7, <2>8
<1> QED BY <1>3, <1>4

--------------------------------------------------------------------------------
(* What is asked for, and the key under which it is looked up. *)

(* The key of what is asked for is that of the address, or ends it. *)
LEMMA AddressAsked ==
  ASSUME Regular, NEW q, NEW a \in Address, a \in Means(q)
  PROVE  /\ HasRoadKey(Parse(q))
         /\ Full(Parse(q)) => RoadKey(Parse(q)) = Norm(a)
         /\ ~Full(Parse(q)) => IsStrictSuffix(RoadKey(Parse(q)), Norm(a))
<1>1. PICK m \in Manner : Written(a)[m] = q
  BY Disjoint DEF Means
<1>2. NoCityIsSido /\ m \in WithSido \cup WithoutSido /\ a.emd[1] = "dong"
  BY DEF Regular
<1>3. /\ HasRoadKey(Parse(q))
      /\ Full(Parse(q)) <=> m \in WithSido
      /\ RoadKey(Parse(q)) = IF m \in WithSido THEN Norm(a) ELSE q
  BY <1>1, <1>2, KeyOfWritten
<1>4. CASE m \in WithSido
  BY <1>3, <1>4
<1>5. CASE m \notin WithSido
  <2>1. m \in WithoutSido
    BY <1>2, <1>5
  <2>2. q = Part(a, m) \o AddressEnd(a)
    BY <1>1, <1>2, <2>1, ParseWritten
  <2>3. IsStrictSuffix(q, Norm(a))
    BY <2>1, <2>2, WrittenEndsNorm
  <2> QED BY <1>3, <1>5, <2>3
<1> QED BY <1>4, <1>5

(* A lot that is asked for is looked for by its own number and name. *)
LEMMA LotAsked ==
  ASSUME NoCityIsSido, NEW q, NEW p \in Lot, p \in Means(q)
  PROVE  LET r == Parse(q)
         IN  /\ ~HasRoadKey(r) /\ AfterRoad(r) = "jibun"
             /\ JibunNo(r) = p.num /\ r.san = p.san
             /\ NameLike(r, p)
             /\ \A lot \in Lot : NameLike(r, lot) => EndsLike(NameOf(lot), p.emd)
<1>1. PICK m \in LotManner : LotWritten(p)[m] = q
  BY Disjoint DEF Means
<1> QED BY <1>1, LotLike

(* An address under the key of what is asked for is one that is meant. *)
LEMMA KeyIsMeant ==
  ASSUME Regular, WithoutSido \subseteq Manner,
         NEW q \in Queries, HasRoadKey(Parse(q)), NEW b \in Address,
         \/ Full(Parse(q)) /\ Norm(b) = RoadKey(Parse(q))
         \/ ~Full(Parse(q)) /\ IsStrictSuffix(RoadKey(Parse(q)), Norm(b))
  PROVE  b \in Means(q)
<1>1. PICK a \in Address, m \in Manner : Written(a)[m] = q
  <2>1. ASSUME NEW p \in Lot, NEW m \in LotManner, LotWritten(p)[m] = q
        PROVE  FALSE
    BY <2>1, LotLike DEF Regular
  <2> QED BY <2>1 DEF Queries
<1>2. NoCityIsSido /\ m \in WithSido \cup WithoutSido /\ a.emd[1] = "dong"
  BY DEF Regular
<1>3. /\ Full(Parse(q)) <=> m \in WithSido
      /\ RoadKey(Parse(q)) = IF m \in WithSido THEN Norm(a) ELSE q
  BY <1>1, <1>2, KeyOfWritten
<1>4. CASE m \in WithSido
  <2>1. Norm(b) = Norm(a)
    BY <1>3, <1>4
  <2>2. b = a
    BY <2>1 DEF Regular
  <2> QED BY <1>1, <2>2 DEF Means
<1>5. CASE m \notin WithSido
  <2>1. m \in WithoutSido
    BY <1>2, <1>5
  <2>2. q = Part(a, m) \o AddressEnd(a)
    BY <1>1, <1>2, <2>1, ParseWritten
  <2>3. IsStrictSuffix(Part(a, m) \o AddressEnd(a), Norm(b))
    BY <1>3, <1>5, <2>2
  <2>4. PICK o \in WithoutSido : q = Part(b, o) \o AddressEnd(b)
    BY <2>1, <2>2, <2>3, SuffixIsWritten
  <2>5. Written(b)[o] = q
    BY <1>2, <2>4, ParseWritten
  <2> QED BY <2>5 DEF Means
<1> QED BY <1>4, <1>5

--------------------------------------------------------------------------------
(* The searches. *)

(* The rows are of addresses, finitely many, whatever happens. *)
LEMMA GeocodeTyped ==
  GeocodeSpec => []GeocodeTypeOK
<1>1. GeocodeInit => GeocodeTypeOK
  BY FS_EmptySet DEF GeocodeInit, GeocodeTypeOK
<1>2. GeocodeTypeOK /\ [GeocodeNext]_geocodeVars => GeocodeTypeOK'
  <2> SUFFICES ASSUME GeocodeTypeOK, [GeocodeNext]_geocodeVars
               PROVE  GeocodeTypeOK'
    OBVIOUS
  <2> USE DEF GeocodeTypeOK
  <2>1. ASSUME LoadBuilding PROVE GeocodeTypeOK'
    <3>1. PICK a \in Address, n \in 1..MaxCopies :
            buildings' = buildings \cup {[address |-> a, copy |-> n]}
      BY <2>1 DEF LoadBuilding
    <3>2. n \in Nat
      <4>1. MaxCopies \in Nat
        BY GeocodeAssumption
      <4> QED BY <4>1
    <3>3. IsFiniteSet(buildings')
      BY <3>1, FS_AddElement
    <3> QED BY <2>1, <3>1, <3>2, <3>3 DEF LoadBuilding
  <2>2. ASSUME LoadParcel PROVE GeocodeTypeOK'
    BY <2>2 DEF LoadParcel
  <2>3. ASSUME NEW q \in Queries, AskAddress(q) PROVE GeocodeTypeOK'
    <3>1. stage' \in {"exact", "suffix", "jibun", "trigram"}
      BY <2>3 DEF AskAddress, AfterRoad
    <3> QED BY <2>3, <3>1 DEF AskAddress
  <2>4. ASSUME RoadExact \/ RoadSuffix \/ JibunPath \/ Trigram \/ SearchFails
        PROVE  GeocodeTypeOK'
    <3>1. /\ UNCHANGED <<buildings, parcels>>
          /\ stage' \in {"answered", "jibun", "trigram"}
      BY <2>4 DEF RoadExact, RoadSuffix, JibunPath, Trigram, SearchFails, Reply, FallThrough, AfterRoad
    <3> QED BY <3>1
  <2>5. ASSUME Forget PROVE GeocodeTypeOK'
    BY <2>5 DEF Forget
  <2>6. CASE UNCHANGED geocodeVars
    BY <2>6 DEF geocodeVars
  <2> QED BY <2>1, <2>2, <2>3, <2>4, <2>5, <2>6 DEF GeocodeNext
<1> QED BY <1>1, <1>2, PTL DEF GeocodeSpec

(* The candidates of roadSuffix are rows of different addresses: what has  *)
(* been loaded twice is not taken for two.                                 *)
THEOREM CandidatesDiffer ==
  GeocodeSpec => []AmbiguousIsTwo
<1>1. GeocodeInit => AmbiguousIsTwo
  BY DEF GeocodeInit, AmbiguousIsTwo, Done
<1>2. GeocodeTypeOK /\ AmbiguousIsTwo /\ [GeocodeNext]_geocodeVars => AmbiguousIsTwo'
  <2> SUFFICES ASSUME GeocodeTypeOK, AmbiguousIsTwo, [GeocodeNext]_geocodeVars
               PROVE  AmbiguousIsTwo'
    OBVIOUS
  <2> USE DEF AmbiguousIsTwo, Done
  <2>1. ASSUME LoadBuilding \/ LoadParcel \/ UNCHANGED geocodeVars
        PROVE  AmbiguousIsTwo'
    <3>1. UNCHANGED <<stage, result>>
      BY <2>1 DEF LoadBuilding, LoadParcel, geocodeVars
    <3> QED BY <3>1
  <2>2. ASSUME NEW q \in Queries, AskAddress(q) PROVE AmbiguousIsTwo'
    <3>1. stage' # "answered"
      BY <2>2 DEF AskAddress, AfterRoad
    <3> QED BY <3>1
  <2>3. ASSUME RoadSuffix PROVE AmbiguousIsTwo'
    <3> DEFINE R == {r \in buildings : IsStrictSuffix(RoadKey(Parse(query)), Norm(r.address))}
    <3>1. R \in SUBSET [address : Address, copy : Nat]
      BY DEF GeocodeTypeOK
    <3>2. ASSUME NEW hits \in FirstOf(DistinctRows(R)), NEW r \in hits, NEW s \in hits, r # s,
                 Reply("ambiguous", {t.address : t \in hits})
          PROVE  AmbiguousIsTwo'
      <4>1. r \in DistinctRows(R) /\ s \in DistinctRows(R)
        BY DEF FirstOf
      <4>2. r.address # s.address
        <5> HIDE DEF R
        <5> QED BY <3>1, <3>2, <4>1, OneRowEach
      <4> QED BY <3>2, <4>2 DEF Reply
    <3>3. ASSUME NEW r, Reply("exact_partial", {r.address})
          PROVE  AmbiguousIsTwo'
      BY <3>3 DEF Reply
    <3>4. ASSUME FallThrough(AfterRoad(Parse(query)))
          PROVE  AmbiguousIsTwo'
      BY <3>4 DEF FallThrough, AfterRoad
    <3> HIDE DEF R, AmbiguousIsTwo
    <3> QED BY <2>3, <3>2, <3>3, <3>4 DEF RoadSuffix, R
  <2>4. ASSUME RoadExact \/ JibunPath \/ Trigram \/ SearchFails
        PROVE  AmbiguousIsTwo'
    <3>1. ASSUME NEW match \in {"exact", "jibun", "trigram", "no match", "500"}, NEW found,
                 Reply(match, found)
          PROVE  AmbiguousIsTwo'
      BY <3>1 DEF Reply
    <3>2. ASSUME NEW where \in {"jibun", "trigram"}, FallThrough(where)
          PROVE  AmbiguousIsTwo'
      BY <3>2 DEF FallThrough
    <3>3. AfterRoad(Parse(query)) \in {"jibun", "trigram"}
      BY DEF AfterRoad
    <3> HIDE DEF AmbiguousIsTwo
    <3>4. CASE RoadExact
      BY <3>1, <3>2, <3>3, <3>4 DEF RoadExact
    <3>5. CASE JibunPath
      BY <3>1, <3>2, <3>5 DEF JibunPath
    <3>6. CASE Trigram
      BY <3>1, <3>6 DEF Trigram
    <3>7. CASE SearchFails
      BY <3>1, <3>7 DEF SearchFails
    <3> QED BY <2>4, <3>4, <3>5, <3>6, <3>7
  <2>5. ASSUME Forget PROVE AmbiguousIsTwo'
    BY <2>5 DEF Forget
  <2> QED BY <2>1, <2>2, <2>3, <2>4, <2>5 DEF GeocodeNext
<1> QED BY <1>1, <1>2, GeocodeTyped, PTL DEF GeocodeSpec

(* While a search is on, what was there is a row of an address or a lot.   *)
LEMMA StillAsked ==
  ASSUME GeocodeTypeOK, AskedInv, stage \notin {"idle", "answered"}
  PROVE  /\ there \subseteq Means(query)
         /\ \A x \in there : x \in Address \/ x \in Lot
         /\ \A a \in there \cap Address : \E r \in buildings : r.address = a
         /\ there \cap Lot \subseteq parcels
<1>1. there \subseteq Means(query) /\ there \subseteq {r.address : r \in buildings} \cup parcels
  BY DEF AskedInv
<1>2. \A r \in buildings : r.address \in Address
  BY DEF GeocodeTypeOK
<1>3. parcels \subseteq Lot
  BY DEF GeocodeTypeOK
<1> QED BY <1>1, <1>2, <1>3, Disjoint

(* With the sido, the key is that of one address. *)
LEMMA RoadExactStep ==
  ASSUME Regular, GeocodeInv, RoadExact
  PROVE  AskedInv' /\ CascadeInv' /\ KnownIsGeocoded'
<1> DEFINE p == Parse(query)
           hits == {r.address : r \in {s \in buildings : Norm(s.address) = RoadKey(p)}}
<1> HIDE DEF p
<1>0. stage = "exact" /\ HasRoadKey(p) /\ Full(p)
  BY DEF RoadExact, GeocodeInv, CascadeInv, p
<1>1. /\ there \subseteq Means(query) /\ query \in Queries
      /\ \A x \in there : x \in Address \/ x \in Lot
      /\ \A a \in there \cap Address : \E r \in buildings : r.address = a
  BY <1>0, StillAsked DEF GeocodeInv, AskedInv
<1>2. \A a \in there \cap Address : Norm(a) = RoadKey(p)
  BY <1>0, <1>1, AddressAsked DEF p
<1>3. there \cap Lot = {}
  BY <1>0, <1>1, LotAsked DEF p, Regular
<1>4. there \cap Address \subseteq hits
  BY <1>1, <1>2
<1>5. ASSUME NEW a \in hits, Reply("exact", {a})
      PROVE  AskedInv' /\ CascadeInv' /\ KnownIsGeocoded'
  <2>1. \A b \in there : b = a
    <3>1. a \in Address /\ Norm(a) = RoadKey(p)
      BY DEF GeocodeInv, GeocodeTypeOK
    <3> QED BY <1>1, <1>2, <1>3, <3>1 DEF Regular
  <2>2. /\ stage' = "answered" /\ result' = [match |-> "exact", found |-> {a}]
        /\ query' = query /\ there' = there
    BY <1>5 DEF Reply
  <2>3. AddressFound' /\ LotFound'
    BY <1>0, <1>3, <2>1, <2>2 DEF AddressFound, LotFound, p
  <2> QED BY <1>1, <2>2, <2>3 DEF AskedInv, CascadeInv, KnownIsGeocoded
<1>6. ASSUME hits = {}, FallThrough(AfterRoad(p))
      PROVE  AskedInv' /\ CascadeInv' /\ KnownIsGeocoded'
  <2>1. there = {}
    BY <1>1, <1>3, <1>4, <1>6
  <2>2. stage' \in {"jibun", "trigram"} /\ query' = query /\ there' = there
    BY <1>6 DEF FallThrough, AfterRoad
  <2> QED BY <1>1, <2>1, <2>2
          DEF AskedInv, CascadeInv, KnownIsGeocoded, AddressFound, LotFound, Done
<1> QED BY <1>5, <1>6 DEF RoadExact, p

(* Without the sido, all the addresses that end in the key are listed, or  *)
(* as many as the search lists.                                            *)
LEMMA RoadSuffixStep ==
  ASSUME Regular, GeocodeInv, RoadSuffix
  PROVE  AskedInv' /\ CascadeInv' /\ KnownIsGeocoded'
<1> DEFINE p == Parse(query)
           R == {r \in buildings : IsStrictSuffix(RoadKey(p), Norm(r.address))}
           Found(hits) == {t.address : t \in hits}
<1> HIDE DEF p
<1>0. stage = "suffix" /\ HasRoadKey(p) /\ ~Full(p)
  BY DEF RoadSuffix, GeocodeInv, CascadeInv, p
<1>1. /\ there \subseteq Means(query) /\ query \in Queries
      /\ \A x \in there : x \in Address \/ x \in Lot
      /\ \A a \in there \cap Address : \E r \in buildings : r.address = a
  BY <1>0, StillAsked DEF GeocodeInv, AskedInv
<1>2. \A a \in there \cap Address : \E r \in R : r.address = a
  <2>1. \A a \in there \cap Address : IsStrictSuffix(RoadKey(p), Norm(a))
    BY <1>0, <1>1, AddressAsked DEF p
  <2> QED BY <1>1, <2>1
<1>3. there \cap Lot = {}
  BY <1>0, <1>1, LotAsked DEF p, Regular
<1>4. R \in SUBSET [address : Address, copy : Nat] /\ IsFiniteSet(R)
  BY FS_Subset DEF GeocodeInv, GeocodeTypeOK
<1> HIDE DEF R
<1>5. ASSUME NEW hits \in FirstOf(DistinctRows(R))
      PROVE  \/ there \subseteq Found(hits)
             \/ Cardinality(Found(hits)) = MaxCandidates /\ hits # {} /\ \A r : hits # {r}
  <2>1. CASE \A r \in R : r.address \in Found(hits)
    BY <1>1, <1>2, <1>3, <2>1
  <2> QED BY <1>4, <2>1, Candidates
<1>6. ASSUME NEW hits \in FirstOf(DistinctRows(R)), NEW match \in {"exact_partial", "ambiguous"},
             Reply(match, Found(hits))
      PROVE  AskedInv' /\ CascadeInv' /\ KnownIsGeocoded'
  <2> DEFINE found == Found(hits)
  <2>1. there \subseteq found \/ Cardinality(found) = MaxCandidates
    BY <1>5
  <2>2. /\ stage' = "answered" /\ result' = [match |-> match, found |-> found]
        /\ query' = query /\ there' = there
    BY <1>6 DEF Reply
  <2> HIDE DEF found
  <2>3. AddressFound'
    BY <1>0, <1>6, <2>1, <2>2 DEF AddressFound, p
  <2>4. LotFound'
    BY <1>3, <2>2 DEF LotFound
  <2> QED BY <1>1, <2>2, <2>3, <2>4 DEF AskedInv, CascadeInv, KnownIsGeocoded
<1>7. ASSUME NEW hits \in FirstOf(DistinctRows(R)), hits = {}, FallThrough(AfterRoad(p))
      PROVE  AskedInv' /\ CascadeInv' /\ KnownIsGeocoded'
  <2>1. there = {}
    BY <1>5, <1>7
  <2>2. stage' \in {"jibun", "trigram"} /\ query' = query /\ there' = there
    BY <1>7 DEF FallThrough, AfterRoad
  <2> QED BY <1>1, <2>1, <2>2
          DEF AskedInv, CascadeInv, KnownIsGeocoded, AddressFound, LotFound, Done
<1>8. PICK hits \in FirstOf(DistinctRows(R)) :
        \/ \E r \in hits : hits = {r} /\ Reply("exact_partial", {r.address})
        \/ \E r, s \in hits : r # s /\ Reply("ambiguous", {t.address : t \in hits})
        \/ hits = {} /\ FallThrough(AfterRoad(p))
  BY DEF RoadSuffix, p, R
<1>9. ASSUME NEW r \in hits, hits = {r}, Reply("exact_partial", {r.address})
      PROVE  Reply("exact_partial", Found(hits))
  <2>1. Found(hits) = {r.address}
    BY <1>9
  <2> QED BY <1>9, <2>1
<1> QED BY <1>6, <1>7, <1>8, <1>9

(* A lot is found by its number, its kind of land and the end of its name. *)
LEMMA JibunPathStep ==
  ASSUME NoCityIsSido, GeocodeInv, JibunPath
  PROVE  AskedInv' /\ CascadeInv' /\ KnownIsGeocoded'
<1> DEFINE p == Parse(query)
           hits == {lot \in parcels : NameLike(p, lot) /\ lot.num = JibunNo(p) /\ lot.san = p.san}
<1> HIDE DEF p
<1>0. stage = "jibun"
  BY DEF JibunPath
<1>1. /\ there \subseteq Means(query) /\ query \in Queries
      /\ \A x \in there : x \in Lot
      /\ there \subseteq parcels /\ parcels \subseteq Lot /\ there \cap Address = {}
  BY <1>0, StillAsked DEF GeocodeInv, AskedInv, CascadeInv, GeocodeTypeOK
<1>2. ASSUME NEW l \in there
      PROVE  /\ JibunNo(p) = l.num /\ p.san = l.san /\ NameLike(p, l)
             /\ \A lot \in Lot : NameLike(p, lot) => EndsLike(NameOf(lot), l.emd)
  BY <1>1, LotAsked DEF p
<1>3. there \subseteq hits
  BY <1>1, <1>2
<1>4. ASSUME NEW lot \in hits, Reply("jibun", {lot})
      PROVE  AskedInv' /\ CascadeInv' /\ KnownIsGeocoded'
  <2>1. /\ stage' = "answered" /\ result' = [match |-> "jibun", found |-> {lot}]
        /\ query' = query /\ there' = there
    BY <1>4 DEF Reply
  <2>2. AddressFound'
    BY <1>1, <2>1 DEF AddressFound
  <2>3. lot \in Lot /\ NameLike(p, lot) /\ lot.num = JibunNo(p) /\ lot.san = p.san
    BY <1>1
  <2>4. LotFound'
    <3>1. \A l \in there : /\ lot.num = l.num
                           /\ lot.san = l.san
                           /\ EndsLike(NameOf(lot), l.emd)
      BY <1>2, <2>3
    <3> QED BY <2>1, <3>1 DEF LotFound
  <2> QED BY <1>1, <2>1, <2>2, <2>4 DEF AskedInv, CascadeInv, KnownIsGeocoded
<1>5. ASSUME hits = {}, FallThrough("trigram")
      PROVE  AskedInv' /\ CascadeInv' /\ KnownIsGeocoded'
  <2>1. there = {}
    BY <1>3, <1>5
  <2>2. stage' = "trigram" /\ query' = query /\ there' = there
    BY <1>5 DEF FallThrough
  <2> QED BY <1>1, <2>1, <2>2
          DEF AskedInv, CascadeInv, KnownIsGeocoded, AddressFound, LotFound, Done
<1> QED BY <1>4, <1>5 DEF JibunPath, p

(* What is there and asked for leads to a query that can find it. *)
LEMMA AskAddressStep ==
  ASSUME Regular, GeocodeInv, NEW q \in Queries, AskAddress(q)
  PROVE  AskedInv' /\ CascadeInv' /\ KnownIsGeocoded'
<1> DEFINE p == Parse(q)
<1> HIDE DEF p
<1>1. /\ query' = q /\ buildings' = buildings /\ parcels' = parcels
      /\ there' = ({r.address : r \in buildings} \cup parcels) \cap Means(q)
      /\ stage' = IF ~HasRoadKey(p) THEN AfterRoad(p) ELSE IF Full(p) THEN "exact" ELSE "suffix"
  BY DEF AskAddress, p
<1>2. AfterRoad(p) \in {"jibun", "trigram"}
  BY DEF AfterRoad
<1>3. stage' \notin {"idle", "answered"}
  BY <1>1, <1>2
<1>4. AskedInv'
  BY <1>1, <1>3 DEF AskedInv
<1>5. \A x \in there' : x \in Address \/ x \in Lot
  <2>1. parcels \subseteq Lot /\ \A r \in buildings : r.address \in Address
    BY DEF GeocodeInv, GeocodeTypeOK
  <2> QED BY <1>1, <2>1
<1>6. CascadeInv'
  <2>1. \A a \in there' \cap Address : HasRoadKey(p)
    BY <1>1, AddressAsked DEF p
  <2>2. \A l \in there' \cap Lot : ~HasRoadKey(p) /\ AfterRoad(p) = "jibun"
    BY <1>1, LotAsked DEF p, Regular
  <2>3. stage' \in {"jibun", "trigram"} => ~HasRoadKey(p) /\ stage' = AfterRoad(p)
    BY <1>1
  <2>4. /\ stage' = "exact" => HasRoadKey(p) /\ Full(p)
        /\ stage' = "suffix" => HasRoadKey(p) /\ ~Full(p)
    BY <1>1, <1>2
  <2> QED BY <1>1, <1>5, <2>1, <2>2, <2>3, <2>4 DEF CascadeInv, p
<1>7. KnownIsGeocoded'
  BY <1>3 DEF KnownIsGeocoded, AddressFound, LotFound, Done
<1> QED BY <1>4, <1>6, <1>7

(* What was there when a search began stays there while its queries run,   *)
(* each of which runs only when those before it could not have found it.   *)
THEOREM GeocodeInvariant ==
  ASSUME Regular
  PROVE  GeocodeSpec => []GeocodeInv
<1>1. GeocodeInit => GeocodeInv
  BY FS_EmptySet
     DEF GeocodeInit, GeocodeInv, GeocodeTypeOK, AskedInv, CascadeInv, KnownIsGeocoded,
         AddressFound, LotFound, Done
<1>2. GeocodeInv /\ GeocodeTypeOK' /\ [GeocodeNext]_geocodeVars => GeocodeInv'
  <2> SUFFICES ASSUME GeocodeInv, GeocodeTypeOK', [GeocodeNext]_geocodeVars
               PROVE  AskedInv' /\ CascadeInv' /\ KnownIsGeocoded'
    BY DEF GeocodeInv
  <2>1. ASSUME LoadBuilding \/ LoadParcel \/ UNCHANGED geocodeVars
        PROVE  AskedInv' /\ CascadeInv' /\ KnownIsGeocoded'
    <3>1. /\ query' = query /\ stage' = stage /\ result' = result /\ there' = there
          /\ buildings \subseteq buildings' /\ parcels \subseteq parcels'
      BY <2>1 DEF LoadBuilding, LoadParcel, geocodeVars
    <3>2. AskedInv' /\ CascadeInv'
      BY <3>1 DEF GeocodeInv, AskedInv, CascadeInv
    <3>3. KnownIsGeocoded'
      BY <3>1 DEF GeocodeInv, KnownIsGeocoded, AddressFound, LotFound, Done
    <3> QED BY <3>2, <3>3
  <2>2. ASSUME NEW q \in Queries, AskAddress(q)
        PROVE  AskedInv' /\ CascadeInv' /\ KnownIsGeocoded'
    BY <2>2, AskAddressStep
  <2>3. ASSUME RoadExact PROVE AskedInv' /\ CascadeInv' /\ KnownIsGeocoded'
    BY <2>3, RoadExactStep
  <2>4. ASSUME RoadSuffix PROVE AskedInv' /\ CascadeInv' /\ KnownIsGeocoded'
    BY <2>4, RoadSuffixStep
  <2>5. ASSUME JibunPath PROVE AskedInv' /\ CascadeInv' /\ KnownIsGeocoded'
    BY <2>5, JibunPathStep DEF Regular
  <2>6. ASSUME Trigram PROVE AskedInv' /\ CascadeInv' /\ KnownIsGeocoded'
    <3>1. stage = "trigram" /\ there = {} /\ query \in Queries
      BY <2>6 DEF Trigram, GeocodeInv, CascadeInv, AskedInv
    <3>2. stage' = "answered" /\ query' = query /\ there' = there
      BY <2>6 DEF Trigram, Reply
    <3> QED BY <3>1, <3>2 DEF AskedInv, CascadeInv, KnownIsGeocoded, AddressFound, LotFound
  <2>7. ASSUME SearchFails PROVE AskedInv' /\ CascadeInv' /\ KnownIsGeocoded'
    <3>1. stage # "idle" /\ query \in Queries /\ there \subseteq Means(query)
      BY <2>7 DEF SearchFails, GeocodeInv, AskedInv
    <3>2. /\ stage' = "answered" /\ query' = query /\ there' = there
          /\ result' = [match |-> "500", found |-> {}]
      BY <2>7 DEF SearchFails, Reply
    <3> QED BY <3>1, <3>2
            DEF AskedInv, CascadeInv, KnownIsGeocoded, AddressFound, LotFound, Done
  <2>8. ASSUME Forget PROVE AskedInv' /\ CascadeInv' /\ KnownIsGeocoded'
    BY <2>8 DEF Forget, AskedInv, CascadeInv, KnownIsGeocoded, AddressFound, LotFound, Done
  <2> QED BY <2>1, <2>2, <2>3, <2>4, <2>5, <2>6, <2>7, <2>8 DEF GeocodeNext
<1> QED BY <1>1, <1>2, GeocodeTyped, PTL DEF GeocodeSpec

(* An address or a lot that is loaded before it is asked for is found, in  *)
(* each of the six manners and whatever is loaded meanwhile.               *)
THEOREM KnownAddressesAreFound ==
  ASSUME Regular
  PROVE  GeocodeSpec => []KnownIsGeocoded
<1>1. GeocodeInv => KnownIsGeocoded
  BY DEF GeocodeInv
<1> QED BY <1>1, GeocodeInvariant, PTL

(* A point is called exact only for an address that the words can mean.    *)
THEOREM ExactAnswersAreMeant ==
  ASSUME Regular, WithoutSido \subseteq Manner
  PROVE  GeocodeSpec => []ExactIsMeant
<1>1. GeocodeInit => ExactIsMeant
  BY DEF GeocodeInit, ExactIsMeant, Done
<1>2. GeocodeInv /\ ExactIsMeant /\ [GeocodeNext]_geocodeVars => ExactIsMeant'
  <2> SUFFICES ASSUME GeocodeInv, ExactIsMeant, [GeocodeNext]_geocodeVars
               PROVE  ExactIsMeant'
    OBVIOUS
  <2> DEFINE p == Parse(query)
  <2> HIDE DEF p
  <2>0. \A r \in buildings : r.address \in Address
    BY DEF GeocodeInv, GeocodeTypeOK
  <2>1. ASSUME LoadBuilding \/ LoadParcel \/ UNCHANGED geocodeVars PROVE ExactIsMeant'
    <3>1. query' = query /\ stage' = stage /\ result' = result
      BY <2>1 DEF LoadBuilding, LoadParcel, geocodeVars
    <3> QED BY <3>1 DEF ExactIsMeant, Done
  <2>2. ASSUME NEW q \in Queries, AskAddress(q) PROVE ExactIsMeant'
    <3>1. stage' # "answered"
      BY <2>2 DEF AskAddress, AfterRoad
    <3> QED BY <3>1 DEF ExactIsMeant, Done
  <2>3. ASSUME NEW match, NEW h \in Means(query), Reply(match, {h}) PROVE ExactIsMeant'
    BY <2>3 DEF Reply, ExactIsMeant, Done
  <2>4. ASSUME NEW match \in {"ambiguous", "jibun", "trigram", "no match", "500"}, NEW found,
               Reply(match, found)
        PROVE  ExactIsMeant'
    BY <2>4 DEF Reply, ExactIsMeant, Done
  <2>5. ASSUME NEW where \in {"jibun", "trigram"}, FallThrough(where)
        PROVE  ExactIsMeant'
    BY <2>5 DEF FallThrough, ExactIsMeant, Done
  <2>6. AfterRoad(p) \in {"jibun", "trigram"}
    BY DEF AfterRoad
  <2>7. ASSUME RoadExact PROVE ExactIsMeant'
    <3>1. HasRoadKey(p) /\ Full(p) /\ query \in Queries
      BY <2>7 DEF RoadExact, GeocodeInv, CascadeInv, AskedInv, p
    <3>2. ASSUME NEW r \in buildings, Norm(r.address) = RoadKey(p)
          PROVE  r.address \in Means(query)
      BY <2>0, <3>1, <3>2, KeyIsMeant DEF p
    <3> QED BY <2>3, <2>5, <2>6, <2>7, <3>2 DEF RoadExact, p
  <2>8. ASSUME RoadSuffix PROVE ExactIsMeant'
    <3>1. HasRoadKey(p) /\ ~Full(p) /\ query \in Queries
      BY <2>8 DEF RoadSuffix, GeocodeInv, CascadeInv, AskedInv, p
    <3> DEFINE R == {r \in buildings : IsStrictSuffix(RoadKey(p), Norm(r.address))}
    <3>2. ASSUME NEW r \in R
          PROVE  r.address \in Means(query)
      BY <2>0, <3>1, <3>2, KeyIsMeant DEF p
    <3>3. PICK hits \in FirstOf(DistinctRows(R)) :
            \/ \E r \in hits : hits = {r} /\ Reply("exact_partial", {r.address})
            \/ \E r, s \in hits : r # s /\ Reply("ambiguous", {t.address : t \in hits})
            \/ hits = {} /\ FallThrough(AfterRoad(p))
      BY <2>8 DEF RoadSuffix, p
    <3>4. hits \subseteq R
      BY DEF FirstOf, DistinctRows
    <3> HIDE DEF R
    <3> QED BY <2>3, <2>4, <2>5, <2>6, <3>2, <3>3, <3>4
  <2>9. ASSUME JibunPath PROVE ExactIsMeant'
    BY <2>4, <2>5, <2>9 DEF JibunPath
  <2>10. ASSUME Trigram PROVE ExactIsMeant'
    BY <2>4, <2>10 DEF Trigram
  <2>11. ASSUME SearchFails PROVE ExactIsMeant'
    BY <2>4, <2>11 DEF SearchFails
  <2>12. ASSUME Forget PROVE ExactIsMeant'
    BY <2>12 DEF Forget, ExactIsMeant, Done
  <2> QED BY <2>1, <2>2, <2>7, <2>8, <2>9, <2>10, <2>11, <2>12 DEF GeocodeNext
<1> QED BY <1>1, <1>2, GeocodeInvariant, PTL DEF GeocodeSpec
================================================================================
