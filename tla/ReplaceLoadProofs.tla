--------------------------- MODULE ReplaceLoadProofs ---------------------------
(***************************************************************************)
(* Theorems about ReplaceLoad, for any number of loaders and any inputs,   *)
(* with and without a unique key, and about PlaceSearch beside it.         *)
(***************************************************************************)
EXTENDS PlaceSearch, SequenceTheorems, FiniteSetTheorems, WellFoundedInduction, TLAPS

LEMMA RowsType ==
  ASSUME NEW b \in Bundle
  PROVE  Rows[b] \in SUBSET [key : Key, copy : Nat]
BY ReplaceAssumption

LEMMA AsRowsType ==
  ASSUME NEW l \in Loader, NEW b \in Bundle, NEW new \in SUBSET Rows[b]
  PROVE  AsRows(l, b, new) \in SUBSET TableRow
BY RowsType DEF AsRows, TableRow

(* Rows that one load writes differ only as its input's rows do.           *)
LEMMA AsRowsFaithful ==
  ASSUME NEW l \in Loader, NEW b \in Bundle, NEW new \in SUBSET Rows[b]
  PROVE  /\ {[key |-> r.key, copy |-> r.copy] : r \in AsRows(l, b, new)} = new
         /\ KeysOf(AsRows(l, b, new)) = KeysOf(new)
         /\ \A r, s \in AsRows(l, b, new) : r.key = s.key /\ r.copy = s.copy => r = s
         /\ Unique(new) => Unique(AsRows(l, b, new))
<1> DEFINE Out(r) == [by |-> l, key |-> r.key, bundle |-> b, copy |-> r.copy]
<1>1. AsRows(l, b, new) = {Out(r) : r \in new}
  BY DEF AsRows
<1>2. ASSUME NEW r \in new
      PROVE  /\ [key |-> Out(r).key, copy |-> Out(r).copy] = r
             /\ Out(r).key = r.key
             /\ Out(r).copy = r.copy
  BY RowsType
<1>3. \A r, s \in new : r.key = s.key /\ r.copy = s.copy => r = s
  BY RowsType
<1> HIDE DEF Out
<1>4. {[key |-> o.key, copy |-> o.copy] : o \in AsRows(l, b, new)} = new
  BY <1>1, <1>2
<1>5. KeysOf(AsRows(l, b, new)) = KeysOf(new)
  BY <1>1, <1>2 DEF KeysOf
<1>6. \A r, s \in AsRows(l, b, new) : r.key = s.key /\ r.copy = s.copy => r = s
  BY <1>1, <1>2, <1>3
<1>7. Unique(new) => Unique(AsRows(l, b, new))
  BY <1>1, <1>2 DEF Unique
<1> QED BY <1>4, <1>5, <1>6, <1>7

(* Into a table that holds nothing else, an insert writes its whole input. *)
LEMMA InsertIsWhole ==
  ASSUME TypeOK, NEW l \in Loader, Insert(l), deleted[l] = table
  PROVE  IsWhole(bundle[l], inserted'[l])
<1> DEFINE b == bundle[l]
<1>1. b \in Bundle /\ inserted \in [Loader -> SUBSET TableRow]
  BY DEF TypeOK
<1>2. Taken(l) = {}
  BY DEF Taken, KeysOf
<1>3. CASE keyed = "yes"
  <2>1. PICK new \in SUBSET Rows[b] :
          Unique(new) /\ KeysOf(new) = KeysOf(Rows[b]) /\ inserted'[l] = AsRows(l, b, new)
    BY <1>1, <1>2, <1>3 DEF Insert, InsertKeyed
  <2> HIDE DEF b
  <2> QED BY <1>1, <1>3, <2>1, AsRowsFaithful DEF IsWhole, b
<1>4. CASE keyed = "no"
  <2>1. inserted'[l] = AsRows(l, b, Rows[b])
    BY <1>1, <1>4 DEF Insert, InsertUnkeyed
  <2> DEFINE out == AsRows(l, b, Rows[b])
  <2>2. /\ {[key |-> r.key, copy |-> r.copy] : r \in out} = Rows[b]
        /\ KeysOf(out) = KeysOf(Rows[b])
        /\ \A r, s \in out : r.key = s.key /\ r.copy = s.copy => r = s
    BY <1>1, AsRowsFaithful
  <2> HIDE DEF out, b
  <2>3. ASSUME NEW r \in Rows[b] PROVE \E s \in out : r.key = s.key /\ r.copy = s.copy
    <3>1. PICK s \in out : r = [key |-> s.key, copy |-> s.copy]
      BY <2>2
    <3> QED BY <3>1
  <2>4. IsWhole(b, out)
    BY <1>4, <2>2, <2>3 DEF IsWhole
  <2> QED BY <2>1, <2>4 DEF out, b
<1> QED BY <1>3, <1>4 DEF TypeOK

--------------------------------------------------------------------------------
(* The inductive invariant. *)

LEMMA InitInv == Init => IInv
BY DEF Init, IInv, TypeOK, Open, SnapshotCurrent, DeletedAll, InsertedWhole

LEMMA StepType ==
  ASSUME TypeOK, [Next]_vars
  PROVE  TypeOK'
<1>1. ASSUME NEW l \in Loader, NEW b \in Bundle, Begin(l, b) PROVE TypeOK'
  BY <1>1 DEF TypeOK, Begin, Open, txVars, history
<1>2. ASSUME NEW l \in Loader, DeleteBegins(l) \/ DeleteEnds(l) PROVE TypeOK'
  BY <1>2 DEF TypeOK, DeleteBegins, DeleteEnds, Open, history
<1>3. ASSUME NEW l \in Loader, Insert(l) PROVE TypeOK'
  <2>1. bundle[l] \in Bundle
    BY DEF TypeOK
  <2>2. PICK new \in SUBSET Rows[bundle[l]] :
          inserted' = [inserted EXCEPT ![l] = AsRows(l, bundle[l], new)]
    BY <1>3 DEF Insert, InsertKeyed, InsertUnkeyed
  <2>3. AsRows(l, bundle[l], new) \in SUBSET TableRow
    BY <2>1, AsRowsType
  <2> QED BY <1>3, <2>2, <2>3 DEF TypeOK, Insert, Open, history
<1>4. ASSUME NEW l \in Loader, Commit(l) PROVE TypeOK'
  BY <1>4 DEF TypeOK, Commit, EndTx, Open
<1>5. ASSUME NEW l \in Loader, Abort(l) PROVE TypeOK'
  BY <1>5 DEF TypeOK, Abort, EndTx, Open, history
<1>6. CASE UNCHANGED vars
  BY <1>6 DEF TypeOK, vars, txVars, history
<1> QED BY <1>1, <1>2, <1>3, <1>4, <1>5, <1>6 DEF Next, Step

(* What IInv says of one load. *)
Current(l) == missed[l] = "no" => SnapshotCurrent(l) /\ DeletedAll(l) /\ InsertedWhole(l)

LEMMA CurrentRests ==
  ASSUME NEW m \in Loader, Current(m), UNCHANGED <<keyed, table>>,
         seen'[m] = seen[m], missed'[m] = missed[m], pc'[m] = pc[m],
         bundle'[m] = bundle[m], deleted'[m] = deleted[m], inserted'[m] = inserted[m]
  PROVE  Current(m)'
<1>1. IsWhole(bundle[m], inserted[m])' <=> IsWhole(bundle[m], inserted[m])
  BY DEF IsWhole, KeysOf, Unique
<1>2. InsertedWhole(m)' <=> InsertedWhole(m)
  BY <1>1 DEF InsertedWhole
<1>3. (SnapshotCurrent(m) /\ DeletedAll(m))' <=> SnapshotCurrent(m) /\ DeletedAll(m)
  BY DEF SnapshotCurrent, DeletedAll
<1> QED BY <1>2, <1>3 DEF Current

LEMMA StepCurrent ==
  ASSUME IInv, [Next]_vars, NEW m \in Loader
  PROVE  Current(m)'
<1> USE DEF Current, SnapshotCurrent, DeletedAll, InsertedWhole
<1>0. TypeOK /\ TypeOK' /\ Current(m)
  BY StepType DEF IInv
<1>1. ASSUME NEW l \in Loader, NEW b \in Bundle, Begin(l, b) PROVE Current(m)'
  <2>1. CASE m = l
    BY <1>0, <1>1, <2>1 DEF Begin, txVars, history, TypeOK, InTx, Open
  <2>2. CASE m # l
    <3>1. /\ UNCHANGED <<keyed, table, seen, deleted, inserted>>
          /\ pc'[m] = pc[m] /\ missed'[m] = missed[m] /\ bundle'[m] = bundle[m]
      BY <1>0, <1>1, <2>2 DEF Begin, TypeOK, txVars, history
    <3> QED BY <1>0, <3>1, CurrentRests
  <2> QED BY <2>1, <2>2
<1>2. ASSUME NEW l \in Loader, DeleteBegins(l) PROVE Current(m)'
  <2>1. CASE m = l
    BY <1>0, <1>2, <2>1 DEF DeleteBegins, TypeOK
  <2>2. CASE m # l
    <3>1. /\ pc'[m] = pc[m] /\ seen'[m] = seen[m] /\ missed'[m] = missed[m]
          /\ UNCHANGED <<keyed, table, bundle, deleted, inserted>>
      BY <1>0, <1>2, <2>2 DEF DeleteBegins, TypeOK
    <3> QED BY <1>0, <3>1, CurrentRests
  <2> QED BY <2>1, <2>2
<1>3. ASSUME NEW l \in Loader, DeleteEnds(l) PROVE Current(m)'
  <2>1. CASE m = l
    BY <1>0, <1>3, <2>1 DEF DeleteEnds, TypeOK
  <2>2. CASE m # l
    <3>1. /\ UNCHANGED <<keyed, table, seen, missed, bundle, inserted>>
          /\ pc'[m] = pc[m] /\ deleted'[m] = deleted[m]
      BY <1>0, <1>3, <2>2 DEF DeleteEnds, TypeOK, history
    <3> QED BY <1>0, <3>1, CurrentRests
  <2> QED BY <2>1, <2>2
<1>4. ASSUME NEW l \in Loader, Insert(l) PROVE Current(m)'
  <2>1. CASE m = l
    <3>1. missed[l] = "no" => IsWhole(bundle[l], inserted'[l])
      BY <1>0, <1>4, <2>1, InsertIsWhole DEF Insert
    <3>2. /\ pc[m] = "insert" /\ pc'[m] = "commit"
          /\ UNCHANGED <<keyed, table, seen, missed, bundle, deleted>>
      BY <1>0, <1>4, <2>1 DEF Insert, TypeOK, history
    <3>3. missed[m] = "no" => IsWhole(bundle[m], inserted[m])'
      BY <2>1, <3>1, <3>2 DEF IsWhole, KeysOf, Unique
    <3>4. missed[m] = "no" => (SnapshotCurrent(m) /\ DeletedAll(m))'
      BY <1>0, <3>2
    <3> QED BY <3>2, <3>3, <3>4
  <2>2. CASE m # l
    <3>1. inserted'[m] = inserted[m] /\ pc'[m] = pc[m]
      BY <1>0, <1>4, <2>2 DEF Insert, InsertKeyed, InsertUnkeyed, TypeOK
    <3>2. UNCHANGED <<keyed, table, seen, missed, bundle, deleted>>
      BY <1>4 DEF Insert, history
    <3> QED BY <1>0, <3>1, <3>2, CurrentRests
  <2> QED BY <2>1, <2>2
<1>5. ASSUME NEW l \in Loader, Commit(l) PROVE Current(m)'
  <2>1. CASE pc[m] \in {"deleting", "insert", "commit"} /\ m # l
    BY <1>0, <1>5, <2>1 DEF Commit, TypeOK
  <2>2. CASE pc[m] \notin {"deleting", "insert", "commit"} \/ m = l
    BY <1>0, <1>5, <2>2 DEF Commit, TypeOK
  <2> QED BY <2>1, <2>2
<1>6. ASSUME NEW l \in Loader, Abort(l) PROVE Current(m)'
  <2>1. CASE m = l
    BY <1>0, <1>6, <2>1 DEF Abort, TypeOK
  <2>2. CASE m # l
    <3>1. /\ UNCHANGED <<keyed, table, missed, bundle>>
          /\ pc'[m] = pc[m] /\ seen'[m] = seen[m]
          /\ deleted'[m] = deleted[m] /\ inserted'[m] = inserted[m]
      BY <1>0, <1>6, <2>2 DEF Abort, EndTx, TypeOK, history
    <3> QED BY <1>0, <3>1, CurrentRests
  <2> QED BY <2>1, <2>2
<1>7. CASE UNCHANGED vars
  BY <1>0, <1>7, CurrentRests DEF vars, txVars, history
<1> QED BY <1>1, <1>2, <1>3, <1>4, <1>5, <1>6, <1>7 DEF Next, Step

(* What a commit that missed none leaves. *)
LEMMA CommitIsWhole ==
  ASSUME IInv, NEW l \in Loader, Commit(l), missed[l] = "no"
  PROVE  IsWhole(last, table)' /\ last' = bundle[l]
<1>1. deleted[l] = table /\ IsWhole(bundle[l], inserted[l])
  BY DEF IInv, Commit, DeletedAll, InsertedWhole
<1>2. table' = inserted[l] /\ last' = bundle[l] /\ keyed' = keyed
  BY <1>1 DEF Commit
<1> QED BY <1>1, <1>2 DEF IsWhole, KeysOf, Unique

(* Only a commit changes the table. *)
LEMMA OtherSteps ==
  ASSUME [Next]_vars, \A l \in Loader : ~Commit(l)
  PROVE  UNCHANGED <<keyed, table, history>>
BY DEF Next, Step, Begin, DeleteBegins, DeleteEnds, Insert, Abort, vars

LEMMA StepInv == IInv /\ [Next]_vars => IInv'
<1> SUFFICES ASSUME IInv, [Next]_vars PROVE IInv'
  OBVIOUS
<1>1. TypeOK'
  BY StepType DEF IInv
<1>2. \A m \in Loader : Current(m)'
  BY StepCurrent
<1>3. (tainted = "none" => table = {})' /\ (tainted = "no" => IsWhole(last, table))'
  <2>1. CASE \A l \in Loader : ~Commit(l)
    BY <2>1, OtherSteps DEF IInv, IsWhole, KeysOf, Unique, history
  <2>2. ASSUME NEW l \in Loader, Commit(l)
        PROVE  (tainted = "none" => table = {})' /\ (tainted = "no" => IsWhole(last, table))'
    <3>1. tainted' = missed[l] /\ missed[l] \in {"yes", "no"}
      BY <2>2 DEF Commit, IInv, TypeOK
    <3>2. missed[l] = "no" => IsWhole(last, table)'
      BY <2>2, CommitIsWhole
    <3> QED BY <3>1, <3>2
  <2> QED BY <2>1, <2>2
<1> QED BY <1>1, <1>2, <1>3 DEF IInv, Current

(* The inductive invariant holds. *)
THEOREM ReplaceInvariant == Spec => []IInv
BY InitInv, StepInv, PTL DEF Spec

--------------------------------------------------------------------------------
(* Refinement: readers see the abstract table. *)

LEMMA StepImplementsTable ==
  ASSUME IInv, IInv', [Next]_vars
  PROVE  [Table!Overlap \/ \E b \in Bundle : Table!Swap(b)]_Content
<1>1. CASE \A l \in Loader : ~Commit(l)
  BY <1>1, OtherSteps DEF Content, IsWhole, KeysOf, Unique, history
<1>2. ASSUME NEW l \in Loader, Commit(l)
      PROVE  [Table!Overlap \/ \E b \in Bundle : Table!Swap(b)]_Content
  <2>1. tainted' = missed[l] /\ missed[l] \in {"yes", "no"} /\ bundle[l] \in Bundle
    BY <1>2 DEF Commit, IInv, TypeOK
  <2>2. CASE missed[l] = "yes"
    BY <2>1, <2>2 DEF Content, Table!Overlap, Table!Mixture
  <2>3. CASE missed[l] = "no"
    <3>1. IsWhole(last, table)' /\ last' = bundle[l]
      BY <1>2, <2>3, CommitIsWhole
    <3>2. Content' = <<"whole", bundle[l]>>
      BY <2>1, <2>3, <3>1 DEF Content, IsWhole, KeysOf, Unique
    <3> QED BY <2>1, <3>2 DEF Table!Swap, Table!Whole
  <2> QED BY <2>1, <2>2, <2>3
<1> QED BY <1>1, <1>2

(* A load that misses no commit replaces the rows at once by the whole of  *)
(* its input, and one that fails changes nothing.                          *)
THEOREM ReplaceImplementsTable == Spec => OldOrNew
<1>1. Init => Table!Init
  BY DEF Init, Table!Init, Table!Nothing, Content
<1>2. IInv /\ IInv' /\ [Next]_vars =>
        [Table!Overlap \/ \E b \in Bundle : Table!Swap(b)]_Content
  BY StepImplementsTable
<1> QED BY <1>1, <1>2, ReplaceInvariant, PTL DEF Spec, OldOrNew, Table!SwappingSpec

--------------------------------------------------------------------------------
(* Loading one input again and again, into a table with a unique key.      *)

LEMMA KeyedInit == Init => KeyedInv
BY DEF Init, KeyedInv, KeyedLoad, Disjoint, Covered, Unique, KeysOf

(* What is known of a load, of two, and of the table, while they rest.      *)
LEMMA LoadRests ==
  ASSUME NEW l \in Loader, KeyedLoad(l), UNCHANGED <<table, loaded>>, pc'[l] = pc[l],
         bundle'[l] = bundle[l], deleted'[l] = deleted[l], inserted'[l] = inserted[l]
  PROVE  KeyedLoad(l)'
<1>1. /\ KeysOf(inserted[l])' = KeysOf(inserted[l])
      /\ KeysOf(table \ deleted[l])' = KeysOf(table \ deleted[l])
      /\ KeysOf(Rows[bundle[l]])' = KeysOf(Rows[bundle[l]])
      /\ Unique(inserted[l])' <=> Unique(inserted[l])
  BY DEF KeysOf, Unique
<1>2. Covered(l)' <=> Covered(l)
  BY <1>1 DEF Covered
<1> QED BY <1>1, <1>2 DEF KeyedLoad

LEMMA PairRests ==
  ASSUME NEW l \in Loader, NEW m \in Loader, Disjoint(l, m),
         \A n \in {l, m} : deleted'[n] = deleted[n] /\ inserted'[n] = inserted[n]
  PROVE  Disjoint(l, m)'
BY DEF Disjoint, KeysOf

LEMMA TableRests ==
  ASSUME KeyedInv, keyed = "yes", UNCHANGED <<keyed, table, loaded>>
  PROVE  /\ Unique(table)'
         /\ (loaded = {} => table = {})'
         /\ (\A b \in Bundle : loaded = {b} => IsWhole(b, table))'
<1>1. Unique(table)' <=> Unique(table)
  BY DEF Unique
<1>2. ASSUME NEW b \in Bundle PROVE IsWhole(b, table)' <=> IsWhole(b, table)
  <2>1. KeysOf(table)' = KeysOf(table) /\ KeysOf(Rows[b])' = KeysOf(Rows[b])
    BY DEF KeysOf
  <2> QED BY <1>1, <2>1 DEF IsWhole
<1>3. \A b \in Bundle : loaded = {b} => IsWhole(b, table)
  BY DEF KeyedInv
<1>4. Unique(table) /\ (loaded = {} => table = {})
  BY DEF KeyedInv
<1> QED BY <1>1, <1>2, <1>3, <1>4

(* Only a commit, and a load's own statements, disturb what is known of it. *)
LEMMA KeyedQuiet ==
  ASSUME KeyedInv, keyed' = "yes",
         UNCHANGED <<keyed, table, loaded, deleted, inserted, bundle>>,
         \A m \in Loader : pc'[m] = pc[m] \/ (pc[m] \notin {"insert", "commit"} /\ pc'[m] # "commit")
  PROVE  KeyedInv'
<1>1. /\ Unique(table)'
      /\ \A l, m \in Loader : l # m => Disjoint(l, m)'
      /\ (loaded = {} => table = {})'
      /\ (\A b \in Bundle : loaded = {b} => IsWhole(b, table))'
  BY DEF KeyedInv, Unique, Disjoint, KeysOf, IsWhole
<1>2. ASSUME NEW l \in Loader PROVE KeyedLoad(l)'
  BY <1>2 DEF KeyedInv, KeyedLoad, Covered, Unique, KeysOf
<1> QED BY <1>1, <1>2 DEF KeyedInv

LEMMA KeyedBegin ==
  ASSUME TypeOK, KeyedInv, keyed = "yes", NEW x \in Loader, NEW b \in Bundle, Begin(x, b)
  PROVE  KeyedInv'
<1>1. /\ UNCHANGED <<keyed, table, loaded, deleted, inserted>>
      /\ pc[x] # "commit" /\ pc'[x] = "delete" /\ pc[x] \notin {"insert", "commit"}
      /\ \A m \in Loader \ {x} : pc'[m] = pc[m] /\ bundle'[m] = bundle[m]
  BY DEF Begin, InTx, Open, TypeOK, txVars, history
<1>2. ASSUME NEW l \in Loader PROVE KeyedLoad(l)'
  <2>1. CASE l = x
    BY <1>1, <2>1 DEF KeyedInv, KeyedLoad, Covered, Unique, KeysOf
  <2>2. CASE l # x
    BY <1>1, <2>2, LoadRests DEF KeyedInv
  <2> QED BY <2>1, <2>2
<1>3. ASSUME NEW l \in Loader, NEW m \in Loader, l # m PROVE Disjoint(l, m)'
  BY <1>1, <1>3, PairRests DEF KeyedInv
<1> QED BY <1>1, <1>2, <1>3, TableRests DEF KeyedInv

LEMMA KeyedDeleteEnds ==
  ASSUME TypeOK, KeyedInv, keyed = "yes", NEW x \in Loader, DeleteEnds(x)
  PROVE  KeyedInv'
<1>1. /\ UNCHANGED <<keyed, table, loaded, inserted, bundle>>
      /\ deleted'[x] = seen[x] \cap table
      /\ pc[x] = "deleting" /\ pc'[x] = "insert"
      /\ inserted[x] = {}
      /\ \A m \in Loader \ {x} : deleted'[m] = deleted[m] /\ pc'[m] = pc[m]
  <2>1. inserted[x] = {}
    BY DEF DeleteEnds, KeyedInv, KeyedLoad
  <2> QED BY <2>1 DEF DeleteEnds, TypeOK, history
<1>2. ASSUME NEW m \in Loader \ {x} PROVE deleted[m] \cap seen[x] = {}
  BY <1>2 DEF DeleteEnds, Others, InTx, Open, KeyedInv, KeyedLoad
<1>3. ASSUME NEW l \in Loader PROVE KeyedLoad(l)'
  <2>1. CASE l = x
    BY <1>1, <2>1 DEF KeyedLoad, Covered, Unique, KeysOf
  <2>2. CASE l # x
    BY <1>1, <2>2, LoadRests DEF KeyedInv
  <2> QED BY <2>1, <2>2
<1>4. ASSUME NEW l \in Loader, NEW m \in Loader, l # m PROVE Disjoint(l, m)'
  <2>1. CASE l = x
    BY <1>1, <1>2, <1>4, <2>1 DEF Disjoint, KeyedInv, KeysOf
  <2>2. CASE m = x
    <3>1. KeysOf(inserted[l]) \cap KeysOf(table \ deleted[l]) = {}
      BY DEF KeyedInv, KeyedLoad
    <3>2. deleted'[x] \subseteq table \ deleted[l]
      BY <1>1, <1>2, <1>4, <2>2
    <3> QED BY <1>1, <1>2, <1>4, <2>2, <3>1, <3>2 DEF Disjoint, KeysOf
  <2>3. CASE l # x /\ m # x
    BY <1>1, <1>4, <2>3, PairRests DEF KeyedInv
  <2> QED BY <2>1, <2>2, <2>3
<1> QED BY <1>1, <1>3, <1>4, TableRests DEF KeyedInv

LEMMA KeyedInsert ==
  ASSUME TypeOK, KeyedInv, keyed = "yes", NEW x \in Loader, Insert(x)
  PROVE  KeyedInv'
<1> DEFINE b == bundle[x]
<1>0. b \in Bundle /\ keyed' = "yes"
  BY DEF TypeOK, Insert
<1>1. PICK new \in SUBSET {r \in Rows[b] : r.key \notin Taken(x)} :
        /\ ~MustWait(x)
        /\ Unique(new)
        /\ KeysOf(new) = KeysOf(Rows[b]) \ Taken(x)
        /\ inserted' = [inserted EXCEPT ![x] = AsRows(x, b, new)]
  BY DEF Insert, InsertKeyed
<1> DEFINE out == AsRows(x, b, new)
<1>2. /\ {[key |-> r.key, copy |-> r.copy] : r \in out} = new
      /\ KeysOf(out) = KeysOf(new)
      /\ Unique(out)
  BY <1>0, <1>1, AsRowsFaithful
<1>3. /\ UNCHANGED <<table, loaded, deleted, bundle>>
      /\ pc[x] = "insert" /\ pc'[x] = "commit"
      /\ inserted'[x] = out
      /\ \A m \in Loader \ {x} : inserted'[m] = inserted[m] /\ pc'[m] = pc[m]
  BY <1>1 DEF Insert, TypeOK, history
<1>4. new \subseteq Rows[b] /\ KeysOf(new) \cap KeysOf(table \ deleted[x]) = {}
  BY <1>1 DEF Taken, KeysOf
<1> HIDE DEF out
<1>5. ASSUME NEW l \in Loader PROVE KeyedLoad(l)'
  <2>1. CASE l = x
    <3>1. /\ deleted[x] \subseteq table
          /\ KeysOf(Rows[b]) \subseteq KeysOf(out) \cup KeysOf(table \ deleted[x])
      BY <1>1, <1>2 DEF KeyedInv, KeyedLoad, Taken
    <3>2. /\ Unique(inserted[x])'
          /\ KeysOf(out) \cap KeysOf(table \ deleted[x]) = {}
          /\ {[key |-> r.key, copy |-> r.copy] : r \in out} \subseteq Rows[b]
      BY <1>2, <1>3, <1>4 DEF Unique
    <3> QED BY <1>3, <2>1, <3>1, <3>2 DEF KeyedLoad, Covered, KeysOf
  <2>2. CASE l # x
    BY <1>3, <2>2, LoadRests DEF KeyedInv
  <2> QED BY <2>1, <2>2
<1>6. ASSUME NEW m \in Loader \ {x}
      PROVE  KeysOf(deleted[m] \cup inserted[m]) \cap KeysOf(Rows[b]) = {}
  BY <1>1, <1>6, SMTT(30) DEF MustWait, Others, InTx, Open, KeyedInv, KeyedLoad, KeysOf
<1>7. KeysOf(out) \subseteq KeysOf(Rows[b])
  BY <1>1, <1>2
<1>8. ASSUME NEW l \in Loader, NEW m \in Loader, l # m PROVE Disjoint(l, m)'
  <2>1. CASE l = x
    BY <1>3, <1>6, <1>7, <1>8, <2>1 DEF Disjoint, KeyedInv, KeysOf
  <2>2. CASE m = x
    BY <1>3, <1>6, <1>7, <1>8, <2>2 DEF Disjoint, KeyedInv, KeysOf
  <2>3. CASE l # x /\ m # x
    BY <1>3, <1>8, <2>3, PairRests DEF KeyedInv
  <2> QED BY <2>1, <2>2, <2>3
<1> QED BY <1>0, <1>3, <1>5, <1>8, TableRests DEF KeyedInv

LEMMA KeyedAbort ==
  ASSUME TypeOK, KeyedInv, keyed = "yes", NEW x \in Loader, Abort(x)
  PROVE  KeyedInv'
<1>1. /\ UNCHANGED <<keyed, table, loaded, bundle>>
      /\ pc'[x] = "failed" /\ deleted'[x] = {} /\ inserted'[x] = {}
      /\ \A m \in Loader \ {x} :
           deleted'[m] = deleted[m] /\ inserted'[m] = inserted[m] /\ pc'[m] = pc[m]
  BY DEF Abort, EndTx, TypeOK, history
<1>2. ASSUME NEW l \in Loader PROVE KeyedLoad(l)'
  <2>1. CASE l = x
    BY <1>1, <2>1 DEF KeyedLoad, Covered, Unique, KeysOf
  <2>2. CASE l # x
    BY <1>1, <2>2, LoadRests DEF KeyedInv
  <2> QED BY <2>1, <2>2
<1>3. ASSUME NEW l \in Loader, NEW m \in Loader, l # m PROVE Disjoint(l, m)'
  BY <1>1, <1>3 DEF KeyedInv, Disjoint, KeysOf
<1> QED BY <1>1, <1>2, <1>3, TableRests DEF KeyedInv

(* A commit that follows only commits of the same input leaves that input. *)
LEMMA KeyedCommit ==
  ASSUME TypeOK, KeyedInv, keyed = "yes", NEW x \in Loader, Commit(x)
  PROVE  KeyedInv'
<1> DEFINE kept == table \ deleted[x]
           new  == inserted[x]
           b    == bundle[x]
<1>0. b \in Bundle /\ keyed' = "yes"
  BY DEF TypeOK, Commit
<1>1. /\ table' = kept \cup new
      /\ loaded' = loaded \cup {b}
      /\ UNCHANGED bundle
      /\ pc[x] = "commit" /\ pc'[x] = "ok" /\ deleted'[x] = {} /\ inserted'[x] = {}
      /\ \A m \in Loader \ {x} :
           deleted'[m] = deleted[m] /\ inserted'[m] = inserted[m] /\ pc'[m] = pc[m]
  BY DEF Commit, TypeOK
<1>2. /\ Unique(table) /\ Unique(new)
      /\ KeysOf(new) \cap KeysOf(kept) = {}
      /\ {[key |-> r.key, copy |-> r.copy] : r \in new} \subseteq Rows[b]
      /\ loaded \subseteq {b} => KeysOf(Rows[b]) \subseteq KeysOf(new) \cup KeysOf(kept)
  BY <1>1 DEF KeyedInv, KeyedLoad, Covered
<1>3. Unique(table)'
  BY <1>1, <1>2 DEF Unique, KeysOf
<1>4. ASSUME NEW l \in Loader PROVE KeyedLoad(l)'
  <2>1. CASE l = x
    BY <1>1, <2>1 DEF KeyedLoad, Covered, Unique, KeysOf
  <2>2. CASE l # x
    <3>1. /\ KeyedLoad(l) /\ Disjoint(l, x) /\ Disjoint(x, l)
          /\ deleted'[l] = deleted[l] /\ inserted'[l] = inserted[l] /\ pc'[l] = pc[l]
      BY <1>1, <2>2 DEF KeyedInv
    <3>2. deleted[l] \subseteq kept
      BY <3>1 DEF KeyedLoad, Disjoint
    <3>3. KeysOf(inserted[l]) \cap KeysOf(table' \ deleted[l]) = {}
      BY <1>1, <3>1 DEF KeyedLoad, Disjoint, KeysOf
    <3>4. ASSUME pc[l] = "commit", loaded' \subseteq {bundle[l]},
                 NEW k \in KeysOf(Rows[bundle[l]]), k \notin KeysOf(inserted[l])
          PROVE  k \in KeysOf(table' \ deleted[l])
      <4>1. b = bundle[l] /\ loaded \subseteq {b}
        BY <1>1, <3>4
      <4>2. PICK r \in table \ deleted[l] : r.key = k
        BY <3>1, <3>4, <4>1 DEF KeyedLoad, Covered, KeysOf
      <4>3. CASE r \notin deleted[x]
        BY <1>1, <4>2, <4>3 DEF KeysOf
      <4>4. CASE r \in deleted[x]
        <5>1. k \notin KeysOf(kept)
          BY <1>2, <4>2, <4>4 DEF Unique, KeysOf
        <5>2. PICK s \in new : s.key = k
          BY <1>2, <3>4, <4>1, <5>1 DEF KeysOf
        <5>3. s \notin deleted[l]
          BY <3>2, <5>1, <5>2 DEF KeysOf
        <5> QED BY <1>1, <5>2, <5>3 DEF KeysOf
      <4> QED BY <4>3, <4>4
    <3> QED BY <1>1, <3>1, <3>2, <3>3, <3>4 DEF KeyedLoad, Covered, Unique, KeysOf
  <2> QED BY <2>1, <2>2
<1>5. ASSUME NEW l \in Loader, NEW m \in Loader, l # m PROVE Disjoint(l, m)'
  BY <1>1, <1>5 DEF KeyedInv, Disjoint, KeysOf
<1>6. ASSUME NEW c \in Bundle, loaded' = {c} PROVE IsWhole(c, table)'
  <2>1. c = b /\ loaded \subseteq {b}
    BY <1>1, <1>6
  <2>2. /\ {[key |-> r.key, copy |-> r.copy] : r \in table} \subseteq Rows[b]
        /\ KeysOf(table) \subseteq KeysOf(Rows[b])
    <3>1. CASE loaded = {}
      BY <3>1 DEF KeyedInv, KeysOf
    <3>2. CASE loaded = {b}
      BY <1>0, <3>2 DEF KeyedInv, IsWhole
    <3> QED BY <2>1, <3>1, <3>2
  <2> HIDE DEF new, kept, b
  <2>3. ASSUME NEW r \in table' PROVE [key |-> r.key, copy |-> r.copy] \in Rows[b]
    BY <1>1, <1>2, <2>2 DEF kept
  <2>4. KeysOf(new) \subseteq KeysOf(Rows[b])
    <3>1. ASSUME NEW r \in new PROVE r.key \in KeysOf(Rows[b])
      <4>1. [key |-> r.key, copy |-> r.copy] \in Rows[b]
        BY <1>2
      <4> QED BY <4>1 DEF KeysOf
    <3> QED BY <3>1 DEF KeysOf
  <2>5. KeysOf(table') = KeysOf(Rows[b])
    <3>1. KeysOf(table') = KeysOf(kept) \cup KeysOf(new)
      BY <1>1 DEF KeysOf
    <3>2. KeysOf(kept) \subseteq KeysOf(table)
      BY DEF KeysOf, kept
    <3> QED BY <1>2, <2>1, <2>2, <2>4, <3>1, <3>2
  <2> QED BY <1>0, <1>3, <2>1, <2>3, <2>5 DEF IsWhole, Unique, KeysOf
<1>7. loaded' # {}
  BY <1>1
<1> QED BY <1>3, <1>4, <1>5, <1>6, <1>7 DEF KeyedInv

LEMMA KeyedStep == TypeOK /\ KeyedInv /\ [Next]_vars => KeyedInv'
<1> SUFFICES ASSUME TypeOK, KeyedInv, [Next]_vars, keyed' = "yes"
             PROVE  KeyedInv'
  BY DEF KeyedInv
<1>0. keyed = "yes"
  BY DEF Next, Step, Begin, DeleteBegins, DeleteEnds, Insert, Commit, Abort, vars
<1>1. ASSUME NEW l \in Loader, NEW b \in Bundle, Begin(l, b) PROVE KeyedInv'
  BY <1>0, <1>1, KeyedBegin
<1>2. ASSUME NEW l \in Loader, DeleteBegins(l) PROVE KeyedInv'
  BY <1>0, <1>2, KeyedQuiet DEF DeleteBegins, TypeOK, history
<1>3. CASE UNCHANGED vars
  BY <1>0, <1>3, KeyedQuiet DEF vars, txVars, history
<1> QED
  BY <1>0, <1>1, <1>2, <1>3, KeyedDeleteEnds, KeyedInsert, KeyedCommit, KeyedAbort
  DEF Next, Step

(* With the key, loading an input again and again, by any number of loads  *)
(* at once, leaves what one load of it leaves.                             *)
THEOREM KeyedReloads == Spec => [](KeyedInv /\ KeyedReloadIdempotent)
<1>1. KeyedInv => KeyedReloadIdempotent
  BY DEF KeyedInv, KeyedReloadIdempotent
<1>2. IInv => TypeOK
  BY DEF IInv
<1> QED BY <1>1, <1>2, KeyedInit, KeyedStep, ReplaceInvariant, PTL DEF Spec

--------------------------------------------------------------------------------
(* The places: the backfill beside the loads. *)

LEMMA PlaceStepIsLoadStep == [PlaceNext]_placeVars => [Next]_vars
BY DEF PlaceNext, LoadCommits, LoadSteps, placeVars, Next, Step

(* The backfill adds nothing to what the loads do: all that holds of them  *)
(* holds beside it.                                                        *)
THEOREM PlacesImplementLoads == PlaceSpec => Spec
<1>1. PlaceInit => Init
  BY DEF PlaceInit
<1> QED BY <1>1, PlaceStepIsLoadStep, PTL DEF PlaceSpec, Spec

LEMMA OwnInit == PlaceInit => OwnInitials
BY DEF PlaceInit, OwnInitials, PlaceTypeOK, Nothing

LEMMA OwnFill ==
  ASSUME OwnInitials, NEW f \in Backfill, Fill(f), UNCHANGED vars
  PROVE  OwnInitials'
<1> USE DEF OwnInitials, PlaceTypeOK
<1>0. table' = table
  BY DEF vars
<1>1. CASE FillStarts(f) \/ FillEnds(f)
  BY <1>0, <1>1 DEF FillStarts, FillEnds
<1>2. CASE FillSelects(f)
  <2>1. PICK rows \in SUBSET Unfilled :
          batch' = [batch EXCEPT ![f] = [r \in rows |-> Choseong(Name(r))]]
    BY <1>2 DEF FillSelects
  <2>2. UNCHANGED <<choseong, gone, complete>> /\ fill' = [fill EXCEPT ![f] = "update"]
    BY <1>2 DEF FillSelects
  <2>3. rows \subseteq table
    BY DEF Unfilled
  <2> QED BY <1>0, <2>1, <2>2, <2>3
<1>3. CASE FillUpdates(f)
  <2>1. /\ choseong' = Override(choseong, Without(batch[f], gone[f]))
        /\ batch' = [batch EXCEPT ![f] = Nothing]
        /\ gone' = [gone EXCEPT ![f] = {}]
        /\ fill' = [fill EXCEPT ![f] = "select"]
        /\ complete' = complete
    BY <1>3 DEF FillUpdates
  <2>2. ASSUME NEW r \in DOMAIN choseong'
        PROVE  r \in table /\ choseong'[r] = Choseong(Name(r))
    BY <2>1, <2>2 DEF Override, Without
  <2> QED BY <1>0, <2>1, <2>2 DEF Nothing
<1>4. CASE FillFails(f)
  BY <1>0, <1>4 DEF FillFails, Nothing
<1> QED BY <1>1, <1>2, <1>3, <1>4 DEF Fill

LEMMA OwnCommit ==
  ASSUME OwnInitials, NEW l \in Loader, LoadCommits(l)
  PROVE  OwnInitials'
<1> DEFINE old == deleted[l] \cup inserted[l]
<1>1. /\ table' = (table \ deleted[l]) \cup inserted[l]
      /\ choseong' = Without(choseong, old)
      /\ gone' = [f \in Backfill |-> gone[f] \cup (DOMAIN batch[f] \cap old)]
      /\ complete' = "no"
      /\ UNCHANGED <<fill, batch>>
  BY DEF LoadCommits, Commit
<1> HIDE DEF old
<1>2. ASSUME NEW r \in DOMAIN choseong'
      PROVE  r \in table' /\ choseong'[r] = Choseong(Name(r))
  BY <1>1, <1>2 DEF Without, OwnInitials, old
<1>3. ASSUME NEW f \in Backfill, NEW r \in DOMAIN batch'[f]
      PROVE  batch'[f][r] = Choseong(Name(r)) /\ (r \in gone'[f] \/ r \in table')
  BY <1>1 DEF OwnInitials, old
<1> QED BY <1>1, <1>2, <1>3 DEF OwnInitials, PlaceTypeOK

LEMMA OwnStep == OwnInitials /\ [PlaceNext]_placeVars => OwnInitials'
<1> SUFFICES ASSUME OwnInitials, [PlaceNext]_placeVars PROVE OwnInitials'
  OBVIOUS
<1>1. ASSUME NEW l \in Loader, LoadSteps(l) PROVE OwnInitials'
  <2>1. table' = table /\ UNCHANGED fillVars
    BY <1>1 DEF LoadSteps, Begin, DeleteBegins, DeleteEnds, Insert, Abort
  <2> QED BY <2>1 DEF OwnInitials, PlaceTypeOK, fillVars
<1>2. CASE UNCHANGED placeVars
  BY <1>2 DEF OwnInitials, PlaceTypeOK, placeVars, vars, fillVars
<1> QED BY <1>1, <1>2, OwnCommit, OwnFill DEF PlaceNext

(* Whatever loads replace the rows between a backfill's SELECT and its     *)
(* UPDATE, no row ever gets the initials of another's name.                *)
THEOREM InitialsAreOwn == PlaceSpec => []OwnInitials
BY OwnInit, OwnStep, PTL DEF PlaceSpec

--------------------------------------------------------------------------------
(* The search. *)


(* A sequence that SetToSeqs makes of a set is as long as the set is large *)
(* and leaves out no element.                                              *)
LEMMA Listed ==
  ASSUME NEW S, IsFiniteSet(S), NEW t \in SetToSeqs(S)
  PROVE  /\ Cardinality(S) \in Nat /\ t \in [1..Cardinality(S) -> S]
         /\ t \in Seq(S) /\ Len(t) = Cardinality(S) /\ DOMAIN t = 1..Cardinality(S)
         /\ ToSet(t) = S
<1> DEFINE n == Cardinality(S)
<1>1. n \in Nat
  BY FS_CardinalityType
<1>2. t \in [1..n -> S] /\ \A i, j \in 1..n : i # j => t[i] # t[j]
  BY DEF SetToSeqs
<1> HIDE DEF n
<1>3. t \in Injection(1..n, S)
  BY <1>2 DEF Injection, IsInjective
<1>4. Cardinality(1..n) = n
  BY <1>1, FS_Interval
<1>5. t \in Surjection(1..n, S)
  BY <1>3, <1>4, FS_Injection DEF n
<1>6. ToSet(t) = S
  BY <1>2, <1>5 DEF Surjection, ToSet
<1>7. t \in Seq(S) /\ Len(t) = n /\ DOMAIN t = 1..n
  BY <1>1, <1>2
<1> QED BY <1>1, <1>2, <1>6, <1>7 DEF n

(* An answer that is not full is all there is; it begins as the whole does. *)
LEMMA CutShort ==
  ASSUME NEW S, IsFiniteSet(S), NEW t \in SetToSeqs(S), NEW limit \in Nat \ {0},
         NEW a, a = SubSeq(t, 1, Smaller(limit, Len(t)))
  PROVE  /\ Len(a) < limit => Cardinality(S) < limit /\ ToSet(a) = S
         /\ S # {} => a[1] = t[1] /\ 1 \in DOMAIN t
<1> DEFINE n == Cardinality(S)
           k == Smaller(limit, n)
<1>1. n \in Nat /\ t \in Seq(S) /\ Len(t) = n /\ DOMAIN t = 1..n /\ ToSet(t) = S
  BY Listed
<1>2. \A i \in 1..n : t[i] \in S
  BY <1>1, ElementOfSeq
<1>3. k \in Nat /\ k <= n /\ k <= limit /\ (n < limit => k = n) /\ (k < limit => k = n)
  BY <1>1 DEF Smaller
<1>4. a \in Seq(S) /\ Len(a) = k /\ \A i \in 1..k : a[i] = t[i]
  <2>1. a = SubSeq(t, 1, k)
    BY <1>1
  <2> HIDE DEF n, k
  <2>2. 1 \in Int /\ k \in Int /\ \A i \in 1..k : t[i] \in S
    BY <1>1, <1>2, <1>3
  <2> DEFINE s == SubSeq(t, 1, k)
  <2>3. /\ s \in Seq(S) /\ Len(s) = IF 1 <= k THEN k - 1 + 1 ELSE 0
        /\ \A i \in 1..(k - 1 + 1) : s[i] = t[1 + i - 1]
    BY <2>2, SubSeqProperties
  <2> HIDE DEF s
  <2>4. Len(s) = k /\ \A i \in 1..k : s[i] = t[i]
    BY <1>3, <2>3
  <2> QED BY <2>1, <2>3, <2>4 DEF s
<1> HIDE DEF k
<1>5. ASSUME Len(a) < limit
      PROVE  n < limit /\ a = t
  <2>1. k = n /\ n < limit
    BY <1>3, <1>4, <1>5
  <2> QED BY <1>1, <1>4, <2>1, SeqEqual
<1>6. ASSUME S # {}
      PROVE  a[1] = t[1] /\ 1 \in DOMAIN t
  <2>1. n # 0
    BY <1>6, FS_EmptySet
  <2>2. 1 \in 1..n /\ 1 \in 1..k
    <3> HIDE DEF n
    <3> QED BY <1>1, <1>3, <2>1 DEF k, Smaller
  <2> QED BY <1>1, <1>4, <2>2
<1> QED BY <1>1, <1>5, <1>6

(* LIMIT leaves something of what there is, and everything if it is not    *)
(* reached.                                                                *)
LEMMA UpToLimit ==
  ASSUME NEW R, IsFiniteSet(R), NEW limit \in Nat \ {0}, NEW h \in AnyOf(R, limit)
  PROVE  /\ h \subseteq R /\ IsFiniteSet(h)
         /\ R # {} => h # {}
         /\ Cardinality(h) < limit => h = R
<1>1. h \subseteq R /\ Cardinality(h) = Smaller(limit, Cardinality(R))
  BY DEF AnyOf
<1>2. IsFiniteSet(h) /\ Cardinality(h) \in Nat /\ Cardinality(R) \in Nat
  BY <1>1, FS_Subset, FS_CardinalityType
<1>3. ASSUME R # {}
      PROVE  h # {}
  <2>1. Cardinality(R) # 0 /\ Cardinality({}) = 0
    BY <1>3, FS_EmptySet
  <2> QED BY <1>1, <1>2, <2>1 DEF Smaller
<1>4. ASSUME Cardinality(h) < limit
      PROVE  h = R
  <2>1. Cardinality(h) = Cardinality(R)
    BY <1>1, <1>2, <1>4 DEF Smaller
  <2> QED BY <1>1, <2>1, FS_Subset
<1> QED BY <1>1, <1>2, <1>3, <1>4

(* A text is found in itself. *)
LEMMA HasItself ==
  ASSUME NEW S, NEW q \in Seq(S)
  PROVE  Has(q, q)
<1>1. SubSeq(q, 1, Len(q)) = q
  <2> DEFINE n == Len(q)
             s == SubSeq(q, 1, n)
  <2>1. n \in Nat /\ \A i \in 1..n : q[i] \in S
    BY ElementOfSeq
  <2> HIDE DEF n
  <2>2. s \in Seq(S) /\ Len(s) = (IF 1 <= n THEN n - 1 + 1 ELSE 0)
        /\ \A i \in 1..(n - 1 + 1) : s[i] = q[1 + i - 1]
    BY <2>1, SubSeqProperties
  <2> HIDE DEF s
  <2>3. Len(s) = n /\ \A i \in 1..n : s[i] = q[i]
    BY <2>1, <2>2
  <2> QED BY <2>2, <2>3, SeqEqual DEF n, s
<1>2. 0 \in 0..(Len(q) - Len(q)) /\ SubSeq(q, 0 + 1, 0 + Len(q)) = q
  <2>1. Len(q) \in Nat
    OBVIOUS
  <2> QED BY <1>1, <2>1
<1> QED BY <1>2 DEF Has

(* Search by name: what an answer that is not full leaves out does not     *)
(* match, and an exact match comes first.                                  *)
LEMMA NamesFound ==
  ASSUME NEW wanted, IsFiniteSet(wanted), \A r \in wanted : Name(r) \in Seq(Char),
         NEW q, NEW limit \in Nat \ {0}, NEW answer \in ByName(q, wanted, limit)
  PROVE  /\ Len(answer) < limit => {r \in wanted : Has(Name(r), q)} \subseteq ToSet(answer)
         /\ (\E r \in wanted : Name(r) = q) => Name(answer[1]) = q
<1> DEFINE Of(n) == {r \in wanted : Has(Name(r), q) /\ Tier(Name(r), q) = n}
<1>1. PICK h \in AnyOf(Of(0), limit) \X AnyOf(Of(1), limit) \X AnyOf(Of(2), limit) :
        \E t \in SetToSeqs(h[1] \cup h[2] \cup h[3]) :
          /\ \A i, j \in DOMAIN t : i < j =>
               \/ Tier(Name(t[i]), q) < Tier(Name(t[j]), q)
               \/ /\ Tier(Name(t[i]), q) = Tier(Name(t[j]), q)
                  /\ NameLength(t[i]) <= NameLength(t[j])
          /\ answer = SubSeq(t, 1, Smaller(limit, Len(t)))
  BY DEF ByName, Ranked
<1> DEFINE S == h[1] \cup h[2] \cup h[3]
<1>2. PICK t \in SetToSeqs(S) :
        /\ \A i, j \in DOMAIN t : i < j => Tier(Name(t[i]), q) <= Tier(Name(t[j]), q)
        /\ answer = SubSeq(t, 1, Smaller(limit, Len(t)))
  <2>1. \A r : Tier(Name(r), q) \in {0, 1, 2}
    BY DEF Tier
  <2>2. PICK t \in SetToSeqs(S) :
          /\ \A i, j \in DOMAIN t : i < j =>
               \/ Tier(Name(t[i]), q) < Tier(Name(t[j]), q)
               \/ /\ Tier(Name(t[i]), q) = Tier(Name(t[j]), q)
                  /\ NameLength(t[i]) <= NameLength(t[j])
          /\ answer = SubSeq(t, 1, Smaller(limit, Len(t)))
    BY <1>1
  <2> HIDE DEF S
  <2>3. ASSUME NEW i \in DOMAIN t, NEW j \in DOMAIN t, i < j
        PROVE  Tier(Name(t[i]), q) <= Tier(Name(t[j]), q)
    <3>1. Tier(Name(t[i]), q) \in {0, 1, 2} /\ Tier(Name(t[j]), q) \in {0, 1, 2}
      BY <2>1
    <3>2. Tier(Name(t[i]), q) < Tier(Name(t[j]), q) \/ Tier(Name(t[i]), q) = Tier(Name(t[j]), q)
      BY <2>2, <2>3
    <3> QED BY <3>1, <3>2
  <2> QED BY <2>2, <2>3
<1>3. /\ h[1] \in AnyOf(Of(0), limit) /\ h[2] \in AnyOf(Of(1), limit)
      /\ h[3] \in AnyOf(Of(2), limit)
  BY <1>1
<1>4. IsFiniteSet(Of(0)) /\ IsFiniteSet(Of(1)) /\ IsFiniteSet(Of(2))
  BY FS_Subset
<1> HIDE DEF Of
<1>5. /\ h[1] \subseteq Of(0) /\ IsFiniteSet(h[1]) /\ IsFiniteSet(h[2]) /\ IsFiniteSet(h[3])
      /\ Of(0) # {} => h[1] # {}
      /\ Cardinality(h[1]) < limit => h[1] = Of(0)
      /\ Cardinality(h[2]) < limit => h[2] = Of(1)
      /\ Cardinality(h[3]) < limit => h[3] = Of(2)
  BY <1>3, <1>4, UpToLimit
<1>6. IsFiniteSet(S)
  BY <1>5, FS_Union
<1>9. /\ Len(answer) < limit => Cardinality(S) < limit /\ ToSet(answer) = S
      /\ S # {} => answer[1] = t[1] /\ 1 \in DOMAIN t
  <2> HIDE DEF S
  <2>1. answer = SubSeq(t, 1, Smaller(limit, Len(t)))
    BY <1>2
  <2>2. t \in SetToSeqs(S)
    OBVIOUS
  <2>3. limit \in Nat \ {0}
    OBVIOUS
  <2>4. \A a : a = SubSeq(t, 1, Smaller(limit, Len(t))) =>
          /\ Len(a) < limit => Cardinality(S) < limit /\ ToSet(a) = S
          /\ S # {} => a[1] = t[1] /\ 1 \in DOMAIN t
    BY <1>6, <2>2, <2>3, CutShort
  <2> QED BY <2>1, <2>4
<1>7. ASSUME Len(answer) < limit
      PROVE  {r \in wanted : Has(Name(r), q)} \subseteq ToSet(answer)
  <2>1. Cardinality(S) < limit /\ ToSet(answer) = S
    BY <1>7, <1>9
  <2>2. Cardinality(S) \in Nat /\ Cardinality(h[1]) \in Nat /\ Cardinality(h[2]) \in Nat
        /\ Cardinality(h[3]) \in Nat
    BY <1>5, <1>6, FS_CardinalityType
  <2>3. /\ Cardinality(h[1]) <= Cardinality(S) /\ Cardinality(h[2]) <= Cardinality(S)
        /\ Cardinality(h[3]) <= Cardinality(S)
    <3>1. h[1] \in SUBSET S /\ h[2] \in SUBSET S /\ h[3] \in SUBSET S
      OBVIOUS
    <3> HIDE DEF S
    <3> QED BY <1>6, <3>1, FS_Subset
  <2>4. S = Of(0) \cup Of(1) \cup Of(2)
    BY <1>5, <2>1, <2>2, <2>3
  <2>5. \A r \in wanted : Has(Name(r), q) => r \in Of(0) \cup Of(1) \cup Of(2)
    BY DEF Of, Tier
  <2> QED BY <2>1, <2>4, <2>5
<1>8. ASSUME NEW r \in wanted, Name(r) = q
      PROVE  Name(answer[1]) = q
  <2>1. r \in Of(0)
    <3>1. Has(Name(r), q)
      BY <1>8, HasItself
    <3>2. Tier(Name(r), q) = 0
      BY <1>8 DEF Tier
    <3> QED BY <3>1, <3>2 DEF Of
  <2>2. PICK s \in h[1] : Tier(Name(s), q) = 0
    BY <1>5, <2>1 DEF Of
  <2>3. S # {} /\ s \in S
    BY <2>2
  <2> HIDE DEF S
  <2>4. answer[1] = t[1] /\ 1 \in DOMAIN t
    BY <1>9, <2>3
  <2>5. /\ DOMAIN t = 1..Cardinality(S) /\ Cardinality(S) \in Nat
        /\ \E j \in DOMAIN t : t[j] = s
    BY <1>6, <2>3, Listed DEF ToSet
  <2>6. PICK j \in DOMAIN t : t[j] = s
    BY <2>5
  <2>7. Tier(Name(t[1]), q) = 0
    <3>1. CASE j = 1
      BY <2>2, <2>6, <3>1
    <3>2. CASE j # 1
      <4>1. 1 < j
        BY <2>5, <3>2
      <4>2. Tier(Name(t[1]), q) <= 0
        BY <1>2, <2>2, <2>4, <2>6, <4>1
      <4>3. Tier(Name(t[1]), q) \in {0, 1, 2}
        BY DEF Tier
      <4> QED BY <4>2, <4>3
    <3> QED BY <3>1, <3>2
  <2> QED BY <2>4, <2>7 DEF Tier
<1> QED BY <1>7, <1>8

LEMMA AsRowsLoaded ==
  ASSUME NEW l, NEW b \in Bundle, NEW new \in SUBSET Rows[b]
  PROVE  Loaded(AsRows(l, b, new))
<1>1. IsFiniteSet(new)
  BY ReplaceAssumption, FS_Subset
<1> DEFINE f == [r \in new |-> [by |-> l, key |-> r.key, bundle |-> b, copy |-> r.copy]]
           out == AsRows(l, b, new)
<1>2. f \in Surjection(new, out)
  BY DEF Surjection, AsRows
<1> HIDE DEF f, out
<1>3. IsFiniteSet(out)
  BY <1>1, <1>2, FS_Surjection
<1>4. \A r \in out : r.bundle = b /\ [key |-> r.key, copy |-> r.copy] \in Rows[b]
  BY RowsType DEF out, AsRows
<1> QED BY <1>3, <1>4 DEF out, Loaded

LEMMA FromInputsStep == TypeOK /\ FromInputs /\ [Next]_vars => FromInputs'
<1> SUFFICES ASSUME TypeOK, FromInputs, [Next]_vars
             PROVE  FromInputs'
  OBVIOUS
<1>1. ASSUME NEW l \in Loader, Insert(l) PROVE FromInputs'
  <2>1. PICK new \in SUBSET Rows[bundle[l]] :
          inserted' = [inserted EXCEPT ![l] = AsRows(l, bundle[l], new)]
    BY <1>1 DEF Insert, InsertKeyed, InsertUnkeyed
  <2>2. table' = table /\ bundle[l] \in Bundle
    BY <1>1 DEF Insert, TypeOK
  <2>3. Loaded(AsRows(l, bundle[l], new))
    BY <2>2, AsRowsLoaded
  <2>4. \A m \in Loader : inserted'[m] = IF m = l THEN AsRows(l, bundle[l], new) ELSE inserted[m]
    BY <2>1 DEF TypeOK
  <2> QED BY <2>2, <2>3, <2>4 DEF FromInputs
<1>2. ASSUME NEW l \in Loader, Commit(l) PROVE FromInputs'
  <2>1. table' = (table \ deleted[l]) \cup inserted[l] /\ inserted' = [inserted EXCEPT ![l] = {}]
    BY <1>2 DEF Commit
  <2>2. Loaded(table \ deleted[l]) /\ Loaded(inserted[l])
    BY FS_Subset DEF FromInputs, Loaded
  <2>3. Loaded(table')
    BY <2>1, <2>2, FS_Union DEF Loaded
  <2>4. \A m \in Loader : inserted'[m] = IF m = l THEN {} ELSE inserted[m]
    BY <2>1 DEF TypeOK
  <2> QED BY <2>3, <2>4, FS_EmptySet DEF FromInputs, Loaded
<1>3. ASSUME NEW l \in Loader, Abort(l) PROVE FromInputs'
  <2>1. table' = table /\ inserted' = [inserted EXCEPT ![l] = {}]
    BY <1>3 DEF Abort, EndTx
  <2>2. \A m \in Loader : inserted'[m] = IF m = l THEN {} ELSE inserted[m]
    BY <2>1 DEF TypeOK
  <2> QED BY <2>1, <2>2, FS_EmptySet DEF FromInputs, Loaded
<1>4. ASSUME NEW l \in Loader, DeleteBegins(l) \/ DeleteEnds(l) \/ \E b \in Bundle : Begin(l, b)
      PROVE  FromInputs'
  <2>1. table' = table /\ inserted' = inserted
    BY <1>4 DEF DeleteBegins, DeleteEnds, Begin, txVars
  <2> QED BY <2>1 DEF FromInputs
<1>5. CASE UNCHANGED vars
  BY <1>5 DEF vars, txVars, FromInputs
<1> QED BY <1>1, <1>2, <1>3, <1>4, <1>5 DEF Next, Step

LEMMA RowsFromInputs == Spec => []FromInputs
<1>1. Init => FromInputs
  BY FS_EmptySet DEF Init, FromInputs, Loaded
<1>2. IInv => TypeOK
  BY DEF IInv
<1> QED BY <1>1, <1>2, ReplaceInvariant, FromInputsStep, PTL DEF Spec

(* Until a load commits, a backfill that has ended has left no row out. *)
LEMMA Filled == PlaceSpec => []FilledInv
<1>1. PlaceInit => FilledInv
  BY DEF PlaceInit, FilledInv
<1>2. FilledInv /\ [PlaceNext]_placeVars => FilledInv'
  <2> SUFFICES ASSUME FilledInv, [PlaceNext]_placeVars
               PROVE  FilledInv'
    OBVIOUS
  <2> USE DEF FilledInv
  <2>1. ASSUME NEW l \in Loader, LoadCommits(l) PROVE FilledInv'
    BY <2>1 DEF LoadCommits
  <2>2. ASSUME NEW l \in Loader, LoadSteps(l) PROVE FilledInv'
    <3>1. table' = table /\ choseong' = choseong /\ complete' = complete
      BY <2>2 DEF LoadSteps, fillVars, Begin, DeleteBegins, DeleteEnds, Insert, Abort
    <3> QED BY <3>1
  <2>3. ASSUME NEW f \in Backfill, Fill(f), UNCHANGED vars PROVE FilledInv'
    <3>1. table' = table
      BY <2>3 DEF vars
    <3>2. CASE FillEnds(f)
      BY <3>1, <3>2 DEF FillEnds, Unfilled
    <3>3. CASE FillUpdates(f)
      BY <3>1, <3>3 DEF FillUpdates, Override
    <3>4. CASE FillStarts(f) \/ FillSelects(f) \/ FillFails(f)
      BY <3>1, <3>4 DEF FillStarts, FillSelects, FillFails
    <3> QED BY <2>3, <3>2, <3>3, <3>4 DEF Fill
  <2>4. CASE UNCHANGED placeVars
    BY <2>4 DEF placeVars, vars, fillVars
  <2> QED BY <2>1, <2>2, <2>3, <2>4 DEF PlaceNext
<1> QED BY <1>1, <1>2, PTL DEF PlaceSpec

(* A set of naturals that is not empty has a least one. *)
LEMMA Least ==
  ASSUME NEW T \in SUBSET Nat, T # {}
  PROVE \E x \in T : \A y \in T : x <= y
<1> DEFINE R == {ss \in Nat \X Nat : ss[1] < ss[2]}
<1>1. IsWellFoundedOn(R, Nat)
  BY NatLessThanWellFounded DEF OpToRel
<1>2. \E x \in T : \A y \in T : ~(<<y, x>> \in R)
  <2> HIDE DEF R
  <2> QED BY <1>1, WFMin
<1>3. PICK x \in T : \A y \in T : ~(<<y, x>> \in R)
  BY <1>2
<1>4. ASSUME NEW y \in T
      PROVE  x <= y
  <2>1. x \in Nat /\ y \in Nat /\ ~(<<y, x>> \in R)
    BY <1>3
  <2>2. ~(y < x)
    BY <2>1
  <2> QED BY <2>1, <2>2
<1> QED BY <1>4

(* A text without blanks stays as it is. *)
LEMMA NothingToDrop ==
  ASSUME NEW S, NEW q \in Seq(S), Blank \notin S
  PROVE  NoBlanks(q) = q
<1> DEFINE n == Len(q)
           Kept(f) == f = [i \in 0..n |-> IF i = 0 THEN << >>
                                          ELSE IF q[i] = Blank THEN f[i - 1]
                                          ELSE Append(f[i - 1], q[i])]
           kept == CHOOSE f : Kept(f)
           start == [i \in 0..n |-> SubSeq(q, 1, i)]
<1>1. n \in Nat /\ \A i \in 1..n : q[i] \in S /\ q[i] # Blank
  BY ElementOfSeq
<1>2. SubSeq(q, 1, 0) = << >> /\ SubSeq(q, 1, n) = q
  <2>1. SubSeq(q, 1, 0) = << >>
    BY SubSeqEmpty
  <2> DEFINE s == SubSeq(q, 1, n)
  <2>2. s \in Seq(S) /\ Len(s) = (IF 1 <= n THEN n - 1 + 1 ELSE 0)
        /\ \A i \in 1..(n - 1 + 1) : s[i] = q[1 + i - 1]
    <3> HIDE DEF n
    <3> QED BY <1>1, SubSeqProperties
  <2> HIDE DEF s
  <2>3. Len(s) = n /\ \A i \in 1..n : s[i] = q[i]
    <3> HIDE DEF n
    <3> QED BY <1>1, <2>2
  <2>4. s = q
    BY <2>2, <2>3, SeqEqual
  <2> QED BY <2>1, <2>4 DEF s
<1>3. ASSUME NEW i \in 1..n
      PROVE  SubSeq(q, 1, i) = Append(SubSeq(q, 1, i - 1), q[i])
  <2> DEFINE s == SubSeq(q, 1, i)
             t == SubSeq(q, 1, i - 1)
             u == Append(t, q[i])
  <2> HIDE DEF n
  <2>1. s \in Seq(S) /\ Len(s) = (IF 1 <= i THEN i - 1 + 1 ELSE 0)
        /\ \A j \in 1..(i - 1 + 1) : s[j] = q[1 + j - 1]
    BY <1>1, SubSeqProperties
  <2>2. t \in Seq(S) /\ Len(t) = (IF 1 <= i - 1 THEN (i - 1) - 1 + 1 ELSE 0)
        /\ \A j \in 1..((i - 1) - 1 + 1) : t[j] = q[1 + j - 1]
    <3> DEFINE k == i - 1
    <3>1. k \in Int /\ \A j \in 1..k : q[j] \in S
      BY <1>1
    <3> HIDE DEF k
    <3>2. SubSeq(q, 1, k) \in Seq(S) /\ Len(SubSeq(q, 1, k)) = (IF 1 <= k THEN k - 1 + 1 ELSE 0)
          /\ \A j \in 1..(k - 1 + 1) : SubSeq(q, 1, k)[j] = q[1 + j - 1]
      BY <3>1, SubSeqProperties
    <3> QED BY <3>2 DEF k
  <2>3. Len(s) = i /\ (\A j \in 1..i : s[j] = q[j])
    <3> HIDE DEF s
    <3> QED BY <1>1, <2>1
  <2>4. Len(t) = i - 1 /\ (\A j \in 1..(i - 1) : t[j] = q[j])
    <3> HIDE DEF t
    <3> QED BY <1>1, <2>2
  <2>5. u \in Seq(S) /\ Len(u) = Len(t) + 1 /\ u[Len(t) + 1] = q[i]
        /\ \A j \in 1..Len(t) : u[j] = t[j]
    <3> HIDE DEF t
    <3> QED BY <1>1, <2>2, AppendProperties
  <2> HIDE DEF s, t, u
  <2>6. Len(u) = i /\ \A j \in 1..i : u[j] = s[j]
    BY <1>1, <2>3, <2>4, <2>5
  <2>7. s = u
    BY <2>1, <2>3, <2>5, <2>6, SeqEqual
  <2> QED BY <2>7 DEF s, t, u
<1>4. Kept(start)
  <2> HIDE DEF n
  <2>1. ASSUME NEW i \in 0..n
        PROVE  start[i] = IF i = 0 THEN << >>
                          ELSE IF q[i] = Blank THEN start[i - 1] ELSE Append(start[i - 1], q[i])
    <3>1. CASE i = 0
      BY <1>1, <1>2, <3>1
    <3>2. CASE i # 0
      <4>1. i \in 1..n /\ i - 1 \in 0..n
        BY <1>1, <3>2
      <4>2. start[i] = SubSeq(q, 1, i) /\ start[i - 1] = SubSeq(q, 1, i - 1)
        BY <4>1
      <4>3. q[i] # Blank
        BY <1>1, <4>1
      <4> HIDE DEF start
      <4> QED BY <1>3, <3>2, <4>1, <4>2, <4>3
    <3> QED BY <3>1, <3>2
  <2>2. start = [i \in 0..n |-> start[i]]
    OBVIOUS
  <2> HIDE DEF start
  <2> QED BY <2>1, <2>2
<1>5. Kept(kept)
  <2> HIDE DEF Kept, start
  <2> QED BY <1>4
<1>6. kept[n] = start[n]
  <2> DEFINE T == {i \in 0..n : kept[i] # start[i]}
  <2> HIDE DEF n, kept, start
  <2>1. SUFFICES ASSUME T # {}
                 PROVE  FALSE
    BY <1>1
  <2>2. T \in SUBSET Nat
    BY <1>1
  <2>3. PICK i \in T : \A j \in T : i <= j
    <3> HIDE DEF T
    <3> QED BY <2>1, <2>2, Least
  <2>4. i \in 0..n /\ kept[i] # start[i] /\ (i # 0 => i - 1 \in 0..n /\ kept[i - 1] = start[i - 1])
    <3>1. i \in Nat /\ i \in 0..n /\ n \in Nat
      BY <1>1
    <3>2. i # 0 => i - 1 \in 0..n /\ i - 1 \notin T
      BY <2>3, <3>1
    <3> QED BY <3>1, <3>2
  <2>5. /\ kept[i] = IF i = 0 THEN << >>
                     ELSE IF q[i] = Blank THEN kept[i - 1] ELSE Append(kept[i - 1], q[i])
        /\ start[i] = IF i = 0 THEN << >>
                      ELSE IF q[i] = Blank THEN start[i - 1] ELSE Append(start[i - 1], q[i])
    BY <1>4, <1>5, <2>4
  <2> QED BY <2>4, <2>5
<1>7. NoBlanks(q) = kept[n]
  BY DEF NoBlanks
<1>8. n \in 0..n
  <2> HIDE DEF n
  <2> QED BY <1>1
<1>9. start[n] = q
  BY <1>2, <1>8
<1> HIDE DEF kept, n, start
<1> QED BY <1>6, <1>7, <1>9

LEMMA PartOfText ==
  ASSUME NEW S, NEW text \in Seq(S), NEW q \in PartsOf(text)
  PROVE  q \in Seq(S) /\ q # << >>
<1>1. PICK i \in DOMAIN text, j \in DOMAIN text : q = SubSeq(text, i, j)
  BY DEF PartsOf
<1>2. i \in Int /\ j \in Int /\ \A k \in i..j : text[k] \in S
  BY ElementOfSeq, SMTT(30)
<1>3. SubSeq(text, i, j) \in Seq(S)
  BY <1>2, SubSeqProperties
<1> QED BY <1>1, <1>3 DEF PartsOf

(* Search by initials: what an answer that is not full leaves out does not *)
(* match.                                                                  *)
LEMMA InitialsFound ==
  ASSUME NEW wanted, IsFiniteSet(wanted), NEW q, NEW limit \in Nat \ {0},
         NEW answer \in ByInitials(q, wanted, limit), Len(answer) < limit
  PROVE  {r \in wanted \cap DOMAIN choseong : Has(choseong[r], q)} \subseteq ToSet(answer)
<1> DEFINE S == {r \in wanted \cap DOMAIN choseong : Has(choseong[r], q)}
<1>1. PICK t \in SetToSeqs(S) : answer = SubSeq(t, 1, Smaller(limit, Len(t)))
  BY DEF ByInitials, Ranked
<1>2. IsFiniteSet(S)
  BY FS_Subset
<1> HIDE DEF S
<1>3. \A a : a = SubSeq(t, 1, Smaller(limit, Len(t))) =>
        (Len(a) < limit => Cardinality(S) < limit /\ ToSet(a) = S)
  <2>1. t \in SetToSeqs(S) /\ limit \in Nat \ {0}
    OBVIOUS
  <2> QED BY <1>2, <2>1, CutShort
<1>4. ToSet(answer) = S
  BY <1>1, <1>3
<1> QED BY <1>4 DEF S

(* The rows of a table have names. *)
LEMMA Named ==
  ASSUME FromInputs, NEW r \in table
  PROVE  Name(r) \in Seq(Char)
<1>1. r.bundle \in Bundle /\ [key |-> r.key, copy |-> r.copy] \in Rows[r.bundle]
  BY DEF FromInputs, Loaded
<1> DEFINE row == [key |-> r.key, copy |-> r.copy]
<1>2. row.key = r.key /\ row.copy = r.copy
  OBVIOUS
<1> HIDE DEF row
<1>3. NameOf[<<r.bundle, row.key, row.copy>>] \in Seq(Char)
  BY <1>1, PlaceAssumption DEF row
<1> QED BY <1>2, <1>3 DEF Name

(* Every part of a name that has a syllable finds, in whatever rows are    *)
(* wanted, all that contain it unless the answer is full, and first one    *)
(* that is named exactly so: however many others there are.                *)
THEOREM NamesAreFound == PlaceSpec => []FoundByName
<1>1. FromInputs => FoundByName
  <2> SUFFICES ASSUME FromInputs,
                      NEW r \in table, NEW q \in PartsOf(Name(r)), HasSyllable(q),
                      NEW wanted \in SUBSET table, NEW limit \in 1..MaxLimit,
                      NEW answer \in Search(q, wanted, limit)
               PROVE  /\ Len(answer) < limit =>
                           {s \in wanted : Has(Name(s), q)} \subseteq ToSet(answer)
                      /\ (\E s \in wanted : Name(s) = q) => Name(answer[1]) = q
    BY DEF FoundByName
  <2>1. IsFiniteSet(wanted)
    BY FS_Subset DEF FromInputs, Loaded
  <2>2. \A s \in table : Name(s) \in Seq(Char)
    BY Named
  <2>3. q \in Seq(Char)
    BY <2>2, PartOfText
  <2>4. Search(q, wanted, limit) = ByName(q, wanted, limit)
    <3>1. PICK i \in DOMAIN q : q[i] \in Syllable
      BY DEF HasSyllable
    <3>2. Syllable \subseteq Char /\ Syllable \cap (Initial \cup Digit \cup {Blank}) = {}
      BY PlaceAssumption DEF Char
    <3> QED BY <3>1, <3>2 DEF Search
  <2>5. limit \in Nat \ {0}
    <3>1. MaxLimit \in Nat
      BY PlaceAssumption
    <3> QED BY <3>1
  <2> QED BY <2>1, <2>2, <2>4, <2>5, NamesFound
<1> QED BY <1>1, RowsFromInputs, PlacesImplementLoads, PTL
(* From the end of a backfill until a load commits, every part of the      *)
(* initials of a name without blanks finds all the places of such names    *)
(* whose initials contain it, unless the answer is full.                   *)
THEOREM InitialsAreFound == PlaceSpec => []FoundByInitials
<1>1. FromInputs /\ FilledInv /\ OwnInitials => FoundByInitials
  <2> DEFINE unbroken == {r \in table : Blank \notin ToSet(Name(r))}
  <2> SUFFICES ASSUME FromInputs, FilledInv, OwnInitials, complete = "yes",
                      NEW r \in unbroken, NEW q \in PartsOf(Choseong(Name(r))),
                      NEW wanted \in SUBSET table, NEW limit \in 1..MaxLimit,
                      NEW answer \in Search(q, wanted, limit), Len(answer) < limit
               PROVE  {s \in wanted \cap unbroken : Has(Choseong(Name(s)), q)} \subseteq ToSet(answer)
    BY DEF FoundByInitials
  <2>1. IsFiniteSet(wanted)
    BY FS_Subset DEF FromInputs, Loaded
  <2>2. Choseong(Name(r)) \in Seq(Initial \cup Digit)
    <3> DEFINE name == Name(r)
    <3>1. name \in Seq(Char)
      BY Named
    <3>2. \A i \in DOMAIN name : name[i] \in Char /\ name[i] # Blank
      <4>1. Blank \notin ToSet(name)
        OBVIOUS
      <4> HIDE DEF name
      <4> QED BY <3>1, <4>1, ElementOfSeq DEF ToSet
    <3> HIDE DEF name
    <3>3. \A i \in DOMAIN name :
            (IF name[i] \in Syllable THEN InitialOf[name[i]] ELSE name[i]) \in Initial \cup Digit
      BY <3>2 DEF Char, Initial
    <3>4. DOMAIN name = 1..Len(name) /\ Len(name) \in Nat
      BY <3>1
    <3>5. Choseong(name) \in [1..Len(name) -> Initial \cup Digit]
      BY <3>3, <3>4 DEF Choseong
    <3>6. Choseong(name) \in Seq(Initial \cup Digit)
      BY <3>4, <3>5
    <3> QED BY <3>6 DEF name
  <2>3. q \in Seq(Initial \cup Digit)
    BY <2>2, PartOfText
  <2>4. Blank \notin Initial \cup Digit
    BY PlaceAssumption DEF Char
  <2>5. NoBlanks(q) = q
    BY <2>3, <2>4, NothingToDrop
  <2>6. Search(q, wanted, limit) = ByInitials(q, wanted, limit)
    <3>1. \A i \in DOMAIN q : q[i] \in Initial \cup Digit \cup {Blank}
      BY <2>3, ElementOfSeq
    <3> QED BY <2>5, <3>1 DEF Search
  <2>7. limit \in Nat \ {0}
    <3>1. MaxLimit \in Nat
      BY PlaceAssumption
    <3> QED BY <3>1
  <2>8. {s \in wanted \cap DOMAIN choseong : Has(choseong[s], q)} \subseteq ToSet(answer)
    BY <2>1, <2>6, <2>7, InitialsFound
  <2>9. \A s \in wanted : s \in DOMAIN choseong /\ choseong[s] = Choseong(Name(s))
    BY DEF FilledInv, OwnInitials
  <2> QED BY <2>8, <2>9
<1> QED BY <1>1, RowsFromInputs, PlacesImplementLoads, Filled, InitialsAreOwn, PTL
================================================================================
