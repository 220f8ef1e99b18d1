------------------------------ MODULE ReplaceLoad ------------------------------
(***************************************************************************)
(* The loaders that replace their rows in one READ COMMITTED transaction:  *)
(* juso into buildings, sbiz into places, landsales into one month of      *)
(* land_sales.  They delete the old rows, insert the new ones and commit;  *)
(* the staging tables of juso and sbiz are private to the transaction.     *)
(* Nothing keeps two loads apart but the row locks of PostgreSQL.          *)
(*                                                                         *)
(* Rows are those in the scope of the DELETE, reduced to their unique key; *)
(* land_sales has none.  A row of the table also names the load that wrote *)
(* it, because without a key two loads can write the same row.             *)
(***************************************************************************)
EXTENDS Naturals, FiniteSets

CONSTANTS Loader,  \* processes that may run the load
          Bundle,  \* inputs
          Key,     \* values of juso_mgmt_no or store_number
          Rows     \* Rows[b]: the valid rows of b, {[key, copy]}

ASSUME ReplaceAssumption ==
  /\ Rows \in [Bundle -> SUBSET [key : Key, copy : Nat]]
  /\ \A b \in Bundle : IsFiniteSet(Rows[b])

VARIABLES
  keyed,    \* "yes" when the table has a unique key; fixed by the schema
  table,    \* the committed rows: {[by, key, bundle, copy]}
  pc,       \* the statement each load is about to run
  bundle,   \* what it loads
  seen,     \* the rows its DELETE found when it began
  deleted,  \* the rows it has deleted, not yet committed
  inserted, \* the rows it has inserted, not yet committed
  missed,   \* history: "yes" when another load committed after `seen'
  last,     \* history: the input of the last commit
  loaded,   \* history: the inputs that were ever committed
  tainted   \* history: "none" before any commit, "yes" when the last one missed another

txVars == <<seen, deleted, inserted>>
history == <<last, loaded, tainted>>
vars == <<keyed, table, pc, bundle, txVars, missed, history>>

Open == {"delete", "deleting", "insert", "commit"}
InTx(l) == pc[l] \in Open

TableRow == [by : Loader, key : Key, bundle : Bundle, copy : Nat]

TypeOK ==
  /\ keyed \in {"yes", "no"}
  /\ table \in SUBSET TableRow
  /\ pc \in [Loader -> Open \cup {"idle", "ok", "failed"}]
  /\ bundle \in [Loader -> Bundle]
  /\ seen \in [Loader -> SUBSET TableRow]
  /\ deleted \in [Loader -> SUBSET TableRow]
  /\ inserted \in [Loader -> SUBSET TableRow]
  /\ missed \in [Loader -> {"yes", "no"}]
  /\ last \in Bundle
  /\ loaded \in SUBSET Bundle
  /\ tainted \in {"none", "yes", "no"}

Init ==
  /\ keyed \in {"yes", "no"}
  /\ table = {}
  /\ pc = [l \in Loader |-> "idle"]
  /\ bundle \in [Loader -> Bundle]
  /\ seen = [l \in Loader |-> {}]
  /\ deleted = [l \in Loader |-> {}]
  /\ inserted = [l \in Loader |-> {}]
  /\ missed = [l \in Loader |-> "no"]
  /\ last \in Bundle
  /\ loaded = {}
  /\ tainted = "none"

KeysOf(rows) == {r.key : r \in rows}
Unique(rows) == \A r, s \in rows : r.key = s.key => r = s
Others(l) == {m \in Loader \ {l} : InTx(m)}

--------------------------------------------------------------------------------
(* One load.  Inputs are opened, and landsales fetches its month, before   *)
(* the transaction begins.                                                 *)
Begin(l, b) ==
  /\ ~InTx(l)
  /\ pc' = [pc EXCEPT ![l] = "delete"]
  /\ bundle' = [bundle EXCEPT ![l] = b]
  /\ UNCHANGED <<keyed, table, txVars, missed, history>>

(* DELETE takes its snapshot: it will not see rows committed later. *)
DeleteBegins(l) ==
  /\ pc[l] = "delete"
  /\ pc' = [pc EXCEPT ![l] = "deleting"]
  /\ seen' = [seen EXCEPT ![l] = table]
  /\ missed' = [missed EXCEPT ![l] = "no"]
  /\ UNCHANGED <<keyed, table, bundle, deleted, inserted, history>>

(* It waits for those who have deleted one of its rows and skips the rows  *)
(* that are gone when they have committed.                                 *)
DeleteEnds(l) ==
  /\ pc[l] = "deleting"
  /\ \A m \in Others(l) : deleted[m] \cap seen[l] = {}
  /\ pc' = [pc EXCEPT ![l] = "insert"]
  /\ deleted' = [deleted EXCEPT ![l] = seen[l] \cap table]
  /\ UNCHANGED <<keyed, table, bundle, seen, inserted, missed, history>>

AsRows(l, b, rows) == {[by |-> l, key |-> r.key, bundle |-> b, copy |-> r.copy] : r \in rows}

(* ON CONFLICT DO NOTHING waits for a load that has deleted or inserted a  *)
(* row with a key of its own, and skips the keys it then finds taken.      *)
MustWait(l) ==
  \E m \in Others(l) : KeysOf(deleted[m] \cup inserted[m]) \cap KeysOf(Rows[bundle[l]]) # {}

Taken(l) == KeysOf(table \ deleted[l])

InsertKeyed_AllCopies(l) ==
  /\ ~MustWait(l)
  /\ inserted' = [inserted EXCEPT ![l] =
       AsRows(l, bundle[l], {r \in Rows[bundle[l]] : r.key \notin Taken(l)})]

(* One row for each key that is free: DISTINCT ON or the first one staged. *)
InsertKeyed(l) ==
  /\ ~MustWait(l)
  /\ \E new \in SUBSET {r \in Rows[bundle[l]] : r.key \notin Taken(l)} :
       /\ Unique(new)
       /\ KeysOf(new) = KeysOf(Rows[bundle[l]]) \ Taken(l)
       /\ inserted' = [inserted EXCEPT ![l] = AsRows(l, bundle[l], new)]

(* land_sales: one INSERT for each item, none of which can conflict. *)
InsertUnkeyed(l) ==
  inserted' = [inserted EXCEPT ![l] = AsRows(l, bundle[l], Rows[bundle[l]])]

Insert(l) ==
  /\ pc[l] = "insert"
  /\ \/ keyed = "yes" /\ InsertKeyed(l)
     \/ keyed = "no" /\ InsertUnkeyed(l)
  /\ pc' = [pc EXCEPT ![l] = "commit"]
  /\ UNCHANGED <<keyed, table, bundle, seen, deleted, missed, history>>

(* The new rows are in nobody's snapshot, though a load that runs again    *)
(* may write what it has written before.                                   *)
Commit(l) ==
  /\ pc[l] = "commit"
  /\ table' = (table \ deleted[l]) \cup inserted[l]
  /\ pc' = [pc EXCEPT ![l] = "ok"]
  /\ seen' = [m \in Loader |-> IF m = l THEN {} ELSE seen[m] \ inserted[l]]
  /\ deleted' = [deleted EXCEPT ![l] = {}]
  /\ inserted' = [inserted EXCEPT ![l] = {}]
  /\ last' = bundle[l]
  /\ loaded' = loaded \cup {bundle[l]}
  /\ tainted' = missed[l]
  /\ missed' = [m \in Loader |-> IF pc[m] \in {"deleting", "insert", "commit"} THEN "yes" ELSE missed[m]]
  /\ UNCHANGED <<keyed, bundle>>

EndTx(l) ==
  /\ seen' = [seen EXCEPT ![l] = {}]
  /\ deleted' = [deleted EXCEPT ![l] = {}]
  /\ inserted' = [inserted EXCEPT ![l] = {}]

Abort_KeepsDeletes(l) ==
  /\ InTx(l)
  /\ table' = table \ deleted[l]
  /\ pc' = [pc EXCEPT ![l] = "failed"]
  /\ EndTx(l)
  /\ UNCHANGED <<keyed, bundle, missed, history>>

(* Rollback, deferred or by PostgreSQL: a malformed file found before or   *)
(* after the insert, a deadlock, a lost connection, a crash of either      *)
(* side before the commit.  A commit whose answer is lost is a Commit:     *)
(* what Load tells its caller is not modelled.                             *)
Abort(l) ==
  /\ InTx(l)
  /\ pc' = [pc EXCEPT ![l] = "failed"]
  /\ EndTx(l)
  /\ UNCHANGED <<keyed, table, bundle, missed, history>>

Step(l) ==
  \/ \E b \in Bundle : Begin(l, b)
  \/ DeleteBegins(l)
  \/ DeleteEnds(l)
  \/ Insert(l)
  \/ Commit(l)
  \/ Abort(l)

Next == \E l \in Loader : Step(l)

Spec == Init /\ [][Next]_vars

--------------------------------------------------------------------------------
(* What must hold. *)

(* rows are exactly what loading b alone leaves. *)
IsWhole(b, rows) ==
  /\ {[key |-> r.key, copy |-> r.copy] : r \in rows} \subseteq Rows[b]
  /\ \A r, s \in rows : r.key = s.key /\ r.copy = s.copy => r = s
  /\ KeysOf(rows) = KeysOf(Rows[b])
  /\ IF keyed = "yes" THEN Unique(rows)
     ELSE \A r \in Rows[b] : \E s \in rows : r.key = s.key /\ r.copy = s.copy

Content ==
  IF tainted = "none" THEN IF table = {} THEN <<"nothing">> ELSE <<"torn">>
  ELSE IF tainted = "yes" THEN <<"mixture">>
  ELSE IF IsWhole(last, table) THEN <<"whole", last>>
  ELSE <<"torn">>

Table == INSTANCE PublishedTable WITH content <- Content

(* Unless a load commits while another is between its DELETE and its       *)
(* commit, readers see the rows of one input, and see them replaced by     *)
(* those of another at once: never an empty table in between, whatever     *)
(* fails.                                                                  *)
OldOrNew == Table!SwappingSpec

(* A load that missed no commit still finds the table as its DELETE found  *)
(* it, has deleted all of it, and has inserted the whole of its input.     *)
SnapshotCurrent(l) ==
  pc[l] \in {"deleting", "insert", "commit"} => seen[l] = table
DeletedAll(l) ==
  pc[l] \in {"insert", "commit"} => deleted[l] = table
InsertedWhole(l) ==
  pc[l] = "commit" => IsWhole(bundle[l], inserted[l])

(* The inductive invariant: the above, and what it makes of the table when *)
(* such a load was the last to commit.                                     *)
IInv ==
  /\ TypeOK
  /\ \A l \in Loader :
       missed[l] = "no" => SnapshotCurrent(l) /\ DeletedAll(l) /\ InsertedWhole(l)
  /\ tainted = "none" => table = {}
  /\ tainted = "no" => IsWhole(last, table)

(* With a unique key the locks keep loads apart row by row: none deletes   *)
(* or inserts what another has deleted or inserted, so that whatever        *)
(* commits, every key is there once.  And as long as one input only was     *)
(* ever committed, a load of it that is about to commit finds each of its   *)
(* keys in the table or has inserted it.                                    *)
Disjoint(l, m) ==
  /\ deleted[l] \cap deleted[m] = {}
  /\ KeysOf(inserted[l]) \cap KeysOf(inserted[m] \cup deleted[m]) = {}

Covered(l) ==
  pc[l] = "commit" /\ loaded \subseteq {bundle[l]} =>
    KeysOf(Rows[bundle[l]]) \subseteq KeysOf(inserted[l]) \cup KeysOf(table \ deleted[l])

KeyedLoad(l) ==
  /\ deleted[l] \subseteq table
  /\ pc[l] # "commit" => inserted[l] = {}
  /\ pc[l] \notin {"insert", "commit"} => deleted[l] = {}
  /\ Unique(inserted[l])
  /\ KeysOf(inserted[l]) \cap KeysOf(table \ deleted[l]) = {}
  /\ {[key |-> r.key, copy |-> r.copy] : r \in inserted[l]} \subseteq Rows[bundle[l]]
  /\ Covered(l)

KeyedInv ==
  keyed = "yes" =>
    /\ Unique(table)
    /\ \A l \in Loader : KeyedLoad(l)
    /\ \A l, m \in Loader : l # m => Disjoint(l, m)
    /\ loaded = {} => table = {}
    /\ \A b \in Bundle : loaded = {b} => IsWhole(b, table)

(* Rows come from an input, whichever load writes them. *)
Loaded(rows) ==
  /\ IsFiniteSet(rows)
  /\ \A r \in rows : r.bundle \in Bundle /\ [key |-> r.key, copy |-> r.copy] \in Rows[r.bundle]

FromInputs == Loaded(table) /\ \A l \in Loader : Loaded(inserted[l])

(* With a unique key, loading one input again and again, even at the same  *)
(* time, leaves what loading it once leaves (juso/load.go:66,              *)
(* sbiz/load.go:61).  land_sales promises it too (landsales/load.go:59),   *)
(* but two loads at once leave each sale twice there.                      *)
KeyedReloadIdempotent == keyed = "yes" => \A b \in Bundle : loaded = {b} => IsWhole(b, table)
================================================================================
