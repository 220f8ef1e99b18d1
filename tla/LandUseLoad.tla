------------------------------ MODULE LandUseLoad ------------------------------
(***************************************************************************)
(* internal/etl/landuse/load.go: b2d-etl land-use empties land_use_plan,   *)
(* copies a bundle into the staging table lu_stg, moves it over without    *)
(* duplicates and restores the primary key.  Every statement commits on    *)
(* its own, both tables are shared, and nothing keeps two loads apart.     *)
(*                                                                         *)
(* A bundle is its parts: the rows of each COPY, reduced to their keys     *)
(* (pnu, zone_code).  A row of the table also says which load wrote it,    *)
(* because without a primary key two loads can write the same row.         *)
(***************************************************************************)
EXTENDS Naturals, Sequences

CONSTANTS Loader,  \* processes that may run b2d-etl land-use
          Bundle,  \* bundle files
          Key,     \* keys of land_use_plan
          Parts    \* Parts[b]: what each COPY of b stages, a sequence of sets of keys

ASSUME LandUseAssumption == Parts \in [Bundle -> Seq(SUBSET Key)]

VARIABLES
  plan,      \* land_use_plan: {[by, key, bundle, part]}
  pk,        \* "yes" when it has its primary key
  stgThere,  \* "yes" when lu_stg exists
  stg,       \* its rows: {[key, bundle, part]}
  pc,        \* the statement each load is about to run
  bundle,    \* the bundle it loads
  done,      \* how many parts it has copied
  tainted    \* history, since the last TRUNCATE of the plan: "overlap" when it met
             \* another load, "crash" when a load outlived the rows it had staged

dbVars == <<plan, pk, stgThere, stg>>
vars == <<dbVars, pc, bundle, done, tainted>>

Busy == {"truncate", "create", "clean", "copy", "dropPk", "insert", "addPk", "dropStg"}
Active(l) == pc[l] \in Busy

Row == [key : Key, bundle : Bundle, part : Nat]
PlanRow == [by : Loader, key : Key, bundle : Bundle, part : Nat]

TypeOK ==
  /\ plan \in SUBSET PlanRow
  /\ pk \in {"yes", "no"}
  /\ stgThere \in {"yes", "no"}
  /\ stg \in SUBSET Row
  /\ pc \in [Loader -> Busy \cup {"idle", "ok", "failed"}]
  /\ bundle \in [Loader -> Bundle]
  /\ done \in [Loader -> Nat]
  /\ tainted \in {"no", "overlap", "crash"}

(* The migration has created the table, empty and with its key. *)
Init ==
  /\ plan = {}
  /\ pk = "yes"
  /\ stgThere = "no"
  /\ stg = {}
  /\ pc = [l \in Loader |-> "idle"]
  /\ bundle \in [Loader -> Bundle]
  /\ done = [l \in Loader |-> 0]
  /\ tainted = "no"

KeysOf(rows) == {r.key : r \in rows}
Unique(rows) == \A r, s \in rows : r.key = s.key => r = s

(* The rows of the first n parts of b. *)
Staged(b, n) ==
  {r \in [key : Key, bundle : {b}, part : 1..n] : r.key \in Parts[b][r.part]}

RowsOf(b) == Staged(b, Len(Parts[b]))

Goto(l, where) == pc' = [pc EXCEPT ![l] = where]

--------------------------------------------------------------------------------
(* Load, statement by statement. *)

(* The bundle is opened and its latest date found before anything is       *)
(* touched; the latest date is that of any file, so no part need bear it.  *)
Start(l, b) ==
  /\ ~Active(l)
  /\ Goto(l, "truncate")
  /\ bundle' = [bundle EXCEPT ![l] = b]
  /\ done' = [done EXCEPT ![l] = 0]
  /\ UNCHANGED <<dbVars, tainted>>

(* TRUNCATE land_use_plan *)
TruncatePlan(l) ==
  /\ pc[l] = "truncate"
  /\ plan' = {}
  /\ Goto(l, "create")
  /\ tainted' = IF \E m \in Loader \ {l} : Active(m) THEN "overlap" ELSE "no"
  /\ UNCHANGED <<pk, stgThere, stg, bundle, done>>

(* CREATE UNLOGGED TABLE IF NOT EXISTS lu_stg *)
CreateStaging(l) ==
  /\ pc[l] = "create"
  /\ stgThere' = "yes"
  /\ Goto(l, "clean")
  /\ UNCHANGED <<plan, pk, stg, bundle, done, tainted>>

CleanStaging_Forgotten(l) ==
  /\ pc[l] = "clean"
  /\ stgThere = "yes"
  /\ Goto(l, "copy")
  /\ UNCHANGED <<dbVars, bundle, done, tainted>>

(* TRUNCATE lu_stg, which an interrupted load may have left full *)
CleanStaging(l) ==
  /\ pc[l] = "clean"
  /\ stgThere = "yes"
  /\ stg' = {}
  /\ Goto(l, "copy")
  /\ UNCHANGED <<plan, pk, stgThere, bundle, done, tainted>>

(* One COPY into lu_stg: up to 50000 rows of a nested file. *)
CopyPart(l) ==
  /\ pc[l] = "copy"
  /\ done[l] < Len(Parts[bundle[l]])
  /\ stgThere = "yes"
  /\ LET p == done[l] + 1
     IN  /\ stg' = stg \cup [key : Parts[bundle[l]][p], bundle : {bundle[l]}, part : {p}]
         /\ done' = [done EXCEPT ![l] = p]
  /\ UNCHANGED <<plan, pk, stgThere, pc, bundle, tainted>>

(* Every file is read; a bundle without one of the latest date is an error *)
(* only now, with the table already empty.                                 *)
CopiesDone(l) ==
  /\ pc[l] = "copy"
  /\ done[l] = Len(Parts[bundle[l]])
  /\ Goto(l, IF Parts[bundle[l]] = << >> THEN "failed" ELSE "dropPk")
  /\ UNCHANGED <<dbVars, bundle, done, tainted>>

(* ALTER TABLE land_use_plan DROP CONSTRAINT IF EXISTS land_use_plan_pkey *)
DropPk(l) ==
  /\ pc[l] = "dropPk"
  /\ pk' = "no"
  /\ Goto(l, "insert")
  /\ UNCHANGED <<plan, stgThere, stg, bundle, done, tainted>>

DistinctOn_Dropped(rows) == {rows}

(* SELECT DISTINCT ON (pnu, zone_code): one row for each key, any of them. *)
DistinctOn(rows) == {d \in SUBSET rows : Unique(d) /\ KeysOf(d) = KeysOf(rows)}

ByLoader(l, rows) ==
  {[by |-> l, key |-> r.key, bundle |-> r.bundle, part |-> r.part] : r \in rows}

(* INSERT INTO land_use_plan SELECT DISTINCT ON ... FROM lu_stg *)
Insert(l) ==
  /\ pc[l] = "insert"
  /\ stgThere = "yes"
  /\ pk = "yes" => KeysOf(plan) \cap KeysOf(stg) = {}
  /\ \E d \in DistinctOn(stg) : plan' = plan \cup ByLoader(l, d)
  /\ Goto(l, "addPk")
  /\ UNCHANGED <<pk, stgThere, stg, bundle, done, tainted>>

AddPk_Forgotten(l) ==
  /\ pc[l] = "addPk"
  /\ Goto(l, "dropStg")
  /\ UNCHANGED <<dbVars, bundle, done, tainted>>

(* ALTER TABLE land_use_plan ADD PRIMARY KEY (pnu, zone_code) *)
AddPk(l) ==
  /\ pc[l] = "addPk"
  /\ pk = "no"
  /\ Unique(plan)
  /\ pk' = "yes"
  /\ Goto(l, "dropStg")
  /\ UNCHANGED <<plan, stgThere, stg, bundle, done, tainted>>

(* DROP TABLE lu_stg, and Load returns without an error *)
DropStaging(l) ==
  /\ pc[l] = "dropStg"
  /\ stgThere = "yes"
  /\ stgThere' = "no"
  /\ stg' = {}
  /\ Goto(l, "ok")
  /\ UNCHANGED <<plan, pk, bundle, done, tainted>>

(* PostgreSQL refuses the statement: lu_stg is gone, a key is taken, the   *)
(* key is there already or cannot be restored.                             *)
Refused(l) ==
  \/ pc[l] \in {"clean", "insert", "dropStg"} /\ stgThere = "no"
  \/ pc[l] = "copy" /\ done[l] < Len(Parts[bundle[l]]) /\ stgThere = "no"
  \/ pc[l] = "insert" /\ pk = "yes" /\ KeysOf(plan) \cap KeysOf(stg) # {}
  \/ pc[l] = "addPk" /\ (pk = "yes" \/ ~Unique(plan))

Refuse(l) ==
  /\ Refused(l)
  /\ Goto(l, "failed")
  /\ UNCHANGED <<dbVars, bundle, done, tainted>>

(* Any other end: the connection is lost, the disk is full, a nested file  *)
(* is broken, the process is killed.  Load undoes nothing.                 *)
Fail(l) ==
  /\ Active(l)
  /\ Goto(l, "failed")
  /\ UNCHANGED <<dbVars, bundle, done, tainted>>

(* PostgreSQL crashes and recovers: an unlogged table comes back empty.  A *)
(* load whose statement is cut off, or whose next one finds no server yet, *)
(* fails; the others go on, for the pool replaces a connection that has    *)
(* died while the load was reading its files.                              *)
DbCrash ==
  /\ stg' = {}
  /\ \E spared \in SUBSET {l \in Loader : Active(l)} :
       /\ pc' = [l \in Loader |-> IF Active(l) /\ l \notin spared THEN "failed" ELSE pc[l]]
       /\ tainted' = IF tainted = "no" /\ \E l \in spared : pc[l] \in {"copy", "dropPk", "insert"}
                     THEN "crash" ELSE tainted
  /\ UNCHANGED <<plan, pk, stgThere, bundle, done>>

Step(l) ==
  \/ \E b \in Bundle : Start(l, b)
  \/ TruncatePlan(l)
  \/ CreateStaging(l)
  \/ CleanStaging(l)
  \/ CopyPart(l)
  \/ CopiesDone(l)
  \/ DropPk(l)
  \/ Insert(l)
  \/ AddPk(l)
  \/ DropStaging(l)
  \/ Refuse(l)
  \/ Fail(l)

Next == DbCrash \/ \E l \in Loader : Step(l)

Spec == Init /\ [][Next]_vars

--------------------------------------------------------------------------------
(* What must hold. *)

(* rows are b without duplicates: one row for each of its keys. *)
IsWhole(b, rows) ==
  /\ {[key |-> r.key, bundle |-> r.bundle, part |-> r.part] : r \in rows} \subseteq RowsOf(b)
  /\ Unique(rows)
  /\ KeysOf(rows) = KeysOf(RowsOf(b))

(* What a reader finds: nothing, a whole bundle, or neither ("torn"). *)
Content ==
  IF tainted # "no" THEN <<"mixture">>
  ELSE IF plan = {} THEN <<"nothing">>
  ELSE IF \E b \in Bundle : IsWhole(b, plan)
  THEN <<"whole", CHOOSE b \in Bundle : IsWhole(b, plan)>>
  ELSE <<"torn">>

Table == INSTANCE PublishedTable WITH content <- Content

(* Unless two loads overlapped, or one outlived the rows it had staged, a  *)
(* reader of land_use_plan finds nothing or exactly one bundle, whatever   *)
(* was interrupted before and whatever it left in lu_stg; and a load that  *)
(* runs undisturbed repairs the rest.                                      *)
NothingOrWhole == Table!ClearingSpec

(* A load that reports success, undisturbed since its TRUNCATE, has left   *)
(* exactly its own bundle, under the primary key.                          *)
SuccessIsComplete ==
  [][\A l \in Loader :
       (pc[l] # "ok" /\ pc'[l] = "ok" /\ tainted = "no") =>
         pk' = "yes" /\ IsWhole(bundle'[l], plan')]_vars

(* A load that is undisturbed since its TRUNCATE is never refused a        *)
(* statement: no remains of an earlier one, a lost key, a leftover lu_stg  *)
(* or rows twice, stand in the way of a retry.                             *)
RetryNotRefused ==
  tainted = "no" => \A l \in Loader : ~Refused(l)

(* The inductive invariant: while nothing disturbs, one load at most is    *)
(* past its TRUNCATE, and the two tables are what its statements so far    *)
(* have made of them.                                                      *)
Past(l) == Active(l) /\ pc[l] # "truncate"

OnePast == \A l, m \in Loader : Past(l) /\ Past(m) => l = m

Progress(l) ==
  /\ pc[l] \in {"create", "clean", "copy", "dropPk", "insert"} => plan = {}
  /\ pc[l] \in {"create", "clean"} => done[l] = 0
  /\ pc[l] \in {"clean", "copy", "dropPk", "insert", "addPk", "dropStg"} => stgThere = "yes"
  /\ pc[l] = "copy" => /\ done[l] <= Len(Parts[bundle[l]])
                       /\ stg = Staged(bundle[l], done[l])
  /\ pc[l] \in {"dropPk", "insert"} => stg = RowsOf(bundle[l])
  /\ pc[l] \in {"insert", "addPk"} => pk = "no"
  /\ pc[l] = "dropStg" => pk = "yes"
  /\ pc[l] \in {"addPk", "dropStg"} => IsWhole(bundle[l], plan)

NotTorn == plan = {} \/ \E b \in Bundle : IsWhole(b, plan)

IInv ==
  /\ TypeOK
  /\ \A l \in Loader : pc[l] = "truncate" => done[l] = 0
  /\ tainted = "no" => OnePast /\ NotTorn /\ \A l \in Loader : Progress(l)
================================================================================
