------------------------------ MODULE PriceLookup ------------------------------
(***************************************************************************)
(* official_land_prices and land_features: the loaders that merge a bundle *)
(* into them through a shared staging table (officialprice, landfeature),  *)
(* the loader of standard_lots, and the handler that answers a request for *)
(* one pnu with up to three queries while they run.                        *)
(*                                                                         *)
(* A key (pnu, base_year) is a Pnu here: a request for the latest year     *)
(* differs only in the row that its one query picks.                       *)
(***************************************************************************)
EXTENDS Naturals, Sequences

CONSTANTS Loader,  \* processes that may load the table
          Bundle,  \* input files
          Pnu,     \* parcels
          Region,  \* Region[p]: the first five digits
          Parts,   \* Parts[b]: the parcels of each COPY of b
          Batches, \* Batches[b]: those of each batch, when b is one of standard_lots
          Refused, \* inputs in which standardlots finds no file
          None     \* no row, no answer

StandardRow == [bundle : Bundle, batch : Nat]

ASSUME LookupAssumption ==
  /\ {Parts, Batches} \subseteq [Bundle -> Seq(SUBSET Pnu)]
  /\ Bundle # {}
  /\ \A b \in Refused : b \in Bundle /\ Batches[b] = << >>
  /\ None \notin Bundle \cup StandardRow

VARIABLES
  target,   \* the table that is loaded: "official_land_prices", "land_features" or
            \* "standard_lots"
  standard, \* standard_lots: standard[p] is the row of p, or None
  rows,     \* rows[p]: the bundle whose row of p the table holds, or None
  stgThere, \* "yes" when the staging table exists
  stg,      \* its rows: {<<pnu, bundle>>}
  pc,       \* the statement each load is about to run; "run" in a load of standard_lots
  bundle,   \* what it loads
  done,     \* how many parts it has copied
  tainted,  \* history, since the last TRUNCATE of the staging table: "overlap" when
            \* it met another load, "crash" when a load outlived its staged rows
  met,      \* history: of BatchLoad
  asks,     \* what the handler is about to query, "idle" or "answered"
  asked,    \* the pnu of the request
  answer,   \* what it was answered
  known,    \* history: what there was of the pnu when the request began
  trueAt    \* history: the answers that were true at some moment of the request

stgVars == <<rows, stgThere, stg, tainted>>
loadVars == <<stgVars, pc, bundle, done, met>>
askVars == <<asks, asked, answer, known>>
vars == <<target, standard, loadVars, askVars, trueAt>>

Standard == INSTANCE BatchLoad WITH table <- standard, Key <- Pnu

Active(l) == pc[l] \in {"create", "clean", "copy", "upsert", "drop"}
Goto(l, where) == pc' = [pc EXCEPT ![l] = where]

(* EXISTS(... WHERE pnu >= $1 AND pnu <= $2) *)
HasRegion(r) == \E p \in Pnu : Region[p] = r /\ rows[p] # None

(* The answer that the tables give at one moment. *)
TrueAnswer(p) ==
  IF target = "official_land_prices" /\ standard[p] # None THEN "STANDARD"
  ELSE IF rows[p] # None THEN "INDIVIDUAL"
  ELSE IF HasRegion(Region[p]) THEN "404"
  ELSE "REGION_NOT_LOADED"

Init ==
  /\ target \in {"official_land_prices", "land_features", "standard_lots"}
  /\ standard = [p \in Pnu |-> None]
  /\ rows = [p \in Pnu |-> None]
  /\ stgThere = "no"
  /\ stg = {}
  /\ pc = [l \in Loader |-> "idle"]
  /\ bundle \in [Loader -> Bundle]
  /\ done = [l \in Loader |-> 0]
  /\ tainted = "no"
  /\ met = [l \in Loader |-> "no"]
  /\ asks = "idle"
  /\ asked \in Pnu
  /\ answer = None
  /\ known = None
  /\ trueAt = {}

(* The history of the request at hand. *)
Observe == trueAt' = IF asks' = "idle" THEN {} ELSE trueAt \cup {TrueAnswer(asked)'}

--------------------------------------------------------------------------------
(* The loaders, statement by statement; each commits on its own. *)

Start(l, b) ==
  /\ ~Active(l)
  /\ Goto(l, "create")
  /\ bundle' = [bundle EXCEPT ![l] = b]
  /\ done' = [done EXCEPT ![l] = 0]
  /\ UNCHANGED <<rows, stgThere, stg, tainted>>

(* CREATE UNLOGGED TABLE IF NOT EXISTS *)
CreateStaging(l) ==
  /\ pc[l] = "create"
  /\ stgThere' = "yes"
  /\ Goto(l, "clean")
  /\ UNCHANGED <<rows, stg, bundle, done, tainted>>

CleanStaging_Forgotten(l) ==
  /\ pc[l] = "clean"
  /\ stgThere = "yes"
  /\ tainted' = IF \E m \in Loader \ {l} : Active(m) THEN "overlap" ELSE "no"
  /\ Goto(l, "copy")
  /\ UNCHANGED <<rows, stgThere, stg, bundle, done>>

(* TRUNCATE *)
CleanStaging(l) ==
  /\ pc[l] = "clean"
  /\ stgThere = "yes"
  /\ stg' = {}
  /\ tainted' = IF \E m \in Loader \ {l} : Active(m) THEN "overlap" ELSE "no"
  /\ Goto(l, "copy")
  /\ UNCHANGED <<rows, stgThere, bundle, done>>

(* COPY of up to 50000 valid rows *)
CopyPart(l) ==
  /\ pc[l] = "copy"
  /\ done[l] < Len(Parts[bundle[l]])
  /\ stgThere = "yes"
  /\ stg' = stg \cup (Parts[bundle[l]][done[l] + 1] \X {bundle[l]})
  /\ done' = [done EXCEPT ![l] = @ + 1]
  /\ UNCHANGED <<rows, stgThere, pc, bundle, tainted>>

(* Every file is read.  landfeature refuses a bundle without a valid row   *)
(* of the latest date; officialprice upserts nothing and succeeds.         *)
CopiesDone(l) ==
  /\ pc[l] = "copy"
  /\ done[l] = Len(Parts[bundle[l]])
  /\ Goto(l, IF Parts[bundle[l]] = << >> /\ target = "land_features" THEN "failed" ELSE "upsert")
  /\ UNCHANGED <<rows, stgThere, stg, bundle, done, tainted>>

Merged_Replaces(old, staged) ==
  {new \in [Pnu -> Bundle \cup {None}] :
     \A p \in Pnu : LET from == {b \in Bundle : <<p, b>> \in staged}
                    IN  IF from = {} THEN new[p] = None ELSE new[p] \in from}

(* Whose row of p the statement keeps: any staged one, or the old one. *)
Merged(old, staged) ==
  {new \in [Pnu -> Bundle \cup {None}] :
     \A p \in Pnu : LET from == {b \in Bundle : <<p, b>> \in staged}
                    IN  IF from = {} THEN new[p] = old[p] ELSE new[p] \in from}

(* INSERT ... SELECT DISTINCT ON (pnu, base_year) ... ON CONFLICT DO UPDATE *)
Upsert(l) ==
  /\ pc[l] = "upsert"
  /\ stgThere = "yes"
  /\ rows' \in Merged(rows, stg)
  /\ Goto(l, "drop")
  /\ UNCHANGED <<stgThere, stg, bundle, done, tainted>>

(* DROP TABLE *)
DropStaging(l) ==
  /\ pc[l] = "drop"
  /\ stgThere = "yes"
  /\ stgThere' = "no"
  /\ stg' = {}
  /\ Goto(l, "ok")
  /\ UNCHANGED <<rows, bundle, done, tainted>>

(* Any statement may fail; it does when another load has dropped the       *)
(* staging table.                                                          *)
Fail(l) ==
  /\ Active(l)
  /\ Goto(l, "failed")
  /\ UNCHANGED <<rows, stgThere, stg, bundle, done, tainted>>

(* PostgreSQL crashes and recovers with the unlogged table empty; a load   *)
(* that was reading its file goes on over a new connection.                *)
DbCrash ==
  /\ stg' = {}
  /\ \E spared \in SUBSET {l \in Loader : Active(l)} :
       /\ pc' = [l \in Loader |-> IF Active(l) /\ l \notin spared THEN "failed" ELSE pc[l]]
       /\ tainted' = IF tainted = "no" /\ \E l \in spared : pc[l] \in {"copy", "upsert"}
                     THEN "crash" ELSE tainted
  /\ UNCHANGED <<rows, stgThere, bundle, done>>

Load ==
  /\ target # "standard_lots"
  /\ \/ DbCrash
     \/ \E l \in Loader :
          \/ \E b \in Bundle : Start(l, b)
          \/ CreateStaging(l)
          \/ CleanStaging(l)
          \/ CopyPart(l)
          \/ CopiesDone(l)
          \/ Upsert(l)
          \/ DropStaging(l)
          \/ Fail(l)
  /\ UNCHANGED <<target, standard, met, askVars>>
  /\ Observe

(* The handlers look only for a row, not at what it says. *)
AnyStandardRow == [bundle |-> CHOOSE b \in Bundle : TRUE, batch |-> 1]

(* standardlots commits its batches: step by step when they are what is    *)
(* looked at, as rows that appear while the other tables are.  The handler *)
(* of land_features does not read them.                                    *)
LoadStandard ==
  \/ /\ target = "standard_lots"
     /\ \E l \in Loader : Standard!Step(l)
     /\ UNCHANGED <<target, stgVars, askVars, trueAt>>
  \/ /\ target = "official_land_prices"
     /\ \E p \in Pnu :
          /\ standard[p] = None
          /\ standard' = [standard EXCEPT ![p] = AnyStandardRow]
     /\ UNCHANGED <<target, loadVars, askVars>>
     /\ Observe

--------------------------------------------------------------------------------
(* appraisalOfficialPrice and appraisalLandFeatures *)

Ask(p) ==
  /\ asks = "idle"
  /\ target # "standard_lots"
  /\ asked' = p
  /\ asks' = IF target = "official_land_prices" THEN "standard" ELSE "rows"
  /\ known' = TrueAnswer(p)
  /\ UNCHANGED answer

Answered(a) == asks' = "answered" /\ answer' = a

(* STANDARD when there is one *)
QueryStandard ==
  /\ asks = "standard"
  /\ IF standard[asked] # None THEN Answered("STANDARD") ELSE asks' = "rows" /\ UNCHANGED answer
  /\ UNCHANGED <<asked, known>>

(* then the pnu's own row *)
QueryRows ==
  /\ asks = "rows"
  /\ IF rows[asked] # None THEN Answered("INDIVIDUAL") ELSE asks' = "region" /\ UNCHANGED answer
  /\ UNCHANGED <<asked, known>>

(* then whether anything of its region is loaded *)
QueryRegion ==
  /\ asks = "region"
  /\ Answered(IF HasRegion(Region[asked]) THEN "404" ELSE "REGION_NOT_LOADED")
  /\ UNCHANGED <<asked, known>>

(* Any of the queries may fail instead. *)
QueryFails ==
  /\ asks \in {"standard", "rows", "region"}
  /\ Answered("500")
  /\ UNCHANGED <<asked, known>>

Leave ==
  /\ asks = "answered"
  /\ asks' = "idle"
  /\ answer' = None
  /\ known' = None
  /\ UNCHANGED asked

Handle ==
  /\ \/ \E p \in Pnu : Ask(p)
     \/ QueryStandard
     \/ QueryRows
     \/ QueryRegion
     \/ QueryFails
     \/ Leave
  /\ UNCHANGED <<target, standard, loadVars>>
  /\ Observe

Next == Load \/ LoadStandard \/ Handle

Spec == Init /\ [][Next]_vars

--------------------------------------------------------------------------------
(* What must hold. *)

(* What the first n parts of b stage; all of them. *)
Copied(b, n) == {<<p, b>> : p \in UNION {Parts[b][k] : k \in 1..n}}

RowsOf(b) == Copied(b, Len(Parts[b]))

(* Undisturbed, each change of the table merges the whole of a bundle:     *)
(* readers never see part of one, and no row of a region or year that the  *)
(* bundle does not name is touched (officialprice/load.go:130).            *)
MergesWholeBundle ==
  [][tainted = "no" => rows' = rows \/ \E b \in Bundle : rows' \in Merged(rows, RowsOf(b))]_vars

(* RetryConverges of BatchLoad for standard_lots: a load that succeeds and *)
(* during which no other wrote leaves the last row of its input under each *)
(* of its keys, whatever interrupted loads it repeats (standardlots).      *)
StandardConverges == Standard!RetryConverges

(* However loads overlap, fail or crash, a pnu that had a price or a row   *)
(* when the request began is not answered 404 or REGION_NOT_LOADED.        *)
KnownIsFound ==
  (asks = "answered" /\ known \in {"STANDARD", "INDIVIDUAL"}) =>
    answer \in {"STANDARD", "INDIVIDUAL", "500"}

(* "Loaded, and only this PNU missing: a true 404" (server.go:667), which  *)
(* is said of the official prices.                                         *)
NotFoundIsTrue ==
  (target = "official_land_prices" /\ asks = "answered" /\ answer = "404") => "404" \in trueAt

--------------------------------------------------------------------------------
(* The inductive invariant. *)

TypeOK ==
  /\ target \in {"official_land_prices", "land_features", "standard_lots"}
  /\ standard \in [Pnu -> StandardRow \cup {None}]
  /\ rows \in [Pnu -> Bundle \cup {None}]
  /\ stg \in SUBSET (Pnu \X Bundle)
  /\ pc \in [Loader -> {"idle", "create", "clean", "copy", "upsert", "drop", "run", "ok", "failed"}]
  /\ bundle \in [Loader -> Bundle]
  /\ done \in [Loader -> Nat]
  /\ met \in [Loader -> {"no", "yes"}]
  /\ asks \in {"idle", "standard", "rows", "region", "answered"}
  /\ asked \in Pnu

(* A load is one of standard_lots, or stages its rows. *)
OneKind ==
  /\ target = "standard_lots" => \A l \in Loader : ~Active(l)
  /\ target # "standard_lots" => \A l \in Loader : pc[l] # "run"

Past(l) == pc[l] \in {"copy", "upsert", "drop"}

(* While nothing disturbs, one load at most is past its TRUNCATE, and the  *)
(* staging table holds what that one has copied.                           *)
OnePast == \A l, m \in Loader : Past(l) /\ Past(m) => l = m

StagedSoFar(l) ==
  /\ pc[l] = "copy" => done[l] <= Len(Parts[bundle[l]]) /\ stg = Copied(bundle[l], done[l])
  /\ pc[l] = "upsert" => stg = RowsOf(bundle[l])

StagedInv ==
  /\ \A l \in Loader : pc[l] \in {"create", "clean"} => done[l] = 0
  /\ tainted = "no" => OnePast /\ \A l \in Loader : StagedSoFar(l)

(* A load of standard_lots that no other met has left, of each key in its  *)
(* batches so far, the last row.                                           *)
WrittenSoFar(l) ==
  (pc[l] = "run" /\ met[l] = "no") =>
    LET b == bundle[l]
    IN  /\ done[l] <= Len(Batches[b])
        /\ \A n \in 1..done[l] : \A k \in Batches[b][n] :
             \E last \in n..done[l] :
               /\ standard[k] = [bundle |-> b, batch |-> last]
               /\ k \in Batches[b][last]
               /\ \A later \in (last + 1)..done[l] : k \notin Batches[b][later]

(* The row that was there when the request began is there still, and the   *)
(* request has not gone past the query that finds it.                      *)
StillThere ==
  /\ asks # "idle" => target # "standard_lots"
  /\ asks # "idle" /\ known = "STANDARD" =>
       /\ asks \in {"standard", "answered"}
       /\ standard[asked] # None
  /\ asks # "idle" /\ known = "INDIVIDUAL" =>
       /\ asks \in {"standard", "rows", "answered"}
       /\ rows[asked] # None

IInv ==
  /\ TypeOK
  /\ OneKind
  /\ StagedInv
  /\ \A l \in Loader : WrittenSoFar(l)
  /\ StillThere
  /\ KnownIsFound
================================================================================
