----------------------------- MODULE LandUseQuery -----------------------------
(***************************************************************************)
(* internal/api/server.go, appraisalLandUse: the zones of a parcel, read   *)
(* from land_use_plan while b2d-etl land-use empties and fills it.  A      *)
(* request is two queries with a snapshot each: the parcel's rows and, if  *)
(* there are none, whether its region has any.                             *)
(***************************************************************************)
EXTENDS LandUseLoad

CONSTANTS Pnu,      \* parcels a client may ask for
          PnuOf,    \* PnuOf[key]: the parcel of a key (pnu, zone_code)
          RegionOf  \* RegionOf[pnu]: its sigungu, the first five digits

ASSUME QueryAssumption == PnuOf \in [Key -> Pnu]

VARIABLES
  asked,  \* the parcel of the request
  phase,  \* the query it is about to run, or its answer
  late    \* history: "yes" when rows came between its two queries, or the plan
          \* has changed since it was answered

queryVars == <<asked, phase, late>>
allVars == <<vars, queryVars>>

Waiting == {"zones", "region"}
Answers == {"200", "404", "REGION_NOT_LOADED", "500"}

QueryTypeOK ==
  /\ asked \in Pnu
  /\ phase \in Waiting \cup Answers \cup {"idle"}
  /\ late \in {"yes", "no"}

QueryInit ==
  /\ Init
  /\ asked \in Pnu
  /\ phase = "idle"
  /\ late = "no"

--------------------------------------------------------------------------------
ZonesOf(p) == {r \in plan : PnuOf[r.key] = p}

(* hasRegion: pnu between the first and the last of its sigungu. *)
HasRegion(p) == \E r \in plan : RegionOf[PnuOf[r.key]] = RegionOf[p]

Ask(p) ==
  /\ phase \notin Waiting
  /\ asked' = p
  /\ phase' = "zones"
  /\ late' = "no"
  /\ UNCHANGED vars

ReadZones_WithoutErr ==
  /\ phase = "zones"
  /\ phase' \in {"region", IF ZonesOf(asked) = {} THEN "region" ELSE "200"}
  /\ UNCHANGED <<vars, asked, late>>

(* Rows that break off are an error, however many were read (QueryFails). *)
ReadZones ==
  /\ phase = "zones"
  /\ phase' = IF ZonesOf(asked) = {} THEN "region" ELSE "200"
  /\ UNCHANGED <<vars, asked, late>>

ReadRegion ==
  /\ phase = "region"
  /\ phase' = IF HasRegion(asked) THEN "404" ELSE "REGION_NOT_LOADED"
  /\ UNCHANGED <<vars, asked, late>>

QueryFails ==
  /\ phase \in Waiting
  /\ phase' = "500"
  /\ UNCHANGED <<vars, asked, late>>

LoadGoesOn ==
  /\ Next
  /\ late' = IF \/ phase = "region" /\ ~(plan' \subseteq plan)
                \/ phase \in Answers /\ plan' # plan
             THEN "yes" ELSE late
  /\ UNCHANGED <<asked, phase>>

QueryNext ==
  \/ LoadGoesOn
  \/ \E p \in Pnu : Ask(p)
  \/ ReadZones
  \/ ReadRegion
  \/ QueryFails

QuerySpec == QueryInit /\ [][QueryNext]_allVars

--------------------------------------------------------------------------------
(* What must hold. *)

(* A request that is told that a parcel has no plan, or that its region is *)
(* not loaded, is told so truly, whatever the loads did beside it: they    *)
(* may empty the plan, stop or fail at any point of the request.  Only     *)
(* rows that come between its two queries make the answer late: a parcel   *)
(* without zones in the first is then in a region that has some.           *)
NoneMeansNone ==
  /\ QueryTypeOK
  /\ late = "no" /\ phase \in {"404", "REGION_NOT_LOADED"} =>
       /\ ZonesOf(asked) = {}
       /\ phase = "404" <=> HasRegion(asked)
================================================================================
