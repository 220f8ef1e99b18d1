----------------------------- MODULE MCLandUseQuery -----------------------------
(* LandUseQuery for TLC: two loaders, a bundle of two parts that share a   *)
(* key, one of a single key, and one without a file of the latest date;    *)
(* one parcel has both keys, another of its region has none.               *)
EXTENDS LandUseQuery, TLC

CONSTANTS l1, l2, k1, k2, large, small, stray, here, near

MCLoader == {l1, l2}
MCKey == {k1, k2}
MCBundle == {large, small, stray}
MCParts == large :> <<{k1}, {k1, k2}>> @@ small :> <<{k2}>> @@ stray :> << >>

MCPnu == {here, near}
MCPnuOf == k1 :> here @@ k2 :> here
MCRegionOf == here :> 1 @@ near :> 1

LoaderSymmetry == Permutations(MCLoader)
================================================================================
