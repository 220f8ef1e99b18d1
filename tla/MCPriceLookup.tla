----------------------------- MODULE MCPriceLookup -----------------------------
(***************************************************************************)
(* PriceLookup for TLC: two parcels of one region.  For the staged tables  *)
(* `full' comes in two parts and the others have no valid row; for         *)
(* standard_lots `full' has three batches that repeat both parcels,        *)
(* `stray' is an older input of two that shares them, and `other' has no   *)
(* file for it.                                                            *)
(***************************************************************************)
EXTENDS PriceLookup, TLC

CONSTANTS l1, l2, p1, p2, full, stray, other

Loaders == {l1, l2}
Parcels == {p1, p2}
Bundles == {full, stray, other}
BundleParts == full :> <<{p1}, {p2}>> @@ stray :> << >> @@ other :> << >>
StandardBatches == full :> <<{p1, p2}, {p2}, {p1}>> @@ stray :> <<{p2}, {p1}>> @@ other :> << >>
NoFile == {other}
RegionOf == p1 :> "11010" @@ p2 :> "11010"

LoaderSymmetry == Permutations(Loaders)
================================================================================
