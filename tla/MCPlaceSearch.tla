----------------------------- MODULE MCPlaceSearch -----------------------------
(* PlaceSearch for TLC: the inputs of ReplaceLoad, an input with two       *)
(* copies of a key and one that shares a key with it under another name    *)
(* and has one more; a name that is another's prefix, and one of a blank   *)
(* and a digit.                                                            *)
EXTENDS PlaceSearch, TLC

CONSTANTS l1, l2, f1, k1, k2, first, second, han, hwa, h, mul, m, seven, space

TwoLoaders == {l1, l2}
Keys == {k1, k2}
FirstRows == {[key |-> k1, copy |-> 1], [key |-> k1, copy |-> 2], [key |-> k2, copy |-> 1]}
SecondRows == {[key |-> k2, copy |-> 1]}

BothBundles == {first, second}
BothRows == first :> FirstRows @@ second :> SecondRows

OneBackfill == {f1}
Syllables == {han, hwa, mul}
Digits == {seven}
Initials == han :> h @@ hwa :> h @@ mul :> m
Names ==
  <<first, k1, 1>> :> <<han>> @@ <<first, k1, 2>> :> <<hwa, space, hwa>>
    @@ <<first, k2, 1>> :> <<mul, han>> @@ <<second, k2, 1>> :> <<han, seven>>
================================================================================
