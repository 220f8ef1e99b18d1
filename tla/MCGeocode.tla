------------------------------- MODULE MCGeocode -------------------------------
(* Small worlds of addresses for Geocode. *)
EXTENDS Geocode, TLC

Gu(names) == [n \in DOMAIN names |-> <<"sigungu", names[n]>>]

Addr(sido, sigungu, emd, road, under) ==
  [sido |-> sido, sigungu |-> Gu(sigungu), emd |-> emd, road |-> road,
   under |-> under, num |-> "10"]

Dong == <<"dong", "d">>

(* The same names in two sido, one of them also under the ground, and in a *)
(* city with a gu of that name.                                            *)
SameNames == {Addr("gyeonggi", <<"suwon", "jung">>, Dong, "r", "0"),
              Addr("seoul", <<"jung">>, Dong, "r", "0"), Addr("daejeon", <<"jung">>, Dong, "r", "0"),
              Addr("seoul", <<"jung">>, Dong, "r", "1")}

(* In a myeon, and on the ground of a dong. *)
Myeon == {Addr("jeonnam", <<"wando">>, <<"myeon", "m">>, "r", "0"),
          Addr("seoul", <<"jung">>, Dong, "r", "0")}

Plot(sido, emd, san) ==
  [sido |-> sido, sigungu |-> Gu(<<"jung">>), emd |-> emd, num |-> "1", san |-> san]

(* In a dong of two sido, on plain and on mountain land, in a dong whose   *)
(* name ends like that, and in a ri of its name.                           *)
Plots == {Plot("seoul", <<Dong>>, "0"), Plot("daejeon", <<Dong>>, "0"), Plot("seoul", <<Dong>>, "1"),
          Plot("seoul", <<<<"dong", "xd">>>>, "0"), Plot("daejeon", <<<<"myeon", "m">>, Dong>>, "0")}
Endings == {<<<<"dong", "xd">>, <<"dong", "d">>>>}
OnePlot == {Plot("seoul", <<Dong>>, "0")}

ShortNames == <<"short", "seoul">> :> <<"sido", "seoul">> @@ <<"short", "daejeon">> :> <<"sido", "daejeon">>
  @@ <<"short", "gyeonggi">> :> <<"sido", "gyeonggi">>
NoAlias == [w \in {} |-> NoWord]

All == {"stored", "short", "withDong", "noSido", "noCity", "bare"}

(* What the theorems assume of addresses holds of these. *)
ASSUME Address = SameNames => Regular /\ WithoutSido \subseteq Manner
================================================================================
