-------------------------------- MODULE Geocode --------------------------------
(***************************************************************************)
(* /v1/geocode: the address parser, the key it shares with the entrance    *)
(* loader, and the cascade of queries that looks the key up while rows are *)
(* still being loaded.                                                     *)
(*                                                                         *)
(* A word of an address is <<kind, name>>; its kind is all that the parser *)
(* looks at: "sido", "sigungu", "road", "dong" or "myeon" (names in eup,   *)
(* myeon, dong, ri, ga), "under" (the word for underground), "num", "san"  *)
(* (a number with the prefix of a mountain lot), and "other".              *)
(***************************************************************************)
EXTENDS Naturals, Sequences, SequencesExt, FiniteSets

CONSTANTS Address,  \* what a road address can be: [sido, sigungu, emd, road, under, num]
          Lot,      \* what a parcel can be: [sido, sigungu, emd, num, san]
          Manner,   \* how people write addresses: see Written
          Alias,    \* sidoAlias: a function from words, cities too, to those of a sido
          EndsIn,   \* {<<v, w>>}: the word v ends in the word w without being it
          MaxCandidates, \* LIMIT of roadSuffix: 5
          MaxCopies \* bound: how often a road address is loaded

District == {"sigungu"} \X STRING
Sigungu == {sg \in Seq(District) : Len(sg) <= 2}
Emd == {"dong", "myeon"} \X STRING

(* A dong, or an eup or myeon and perhaps a ri in it. *)
Emds == {e \in Seq(Emd) : Len(e) \in {1, 2}}

ASSUME GeocodeAssumption ==
  /\ \A a \in Address :
       a \in [sido : STRING, sigungu : Sigungu, emd : Emd,
              road : STRING, under : {"0", "1"}, num : STRING \ {""}]
  /\ \A p \in Lot :
       p \in [sido : STRING, sigungu : Sigungu, emd : Emds,
              num : STRING \ {""}, san : {"0", "1"}]
  /\ \A w \in DOMAIN Alias :
       \/ w \in {"short"} \X STRING /\ Alias[w] = <<"sido", w[2]>>
       \/ w \in District /\ Alias[w] \in {"sido"} \X STRING
  /\ "short" \in Manner => \A a \in Address : <<"short", a.sido>> \in DOMAIN Alias
  /\ MaxCandidates \in Nat \ {0, 1}
  /\ MaxCopies \in Nat \ {0}

VARIABLES
  buildings, \* rows with a point: {[address, copy]}
  parcels,   \* lots in parcels, all of them known to admin_areas
  query,     \* the words asked for
  stage,     \* the query about to run, "idle" or "answered"
  result,    \* [match, found]
  there      \* history: the addresses and lots the words can mean, there at first

geocodeVars == <<buildings, parcels, query, stage, result, there>>

NoWord == <<"none", "">>
Words(kind, name) == <<<<kind, name>>>>

--------------------------------------------------------------------------------
(* Addresses as they are loaded and written. *)

(* Road, underground and number: the end of a building's key. *)
AddressEnd(a) ==
  Words("road", a.road) \o (IF a.under = "1" THEN Words("under", "") ELSE << >>)
    \o Words("num", a.num)

(* entrance.Norm, the key under which a building is stored *)
Norm(a) == Words("sido", a.sido) \o a.sigungu \o AddressEnd(a)

(* RnaddrkorRecord.RoadAddress without its parentheses: eup and myeon are  *)
(* part of the address, dong are not, and "underground" sticks to the      *)
(* number, which the parser takes for one unknown word.                    *)
RoadAddress(a) ==
  Words("sido", a.sido) \o a.sigungu
    \o (IF a.emd[1] = "myeon" THEN <<a.emd>> ELSE << >>) \o Words("road", a.road)
    \o (IF a.under = "1" THEN Words("other", a.num) ELSE Words("num", a.num))

(* What people write for a: the stored form, with a short sido, with the   *)
(* dong, without the sido, without the city of a gu as well, without the   *)
(* sigungu, or officially.                                                 *)
Written(a) ==
  [stored   |-> Norm(a),
   short    |-> Words("short", a.sido) \o a.sigungu \o AddressEnd(a),
   withDong |-> Words("sido", a.sido) \o a.sigungu \o <<a.emd>> \o AddressEnd(a),
   noSido   |-> a.sigungu \o AddressEnd(a),
   noCity   |-> (IF Len(a.sigungu) = 2 THEN Tail(a.sigungu) ELSE << >>) \o AddressEnd(a),
   bare     |-> AddressEnd(a),
   official |-> RoadAddress(a)]

(* The jibun address of a lot, without its sido, without the sigungu as well. *)
LotWritten(p) ==
  LET end == p.emd \o Words(IF p.san = "1" THEN "san" ELSE "num", p.num)
  IN  [stored |-> Words("sido", p.sido) \o p.sigungu \o end,
       noSido |-> p.sigungu \o end,
       bare   |-> end]

LotManner == Manner \cap {"stored", "noSido", "bare"}

Means(words) ==
  {a \in Address : \E m \in Manner : Written(a)[m] = words}
    \cup {p \in Lot : \E m \in LotManner : LotWritten(p)[m] = words}

Queries ==
  {Written(a)[m] : a \in Address, m \in Manner}
    \cup {LotWritten(p)[m] : p \in Lot, m \in LotManner}

--------------------------------------------------------------------------------
(* The parser. *)

Blank == [at |-> "start", sido |-> NoWord, sigungu |-> << >>, emd |-> << >>, road |-> << >>,
          under |-> "0", num |-> "", san |-> "0"]

IsNum(w) == w[1] \in {"num", "san"}

(* Names up to the first number, then the number; the rest is put aside. *)
TakeName(p, w) ==
  IF IsNum(w)
    THEN [p EXCEPT !.at = "rest", !.num = w[2], !.san = IF w[1] = "san" THEN "1" ELSE "0"]
  ELSE IF w[1] = "under" THEN [p EXCEPT !.at = "names", !.under = "1"]
  ELSE IF w[1] = "road" THEN [p EXCEPT !.at = "names", !.road = Append(@, w)]
  ELSE IF w[1] \in {"dong", "myeon"} THEN [p EXCEPT !.at = "names", !.emd = Append(@, w)]
  ELSE [p EXCEPT !.at = "names"]

(* Up to two sigungu. *)
TakeSigungu(p, w) ==
  IF w[1] = "sigungu" /\ Len(p.sigungu) < 2
    THEN [p EXCEPT !.at = "sigungu", !.sigungu = Append(@, w)]
    ELSE TakeName(p, w)

(* One sido, as the first word: a full name or an alias of one. *)
TakeSido(p, w) ==
  IF w[1] = "sido" THEN [p EXCEPT !.at = "sigungu", !.sido = w]
  ELSE IF w \in DOMAIN Alias THEN [p EXCEPT !.at = "sigungu", !.sido = Alias[w]]
  ELSE TakeSigungu(p, w)

Take(p, w) ==
  CASE p.at = "start" -> TakeSido(p, w)
    [] p.at = "sigungu" -> TakeSigungu(p, w)
    [] p.at = "names" -> TakeName(p, w)
    [] p.at = "rest" -> p

Parse(words) ==
  LET read[n \in 0..Len(words)] == IF n = 0 THEN Blank ELSE Take(read[n - 1], words[n])
  IN  read[Len(words)]

(* The number is a building number after a road, a lot number after a      *)
(* dong, and both when neither was seen.                                   *)
BldNo(p) == IF p.road = << >> /\ p.emd # << >> THEN "" ELSE p.num
JibunNo(p) == IF p.road = << >> THEN p.num ELSE ""

Full(p) == p.sido # NoWord

HasRoadKey(p) == p.road # << >> /\ BldNo(p) # ""

RoadKey_AnyEmd(p) ==
  (IF Full(p) THEN <<p.sido>> ELSE << >>) \o p.sigungu \o p.emd \o p.road
    \o (IF p.under = "1" THEN Words("under", "") ELSE << >>) \o Words("num", BldNo(p))

RoadKey_NotUnder(p) ==
  (IF Full(p) THEN <<p.sido>> ELSE << >>) \o p.sigungu
    \o (IF p.emd # << >> /\ Last(p.emd)[1] = "myeon" THEN p.emd ELSE << >>)
    \o p.road \o Words("num", BldNo(p))

(* The key of the exact match; a trailing eup or myeon belongs to it. *)
RoadKey(p) ==
  (IF Full(p) THEN <<p.sido>> ELSE << >>) \o p.sigungu
    \o (IF p.emd # << >> /\ Last(p.emd)[1] = "myeon" THEN p.emd ELSE << >>)
    \o p.road \o (IF p.under = "1" THEN Words("under", "") ELSE << >>) \o Words("num", BldNo(p))

--------------------------------------------------------------------------------
(* The cascade: each query sees the rows of its own moment. *)

GeocodeInit ==
  /\ buildings = {}
  /\ parcels = {}
  /\ query = << >>
  /\ stage = "idle"
  /\ result = [match |-> "none", found |-> {}]
  /\ there = {}

(* entrance loads an address once more; it has no key to stop it *)
LoadBuilding ==
  /\ \E a \in Address, n \in 1..MaxCopies :
       /\ \A r \in buildings : r.address = a => r.copy < n
       /\ n > 1 => \E r \in buildings : r.address = a /\ r.copy = n - 1
       /\ buildings' = buildings \cup {[address |-> a, copy |-> n]}
  /\ UNCHANGED <<parcels, query, stage, result, there>>

LoadParcel ==
  /\ \E p \in Lot \ parcels : parcels' = parcels \cup {p}
  /\ UNCHANGED <<buildings, query, stage, result, there>>

AfterRoad(p) == IF JibunNo(p) # "" /\ p.emd # << >> THEN "jibun" ELSE "trigram"

AskAddress(q) ==
  /\ stage = "idle"
  /\ query' = q
  /\ stage' = LET p == Parse(q)
              IN  IF ~HasRoadKey(p) THEN AfterRoad(p) ELSE IF Full(p) THEN "exact" ELSE "suffix"
  /\ there' = ({r.address : r \in buildings} \cup parcels) \cap Means(q)
  /\ UNCHANGED <<buildings, parcels, result>>

Reply(match, found) ==
  /\ stage' = "answered"
  /\ result' = [match |-> match, found |-> found]
  /\ UNCHANGED <<buildings, parcels, query, there>>

FallThrough(where) ==
  /\ stage' = where
  /\ UNCHANGED <<buildings, parcels, query, result, there>>

(* roadExact: any row with the key *)
RoadExact ==
  /\ stage = "exact"
  /\ LET hits == {r.address : r \in {s \in buildings : Norm(s.address) = RoadKey(Parse(query))}}
     IN  \/ \E a \in hits : Reply("exact", {a})
         \/ hits = {} /\ FallThrough(AfterRoad(Parse(query)))

DistinctRows_All(rows) == rows

(* DISTINCT ON (road_address): one row for each address *)
DistinctRows(rows) ==
  {r \in rows : \A s \in rows : s.address = r.address => r.copy <= s.copy}

FirstOf(rows) ==
  {some \in SUBSET rows :
     IF Cardinality(rows) <= MaxCandidates THEN some = rows
     ELSE Cardinality(some) = MaxCandidates}

(* roadSuffix: LIKE '% ' || key ... LIMIT 5 *)
RoadSuffix ==
  /\ stage = "suffix"
  /\ \E hits \in FirstOf(DistinctRows({r \in buildings :
                             IsStrictSuffix(RoadKey(Parse(query)), Norm(r.address))})) :
       \/ \E r \in hits : hits = {r} /\ Reply("exact_partial", {r.address})
       \/ \E r, s \in hits : r # s /\ Reply("ambiguous", {t.address : t \in hits})
       \/ hits = {} /\ FallThrough(AfterRoad(Parse(query)))

(* The name in admin_areas of the place in which a lot is *)
NameOf(lot) == Words("sido", lot.sido) \o lot.sigungu \o lot.emd

(* LIKE '%' || words: the first word may match the end of a longer one. *)
EndsLike(name, words) ==
  LET from == Len(name) - Len(words) + 1
  IN  /\ from >= 1
      /\ Tail(words) = SubSeq(name, from + 1, Len(name))
      /\ name[from] = Head(words) \/ <<name[from], Head(words)>> \in EndsIn

NameLike(p, lot) == EndsLike(NameOf(lot), p.sigungu \o p.emd)

(* jibunPath: any parcel of the name, the number and the kind of land *)
JibunPath ==
  /\ stage = "jibun"
  /\ LET p == Parse(query)
         hits == {lot \in parcels : NameLike(p, lot) /\ lot.num = JibunNo(p) /\ lot.san = p.san}
     IN  \/ \E lot \in hits : Reply("jibun", {lot})
         \/ hits = {} /\ FallThrough("trigram")

(* trigram: the most similar address, which may be any, or none *)
Trigram ==
  /\ stage = "trigram"
  /\ \/ \E r \in buildings : Reply("trigram", {r.address})
     \/ Reply("no match", {})

(* An error other than an empty result ends the search. *)
SearchFails ==
  /\ stage \in {"exact", "suffix", "jibun", "trigram"}
  /\ Reply("500", {})

Forget ==
  /\ stage = "answered"
  /\ stage' = "idle"
  /\ query' = << >>
  /\ result' = [match |-> "none", found |-> {}]
  /\ there' = {}
  /\ UNCHANGED <<buildings, parcels>>

(* geocodeBatchHandler is one search after another while rows are loaded:  *)
(* an error stays with its address and the next one is asked all the same. *)
GeocodeNext ==
  \/ LoadBuilding
  \/ LoadParcel
  \/ \E q \in Queries : AskAddress(q)
  \/ RoadExact
  \/ RoadSuffix
  \/ JibunPath
  \/ Trigram
  \/ SearchFails
  \/ Forget

GeocodeSpec == GeocodeInit /\ [][GeocodeNext]_geocodeVars

--------------------------------------------------------------------------------
(* What must hold. *)

Done == stage = "answered" /\ result.match # "500"

(* An address that was there when the search began is found: exactly when  *)
(* its sido was given, and otherwise alone or among the candidates, unless *)
(* those are as many as the search lists.                                  *)
AddressFound ==
  (Done /\ there \cap Address # {}) =>
    IF Full(Parse(query))
      THEN result.match = "exact" /\ result.found = there
      ELSE /\ result.match \in {"exact_partial", "ambiguous"}
           /\ there \subseteq result.found \/ Cardinality(result.found) = MaxCandidates

(* A lot that was there when the search began is answered with a lot of    *)
(* that number and kind of land, in a place whose name ends in that dong,  *)
(* or in that myeon and ri.                                                *)
LotFound ==
  (Done /\ there \cap Lot # {}) =>
    /\ result.match = "jibun"
    /\ \A lot \in result.found, p \in there :
         /\ lot.num = p.num
         /\ lot.san = p.san
         /\ EndsLike(NameOf(lot), p.emd)

(* What is there is found: the forms in which the loaders store addresses  *)
(* and lots are those in which the search looks for them.                  *)
KnownIsGeocoded == AddressFound /\ LotFound

(* A point given as exact belongs to an address that the words can mean.   *)
ExactIsMeant ==
  (Done /\ result.match \in {"exact", "exact_partial"}) => result.found \subseteq Means(query)

(* However often an address is loaded, it is not taken for two             *)
(* (geocode.go:98-99): candidates are at least two addresses.              *)
AmbiguousIsTwo ==
  (Done /\ result.match = "ambiguous") => \E a, b \in result.found : a # b

--------------------------------------------------------------------------------
(* Why it holds. *)

(* The manners that name the sido, and those that leave it out. *)
WithSido == {"stored", "short", "withDong"}
WithoutSido == {"noSido", "noCity", "bare"}

(* No city has a name that is taken for a sido. *)
NoCityIsSido == DOMAIN Alias \cap District = {}

(* Addresses for which the loader's form and the parser's agree: on the    *)
(* ground of a dong, not written officially, and no two of them under one  *)
(* key.                                                                    *)
Regular ==
  /\ NoCityIsSido
  /\ Manner \subseteq WithSido \cup WithoutSido
  /\ \A a \in Address : a.emd[1] = "dong"
  /\ \A a, b \in Address : Norm(a) = Norm(b) => a = b

GeocodeTypeOK ==
  /\ buildings \subseteq [address : Address, copy : Nat]
  /\ IsFiniteSet(buildings)
  /\ parcels \subseteq Lot
  /\ stage \in {"idle", "exact", "suffix", "jibun", "trigram", "answered"}

(* What was there stays there while the search is on. *)
AskedInv ==
  /\ stage # "idle" => query \in Queries /\ there \subseteq Means(query)
  /\ stage \notin {"idle", "answered"} =>
       there \subseteq {r.address : r \in buildings} \cup parcels

(* A query runs only when those before it could not have found it. *)
CascadeInv ==
  LET p == Parse(query)
  IN  /\ stage = "exact" => HasRoadKey(p) /\ Full(p)
      /\ stage = "suffix" => HasRoadKey(p) /\ ~Full(p)
      /\ stage \in {"jibun", "trigram"} => there \cap Address = {}
      /\ stage = "trigram" => there = {}

GeocodeInv == GeocodeTypeOK /\ AskedInv /\ CascadeInv /\ KnownIsGeocoded
================================================================================
