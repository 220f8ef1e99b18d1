------------------------------ MODULE PlaceSearch ------------------------------
(***************************************************************************)
(* The places beside their loads: internal/etl/sbiz/choseong.go, which     *)
(* fills in the initials (choseong) of the places that have none, and      *)
(* internal/places/search.go, which searches by name or by initials.       *)
(*                                                                         *)
(* A name is a sequence of syllables, digits and single blanks, as         *)
(* normalizeName leaves it; InitialOf gives the initial of a syllable.  A  *)
(* place is identified by its row, which no later row has: ids are not     *)
(* used again.  Case is left out; category and radius are a set of wanted  *)
(* rows.                                                                   *)
(***************************************************************************)
EXTENDS ReplaceLoad, FiniteSets, Sequences, SequencesExt

CONSTANTS Backfill,   \* processes that may run b2d-etl places-choseong
          BatchSize,  \* rows of one round: 20000
          MaxLimit,   \* the highest limit of a search: 50
          Syllable, Digit, Blank,
          InitialOf,  \* InitialOf[s]: the initial consonant of syllable s
          NameOf      \* NameOf[<<b, key, copy>>]: the name in the row of input b

Char == Syllable \cup Digit \cup {Blank}
Initial == {InitialOf[s] : s \in Syllable}

ASSUME PlaceAssumption ==
  /\ BatchSize \in Nat \ {0} /\ MaxLimit \in Nat \ {0}
  /\ \A b \in Bundle : \A r \in Rows[b] : NameOf[<<b, r.key, r.copy>>] \in Seq(Char)
  /\ Initial \cap Char = {}
  /\ Syllable \cap (Digit \cup {Blank}) = {} /\ Blank \notin Digit

VARIABLES
  choseong, \* the column: the initials of the rows where it is not NULL
  fill,     \* what each backfill is about to do
  batch,    \* the initials it has computed, by the id of the row
  gone,     \* the ids of its batch that the database no longer has
  complete  \* history: "yes" from the end of a backfill to the next commit of a load

fillVars == <<choseong, fill, batch, gone, complete>>
placeVars == <<vars, fillVars>>

PlaceTypeOK ==
  /\ fill \in [Backfill -> {"idle", "select", "update", "ok", "failed"}]
  /\ DOMAIN batch = Backfill
  /\ DOMAIN gone = Backfill
  /\ complete \in {"yes", "no"}

Nothing == [r \in {} |-> << >>]

PlaceInit ==
  /\ Init
  /\ choseong = Nothing
  /\ fill = [f \in Backfill |-> "idle"]
  /\ batch = [f \in Backfill |-> Nothing]
  /\ gone = [f \in Backfill |-> {}]
  /\ complete = "no"

Without(f, rows) == [r \in DOMAIN f \ rows |-> f[r]]
Override(f, g) ==
  [r \in DOMAIN f \cup DOMAIN g |-> IF r \in DOMAIN g THEN g[r] ELSE f[r]]

--------------------------------------------------------------------------------
(* Choseong: the initial of each syllable, all else as it is. *)
Choseong(name) ==
  [i \in DOMAIN name |-> IF name[i] \in Syllable THEN InitialOf[name[i]] ELSE name[i]]

Name(r) == NameOf[<<r.bundle, r.key, r.copy>>]
Unfilled_OrFilled == table

Unfilled == table \ DOMAIN choseong

Smaller(a, b) == IF a < b THEN a ELSE b

(* BackfillChoseong.  land_sales has neither names nor a key. *)
FillStarts(f) ==
  /\ keyed = "yes"
  /\ fill[f] \notin {"select", "update"}
  /\ fill' = [fill EXCEPT ![f] = "select"]
  /\ UNCHANGED <<choseong, batch, gone, complete>>

(* SELECT id, norm_name ... WHERE choseong IS NULL ... LIMIT 20000 *)
FillSelects(f) ==
  /\ fill[f] = "select"
  /\ \E rows \in SUBSET Unfilled :
       /\ rows # {}
       /\ Cardinality(rows) = Smaller(BatchSize, Cardinality(Unfilled))
       /\ batch' = [batch EXCEPT ![f] = [r \in rows |-> Choseong(Name(r))]]
  /\ fill' = [fill EXCEPT ![f] = "update"]
  /\ UNCHANGED <<choseong, gone, complete>>

FillEnds_AfterOneRound(f) ==
  /\ fill[f] = "select"
  /\ Cardinality(Unfilled) <= BatchSize
  /\ fill' = [fill EXCEPT ![f] = "ok"]
  /\ complete' = "yes"
  /\ UNCHANGED <<choseong, batch, gone>>

FillEnds(f) ==
  /\ fill[f] = "select"
  /\ Unfilled = {}
  /\ fill' = [fill EXCEPT ![f] = "ok"]
  /\ complete' = "yes"
  /\ UNCHANGED <<choseong, batch, gone>>

FillUpdates_ByStoreNumber(f) ==
  /\ fill[f] = "update"
  /\ \A l \in Loader : deleted[l] \cap (DOMAIN batch[f] \ gone[f]) = {}
  /\ choseong' = Override(choseong,
       [r \in {s \in table : \E t \in DOMAIN batch[f] : s.key = t.key} |->
          batch[f][CHOOSE t \in DOMAIN batch[f] : r.key = t.key]])
  /\ batch' = [batch EXCEPT ![f] = Nothing]
  /\ gone' = [gone EXCEPT ![f] = {}]
  /\ fill' = [fill EXCEPT ![f] = "select"]
  /\ UNCHANGED complete

(* UPDATE places ... WHERE p.id = u.id waits for the loads that have       *)
(* deleted one of its rows; rows that are gone do not match.               *)
FillUpdates(f) ==
  /\ fill[f] = "update"
  /\ \A l \in Loader : deleted[l] \cap (DOMAIN batch[f] \ gone[f]) = {}
  /\ choseong' = Override(choseong, Without(batch[f], gone[f]))
  /\ batch' = [batch EXCEPT ![f] = Nothing]
  /\ gone' = [gone EXCEPT ![f] = {}]
  /\ fill' = [fill EXCEPT ![f] = "select"]
  /\ UNCHANGED complete

(* A lost connection, a deadlock with a load, a crash. *)
FillFails(f) ==
  /\ fill[f] \in {"select", "update"}
  /\ batch' = [batch EXCEPT ![f] = Nothing]
  /\ gone' = [gone EXCEPT ![f] = {}]
  /\ fill' = [fill EXCEPT ![f] = "failed"]
  /\ UNCHANGED <<choseong, complete>>

Fill(f) == FillStarts(f) \/ FillSelects(f) \/ FillEnds(f) \/ FillUpdates(f) \/ FillFails(f)

(* A load's commit removes rows with their initials, for good: their ids   *)
(* match nothing any more, though the next load may write the same place.  *)
(* The new rows have no initials.                                          *)
LoadCommits(l) ==
  LET old == deleted[l] \cup inserted[l]
  IN  /\ Commit(l)
      /\ choseong' = Without(choseong, old)
      /\ gone' = [f \in Backfill |-> gone[f] \cup (DOMAIN batch[f] \cap old)]
      /\ complete' = "no"
      /\ UNCHANGED <<fill, batch>>

LoadSteps(l) ==
  /\ \/ \E b \in Bundle : Begin(l, b)
     \/ DeleteBegins(l)
     \/ DeleteEnds(l)
     \/ Insert(l)
     \/ Abort(l)
  /\ UNCHANGED fillVars

PlaceNext ==
  \/ \E l \in Loader : LoadCommits(l) \/ LoadSteps(l)
  \/ \E f \in Backfill : Fill(f) /\ UNCHANGED vars

(* A backfill that has begun goes on: it is one loop over the database. *)
PlaceSpec ==
  /\ PlaceInit
  /\ [][PlaceNext]_placeVars
  /\ \A f \in Backfill :
       WF_placeVars((FillSelects(f) \/ FillEnds(f) \/ FillUpdates(f)) /\ UNCHANGED vars)

--------------------------------------------------------------------------------
(* Search and searchChoseong: one statement each.  q and the names are     *)
(* compared as LIKE does.                                                  *)
Has(name, q) == \E i \in 0..(Len(name) - Len(q)) : SubSeq(name, i + 1, i + Len(q)) = q

Tier(name, q) == IF name = q THEN 0 ELSE IF IsPrefix(q, name) THEN 1 ELSE 2

(* LIMIT without ORDER BY: any rows, as many as there are up to the limit. *)
AnyOf(rows, limit) ==
  {some \in SUBSET rows : Cardinality(some) = Smaller(limit, Cardinality(rows))}

(* ORDER BY two keys, LIMIT: the answers that ties allow. *)
Ranked(rows, First(_), Second(_), limit) ==
  {SubSeq(s, 1, Smaller(limit, Len(s))) :
     s \in {t \in SetToSeqs(rows) :
              \A i, j \in DOMAIN t : i < j =>
                \/ First(t[i]) < First(t[j])
                \/ First(t[i]) = First(t[j]) /\ Second(t[i]) <= Second(t[j])}}

NameLength(r) == Len(Name(r))

ByName_OneLimit(q, wanted, limit) ==
  LET TierOf(r) == Tier(Name(r), q)
  IN  UNION {Ranked(h, TierOf, NameLength, limit) :
               h \in AnyOf({r \in wanted : Has(Name(r), q)}, limit)}

(* Each tier is cut to the limit before they are put together and ranked. *)
ByName(q, wanted, limit) ==
  LET TierOf(r) == Tier(Name(r), q)
      Hits(n) == AnyOf({r \in wanted : Has(Name(r), q) /\ TierOf(r) = n}, limit)
  IN  UNION {Ranked(h[1] \cup h[2] \cup h[3], TierOf, NameLength, limit) :
               h \in Hits(0) \X Hits(1) \X Hits(2)}

ByInitials(q, wanted, limit) ==
  LET Exact(r) == IF choseong[r] = q THEN 0 ELSE 1
      Length(r) == Len(choseong[r])
  IN  Ranked({r \in wanted \cap DOMAIN choseong : Has(choseong[r], q)}, Exact, Length, limit)

(* strings.ReplaceAll(norm, " ", "") *)
NoBlanks(q) ==
  LET kept[n \in 0..Len(q)] ==
        IF n = 0 THEN << >>
        ELSE IF q[n] = Blank THEN kept[n - 1] ELSE Append(kept[n - 1], q[n])
  IN  kept[Len(q)]

(* A query of initials, digits and blanks only loses its blanks and is     *)
(* compared with the initials; any other with the names.                   *)
Search(q, wanted, limit) ==
  IF \A i \in DOMAIN q : q[i] \in Initial \cup Digit \cup {Blank}
  THEN ByInitials(NoBlanks(q), wanted, limit)
  ELSE ByName(q, wanted, limit)

--------------------------------------------------------------------------------
(* What must hold. *)

(* The parts of a text, as a user may type them. *)
PartsOf(text) == {SubSeq(text, i, j) : i, j \in DOMAIN text} \ {<< >>}

HasSyllable(q) == \E i \in DOMAIN q : q[i] \in Syllable

(* Nothing is under way.  What a search can find needs to be asked only   *)
(* here: a load or a backfill can fail at any step, and leaves the table   *)
(* and the initials as a search sees them before that.                     *)
Quiet ==
  /\ \A l \in Loader : ~InTx(l)
  /\ \A f \in Backfill : fill[f] \notin {"select", "update"}

(* The places whose name contains the query are all in the answer unless  *)
(* it is full, and one that is named exactly so comes first, however many  *)
(* others there are (search.go:42): the tiers are cut one by one.          *)
FoundByName ==
  Quiet /\ keyed = "yes" =>
    \A q \in {p \in UNION {PartsOf(Name(r)) : r \in table} : HasSyllable(p)} :
      \A wanted \in SUBSET table, limit \in 1..MaxLimit : \A answer \in Search(q, wanted, limit) :
        /\ Len(answer) < limit => {r \in wanted : Has(Name(r), q)} \subseteq ToSet(answer)
        /\ (\E r \in wanted : Name(r) = q) => Name(answer[1]) = q

(* Every initial in the table, and every one a backfill is about to write, *)
(* is that of the row's own name: whatever loads replace the rows between  *)
(* a backfill's SELECT and its UPDATE.  It is inductive.                   *)
OwnInitials ==
  /\ PlaceTypeOK
  /\ \A r \in DOMAIN choseong : r \in table /\ choseong[r] = Choseong(Name(r))
  /\ \A f \in Backfill : \A r \in DOMAIN batch[f] :
       /\ batch[f][r] = Choseong(Name(r))
       /\ r \in gone[f] \/ r \in table

(* Until a load commits, a backfill that has ended has left no row out. *)
FilledInv == complete = "yes" => table \subseteq DOMAIN choseong

(* From the end of a backfill until a load commits, a place whose name has *)
(* no blank is found by any part of its initials, unless the answer is     *)
(* full.                                                                   *)
FoundByInitials ==
  LET unbroken == {r \in table : Blank \notin ToSet(Name(r))}
  IN  Quiet /\ complete = "yes" =>
        \A q \in UNION {PartsOf(Choseong(Name(r))) : r \in unbroken} :
          \A wanted \in SUBSET table, limit \in 1..MaxLimit : \A answer \in Search(q, wanted, limit) :
            Len(answer) < limit =>
              {r \in wanted \cap unbroken : Has(Choseong(Name(r)), q)} \subseteq ToSet(answer)

(* A backfill does not run for ever once no load is under way: the rows    *)
(* that loads took away from it do not keep it busy.                       *)
BackfillEnds ==
  \A f \in Backfill :
    <>[](\A l \in Loader : ~InTx(l)) => []<>(fill[f] \notin {"select", "update"})
================================================================================
