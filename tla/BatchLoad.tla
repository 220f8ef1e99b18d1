------------------------------- MODULE BatchLoad -------------------------------
(***************************************************************************)
(* The loaders that upsert their table directly, batch after batch: jijeok *)
(* (parcels) and standardlots, 500 rows at a time; priceindex upserts      *)
(* everything in one transaction, which is an input of one batch.  An      *)
(* input of jijeok is all the files of a command, one after another: the   *)
(* command stops at the first that fails (runJijeok in b2d-etl).  A batch  *)
(* is one implicit transaction: it is written whole or not at all.  The    *)
(* batches of an input are not: what an interrupted load wrote stays, and  *)
(* whoever repeats it begins at the first batch.                           *)
(***************************************************************************)
EXTENDS Naturals, Sequences

CONSTANTS Loader,  \* processes that may run the load
          Bundle,  \* inputs
          Key,     \* primary keys
          Batches, \* Batches[b]: the keys of the valid rows of each batch of b
          Refused, \* inputs of standardlots without a file of its kind, of priceindex
                   \* without a row of months: nothing is written, and that is an error
          None     \* no row

VARIABLES
  table,  \* table[k]: the row with key k, named by its bundle and batch
  pc,     \* "idle", "run", "ok" or "failed"
  bundle, \* what each load reads
  done,   \* how many of its batches it has written
  met     \* history: "yes" when another load wrote a batch during this one

vars == <<table, pc, bundle, done, met>>

Init ==
  /\ table = [k \in Key |-> None]
  /\ pc = [l \in Loader |-> "idle"]
  /\ bundle \in [Loader -> Bundle]
  /\ done = [l \in Loader |-> 0]
  /\ met = [l \in Loader |-> "no"]

--------------------------------------------------------------------------------
Start(l, b) ==
  /\ pc[l] # "run"
  /\ pc' = [pc EXCEPT ![l] = "run"]
  /\ bundle' = [bundle EXCEPT ![l] = b]
  /\ done' = [done EXCEPT ![l] = 0]
  /\ met' = [met EXCEPT ![l] = "no"]
  /\ UNCHANGED table

(* INSERT ... ON CONFLICT DO UPDATE of each row of the next batch; a row   *)
(* repeated within the batch leaves its last form, so order is not kept.   *)
Upserted(l) ==
  LET n == done[l] + 1
  IN  [k \in Key |-> IF k \in Batches[bundle[l]][n]
                       THEN [bundle |-> bundle[l], batch |-> n]
                       ELSE table[k]]

More(l) == pc[l] = "run" /\ done[l] < Len(Batches[bundle[l]])

Commits(l) ==
  /\ More(l)
  /\ table' = Upserted(l)
  /\ met' = [m \in Loader |-> IF m # l THEN "yes" ELSE met[m]]
  /\ UNCHANGED bundle

(* flush: the batch is sent and every answer read *)
Flush(l) ==
  /\ Commits(l)
  /\ done' = [done EXCEPT ![l] = @ + 1]
  /\ UNCHANGED pc

(* The batch is committed, but its answer never arrives. *)
FlushUnanswered(l) ==
  /\ Commits(l)
  /\ pc' = [pc EXCEPT ![l] = "failed"]
  /\ UNCHANGED done

(* A row or the input is refused, two loads lock each other's rows, the    *)
(* connection or the process is gone: the batch at hand is rolled back,    *)
(* those before it stay.                                                   *)
Fail(l) ==
  /\ pc[l] = "run"
  /\ pc' = [pc EXCEPT ![l] = "failed"]
  /\ UNCHANGED <<table, bundle, done, met>>

Finish_WithoutRest(l) ==
  /\ pc[l] = "run"
  /\ bundle[l] \notin Refused
  /\ done[l] + 1 >= Len(Batches[bundle[l]])
  /\ pc' = [pc EXCEPT ![l] = "ok"]
  /\ UNCHANGED <<table, bundle, done, met>>

(* The last, partial batch is written and Load returns; with an error (see *)
(* Fail) when there was nothing to read.                                   *)
Finish(l) ==
  /\ pc[l] = "run"
  /\ bundle[l] \notin Refused
  /\ ~More(l)
  /\ pc' = [pc EXCEPT ![l] = "ok"]
  /\ UNCHANGED <<table, bundle, done, met>>

Step(l) ==
  \/ \E b \in Bundle : Start(l, b)
  \/ Flush(l)
  \/ FlushUnanswered(l)
  \/ Fail(l)
  \/ Finish(l)

Next == \E l \in Loader : Step(l)

Spec == Init /\ [][Next]_vars

--------------------------------------------------------------------------------
(* What must hold. *)

(* The row of k that b alone leaves: that of its last batch with k. *)
LastRow(b, k) ==
  [bundle |-> b,
   batch |-> CHOOSE n \in 1..Len(Batches[b]) :
               k \in Batches[b][n] /\ \A m \in (n + 1)..Len(Batches[b]) : k \notin Batches[b][m]]

KeysOf(b) == UNION {Batches[b][n] : n \in 1..Len(Batches[b])}

(* A load that succeeds, and during which no other wrote, leaves the last  *)
(* row of its input under each of its keys, however many interrupted loads *)
(* it repeats or follows.                                                  *)
RetryConverges ==
  [][\A l \in Loader :
       (pc[l] = "run" /\ pc'[l] = "ok" /\ met[l] = "no") =>
         \A k \in KeysOf(bundle[l]) : table'[k] = LastRow(bundle[l], k)]_vars
================================================================================
