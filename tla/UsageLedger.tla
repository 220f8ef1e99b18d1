------------------------------ MODULE UsageLedger ------------------------------
(***************************************************************************)
(* What the usage meter promises, independently of channels, goroutines    *)
(* and batches: every event the meter has accepted is settled at most once.*)
(* Settling a set of events either adds all of it to usage_log, in one     *)
(* transaction, or loses all of it; an event that was lost or logged is    *)
(* never settled again.  usage_log therefore never bills more than was     *)
(* accepted.  The detailed specification UsageMeter implements this one.   *)
(***************************************************************************)
EXTENDS Integers, Sequences, FiniteSets

CONSTANT Class      \* (api key, normalized endpoint, minute): a usage_log row

VARIABLES accepted, \* the events accepted so far, each reduced to its class
          logged,   \* the events (positions of accepted) billed in usage_log
          lost,     \* the events that will never be billed
          usageLog  \* usageLog[c]: SUM(count) of the rows of class c

vars == <<accepted, logged, lost, usageLog>>

Event == 1..Len(accepted)
Pending == Event \ (logged \cup lost)

(* How many of the events in S are of class c. *)
CountIn(S, c) == Cardinality({i \in S : accepted[i] = c})

Init ==
  /\ accepted = << >>
  /\ logged = {}
  /\ lost = {}
  /\ usageLog = [c \in Class |-> 0]

Accept(c) ==
  /\ accepted' = Append(accepted, c)
  /\ UNCHANGED <<logged, lost, usageLog>>

(* One COPY transaction bills the events of S together. *)
Bill(S) ==
  /\ logged' = logged \cup S
  /\ usageLog' = [c \in Class |-> usageLog[c] + CountIn(S, c)]
  /\ UNCHANGED <<accepted, lost>>

Lose(S) ==
  /\ lost' = lost \cup S
  /\ UNCHANGED <<accepted, logged, usageLog>>

Next ==
  \/ \E c \in Class : Accept(c)
  \/ \E S \in SUBSET Pending : Bill(S) \/ Lose(S)

Spec == Init /\ [][Next]_vars
================================================================================
