------------------------------- MODULE UsageMeter -------------------------------
(***************************************************************************)
(* internal/meter/meter.go: the request path puts one event per            *)
(* authenticated request into a bounded channel without ever blocking; one *)
(* goroutine (run) aggregates the events and writes them to usage_log in   *)
(* batches; Close drains what is left.                                     *)
(*                                                                         *)
(* The channel is an immutable queue: accepted is every event ever sent    *)
(* and taken counts those the goroutine has received, so the channel holds *)
(* the events taken+1 .. Len(accepted).  An event is reduced to its        *)
(* aggregation key (api key, normalized endpoint, minute), a Class.        *)
(***************************************************************************)
EXTENDS Integers, Sequences, FiniteSets

CONSTANTS Class,       \* the aggregation keys
          MeterBuffer, \* capacity of the channel (meterBuffer)
          FlushMax,    \* batch size that forces a flush (flushMaxItems)
          MaxRequests, \* bound: events accepted so far plus drops of this process
          MaxLate      \* bound: events whose insert may be committed after it was given up

ASSUME MeterAssumption ==
  /\ MeterBuffer \in Nat \ {0}
  /\ FlushMax \in Nat \ {0}
  /\ MaxRequests \in Nat
  /\ MaxLate \in Nat

VARIABLES
  accepted, \* history: events sent into the channel, in order
  taken,    \* how many of them run has received
  dropped,  \* events discarded because the channel was full
  chan,     \* "open" until close(m.ch)
  pc,       \* where run is
  agg,      \* run's aggregation map; a missing key counts 0
  n,        \* run's count of events in agg
  usageLog, \* the usage_log table: SUM(count) per class
  flushed,  \* history: run has emptied agg after event number `flushed'
  logged,   \* history: the events counted by a committed insert
  lost,     \* history: the events given up before an insert of them was committed
  late      \* the given up inserts that may still be committed: sets of events

chanVars == <<accepted, taken, dropped, chan>>
runVars == <<pc, agg, n>>
vars == <<chanVars, runVars, usageLog, flushed, logged, lost, late>>

(* select: waiting in the select; insert: CopyFrom issued, not committed;  *)
(* committed: the server has committed it, CopyFrom has not returned; the  *)
(* final- states are the same insert on the path of the closed channel;    *)
(* done: run has returned; dead: the process is gone.                      *)
RunPc == {"select", "insert", "committed", "finalInsert", "finalCommitted",
          "done", "dead"}

ChanLen == Len(accepted) - taken
Empty == [c \in Class |-> 0]
Unflushed == flushed + 1 .. taken

OfClass(S, c) == {i \in S : accepted[i] = c}
CountIn(S, c) == Cardinality(OfClass(S, c))

(* What an insert may hold. *)
Batch == SUBSET (1..Len(accepted))

TypeOK ==
  /\ accepted \in Seq(Class)
  /\ taken \in 0..Len(accepted)
  /\ dropped \in Nat
  /\ chan \in {"open", "closed"}
  /\ pc \in RunPc
  /\ agg \in [Class -> Nat]
  /\ n \in Nat
  /\ usageLog \in [Class -> Nat]
  /\ flushed \in 0..taken
  /\ logged \in SUBSET (1..Len(accepted))
  /\ lost \in SUBSET (1..Len(accepted))
  /\ late \subseteq Batch

Init ==
  /\ accepted = << >>
  /\ taken = 0
  /\ dropped = 0
  /\ chan = "open"
  /\ pc = "select"
  /\ agg = Empty
  /\ n = 0
  /\ usageLog = Empty
  /\ flushed = 0
  /\ logged = {}
  /\ lost = {}
  /\ late = {}

--------------------------------------------------------------------------------
(* The request path.  A send on a closed channel panics instead: that case *)
(* belongs to the caller and is modelled in ServerLifecycle.               *)

CanMeter == Len(accepted) + dropped < MaxRequests

Send(c) ==
  /\ CanMeter
  /\ chan = "open"
  /\ pc # "dead"
  /\ ChanLen < MeterBuffer
  /\ accepted' = Append(accepted, c)
  /\ UNCHANGED <<taken, dropped, chan, runVars, usageLog, flushed, logged, lost, late>>

Drop ==
  /\ CanMeter
  /\ chan = "open"
  /\ pc # "dead"
  /\ ChanLen >= MeterBuffer
  /\ dropped' = dropped + 1
  /\ UNCHANGED <<accepted, taken, chan, runVars, usageLog, flushed, logged, lost, late>>

(* Close, first half; the caller then waits for run to be done. *)
CloseChannel ==
  /\ chan = "open"
  /\ pc # "dead"
  /\ chan' = "closed"
  /\ UNCHANGED <<accepted, taken, dropped, runVars, usageLog, flushed, logged, lost, late>>

--------------------------------------------------------------------------------
(* The run goroutine. *)

BatchFull_OffByOne == n + 1 > FlushMax

(* The event about to be counted completes a batch. *)
BatchFull == n + 1 >= FlushMax

Receive ==
  /\ pc = "select"
  /\ ChanLen > 0
  /\ taken' = taken + 1
  /\ agg' = [agg EXCEPT ![accepted[taken + 1]] = @ + 1]
  /\ n' = n + 1
  /\ pc' = IF BatchFull THEN "insert" ELSE "select"
  /\ UNCHANGED <<accepted, dropped, chan, usageLog, flushed, logged, lost, late>>

Tick_Never == FALSE /\ UNCHANGED vars

(* The ticker fires; flush of an empty map returns at once and changes     *)
(* nothing.                                                                *)
Tick ==
  /\ pc = "select"
  /\ agg # Empty
  /\ pc' = "insert"
  /\ UNCHANGED <<chanVars, agg, n, usageLog, flushed, logged, lost, late>>

(* Receiving from the closed and drained channel: the last flush. *)
ReceiveClosed ==
  /\ pc = "select"
  /\ chan = "closed"
  /\ ChanLen = 0
  /\ pc' = IF agg = Empty THEN "done" ELSE "finalInsert"
  /\ UNCHANGED <<chanVars, agg, n, usageLog, flushed, logged, lost, late>>

Inserting == pc \in {"insert", "finalInsert"}
Committed == pc \in {"committed", "finalCommitted"}

(* PostgreSQL commits the COPY of agg. *)
CommitInsert ==
  /\ Inserting
  /\ pc' = IF pc = "insert" THEN "committed" ELSE "finalCommitted"
  /\ usageLog' = [c \in Class |-> usageLog[c] + agg[c]]
  /\ logged' = logged \cup Unflushed
  /\ UNCHANGED <<chanVars, agg, n, flushed, lost, late>>

(* What flush does when insert returns, with or without an error: run goes *)
(* on with an empty map, or returns when this was the last flush.          *)
ResetBatch ==
  /\ agg' = Empty
  /\ n' = 0
  /\ flushed' = taken
  /\ pc' = IF pc \in {"finalInsert", "finalCommitted"} THEN "done" ELSE "select"

InsertReturns_RetryOnError ==
  /\ Committed
  /\ \/ ResetBatch
     \/ pc' = "select" /\ UNCHANGED <<agg, n, flushed>>
  /\ UNCHANGED <<chanVars, usageLog, logged, lost, late>>

(* CopyFrom returns after the commit: nil, or an error when the answer was *)
(* lost or the five seconds ended first.  The error is only printed.       *)
InsertReturns ==
  /\ Committed
  /\ ResetBatch
  /\ UNCHANGED <<chanVars, usageLog, logged, lost, late>>

(* A batch that is given up is gone, or PostgreSQL may yet commit it. *)
MayStay ==
  LET outlived == (lost \cap logged) \cup UNION late
  IN  {late} \cup (IF Inserting /\ Cardinality(outlived \cup Unflushed) <= MaxLate
                    THEN {late \cup {Unflushed}} ELSE {})

(* CopyFrom fails before the commit, or the five seconds end first. *)
InsertFails ==
  /\ Inserting
  /\ ResetBatch
  /\ lost' = lost \cup Unflushed
  /\ late' \in MayStay
  /\ UNCHANGED <<chanVars, usageLog, logged>>

(* PostgreSQL commits an insert that was given up; one that it rolls back  *)
(* is one that it never commits.                                           *)
CommitLate ==
  /\ \E batch \in late :
       /\ late' = late \ {batch}
       /\ usageLog' = [c \in Class |-> usageLog[c] + CountIn(batch, c)]
       /\ logged' = logged \cup batch
  /\ UNCHANGED <<chanVars, runVars, flushed, lost>>

--------------------------------------------------------------------------------
(* The process. *)

(* The process dies (kill, os.Exit): the channel and the map are gone.  A  *)
(* COPY the server has committed stays, and one that was sent to it may    *)
(* still be committed.                                                     *)
Crash ==
  /\ pc \notin {"done", "dead"}
  /\ pc' = "dead"
  /\ taken' = Len(accepted)
  /\ flushed' = Len(accepted)
  /\ agg' = Empty
  /\ n' = 0
  /\ lost' = lost \cup (1..Len(accepted) \ logged)
  /\ late' \in MayStay
  /\ UNCHANGED <<accepted, dropped, chan, usageLog, logged>>

(* A new process: New() on the same database. *)
Restart ==
  /\ pc \in {"done", "dead"}
  /\ pc' = "select"
  /\ chan' = "open"
  /\ dropped' = 0
  /\ UNCHANGED <<accepted, taken, agg, n, usageLog, flushed, logged, lost, late>>

Run ==
  \/ Receive
  \/ Tick
  \/ ReceiveClosed
  \/ CommitInsert
  \/ InsertReturns
  \/ InsertFails

Next ==
  \/ \E c \in Class : Send(c)
  \/ Drop
  \/ CloseChannel
  \/ Run
  \/ CommitLate
  \/ Crash
  \/ Restart

Spec == Init /\ [][Next]_vars

(* The goroutine is scheduled, the ticker keeps firing and the five second *)
(* timeout ends every CopyFrom; nothing obliges a request, Close, a crash  *)
(* or a restart to happen, or PostgreSQL to commit what was given up.       *)
FairSpec == Spec /\ WF_vars(Run)

--------------------------------------------------------------------------------
(* What must hold. *)

Unsettled == 1..Len(accepted) \ (logged \cup lost)

(* usage_log bills each class for exactly the events whose insert was      *)
(* committed, in time or after it was given up, and no insert that may     *)
(* still be committed holds an event that is billed already: an insert     *)
(* that ended with an error is not repeated, for all the error says.       *)
BilledExactlyOnce ==
  /\ \A c \in Class : usageLog[c] = CountIn(logged, c)
  /\ \A batch \in late : batch \cap logged = {}

(* Whatever the order of requests, flushes and failures, at most a full    *)
(* channel and one batch are waiting to be billed: this is all a crash can *)
(* lose and all that usage_log can lag behind, but for the inserts that    *)
(* failed.                                                                 *)
UnsettledBounded == Cardinality(Unsettled) <= MeterBuffer + FlushMax

(* When Close returns, no accepted event is left unwritten in the channel  *)
(* or the map: each is billed, or was in an insert that failed.            *)
CloseDrains == pc = "done" => Unsettled = {}

(* The events no insert will ever count *)
Gone == lost \ (logged \cup UNION late)

(* The abstract ledger, for which an event is pending as long as an insert *)
(* of it may be committed.                                                 *)
Ledger == INSTANCE UsageLedger WITH lost <- Gone
LedgerSpec == Ledger!Spec

(* An accepted event is sooner or later billed or given up: it does not    *)
(* stay in the channel or in a batch that never fills.                     *)
EventsSettle ==
  \A i \in 1..MaxRequests : (i \in 1..Len(accepted)) ~> (i \in logged \cup lost)

(* run's map is exactly the events received since the last flush, class by *)
(* class, and n is their number.                                           *)
BatchExact ==
  /\ n = taken - flushed
  /\ \A c \in Class : agg[c] = CountIn(Unflushed, c)

(* The inserts given up are of given up events and share none. *)
LateApart ==
  /\ \A batch \in late : batch \subseteq lost
  /\ \A b, d \in late : b = d \/ b \cap d = {}

(* The inductive invariant.  Beyond the types: run's map and counter agree *)
(* with what it received since its last flush; batches are settled in the  *)
(* order of the channel, so the settled events are always a prefix of the  *)
(* accepted ones; the inserts given up share no event; and a goroutine on  *)
(* its way out has a drained channel.                                      *)
IInv ==
  /\ TypeOK
  /\ BatchExact
  /\ BilledExactlyOnce
  /\ n <= FlushMax
  /\ pc = "select" => n < FlushMax
  /\ ChanLen <= MeterBuffer
  /\ logged \cup lost = IF Committed THEN 1..taken ELSE 1..flushed
  /\ Committed => Unflushed \subseteq logged
  /\ LateApart
  /\ pc \in {"finalInsert", "finalCommitted", "done"} => chan = "closed" /\ ChanLen = 0
  /\ pc \in {"done", "dead"} => flushed = Len(accepted)

================================================================================
