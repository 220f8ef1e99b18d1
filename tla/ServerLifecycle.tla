---------------------------- MODULE ServerLifecycle ----------------------------
(***************************************************************************)
(* One b2d-server process after another on one database: the request path  *)
(* of internal/api/server.go (authentication with the monthly cap, rate    *)
(* limit, usage meter, handler) around the meter of UsageMeter, and the    *)
(* shutdown of cmd/b2d-server/main.go.                                     *)
(*                                                                         *)
(* The requests are those of one API key in one calendar month, so a class *)
(* is an endpoint in one minute; Meta is the class of /v1/usage, which the *)
(* cap neither blocks nor counts.                                          *)
(***************************************************************************)
EXTENDS Integers, Sequences, FiniteSets

CONSTANTS Class, MeterBuffer, FlushMax, MaxRequests, MaxLate, \* as in UsageMeter
          Meta,    \* the classes of /v1/usage
          Cap,     \* the key's monthly_cap, which is set
          Handler  \* connections the server has open at the same time

ASSUME LifecycleAssumption ==
  /\ MeterBuffer \in Nat \ {0}
  /\ FlushMax \in Nat \ {0}
  /\ MaxRequests \in Nat
  /\ MaxLate \in Nat
  /\ Class # {} /\ Meta \subseteq Class
  /\ Cap \in Nat \ {0}
  /\ IsFiniteSet(Handler)

VARIABLES
  accepted, taken, dropped, chan, pc, agg, n,  \* the meter
  usageLog, flushed, logged, lost, late,
  phase,    \* where main is
  drain,    \* how srv.Shutdown ended: "pending", "clean" or "timeout"
  hpc,      \* where each connection's request is
  class     \* its class, until it is metered or refused

meterVars == <<accepted, taken, dropped, chan, pc, agg, n, usageLog, flushed, logged, lost, late>>
handlerVars == <<hpc, class>>
mainVars == <<phase, drain>>
vars == <<meterVars, mainVars, handlerVars>>

M == INSTANCE UsageMeter

(* serving: waiting for a signal; draining: in srv.Shutdown; drained: it   *)
(* has returned; closing: in Meter.Close; metered: Close has returned and  *)
(* the deferred pool.Close is running; exited, crashed: no process.        *)
Phase == {"serving", "draining", "drained", "closing", "metered", "exited", "crashed"}
Alive == phase \notin {"exited", "crashed"}

(* auth: before the cap check; counted: past it and not yet metered;       *)
(* handling: metered; refused: answered 429 monthly_cap_exceeded;          *)
(* panicked: recovered in requestIDMiddleware.                             *)
HandlerPc == {"free", "auth", "counted", "handling", "refused", "panicked"}

TypeOK ==
  /\ M!TypeOK
  /\ phase \in Phase
  /\ drain \in {"pending", "clean", "timeout"}
  /\ hpc \in [Handler -> HandlerPc]
  /\ class \in [Handler -> Class]

NoClass == CHOOSE c \in Class : TRUE \* of a connection without a request

Init ==
  /\ M!Init
  /\ phase = "serving"
  /\ drain = "pending"
  /\ hpc = [h \in Handler |-> "free"]
  /\ class = [h \in Handler |-> NoClass]

--------------------------------------------------------------------------------
(* A request, from the listener to its answer. *)

Unmetered == {h \in Handler : hpc[h] \in {"auth", "counted"}}

(* Only a serving process accepts; Shutdown closes the listener first.     *)
Accept(h) ==
  /\ phase = "serving"
  /\ hpc[h] = "free"
  /\ Len(accepted) + dropped + Cardinality(Unmetered) < MaxRequests
  /\ hpc' = [hpc EXCEPT ![h] = "auth"]
  /\ \E c \in Class : class' = [class EXCEPT ![h] = c]
  /\ UNCHANGED <<meterVars, mainVars>>

(* SUM(count) over some classes, as the number of the requests summed up.  *)
Sum(classes) == Cardinality(UNION {{c} \X (1..usageLog[c]) : c \in classes})

Used_CountsMeta == Sum(Class)

(* monthlyUsage: SUM(count) of the month, without /v1/usage. *)
Used == Sum(Class \ Meta)

CapLeft_AtMost(c) == c \in Meta \/ Used <= Cap

CapLeft(c) == c \in Meta \/ Used < Cap

(* The key is good and its quota is not used up, as far as usage_log says. *)
PassAuth(h) ==
  /\ Alive
  /\ hpc[h] = "auth"
  /\ CapLeft(class[h])
  /\ hpc' = [hpc EXCEPT ![h] = "counted"]
  /\ UNCHANGED <<meterVars, mainVars, class>>

RefuseByCap(h) ==
  /\ Alive
  /\ hpc[h] = "auth"
  /\ ~CapLeft(class[h])
  /\ hpc' = [hpc EXCEPT ![h] = "refused"]
  /\ class' = [class EXCEPT ![h] = NoClass]
  /\ UNCHANGED <<meterVars, mainVars>>

(* The request ends before the meter: 401, 403 or 500 from authentication, *)
(* 429 from a rate limiter, or a connection that never sends its request.  *)
EndUnmetered(h) ==
  /\ Alive
  /\ hpc[h] \in {"auth", "counted"}
  /\ hpc' = [hpc EXCEPT ![h] = "free"]
  /\ class' = [class EXCEPT ![h] = NoClass]
  /\ UNCHANGED <<meterVars, mainVars>>

(* The meter's middleware, before the handler proper. *)
MeterRequest(h) ==
  /\ Alive
  /\ hpc[h] = "counted"
  /\ M!Send(class[h]) \/ M!Drop
  /\ hpc' = [hpc EXCEPT ![h] = "handling"]
  /\ class' = [class EXCEPT ![h] = NoClass]
  /\ UNCHANGED mainVars

(* A select with a send panics when the channel is closed, default or not; *)
(* requestIDMiddleware answers 500 and the process goes on.                *)
MeterPanics(h) ==
  /\ Alive
  /\ hpc[h] = "counted"
  /\ chan = "closed"
  /\ hpc' = [hpc EXCEPT ![h] = "panicked"]
  /\ class' = [class EXCEPT ![h] = NoClass]
  /\ UNCHANGED <<meterVars, mainVars>>

Finish(h) ==
  /\ Alive
  /\ hpc[h] \in {"handling", "refused", "panicked"}
  /\ hpc' = [hpc EXCEPT ![h] = "free"]
  /\ UNCHANGED <<meterVars, mainVars, class>>

--------------------------------------------------------------------------------
(* main *)

(* SIGINT or SIGTERM; a second one changes nothing. *)
Signal ==
  /\ phase = "serving"
  /\ phase' = "draining"
  /\ UNCHANGED <<meterVars, drain, handlerVars>>

NoRequest == \A h \in Handler : hpc[h] = "free"

ShutdownReturns_AtOnce ==
  /\ phase = "draining"
  /\ phase' = "drained"
  /\ drain' = "clean"
  /\ UNCHANGED <<meterVars, handlerVars>>

(* Shutdown returns nil when every connection is idle. *)
ShutdownReturns ==
  /\ phase = "draining"
  /\ NoRequest
  /\ phase' = "drained"
  /\ drain' = "clean"
  /\ UNCHANGED <<meterVars, handlerVars>>

ShutdownTimesOut_Never == FALSE /\ UNCHANGED vars

(* The ten seconds of shutCtx end first: the error is printed and main     *)
(* goes on, with handlers still running.                                   *)
ShutdownTimesOut ==
  /\ phase = "draining"
  /\ phase' = "drained"
  /\ drain' = "timeout"
  /\ UNCHANGED <<meterVars, handlerVars>>

CloseMeter ==
  /\ phase = "drained"
  /\ M!CloseChannel
  /\ phase' = "closing"
  /\ UNCHANGED <<drain, handlerVars>>

MeterClosed_NotAwaited ==
  /\ phase = "closing"
  /\ phase' = "metered"
  /\ UNCHANGED <<meterVars, drain, handlerVars>>

(* <-m.done *)
MeterClosed ==
  /\ phase = "closing"
  /\ pc = "done"
  /\ phase' = "metered"
  /\ UNCHANGED <<meterVars, drain, handlerVars>>

(* pool.Close returns once the remaining handlers hold no connection, and  *)
(* main returns; handlers that are still running end with the process.     *)
Exit ==
  /\ phase = "metered"
  /\ phase' = "exited"
  /\ hpc' = [h \in Handler |-> "free"]
  /\ class' = [h \in Handler |-> NoClass]
  /\ UNCHANGED <<meterVars, drain>>

(* A kill, or os.Exit(1) because ListenAndServe failed. *)
Crash ==
  /\ Alive
  /\ M!Crash \/ (pc = "done" /\ UNCHANGED meterVars)
  /\ phase' = "crashed"
  /\ hpc' = [h \in Handler |-> "free"]
  /\ class' = [h \in Handler |-> NoClass]
  /\ UNCHANGED drain

Restart ==
  /\ ~Alive
  /\ M!Restart
  /\ phase' = "serving"
  /\ drain' = "pending"
  /\ UNCHANGED handlerVars

MeterRun == UNCHANGED <<mainVars, handlerVars>> /\ M!Run

CommitLate == M!CommitLate /\ UNCHANGED <<mainVars, handlerVars>>

Main == ShutdownReturns \/ ShutdownTimesOut \/ CloseMeter \/ MeterClosed

Handle(h) ==
  \/ Accept(h)
  \/ PassAuth(h)
  \/ RefuseByCap(h)
  \/ EndUnmetered(h)
  \/ MeterRequest(h)
  \/ MeterPanics(h)
  \/ Finish(h)

Next ==
  \/ \E h \in Handler : Handle(h)
  \/ MeterRun
  \/ CommitLate
  \/ Signal
  \/ Main
  \/ Exit
  \/ Crash
  \/ Restart

Spec == Init /\ [][Next]_vars

(* The meter's goroutine and main are scheduled and the timeout of ten     *)
(* seconds fires.  No handler has to finish.                               *)
FairSpec == Spec /\ WF_vars(MeterRun) /\ WF_vars(Main)

--------------------------------------------------------------------------------
(* What must hold. *)

Billable == {i \in 1..Len(accepted) : accepted[i] \notin Meta}
PastCap == {h \in Handler : hpc[h] = "counted" /\ class[h] \notin Meta}

(* The cap is read from a log that lags, so it can be overrun, but only by *)
(* what can be on its way to the log: a full channel, a batch and the      *)
(* concurrent requests, and by what was not written in time.              *)
CapOverrunBounded ==
  Cardinality(Billable) + Cardinality(PastCap)
    <= (Cap - 1) + MeterBuffer + FlushMax + Cardinality(Handler)
       + Cardinality(Billable \cap lost)

(* No key is refused before it has used its quota: neither failures of the *)
(* inserts nor restarts nor polling /v1/usage count against it.            *)
NotRefusedEarly ==
  (\E h \in Handler : hpc[h] = "refused") => Cardinality(Billable \cap logged) >= Cap

(* A request is answered 500 because the meter is closed only when the     *)
(* drain timed out.                                                        *)
PanicOnlyAfterTimeout ==
  (\E h \in Handler : hpc[h] = "panicked") => drain = "timeout"

(* main lets go of the database, and ends, only after the meter has        *)
(* settled every event it accepted, also when the drain timed out.         *)
GracefulExitSettles == phase \in {"metered", "exited"} => M!Unsettled = {}

(* A signal stops the server as far as closing the database pool, even     *)
(* when handlers and inserts hang.                                         *)
SignalStops == phase = "draining" ~> phase \in {"metered", "crashed"}

(* The inductive invariant: what the state of main says about the meter    *)
(* and the requests.                                                       *)
IInv ==
  /\ TypeOK
  /\ M!IInv
  /\ phase \in {"serving", "draining", "drained"} => chan = "open"
  /\ phase \in {"closing", "metered", "exited"} => chan = "closed"
  /\ phase \in {"metered", "exited"} => pc = "done"
  /\ phase = "crashed" => pc \in {"done", "dead"}
  /\ Alive => pc # "dead"
  /\ phase \in {"serving", "draining"} => drain = "pending"
  /\ phase \in {"drained", "closing", "metered", "exited"} => drain # "pending"
  /\ drain = "clean" => NoRequest
  /\ ~Alive => NoRequest
  /\ PanicOnlyAfterTimeout
================================================================================
