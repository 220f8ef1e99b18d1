------------------------------ MODULE UsageReport ------------------------------
(***************************************************************************)
(* usageHandler over the running meter: GET /v1/usage is metered like      *)
(* every request and then answered from two queries of usage_log, the      *)
(* counts per endpoint of all time and the month's use, while batches are  *)
(* committed and months begin between them.                                *)
(*                                                                         *)
(* A Class of UsageMeter is (key, endpoint, minute); here it is the        *)
(* reader's key.  The minute is the one in which the request came.         *)
(***************************************************************************)
EXTENDS UsageMeter

CONSTANTS Meta,        \* the classes of endpoint /v1/usage
          Minute,      \* Minute[c]: the bucket of c
          MonthLength, \* minutes in a month
          LastMinute   \* bound: the clock stops here

ASSUME ReportAssumption ==
  /\ Meta \subseteq Class
  /\ Minute \in [Class -> Nat]
  /\ MonthLength \in Nat \ {0}
  /\ LastMinute \in Nat

VARIABLES
  now,   \* the current minute
  left,  \* the queries that usageHandler has yet to run
  items, \* what the first one read: counts per class
  used,  \* what the second one read
  month, \* the month it read, by its first minute
  begun  \* history: events accepted before the request was

reportVars == <<left, items, used, month, begun>>
allVars == <<vars, now, reportVars>>

Billable == Class \ Meta

(* date_trunc('month', now()) *)
MonthStart == now - (now % MonthLength)

InMonth_AfterStart(c) == Minute[c] > MonthStart

(* bucket >= date_trunc('month', now()) *)
InMonth(c) == Minute[c] >= MonthStart

(* SUM(count) over the rows of classes S: a unit for each unit of each row. *)
Units(counts, S) == UNION {{c} \X (1..counts[c]) : c \in S}
Total(counts, S) == Cardinality(Units(counts, S))

ReportInit ==
  /\ Init
  /\ now = 0
  /\ left = << >>
  /\ items = Empty
  /\ used = 0
  /\ month = 0
  /\ begun = 0

--------------------------------------------------------------------------------
Queries_Swapped == <<"used", "items", "send">>

(* usageHandler asks for the items, then for the month, then answers. *)
Queries == <<"items", "used", "send">>

(* The middleware meters the request, or drops its event, before the       *)
(* handler runs.                                                           *)
Begin ==
  /\ left = << >>
  /\ Drop \/ \E c \in Meta : Minute[c] = now /\ Send(c)
  /\ left' = Queries
  /\ begun' = Len(accepted)
  /\ UNCHANGED <<now, items, used, month>>

Proceed(query) == left # << >> /\ Head(left) = query /\ left' = Tail(left)

(* SELECT endpoint, SUM(count) ... GROUP BY endpoint *)
ReadItems ==
  /\ Proceed("items")
  /\ items' = usageLog
  /\ UNCHANGED <<vars, now, used, month, begun>>

(* The month's calls without those of /v1/usage, as monthlyUsage counts    *)
(* them for the cap.                                                       *)
ReadUsed ==
  /\ Proceed("used")
  /\ used' = Total(usageLog, {c \in Billable : InMonth(c)})
  /\ month' = MonthStart
  /\ UNCHANGED <<vars, now, items, begun>>

Forget ==
  /\ left' = << >>
  /\ items' = Empty
  /\ used' = 0
  /\ month' = 0
  /\ begun' = 0

(* The answer is sent, or a query fails and a 500 is. *)
End ==
  /\ left # << >>
  /\ Forget
  /\ UNCHANGED <<vars, now>>

(* Every other request, in its minute *)
Metered ==
  /\ Drop \/ \E c \in Billable : Minute[c] = now /\ Send(c)
  /\ UNCHANGED <<now, reportVars>>

Clock ==
  /\ now < LastMinute
  /\ now' = now + 1
  /\ UNCHANGED <<vars, reportVars>>

(* The process ends with its handlers. *)
Process ==
  /\ Crash \/ Restart
  /\ Forget
  /\ UNCHANGED now

MeterRun == (Run \/ CommitLate \/ CloseChannel) /\ UNCHANGED <<now, reportVars>>

ReportNext ==
  \/ Begin
  \/ ReadItems
  \/ ReadUsed
  \/ End
  \/ Metered
  \/ Clock
  \/ Process
  \/ MeterRun

(* As UsageMeter: the goroutine is scheduled and every insert ends. *)
ReportSpec ==
  ReportInit /\ [][ReportNext]_allVars /\ WF_allVars(Run /\ UNCHANGED <<now, reportVars>>)

--------------------------------------------------------------------------------
(* What must hold. *)

(* The two queries have a snapshot each.  Whatever is committed between    *)
(* them, and when the month ends there too, the month's use that is        *)
(* reported is not less than the items of that month that are (so          *)
(* month_remaining is not more than they leave).                           *)
ItemsWithinUsed ==
  left = <<"send">> => Total(items, {c \in Billable : Minute[c] >= month}) <= used

(* The month's use that is reported misses only requests whose event is    *)
(* still on its way or was lost, and counts none twice: month_remaining is *)
(* wrong by no more than the meter's lag.                                  *)
RemainingHonest ==
  [][(left # << >> /\ Head(left) = "used" /\ left' = Tail(left)) =>
       LET due(k) == {i \in 1..k : accepted[i] \in Billable /\ Minute[accepted[i]] >= MonthStart}
           missed == due(begun) \cap (Unsettled \cup (lost \ logged))
       IN  /\ used' + Cardinality(missed) >= Cardinality(due(begun))
           /\ used' <= Cardinality(due(Len(accepted)))]_allVars

(* The inductive invariant beside the meter's: what the handler has read   *)
(* so far the table has outgrown, and what it answers agrees with itself.  *)
ReportInv ==
  /\ left \in {<< >>, Queries, <<"used", "send">>, <<"send">>}
  /\ left # << >> => begun \in 0..Len(accepted)
  /\ left = <<"used", "send">> => \A c \in Class : items[c] \in 0..usageLog[c]
  /\ ItemsWithinUsed
================================================================================
