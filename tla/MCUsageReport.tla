----------------------------- MODULE MCUsageReport -----------------------------
(***************************************************************************)
(* UsageReport for TLC: one billable endpoint and /v1/usage, in two        *)
(* minutes of which each begins a month.  In the second minute the event   *)
(* of a request for the report is always one that is dropped.              *)
(***************************************************************************)
EXTENDS UsageReport

CONSTANTS geo0, geo1, meta0

Classes == {geo0, geo1, meta0}
MetaClasses == {meta0}
MinuteOf == [c \in Classes |-> IF c \in {geo0, meta0} THEN 0 ELSE 1]
================================================================================
