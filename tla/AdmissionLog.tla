------------------------------ MODULE AdmissionLog ------------------------------
(***************************************************************************)
(* What the rate limiter promises, without buckets: each subject (an API   *)
(* key or an IP address) has the log of the instants at which its admitted *)
(* requests arrived, and a request is admitted exactly when the log stays  *)
(* within the subject's rate over every window that ends with it.          *)
(***************************************************************************)
EXTENDS Integers, Sequences

CONSTANTS Subject, Request,
          Cost,  \* Cost[s]: the time that refills one token of s
          Burst  \* the time that refills a whole burst

VARIABLES pc, subj, at, grants

vars == <<pc, subj, at, grants>>

Init ==
  /\ pc = [r \in Request |-> "idle"]
  /\ subj \in [Request -> Subject]
  /\ at = [r \in Request |-> 0]
  /\ grants = [s \in Subject |-> << >>]

Arrive(r) ==
  /\ pc[r] = "idle"
  /\ pc' = [pc EXCEPT ![r] = "arrived"]
  /\ \E s \in Subject : subj' = [subj EXCEPT ![r] = s]
  /\ at'[r] \in Nat /\ at' = [at EXCEPT ![r] = at'[r]]
  /\ UNCHANGED grants

(* One more grant at instant t, after those of the log from the i-th on,   *)
(* is within a burst plus what the time from the i-th to t refills.        *)
Fits(s, t) ==
  \A i \in 1..Len(grants[s]) :
    Cost[s] * (Len(grants[s]) - i + 1) + Cost[s] <= Burst + t - grants[s][i]

Admit(r) ==
  /\ pc[r] = "arrived"
  /\ Fits(subj[r], at[r])
  /\ pc' = [pc EXCEPT ![r] = "admitted"]
  /\ grants' = [grants EXCEPT ![subj[r]] = Append(@, at[r])]
  /\ UNCHANGED <<subj, at>>

Refuse(r) ==
  /\ pc[r] = "arrived"
  /\ ~Fits(subj[r], at[r])
  /\ pc' = [pc EXCEPT ![r] = "refused"]
  /\ UNCHANGED <<subj, at, grants>>

Leave(r) ==
  /\ pc[r] \in {"admitted", "refused"}
  /\ pc' = [pc EXCEPT ![r] = "idle"]
  /\ at' = [at EXCEPT ![r] = 0]
  /\ UNCHANGED <<subj, grants>>

Next == \E r \in Request : Arrive(r) \/ Admit(r) \/ Refuse(r) \/ Leave(r)

Spec == Init /\ [][Next]_vars
================================================================================
