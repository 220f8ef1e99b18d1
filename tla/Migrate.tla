-------------------------------- MODULE Migrate --------------------------------
(***************************************************************************)
(* store.Migrate: the embedded files, in the order of their names, each in *)
(* a transaction of its own that also records the name in                  *)
(* schema_migrations.  Several migrators, of older and newer releases, may *)
(* run at once and be interrupted anywhere: nothing but the primary key of *)
(* schema_migrations keeps them from applying a file twice.                *)
(***************************************************************************)
EXTENDS Naturals

CONSTANTS Migrator,  \* processes that may run `b2d-etl migrate'
          File,      \* file names, as their numbers
          Release    \* the sets of files a release may embed

ASSUME MigrateAssumption ==
  /\ File \subseteq Nat
  /\ Release \subseteq SUBSET File

VARIABLES
  there,    \* "yes" once schema_migrations exists
  recorded, \* the files schema_migrations names
  applied,  \* applied[f]: how often the statements of f were committed
  pc,       \* pc[m]: see Pc
  files,    \* files[m]: the files m embeds
  left,     \* left[m]: those it has still to look at
  open      \* open[m]: what its open transaction has done: "sql", "name"

vars == <<there, recorded, applied, pc, files, left, open>>

Pc == {"idle", "create", "check", "apply", "record", "commit", "ok", "failed"}

Running(m) == pc[m] \notin {"idle", "ok", "failed"}

TypeOK ==
  /\ there \in {"no", "yes"}
  /\ recorded \subseteq File
  /\ applied \in [File -> Nat]
  /\ pc \in [Migrator -> Pc]
  /\ files \in [Migrator -> SUBSET File]
  /\ left \in [Migrator -> SUBSET File]
  /\ open \in [Migrator -> SUBSET {"sql", "name"}]

Init ==
  /\ there = "no"
  /\ recorded = {}
  /\ applied = [f \in File |-> 0]
  /\ pc = [m \in Migrator |-> "idle"]
  /\ files = [m \in Migrator |-> {}]
  /\ left = [m \in Migrator |-> {}]
  /\ open = [m \in Migrator |-> {}]

--------------------------------------------------------------------------------
(* sort.Strings: f is the next file m looks at. *)
IsNext_Unsorted(m, f) == f \in left[m]

IsNext(m, f) == f \in left[m] /\ \A g \in left[m] : f <= g

Start(m, r) ==
  /\ ~Running(m)
  /\ pc' = [pc EXCEPT ![m] = "create"]
  /\ files' = [files EXCEPT ![m] = r]
  /\ left' = [left EXCEPT ![m] = r]
  /\ UNCHANGED <<there, recorded, applied, open>>

(* CREATE TABLE IF NOT EXISTS schema_migrations *)
CreateTable(m) ==
  /\ pc[m] = "create"
  /\ there' = "yes"
  /\ pc' = [pc EXCEPT ![m] = "check"]
  /\ UNCHANGED <<recorded, applied, files, left, open>>

(* A file that is recorded is skipped. *)
Skip(m, f) ==
  /\ pc[m] = "check"
  /\ IsNext(m, f)
  /\ f \in recorded
  /\ left' = [left EXCEPT ![m] = @ \ {f}]
  /\ UNCHANGED <<there, recorded, applied, pc, files, open>>

(* One that is not is going to be applied, whatever happens in between. *)
Check(m, f) ==
  /\ pc[m] = "check"
  /\ IsNext(m, f)
  /\ f \notin recorded
  /\ pc' = [pc EXCEPT ![m] = "apply"]
  /\ UNCHANGED <<there, recorded, applied, files, left, open>>

(* BEGIN and the statements of the file.  Whether they wait for, or fail   *)
(* because of, another migrator's depends on the file; both are allowed.   *)
Apply(m) ==
  /\ pc[m] = "apply"
  /\ open' = [open EXCEPT ![m] = {"sql"}]
  /\ pc' = [pc EXCEPT ![m] = "record"]
  /\ UNCHANGED <<there, recorded, applied, files, left>>

(* The row of f is in another transaction that has yet to end. *)
NameInserted(m, f) == \E o \in Migrator \ {m} : IsNext(o, f) /\ "name" \in open[o]

Record_NoKey(m, f) ==
  /\ pc[m] = "record"
  /\ IsNext(m, f)
  /\ open' = [open EXCEPT ![m] = @ \union {"name"}]
  /\ pc' = [pc EXCEPT ![m] = "commit"]
  /\ UNCHANGED <<there, recorded, applied, files, left>>

(* INSERT INTO schema_migrations: it waits for the transaction that has    *)
(* inserted the same name, and is refused when the name is committed (see  *)
(* Fail).                                                                  *)
Record(m, f) ==
  /\ pc[m] = "record"
  /\ IsNext(m, f)
  /\ f \notin recorded
  /\ ~NameInserted(m, f)
  /\ open' = [open EXCEPT ![m] = @ \union {"name"}]
  /\ pc' = [pc EXCEPT ![m] = "commit"]
  /\ UNCHANGED <<there, recorded, applied, files, left>>

(* What PostgreSQL keeps of the open transaction of m. *)
Commits(m, f) ==
  /\ pc[m] = "commit"
  /\ IsNext(m, f)
  /\ applied' = IF "sql" \in open[m] THEN [applied EXCEPT ![f] = @ + 1] ELSE applied
  /\ recorded' = IF "name" \in open[m] THEN recorded \union {f} ELSE recorded
  /\ open' = [open EXCEPT ![m] = {}]
  /\ UNCHANGED <<there, files>>

Commit(m, f) ==
  /\ Commits(m, f)
  /\ pc' = [pc EXCEPT ![m] = "check"]
  /\ left' = [left EXCEPT ![m] = @ \ {f}]

(* The file is committed, but the answer never arrives or m ends first. *)
CommitUnanswered(m, f) ==
  /\ Commits(m, f)
  /\ pc' = [pc EXCEPT ![m] = "failed"]
  /\ UNCHANGED left

Fail_KeepsOpen(m) ==
  /\ Running(m)
  /\ pc' = [pc EXCEPT ![m] = "failed"]
  /\ UNCHANGED <<there, recorded, applied, files, left, open>>

Fail_GoesOn(m) ==
  /\ Running(m)
  /\ pc' = [pc EXCEPT ![m] = "check"]
  /\ \E f \in File : IsNext(m, f) /\ left' = [left EXCEPT ![m] = @ \ {f}]
  /\ open' = [open EXCEPT ![m] = {}]
  /\ UNCHANGED <<there, recorded, applied, files>>

(* A statement is refused, the connection lost or the process killed: the  *)
(* transaction is rolled back and Migrate returns the error.               *)
Fail(m) ==
  /\ Running(m)
  /\ pc' = [pc EXCEPT ![m] = "failed"]
  /\ open' = [open EXCEPT ![m] = {}]
  /\ UNCHANGED <<there, recorded, applied, files, left>>

(* The key refuses the name that another migrator has committed. *)
Refuse(m, f) ==
  /\ pc[m] = "record"
  /\ IsNext(m, f)
  /\ f \in recorded
  /\ Fail(m)

Finish(m) ==
  /\ pc[m] = "check"
  /\ left[m] = {}
  /\ pc' = [pc EXCEPT ![m] = "ok"]
  /\ UNCHANGED <<there, recorded, applied, files, left, open>>

(* The steps a running migrator takes by itself. *)
Proceed(m) ==
  \/ CreateTable(m)
  \/ \E f \in File : Skip(m, f) \/ Check(m, f) \/ Record(m, f) \/ Refuse(m, f) \/ Commit(m, f)
  \/ Apply(m)
  \/ Finish(m)

Step(m) ==
  \/ \E r \in Release : Start(m, r)
  \/ Proceed(m)
  \/ \E f \in File : CommitUnanswered(m, f)
  \/ Fail(m)

Next == \E m \in Migrator : Step(m)

Spec == Init /\ [][Next]_vars

(* A migrator that runs is scheduled and PostgreSQL answers it; it wakes   *)
(* who waits for a name each time the transaction that holds it ends.      *)
FairSpec ==
  Spec /\ \A m \in Migrator : WF_vars(Proceed(m)) /\ SF_vars(\E f \in File : Record(m, f))

--------------------------------------------------------------------------------
(* What must hold. *)

(* The statements of a file are in the schema once if schema_migrations    *)
(* names it and not at all if it does not, however migrators overlap and   *)
(* whenever they end.                                                      *)
AppliedOnce == \A f \in File : applied[f] = IF f \in recorded THEN 1 ELSE 0

(* Migrate returns nil only when every file of its release is applied.     *)
SuccessIsComplete == \A m \in Migrator : pc[m] = "ok" => files[m] \subseteq recorded

(* A file is applied by a migrator that is past all the files before it in *)
(* its own release: they are recorded by then.                             *)
InOrder ==
  [][\A f \in recorded' \ recorded :
       \E m \in Migrator :
         /\ pc[m] = "commit" /\ f \in files[m]
         /\ \A g \in files[m] : g < f => g \in recorded]_vars

(* A migrator ends: it never waits for another for good. *)
MigratorEnds == \A m \in Migrator : Running(m) ~> ~Running(m)

(* The inductive invariant: what a migrator has passed is recorded, and    *)
(* what its transaction has done follows from where it is; two never hold  *)
(* the same name.                                                          *)
OpenAt(m) ==
  open[m] = CASE pc[m] = "record" -> {"sql"}
              [] pc[m] = "commit" -> {"sql", "name"}
              [] OTHER -> {}

Passed(m) ==
  /\ left[m] \subseteq files[m]
  /\ \A f \in files[m] \ left[m] : f \in recorded /\ \A g \in left[m] : f < g
  /\ pc[m] # "idle" => files[m] \in Release

OneHolder ==
  \A m, o \in Migrator : \A f \in File :
    (pc[m] = "commit" /\ pc[o] = "commit" /\ IsNext(m, f) /\ IsNext(o, f)) => m = o

HeldIsNew == \A m \in Migrator : \A f \in File : (pc[m] = "commit" /\ IsNext(m, f)) => f \notin recorded

IInv ==
  /\ TypeOK
  /\ AppliedOnce
  /\ SuccessIsComplete
  /\ \A m \in Migrator : OpenAt(m) /\ Passed(m)
  /\ OneHolder
  /\ HeldIsNew
================================================================================
