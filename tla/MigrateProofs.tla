----------------------------- MODULE MigrateProofs -----------------------------
(* Theorems about Migrate, for any migrators, files and releases. *)
EXTENDS Migrate, TLAPS

USE DEF Running

(* IsNext names one file at most. *)
LEMMA NextIsOne ==
  ASSUME TypeOK, NEW m \in Migrator, NEW f \in File, NEW g \in File, IsNext(m, f), IsNext(m, g)
  PROVE  f = g
BY MigrateAssumption DEF TypeOK, IsNext

LEMMA InitHolds == Init => IInv
<1> SUFFICES ASSUME Init PROVE IInv
  OBVIOUS
<1>1. TypeOK
  BY DEF Init, TypeOK, Pc
<1>2. AppliedOnce /\ SuccessIsComplete /\ OneHolder /\ HeldIsNew
  BY DEF Init, AppliedOnce, SuccessIsComplete, OneHolder, HeldIsNew
<1>3. \A m \in Migrator : OpenAt(m) /\ Passed(m)
  BY DEF Init, OpenAt, Passed
<1> QED
  BY <1>1, <1>2, <1>3 DEF IInv

(* A step of one migrator that commits nothing and leaves alone what the   *)
(* others do.                                                              *)
Quiet(m) ==
  /\ UNCHANGED <<recorded, applied>>
  /\ \A o \in Migrator \ {m} :
       pc'[o] = pc[o] /\ files'[o] = files[o] /\ left'[o] = left[o] /\ open'[o] = open[o]

(* Such a step preserves the invariant when it does so for its migrator    *)
(* and does not come to hold a name.                                       *)
LEMMA QuietStep ==
  ASSUME IInv, NEW m \in Migrator, Quiet(m), TypeOK', OpenAt(m)', Passed(m)',
         pc'[m] = "ok" => files'[m] \subseteq recorded,
         pc'[m] # "commit"
  PROVE  IInv'
<1>1. AppliedOnce'
  BY DEF IInv, AppliedOnce, Quiet
<1>2. SuccessIsComplete'
  BY DEF IInv, SuccessIsComplete, Quiet
<1>3. ASSUME NEW o \in Migrator PROVE OpenAt(o)' /\ Passed(o)'
  <2>1. CASE o = m
    BY <2>1
  <2>2. CASE o # m
    <3>1. OpenAt(o) /\ Passed(o)
      BY DEF IInv
    <3> QED
      BY <2>2, <3>1 DEF Quiet, OpenAt, Passed
  <2> QED
    BY <2>1, <2>2
<1>4. OneHolder'
  BY DEF IInv, OneHolder, Quiet, IsNext
<1>5. HeldIsNew'
  BY DEF IInv, HeldIsNew, Quiet, IsNext
<1> QED
  BY <1>1, <1>2, <1>3, <1>4, <1>5 DEF IInv

LEMMA StartHolds ==
  ASSUME IInv, NEW m \in Migrator, NEW r \in Release, Start(m, r)
  PROVE  IInv'
<1>1. TypeOK' /\ Quiet(m)
  BY MigrateAssumption DEF IInv, TypeOK, Start, Pc, Quiet
<1>2. OpenAt(m)'
  BY DEF IInv, TypeOK, Start, OpenAt
<1>3. Passed(m)' /\ pc'[m] = "create"
  BY DEF IInv, TypeOK, Start, Passed
<1> QED
  BY <1>1, <1>2, <1>3, QuietStep

LEMMA CreateTableHolds ==
  ASSUME IInv, NEW m \in Migrator, CreateTable(m)
  PROVE  IInv'
<1>1. TypeOK' /\ Quiet(m)
  BY DEF IInv, TypeOK, CreateTable, Pc, Quiet
<1>2. OpenAt(m)'
  BY DEF IInv, TypeOK, CreateTable, OpenAt
<1>3. Passed(m)' /\ pc'[m] = "check"
  BY DEF IInv, TypeOK, CreateTable, Passed
<1> QED
  BY <1>1, <1>2, <1>3, QuietStep

LEMMA SkipHolds ==
  ASSUME IInv, NEW m \in Migrator, NEW f \in File, Skip(m, f)
  PROVE  IInv'
<1>1. TypeOK' /\ Quiet(m)
  BY DEF IInv, TypeOK, Skip, Pc, Quiet
<1>2. OpenAt(m)'
  BY DEF IInv, TypeOK, Skip, OpenAt
<1>3. Passed(m)' /\ pc'[m] = "check"
  BY MigrateAssumption DEF IInv, TypeOK, Skip, Passed, IsNext
<1> QED
  BY <1>1, <1>2, <1>3, QuietStep

LEMMA CheckHolds ==
  ASSUME IInv, NEW m \in Migrator, NEW f \in File, Check(m, f)
  PROVE  IInv'
<1>1. TypeOK' /\ Quiet(m)
  BY DEF IInv, TypeOK, Check, Pc, Quiet
<1>2. OpenAt(m)'
  BY DEF IInv, TypeOK, Check, OpenAt
<1>3. Passed(m)' /\ pc'[m] = "apply"
  BY DEF IInv, TypeOK, Check, Passed
<1> QED
  BY <1>1, <1>2, <1>3, QuietStep

LEMMA ApplyHolds ==
  ASSUME IInv, NEW m \in Migrator, Apply(m)
  PROVE  IInv'
<1>1. TypeOK' /\ Quiet(m)
  BY DEF IInv, TypeOK, Apply, Pc, Quiet
<1>2. OpenAt(m)'
  BY DEF IInv, TypeOK, Apply, OpenAt
<1>3. Passed(m)' /\ pc'[m] = "record"
  BY DEF IInv, TypeOK, Apply, Passed
<1> QED
  BY <1>1, <1>2, <1>3, QuietStep

LEMMA FailHolds ==
  ASSUME IInv, NEW m \in Migrator, Fail(m)
  PROVE  IInv'
<1>1. TypeOK' /\ Quiet(m)
  BY DEF IInv, TypeOK, Fail, Pc, Quiet
<1>2. OpenAt(m)'
  BY DEF IInv, TypeOK, Fail, OpenAt
<1>3. Passed(m)' /\ pc'[m] = "failed"
  BY DEF IInv, TypeOK, Fail, Passed
<1> QED
  BY <1>1, <1>2, <1>3, QuietStep

LEMMA FinishHolds ==
  ASSUME IInv, NEW m \in Migrator, Finish(m)
  PROVE  IInv'
<1>1. TypeOK' /\ Quiet(m)
  BY DEF IInv, TypeOK, Finish, Pc, Quiet
<1>2. OpenAt(m)'
  BY DEF IInv, TypeOK, Finish, OpenAt
<1>3. Passed(m)' /\ pc'[m] = "ok" /\ files'[m] \subseteq recorded
  BY DEF IInv, TypeOK, Finish, Passed
<1> QED
  BY <1>1, <1>2, <1>3, QuietStep

(* The key: who inserts a name is the only one to hold it, and it is new.  *)
LEMMA RecordHolds ==
  ASSUME IInv, NEW m \in Migrator, NEW f \in File, Record(m, f)
  PROVE  IInv'
<1>1. TypeOK' /\ Quiet(m)
  BY DEF IInv, TypeOK, Record, Pc, Quiet
<1>2. pc'[m] = "commit" /\ open'[m] = {"sql", "name"}
  BY DEF IInv, TypeOK, Record, OpenAt
<1>3. AppliedOnce' /\ SuccessIsComplete'
  BY <1>1, <1>2 DEF IInv, AppliedOnce, SuccessIsComplete, Quiet
<1>4. ASSUME NEW o \in Migrator PROVE OpenAt(o)' /\ Passed(o)'
  <2>0. OpenAt(o) /\ Passed(o)
    BY DEF IInv
  <2>1. CASE o = m
    BY <2>0, <2>1, <1>2 DEF Record, OpenAt, Passed
  <2>2. CASE o # m
    BY <2>0, <2>2, <1>1 DEF Quiet, OpenAt, Passed
  <2> QED
    BY <2>1, <2>2
<1>5. \A g \in File : IsNext(m, g)' => g = f
  BY NextIsOne DEF IInv, Record, IsNext
<1>6. \A o \in Migrator \ {m} : ~(pc'[o] = "commit" /\ IsNext(o, f)')
  <2> SUFFICES ASSUME NEW o \in Migrator \ {m}, pc[o] = "commit", IsNext(o, f)
               PROVE  FALSE
    BY <1>1 DEF Quiet, IsNext
  <2>1. "name" \in open[o]
    BY DEF IInv, OpenAt
  <2> QED
    BY <2>1 DEF Record, NameInserted
<1>7. OneHolder'
  <2> SUFFICES ASSUME NEW a \in Migrator, NEW b \in Migrator, NEW g \in File,
                      pc'[a] = "commit", pc'[b] = "commit", IsNext(a, g)', IsNext(b, g)'
               PROVE  a = b
    BY DEF OneHolder
  <2>1. CASE a = m \/ b = m
    BY <2>1, <1>5, <1>6
  <2>2. CASE a # m /\ b # m
    BY <2>2, <1>1 DEF IInv, OneHolder, Quiet, IsNext
  <2> QED
    BY <2>1, <2>2
<1>8. HeldIsNew'
  <2> SUFFICES ASSUME NEW a \in Migrator, NEW g \in File, pc'[a] = "commit", IsNext(a, g)'
               PROVE  g \notin recorded
    BY <1>1 DEF HeldIsNew, Quiet
  <2>1. CASE a = m
    BY <2>1, <1>5 DEF Record
  <2>2. CASE a # m
    BY <2>2, <1>1 DEF IInv, HeldIsNew, Quiet, IsNext
  <2> QED
    BY <2>1, <2>2
<1> QED
  BY <1>1, <1>3, <1>4, <1>7, <1>8 DEF IInv

(* What every commit does: a new file is recorded and its statements count *)
(* for the first time.                                                     *)
LEMMA CommitsOnce ==
  ASSUME IInv, NEW m \in Migrator, NEW f \in File, Commits(m, f)
  PROVE  /\ f \notin recorded
         /\ recorded' = recorded \union {f}
         /\ applied' = [applied EXCEPT ![f] = @ + 1]
         /\ applied'[f] = 1
         /\ open' = [open EXCEPT ![m] = {}]
<1>1. f \notin recorded
  BY DEF IInv, HeldIsNew, Commits
<1>2. open[m] = {"sql", "name"}
  BY DEF IInv, OpenAt, Commits
<1>3. recorded' = recorded \union {f} /\ applied' = [applied EXCEPT ![f] = @ + 1]
  BY <1>2 DEF Commits
<1>4. applied[f] = 0 /\ applied \in [File -> Nat]
  BY <1>1 DEF IInv, AppliedOnce, TypeOK
<1> QED
  BY <1>1, <1>3, <1>4 DEF Commits

LEMMA CommitsHolds ==
  ASSUME IInv, NEW m \in Migrator, NEW f \in File, Commits(m, f), TypeOK',
         \A o \in Migrator \ {m} : pc'[o] = pc[o] /\ left'[o] = left[o],
         Passed(m)', pc'[m] \in {"check", "failed"}
  PROVE  IInv'
<1>1. /\ f \notin recorded
      /\ recorded' = recorded \union {f}
      /\ applied' = [applied EXCEPT ![f] = @ + 1]
      /\ applied'[f] = 1
      /\ open' = [open EXCEPT ![m] = {}]
  BY CommitsOnce
<1>2. AppliedOnce'
  <2> SUFFICES ASSUME NEW g \in File
               PROVE  applied'[g] = IF g \in recorded' THEN 1 ELSE 0
    BY DEF AppliedOnce
  <2>1. CASE g = f
    BY <2>1, <1>1
  <2>2. CASE g # f
    BY <2>2, <1>1 DEF IInv, AppliedOnce, TypeOK
  <2> QED
    BY <2>1, <2>2
<1>3. SuccessIsComplete'
  BY <1>1 DEF IInv, SuccessIsComplete, Commits
<1>4. ASSUME NEW o \in Migrator PROVE OpenAt(o)' /\ Passed(o)'
  <2>0. OpenAt(o) /\ Passed(o)
    BY DEF IInv
  <2>1. CASE o = m
    BY <2>1, <1>1 DEF IInv, TypeOK, OpenAt
  <2>2. CASE o # m
    BY <2>0, <2>2, <1>1 DEF IInv, TypeOK, Commits, OpenAt, Passed
  <2> QED
    BY <2>1, <2>2
<1>5. OneHolder'
  BY DEF IInv, OneHolder, IsNext
<1>6. HeldIsNew'
  <2> SUFFICES ASSUME NEW a \in Migrator, NEW g \in File, pc'[a] = "commit", IsNext(a, g)'
               PROVE  g \notin recorded'
    BY DEF HeldIsNew
  <2>1. a # m /\ pc[a] = "commit" /\ IsNext(a, g)
    BY DEF IsNext
  <2>2. g # f
    BY <2>1 DEF IInv, OneHolder, Commits
  <2>3. g \notin recorded
    BY <2>1 DEF IInv, HeldIsNew
  <2> QED
    BY <1>1, <2>2, <2>3
<1> QED
  BY <1>2, <1>3, <1>4, <1>5, <1>6 DEF IInv

LEMMA CommitHolds ==
  ASSUME IInv, NEW m \in Migrator, NEW f \in File, Commit(m, f)
  PROVE  IInv'
<1>1. /\ recorded' = recorded \union {f}
      /\ applied' = [applied EXCEPT ![f] = @ + 1]
      /\ open' = [open EXCEPT ![m] = {}]
  BY CommitsOnce DEF Commit
<1>2. TypeOK'
  BY <1>1 DEF IInv, TypeOK, Commit, Commits, Pc
<1>3. Passed(m)' /\ pc'[m] = "check"
  BY <1>1, MigrateAssumption DEF IInv, TypeOK, Commit, Commits, Passed, IsNext
<1>4. \A o \in Migrator \ {m} : pc'[o] = pc[o] /\ left'[o] = left[o]
  BY DEF IInv, TypeOK, Commit
<1> QED
  BY <1>2, <1>3, <1>4, CommitsHolds DEF Commit

LEMMA CommitUnansweredHolds ==
  ASSUME IInv, NEW m \in Migrator, NEW f \in File, CommitUnanswered(m, f)
  PROVE  IInv'
<1>1. /\ recorded' = recorded \union {f}
      /\ applied' = [applied EXCEPT ![f] = @ + 1]
      /\ open' = [open EXCEPT ![m] = {}]
  BY CommitsOnce DEF CommitUnanswered
<1>2. TypeOK'
  BY <1>1 DEF IInv, TypeOK, CommitUnanswered, Commits, Pc
<1>3. Passed(m)' /\ pc'[m] = "failed"
  BY <1>1 DEF IInv, TypeOK, CommitUnanswered, Commits, Passed
<1>4. \A o \in Migrator \ {m} : pc'[o] = pc[o] /\ left'[o] = left[o]
  BY DEF IInv, TypeOK, CommitUnanswered
<1> QED
  BY <1>2, <1>3, <1>4, CommitsHolds DEF CommitUnanswered

LEMMA StepHolds == IInv /\ [Next]_vars => IInv'
<1> SUFFICES ASSUME IInv, [Next]_vars PROVE IInv'
  OBVIOUS
<1>1. CASE UNCHANGED vars
  BY <1>1 DEF vars, IInv, TypeOK, AppliedOnce, SuccessIsComplete, OpenAt, Passed, OneHolder,
              HeldIsNew, IsNext
<1>2. ASSUME NEW m \in Migrator, Step(m) PROVE IInv'
  BY <1>2, StartHolds, CreateTableHolds, SkipHolds, CheckHolds, ApplyHolds, RecordHolds, FailHolds,
     CommitHolds, CommitUnansweredHolds, FinishHolds DEF Step, Proceed, Refuse
<1> QED
  BY <1>1, <1>2 DEF Next

(* The inductive invariant holds in every reachable state. *)
THEOREM MigrateInvariant == Spec => []IInv
BY InitHolds, StepHolds, PTL DEF Spec

(* A file's statements are committed exactly with its name, once, however  *)
(* many migrators run, fail and run again (migrate.go:49-63).              *)
THEOREM FilesApplyOnce == Spec => []AppliedOnce
<1>1. IInv => AppliedOnce
  BY DEF IInv
<1> QED
  BY <1>1, MigrateInvariant, PTL

(* Migrate returns nil only with the whole release applied. *)
THEOREM NilMeansComplete == Spec => []SuccessIsComplete
<1>1. IInv => SuccessIsComplete
  BY DEF IInv
<1> QED
  BY <1>1, MigrateInvariant, PTL

(* A file is applied by a migrator for which every file that precedes it   *)
(* in the migrator's own release is recorded.                              *)
THEOREM FilesInOrder == Spec => InOrder
<1> DEFINE Ordered ==
      \A f \in recorded' \ recorded :
        \E m \in Migrator :
          /\ pc[m] = "commit" /\ f \in files[m]
          /\ \A g \in files[m] : g < f => g \in recorded
<1>1. ASSUME IInv, Next PROVE Ordered
  <2> SUFFICES ASSUME NEW h \in recorded' \ recorded
               PROVE  \E m \in Migrator :
                        /\ pc[m] = "commit" /\ h \in files[m]
                        /\ \A g \in files[m] : g < h => g \in recorded
    OBVIOUS
  <2>1. PICK m \in Migrator : Step(m)
    BY <1>1 DEF Next
  <2>2. PICK f \in File : Commits(m, f)
    BY <2>1 DEF Step, Proceed, Start, CreateTable, Skip, Check, Apply, Record, Refuse, Fail, Finish,
                Commit, CommitUnanswered
  <2>3. h = f
    BY <1>1, <2>2, CommitsOnce
  <2>4. IsNext(m, f) /\ pc[m] = "commit" /\ Passed(m) /\ TypeOK
    BY <1>1, <2>2 DEF Commits, IInv
  <2>5. f \in files[m]
    BY <2>4 DEF Passed, IsNext
  <2>6. ASSUME NEW g \in files[m], g < f PROVE g \in recorded
    <3>1. f \in Nat /\ g \in Nat
      BY <2>4, MigrateAssumption DEF TypeOK
    <3>2. g \notin left[m]
      BY <2>4, <2>6, <3>1 DEF IsNext
    <3> QED
      BY <2>4, <3>2 DEF Passed
  <2> QED
    BY <2>3, <2>4, <2>5, <2>6
<1>2. IInv /\ [Next]_vars => [Ordered]_vars
  BY <1>1
<1> QED
  BY <1>2, MigrateInvariant, PTL DEF Spec, InOrder
================================================================================
