------------------------- MODULE StartupImportProofs -------------------------
(***************************************************************************)
(* Proofs about StartupImport, for any number of replicas, any pool of two *)
(* connections or more, any number of losses and crashes, and any number   *)
(* of times an admin cancels the timetable.                                *)
(*                                                                         *)
(* The invariant that carries them: one replica at most holds the lock,    *)
(* inside run(); a status is final before the lock is given back; nothing  *)
(* is reported as imported that was not; and as long as nothing has gone   *)
(* wrong, whoever is inside run() holds the lock, so that what it has read *)
(* of the database is still true.  How often the timetable is imported     *)
(* takes an account: who may still import, and what has paid for it.       *)
(***************************************************************************)
EXTENDS StartupImport, FiniteSetTheorems, TLAPS

Final == {"ready", "failed"}

\* The lock has one holder at most, and the holder is inside run().
LockInv ==
  /\ \A r, s \in lock : r = s
  /\ \A r \in lock : stage[r] \in Critical

\* The verdict is reached inside run(), or by the error of the lock.
VerdictInv ==
  \A r \in Replica :
    /\ stage[r] \in {"try", "wait", "check", "parse", "replace", "mark_ready", "mark_empty"} =>
         status[r] = "running"
    /\ stage[r] \in {"commit", "rollback"} => status[r] \in Final
    /\ stage[r] = "done" /\ r \notin canceled => status[r] \in Final

\* Who reports lessons, or is about to, has reason to.
Found(r) == stage[r] = "mark_ready" \/ (status[r] = "ready" /\ detail[r] # "no_lessons")

\* Whoever has seen a timetable, or committed one, knows that there was one;
\* and who reports an import of its own has committed it.
ImportInv ==
  /\ schedule => imports > 0
  /\ \A r \in Replica :
       /\ Found(r) => imports > 0
       /\ stage[r] \in {"mark_ready", "mark_empty"} => r \in committed
       /\ status[r] = "ready" /\ detail[r] # "skipped" => r \in committed

\* Undisturbed, run() is exclusive, and what its replica has found out holds as
\* long as nobody cancels the timetable; who has committed does not fail.
CalmInv ==
  Undisturbed =>
    /\ orphans = 0
    /\ \A r \in Replica :
         /\ stage[r] \in Critical => r \in lock
         /\ stage[r] \in {"parse", "replace", "mark_empty"} => ~schedule
         /\ clears = 0 /\ Found(r) => schedule
         /\ r \in committed => /\ stage[r] \in {"mark_ready", "mark_empty", "commit", "done"}
                               /\ status[r] # "failed"
                               /\ stage[r] \in {"commit", "done"} => status[r] = "ready"

StartupInv == TypeOK /\ LockInv /\ VerdictInv /\ ImportInv /\ CalmInv

\* What a replica, its clients and its network do.
Act(r) ==
  \/ Start(r) \/ Work(r) \/ Cancel(r) \/ Borrow(r) \/ Return(r)
  \/ CancelLessons(r) \/ LoseConnection(r) \/ LoseCommit(r) \/ Crash(r)

-----------------------------------------------------------------------------

\* Every act keeps the types, and no pool lends more than it has.
LEMMA TypeKept ==
  ASSUME TypeOK, NEW r \in Replica, Act(r)
  PROVE  TypeOK'
<1>. USE StartupAssumption DEF TypeOK, Stage, Critical, Status, Detail, Idle
<1>1. CASE Start(r)
  BY <1>1 DEF Start, Move, Mark, Report
<1>2. CASE TryLock(r)
  BY <1>2 DEF TryLock, Move
<1>3. CASE TryFails(r)
  BY <1>3 DEF TryFails, Move, Mark, Report
<1>4. CASE Wake(r)
  BY <1>4 DEF Wake, Move
<1>5. CASE WaitCanceled(r)
  BY <1>5 DEF WaitCanceled, Move
<1>6. CASE Check(r)
  BY <1>6 DEF Check, Move, Mark, Report
<1>7. CASE Parse(r)
  BY <1>7 DEF Parse, Move
<1>8. CASE Replace(r)
  <2>1. schedule' \in BOOLEAN
    BY <1>8 DEF Replace, Imported
  <2>2. imports' \in Nat
    <3>1. imports' \in {imports, imports + 1}
      BY <1>8 DEF Replace, Imported
    <3>. QED  BY <3>1
  <2>3. /\ stage' \in [Replica -> Stage]
        /\ \A s \in Replica : stage[s] \in Critical <=> stage'[s] \in Critical
    BY <1>8 DEF Replace, Move
  <2>4. \A s \in Replica : Idle(s)' >= 0
    BY <1>8, <2>3 DEF Replace
  <2>. QED  BY <1>8, <2>1, <2>2, <2>3, <2>4 DEF Replace
<1>9. CASE MarkReady(r)
  BY <1>9 DEF MarkReady, Move, Mark, Report
<1>10. CASE RunFails(r)
  BY <1>10 DEF RunFails, Move, Mark, Report
<1>11. CASE EndLock(r)
  BY <1>11 DEF EndLock, Move, Mark, Report
<1>12. CASE Cancel(r)
  BY <1>12 DEF Cancel
<1>13. CASE Borrow(r)
  BY <1>13 DEF Borrow
<1>14. CASE Return(r)
  BY <1>14 DEF Return
<1>15. CASE LoseConnection(r)
  BY <1>15 DEF LoseConnection
<1>16. CASE LoseCommit(r)
  BY <1>16 DEF LoseCommit, Move, Mark, Report
<1>17. CASE Crash(r)
  BY <1>17 DEF Crash, Mark, Report
<1>18. CASE CancelLessons(r)
  <2>1. schedule' \in BOOLEAN
    BY <1>18 DEF CancelLessons
  <2>2. clears' \in 0 .. MaxClears
    BY <1>18 DEF CancelLessons
  <2>3. \A s \in Replica : Idle(s)' >= 0
    BY <1>18 DEF CancelLessons
  <2>. QED  BY <1>18, <2>1, <2>2, <2>3 DEF CancelLessons
<1>. QED
  BY <1>1, <1>2, <1>3, <1>4, <1>5, <1>6, <1>7, <1>8, <1>9, <1>10, <1>11, <1>12, <1>13, <1>14, <1>15, <1>16, <1>17, <1>18 DEF Act, Work

\* Every act keeps the lock with one replica inside run().
LEMMA LockKept ==
  ASSUME TypeOK, LockInv, NEW r \in Replica, Act(r)
  PROVE  LockInv'
<1>. USE DEF LockInv, TypeOK, Stage, Critical
<1>1. CASE Start(r)
  BY <1>1 DEF Start, Move, Mark, Report
<1>2. CASE TryLock(r)
  BY <1>2 DEF TryLock, Move, Idle
<1>3. CASE TryFails(r)
  BY <1>3 DEF TryFails, Move, Mark, Report
<1>4. CASE Wake(r)
  BY <1>4 DEF Wake, Move
<1>5. CASE WaitCanceled(r)
  BY <1>5 DEF WaitCanceled, Move
<1>6. CASE Check(r)
  BY <1>6 DEF Check, Move, Mark, Report, Idle
<1>7. CASE Parse(r)
  BY <1>7 DEF Parse, Move
<1>8. CASE Replace(r)
  BY <1>8 DEF Replace, Move, Imported, Idle
<1>9. CASE MarkReady(r)
  BY <1>9 DEF MarkReady, Move, Mark, Report
<1>10. CASE RunFails(r)
  BY <1>10 DEF RunFails, Move, Mark, Report
<1>11. CASE EndLock(r)
  BY <1>11 DEF EndLock, Move, Mark, Report
<1>12. CASE Cancel(r)
  BY <1>12 DEF Cancel
<1>13. CASE Borrow(r)
  BY <1>13 DEF Borrow, Idle
<1>14. CASE Return(r)
  BY <1>14 DEF Return, Idle
<1>15. CASE LoseConnection(r)
  BY <1>15 DEF LoseConnection, Idle
<1>16. CASE LoseCommit(r)
  BY <1>16 DEF LoseCommit, Move, Mark, Report, Idle
<1>17. CASE Crash(r)
  BY <1>17 DEF Crash, Mark, Report
<1>18. CASE CancelLessons(r)
  BY <1>18 DEF CancelLessons, Idle
<1>. QED
  BY <1>1, <1>2, <1>3, <1>4, <1>5, <1>6, <1>7, <1>8, <1>9, <1>10, <1>11, <1>12, <1>13, <1>14, <1>15, <1>16, <1>17, <1>18 DEF Act, Work

\* Every act keeps a verdict before the end.
LEMMA VerdictKept ==
  ASSUME TypeOK, VerdictInv, NEW r \in Replica, Act(r)
  PROVE  VerdictInv'
<1>. USE DEF VerdictInv, TypeOK, Stage, Critical, Status, Detail, Final
<1>1. CASE Start(r)
  BY <1>1 DEF Start, Move, Mark, Report
<1>2. CASE TryLock(r)
  BY <1>2 DEF TryLock, Move, Idle
<1>3. CASE TryFails(r)
  BY <1>3 DEF TryFails, Move, Mark, Report
<1>4. CASE Wake(r)
  BY <1>4 DEF Wake, Move
<1>5. CASE WaitCanceled(r)
  BY <1>5 DEF WaitCanceled, Move
<1>6. CASE Check(r)
  BY <1>6 DEF Check, Move, Mark, Report, Idle
<1>7. CASE Parse(r)
  BY <1>7 DEF Parse, Move
<1>8. CASE Replace(r)
  BY <1>8 DEF Replace, Move, Imported, Idle
<1>9. CASE MarkReady(r)
  BY <1>9 DEF MarkReady, Move, Mark, Report
<1>10. CASE RunFails(r)
  BY <1>10 DEF RunFails, Move, Mark, Report
<1>11. CASE EndLock(r)
  BY <1>11 DEF EndLock, Move, Mark, Report
<1>12. CASE Cancel(r)
  BY <1>12 DEF Cancel
<1>13. CASE Borrow(r)
  BY <1>13 DEF Borrow, Idle
<1>14. CASE Return(r)
  BY <1>14 DEF Return, Idle
<1>15. CASE LoseConnection(r)
  BY <1>15 DEF LoseConnection, Idle
<1>16. CASE LoseCommit(r)
  BY <1>16 DEF LoseCommit, Move, Mark, Report, Idle
<1>17. CASE Crash(r)
  BY <1>17 DEF Crash, Mark, Report
<1>18. CASE CancelLessons(r)
  BY <1>18 DEF CancelLessons, Idle
<1>. QED
  BY <1>1, <1>2, <1>3, <1>4, <1>5, <1>6, <1>7, <1>8, <1>9, <1>10, <1>11, <1>12, <1>13, <1>14, <1>15, <1>16, <1>17, <1>18 DEF Act, Work

\* No act reports an import that was not committed.
LEMMA ImportKept ==
  ASSUME TypeOK, ImportInv, NEW r \in Replica, Act(r)
  PROVE  ImportInv'
<1>. USE DEF ImportInv, Found, TypeOK, Stage, Critical, Status, Detail
<1>1. CASE Start(r)
  BY <1>1 DEF Start, Move, Mark, Report
<1>2. CASE TryLock(r)
  BY <1>2 DEF TryLock, Move, Idle
<1>3. CASE TryFails(r)
  BY <1>3 DEF TryFails, Move, Mark, Report
<1>4. CASE Wake(r)
  BY <1>4 DEF Wake, Move
<1>5. CASE WaitCanceled(r)
  BY <1>5 DEF WaitCanceled, Move
<1>6. CASE Check(r)
  BY <1>6 DEF Check, Move, Mark, Report, Idle
<1>7. CASE Parse(r)
  BY <1>7 DEF Parse, Move
<1>8. CASE Replace(r)
  BY <1>8 DEF Replace, Move, Imported, Idle
<1>9. CASE MarkReady(r)
  BY <1>9 DEF MarkReady, Move, Mark, Report
<1>10. CASE RunFails(r)
  BY <1>10 DEF RunFails, Move, Mark, Report
<1>11. CASE EndLock(r)
  BY <1>11 DEF EndLock, Move, Mark, Report
<1>12. CASE Cancel(r)
  BY <1>12 DEF Cancel
<1>13. CASE Borrow(r)
  BY <1>13 DEF Borrow, Idle
<1>14. CASE Return(r)
  BY <1>14 DEF Return, Idle
<1>15. CASE LoseConnection(r)
  BY <1>15 DEF LoseConnection, Idle
<1>16. CASE LoseCommit(r)
  BY <1>16 DEF LoseCommit, Move, Mark, Report, Idle
<1>17. CASE Crash(r)
  BY <1>17 DEF Crash, Mark, Report
<1>18. CASE CancelLessons(r)
  BY <1>18 DEF CancelLessons, Idle
<1>. QED
  BY <1>1, <1>2, <1>3, <1>4, <1>5, <1>6, <1>7, <1>8, <1>9, <1>10, <1>11, <1>12, <1>13, <1>14, <1>15, <1>16, <1>17, <1>18 DEF Act, Work

\* Undisturbed, every act respects the replica that holds the lock.
LEMMA CalmKept ==
  ASSUME TypeOK, LockInv, VerdictInv, CalmInv, NEW r \in Replica, Act(r)
  PROVE  CalmInv'
<1>. USE DEF CalmInv, VerdictInv, Found, LockInv, TypeOK, Stage, Critical, Status, Detail, Undisturbed
<1>1. CASE Start(r)
  BY <1>1 DEF Start, Move, Mark, Report
<1>2. CASE TryLock(r)
  BY <1>2 DEF TryLock, Move, Idle
<1>3. CASE TryFails(r)
  BY <1>3 DEF TryFails, Move, Mark, Report
<1>4. CASE Wake(r)
  BY <1>4 DEF Wake, Move
<1>5. CASE WaitCanceled(r)
  BY <1>5 DEF WaitCanceled, Move
<1>6. CASE Check(r)
  BY <1>6 DEF Check, Move, Mark, Report, Idle
<1>7. CASE Parse(r)
  BY <1>7 DEF Parse, Move
<1>8. CASE Replace(r)
  <2>1. SUFFICES ASSUME Undisturbed PROVE CalmInv'
    BY <1>8 DEF Replace
  <2>2. /\ \A x \in Replica : stage[x] \in Critical => x \in lock
        /\ orphans' = 0 /\ lock' = lock /\ status' = status /\ detail' = detail
        /\ clears' = clears
    BY <1>8, <2>1 DEF Replace
  <2>3. stage[r] = "replace" /\ r \in lock
    BY <1>8, <2>2 DEF Replace, Move
  <2>4. \A x \in Replica \ {r} :
          /\ stage'[x] = stage[x]
          /\ x \notin lock
          /\ x \in committed' <=> x \in committed
    <3>1. \A x \in Replica \ {r} : stage'[x] = stage[x]
      BY <1>8 DEF Replace, Move
    <3>2. committed' = committed \cup {r}
      BY <1>8 DEF Replace
    <3>. QED  BY <2>3, <3>1, <3>2
  <2>5. r \notin committed
    BY <2>1, <2>3
  <2>6. \/ stage'[r] = "mark_ready" /\ schedule'
        \/ stage'[r] = "mark_empty" /\ ~schedule'
    BY <1>8 DEF Replace, Move, Imported
  <2>7. ~schedule /\ status[r] = "running" /\ (clears = 0 => ~Found(r))
    BY <2>1, <2>3
  <2>. QED  BY <2>1, <2>2, <2>3, <2>4, <2>5, <2>6, <2>7
<1>9. CASE MarkReady(r)
  BY <1>9 DEF MarkReady, Move, Mark, Report
<1>10. CASE RunFails(r)
  BY <1>10 DEF RunFails, Move, Mark, Report
<1>11. CASE EndLock(r)
  BY <1>11 DEF EndLock, Move, Mark, Report
<1>12. CASE Cancel(r)
  BY <1>12 DEF Cancel
<1>13. CASE Borrow(r)
  BY <1>13 DEF Borrow, Idle
<1>14. CASE Return(r)
  BY <1>14 DEF Return, Idle
<1>15. CASE LoseConnection(r)
  BY <1>15 DEF LoseConnection, Idle
<1>16. CASE LoseCommit(r)
  BY <1>16 DEF LoseCommit, Move, Mark, Report, Idle
<1>17. CASE Crash(r)
  BY <1>17 DEF Crash, Mark, Report
<1>18. CASE CancelLessons(r)
  BY <1>18 DEF CancelLessons, Idle
<1>. QED
  BY <1>1, <1>2, <1>3, <1>4, <1>5, <1>6, <1>7, <1>8, <1>9, <1>10, <1>11, <1>12, <1>13, <1>14, <1>15, <1>16, <1>17, <1>18 DEF Act, Work

\* The inductive invariant holds when no replica has started.
LEMMA StartupInitInv == Init => StartupInv
<1>. SUFFICES ASSUME Init PROVE StartupInv
  OBVIOUS
<1>. USE StartupAssumption DEF Init
<1>1. TypeOK
  <2>1. \A r \in Replica : stage[r] \notin Critical /\ busy[r] = 0
    BY DEF Critical
  <2>2. \A r \in Replica : Idle(r) >= 0
    BY <2>1 DEF Idle
  <2>3. schedule \in BOOLEAN
    OBVIOUS
  <2>4. /\ busy \in [Replica -> 0 .. PoolSize]
        /\ orphans \in Nat /\ imports \in Nat /\ committed \subseteq Replica
        /\ losses \in 0 .. MaxLosses /\ crashes \in 0 .. MaxCrashes /\ clears \in 0 .. MaxClears
    OBVIOUS
  <2>5. /\ stage \in [Replica -> Stage] /\ status \in [Replica -> Status]
        /\ detail \in [Replica -> Detail]
    BY DEF Stage, Critical, Status, Detail
  <2>. QED  BY <2>2, <2>3, <2>4, <2>5 DEF TypeOK
<1>2. LockInv /\ VerdictInv
  BY DEF LockInv, VerdictInv
<1>3. ImportInv /\ CalmInv
  BY DEF ImportInv, CalmInv, Found, Critical
<1>. QED  BY <1>1, <1>2, <1>3 DEF StartupInv

\* A commit that nobody waits for any more keeps the invariant too.
LEMMA OrphanKept == StartupInv /\ OrphanCommits => StartupInv'
<1>. SUFFICES ASSUME StartupInv, OrphanCommits PROVE StartupInv'
  OBVIOUS
<1>. USE DEF StartupInv, OrphanCommits, Imported
<1>1. TypeOK'
  BY DEF TypeOK, Idle
<1>2. LockInv' /\ VerdictInv'
  BY DEF LockInv, VerdictInv
<1>3. ImportInv'
  BY DEF ImportInv, Found, TypeOK
<1>4. CalmInv'
  BY DEF CalmInv, Found, TypeOK, Undisturbed
<1>. QED  BY <1>1, <1>2, <1>3, <1>4

\* Every step keeps the inductive invariant.
LEMMA StartupNextInv == StartupInv /\ [Next]_vars => StartupInv'
<1>. SUFFICES ASSUME StartupInv, [Next]_vars PROVE StartupInv'
  OBVIOUS
<1>1. CASE OrphanCommits
  BY <1>1, OrphanKept
<1>2. ASSUME NEW r \in Replica, Act(r) PROVE StartupInv'
  BY <1>2, TypeKept, LockKept, VerdictKept, ImportKept, CalmKept DEF StartupInv
<1>3. CASE UNCHANGED vars
  BY <1>3 DEF vars, StartupInv, TypeOK, Idle, LockInv, VerdictInv, ImportInv, CalmInv, Found, Undisturbed
<1>. QED  BY <1>1, <1>2, <1>3 DEF Next, Act

\* The invariant holds in every reachable state.
LEMMA StartupInvariant == Spec => []StartupInv
<1>. QED  BY StartupInitInv, StartupNextInv, PTL DEF Spec

\* Every reachable state is well typed, and a pool never lends more connections
\* than it has, however many requests compete with the import.
THEOREM StartupTypeCorrect == Spec => []TypeOK
<1>1. StartupInv => TypeOK
  BY DEF StartupInv
<1>. QED  BY <1>1, StartupInvariant, PTL

\* A replica that was not told to stop ends its check with a verdict, whatever
\* fails: GET /parser/status does not stay at "running".
THEOREM ChecksEndWithVerdict == Spec => []CheckEndsWithVerdict
<1>1. StartupInv => CheckEndsWithVerdict
  BY DEF StartupInv, VerdictInv, CheckEndsWithVerdict, Final
<1>. QED  BY <1>1, StartupInvariant, PTL

\* What GET /parser/status says is true: "ready" with a number of lessons after
\* an import the replica has committed itself, "ready" with a reason after one
\* it has found; and as long as no connection, process or context has gone away
\* and no admin has cancelled the lessons, they are still there.  "failed" then
\* means that nothing was imported.
THEOREM ReadyIsTrue == Spec => []ReadyMeansImported
<1>1. StartupInv => ReadyMeansImported
  BY DEF StartupInv, ImportInv, CalmInv, Found, ReadyMeansImported
<1>. QED  BY <1>1, StartupInvariant, PTL

\* Undisturbed, only one replica checks and imports at a time: the code keeps
\* the promise that the loss of the lock's connection breaks.
THEOREM OneImporterUndisturbed == Spec => [](Undisturbed => OneImporter)
<1>1. StartupInv => (Undisturbed => OneImporter)
  BY DEF StartupInv, LockInv, CalmInv, OneImporter
<1>. QED  BY <1>1, StartupInvariant, PTL

-----------------------------------------------------------------------------
\* How often the timetable is imported.

\* Replicas that may still import: they are past the check, or inside it
\* without the lock, so that an import may come between the check and theirs.
Pending ==
  {r \in Replica : \/ stage[r] \in {"parse", "replace"}
                   \/ stage[r] = "check" /\ r \notin lock /\ r \notin canceled}

\* Cancelled replicas whose cancellation no import in flight has used up.
Paid == canceled \ Pending

\* One import is due as long as the database holds no timetable, unless the
\* replica with the lock is on the way to import it.
Due == IF schedule \/ \E r \in lock : stage[r] \in {"parse", "replace"} THEN 0 ELSE 1

\* What was imported and what may still be has been paid for: one import is
\* free, each other one has cost a connection, a process, a context or a
\* timetable that was cancelled.
CountInv ==
  /\ IsFiniteSet(Pending) /\ IsFiniteSet(Paid) /\ IsFiniteSet(canceled)
  /\ imports + orphans + Cardinality(Pending) + Due
       <= 1 + losses + crashes + Cardinality(Paid) + clears

One(r, set) == IF r \in set THEN 1 ELSE 0

\* A set that changes in one member only changes its size by that member.
LEMMA OneMember ==
  ASSUME NEW S, NEW T, NEW r, IsFiniteSet(S), T \ {r} = S \ {r}
  PROVE  /\ IsFiniteSet(T)
         /\ Cardinality(S) \in Nat /\ Cardinality(T) \in Nat
         /\ Cardinality(T) + One(r, S) = Cardinality(S) + One(r, T)
<1>. DEFINE Rest == S \ {r}
<1>1. IsFiniteSet(Rest) /\ Cardinality(S) = Cardinality(Rest) + One(r, S)
  <2>1. Cardinality(S) \in Nat
    BY FS_CardinalityType
  <2>. QED  BY <2>1, FS_RemoveElement DEF One
<1>2. T = Rest \/ T = Rest \cup {r}
  OBVIOUS
<1>3. Cardinality(Rest) \in Nat
  BY <1>1, FS_CardinalityType
<1>4. IsFiniteSet(T) /\ Cardinality(T) = Cardinality(Rest) + One(r, T)
  <2>1. CASE r \in T
    <3>1. T = Rest \cup {r} /\ r \notin Rest
      BY <1>2, <2>1
    <3>. QED  BY <1>1, <2>1, <3>1, FS_AddElement DEF One
  <2>2. CASE r \notin T
    BY <1>1, <1>2, <1>3, <2>2 DEF One
  <2>. QED  BY <2>1, <2>2
<1>. HIDE DEF Rest
<1>5. One(r, S) \in {0, 1} /\ One(r, T) \in {0, 1}
  BY DEF One
<1>. QED  BY <1>1, <1>3, <1>4, <1>5

\* An act of a replica changes nothing for the others.
LEMMA OthersPend ==
  ASSUME TypeOK, LockInv, NEW r \in Replica, Act(r)
  PROVE  /\ Pending' \ {r} = Pending \ {r}
         /\ canceled' \ {r} = canceled \ {r}
<1>1. \A s \in Replica \ {r} : stage'[s] = stage[s]
  BY DEF Act, Work, Start, TryLock, TryFails, Wake, WaitCanceled, Check, Parse, Replace,
         MarkReady, RunFails, EndLock, Cancel, Borrow, Return, CancelLessons, LoseConnection, LoseCommit,
         Crash, Move, TypeOK
<1>2. lock' \ {r} = lock \ {r}
  BY DEF Act, Work, Start, TryLock, TryFails, Wake, WaitCanceled, Check, Parse, Replace,
         MarkReady, RunFails, EndLock, Cancel, Borrow, Return, CancelLessons, LoseConnection, LoseCommit,
         Crash, LockInv
<1>3. canceled' \ {r} = canceled \ {r}
  BY DEF Act, Work, Start, TryLock, TryFails, Wake, WaitCanceled, Check, Parse, Replace,
         MarkReady, RunFails, EndLock, Cancel, Borrow, Return, CancelLessons, LoseConnection, LoseCommit,
         Crash
<1>4. \A s \in Replica \ {r} : s \in Pending' <=> s \in Pending
  BY <1>1, <1>2, <1>3 DEF Pending
<1>5. Pending \subseteq Replica /\ Pending' \subseteq Replica
  BY DEF Pending
<1>. QED  BY <1>3, <1>4, <1>5

\* What an act of a replica adds to the imports, it has paid for.
LEMMA ActIsPaid ==
  ASSUME TypeOK, LockInv, NEW r \in Replica, Act(r)
  PROVE  imports' + orphans' + One(r, Pending') + Due' + losses + crashes + One(r, Paid) + clears
           <= imports + orphans + One(r, Pending) + Due + losses' + crashes' + One(r, Paid') + clears'
<1>. USE DEF LockInv, TypeOK, One, Paid, Pending, Due, Stage, Critical, Move
<1>1. CASE Start(r) \/ TryFails(r) \/ Wake(r) \/ WaitCanceled(r) \/ Borrow(r) \/ Return(r)
  BY <1>1 DEF Start, TryFails, Wake, WaitCanceled, Borrow, Return
<1>2. CASE TryLock(r)
  BY <1>2 DEF TryLock
<1>3. CASE Check(r) \/ Parse(r)
  BY <1>3 DEF Check, Parse
<1>4. CASE Replace(r)
  BY <1>4 DEF Replace, Imported
<1>5. CASE MarkReady(r) \/ EndLock(r)
  BY <1>5 DEF MarkReady, EndLock
<1>6. CASE RunFails(r)
  BY <1>6 DEF RunFails
<1>7. CASE Cancel(r)
  BY <1>7 DEF Cancel
<1>8. CASE LoseConnection(r)
  BY <1>8 DEF LoseConnection
<1>9. CASE LoseCommit(r)
  BY <1>9 DEF LoseCommit
<1>10. CASE Crash(r)
  BY <1>10 DEF Crash
<1>11. CASE CancelLessons(r)
  BY <1>11 DEF CancelLessons
<1>. QED  BY <1>1, <1>2, <1>3, <1>4, <1>5, <1>6, <1>7, <1>8, <1>9, <1>10, <1>11 DEF Act, Work

\* So every act keeps the account.
LEMMA CountKept ==
  ASSUME TypeOK, TypeOK', LockInv, CountInv, NEW r \in Replica, Act(r)
  PROVE  CountInv'
<1>1. Pending' \ {r} = Pending \ {r} /\ canceled' \ {r} = canceled \ {r}
  BY OthersPend
<1>2. Paid' \ {r} = Paid \ {r}
  BY <1>1 DEF Paid
<1>3. /\ IsFiniteSet(Pending')
      /\ Cardinality(Pending) \in Nat /\ Cardinality(Pending') \in Nat
      /\ Cardinality(Pending') + One(r, Pending) = Cardinality(Pending) + One(r, Pending')
  BY <1>1, OneMember DEF CountInv
<1>4. /\ IsFiniteSet(Paid')
      /\ Cardinality(Paid) \in Nat /\ Cardinality(Paid') \in Nat
      /\ Cardinality(Paid') + One(r, Paid) = Cardinality(Paid) + One(r, Paid')
  BY <1>2, OneMember DEF CountInv
<1>5. IsFiniteSet(canceled')
  BY <1>1, OneMember DEF CountInv
<1>6. /\ One(r, Pending) \in Nat /\ One(r, Pending') \in Nat
      /\ One(r, Paid) \in Nat /\ One(r, Paid') \in Nat
      /\ Due \in Nat /\ Due' \in Nat
  BY DEF One, Due
<1>7. /\ imports \in Nat /\ orphans \in Nat /\ losses \in Nat /\ crashes \in Nat
      /\ imports' \in Nat /\ orphans' \in Nat /\ losses' \in Nat /\ crashes' \in Nat
      /\ clears \in Nat /\ clears' \in Nat
  BY StartupAssumption DEF TypeOK
<1>8. imports + orphans + Cardinality(Pending) + Due
        <= 1 + losses + crashes + Cardinality(Paid) + clears
  BY DEF CountInv
<1>9. imports' + orphans' + One(r, Pending') + Due' + losses + crashes + One(r, Paid) + clears
        <= imports + orphans + One(r, Pending) + Due + losses' + crashes' + One(r, Paid') + clears'
  BY ActIsPaid
<1>10. imports' + orphans' + Cardinality(Pending') + Due'
         <= 1 + losses' + crashes' + Cardinality(Paid') + clears'
  BY <1>3, <1>4, <1>6, <1>7, <1>8, <1>9
<1>. QED  BY <1>3, <1>4, <1>5, <1>10 DEF CountInv

\* The account is open when no replica has started, and a commit on its way
\* was paid for when its replica went away.
LEMMA CountInvariant == Spec => []CountInv
<1>1. Init => CountInv
  <2>. SUFFICES ASSUME Init PROVE CountInv
    OBVIOUS
  <2>1. Pending = {} /\ canceled = {} /\ Paid = {}
    BY DEF Init, Pending, Paid
  <2>2. Due + imports = 1 /\ orphans = 0 /\ losses = 0 /\ crashes = 0 /\ clears = 0
    BY StartupAssumption DEF Init, Due
  <2>3. Due \in Nat /\ imports \in Nat
    BY StartupAssumption DEF Init, Due
  <2>4. IsFiniteSet({}) /\ Cardinality({}) = 0
    BY FS_EmptySet
  <2>. QED  BY <2>1, <2>2, <2>3, <2>4 DEF CountInv
<1>2. StartupInv /\ StartupInv' /\ CountInv /\ [Next]_vars => CountInv'
  <2>. SUFFICES ASSUME StartupInv, StartupInv', CountInv, [Next]_vars PROVE CountInv'
    OBVIOUS
  <2>1. ASSUME NEW r \in Replica, Act(r) PROVE CountInv'
    BY <2>1, CountKept DEF StartupInv
  <2>2. CASE OrphanCommits
    <3>1. UNCHANGED <<stage, lock, canceled, losses, crashes, clears>>
      BY <2>2 DEF OrphanCommits
    <3>2. Pending' = Pending /\ Paid' = Paid
      BY <3>1 DEF Pending, Paid
    <3>3. imports' + orphans' + Due' <= imports + orphans + Due
      BY <2>2, <3>1 DEF OrphanCommits, Imported, Due, StartupInv, TypeOK
    <3>4. Cardinality(Pending) \in Nat /\ Cardinality(Paid) \in Nat
      BY FS_CardinalityType DEF CountInv
    <3>5. Due \in Nat /\ Due' \in Nat
      BY DEF Due
    <3>6. imports + orphans + Cardinality(Pending) + Due
            <= 1 + losses + crashes + Cardinality(Paid) + clears
      BY DEF CountInv
    <3>7. /\ imports \in Nat /\ orphans \in Nat /\ losses \in Nat /\ crashes \in Nat
          /\ imports' \in Nat /\ orphans' \in Nat /\ clears \in Nat
      BY StartupAssumption DEF StartupInv, TypeOK
    <3>8. imports' + orphans' + Cardinality(Pending) + Due'
            <= 1 + losses + crashes + Cardinality(Paid) + clears
      <4>. DEFINE before == imports + orphans + Due
                  after == imports' + orphans' + Due'
                  paid == 1 + losses + crashes + Cardinality(Paid) + clears
      <4>1. before \in Int /\ after \in Int /\ paid \in Int
        BY <3>4, <3>5, <3>7
      <4>2. after <= before
        BY <3>3
      <4>3. before + Cardinality(Pending) <= paid
        BY <3>4, <3>5, <3>6, <3>7
      <4>4. after + Cardinality(Pending) <= paid
        <5>. HIDE DEF before, after, paid
        <5>. QED  BY <3>4, <4>1, <4>2, <4>3
      <4>. QED  BY <3>4, <3>5, <3>7, <4>4
    <3>. QED  BY <3>1, <3>2, <3>8 DEF CountInv
  <2>3. CASE UNCHANGED vars
    <3>1. Pending' = Pending /\ Paid' = Paid /\ Due' = Due
      BY <2>3 DEF vars, Pending, Paid, Due
    <3>. QED  BY <2>3, <3>1 DEF vars, CountInv
  <2>. QED  BY <2>1, <2>2, <2>3 DEF Next, Act
<1>. QED  BY <1>1, <1>2, StartupInvariant, PTL DEF Spec

\* The advisory lock has one holder at most, which is inside run(): it is not
\* held while a replica waits, and not kept when its check has ended.
THEOREM LockCovered == Spec => []LockIsCovered
<1>1. StartupInv => LockIsCovered
  <2>. SUFFICES ASSUME StartupInv PROVE LockIsCovered
    OBVIOUS
  <2>1. lock = {} \/ \E r \in lock : lock = {r}
    BY DEF StartupInv, LockInv
  <2>2. Cardinality(lock) = 0 \/ Cardinality(lock) = 1
    BY <2>1, FS_EmptySet, FS_Singleton
  <2>. QED  BY <2>2 DEF StartupInv, LockInv, LockIsCovered
<1>. QED  BY <1>1, StartupInvariant, PTL

\* However many replicas start, and whatever is lost on the way: the timetable
\* is imported once, and once more at most for every connection, process or
\* context that went away and for every time an admin has cancelled it.
THEOREM ImportsAreCounted == Spec => []ImportedOnce
<1>1. StartupInv /\ CountInv => ImportedOnce
  <2>. SUFFICES ASSUME StartupInv, CountInv PROVE ImportedOnce
    OBVIOUS
  <2>1. Cardinality(Paid) <= Cardinality(canceled)
    <3>1. Paid \in SUBSET canceled
      BY DEF Paid
    <3>. QED  BY <3>1, FS_Subset DEF CountInv
  <2>2. /\ Cardinality(Pending) \in Nat /\ Cardinality(Paid) \in Nat
        /\ Cardinality(canceled) \in Nat
    BY FS_CardinalityType DEF CountInv
  <2>3. imports + orphans + Cardinality(Pending) + Due
          <= 1 + losses + crashes + Cardinality(Paid) + clears
    BY DEF CountInv
  <2>4. Due \in Nat
    BY DEF Due
  <2>5. /\ imports \in Nat /\ orphans \in Nat /\ losses \in Nat /\ crashes \in Nat
        /\ clears \in Nat
    BY StartupAssumption DEF StartupInv, TypeOK
  <2>. QED  BY <2>1, <2>2, <2>3, <2>4, <2>5 DEF ImportedOnce
<1>. QED  BY <1>1, StartupInvariant, CountInvariant, PTL

=============================================================================
