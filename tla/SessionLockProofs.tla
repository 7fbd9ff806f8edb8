------------------------- MODULE SessionLockProofs -------------------------
(***************************************************************************)
(* Theorems about SessionLock for any sets of pids and tokens, any number  *)
(* of process generations, and with unreadable locks and creation times.   *)
(*                                                                         *)
(* Mutual exclusion is not inductive.  It rests on HolderOwnsFile, and     *)
(* that on what the guard gives: while a process stands between judging a  *)
(* lock abandoned and unlinking it, no one can be inside, because entering *)
(* takes the guard.                                                        *)
(***************************************************************************)
EXTENDS SessionLock, TLAPS

\* The flock is exclusive, and only a process in a guarded section has it.
GuardIsExclusive == \A p \in Pid : pc[p] \in Guarded <=> guard = p

\* A process that died executes nothing.
OnlyLiveRun == \A p \in Pid : pc[p] # "idle" => alive[p]

\* The creator of a lock file finds it as it left it.
CreatorSeesTorn == \A p \in Pid : pc[p] = "created" => lock = Torn

\* Once a lock is judged abandoned nobody is, or gets, inside before it goes.
ReclaimExcludesHolders ==
  \A p, q \in Pid : pc[p] = "reclaim" => pc[q] \notin Holding

\* A call has a token from Enter to its return.
CallsHaveTokens == \A p \in Pid : pc[p] # "idle" => token[p] \in Token

\* What a releasing process means to unlink is its own file.
ReleasesOwnFile ==
  \A p \in Pid : pc[p] \in {"unlinkWait", "unlinking"} => seen[p] = lock

\* A recorded creation time is that of a process that has existed.
IdentitiesArePast ==
  lock \in Owner => lock.identity = None \/ lock.identity <= birth[lock.pid]

\* The verdict on an owner survives until the unlink: a dead owner stays dead,
\* and a process that gets its pid is born later.
VerdictStands ==
  \A p \in Pid : pc[p] = "reclaim" /\ lock \in Owner =>
    ~alive[lock.pid] \/ lock.identity # birth[lock.pid]

\* The lock file is typed only because its writer has a token.
TypeInv == TypeOK /\ CallsHaveTokens

Protocol ==
  /\ GuardIsExclusive
  /\ OnlyLiveRun
  /\ CreatorSeesTorn
  /\ HolderOwnsFile
  /\ ReclaimExcludesHolders
  /\ ReleasesOwnFile
  /\ IdentitiesArePast
  /\ VerdictStands

\* The inductive invariant.
IInv == TypeInv /\ Protocol

-----------------------------------------------------------------------------
(* Type correctness.                                                       *)

USE DEF Holding, Guarded, Control

LEMMA InitTyped == Init => TypeInv
<1>1. 1 \in Birth
  BY PositiveBirth DEF PositiveBirth, Birth
<1> QED
  BY <1>1 DEF Init, TypeInv, TypeOK, CallsHaveTokens

LEMMA StepTyped == TypeInv /\ [Next]_vars => TypeInv'
<1> SUFFICES ASSUME TypeInv, [Next]_vars PROVE TypeInv'
  OBVIOUS
<1> USE DEF TypeInv, TypeOK, CallsHaveTokens
<1>1. CASE UNCHANGED vars
  BY <1>1 DEF vars
<1>2. CASE LockAges
  BY <1>2 DEF LockAges, procVars
<1>3. ASSUME NEW p \in Pid, Enter(p) PROVE TypeInv'
  BY <1>3 DEF Enter
<1>4. ASSUME NEW p \in Pid, TakeGuard(p) PROVE TypeInv'
  BY <1>4 DEF TakeGuard, Goto
<1>5. ASSUME NEW p \in Pid, GuardTimeout(p) PROVE TypeInv'
  BY <1>5 DEF GuardTimeout, Return
<1>6. ASSUME NEW p \in Pid, Create(p) PROVE TypeInv'
  BY <1>6 DEF Create, Goto
<1>7. ASSUME NEW p \in Pid, WriteIdentity(p) PROVE TypeInv'
  BY <1>7 DEF WriteIdentity, Goto, IdentityReads, Owner
<1>8. ASSUME NEW p \in Pid, WriteFails(p) PROVE TypeInv'
  BY <1>8 DEF WriteFails, Return
<1>9. ASSUME NEW p \in Pid, FindAbandoned(p) PROVE TypeInv'
  BY <1>9 DEF FindAbandoned, Goto
<1>10. ASSUME NEW p \in Pid, FindOwned(p) PROVE TypeInv'
  BY <1>10 DEF FindOwned, Goto
<1>11. ASSUME NEW p \in Pid, Reclaim(p) PROVE TypeInv'
  BY <1>11 DEF Reclaim, Goto, UnlinkIfSeen
<1>12. ASSUME NEW p \in Pid, Retry(p) PROVE TypeInv'
  BY <1>12 DEF Retry, Goto
<1>13. ASSUME NEW p \in Pid, LockTimeout(p) PROVE TypeInv'
  BY <1>13 DEF LockTimeout, Return
<1>14. ASSUME NEW p \in Pid, ReadForRelease(p) PROVE TypeInv'
  BY <1>14 DEF ReadForRelease, Goto
<1>15. ASSUME NEW p \in Pid, SkipRelease(p) PROVE TypeInv'
  BY <1>15 DEF SkipRelease, Return
<1>16. ASSUME NEW p \in Pid, UnlinkGuard(p) PROVE TypeInv'
  BY <1>16 DEF UnlinkGuard, Goto
<1>17. ASSUME NEW p \in Pid, UnlinkTimeout(p) PROVE TypeInv'
  BY <1>17 DEF UnlinkTimeout, Return
<1>18. ASSUME NEW p \in Pid, Unlink(p) PROVE TypeInv'
  BY <1>18 DEF Unlink, Return, UnlinkIfSeen
<1>19. ASSUME NEW p \in Pid, Crash(p) PROVE TypeInv'
  BY <1>19 DEF Crash, Return
<1>20. ASSUME NEW p \in Pid, ReusePid(p) PROVE TypeInv'
  BY <1>20, PositiveBirth DEF PositiveBirth, ReusePid, Birth
<1>21. ASSUME NEW p \in Pid, DeadlinePasses(p) PROVE TypeInv'
  BY <1>21 DEF DeadlinePasses
<1> QED
  BY <1>1, <1>2, <1>3, <1>4, <1>5, <1>6, <1>7, <1>8, <1>9, <1>10, <1>11, <1>12, <1>13, <1>14, <1>15, <1>16, <1>17, <1>18, <1>19, <1>20, <1>21
  DEF Next, Step, Acquiring, Releasing, Environment

\* Every variable of the lock keeps its type: a call always stands at one of the
\* points of session_lock, and the file is absent, torn, or names an owner.
THEOREM TypeCorrect == Spec => []TypeOK
<1>1. Init => TypeInv
  BY InitTyped
<1>2. TypeInv /\ [Next]_vars => TypeInv'
  BY StepTyped
<1>3. TypeInv => TypeOK
  BY DEF TypeInv
<1> QED
  BY <1>1, <1>2, <1>3, PTL DEF Spec

-----------------------------------------------------------------------------
(* Mutual exclusion.                                                       *)

LEMMA InitProtocol == Init => Protocol
BY DistinctContents DEF DistinctContents, Init, Protocol, GuardIsExclusive,
  OnlyLiveRun, CreatorSeesTorn, HolderOwnsFile, ReclaimExcludesHolders,
  ReleasesOwnFile, IdentitiesArePast, VerdictStands

LEMMA StepProtocol == TypeInv /\ Protocol /\ [Next]_vars => Protocol'
<1> SUFFICES ASSUME TypeInv, Protocol, [Next]_vars PROVE Protocol'
  OBVIOUS
<1> USE DistinctContents
<1> USE DEF DistinctContents, TypeInv, TypeOK, CallsHaveTokens, Protocol,
      GuardIsExclusive, OnlyLiveRun, CreatorSeesTorn, HolderOwnsFile,
      ReclaimExcludesHolders, ReleasesOwnFile, IdentitiesArePast,
      VerdictStands
<1>1. CASE UNCHANGED vars
  BY <1>1 DEF vars
<1>2. CASE LockAges
  BY <1>2 DEF LockAges, procVars
<1>3. ASSUME NEW p \in Pid, Enter(p) PROVE Protocol'
  BY <1>3 DEF Enter
<1>4. ASSUME NEW p \in Pid, TakeGuard(p) PROVE Protocol'
  BY <1>4 DEF TakeGuard, Goto
<1>5. ASSUME NEW p \in Pid, GuardTimeout(p) PROVE Protocol'
  BY <1>5 DEF GuardTimeout, Return
<1>6. ASSUME NEW p \in Pid, Create(p) PROVE Protocol'
  BY <1>6 DEF Create, Goto
<1>7. ASSUME NEW p \in Pid, WriteIdentity(p) PROVE Protocol'
  BY <1>7, PositiveBirth
  DEF PositiveBirth, Birth, WriteIdentity, Goto, IdentityReads, Owner
<1>8. ASSUME NEW p \in Pid, WriteFails(p) PROVE Protocol'
  BY <1>8 DEF WriteFails, Return
<1>9. ASSUME NEW p \in Pid, FindAbandoned(p) PROVE Protocol'
  BY <1>9 DEF FindAbandoned, Goto, MayReclaim, OwnerIsDead, MatchesIdentity, UnidentifiedIsStale, OwnerReads, IdentityReads
<1>10. ASSUME NEW p \in Pid, FindOwned(p) PROVE Protocol'
  BY <1>10 DEF FindOwned, Goto
<1>11. ASSUME NEW p \in Pid, Reclaim(p) PROVE Protocol'
  BY <1>11 DEF Reclaim, Goto, UnlinkIfSeen
<1>12. ASSUME NEW p \in Pid, Retry(p) PROVE Protocol'
  BY <1>12 DEF Retry, Goto
<1>13. ASSUME NEW p \in Pid, LockTimeout(p) PROVE Protocol'
  BY <1>13 DEF LockTimeout, Return
<1>14. ASSUME NEW p \in Pid, ReadForRelease(p) PROVE Protocol'
  BY <1>14 DEF ReadForRelease, Goto
<1>15. ASSUME NEW p \in Pid, SkipRelease(p) PROVE Protocol'
  BY <1>15 DEF SkipRelease, Return
<1>16. ASSUME NEW p \in Pid, UnlinkGuard(p) PROVE Protocol'
  BY <1>16 DEF UnlinkGuard, Goto
<1>17. ASSUME NEW p \in Pid, UnlinkTimeout(p) PROVE Protocol'
  BY <1>17 DEF UnlinkTimeout, Return
<1>18. ASSUME NEW p \in Pid, Unlink(p) PROVE Protocol'
  BY <1>18 DEF Unlink, Return, UnlinkIfSeen
<1>19. ASSUME NEW p \in Pid, Crash(p) PROVE Protocol'
  BY <1>19 DEF Crash, Return
<1>20. ASSUME NEW p \in Pid, ReusePid(p) PROVE Protocol'
  <2> USE <1>20, PositiveBirth DEF PositiveBirth, ReusePid, Birth, Owner
  <2>1. \A q \in Pid : birth[q] \in Nat /\ birth'[q] \in Nat
    OBVIOUS
  <2>2. birth'[p] = birth[p] + 1 /\ \A q \in Pid \ {p} : birth'[q] = birth[q]
    OBVIOUS
  <2>3. lock \in Owner => lock.pid \in Pid /\ lock.identity \in (1..MaxBirth) \union {None}
    OBVIOUS
  <2>4. IdentitiesArePast'
    BY <2>1, <2>2, <2>3
  <2>5. VerdictStands'
    BY <2>1, <2>2, <2>3
  <2> QED
    BY <2>2, <2>4, <2>5
<1>21. ASSUME NEW p \in Pid, DeadlinePasses(p) PROVE Protocol'
  BY <1>21 DEF DeadlinePasses
<1> QED
  BY <1>1, <1>2, <1>3, <1>4, <1>5, <1>6, <1>7, <1>8, <1>9, <1>10, <1>11, <1>12, <1>13, <1>14, <1>15, <1>16, <1>17, <1>18, <1>19, <1>20, <1>21
  DEF Next, Step, Acquiring, Releasing, Environment

THEOREM Invariant == Spec => []IInv
<1>1. Init => IInv
  BY InitTyped, InitProtocol DEF IInv
<1>2. IInv /\ [Next]_vars => IInv'
  BY StepTyped, StepProtocol DEF IInv
<1> QED
  BY <1>1, <1>2, PTL DEF Spec

\* While a process is inside session_lock the file names that process and that
\* call, for every number of processes and generations: age, a torn file or an
\* unobtainable creation time never takes a lock from a live owner.
THEOREM HolderOwnsFileAlways == Spec => []HolderOwnsFile
<1>1. IInv => HolderOwnsFile
  BY DEF IInv, Protocol
<1> QED
  BY <1>1, Invariant, PTL

\* Two processes are never inside session_lock for the same directory together.
THEOREM Exclusive == Spec => []MutualExclusion
<1>1. IInv => MutualExclusion
  BY DEF IInv, Protocol, HolderOwnsFile, MutualExclusion
<1> QED
  BY <1>1, Invariant, PTL

\* A lock file that names its owner goes only through the release of that very
\* call or after its owner died, whatever digest the remover had taken before.
THEOREM NothingStolen == Spec => NoLockStolen
<1>1. IInv /\ [Next]_vars => [OwnFileOrDeadOwner]_vars
  <2> SUFFICES ASSUME IInv, [Next]_vars PROVE [OwnFileOrDeadOwner]_vars
    OBVIOUS
  <2> USE DEF OwnFileOrDeadOwner, IInv, TypeInv, Protocol
  <2>1. CASE UNCHANGED vars
    BY <2>1 DEF vars
  <2>2. CASE Next /\ lock \in Owner /\ lock' # lock
    <3>1. PICK p \in Pid : Create(p) \/ WriteIdentity(p) \/ WriteFails(p)
                           \/ Reclaim(p) \/ Unlink(p)
      BY <2>2 DEF Next, Step, Acquiring, Releasing, Environment, LockAges,
        Enter, TakeGuard, GuardTimeout, FindAbandoned, FindOwned, Retry,
        LockTimeout, ReadForRelease, SkipRelease, UnlinkGuard, UnlinkTimeout,
        Crash, ReusePid, DeadlinePasses
    <3>2. ~Create(p)
      BY <2>2, DistinctContents DEF DistinctContents, Create
    <3>3. ~(WriteIdentity(p) \/ WriteFails(p))
      BY <2>2, DistinctContents
      DEF DistinctContents, WriteIdentity, WriteFails, CreatorSeesTorn
    <3>4. CASE Reclaim(p)
      BY <2>2, <3>4 DEF Reclaim, VerdictStands
    <3>5. CASE Unlink(p)
      BY <2>2, <3>5 DEF Unlink, HolderOwnsFile
    <3> QED
      BY <3>1, <3>2, <3>3, <3>4, <3>5
  <2> QED
    BY <2>1, <2>2
<1> QED
  BY <1>1, Invariant, PTL DEF Spec, NoLockStolen
=============================================================================
