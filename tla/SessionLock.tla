----------------------------- MODULE SessionLock -----------------------------
(***************************************************************************)
(* session_lock (work_state_core/durability.py): the mutual exclusion that *)
(* every command which changes one durable-work session runs under.        *)
(*                                                                         *)
(* The lock is a file `.state.lock`, created with O_EXCL and naming its    *)
(* owner (pid, creation time of that process, random token).  A second     *)
(* file, `.state.lock.guard`, is flock'ed while the lock file is created,  *)
(* judged abandoned or removed; the operating system drops the flock of a  *)
(* process that dies, the lock file it leaves behind.                      *)
(*                                                                         *)
(* Processes are named by their pid.  A pid whose process died may be      *)
(* given to a new process; birth[p] tells the two apart, as the creation   *)
(* time read by _process_identity does.                                    *)
(***************************************************************************)
EXTENDS Naturals

CONSTANTS
  Pid,          \* process ids
  Token,        \* random 16-byte tokens, one drawn by each call
  MaxBirth,     \* bound: how often a pid is handed out
  Unreadable,   \* TRUE when reading the lock file may raise PermissionError
  Hidden,       \* TRUE when a process creation time may be unobtainable
  Absent,       \* there is no lock file
  Torn,         \* a lock file whose content names no pid
  None          \* no process, no creation time, no token, nothing read

Birth == 1..MaxBirth

\* The content of a completely written lock file.
Owner == [pid: Pid, identity: Birth \union {None}, token: Token]

ASSUME PositiveBirth == MaxBirth \in Nat \ {0}
ASSUME Flags == Unreadable \in BOOLEAN /\ Hidden \in BOOLEAN
ASSUME DistinctContents ==
  /\ Absent # Torn /\ Absent # None /\ Torn # None
  /\ {Absent, Torn, None} \intersect Owner = {}
  /\ None \notin Pid /\ None \notin Token /\ None \notin Birth

VARIABLES
  alive,    \* alive[p]: pid p belongs to a running process
  birth,    \* birth[p]: creation time of the present (or last) process with pid p
  pc,       \* pc[p]: how far the call of session_lock made by p has come
  token,    \* token[p]: the token drawn by that call
  seen,     \* seen[p]: lock content whose digest p holds to unlink it later
  expired,  \* expired[p]: LOCK_TIMEOUT_SECONDS have passed since the call began
  guard,    \* who holds the flock on the guard file
  lock,     \* content of the lock file
  old       \* the lock file is at least LOCK_STALE_SECONDS old

procVars == <<pc, token, seen, expired>>
vars == <<alive, birth, pc, token, seen, expired, guard, lock, old>>

\* Inside the body of the context manager, or leaving it.
Holding == {"critical", "unlinkWait", "unlinking"}
\* The points at which a process has the guard file locked.
Guarded == {"guarded", "created", "reclaim", "unlinking"}
Control == {"idle", "wait", "retry"} \union Holding \union Guarded

TypeOK ==
  /\ alive \in [Pid -> BOOLEAN]
  /\ birth \in [Pid -> Birth]
  /\ pc \in [Pid -> Control]
  /\ token \in [Pid -> Token \union {None}]
  /\ seen \in [Pid -> Owner \union {Torn, None}]
  /\ expired \in [Pid -> BOOLEAN]
  /\ guard \in Pid \union {None}
  /\ lock \in Owner \union {Absent, Torn}
  /\ old \in BOOLEAN

Init ==
  /\ alive = [p \in Pid |-> TRUE]
  /\ birth = [p \in Pid |-> 1]
  /\ pc = [p \in Pid |-> "idle"]
  /\ token = [p \in Pid |-> None]
  /\ seen = [p \in Pid |-> None]
  /\ expired = [p \in Pid |-> FALSE]
  /\ guard = None
  /\ lock = Absent
  /\ old = FALSE

-----------------------------------------------------------------------------
(* Who owns a lock file, and whether its owner is gone.                    *)

\* What _process_identity(p) may answer about a pid in use.
IdentityReads(p) == {birth[p]} \union (IF Hidden THEN {None} ELSE {})

\* Mutant: a creation time that cannot be obtained counts as a mismatch.
MutMatchesIdentity(p, expected, current) ==
  alive[p] /\ (expected = None \/ current = expected)

\* _process_matches_identity: an unobtainable creation time, now or when the
\* lock was written, is no evidence that the pid was reused.
MatchesIdentity(p, expected, current) ==
  alive[p] /\ (expected = None \/ current = None \/ current = expected)

\* Mutant: age alone makes an identified lock abandoned.
MutOwnerIsDead(content, current) ==
  content \in Owner /\
    (old \/ ~MatchesIdentity(content.pid, content.identity, current))

OwnerIsDead(content, current) ==
  content \in Owner /\ ~MatchesIdentity(content.pid, content.identity, current)

\* Mutant: a torn lock file is never given up.
MutUnidentifiedIsStale(content) == FALSE

UnidentifiedIsStale(content) == content = Torn /\ old

\* The creation time p would read for the pid that content names, if any.
OwnerReads(content) ==
  IF content \in Owner THEN IdentityReads(content.pid) ELSE {None}

MayReclaim(content, current) ==
  OwnerIsDead(content, current) \/ UnidentifiedIsStale(content)

-----------------------------------------------------------------------------
(* Acquisition.                                                            *)

\* The call returns or raises: its local variables are gone.
Return(p) ==
  /\ pc' = [pc EXCEPT ![p] = "idle"]
  /\ token' = [token EXCEPT ![p] = None]
  /\ seen' = [seen EXCEPT ![p] = None]
  /\ expired' = [expired EXCEPT ![p] = FALSE]

Goto(p, label) ==
  /\ pc' = [pc EXCEPT ![p] = label]
  /\ UNCHANGED <<token, expired>>

\* A token is fresh when neither a call nor the lock file has it.
Fresh(t) ==
  /\ \A q \in Pid : token[q] # t
  /\ lock \in Owner => lock.token # t

Enter(p) ==
  /\ alive[p] /\ pc[p] = "idle"
  /\ \E t \in Token : Fresh(t) /\ token' = [token EXCEPT ![p] = t]
  /\ pc' = [pc EXCEPT ![p] = "wait"]
  /\ UNCHANGED <<alive, birth, seen, expired, guard, lock, old>>

TakeGuard(p) ==
  /\ pc[p] = "wait" /\ guard = None
  /\ guard' = p
  /\ Goto(p, "guarded")
  /\ UNCHANGED <<alive, birth, seen, lock, old>>

\* The guard stayed locked by others for LOCK_TIMEOUT_SECONDS: WorkStateError.
GuardTimeout(p) ==
  /\ pc[p] = "wait" /\ guard # None
  /\ Return(p)
  /\ UNCHANGED <<alive, birth, guard, lock, old>>

\* Mutant: the guard covers O_EXCL only, not the write of the identity.
MutCreate(p) ==
  /\ pc[p] = "guarded" /\ lock = Absent
  /\ lock' = Torn /\ old' = FALSE
  /\ guard' = None
  /\ Goto(p, "created")
  /\ UNCHANGED <<alive, birth, seen>>

\* os.open(O_CREAT | O_EXCL): the file exists before it names anyone.
Create(p) ==
  /\ pc[p] = "guarded" /\ lock = Absent
  /\ lock' = Torn /\ old' = FALSE
  /\ Goto(p, "created")
  /\ UNCHANGED <<alive, birth, seen, guard>>

\* The identity is written and synced, and the guard released.
WriteIdentity(p) ==
  /\ pc[p] = "created"
  /\ \E own \in IdentityReads(p) :
       lock' = [pid |-> p, identity |-> own, token |-> token[p]]
  /\ guard' = None
  /\ Goto(p, "critical")
  /\ UNCHANGED <<alive, birth, seen, old>>

\* OSError while writing: the handler unlinks the file and raises.
WriteFails(p) ==
  /\ pc[p] = "created"
  /\ lock' = Absent /\ guard' = None
  /\ Return(p)
  /\ UNCHANGED <<alive, birth, old>>

\* FileExistsError, and the file proves to be abandoned.
FindAbandoned(p) ==
  /\ pc[p] = "guarded" /\ lock # Absent
  /\ \E current \in OwnerReads(lock) : MayReclaim(lock, current)
  /\ seen' = [seen EXCEPT ![p] = lock]
  /\ Goto(p, "reclaim")
  /\ UNCHANGED <<alive, birth, guard, lock, old>>

\* Mutant: a lock that was not reclaimed goes round like a reclaimed one.
MutFindOwned(p) ==
  /\ pc[p] = "guarded" /\ lock # Absent
  /\ Unreadable \/ \E current \in OwnerReads(lock) : ~MayReclaim(lock, current)
  /\ guard' = None
  /\ Goto(p, "wait")
  /\ UNCHANGED <<alive, birth, seen, lock, old>>

\* FileExistsError, and the file is owned, is too young to judge, or cannot be
\* read: leave the guard and look at the deadline.
FindOwned(p) ==
  /\ pc[p] = "guarded" /\ lock # Absent
  /\ Unreadable \/ \E current \in OwnerReads(lock) : ~MayReclaim(lock, current)
  /\ guard' = None
  /\ Goto(p, "retry")
  /\ UNCHANGED <<alive, birth, seen, lock, old>>

\* _unlink_lock_if_identity_guarded: remove the file unless it has changed.
UnlinkIfSeen(p) ==
  lock' = IF lock = seen[p] THEN Absent ELSE lock

\* A successful reclaim goes round without a look at the deadline.
Reclaim(p) ==
  /\ pc[p] = "reclaim"
  /\ UnlinkIfSeen(p)
  /\ guard' = None
  /\ seen' = [seen EXCEPT ![p] = None]
  /\ Goto(p, IF lock = seen[p] THEN "wait" ELSE "retry")
  /\ UNCHANGED <<alive, birth, old>>

Retry(p) ==
  /\ pc[p] = "retry" /\ ~expired[p]
  /\ Goto(p, "wait")
  /\ UNCHANGED <<alive, birth, seen, guard, lock, old>>

\* The deadline has passed: WorkStateError.
LockTimeout(p) ==
  /\ pc[p] = "retry" /\ expired[p]
  /\ Return(p)
  /\ UNCHANGED <<alive, birth, guard, lock, old>>

-----------------------------------------------------------------------------
(* Release: the file is read outside the guard and unlinked under it.      *)

ReadForRelease(p) ==
  /\ pc[p] = "critical"
  /\ lock \in Owner /\ lock.token = token[p]
  /\ seen' = [seen EXCEPT ![p] = lock]
  /\ Goto(p, "unlinkWait")
  /\ UNCHANGED <<alive, birth, guard, lock, old>>

\* The file is gone, unreadable, or carries another token: nothing to release.
SkipRelease(p) ==
  /\ pc[p] = "critical"
  /\ Unreadable \/ ~(lock \in Owner /\ lock.token = token[p])
  /\ Return(p)
  /\ UNCHANGED <<alive, birth, guard, lock, old>>

UnlinkGuard(p) ==
  /\ pc[p] = "unlinkWait" /\ guard = None
  /\ guard' = p
  /\ Goto(p, "unlinking")
  /\ UNCHANGED <<alive, birth, seen, lock, old>>

\* The guard was never free: the error leaves the lock file behind.
UnlinkTimeout(p) ==
  /\ pc[p] = "unlinkWait" /\ guard # None
  /\ Return(p)
  /\ UNCHANGED <<alive, birth, guard, lock, old>>

Unlink(p) ==
  /\ pc[p] = "unlinking"
  /\ UnlinkIfSeen(p)
  /\ guard' = None
  /\ Return(p)
  /\ UNCHANGED <<alive, birth, old>>

-----------------------------------------------------------------------------
(* The operating system and time.                                          *)

\* A crash, or the interrupt that ends a command, drops the flock and keeps the
\* lock file, torn when it strikes between Create and WriteIdentity.
Crash(p) ==
  /\ alive[p]
  /\ alive' = [alive EXCEPT ![p] = FALSE]
  /\ guard' = IF guard = p THEN None ELSE guard
  /\ Return(p)
  /\ UNCHANGED <<birth, lock, old>>

\* The pid of a dead process is given to a new one.
ReusePid(p) ==
  /\ ~alive[p] /\ birth[p] < MaxBirth
  /\ alive' = [alive EXCEPT ![p] = TRUE]
  /\ birth' = [birth EXCEPT ![p] = @ + 1]
  /\ UNCHANGED <<pc, token, seen, expired, guard, lock, old>>

DeadlinePasses(p) ==
  /\ pc[p] \in {"wait", "guarded", "created", "reclaim", "retry"} /\ ~expired[p]
  /\ expired' = [expired EXCEPT ![p] = TRUE]
  /\ UNCHANGED <<alive, birth, pc, token, seen, guard, lock, old>>

LockAges ==
  /\ lock # Absent /\ ~old
  /\ old' = TRUE
  /\ UNCHANGED <<alive, birth, procVars, guard, lock>>

-----------------------------------------------------------------------------
Acquiring(p) ==
  \/ TakeGuard(p) \/ GuardTimeout(p) \/ Create(p)
  \/ WriteIdentity(p) \/ WriteFails(p)
  \/ FindAbandoned(p) \/ FindOwned(p) \/ Reclaim(p)
  \/ Retry(p) \/ LockTimeout(p)

Releasing(p) ==
  \/ ReadForRelease(p) \/ SkipRelease(p)
  \/ UnlinkGuard(p) \/ UnlinkTimeout(p) \/ Unlink(p)

\* What the code of the calling process does once it has called session_lock.
Step(p) == Acquiring(p) \/ Releasing(p)

Environment(p) == Crash(p) \/ ReusePid(p) \/ DeadlinePasses(p)

Next == LockAges \/ \E p \in Pid : Enter(p) \/ Step(p) \/ Environment(p)

Spec == Init /\ [][Next]_vars

\* A running process keeps executing, the body of its critical section ends,
\* and time passes.
Fairness ==
  /\ WF_vars(LockAges)
  /\ \A p \in Pid : WF_vars(Step(p)) /\ WF_vars(DeadlinePasses(p))

FairSpec == Spec /\ Fairness

-----------------------------------------------------------------------------
(* Properties.                                                             *)

\* At most one process is between acquisition and release, whatever crashes,
\* pid reuse, torn files and time-outs occur: save_state_with_event assumes it
\* of every state.json and ledger replacement.
MutualExclusion ==
  \A p, q \in Pid : pc[p] \in Holding /\ pc[q] \in Holding => p = q

\* "Age alone never makes an identified live lock abandoned" (state-contract.md):
\* while a process is inside, the file still names that process and that call,
\* however long the body takes.
HolderOwnsFile ==
  \A p \in Pid : pc[p] \in Holding =>
    /\ lock \in Owner /\ lock.pid = p /\ lock.token = token[p]
    /\ lock.identity \in {birth[p], None}

\* A step that removes or replaces a file naming its owner is that owner's
\* release, or finds the owner dead.
OwnFileOrDeadOwner ==
  lock \in Owner /\ lock' # lock =>
    \/ pc[lock.pid] = "unlinking" /\ token[lock.pid] = lock.token
    \/ ~alive[lock.pid]
    \/ lock.identity # birth[lock.pid]

\* "An owner removes the lock only while its token still matches, so it cannot
\* release a successor's lock": a file that names its owner disappears only
\* through the call whose token it carries, or after the death of that owner.
NoLockStolen == [][OwnFileOrDeadOwner]_vars

\* Every call of session_lock returns: it acquires, raises, or dies, also when
\* the lock file can never be read (the fix recorded in the PermissionError
\* branch) or is never released.
CallsEnd ==
  \A p \in Pid : pc[p] = "wait" ~> pc[p] \in {"idle", "critical"}

LeftBehind ==
  \/ lock = Torn
  \/ lock \in Owner /\ ~alive[lock.pid]

\* Clients that call again after a WorkStateError or another command, and a lock
\* file that can be read again and again.
Persistence == \A p \in Pid : WF_vars(Enter(p)) /\ SF_vars(FindAbandoned(p))

\* No crash blocks a session for good: as long as some client lives, clients keep
\* calling and the file is not unreadable for ever, a lock file left torn or by a
\* dead owner does not survive.
AbandonedLockIsReclaimed ==
  Persistence => (LeftBehind ~> (~LeftBehind \/ \A p \in Pid : ~alive[p]))

\* "`timed out waiting for state lock` means an identified live owner still holds
\* the session" (docs/operations.md:177-178).  In the code a file that no
\* process has signed is kept for 30 seconds and the caller gives up after 10.
TimeoutStep ==
  \A p \in Pid : LockTimeout(p) /\ lock # Absent =>
    lock \in Owner /\ \E q \in Pid : lock.pid = q /\ alive[q]
TimeoutMeansLiveOwner == [][TimeoutStep]_vars
=============================================================================
