------------------------------ MODULE Rollouts ------------------------------
(* The telemetry of a session as parse_new_rollouts reads it: the rollout    *)
(* of the parent thread in the order of its rows, and the rollouts of the    *)
(* children it found, bound one to one or refused.                           *)
EXTENDS Naturals, Sequences, FiniteSets, FiniteSetsExt, Absence

CONSTANTS
  Task, Child,   \* task names of spawns, thread identities of children
  MaxSpawns, MaxWaits, MaxFinals    \* bounds: rows of each kind

VARIABLES
  log,        \* rows of the parent's rollout
  telemetry   \* what was read from it, or None

rolloutVars == <<log, telemetry>>
-----------------------------------------------------------------------------
Rows(kind) == {i \in DOMAIN log : log[i].kind = kind}

Spawns == Rows("spawn")
Waits == Rows("wait")      \* outputs of wait_agent that did not time out
Finals == Rows("final")    \* final answers of children, by the task in their path

\* Mutant: a wait that was credited to a join can be credited to another.
MutFree(i, used) == {w \in Waits : w < i}

\* The waits that a final answer at row i can still be credited to.
Free(i, used) == {w \in Waits : w < i} \ used

\* The wait that each final answer is credited to, or None: the latest free one.
Credit ==
  LET credit[i \in 0..Len(log)] ==
        IF i = 0 THEN <<>>
        ELSE IF log[i].kind # "final" THEN Append(credit[i - 1], None)
        ELSE LET used == {credit[i - 1][j] : j \in 1..(i - 1)} IN
             Append(credit[i - 1],
                    IF Free(i, used) = {} THEN None ELSE Max(Free(i, used)))
  IN credit[Len(log)]

Distinct(field) == \A i, j \in Spawns : field[i] = field[j] => i = j

TaskOf == [i \in Spawns |-> log[i].task]
ActorOf == [i \in Spawns |-> log[i].actor]

(* found: the new rollouts beside the parent's; started: the spawns the host *)
(* reported as started.                                                      *)
Bound(found, started) ==
  /\ started = Spawns
  /\ Distinct(TaskOf) /\ Distinct(ActorOf)
  /\ \A i \in Finals : \E s \in Spawns : TaskOf[s] = log[i].task
  /\ \A i, j \in Finals : log[i].task = log[j].task => i = j
  /\ found = {ActorOf[s] : s \in Spawns}   \* none missing, none unlinked

LifecycleOf(s) ==
  LET joins == {i \in Finals : log[i].task = TaskOf[s]} IN
  [actor |-> ActorOf[s], task |-> TaskOf[s],
   joined |-> joins # {},
   wait |-> IF joins = {} THEN None ELSE Credit[CHOOSE i \in joins : TRUE]]

\* The usage that is counted: the parent's, and once for every child bound here.
Telemetry(found) == [ok |-> TRUE, new |-> found, lifecycle |-> [s \in Spawns |-> LifecycleOf(s)]]

NotBound == [ok |-> FALSE]
-----------------------------------------------------------------------------
RolloutsInit == log = <<>> /\ telemetry = None

Row(kind, task, actor) == log' = Append(log, [kind |-> kind, task |-> task, actor |-> actor])

HostWrites ==
  /\ telemetry = None
  /\ \/ /\ Cardinality(Spawns) < MaxSpawns
        /\ \E t \in Task, a \in Child : Row("spawn", t, a)
     \/ Cardinality(Waits) < MaxWaits /\ Row("wait", None, None)
     \/ /\ Cardinality(Finals) < MaxFinals
        /\ \E t \in Task : Row("final", t, None)
  /\ UNCHANGED telemetry

ParseNewRollouts ==
  /\ telemetry = None
  /\ \E found \in SUBSET Child, started \in SUBSET Spawns :
       telemetry' = IF Bound(found, started) THEN Telemetry(found) ELSE NotBound
  /\ UNCHANGED log

RolloutsNext == HostWrites \/ ParseNewRollouts

RolloutsSpec == RolloutsInit /\ [][RolloutsNext]_rolloutVars
-----------------------------------------------------------------------------
Accepted == telemetry # None /\ telemetry.ok

\* Every new rollout is counted for one child, and every child that was spawned has one:
\* no usage is left out or taken twice.
UsageCountedOnce ==
  Accepted =>
    /\ \A a \in telemetry.new :
         \E s \in DOMAIN telemetry.lifecycle :
           \A t \in DOMAIN telemetry.lifecycle : telemetry.lifecycle[t].actor = a <=> t = s
    /\ Cardinality(telemetry.new) = Cardinality(DOMAIN telemetry.lifecycle)

\* The assignments of final answers to waits before them, each wait used once.
Matchings ==
  {m \in UNION {[F -> Waits] : F \in SUBSET Finals} :
     \A i \in DOMAIN m : m[i] < i /\ \A j \in DOMAIN m : m[i] = m[j] => i = j}

\* Each wait is credited to one join after it at most, and no other way to credit the
\* waits explains more of the joins.
WaitsCreditedBest ==
  Accepted =>
    LET waited == {s \in DOMAIN telemetry.lifecycle : telemetry.lifecycle[s].wait # None} IN
    /\ \A s, t \in waited : telemetry.lifecycle[s].wait = telemetry.lifecycle[t].wait => s = t
    /\ \A m \in Matchings : Cardinality(DOMAIN m) <= Cardinality(waited)

TelemetryIsBound == UsageCountedOnce /\ WaitsCreditedBest
=============================================================================
