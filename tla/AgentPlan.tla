----------------------------- MODULE AgentPlan -----------------------------
(* Delegation: the planner (scripts/orchestration_policy.py) turns units of *)
(* work into waves of assignments, the host carries them out, each worker's *)
(* result is validated against the plan, and the live runner               *)
(* (scripts/live_ab_runner_core/core.py) decides from the lifecycle events  *)
(* of the host whether the plan was what happened.  Interface version 2.    *)
EXTENDS Integers, FiniteSets, SequencesExt, Absence

CONSTANTS
  LastUnit,   \* units are 1..LastUnit, in the order of their ids
  Path,       \* folded paths, as sequences of components
  Input,      \* the planning inputs that are submitted
  Carried     \* bound: those whose plans the host carries out

VARIABLES
  input,      \* the planning input
  plan,       \* the plan, None before there is one
  actors,     \* assignment -> the agent the host started for it
  results,    \* assignment -> its validated result
  claim,      \* the last durable claim that was found eligible
  outcome     \* what the runner says of the execution

planVars == <<input, plan, actors, results, claim, outcome>>
-----------------------------------------------------------------------------
Unit == 1..LastUnit
Verifier == 0   \* fresh-verifier
Assignment == Unit \cup {Verifier}
Actor == 1..LastUnit   \* agents of the host, in the order they are started

\* What _normalize_unit lets through: an investigator, researcher or reviewer reads
\* only, an executor or test-writer owns paths and has depth 1.
UnitSpec == [role : {"reader", "test-writer", "executor"}, owned : SUBSET Path,
             deps : SUBSET Unit, ready : BOOLEAN, red : BOOLEAN]
Writes(u) == u.role # "reader"

PlanInput == [phase : {"diagnose", "implement", "verify"},
              delegable : BOOLEAN,  \* clear boundaries, no cheaper step, depth 0, ...
              authorized : BOOLEAN, \* request and authorization are a change
              packets : BOOLEAN,    \* packet_plan_valid
              wanted : BOOLEAN,     \* durable, quality claim or delegated change
              slots : Nat, completed : SUBSET Unit,
              retry : Unit \cup {None}, attempts : 0..1,
              units : [Unit -> UnitSpec]]

\* _paths_overlap
Overlap(p, q) == IsPrefix(p, q) \/ IsPrefix(q, p)
Share(P, Q) == \E p \in P, q \in Q : Overlap(p, q)

Status == {"completed", "no-op", "failed", "blocked", "confirmed", "rejected", "inconclusive"}

\* What is kept of a result: whether its checks were clean, not which commands ran.
Result == [status : Status, actor : Actor, changed : SUBSET Path, clean : BOOLEAN]

ASSUME PlanConstants ==
  /\ LastUnit \in Nat /\ Path \subseteq Seq(STRING) /\ Input \subseteq PlanInput
  /\ None \notin Status
-----------------------------------------------------------------------------
(* The planner.                                                            *)

\* _validate_units: dependencies are known, acyclic and not on itself.
Acyclic(i) ==
  LET back[n \in 0..LastUnit] ==
        IF n = 0 THEN [u \in Unit |-> i.units[u].deps]
        ELSE [u \in Unit |-> back[n - 1][u] \cup UNION {back[n - 1][v] : v \in back[n - 1][u]}]
  IN \A u \in Unit : u \notin back[LastUnit][u]

\* _planner_candidates, and on a retry the failed unit alone.
Candidates(i) ==
  {u \in Unit :
     /\ u \notin i.completed /\ i.units[u].ready
     /\ \/ i.phase = "diagnose" /\ ~Writes(i.units[u])
        \/ i.phase = "implement" /\ Writes(i.units[u])
     /\ i.retry \in {None, u}}

MinOf(a, b) == IF a <= b THEN a ELSE b

\* One slot stays with the main agent.
Capacity(i) == MinOf(MinOf(i.slots - 1, 3), Cardinality(Candidates(i)))

FirstOf(S, k) == {u \in S : Cardinality({v \in S : v < u}) < k}

\* Mutant: a unit is due as soon as its dependencies are candidates.
MutScheduled(i) ==
  LET done[n \in 0..LastUnit] ==
        IF n = 0 THEN {}
        ELSE done[n - 1] \cup
             FirstOf({u \in Candidates(i) \ done[n - 1] :
                        i.units[u].deps \subseteq i.completed \cup Candidates(i)}, Capacity(i))
  IN done

\* _topological_selection: what is scheduled after n waves.
Scheduled(i) ==
  LET done[n \in 0..LastUnit] ==
        IF n = 0 THEN {}
        ELSE done[n - 1] \cup
             FirstOf({u \in Candidates(i) \ done[n - 1] :
                        i.units[u].deps \subseteq i.completed \cup done[n - 1]}, Capacity(i))
  IN done

Layers(i) ==
  LET done == Scheduled(i)
      depth == CHOOSE n \in 0..LastUnit : done[n] = done[LastUnit]
                                          /\ \A m \in 0..n - 1 : done[m] # done[LastUnit]
  IN [n \in 1..depth |-> done[n] \ done[n - 1]]

Selected(i) == Scheduled(i)[LastUnit]
WritersIn(i) == {u \in Selected(i) : Writes(i.units[u])}

VerifierRequired(i) ==
  i.wanted \/ i.phase = "verify" \/ i.retry # None \/ WritersIn(i) # {}

SingleStaged(i) ==
  /\ i.phase # "verify" /\ i.retry = None
  /\ Cardinality(Selected(i)) = 1 /\ i.wanted

Role(i, role) == {u \in Selected(i) : i.units[u].role = role}

\* What may not be written in parallel.
WritesRefused(i) ==
  /\ WritersIn(i) # {}
  /\ \/ ~i.authorized
     \/ ~i.packets /\ ~SingleStaged(i)
     \/ \E n \in DOMAIN Layers(i) : \E u, v \in Layers(i)[n] :
          u # v /\ Share(i.units[u].owned, i.units[v].owned)
     \/ \E u \in Role(i, "test-writer") :
          \/ ~i.units[u].red
          \/ \E v \in Role(i, "executor") :
               u \in i.units[v].deps /\ Share(i.units[u].owned, i.units[v].owned)

\* Every refusal is a plan without agents.
Refused(i) ==
  \/ ~Acyclic(i) \/ ~i.delegable
  \/ i.retry # None /\ i.attempts >= 1
  \/ i.slots < 2
  \/ i.retry # None /\ Candidates(i) = {}
  \/ Selected(i) # Candidates(i)
  \/ /\ i.phase # "verify" /\ Cardinality(Selected(i)) < 2
     /\ i.retry = None /\ ~SingleStaged(i)
  \/ WritesRefused(i)
  \/ Selected(i) = {} /\ ~VerifierRequired(i)

Solo == [mode |-> "solo", waves |-> <<>>]

\* _select_agent_plan
SelectPlan(i) ==
  IF Refused(i) THEN Solo
  ELSE [mode |-> IF Selected(i) = {} \/ i.retry # None \/ SingleStaged(i) THEN "staged-verify"
                 ELSE IF WritersIn(i) # {}
                 THEN IF Len(Layers(i)) > 1 THEN "staged-verify" ELSE "parallel-packets"
                 ELSE IF VerifierRequired(i) THEN "staged-verify" ELSE "parallel-read-only",
        waves |-> Layers(i) \o (IF VerifierRequired(i) THEN << {Verifier} >> ELSE <<>>)]

Planned(p) == UNION Range(p.waves)
Workers(p) == Planned(p) \ {Verifier}
WaveOf(p, a) == CHOOSE n \in DOMAIN p.waves : a \in p.waves[n]

\* The dependencies of an assignment of the plan.
DependsOn(a) == IF a = Verifier THEN Workers(plan) ELSE input.units[a].deps
-----------------------------------------------------------------------------
(* The results.                                                            *)

\* A result is clean when the assignment's exact check ran, all its commands exited
\* with 0 and it names no blocker.  The other statuses say what was not clean.
StatusFits(a, status, clean) ==
  /\ status \in (IF a = Verifier THEN {"confirmed", "rejected", "inconclusive"}
                 ELSE {"completed", "no-op", "failed", "blocked"})
  /\ status \in {"completed", "no-op", "confirmed"} => clean
  /\ status \in {"failed", "blocked", "inconclusive"} => ~clean

\* Only what is owned is changed; a completed write changes something, a no-op nothing.
ChangeFits(a, status, changed) ==
  /\ changed # {} => a # Verifier /\ Writes(input.units[a])
  /\ a # Verifier => \A p \in changed : \E q \in input.units[a].owned : IsPrefix(q, p)
  /\ status = "completed" /\ Writes(input.units[a]) => changed # {}
  /\ status = "no-op" => Writes(input.units[a]) /\ changed = {}

\* Mutant: the actors of the workers are not compared with the verifier's.
MutDurable ==
  /\ actors[Verifier] = results[Verifier].actor
  /\ \A w \in Workers(plan) :
       /\ results[w] # None
       /\ results[w].actor = actors[w]
       /\ results[Verifier].status = "confirmed" => results[w].status \in {"completed", "no-op"}

\* _durable_context_blockers for a verifier's result: without blockers the context
\* binds every assignment to its actor and carries every worker's result.
Durable ==
  /\ actors[Verifier] = results[Verifier].actor
  /\ \A w \in Workers(plan) :
       /\ actors[w] \notin {None, actors[Verifier]} /\ results[w] # None
       /\ results[w].actor = actors[w]
       /\ results[Verifier].status = "confirmed" => results[w].status \in {"completed", "no-op"}
-----------------------------------------------------------------------------
(* The runner.                                                             *)

\* _execution_semantics, as far as it looks at the plan.
Executable ==
  LET writers == {a \in Workers(plan) : Writes(input.units[a])}
      verifiers == Planned(plan) \cap {Verifier} IN
  /\ \A a \in Planned(plan) :
       DependsOn(a) \subseteq UNION {plan.waves[n] : n \in 1..WaveOf(plan, a) - 1}
  /\ \A a, b \in writers : a # b => ~Share(input.units[a].owned, input.units[b].owned)
  /\ CASE plan.mode = "parallel-read-only" ->
            Cardinality(Planned(plan)) >= 2 /\ writers = {} /\ verifiers = {}
       [] plan.mode = "parallel-packets" ->
            /\ Cardinality(writers) >= 2
            /\ Cardinality({n \in DOMAIN plan.waves : Cardinality(plan.waves[n]) > 1
                                                      /\ plan.waves[n] \cap writers # {}}) = 1
       [] plan.mode = "staged-verify" ->
            /\ verifiers # {}
            /\ Workers(plan) = {} \/ (writers # {} /\ writers = Workers(plan))
       [] OTHER -> Planned(plan) = {}

Spawned == {a \in Assignment : actors[a] # None}
Reported == {a \in Assignment : results[a] # None}

\* Every planned assignment was started and finished by an actor of its own.
Complete ==
  /\ Spawned = Planned(plan) /\ Reported = Spawned
  /\ \A a, b \in Spawned : a # b => actors[a] # actors[b]
  /\ Executable

\* classify_agent_decision
OutcomeNow ==
  IF Complete THEN "completed"
  ELSE IF Reported = Spawned THEN "degraded" ELSE "invalid"
-----------------------------------------------------------------------------
PlanInit ==
  /\ input \in Input
  /\ plan = None
  /\ actors = [a \in Assignment |-> None] /\ results = [a \in Assignment |-> None]
  /\ claim = None /\ outcome = None

Decide ==
  /\ plan = None
  /\ plan' = SelectPlan(input)
  /\ UNCHANGED <<input, actors, results, claim, outcome>>

Running == plan # None /\ outcome = None

\* The host starts an agent for an assignment, in any order; it may take one that
\* already works on another.
Spawn(a, x) ==
  /\ Running /\ input \in Carried /\ a \in Planned(plan) /\ actors[a] = None
  /\ \A y \in 1..x - 1 : \E b \in Assignment : actors[b] = y
  /\ actors' = [actors EXCEPT ![a] = x]
  /\ UNCHANGED <<input, plan, results, claim, outcome>>

\* A result is kept when _validate_worker_result_body accepts it; the host has joined
\* the agent then and seen its usage.  A verifier has to list every worker, and a list
\* that is empty is refused.
Report(a) ==
  /\ Running /\ actors[a] # None /\ results[a] = None
  /\ a = Verifier => Workers(plan) # {}
  /\ \E status \in Status, changed \in SUBSET Path, clean \in BOOLEAN :
       /\ StatusFits(a, status, clean) /\ ChangeFits(a, status, changed)
       /\ \E x \in Actor :
            results' = [results EXCEPT ![a] = [status |-> status, actor |-> x,
                                               changed |-> changed, clean |-> clean]]
  /\ UNCHANGED <<input, plan, actors, claim, outcome>>

\* The verifier's result is validated with an execution context of what the host has
\* observed; one that leaves something out is not eligible.
Claim ==
  /\ Running /\ results[Verifier] # None /\ claim = None
  /\ Durable
  /\ claim' = results[Verifier].status
  /\ UNCHANGED <<input, plan, actors, results, outcome>>

\* The turn has completed.
Classify ==
  /\ Running
  /\ outcome' = OutcomeNow
  /\ UNCHANGED <<input, plan, actors, results, claim>>

PlanNext ==
  \/ Decide \/ Classify
  \/ \E a \in Assignment :
       \/ \E x \in Actor : Spawn(a, x)
       \/ Report(a)
  \/ Claim

PlanSpec == PlanInit /\ [][PlanNext]_planVars
-----------------------------------------------------------------------------
\* Whatever the capacity, the dependencies and the units that are done already: the
\* waves of a plan hold every eligible unit exactly once, never more at a time than
\* the host has room for, none before what it depends on is done, and no unit beside
\* one that could write its files; writes are authorized and verified last.
WavesAreSound ==
  plan # None /\ plan.mode # "solo" /\ Spawned = {} =>
    /\ Workers(plan) = Candidates(input)
    /\ \A m, n \in DOMAIN plan.waves : m # n => plan.waves[m] \cap plan.waves[n] = {}
    /\ \A n \in DOMAIN plan.waves :
         /\ Cardinality(plan.waves[n]) \in 1..input.slots - 1
         /\ \A u \in plan.waves[n] \ {Verifier} :
              input.units[u].deps \subseteq
                input.completed \cup UNION {plan.waves[m] : m \in 1..n - 1}
         /\ \A u, v \in plan.waves[n] \ {Verifier} :
              u # v /\ Writes(input.units[u]) =>
                ~Share(input.units[u].owned, input.units[v].owned)
    /\ (\E u \in Workers(plan) : Writes(input.units[u])) =>
         input.authorized /\ plan.waves[Len(plan.waves)] = {Verifier}

\* Agents of one wave never change one file, by what their accepted results say.
ChangesAreDisjoint ==
  \A a, b \in Unit :
    a # b /\ results[a] # None /\ results[b] # None /\ WaveOf(plan, a) = WaveOf(plan, b) =>
      ~Share(results[a].changed, results[b].changed)

\* "it must not count as completed delegation" (routing.md:85): what counts as
\* completed was reported in full, by agents that are all different; and a confirmed
\* durable claim rests on the clean check of every worker and on a verifier that was
\* none of them, whatever the caller left out of the execution context.
DelegationIsReal ==
  /\ outcome = "completed" =>
       \A a \in Planned(plan) :
         /\ results[a] # None
         /\ \A b \in Planned(plan) : a # b => actors[a] # actors[b]
  /\ claim = "confirmed" =>
       \A w \in Workers(plan) :
         /\ results[w] # None /\ results[w].clean
         /\ results[w].actor # results[Verifier].actor
         /\ results[w].actor = actors[w]

\* A plan and what is made of it: its waves, the changes of its agents and the claims
\* that rest on their results.
PlanIsSound == WavesAreSound /\ ChangesAreDisjoint /\ DelegationIsReal
=============================================================================
