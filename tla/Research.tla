------------------------------- MODULE Research -------------------------------
(* research_protocol.py: a plan is registered before there are results, and   *)
(* an evaluation is handed the plan, its hash and the results in one packet.  *)
(* The packet is made by whoever did the research, after the results.         *)
EXTENDS Naturals, FiniteSets, Absence

CONSTANTS
  Experiment, Hypothesis, EvidenceId,
  MaxPlans, MaxResults      \* bounds: plans registered, experiments reported

VARIABLES
  registered,  \* history: the registrations preregister returned before results
  obtained,    \* whether there are results
  evaluation   \* the last evaluation

researchVars == <<registered, obtained, evaluation>>
-----------------------------------------------------------------------------
Modes == {"confirmatory", "exploratory"}
Verdicts == {"confirmed", "rejected", "inconclusive"}

\* A plan: its hypotheses, and of each experiment its mode and hypothesis.  The hash of
\* a plan is the plan.
Entries == [mode : Modes, hypothesis : Hypothesis]
Plans == UNION {[hypotheses : SUBSET Hypothesis, experiments : [planned -> Entries]] :
                  planned \in SUBSET Experiment}

\* preregister.
Registrable(plan) ==
  /\ plan.hypotheses # {} /\ DOMAIN plan.experiments # {}
  /\ \A e \in DOMAIN plan.experiments : plan.experiments[e].hypothesis \in plan.hypotheses

Preregister ==
  /\ ~obtained /\ Cardinality(registered) < MaxPlans
  /\ \E plan \in Plans :
       Registrable(plan) /\ registered' = registered \cup {plan}
  /\ UNCHANGED <<obtained, evaluation>>

ObtainResults ==
  /\ ~obtained /\ obtained' = TRUE
  /\ UNCHANGED <<registered, evaluation>>
-----------------------------------------------------------------------------
PlannedAs(plan, mode) == {e \in DOMAIN plan.experiments : plan.experiments[e].mode = mode}

\* A result: its mode, whether it is closed, and the evidence it refers to.
Results == [mode : Modes, closed : BOOLEAN, evidence : (SUBSET EvidenceId) \ {{}}]

\* A packet: a plan with a hash, the evidence, the reported experiments, and the
\* evidence and verdict of the verifier.
Packets ==
  UNION {[plan : Plans, hash : Plans, evidence : (SUBSET EvidenceId) \ {{}},
          reported : [ids -> Results], verdict : Verdicts] :
           ids \in {x \in SUBSET Experiment : Cardinality(x) <= MaxResults}}

\* Mutant: the hash in the packet is taken as it is.
MutFrozen(packet) == TRUE

\* The hash is computed from the plan that is handed over.
Frozen(packet) == packet.hash = packet.plan

\* A confirmatory result must be planned as one, and refer to evidence there is.
ResultsHold(packet) ==
  \A e \in DOMAIN packet.reported :
    /\ packet.reported[e].mode = "confirmatory" => e \in PlannedAs(packet.plan, "confirmatory")
    /\ packet.reported[e].evidence \subseteq packet.evidence

Missing(packet) == PlannedAs(packet.plan, "confirmatory") \ DOMAIN packet.reported
Open(packet) == {e \in DOMAIN packet.reported : ~packet.reported[e].closed}

ResearchComplete(packet) ==
  Missing(packet) = {} /\ Open(packet) = {} /\ packet.verdict # "inconclusive"

\* evaluate.  The plan itself is not validated again.
Evaluate ==
  /\ obtained /\ evaluation = None
  /\ \E packet \in Packets :
       /\ Frozen(packet) /\ ResultsHold(packet)
       /\ evaluation' = [hash |-> packet.hash, reported |-> packet.reported,
                         evidence |-> packet.evidence, verdict |-> packet.verdict,
                         complete |-> ResearchComplete(packet)]
  /\ UNCHANGED <<registered, obtained>>

ResearchInit == registered = {} /\ obtained = FALSE /\ evaluation = None

ResearchNext == Preregister \/ ObtainResults \/ Evaluate

ResearchSpec == ResearchInit /\ [][ResearchNext]_researchVars
-----------------------------------------------------------------------------
\* "It cannot retroactively become confirmatory": under a hash that was registered
\* before the results, what is reported as confirmatory was registered as that, and
\* research is complete only when everything registered as confirmatory was reported
\* and is closed, on evidence that was handed in.
ResearchIsRegistered ==
  evaluation # None /\ evaluation.hash \in registered =>
    LET plan == evaluation.hash IN
    /\ \A e \in DOMAIN evaluation.reported :
         /\ evaluation.reported[e].mode = "confirmatory" =>
              /\ e \in DOMAIN plan.experiments
              /\ plan.experiments[e].mode = "confirmatory"
              /\ plan.experiments[e].hypothesis \in plan.hypotheses
         /\ evaluation.reported[e].evidence \subseteq evaluation.evidence
    /\ evaluation.complete =>
         \A e \in DOMAIN plan.experiments : plan.experiments[e].mode = "confirmatory" =>
           e \in DOMAIN evaluation.reported /\ evaluation.reported[e].closed
=============================================================================
