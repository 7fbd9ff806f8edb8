------------------------------ MODULE Protocols ------------------------------
(* What the protocols of skills promise that carry receipts of their own from *)
(* one step to the next, gather the reports of several agents, or select the  *)
(* context an agent is given.                                                 *)
EXTENDS Lifecycle, Research, Syntheses, ContextPipeline

\* LifecycleIsChained and ResearchIsRegistered: what a step is judged by was there before
\* it, and is what an earlier step approved - the observations of a capability before it is
\* active, and the plan of an experiment before there are results.  SynthesesHold: what is
\* made of several reports is no better than they are, in whatever order they come.
\* ContextIsAccounted: the receipt of a selection tells of every offered item what went out,
\* within the budget, whatever the plug-ins did.
ProtocolsHold ==
  LifecycleIsChained /\ ResearchIsRegistered /\ SynthesesHold /\ ContextIsAccounted
=============================================================================
