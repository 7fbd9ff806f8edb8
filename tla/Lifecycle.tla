------------------------------ MODULE Lifecycle ------------------------------
(* capability_lifecycle.py: a capability goes from observed to retired one    *)
(* state at a time, and each transition hands over a receipt by which the     *)
(* next one is judged.  Receipts are files: somebody may edit them, keep old  *)
(* ones, or hand over those of another capability.                            *)
EXTENDS Naturals, Sequences, FiniteSets, Absence

CONSTANTS
  Capability,
  Implementation,   \* fingerprints, the rollback targets among them
  EventList,        \* lists of event ids
  MaxTransitions, MaxRewrites    \* bounds

VARIABLES
  transitions,  \* the receipt files there are
  issued,       \* history: the cores of the transitions this code approved
  seeds,        \* history: the cores of receipts from before they were chained
  rewrites

lifecycleVars == <<transitions, issued, seeds, rewrites>>
-----------------------------------------------------------------------------
States == <<"observed", "candidate", "trial", "active", "retired">>

Index(state) == CHOOSE k \in DOMAIN States : States[k] = state
NextState(state) == IF Index(state) < Len(States) THEN States[Index(state) + 1] ELSE None

(* A core is what is fingerprinted, so a fingerprint is the core itself.  A *)
(* receipt of the version that did not chain them has no link at all, which *)
(* is not a link that is null.                                             *)

Receipt(core) ==
  [core |-> core, fingerprint |-> core, approved |-> TRUE, next |-> NextState(core.to)]

\* Mutant: the fingerprint in the receipt is taken as it is.
MutIntact(receipt) == TRUE

\* _previous_receipt_fingerprint: what the core of the receipt hashes to; a link that
\* is not there is left out of the hash.
Intact(receipt) == receipt.fingerprint = receipt.core

\* An old receipt may only seed the chain, and an initial one links nothing.
LinkHolds(core) ==
  IF core.chained THEN (core.from = None) <=> (core.link = None)
  ELSE core.from = None /\ core.to = "observed"

Establishes(receipt, capability, current, requested) ==
  /\ receipt.core.capability = capability
  /\ receipt.core.to = current
  /\ receipt.approved
  /\ receipt.next = requested
  /\ LinkHolds(receipt.core)
  /\ Intact(receipt)
-----------------------------------------------------------------------------
AtLeast(state, least) == Index(state) >= Index(least)

\* _events: an event counts once.
DistinctEvents(events) == Cardinality({events[k] : k \in DOMAIN events})

\* _checks: every check is of this implementation.
ChecksBind(checks, implementation) ==
  checks # {} /\ \A check \in checks : check.implementation = implementation

\* _rollback.
RollbackHolds(rollback, implementation, executed) ==
  /\ rollback # None
  /\ rollback.target # implementation
  /\ executed => rollback.executed

\* What a transition asks for besides the previous receipt.
Supported(requested, p) ==
  /\ p.events # <<>>
  /\ AtLeast(requested, "candidate") => DistinctEvents(p.events) >= 2
  /\ AtLeast(requested, "trial") =>
       /\ p.implementation # None
       /\ ChecksBind(p.checks, p.implementation)
       /\ \A check \in p.checks : check.passed
  /\ AtLeast(requested, "active") =>
       p.approval /\ RollbackHolds(p.rollback, p.implementation, requested = "retired")

Checks == {{}} \cup {{[implementation |-> i, passed |-> b]} : i \in Implementation, b \in BOOLEAN}
Rollbacks == {None} \cup [target : Implementation, executed : BOOLEAN]

\* What may be handed over; a state that does not ask for a part does not look at it.
Payloads(requested) ==
  [events : EventList,
   implementation : IF AtLeast(requested, "trial") THEN Implementation \cup {None} ELSE {None},
   checks : IF AtLeast(requested, "trial") THEN Checks ELSE {{}},
   approval : IF AtLeast(requested, "active") THEN BOOLEAN ELSE {FALSE},
   rollback : IF AtLeast(requested, "active") THEN Rollbacks ELSE {None}]

\* The core, which is what is fingerprinted.
Core(capability, current, requested, p, link) ==
  [capability |-> capability, from |-> current, to |-> requested,
   events |-> DistinctEvents(p.events),
   implementation |-> p.implementation, checks |-> p.checks,
   approval |-> p.approval, rollback |-> p.rollback,
   chained |-> TRUE, link |-> link]

Emit(core) ==
  /\ Cardinality(issued) < MaxTransitions
  /\ transitions' = transitions \cup {Receipt(core)}
  /\ issued' = issued \cup {core}
  /\ UNCHANGED <<seeds, rewrites>>

\* The first transition takes no previous receipt.
Observe(capability) ==
  \E p \in Payloads("observed") :
    /\ Supported("observed", p)
    /\ Emit(Core(capability, None, "observed", p, None))

Advance(capability) ==
  \E receipt \in transitions, k \in 1..Len(States) - 1 :
    LET current == States[k]
        requested == States[k + 1] IN
    /\ Establishes(receipt, capability, current, requested)
    /\ \E p \in Payloads(requested) :
         /\ Supported(requested, p)
         /\ Emit(Core(capability, current, requested, p, receipt.fingerprint))
-----------------------------------------------------------------------------
\* A receipt of the version that did not chain them.
KeepOldReceipt(capability) ==
  /\ rewrites < MaxRewrites /\ rewrites' = rewrites + 1
  /\ \E state \in {"observed", "candidate"} :
       LET core == [Core(capability, IF state = "observed" THEN None ELSE "observed", state,
                         [events |-> <<>>, implementation |-> None, checks |-> {},
                          approval |-> FALSE, rollback |-> None], None)
                    EXCEPT !.events = 2, !.chained = FALSE] IN
       /\ transitions' = transitions \cup {Receipt(core)}
       /\ seeds' = IF state = "observed" THEN seeds \cup {core} ELSE seeds
  /\ UNCHANGED issued

\* Somebody edits a receipt and leaves its fingerprint as it is: the fingerprint has
\* no key, and one that is computed again is not noticed.
EditReceipt ==
  /\ rewrites < MaxRewrites /\ rewrites' = rewrites + 1
  /\ \E receipt \in transitions, edited \in
       {"capability", "to", "from", "link", "implementation", "marks"} :
       LET core == receipt.core
           Marked(r) == [r EXCEPT !.approved = TRUE, !.next = NextState(r.core.to)] IN
       transitions' = transitions \cup
         CASE edited = "capability" ->
                {[receipt EXCEPT !.core.capability = c] : c \in Capability}
           [] edited = "to" ->
                {Marked([receipt EXCEPT !.core.to = States[k]]) : k \in DOMAIN States}
           [] edited = "from" -> {[receipt EXCEPT !.core.from = None]}
           [] edited = "link" -> {[receipt EXCEPT !.core.link = None, !.core.chained = FALSE]}
           [] edited = "implementation" ->
                {[receipt EXCEPT !.core.implementation = i] : i \in Implementation}
           [] edited = "marks" ->
                {[receipt EXCEPT !.approved = FALSE]}
                \cup {[receipt EXCEPT !.next = States[k]] : k \in DOMAIN States}
  /\ UNCHANGED <<issued, seeds>>

LifecycleInit == transitions = {} /\ issued = {} /\ seeds = {} /\ rewrites = 0

LifecycleNext ==
  \/ \E c \in Capability : Observe(c) \/ Advance(c) \/ KeepOldReceipt(c)
  \/ EditReceipt

LifecycleSpec == LifecycleInit /\ [][LifecycleNext]_lifecycleVars
-----------------------------------------------------------------------------
\* "an asserted current_state cannot bypass the lifecycle": every approved transition
\* follows on one of the same capability into the state it starts from, which was
\* approved itself or seeds the chain - so what is active was observed twice, was a
\* candidate and was tried, with checks of its implementation.
LifecycleIsChained ==
  \A core \in issued :
    /\ core.from # None =>
         /\ core.link \in issued \cup seeds
         /\ core.link.capability = core.capability
         /\ core.link.to = core.from
    /\ core.to = "active" =>
         LET trial == core.link
             candidate == trial.link IN
         /\ candidate.to = "candidate" /\ candidate.events >= 2
         /\ trial.implementation # None
         /\ \A check \in trial.checks \cup core.checks : check.passed
         /\ core.rollback.target # core.implementation
=============================================================================
