------------------------------ MODULE Packets -------------------------------
(* Work packets of one durable session: a dependency graph of units of     *)
(* work, each owning paths of its own, whose checks run in processes       *)
(* outside the session lock and are bound to the content of those paths.   *)
(*                                                                         *)
(* What happens under session_lock is one step.  The receipts and paths a  *)
(* command validates are read in that step: none of these commands stores  *)
(* what it read, so an edit between reading and saving is an edit after    *)
(* the save.  A digest is the content it digests; every reader of a        *)
(* receipt compares its digest, so a changed receipt is a missing one.     *)
(* The criteria of the session (see Criteria) only decide when `complete`  *)
(* may succeed, which is left open here.                                   *)
EXTENDS Naturals, FiniteSets

CONSTANTS
  Packet,       \* packet identifiers of the plan
  Check,        \* check identifiers, the same for every packet
  Agent,        \* owners
  Content,      \* contents the owned paths of one packet can have
  Runner,       \* processes that run checks at the same time
  MaxAttempts,  \* bound: attempts of one check
  None

ASSUME ConstantsAssumption == MaxAttempts \in Nat /\ None \notin Content

\* A plan is a JSON list.
ASSUME PacketsAreFinite == IsFiniteSet(Packet)

VARIABLES
  plan,         \* None, or the dependencies of every packet
  packet,       \* state["work_packets"]
  completed,    \* state["status"] is complete
  evidence,     \* the receipts below evidence/packets/, None when unreadable
  content,      \* the owned paths of each packet now; owners are disjoint
  run           \* the check each process is running, None when idle

vars == <<plan, packet, completed, evidence, content, run>>
-----------------------------------------------------------------------------
ReceiptId == [packet : Packet, check : Check, attempt : 1..MaxAttempts]
Receipt == [passed : BOOLEAN, owned : Content]

CheckState == [status : {"pending", "in_progress", "passed", "failed"},
               attempts : 0..MaxAttempts,
               receipt : ReceiptId \cup {None}, digest : Receipt \cup {None}]

PacketState == [status : {"planned", "active", "completed"},
                owner : Agent \cup {None}, checks : [Check -> CheckState]]

Running == [pc : {"started", "executed", "written"}, id : ReceiptId,
            passed : BOOLEAN, digest : Receipt \cup {None}]

Unchecked == [status |-> "pending", attempts |-> 0, receipt |-> None,
              digest |-> None]
Planned == [status |-> "planned", owner |-> None,
            checks |-> [k \in Check |-> Unchecked]]

\* _validate_packet_plan: known dependencies, no packet on itself, no cycle.
ValidPlan(dependencies) ==
  \A S \in SUBSET Packet :
    S # {} => \E p \in S : dependencies[p] \cap S = {}

Init ==
  /\ plan = None
  /\ packet = [p \in Packet |-> Planned]
  /\ completed = FALSE
  /\ evidence = [i \in ReceiptId |-> None]
  /\ content \in [Packet -> Content]
  /\ run = [r \in Runner |-> None]
-----------------------------------------------------------------------------
\* Mutant: the content of the owned paths is not compared.
MutValidates(p, k) ==
  LET check == packet[p].checks[k]
  IN  /\ check.receipt # None
      /\ evidence[check.receipt] = check.digest
      /\ check.digest.passed

\* _validate_packet_check: the receipt is the one recorded, it passed, and the
\* packet's owned paths have the content it names.
Validates(p, k) ==
  LET check == packet[p].checks[k]
  IN  /\ check.receipt # None
      /\ evidence[check.receipt] = check.digest
      /\ check.digest.passed
      /\ check.digest.owned = content[p]

\* The packets that depend on p, directly or not: what every set contains that
\* is closed under "depends on p or on a member".
Descendants(p) ==
  {q \in Packet : \A S \in SUBSET Packet :
     (\A x \in Packet : plan[x] \cap (S \cup {p}) # {} => x \in S) => q \in S}

\* Mutant: only direct dependents are found.
MutFrontier(p) == {q \in Packet : p \in plan[q]}

\* The loop of reopen_packet that looks for them, wave by wave.
Frontier(p) ==
  LET wave[n \in 0..Cardinality(Packet)] ==
        IF n = 0 THEN [found |-> {}, frontier |-> {p}]
        ELSE LET last == wave[n - 1]
                 discovered == {q \in Packet \ last.found :
                                  plan[q] \cap last.frontier # {}}
             IN  [found |-> last.found \cup discovered,
                  frontier |-> discovered]
  IN  wave[Cardinality(Packet)].found

\* The process of the check's latest attempt is alive: its pid exists and was
\* created when the recorded identity says.
Alive(p, k) ==
  \E r \in Runner :
    /\ run[r] # None
    /\ run[r].id = [packet |-> p, check |-> k,
                    attempt |-> packet[p].checks[k].attempts]
-----------------------------------------------------------------------------
\* plan-packets
PlanPackets(dependencies) ==
  /\ ~ completed
  /\ plan = None
  /\ ValidPlan(dependencies)
  /\ plan' = dependencies
  /\ packet' = [p \in Packet |-> Planned]
  /\ UNCHANGED <<completed, evidence, content, run>>

\* start-packet; owners of two packets are disjoint by the plan, so the overlap
\* with another active packet never refuses here.
StartPacket(p, a) ==
  /\ plan # None /\ ~ completed
  /\ packet[p].status = "planned"
  /\ \A d \in plan[p] : /\ packet[d].status = "completed"
                        /\ \A k \in Check : Validates(d, k)
  /\ packet' = [packet EXCEPT ![p].status = "active", ![p].owner = a]
  /\ UNCHANGED <<plan, completed, evidence, content, run>>

\* Mutant: a check in progress is taken over whether or not its process lives.
MutStartCheck(r, p, k, a) ==
  /\ run[r] = None
  /\ plan # None
  /\ packet[p].status = "active" /\ packet[p].owner = a
  /\ packet[p].checks[k].status \in {"pending", "failed", "in_progress"}
  /\ packet[p].checks[k].attempts < MaxAttempts
  /\ LET n == packet[p].checks[k].attempts + 1
     IN  /\ packet' = [packet EXCEPT ![p].checks[k] =
              [status |-> "in_progress", attempts |-> n, receipt |-> None,
               digest |-> None]]
         /\ run' = [run EXCEPT ![r] =
              [pc |-> "started", passed |-> FALSE, digest |-> None,
               id |-> [packet |-> p, check |-> k, attempt |-> n]]]
  /\ UNCHANGED <<plan, completed, evidence, content>>

\* Mutant: a check in progress is never taken over.
MutStartCheckOnce(r, p, k, a) ==
  /\ run[r] = None
  /\ plan # None
  /\ packet[p].status = "active" /\ packet[p].owner = a
  /\ packet[p].checks[k].status \in {"pending", "failed"}
  /\ packet[p].checks[k].attempts < MaxAttempts
  /\ LET n == packet[p].checks[k].attempts + 1
     IN  /\ packet' = [packet EXCEPT ![p].checks[k] =
              [status |-> "in_progress", attempts |-> n, receipt |-> None,
               digest |-> None]]
         /\ run' = [run EXCEPT ![r] =
              [pc |-> "started", passed |-> FALSE, digest |-> None,
               id |-> [packet |-> p, check |-> k, attempt |-> n]]]
  /\ UNCHANGED <<plan, completed, evidence, content>>

\* run-packet-check, first half: a check in progress is taken over only from a
\* dead process; attempts count up.
StartCheck(r, p, k, a) ==
  /\ run[r] = None
  /\ plan # None
  /\ packet[p].status = "active" /\ packet[p].owner = a
  /\ \/ packet[p].checks[k].status \in {"pending", "failed"}
     \/ packet[p].checks[k].status = "in_progress" /\ ~ Alive(p, k)
  /\ packet[p].checks[k].attempts < MaxAttempts
  /\ LET n == packet[p].checks[k].attempts + 1
     IN  /\ packet' = [packet EXCEPT ![p].checks[k] =
              [status |-> "in_progress", attempts |-> n, receipt |-> None,
               digest |-> None]]
         /\ run' = [run EXCEPT ![r] =
              [pc |-> "started", passed |-> FALSE, digest |-> None,
               id |-> [packet |-> p, check |-> k, attempt |-> n]]]
  /\ UNCHANGED <<plan, completed, evidence, content>>

\* The declared argv runs; a command that cannot start has not passed.
Execute(r, passed) ==
  /\ run[r] # None
  /\ run[r].pc = "started"
  /\ run' = [run EXCEPT ![r].pc = "executed", ![r].passed = passed]
  /\ UNCHANGED <<plan, packet, completed, evidence, content>>

\* The owned paths are fingerprinted after it, with them the receipt written,
\* and the receipt digested.
WriteReceipt(r) ==
  /\ run[r] # None
  /\ run[r].pc = "executed"
  /\ LET receipt == [passed |-> run[r].passed,
                     owned |-> content[run[r].id.packet]]
     IN  /\ evidence' = [evidence EXCEPT ![run[r].id] = receipt]
         /\ run' = [run EXCEPT ![r].pc = "written", ![r].digest = receipt]
  /\ UNCHANGED <<plan, packet, completed, content>>

\* Second half, when the check is still in this process's attempt ...
FinishCheck(r) ==
  LET i == run[r].id
      check == packet[i.packet].checks[i.check]
  IN  /\ run[r] # None
      /\ run[r].pc = "written"
      /\ check.status = "in_progress"
      /\ check.attempts = i.attempt
      /\ packet' = [packet EXCEPT ![i.packet].checks[i.check] =
           [status |-> IF run[r].passed THEN "passed" ELSE "failed",
            attempts |-> i.attempt, receipt |-> i, digest |-> run[r].digest]]
      /\ run' = [run EXCEPT ![r] = None]
      /\ UNCHANGED <<plan, completed, evidence, content>>

\* ... or the process dies, fails, or cannot read its own identity again.  The
\* last attempt the bound allows is not lost.
RunLost(r) ==
  /\ run[r] # None
  /\ run[r].id.attempt < MaxAttempts
  /\ run' = [run EXCEPT ![r] = None]
  /\ UNCHANGED <<plan, packet, completed, evidence, content>>

\* complete-packet
CompletePacket(p, a) ==
  /\ plan # None
  /\ packet[p].status = "active" /\ packet[p].owner = a
  /\ \A k \in Check : packet[p].checks[k].status = "passed" /\ Validates(p, k)
  /\ packet' = [packet EXCEPT ![p].status = "completed"]
  /\ UNCHANGED <<plan, completed, evidence, content, run>>

\* A packet whose checks have to run again.
Unproven(state) ==
  [k \in Check |-> [state.checks[k] EXCEPT !.status = "pending",
                                           !.receipt = None, !.digest = None]]

\* Mutant: only direct dependents are taken back.
MutReopenPacket(p, a) ==
  LET found == {q \in Packet : p \in plan[q]}
  IN  /\ plan # None
      /\ packet[p].status = "completed" /\ packet[p].owner = a
      /\ \A q \in found : packet[q].status # "active"
      /\ \E k \in Check : ~ Validates(p, k)
      /\ packet' = [q \in Packet |->
           IF q = p THEN [packet[p] EXCEPT !.status = "active",
                                           !.checks = Unproven(packet[p])]
           ELSE IF q \in found /\ packet[q].status = "completed"
           THEN [status |-> "planned", owner |-> None,
                 checks |-> Unproven(packet[q])]
           ELSE packet[q]]
      /\ completed' = FALSE
      /\ UNCHANGED <<plan, evidence, content, run>>

\* Mutant: the session stays complete.
MutReopenPacketKeepsSession(p, a) ==
  LET found == Descendants(p)
  IN  /\ plan # None
      /\ packet[p].status = "completed" /\ packet[p].owner = a
      /\ \A q \in found : packet[q].status # "active"
      /\ \E k \in Check : ~ Validates(p, k)
      /\ packet' = [q \in Packet |->
           IF q = p THEN [packet[p] EXCEPT !.status = "active",
                                           !.checks = Unproven(packet[p])]
           ELSE IF q \in found /\ packet[q].status = "completed"
           THEN [status |-> "planned", owner |-> None,
                 checks |-> Unproven(packet[q])]
           ELSE packet[q]]
      /\ UNCHANGED <<plan, completed, evidence, content, run>>

\* reopen-packet
ReopenPacket(p, a) ==
  LET found == Descendants(p)
  IN  /\ plan # None
      /\ packet[p].status = "completed" /\ packet[p].owner = a
      /\ \A q \in found : packet[q].status # "active"
      /\ \E k \in Check : ~ Validates(p, k)
      /\ packet' = [q \in Packet |->
           IF q = p THEN [packet[p] EXCEPT !.status = "active",
                                           !.checks = Unproven(packet[p])]
           ELSE IF q \in found /\ packet[q].status = "completed"
           THEN [status |-> "planned", owner |-> None,
                 checks |-> Unproven(packet[q])]
           ELSE packet[q]]
      /\ completed' = FALSE
      /\ UNCHANGED <<plan, evidence, content, run>>

\* complete, when the criteria allow it.
Complete ==
  /\ ~ completed
  /\ plan # None => \A p \in Packet : /\ packet[p].status = "completed"
                                      /\ \A k \in Check : Validates(p, k)
  /\ completed' = TRUE
  /\ UNCHANGED <<plan, packet, evidence, content, run>>

\* reopen of a criterion: the packets keep their status.
ReopenCriterion ==
  /\ completed
  /\ completed' = FALSE
  /\ UNCHANGED <<plan, packet, evidence, content, run>>
-----------------------------------------------------------------------------
\* Somebody edits what a packet owns, at any time.
EditOwned(p, v) ==
  /\ v # content[p]
  /\ content' = [content EXCEPT ![p] = v]
  /\ UNCHANGED <<plan, packet, completed, evidence, run>>

\* A receipt is lost or changed.
EvidenceLost(i) ==
  /\ evidence[i] # None
  /\ evidence' = [evidence EXCEPT ![i] = None]
  /\ UNCHANGED <<plan, packet, completed, content, run>>

Process(r) ==
  \/ \E passed \in BOOLEAN : Execute(r, passed)
  \/ WriteReceipt(r)
  \/ FinishCheck(r)

Next ==
  \/ \E dependencies \in [Packet -> SUBSET Packet] : PlanPackets(dependencies)
  \/ \E p \in Packet, a \in Agent : \/ StartPacket(p, a)
                                    \/ CompletePacket(p, a)
                                    \/ ReopenPacket(p, a)
  \/ \E r \in Runner, p \in Packet, k \in Check, a \in Agent :
        StartCheck(r, p, k, a)
  \/ \E r \in Runner : Process(r) \/ RunLost(r)
  \/ Complete
  \/ ReopenCriterion
  \/ \E p \in Packet, v \in Content : EditOwned(p, v)
  \/ \E i \in ReceiptId : EvidenceLost(i)

Spec == Init /\ [][Next]_vars

\* A process that is not killed ends, since a command it runs is assumed to
\* return, and an owner asks for an unfinished check again (`SKILL.md` lets
\* nothing but the checks complete a packet).
FairSpec ==
  /\ Spec
  /\ \A r \in Runner : WF_vars(Process(r))
  /\ \A p \in Packet, k \in Check :
       WF_vars(\E r \in Runner, a \in Agent : StartCheck(r, p, k, a))
-----------------------------------------------------------------------------
TypeOK ==
  /\ plan \in [Packet -> SUBSET Packet] \cup {None}
  /\ packet \in [Packet -> PacketState]
  /\ completed \in BOOLEAN
  /\ evidence \in [ReceiptId -> Receipt \cup {None}]
  /\ content \in [Packet -> Content]
  /\ run \in [Runner -> Running \cup {None}]

\* Work in a packet never outlives what it builds on: a packet that is active or
\* completed has only completed dependencies, through any sequence of edits,
\* lost receipts and reopened ancestors.  (start-packet's look at direct
\* dependencies, with reopen-packet's transitive one.)
BuiltOnCompleted ==
  plan # None =>
    \A p \in Packet : packet[p].status \in {"active", "completed"} =>
      \A d \in plan[p] : packet[d].status = "completed"

\* A completed packet was proven as a whole: every check passed on one and the
\* same content of the owned paths, and the receipt recorded for it is the one
\* of its latest attempt.
CompletedIsProven ==
  \A p \in Packet : packet[p].status = "completed" =>
    \E v \in Content : \A k \in Check :
      LET check == packet[p].checks[k]
      IN  /\ check.status = "passed"
          /\ check.digest = [passed |-> TRUE, owned |-> v]
          /\ check.receipt = [packet |-> p, check |-> k,
                              attempt |-> check.attempts]

\* A complete session has no unfinished packet: whatever reopens one reactivates
\* the session in the same save.
CompleteSessionIsDone ==
  completed /\ plan # None =>
    \A p \in Packet : packet[p].status = "completed"

\* No two live processes run one check, so a takeover never races with the
\* process it takes over from; and a live process never finds its check taken
\* by another one when it finishes.
OneProcessPerCheck ==
  \A r \in Runner : run[r] # None =>
    LET i == run[r].id
    IN  /\ packet[i.packet].checks[i.check].status = "in_progress"
        /\ packet[i.packet].checks[i.check].attempts = i.attempt
        /\ packet[i.packet].status = "active"
        /\ \A q \in Runner \ {r} : run[q] # None =>
             run[q].id # i

\* The waves of reopen_packet find exactly the transitive dependents, for every
\* plan that plan-packets accepts.
FrontierFindsDescendants ==
  plan # None => \A p \in Packet : Frontier(p) = Descendants(p)

\* A check whose process died is not stuck: asked for again, it ends.
CheckEnds ==
  \A p \in Packet, k \in Check :
    packet[p].checks[k].status = "in_progress"
      ~> packet[p].checks[k].status \in {"passed", "failed"}

\* "planned -> active -> completed ... failed -> retry" (references/
\* work-packets.md:38-42): retrying the failed check of an active packet leads
\* on to its completion, so the passed checks of an active packet agree on a
\* content to complete with.  In the code a retry that needed an edit leaves the
\* earlier passes bound to the old content, and no command runs them again.
RetryLeadsToCompletion ==
  \A p \in Packet : packet[p].status = "active" =>
    \E v \in Content : \A k \in Check :
      packet[p].checks[k].status = "passed" =>
        packet[p].checks[k].digest.owned = v
=============================================================================
