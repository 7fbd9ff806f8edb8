---------------------------- MODULE PacketsProofs ----------------------------
(* Theorems about Packets, for any plan, any number of packets, checks,    *)
(* owners, processes and attempts.                                         *)
EXTENDS Packets, TLAPS, FiniteSetTheorems

\* What is written to disk was made by a command that has run.
WrittenIsDigested ==
  \A r \in Runner :
    run[r] # None /\ run[r].pc = "written" => run[r].digest \in Receipt

Typed == TypeOK /\ WrittenIsDigested

\* The plan in use is one that plan-packets accepted.
PlanIsValid == plan # None => ValidPlan(plan)

IInv == Typed /\ PlanIsValid /\ BuiltOnCompleted /\ CompleteSessionIsDone
-----------------------------------------------------------------------------
LEMMA PlannedTyped == Planned \in PacketState
<1>1. Unchecked \in CheckState
  BY ConstantsAssumption DEF ConstantsAssumption, Unchecked, CheckState
<1> QED BY <1>1 DEF Planned, PacketState

LEMMA UnprovenTyped ==
  ASSUME NEW state \in PacketState
  PROVE  Unproven(state) \in [Check -> CheckState]
<1>1. ASSUME NEW k \in Check
      PROVE  [state.checks[k] EXCEPT !.status = "pending", !.receipt = None,
                                     !.digest = None] \in CheckState
  BY DEF PacketState, CheckState
<1> QED BY <1>1 DEF Unproven

\* A dependent of p, or of a descendant of p, is a descendant of p.
LEMMA DescendantsClosed ==
  ASSUME NEW p \in Packet, NEW q \in Packet,
         plan[q] \cap (Descendants(p) \cup {p}) # {}
  PROVE  q \in Descendants(p)
<1> SUFFICES ASSUME NEW S \in SUBSET Packet,
                    \A x \in Packet : plan[x] \cap (S \cup {p}) # {} => x \in S
             PROVE  q \in S
  BY DEF Descendants
<1>1. Descendants(p) \subseteq S
  BY DEF Descendants
<1>2. plan[q] \cap (S \cup {p}) # {}
  BY <1>1
<1> QED BY <1>2

\* A descendant of p depends on p or on another descendant: without such a
\* dependency the descendants would be closed without it.
LEMMA DescendantsDepend ==
  ASSUME NEW p \in Packet, NEW q \in Descendants(p)
  PROVE  plan[q] \cap (Descendants(p) \cup {p}) # {}
<1> SUFFICES ASSUME plan[q] \cap (Descendants(p) \cup {p}) = {} PROVE FALSE
  OBVIOUS
<1> DEFINE S == Descendants(p) \ {q}
<1>1. S \in SUBSET Packet
  BY DEF Descendants
<1>2. ASSUME NEW x \in Packet, plan[x] \cap (S \cup {p}) # {}
      PROVE  x \in S
  <2>1. plan[x] \cap (Descendants(p) \cup {p}) # {}
    BY <1>2
  <2>2. x \in Descendants(p)
    BY <2>1, DescendantsClosed
  <2>3. x # q
    BY <2>1
  <2> QED BY <2>2, <2>3
<1> HIDE DEF S
<1>3. q \in S
  BY <1>1, <1>2 DEF Descendants
<1> QED BY <1>3 DEF S

\* In a plan without cycles nothing depends on its own descendants.
LEMMA NoDependencyOnDescendant ==
  ASSUME ValidPlan(plan), NEW p \in Packet, NEW d \in plan[p], d \in Packet
  PROVE  d # p /\ d \notin Descendants(p)
<1> SUFFICES ASSUME d \in Descendants(p) \cup {p} PROVE FALSE
  OBVIOUS
<1> DEFINE T == Descendants(p) \cup {p}
<1>1. T \in SUBSET Packet /\ T # {}
  BY DEF Descendants
<1>2. PICK x \in T : plan[x] \cap T = {}
  BY <1>1 DEF ValidPlan
<1>3. plan[p] \cap T # {}
  OBVIOUS
<1>4. \A y \in Descendants(p) : plan[y] \cap T # {}
  BY DescendantsDepend
<1> QED BY <1>2, <1>3, <1>4

LEMMA InitTyped == Init => Typed
BY PlannedTyped DEF Init, Typed, TypeOK, WrittenIsDigested

\* A check that changes inside a packet leaves the packet's status and owner.
CheckChanges(p) ==
  /\ packet' \in [Packet -> PacketState]
  /\ \A q \in Packet : /\ packet'[q].status = packet[q].status
                       /\ packet'[q].owner = packet[q].owner

LEMMA StartCheckTyped ==
  ASSUME Typed, NEW r \in Runner, NEW p \in Packet, NEW k \in Check,
         NEW a \in Agent, StartCheck(r, p, k, a)
  PROVE  Typed' /\ CheckChanges(p)
<1> DEFINE n == packet[p].checks[k].attempts + 1
           check == [status |-> "in_progress", attempts |-> n,
                     receipt |-> None, digest |-> None]
           job == [pc |-> "started", passed |-> FALSE, digest |-> None,
                   id |-> [packet |-> p, check |-> k, attempt |-> n]]
           s == [packet[p] EXCEPT !.checks = [@ EXCEPT ![k] = check]]
<1>1. packet[p] \in PacketState /\ packet[p].checks[k] \in CheckState
  BY DEF Typed, TypeOK, PacketState
<1>2. n \in 1..MaxAttempts
  BY <1>1, ConstantsAssumption DEF ConstantsAssumption, StartCheck, CheckState
<1>3. check \in CheckState
  BY <1>2 DEF CheckState
<1>4. s \in PacketState /\ s.status = packet[p].status
                        /\ s.owner = packet[p].owner
  BY <1>1, <1>3 DEF PacketState
<1>5. packet' = [packet EXCEPT ![p] = s]
  BY <1>1 DEF StartCheck, Typed, TypeOK, PacketState
<1>6. job \in Running
  BY <1>2 DEF Running, ReceiptId
<1>7. run' = [run EXCEPT ![r] = job]
  BY DEF StartCheck
<1> HIDE DEF s
<1>8. CheckChanges(p)
  BY <1>4, <1>5 DEF CheckChanges, Typed, TypeOK
<1>9. run' \in [Runner -> Running \cup {None}]
  BY <1>6, <1>7 DEF Typed, TypeOK
<1>10. TypeOK'
  BY <1>8, <1>9 DEF StartCheck, Typed, TypeOK, CheckChanges
<1>11. WrittenIsDigested'
  BY <1>7 DEF Typed, TypeOK, WrittenIsDigested
<1> QED BY <1>8, <1>10, <1>11 DEF Typed

LEMMA ExecuteTyped ==
  ASSUME Typed, NEW r \in Runner, NEW passed \in BOOLEAN, Execute(r, passed)
  PROVE  Typed'
<1> DEFINE job == [run[r] EXCEPT !.pc = "executed", !.passed = passed]
<1>1. run[r] \in Running
  BY DEF Execute, Typed, TypeOK
<1>2. job \in Running /\ job.pc = "executed"
  BY <1>1 DEF Running
<1>3. run' = [run EXCEPT ![r] = job]
  BY <1>1 DEF Execute, Typed, TypeOK, Running
<1> HIDE DEF job
<1>4. run' \in [Runner -> Running \cup {None}]
  BY <1>2, <1>3 DEF Typed, TypeOK
<1>5. WrittenIsDigested'
  BY <1>2, <1>3 DEF Typed, TypeOK, WrittenIsDigested
<1> QED BY <1>4, <1>5 DEF Execute, Typed, TypeOK

LEMMA WriteReceiptTyped ==
  ASSUME Typed, NEW r \in Runner, WriteReceipt(r)
  PROVE  Typed'
<1> DEFINE receipt == [passed |-> run[r].passed,
                       owned |-> content[run[r].id.packet]]
           job == [run[r] EXCEPT !.pc = "written", !.digest = receipt]
<1>1. run[r] \in Running /\ run[r].id \in ReceiptId
  BY DEF WriteReceipt, Typed, TypeOK, Running
<1>2. receipt \in Receipt
  BY <1>1 DEF Receipt, Running, ReceiptId, Typed, TypeOK
<1>3. job \in Running /\ job.digest \in Receipt
  BY <1>1, <1>2 DEF Running
<1>4. run' = [run EXCEPT ![r] = job]
  BY <1>1 DEF WriteReceipt, Typed, TypeOK, Running
<1>5. evidence' = [evidence EXCEPT ![run[r].id] = receipt]
  BY DEF WriteReceipt
<1> HIDE DEF job, receipt
<1>6. run' \in [Runner -> Running \cup {None}]
  BY <1>3, <1>4 DEF Typed, TypeOK
<1>7. evidence' \in [ReceiptId -> Receipt \cup {None}]
  BY <1>1, <1>2, <1>5 DEF Typed, TypeOK
<1>8. WrittenIsDigested'
  BY <1>3, <1>4 DEF Typed, TypeOK, WrittenIsDigested
<1> QED BY <1>6, <1>7, <1>8 DEF WriteReceipt, Typed, TypeOK

LEMMA FinishCheckTyped ==
  ASSUME Typed, NEW r \in Runner, FinishCheck(r)
  PROVE  Typed' /\ CheckChanges(run[r].id.packet)
<1> DEFINE i == run[r].id
           check == [status |-> IF run[r].passed THEN "passed" ELSE "failed",
                     attempts |-> i.attempt, receipt |-> i,
                     digest |-> run[r].digest]
           s == [packet[i.packet] EXCEPT !.checks =
                   [@ EXCEPT ![i.check] = check]]
<1>1. run[r] \in Running /\ i \in ReceiptId
  BY DEF FinishCheck, Typed, TypeOK, Running
<1>2. i.packet \in Packet /\ i.check \in Check /\ i.attempt \in 1..MaxAttempts
  BY <1>1 DEF ReceiptId
<1>3. packet[i.packet] \in PacketState
  BY <1>2 DEF Typed, TypeOK
<1>4. check \in CheckState
  <2>1. run[r].digest \in Receipt
    BY DEF FinishCheck, Typed, WrittenIsDigested
  <2>2. i.attempt \in 0..MaxAttempts
    BY <1>2, ConstantsAssumption DEF ConstantsAssumption
  <2> QED BY <1>1, <2>1, <2>2 DEF CheckState
<1>5. s \in PacketState /\ s.status = packet[i.packet].status
                        /\ s.owner = packet[i.packet].owner
  BY <1>2, <1>3, <1>4 DEF PacketState
<1>6. packet' = [packet EXCEPT ![i.packet] = s]
  BY <1>2, <1>3 DEF FinishCheck, Typed, TypeOK, PacketState
<1>7. run' = [run EXCEPT ![r] = None]
  BY DEF FinishCheck
<1> HIDE DEF s
<1>8. CheckChanges(i.packet)
  BY <1>2, <1>5, <1>6 DEF CheckChanges, Typed, TypeOK
<1>9. run' \in [Runner -> Running \cup {None}]
  BY <1>7 DEF Typed, TypeOK
<1>10. WrittenIsDigested'
  BY <1>7 DEF Typed, TypeOK, WrittenIsDigested
<1> QED BY <1>8, <1>9, <1>10 DEF FinishCheck, Typed, TypeOK, CheckChanges

LEMMA RunLostTyped ==
  ASSUME Typed, NEW r \in Runner, RunLost(r)
  PROVE  Typed'
<1>1. run' \in [Runner -> Running \cup {None}]
  BY DEF RunLost, Typed, TypeOK
<1>2. WrittenIsDigested'
  BY DEF RunLost, Typed, TypeOK, WrittenIsDigested
<1> QED BY <1>1, <1>2 DEF RunLost, Typed, TypeOK

LEMMA StatusTyped ==
  ASSUME Typed, NEW p \in Packet, NEW a \in Agent,
         StartPacket(p, a) \/ CompletePacket(p, a)
  PROVE  /\ Typed'
         /\ packet'[p].status \in {"active", "completed"}
         /\ \A q \in Packet \ {p} : packet'[q] = packet[q]
<1>1. packet[p] \in PacketState
  BY DEF Typed, TypeOK
<1>2. PICK s \in PacketState : /\ packet' = [packet EXCEPT ![p] = s]
                               /\ s.status \in {"active", "completed"}
  <2>1. CASE StartPacket(p, a)
    <3> DEFINE s == [packet[p] EXCEPT !.status = "active", !.owner = a]
    <3>1. s \in PacketState /\ s.status = "active"
      BY <1>1 DEF PacketState
    <3>2. packet' = [packet EXCEPT ![p] = s]
      BY <1>1, <2>1 DEF StartPacket, Typed, TypeOK, PacketState
    <3> QED BY <3>1, <3>2
  <2>2. CASE CompletePacket(p, a)
    <3> DEFINE s == [packet[p] EXCEPT !.status = "completed"]
    <3>1. s \in PacketState /\ s.status = "completed"
      BY <1>1 DEF PacketState
    <3>2. packet' = [packet EXCEPT ![p] = s]
      BY <1>1, <2>2 DEF CompletePacket, Typed, TypeOK, PacketState
    <3> QED BY <3>1, <3>2
  <2> QED BY <2>1, <2>2
<1>3. /\ packet' \in [Packet -> PacketState]
      /\ packet'[p].status \in {"active", "completed"}
      /\ \A q \in Packet \ {p} : packet'[q] = packet[q]
  BY <1>2 DEF Typed, TypeOK
<1> QED BY <1>3 DEF StartPacket, CompletePacket, Typed, TypeOK,
                    WrittenIsDigested

\* What reopen-packet makes of the packet, of a completed descendant, and of the
\* others.
LEMMA ReopenPacketTyped ==
  ASSUME Typed, NEW p \in Packet, NEW a \in Agent, ReopenPacket(p, a)
  PROVE  /\ Typed'
         /\ packet'[p].status = "active"
         /\ \A q \in Packet \ {p} :
              IF q \in Descendants(p) /\ packet[q].status = "completed"
              THEN packet'[q].status = "planned"
              ELSE packet'[q].status = packet[q].status
<1> DEFINE after(q) ==
      IF q = p THEN [packet[p] EXCEPT !.status = "active",
                                      !.checks = Unproven(packet[p])]
      ELSE IF q \in Descendants(p) /\ packet[q].status = "completed"
      THEN [status |-> "planned", owner |-> None,
            checks |-> Unproven(packet[q])]
      ELSE packet[q]
<1>1. packet' = [q \in Packet |-> after(q)]
  BY DEF ReopenPacket
<1>2. ASSUME NEW q \in Packet PROVE after(q) \in PacketState
  <2>1. packet[q] \in PacketState
    BY DEF Typed, TypeOK
  <2>2. Unproven(packet[q]) \in [Check -> CheckState]
    BY <2>1, UnprovenTyped
  <2> QED BY <2>1, <2>2 DEF PacketState
<1>3. after(p).status = "active"
  <2>1. packet[p] \in PacketState
    BY DEF Typed, TypeOK
  <2> QED BY <2>1 DEF PacketState
<1>4. ASSUME NEW q \in Packet \ {p}
      PROVE  IF q \in Descendants(p) /\ packet[q].status = "completed"
             THEN after(q).status = "planned"
             ELSE after(q).status = packet[q].status
  OBVIOUS
<1> HIDE DEF after
<1>5. packet' \in [Packet -> PacketState]
  BY <1>1, <1>2
<1> QED BY <1>1, <1>3, <1>4, <1>5
        DEF ReopenPacket, Typed, TypeOK, WrittenIsDigested
-----------------------------------------------------------------------------
\* Reopening a packet takes back everything that was built on it: a packet that
\* stays active or completed depends on nothing that is taken back, because it
\* would be a descendant itself.
LEMMA ReopenPacketKeeps ==
  ASSUME IInv, NEW p \in Packet, NEW a \in Agent, ReopenPacket(p, a)
  PROVE  IInv'
<1>1. Typed'
  BY ReopenPacketTyped DEF IInv
<1>2. plan \in [Packet -> SUBSET Packet] /\ ValidPlan(plan)
  BY DEF ReopenPacket, IInv, Typed, TypeOK, PlanIsValid
<1>3. BuiltOnCompleted'
  <2> SUFFICES ASSUME NEW q \in Packet,
                      packet'[q].status \in {"active", "completed"},
                      NEW d \in plan[q]
               PROVE  packet'[d].status = "completed"
    BY DEF BuiltOnCompleted, ReopenPacket
  <2>1. d \in Packet
    BY <1>2
  <2>2. /\ packet[q].status \in {"active", "completed"}
        /\ d # p /\ d \notin Descendants(p)
    <3>1. CASE q = p
      BY <1>2, <2>1, <3>1, NoDependencyOnDescendant DEF ReopenPacket
    <3>2. CASE q # p
      <4>1. /\ ~ (q \in Descendants(p) /\ packet[q].status = "completed")
            /\ packet[q].status \in {"active", "completed"}
        BY <3>2, ReopenPacketTyped DEF IInv
      <4>2. q \notin Descendants(p)
        BY <4>1 DEF ReopenPacket
      <4> QED BY <2>1, <4>1, <4>2, DescendantsClosed
    <3> QED BY <3>1, <3>2
  <2>3. packet[d].status = "completed"
    BY <2>2 DEF ReopenPacket, IInv, BuiltOnCompleted
  <2> QED BY <2>1, <2>2, <2>3, ReopenPacketTyped DEF IInv
<1>4. CompleteSessionIsDone' /\ PlanIsValid'
  BY <1>2 DEF ReopenPacket, CompleteSessionIsDone, PlanIsValid, ValidPlan
<1> QED BY <1>1, <1>3, <1>4 DEF IInv

\* A step that leaves every packet its status.
LEMMA StatusKeeps ==
  ASSUME IInv, UNCHANGED <<plan, completed>>,
         \A q \in Packet : packet'[q].status = packet[q].status
  PROVE  PlanIsValid' /\ BuiltOnCompleted' /\ CompleteSessionIsDone'
<1>1. plan # None => plan \in [Packet -> SUBSET Packet]
  BY DEF IInv, Typed, TypeOK
<1>2. PlanIsValid'
  BY DEF IInv, PlanIsValid, ValidPlan
<1>3. BuiltOnCompleted'
  BY <1>1 DEF IInv, BuiltOnCompleted
<1>4. CompleteSessionIsDone'
  BY DEF IInv, CompleteSessionIsDone
<1> QED BY <1>2, <1>3, <1>4

LEMMA PlanPacketsKeeps ==
  ASSUME IInv, NEW dependencies \in [Packet -> SUBSET Packet],
         PlanPackets(dependencies)
  PROVE  IInv'
<1>1. \A p \in Packet : packet'[p].status = "planned"
  BY DEF PlanPackets, Planned
<1>2. Typed'
  BY PlannedTyped DEF PlanPackets, IInv, Typed, TypeOK, WrittenIsDigested
<1>3. PlanIsValid'
  BY DEF PlanPackets, PlanIsValid, ValidPlan
<1>4. BuiltOnCompleted' /\ CompleteSessionIsDone'
  BY <1>1 DEF PlanPackets, BuiltOnCompleted, CompleteSessionIsDone
<1> QED BY <1>2, <1>3, <1>4 DEF IInv

LEMMA StartPacketKeeps ==
  ASSUME IInv, NEW p \in Packet, NEW a \in Agent, StartPacket(p, a)
  PROVE  IInv'
<1>1. /\ Typed'
      /\ \A q \in Packet \ {p} : packet'[q] = packet[q]
  BY StatusTyped DEF IInv
<1>2. plan \in [Packet -> SUBSET Packet]
  BY DEF StartPacket, IInv, Typed, TypeOK
<1>3. BuiltOnCompleted'
  <2> SUFFICES ASSUME NEW q \in Packet,
                      packet'[q].status \in {"active", "completed"},
                      NEW d \in plan[q]
               PROVE  packet'[d].status = "completed"
    BY DEF BuiltOnCompleted, StartPacket
  <2>1. packet[d].status = "completed"
    <3>1. CASE q = p
      BY <3>1 DEF StartPacket
    <3>2. CASE q # p
      BY <1>1, <3>2 DEF StartPacket, IInv, BuiltOnCompleted
    <3> QED BY <3>1, <3>2
  <2>2. d \in Packet /\ d # p
    BY <1>2, <2>1 DEF StartPacket
  <2> QED BY <1>1, <2>1, <2>2
<1>4. CompleteSessionIsDone' /\ PlanIsValid'
  BY DEF StartPacket, CompleteSessionIsDone, IInv, PlanIsValid, ValidPlan
<1> QED BY <1>1, <1>3, <1>4 DEF IInv

LEMMA CompletePacketKeeps ==
  ASSUME IInv, NEW p \in Packet, NEW a \in Agent, CompletePacket(p, a)
  PROVE  IInv'
<1>1. /\ Typed'
      /\ \A q \in Packet \ {p} : packet'[q] = packet[q]
  BY StatusTyped DEF IInv
<1>2. packet[p] \in PacketState
  BY DEF IInv, Typed, TypeOK
<1>3. packet'[p].status = "completed"
  BY <1>2 DEF CompletePacket, IInv, Typed, TypeOK, PacketState
<1>4. plan \in [Packet -> SUBSET Packet]
  BY DEF CompletePacket, IInv, Typed, TypeOK
<1>5. BuiltOnCompleted'
  <2> SUFFICES ASSUME NEW q \in Packet,
                      packet'[q].status \in {"active", "completed"},
                      NEW d \in plan[q]
               PROVE  packet'[d].status = "completed"
    BY DEF BuiltOnCompleted, CompletePacket
  <2>1. packet[q].status \in {"active", "completed"}
    BY <1>1 DEF CompletePacket
  <2>2. packet[d].status = "completed" /\ d \in Packet
    BY <1>4, <2>1 DEF CompletePacket, IInv, BuiltOnCompleted
  <2> QED BY <1>1, <1>3, <2>2
<1>6. CompleteSessionIsDone' /\ PlanIsValid'
  BY <1>1, <1>3 DEF CompletePacket, CompleteSessionIsDone, IInv, PlanIsValid,
                    ValidPlan
<1> QED BY <1>1, <1>5, <1>6 DEF IInv

LEMMA SessionKeeps ==
  ASSUME IInv, Complete \/ ReopenCriterion
  PROVE  IInv'
<1>1. Typed'
  BY DEF Complete, ReopenCriterion, IInv, Typed, TypeOK, WrittenIsDigested
<1>2. BuiltOnCompleted' /\ PlanIsValid'
  BY DEF Complete, ReopenCriterion, IInv, BuiltOnCompleted, PlanIsValid,
         ValidPlan
<1>3. CompleteSessionIsDone'
  BY DEF Complete, ReopenCriterion, CompleteSessionIsDone
<1> QED BY <1>1, <1>2, <1>3 DEF IInv

LEMMA StepIInv == IInv /\ [Next]_vars => IInv'
<1> SUFFICES ASSUME IInv, [Next]_vars PROVE IInv'
  OBVIOUS
<1> USE StatusKeeps DEF IInv
<1>1. CASE \E dependencies \in [Packet -> SUBSET Packet] :
             PlanPackets(dependencies)
  BY <1>1, PlanPacketsKeeps
<1>2. CASE \E p \in Packet, a \in Agent : StartPacket(p, a)
  BY <1>2, StartPacketKeeps
<1>3. CASE \E p \in Packet, a \in Agent : CompletePacket(p, a)
  BY <1>3, CompletePacketKeeps
<1>4. CASE \E p \in Packet, a \in Agent : ReopenPacket(p, a)
  BY <1>4, ReopenPacketKeeps
<1>5. CASE \E r \in Runner, p \in Packet, k \in Check, a \in Agent :
             StartCheck(r, p, k, a)
  <2> PICK r \in Runner, p \in Packet, k \in Check, a \in Agent :
             StartCheck(r, p, k, a)
    BY <1>5
  <2>1. Typed' /\ CheckChanges(p)
    BY StartCheckTyped
  <2>2. UNCHANGED <<plan, completed>>
    BY DEF StartCheck
  <2> QED BY <2>1, <2>2 DEF CheckChanges
<1>6. CASE \E r \in Runner, passed \in BOOLEAN : Execute(r, passed)
  BY <1>6, ExecuteTyped DEF Execute
<1>7. CASE \E r \in Runner : WriteReceipt(r)
  BY <1>7, WriteReceiptTyped DEF WriteReceipt
<1>8. CASE \E r \in Runner : FinishCheck(r)
  BY <1>8, FinishCheckTyped DEF FinishCheck, CheckChanges
<1>9. CASE \E r \in Runner : RunLost(r)
  BY <1>9, RunLostTyped DEF RunLost
<1>10. CASE Complete \/ ReopenCriterion
  BY <1>10, SessionKeeps
<1>11. CASE \E p \in Packet, v \in Content : EditOwned(p, v)
  BY <1>11 DEF EditOwned, Typed, TypeOK, WrittenIsDigested
<1>12. CASE \E i \in ReceiptId : EvidenceLost(i)
  BY <1>12 DEF EvidenceLost, Typed, TypeOK, WrittenIsDigested
<1>13. CASE UNCHANGED vars
  BY <1>13 DEF vars, Typed, TypeOK, WrittenIsDigested
<1> QED
  BY <1>1, <1>2, <1>3, <1>4, <1>5, <1>6, <1>7, <1>8, <1>9, <1>10, <1>11,
     <1>12, <1>13 DEF Next, Process
-----------------------------------------------------------------------------
\* The strengthened invariant: types, an acyclic plan, and what packets and the
\* session rest on.
THEOREM Invariant == Spec => []IInv
<1>1. Init => IInv
  BY InitTyped
  DEF Init, Planned, IInv, PlanIsValid, BuiltOnCompleted, CompleteSessionIsDone
<1>2. IInv /\ [Next]_vars => IInv'
  BY StepIInv
<1> QED BY <1>1, <1>2, PTL DEF Spec

\* The plan, the packets, their receipts and processes have their types.
THEOREM TypeCorrect == Spec => []TypeOK
<1>1. IInv => TypeOK
  BY DEF IInv, Typed
<1> QED BY <1>1, Invariant, PTL

\* Whatever dependency graph is planned, active and completed packets rest on
\* completed ones only.
THEOREM WorkRestsOnCompleted == Spec => []BuiltOnCompleted
<1>1. IInv => BuiltOnCompleted
  BY DEF IInv
<1> QED BY <1>1, Invariant, PTL

\* A complete session has only completed packets.
THEOREM CompleteSessionsAreDone == Spec => []CompleteSessionIsDone
<1>1. IInv => CompleteSessionIsDone
  BY DEF IInv
<1> QED BY <1>1, Invariant, PTL
-----------------------------------------------------------------------------
\* Before plan-packets there is no work.
NothingPlanned ==
  plan = None => \A p \in Packet : packet[p].status = "planned"

\* A passed check names the receipt of its latest attempt, with its digest.
PassedHasReceipt ==
  \A p \in Packet, k \in Check : packet[p].checks[k].status = "passed" =>
    /\ packet[p].checks[k].digest \in Receipt
    /\ packet[p].checks[k].receipt = [packet |-> p, check |-> k,
                                attempt |-> packet[p].checks[k].attempts]

RInv == /\ IInv /\ NothingPlanned /\ OneProcessPerCheck /\ PassedHasReceipt
        /\ CompletedIsProven

\* A step changes at most check k of packet p, and no packet's status.
OnlyCheck(p, k) ==
  /\ \A q \in Packet : packet'[q].status = packet[q].status
  /\ \A q \in Packet, j \in Check : <<q, j>> # <<p, k>> =>
       packet'[q].checks[j] = packet[q].checks[j]

LEMMA OneCheckWritten ==
  ASSUME Typed, NEW p \in Packet, NEW k \in Check, NEW check,
         packet' = [packet EXCEPT ![p].checks[k] = check]
  PROVE  OnlyCheck(p, k) /\ packet'[p].checks[k] = check
<1>1. \A q \in Packet : packet[q] \in PacketState
  BY DEF Typed, TypeOK
<1>2. packet' = [packet EXCEPT ![p] =
                   [packet[p] EXCEPT !.checks = [@ EXCEPT ![k] = check]]]
  BY <1>1 DEF Typed, TypeOK, PacketState
<1>3. \A q \in Packet \ {p} : packet'[q] = packet[q]
  BY <1>2 DEF Typed, TypeOK
<1>4. packet'[p] = [packet[p] EXCEPT !.checks = [@ EXCEPT ![k] = check]]
  BY <1>2 DEF Typed, TypeOK
<1>5. /\ packet'[p].status = packet[p].status
      /\ packet'[p].checks = [packet[p].checks EXCEPT ![k] = check]
  BY <1>1, <1>4 DEF PacketState
<1>6. packet'[p].checks[k] = check
  BY <1>1, <1>5 DEF PacketState
<1>7. \A j \in Check \ {k} : packet'[p].checks[j] = packet[p].checks[j]
  BY <1>1, <1>5 DEF PacketState
<1> QED BY <1>3, <1>5, <1>6, <1>7 DEF OnlyCheck

\* A step after which every completed packet has the checks it had before, and
\* was completed, leaves the completed packets proven.
LEMMA CompletedAsBefore ==
  ASSUME RInv,
         \A q \in Packet : packet'[q].status = "completed" =>
           /\ packet[q].status = "completed"
           /\ \A j \in Check : packet'[q].checks[j] = packet[q].checks[j]
  PROVE  CompletedIsProven'
<1> SUFFICES ASSUME NEW q \in Packet, packet'[q].status = "completed"
             PROVE  \E v \in Content : \A j \in Check :
                      LET check == packet'[q].checks[j]
                      IN  /\ check.status = "passed"
                          /\ check.digest = [passed |-> TRUE, owned |-> v]
                          /\ check.receipt = [packet |-> q, check |-> j,
                                              attempt |-> check.attempts]
  BY DEF CompletedIsProven
<1>1. PICK v \in Content : \A j \in Check :
        LET check == packet[q].checks[j]
        IN  /\ check.status = "passed"
            /\ check.digest = [passed |-> TRUE, owned |-> v]
            /\ check.receipt = [packet |-> q, check |-> j,
                                attempt |-> check.attempts]
  BY DEF RInv, CompletedIsProven
<1>2. \A j \in Check :
        LET check == packet'[q].checks[j]
        IN  /\ check.status = "passed"
            /\ check.digest = [passed |-> TRUE, owned |-> v]
            /\ check.receipt = [packet |-> q, check |-> j,
                                attempt |-> check.attempts]
  BY <1>1
<1> QED BY <1>2

\* A step inside an active packet leaves the completed ones proven.
LEMMA CompletedStay ==
  ASSUME RInv, NEW p \in Packet, NEW k \in Check,
         packet[p].status = "active", OnlyCheck(p, k)
  PROVE  CompletedIsProven'
<1>1. \A q \in Packet : packet'[q].status = "completed" =>
        /\ packet[q].status = "completed"
        /\ \A j \in Check : packet'[q].checks[j] = packet[q].checks[j]
  BY DEF OnlyCheck
<1> QED BY <1>1, CompletedAsBefore

\* Starting a check that is in progress with a live process is refused, so the
\* new process is the only one of its check.
LEMMA StartCheckKeeps ==
  ASSUME RInv, NEW r \in Runner, NEW p \in Packet, NEW k \in Check,
         NEW a \in Agent, StartCheck(r, p, k, a)
  PROVE  /\ NothingPlanned' /\ OneProcessPerCheck' /\ PassedHasReceipt'
         /\ CompletedIsProven'
<1> DEFINE n == packet[p].checks[k].attempts + 1
           i == [packet |-> p, check |-> k, attempt |-> n]
           check == [status |-> "in_progress", attempts |-> n,
                     receipt |-> None, digest |-> None]
           job == [pc |-> "started", passed |-> FALSE, digest |-> None,
                   id |-> i]
<1>1. Typed
  BY DEF RInv, IInv
<1>2. OnlyCheck(p, k) /\ packet'[p].checks[k] = check
  <2>1. packet' = [packet EXCEPT ![p].checks[k] = check]
    BY DEF StartCheck
  <2> HIDE DEF check
  <2> QED BY <1>1, <2>1, OneCheckWritten
<1>3. run' = [run EXCEPT ![r] = job] /\ plan' = plan
  BY DEF StartCheck
<1>4. packet[p].status = "active" /\ run[r] = None
  BY DEF StartCheck
<1>5. ASSUME NEW q \in Runner, run[q] # None
      PROVE  /\ run[q].id.packet \in Packet /\ run[q].id.check \in Check
             /\ <<run[q].id.packet, run[q].id.check>> # <<p, k>>
  <2>1. run[q].id \in ReceiptId
    BY <1>1, <1>5 DEF Typed, TypeOK, Running
  <2>2. ASSUME run[q].id.packet = p, run[q].id.check = k PROVE FALSE
    <3>1. /\ packet[p].checks[k].status = "in_progress"
          /\ packet[p].checks[k].attempts = run[q].id.attempt
      BY <1>5, <2>2 DEF RInv, OneProcessPerCheck
    <3>2. run[q].id = [packet |-> p, check |-> k,
                       attempt |-> packet[p].checks[k].attempts]
      BY <2>1, <2>2, <3>1 DEF ReceiptId
    <3>3. Alive(p, k)
      BY <1>5, <3>2 DEF Alive
    <3> QED BY <3>1, <3>3 DEF StartCheck
  <2> QED BY <2>1, <2>2 DEF ReceiptId
<1>6. NothingPlanned'
  BY <1>2, <1>3 DEF RInv, NothingPlanned, OnlyCheck
<1>7. OneProcessPerCheck'
  <2> SUFFICES ASSUME NEW q \in Runner, run'[q] # None
               PROVE  LET j == run'[q].id
                      IN  /\ packet'[j.packet].checks[j.check].status
                               = "in_progress"
                          /\ packet'[j.packet].checks[j.check].attempts
                               = j.attempt
                          /\ packet'[j.packet].status = "active"
                          /\ \A x \in Runner \ {q} : run'[x] # None =>
                               run'[x].id # j
    BY DEF OneProcessPerCheck
  <2>0. \A x \in Runner : run'[x] = IF x = r THEN job ELSE run[x]
    BY <1>1, <1>3 DEF Typed, TypeOK
  <2>1. \A x \in Runner \ {r} : run[x] # None => run[x].id # i
    <3> SUFFICES ASSUME NEW x \in Runner, run[x] # None, run[x].id = i
                 PROVE  FALSE
      OBVIOUS
    <3>1. run[x].id.packet = p /\ run[x].id.check = k
      OBVIOUS
    <3> QED BY <1>5, <3>1
  <2>2. CASE q = r
    <3>1. run'[q].id = i
      BY <2>0, <2>2
    <3>2. \A x \in Runner \ {q} : run'[x] # None => run'[x].id # i
      BY <2>0, <2>1, <2>2
    <3> QED BY <1>2, <1>4, <3>1, <3>2 DEF OnlyCheck
  <2>3. CASE q # r
    <3>1. run'[q] = run[q] /\ run[q] # None
      BY <2>0, <2>3
    <3>2. /\ packet'[run[q].id.packet].checks[run[q].id.check]
               = packet[run[q].id.packet].checks[run[q].id.check]
          /\ packet'[run[q].id.packet].status
               = packet[run[q].id.packet].status
      BY <1>2, <1>5, <3>1 DEF OnlyCheck
    <3>3. \A x \in Runner \ {q} : run'[x] # None => run'[x].id # run[q].id
      <4>1. job.id # run[q].id
        BY <2>1, <2>3, <3>1
      <4> QED BY <2>0, <3>1, <4>1 DEF RInv, OneProcessPerCheck
    <3>4. /\ packet[run[q].id.packet].checks[run[q].id.check].status
               = "in_progress"
          /\ packet[run[q].id.packet].checks[run[q].id.check].attempts
               = run[q].id.attempt
          /\ packet[run[q].id.packet].status = "active"
      BY <3>1 DEF RInv, OneProcessPerCheck
    <3> HIDE DEF job
    <3> QED BY <3>1, <3>2, <3>3, <3>4
  <2> QED BY <2>2, <2>3
<1>8. PassedHasReceipt'
  <2> SUFFICES ASSUME NEW q \in Packet, NEW j \in Check,
                      packet'[q].checks[j].status = "passed"
               PROVE  packet'[q].checks[j] = packet[q].checks[j]
    BY DEF PassedHasReceipt, RInv
  <2>1. <<q, j>> # <<p, k>>
    BY <1>2
  <2> QED BY <1>2, <2>1 DEF OnlyCheck
<1>9. CompletedIsProven'
  BY <1>2, <1>4, CompletedStay
<1> QED BY <1>6, <1>7, <1>8, <1>9

\* A finished check was this process's own, and no other process was in it.
LEMMA FinishCheckKeeps ==
  ASSUME RInv, NEW r \in Runner, FinishCheck(r)
  PROVE  /\ NothingPlanned' /\ OneProcessPerCheck' /\ PassedHasReceipt'
         /\ CompletedIsProven'
<1> DEFINE i == run[r].id
           check == [status |-> IF run[r].passed THEN "passed" ELSE "failed",
                     attempts |-> i.attempt, receipt |-> i,
                     digest |-> run[r].digest]
<1>1. Typed
  BY DEF RInv, IInv
<1>2. i \in ReceiptId /\ run[r] # None
  BY <1>1 DEF FinishCheck, Typed, TypeOK, Running
<1>3. i.packet \in Packet /\ i.check \in Check
  BY <1>2 DEF ReceiptId
<1>4. packet' = [packet EXCEPT ![i.packet].checks[i.check] = check]
  BY DEF FinishCheck
<1>5. OnlyCheck(i.packet, i.check) /\ packet'[i.packet].checks[i.check] = check
  <2> HIDE DEF check, i
  <2> QED BY <1>1, <1>3, <1>4, OneCheckWritten
<1>6. run' = [run EXCEPT ![r] = None] /\ plan' = plan
  BY DEF FinishCheck
<1>7. packet[i.packet].status = "active"
  BY <1>2 DEF RInv, OneProcessPerCheck
<1>8. NothingPlanned'
  BY <1>5, <1>6 DEF RInv, NothingPlanned, OnlyCheck
<1>9. OneProcessPerCheck'
  <2> SUFFICES ASSUME NEW q \in Runner, run'[q] # None
               PROVE  LET j == run'[q].id
                      IN  /\ packet'[j.packet].checks[j.check].status
                               = "in_progress"
                          /\ packet'[j.packet].checks[j.check].attempts
                               = j.attempt
                          /\ packet'[j.packet].status = "active"
                          /\ \A x \in Runner \ {q} : run'[x] # None =>
                               run'[x].id # j
    BY DEF OneProcessPerCheck
  <2>0. \A x \in Runner : run'[x] = IF x = r THEN None ELSE run[x]
    BY <1>1, <1>6 DEF Typed, TypeOK
  <2>1. run'[q] = run[q] /\ run[q] # None /\ q # r
    BY <2>0
  <2>2. run[q].id \in ReceiptId
    BY <1>1, <2>1 DEF Typed, TypeOK, Running
  <2>3. <<run[q].id.packet, run[q].id.check>> # <<i.packet, i.check>>
    <3> SUFFICES ASSUME run[q].id.packet = i.packet, run[q].id.check = i.check
                 PROVE  FALSE
      OBVIOUS
    <3>1. run[q].id.attempt = i.attempt
      BY <1>2, <2>1 DEF RInv, OneProcessPerCheck
    <3>2. run[q].id = i
      BY <1>2, <2>2, <3>1 DEF ReceiptId
    <3> QED BY <1>2, <2>1, <3>2 DEF RInv, OneProcessPerCheck
  <2>4. /\ packet'[run[q].id.packet].checks[run[q].id.check]
             = packet[run[q].id.packet].checks[run[q].id.check]
        /\ packet'[run[q].id.packet].status = packet[run[q].id.packet].status
    <3> HIDE DEF i, check
    <3> QED BY <1>5, <2>2, <2>3 DEF OnlyCheck, ReceiptId
  <2>5. /\ packet[run[q].id.packet].checks[run[q].id.check].status
             = "in_progress"
        /\ packet[run[q].id.packet].checks[run[q].id.check].attempts
             = run[q].id.attempt
        /\ packet[run[q].id.packet].status = "active"
        /\ \A x \in Runner \ {q} : run[x] # None => run[x].id # run[q].id
    BY <2>1 DEF RInv, OneProcessPerCheck
  <2> HIDE DEF i, check
  <2> QED BY <2>0, <2>1, <2>4, <2>5
<1>10. PassedHasReceipt'
  <2> SUFFICES ASSUME NEW q \in Packet, NEW j \in Check,
                      packet'[q].checks[j].status = "passed"
               PROVE  /\ packet'[q].checks[j].digest \in Receipt
                      /\ packet'[q].checks[j].receipt =
                           [packet |-> q, check |-> j,
                            attempt |-> packet'[q].checks[j].attempts]
    BY DEF PassedHasReceipt
  <2>1. CASE <<q, j>> = <<i.packet, i.check>>
    <3>1. packet'[q].checks[j] = check
      BY <1>5, <2>1
    <3>2. run[r].digest \in Receipt
      BY <1>1 DEF FinishCheck, Typed, WrittenIsDigested
    <3>3. i = [packet |-> q, check |-> j, attempt |-> i.attempt]
      BY <1>2, <2>1 DEF ReceiptId
    <3> HIDE DEF i
    <3> QED BY <3>1, <3>2, <3>3
  <2>2. CASE <<q, j>> # <<i.packet, i.check>>
    <3>1. packet'[q].checks[j] = packet[q].checks[j]
      BY <1>5, <2>2 DEF OnlyCheck
    <3> QED BY <3>1 DEF RInv, PassedHasReceipt
  <2> QED BY <2>1, <2>2
<1>11. CompletedIsProven'
  BY <1>3, <1>5, <1>7, CompletedStay
<1> QED BY <1>8, <1>9, <1>10, <1>11

\* A process that goes on, or is lost, keeps or leaves its check; the packets
\* are as they were.
LEMMA ProcessKeeps ==
  ASSUME RInv, UNCHANGED <<plan, packet>>,
         \A r \in Runner : run'[r] # None =>
           run[r] # None /\ run'[r].id = run[r].id
  PROVE  /\ NothingPlanned' /\ OneProcessPerCheck' /\ PassedHasReceipt'
         /\ CompletedIsProven'
<1>1. NothingPlanned'
  BY DEF RInv, NothingPlanned
<1>2. OneProcessPerCheck'
  <2>1. OneProcessPerCheck
    BY DEF RInv
  <2> QED BY <2>1 DEF OneProcessPerCheck
<1>3. PassedHasReceipt'
  BY DEF RInv, PassedHasReceipt
<1>4. CompletedIsProven'
  BY DEF RInv, CompletedIsProven
<1> QED BY <1>1, <1>2, <1>3, <1>4

\* No process runs a check of a packet that is not active.
LEMMA RunsAreInActive ==
  ASSUME RInv, NEW r \in Runner, run[r] # None
  PROVE  /\ run[r].id.packet \in Packet /\ run[r].id.check \in Check
         /\ packet[run[r].id.packet].status = "active"
         /\ packet[run[r].id.packet].checks[run[r].id.check].status
              = "in_progress"
<1>1. run[r].id \in ReceiptId
  BY DEF RInv, IInv, Typed, TypeOK, Running
<1> QED BY <1>1 DEF RInv, OneProcessPerCheck, ReceiptId

\* A step that leaves an active packet with a check in progress as it is leaves
\* every process in its check.
LEMMA ProcessesStay ==
  ASSUME RInv, run' = run,
         \A p \in Packet :
           /\ packet[p].status = "active"
           /\ \E k \in Check : packet[p].checks[k].status = "in_progress"
           => packet'[p] = packet[p]
  PROVE  OneProcessPerCheck'
<1>1. \A r \in Runner : run[r] # None =>
        packet'[run[r].id.packet] = packet[run[r].id.packet]
  BY RunsAreInActive
<1>2. OneProcessPerCheck
  BY DEF RInv
<1> QED BY <1>1, <1>2 DEF OneProcessPerCheck

LEMMA PlanPacketsRuns ==
  ASSUME RInv, NEW dependencies \in [Packet -> SUBSET Packet],
         PlanPackets(dependencies)
  PROVE  /\ NothingPlanned' /\ OneProcessPerCheck' /\ PassedHasReceipt'
         /\ CompletedIsProven'
<1>1. \A p \in Packet :
        /\ packet'[p].status = "planned"
        /\ \A k \in Check : packet'[p].checks[k].status = "pending"
  BY DEF PlanPackets, Planned, Unchecked
<1>2. \A p \in Packet : packet[p].status = "planned"
  BY DEF RInv, NothingPlanned, PlanPackets
<1>3. OneProcessPerCheck'
  BY <1>2, ProcessesStay DEF PlanPackets
<1> QED BY <1>1, <1>3 DEF NothingPlanned, PassedHasReceipt, CompletedIsProven

LEMMA StartPacketRuns ==
  ASSUME RInv, NEW p \in Packet, NEW a \in Agent, StartPacket(p, a)
  PROVE  /\ NothingPlanned' /\ OneProcessPerCheck' /\ PassedHasReceipt'
         /\ CompletedIsProven'
<1>1. packet[p] \in PacketState
  BY DEF RInv, IInv, Typed, TypeOK
<1>2. packet' = [packet EXCEPT ![p] =
                   [packet[p] EXCEPT !.status = "active", !.owner = a]]
  BY <1>1 DEF StartPacket, RInv, IInv, Typed, TypeOK, PacketState
<1>3. \A q \in Packet \ {p} : packet'[q] = packet[q]
  BY <1>2 DEF RInv, IInv, Typed, TypeOK
<1>4. packet'[p].status = "active" /\ packet'[p].checks = packet[p].checks
  BY <1>1, <1>2 DEF RInv, IInv, Typed, TypeOK, PacketState
<1>5. NothingPlanned'
  BY DEF StartPacket, NothingPlanned
<1>6. OneProcessPerCheck'
  BY <1>3, ProcessesStay DEF StartPacket
<1>7. PassedHasReceipt'
  <2>1. \A q \in Packet : packet'[q].checks = packet[q].checks
    BY <1>3, <1>4
  <2> QED BY <2>1 DEF RInv, PassedHasReceipt
<1>8. CompletedIsProven'
  BY <1>3, <1>4, CompletedAsBefore
<1> QED BY <1>5, <1>6, <1>7, <1>8

\* complete-packet looks at every check in one step, so they passed on what the
\* packet's owned paths hold then.
LEMMA CompletePacketRuns ==
  ASSUME RInv, NEW p \in Packet, NEW a \in Agent, CompletePacket(p, a)
  PROVE  /\ NothingPlanned' /\ OneProcessPerCheck' /\ PassedHasReceipt'
         /\ CompletedIsProven'
<1>1. packet[p] \in PacketState
  BY DEF RInv, IInv, Typed, TypeOK
<1>2. packet' = [packet EXCEPT ![p] =
                   [packet[p] EXCEPT !.status = "completed"]]
  BY <1>1 DEF CompletePacket, RInv, IInv, Typed, TypeOK, PacketState
<1>3. \A q \in Packet \ {p} : packet'[q] = packet[q]
  BY <1>2 DEF RInv, IInv, Typed, TypeOK
<1>4. packet'[p].status = "completed" /\ packet'[p].checks = packet[p].checks
  BY <1>1, <1>2 DEF RInv, IInv, Typed, TypeOK, PacketState
<1>5. NothingPlanned'
  BY DEF CompletePacket, NothingPlanned
<1>6. OneProcessPerCheck'
  <2>1. \A k \in Check : packet[p].checks[k].status # "in_progress"
    BY DEF CompletePacket
  <2> QED BY <1>3, <2>1, ProcessesStay DEF CompletePacket
<1>7. PassedHasReceipt'
  <2>1. \A q \in Packet : packet'[q].checks = packet[q].checks
    BY <1>3, <1>4
  <2> QED BY <2>1 DEF RInv, PassedHasReceipt
<1>8. \A k \in Check :
        /\ packet[p].checks[k].status = "passed"
        /\ packet[p].checks[k].digest = [passed |-> TRUE, owned |-> content[p]]
        /\ packet[p].checks[k].receipt = [packet |-> p, check |-> k,
                                attempt |-> packet[p].checks[k].attempts]
  <2> TAKE k \in Check
  <2>1. packet[p].checks[k].status = "passed" /\ Validates(p, k)
    BY DEF CompletePacket
  <2>2. /\ packet[p].checks[k].digest \in Receipt
        /\ packet[p].checks[k].receipt = [packet |-> p, check |-> k,
                                attempt |-> packet[p].checks[k].attempts]
    BY <2>1 DEF RInv, PassedHasReceipt
  <2>3. packet[p].checks[k].digest = [passed |-> TRUE, owned |-> content[p]]
    BY <2>1, <2>2 DEF Validates, Receipt
  <2> QED BY <2>1, <2>2, <2>3
<1>9. CompletedIsProven'
  <2> SUFFICES ASSUME NEW q \in Packet, packet'[q].status = "completed"
               PROVE  \E v \in Content : \A k \in Check :
                        LET check == packet'[q].checks[k]
                        IN  /\ check.status = "passed"
                            /\ check.digest = [passed |-> TRUE, owned |-> v]
                            /\ check.receipt = [packet |-> q, check |-> k,
                                                attempt |-> check.attempts]
    BY DEF CompletedIsProven
  <2>1. CASE q = p
    <3>1. content[p] \in Content
      BY DEF RInv, IInv, Typed, TypeOK
    <3> QED BY <1>4, <1>8, <2>1, <3>1
  <2>2. CASE q # p
    BY <1>3, <2>2 DEF RInv, CompletedIsProven
  <2> QED BY <2>1, <2>2
<1> QED BY <1>5, <1>6, <1>7, <1>9

\* reopen-packet changes completed packets, in which nothing runs.
LEMMA ReopenPacketRuns ==
  ASSUME RInv, NEW p \in Packet, NEW a \in Agent, ReopenPacket(p, a)
  PROVE  /\ NothingPlanned' /\ OneProcessPerCheck' /\ PassedHasReceipt'
         /\ CompletedIsProven'
<1>1. \A q \in Packet :
        \/ packet'[q] = packet[q]
        \/ /\ packet[q].status = "completed"
           /\ packet'[q].status # "completed"
           /\ packet'[q].checks = Unproven(packet[q])
  <2> TAKE q \in Packet
  <2>1. packet[q] \in PacketState
    BY DEF RInv, IInv, Typed, TypeOK
  <2>2. CASE q = p
    <3>1. packet'[p] = [packet[p] EXCEPT !.status = "active",
                                         !.checks = Unproven(packet[p])]
      BY DEF ReopenPacket
    <3> QED BY <2>1, <2>2, <3>1 DEF ReopenPacket, PacketState
  <2>3. CASE q # p
    <3>1. packet'[q] = IF q \in Descendants(p) /\ packet[q].status = "completed"
                       THEN [status |-> "planned", owner |-> None,
                             checks |-> Unproven(packet[q])]
                       ELSE packet[q]
      BY <2>3 DEF ReopenPacket
    <3> QED BY <3>1
  <2> QED BY <2>2, <2>3
<1>2. NothingPlanned'
  BY DEF ReopenPacket, NothingPlanned
<1>3. OneProcessPerCheck'
  <2>1. \A q \in Packet : packet[q].status = "active" => packet'[q] = packet[q]
    BY <1>1
  <2> QED BY <2>1, ProcessesStay DEF ReopenPacket
<1>4. PassedHasReceipt'
  <2> SUFFICES ASSUME NEW q \in Packet, NEW k \in Check,
                      packet'[q].checks[k].status = "passed"
               PROVE  packet'[q] = packet[q]
    BY DEF RInv, PassedHasReceipt
  <2>1. packet[q].checks[k] \in CheckState
    BY DEF RInv, IInv, Typed, TypeOK, PacketState
  <2>2. Unproven(packet[q])[k].status = "pending"
    BY <2>1 DEF Unproven, CheckState
  <2> QED BY <1>1, <2>2
<1>5. CompletedIsProven'
  <2>1. \A q \in Packet : packet'[q].status = "completed" =>
          packet'[q] = packet[q]
    BY <1>1
  <2> QED BY <2>1, CompletedAsBefore
<1> QED BY <1>2, <1>3, <1>4, <1>5

LEMMA StepRInv == RInv /\ [Next]_vars => RInv'
<1> SUFFICES ASSUME RInv, [Next]_vars
             PROVE  /\ NothingPlanned' /\ OneProcessPerCheck'
                    /\ PassedHasReceipt' /\ CompletedIsProven'
  BY StepIInv DEF RInv
<1>1. CASE \E dependencies \in [Packet -> SUBSET Packet] :
             PlanPackets(dependencies)
  BY <1>1, PlanPacketsRuns
<1>2. CASE \E p \in Packet, a \in Agent : StartPacket(p, a)
  BY <1>2, StartPacketRuns
<1>3. CASE \E p \in Packet, a \in Agent : CompletePacket(p, a)
  BY <1>3, CompletePacketRuns
<1>4. CASE \E p \in Packet, a \in Agent : ReopenPacket(p, a)
  BY <1>4, ReopenPacketRuns
<1>5. CASE \E r \in Runner, p \in Packet, k \in Check, a \in Agent :
             StartCheck(r, p, k, a)
  BY <1>5, StartCheckKeeps
<1>6. CASE \E r \in Runner : FinishCheck(r)
  BY <1>6, FinishCheckKeeps
<1>7. CASE \/ \E r \in Runner, passed \in BOOLEAN : Execute(r, passed)
           \/ \E r \in Runner : WriteReceipt(r) \/ RunLost(r)
           \/ Complete \/ ReopenCriterion
           \/ \E p \in Packet, v \in Content : EditOwned(p, v)
           \/ \E i \in ReceiptId : EvidenceLost(i)
           \/ UNCHANGED vars
  <2>1. UNCHANGED <<plan, packet>>
    BY <1>7 DEF Execute, WriteReceipt, RunLost, Complete, ReopenCriterion,
                EditOwned, EvidenceLost, vars
  <2>2. \A r \in Runner : run'[r] # None =>
          run[r] # None /\ run'[r].id = run[r].id
    <3>1. CASE \/ \E r \in Runner, passed \in BOOLEAN : Execute(r, passed)
               \/ \E r \in Runner : WriteReceipt(r)
      <4> PICK r \in Runner :
            (\E passed \in BOOLEAN : Execute(r, passed)) \/ WriteReceipt(r)
        BY <3>1
      <4>1. run[r] # None /\ run[r] \in Running
        BY DEF Execute, WriteReceipt, RInv, IInv, Typed, TypeOK
      <4>2. \A x \in Runner \ {r} : run'[x] = run[x]
        BY DEF Execute, WriteReceipt, RInv, IInv, Typed, TypeOK
      <4>3. run'[r].id = run[r].id
        BY <4>1 DEF Execute, WriteReceipt, RInv, IInv, Typed, TypeOK, Running
      <4> QED BY <4>1, <4>2, <4>3
    <3>2. CASE \E r \in Runner : RunLost(r)
      BY <3>2 DEF RunLost, RInv, IInv, Typed, TypeOK
    <3>3. CASE run' = run
      BY <3>3
    <3> QED BY <1>7, <3>1, <3>2, <3>3
            DEF Complete, ReopenCriterion, EditOwned, EvidenceLost, vars
  <2> QED BY <2>1, <2>2, ProcessKeeps
<1> QED
  BY <1>1, <1>2, <1>3, <1>4, <1>5, <1>6, <1>7 DEF Next, Process
-----------------------------------------------------------------------------
\* The invariant with the processes: who runs what, and what a passed check and
\* a completed packet stand for.
THEOREM RunnersInvariant == Spec => []RInv
<1>1. Init => NothingPlanned /\ OneProcessPerCheck /\ PassedHasReceipt
  BY DEF Init, Planned, Unchecked, NothingPlanned, OneProcessPerCheck,
         PassedHasReceipt
<1>2. Init => CompletedIsProven
  BY DEF Init, Planned, CompletedIsProven
<1>3. Init => IInv
  BY InitTyped
  DEF Init, Planned, IInv, PlanIsValid, BuiltOnCompleted, CompleteSessionIsDone
<1>4. Init => RInv
  BY <1>1, <1>2, <1>3 DEF RInv
<1>5. RInv /\ [Next]_vars => RInv'
  BY StepRInv
<1> QED BY <1>4, <1>5, PTL DEF Spec

\* However many processes run checks and die, one check has one live process,
\* and it finds the check still its own.
THEOREM ChecksHaveOneProcess == Spec => []OneProcessPerCheck
<1>1. RInv => OneProcessPerCheck
  BY DEF RInv
<1> QED BY <1>1, RunnersInvariant, PTL

\* A completed packet passed all its checks on one content of what it owns.
THEOREM CompletedPacketsAreProven == Spec => []CompletedIsProven
<1>1. RInv => CompletedIsProven
  BY DEF RInv
<1> QED BY <1>1, RunnersInvariant, PTL
-----------------------------------------------------------------------------
(* The waves of reopen_packet.  What a set contains that is closed under   *)
(* dependency is a fact about all such sets, what the loop finds one about  *)
(* its n-th wave; the induction is over a set of wave numbers.              *)

\* Induction up to a bound, over a set instead of a predicate.
LEMMA InductionTo ==
  ASSUME NEW N \in Nat, NEW S, 0 \in S,
         \A n \in 0..N : n < N /\ n \in S => n + 1 \in S
  PROVE  \A n \in 0..N : n \in S
<1> DEFINE Less == {ss \in Nat \X Nat : ss[1] < ss[2]}
           T == {n \in 0..N : n \notin S}
<1>1. IsWellFoundedOn(Less, Nat)
  BY NatLessThanWellFounded DEF OpToRel
<1> SUFFICES ASSUME T # {} PROVE FALSE
  OBVIOUS
<1>2. T \subseteq Nat
  OBVIOUS
<1>3. PICK m \in T : \A k \in T : <<k, m>> \notin Less
  <2> HIDE DEF Less, T
  <2> QED BY <1>1, <1>2, WFMin
<1>4. m # 0 /\ m \in 0..N /\ m - 1 \in 0..N /\ m \notin S
  OBVIOUS
<1>5. m - 1 \in S
  <2>1. SUFFICES ASSUME m - 1 \in T PROVE FALSE
    BY <1>4
  <2>2. <<m - 1, m>> \in Less
    BY <1>4
  <2> QED BY <2>1, <2>2, <1>3
<1> QED BY <1>4, <1>5

\* One more wave.
More(w) ==
  LET discovered == {q \in Packet \ w.found : plan[q] \cap w.frontier # {}}
  IN  [found |-> w.found \cup discovered, frontier |-> discovered]

Waves(wave, p, N) ==
  wave = [n \in 0..N |-> IF n = 0 THEN [found |-> {}, frontier |-> {p}] ELSE More(wave[n - 1])]

\* There are waves up to any bound.
LEMMA WavesExist ==
  ASSUME NEW p, NEW N \in Nat
  PROVE  \E wave : Waves(wave, p, N)
<1> DEFINE S == {n \in Nat : \E wave : Waves(wave, p, n)}
<1>1. 0 \in S
  <2> DEFINE wave == [n \in 0..0 |-> [found |-> {}, frontier |-> {p}]]
  <2>1. wave = [n \in 0..0 |-> IF n = 0 THEN [found |-> {}, frontier |-> {p}] ELSE More(wave[n - 1])]
    OBVIOUS
  <2> HIDE DEF wave
  <2>2. Waves(wave, p, 0)
    BY <2>1 DEF Waves
  <2> QED BY <2>2
<1>2. ASSUME NEW n \in 0..N, n < N, n \in S PROVE n + 1 \in S
  <2>1. PICK wave : Waves(wave, p, n)
    BY <1>2
  <2> DEFINE next == [k \in 0..n + 1 |-> IF k <= n THEN wave[k] ELSE More(wave[n])]
  <2>2. \A k \in 0..n : next[k] = wave[k]
    OBVIOUS
  <2>3. next = [k \in 0..n + 1 |-> IF k = 0 THEN [found |-> {}, frontier |-> {p}] ELSE More(next[k - 1])]
    <3>1. ASSUME NEW k \in 0..n + 1
          PROVE  next[k] = IF k = 0 THEN [found |-> {}, frontier |-> {p}] ELSE More(next[k - 1])
      <4>1. CASE k = 0
        BY <2>1, <4>1 DEF Waves
      <4>2. CASE k \in 1..n
        <5>1. k - 1 \in 0..n /\ k \in 0..n /\ k # 0
          BY <4>2
        <5>2. next[k - 1] = wave[k - 1] /\ next[k] = wave[k]
          BY <5>1, <2>2
        <5>3. wave[k] = More(wave[k - 1])
          BY <5>1, <2>1 DEF Waves
        <5> QED BY <5>1, <5>2, <5>3
      <4>3. CASE k = n + 1
        <5>1. k - 1 = n /\ k # 0 /\ ~(k <= n)
          BY <4>3
        <5>2. next[k] = More(wave[n]) /\ next[k - 1] = wave[n]
          BY <5>1, <2>2
        <5> QED BY <5>1, <5>2
      <4> QED BY <4>1, <4>2, <4>3
    <3> DEFINE right == [k \in 0..n + 1 |->
                           IF k = 0 THEN [found |-> {}, frontier |-> {p}] ELSE More(next[k - 1])]
    <3>2. DOMAIN next = 0..n + 1 /\ next = [k \in 0..n + 1 |-> next[k]]
      OBVIOUS
    <3> HIDE DEF next
    <3>3. [k \in 0..n + 1 |-> next[k]] = right
      BY <3>1
    <3> QED BY <3>2, <3>3
  <2> HIDE DEF next
  <2>4. Waves(next, p, n + 1)
    BY <2>3 DEF Waves
  <2> QED BY <2>4
<1> HIDE DEF S
<1>3. N \in S
  BY <1>1, <1>2, InductionTo
<1> QED BY <1>3 DEF S

\* What the loop finds is what its last wave has found.
LEMMA FrontierIsLastWave ==
  ASSUME NEW p
  PROVE  \E wave : Waves(wave, p, Cardinality(Packet))
                   /\ Frontier(p) = wave[Cardinality(Packet)].found
<1> DEFINE N == Cardinality(Packet)
<1>1. N \in Nat
  BY PacketsAreFinite, FS_CardinalityType
<1> DEFINE chosen == CHOOSE wave : Waves(wave, p, N)
<1>2. Waves(chosen, p, N)
  BY <1>1, WavesExist
<1>3. Frontier(p) = chosen[N].found
  BY DEF Frontier, Waves, More
<1> QED BY <1>2, <1>3

\* What is known after n waves: everything found is a descendant, whatever depends on something
\* found before this wave is found, and every wave has found a packet while there are new ones.
WaveHolds(w, p, n) ==
  /\ w.found \subseteq Descendants(p)
  /\ w.frontier \subseteq w.found \cup {p}
  /\ \A x \in (w.found \cup {p}) \ w.frontier : \A q \in Packet :
       x \in plan[q] => q \in w.found
  /\ w.frontier # {} => Cardinality(w.found) >= n

\* Each wave keeps it.
LEMMA WaveKeeps ==
  ASSUME NEW p \in Packet, NEW n \in Nat, NEW w, WaveHolds(w, p, n)
  PROVE  WaveHolds(More(w), p, n + 1)
<1> DEFINE new == {q \in Packet \ w.found : plan[q] \cap w.frontier # {}}
<1>1. More(w).found = w.found \cup new /\ More(w).frontier = new
  BY DEF More
<1>2. \A q \in new : q \in Descendants(p)
  BY DescendantsClosed DEF WaveHolds
<1>3. \A x \in (w.found \cup new \cup {p}) \ new : \A q \in Packet :
        x \in plan[q] => q \in w.found \cup new
  BY DEF WaveHolds
<1>4. ASSUME new # {} PROVE Cardinality(w.found \cup new) >= n + 1
  <2>1. PICK q \in new : TRUE
    BY <1>4
  <2>2. Cardinality(w.found) >= n
    BY <1>4 DEF WaveHolds
  <2>3. /\ w.found \in SUBSET Packet /\ w.found \cup new \in SUBSET Packet
        /\ w.found \cup {q} \in SUBSET (w.found \cup new) /\ q \notin w.found
    BY <2>1 DEF WaveHolds, Descendants
  <2> HIDE DEF new
  <2>4. IsFiniteSet(w.found) /\ IsFiniteSet(w.found \cup new)
    BY <2>3, PacketsAreFinite, FS_Subset
  <2>5. Cardinality(w.found \cup {q}) = Cardinality(w.found) + 1
    BY <2>3, <2>4, FS_AddElement
  <2>6. Cardinality(w.found \cup {q}) <= Cardinality(w.found \cup new)
    BY <2>3, <2>4, FS_Subset
  <2>7. Cardinality(w.found) \in Nat /\ Cardinality(w.found \cup new) \in Nat
    BY <2>4, FS_CardinalityType
  <2> QED BY <2>2, <2>5, <2>6, <2>7
<1>5. w.found \cup new \subseteq Descendants(p) /\ new \subseteq w.found \cup new \cup {p}
  BY <1>2 DEF WaveHolds
<1> HIDE DEF new
<1> QED BY <1>1, <1>3, <1>4, <1>5 DEF WaveHolds

\* As many waves as there are packets find all descendants.
LEMMA WavesFindAll ==
  ASSUME NEW p \in Packet
  PROVE  Frontier(p) = Descendants(p)
<1> DEFINE N == Cardinality(Packet)
<1>1. N \in Nat
  BY PacketsAreFinite, FS_CardinalityType
<1>2. PICK wave : Waves(wave, p, N) /\ Frontier(p) = wave[N].found
  BY FrontierIsLastWave
<1> DEFINE S == {n \in 0..N : WaveHolds(wave[n], p, n)}
<1>3. 0 \in S
  <2>1. wave[0] = [found |-> {}, frontier |-> {p}]
    BY <1>1, <1>2 DEF Waves
  <2> QED BY <1>1, <2>1, FS_EmptySet DEF WaveHolds
<1>4. ASSUME NEW n \in 0..N, n < N, n \in S PROVE n + 1 \in S
  <2>1. wave[n + 1] = More(wave[n])
    <3>1. n + 1 \in 0..N /\ n + 1 # 0 /\ (n + 1) - 1 = n
      BY <1>1, <1>4
    <3> QED BY <3>1, <1>2 DEF Waves
  <2> QED BY <1>1, <1>4, <2>1, WaveKeeps
<1>5. WaveHolds(wave[N], p, N)
  <2>1. N \in 0..N
    BY <1>1
  <2>2. N \in S
    <3> HIDE DEF S
    <3> QED BY <1>1, <1>3, <1>4, <2>1, InductionTo
  <2> QED BY <2>2
<1> DEFINE found == wave[N].found
<1>6. found \subseteq Descendants(p) /\ found \in SUBSET Packet
  BY <1>5 DEF WaveHolds, Descendants
<1>7. CASE wave[N].frontier = {}
  <2>1. \A x \in Packet : plan[x] \cap (found \cup {p}) # {} => x \in found
    BY <1>5, <1>7 DEF WaveHolds
  <2>2. Descendants(p) \subseteq found
    BY <1>6, <2>1 DEF Descendants
  <2> QED BY <1>2, <1>6, <2>2
<1>8. CASE wave[N].frontier # {}
  <2>1. Cardinality(found) >= N
    BY <1>5, <1>8 DEF WaveHolds
  <2>2. Cardinality(found) <= N /\ (Cardinality(Packet) = Cardinality(found) => Packet = found)
    BY <1>6, PacketsAreFinite, FS_Subset
  <2>3. Cardinality(found) \in Nat
    BY <1>6, PacketsAreFinite, FS_Subset, FS_CardinalityType
  <2>4. found = Packet
    BY <1>1, <2>1, <2>2, <2>3
  <2> QED BY <1>2, <1>6, <2>4 DEF Descendants
<1> QED BY <1>7, <1>8

\* The waves of reopen_packet find exactly the packets that depend on the reopened one,
\* directly or not, for every plan of any size.
THEOREM WavesFindDescendants == Spec => []FrontierFindsDescendants
<1>1. FrontierFindsDescendants
  BY WavesFindAll DEF FrontierFindsDescendants
<1> QED BY <1>1, PTL
=============================================================================
