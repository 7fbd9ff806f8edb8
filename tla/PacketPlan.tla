----------------------------- MODULE PacketPlan -----------------------------
(* What a packet plan has to be: compile_markdown (plan_compiler.py) turns    *)
(* Markdown into a plan, and plan-packets (work_state.py) validates the plan  *)
(* again, with code of its own, before a session takes it.  Packets has what  *)
(* is then done with an accepted plan.                                        *)
EXTENDS Naturals, SequencesExt

CONSTANTS
  PacketName,    \* what packets may be called
  FileName,      \* what files and directories may be called
  PacketPlans    \* the plans to explore: sequences of packets

VARIABLES
  packetPlan,
  compiled,   \* what compile_markdown says of it: "unread", "refused" or "accepted"
  validated       \* what plan-packets says of it

packetPlanVars == <<packetPlan, compiled, validated>>
-----------------------------------------------------------------------------
\* An identifier is stable or is one that sanitize_identifier would change, such as
\* "a." or a device name.
Identifier == [name : PacketName, stable : BOOLEAN]

\* A component of a path has a name, and a spelling of it: as the file system has it, in
\* another case or composition, or one that Windows reads as another name.
Component == [name : FileName, spelling : {"plain", "other", "unsafe"}]

\* The path "." has no components.
PlannedPacket == [id : Identifier, owned : Seq(Seq(Component)), deps : Seq(Identifier)]

ASSUME PacketPlanConstants == PacketPlans \subseteq Seq(PlannedPacket)
-----------------------------------------------------------------------------
(* Paths.                                                                  *)

\* Mutant: components are compared as they are spelled.
MutFold(path) == path

\* _fold_path_parts: case and composition are folded on every platform.
Fold(path) == [k \in DOMAIN path |-> path[k].name]

\* _paths_overlap: they agree as far as both go.
PathsOverlap(left, right) ==
  LET shortest == IF Len(left) < Len(right) THEN Len(left) ELSE Len(right) IN
  SubSeq(Fold(left), 1, shortest) = SubSeq(Fold(right), 1, shortest)

UnsafeComponent(component) == component.spelling = "unsafe"

\* _normalize_owned_path accepts it: in plan-packets "." is not a path.
SafePath(path) == \A k \in DOMAIN path : ~UnsafeComponent(path[k])
OwnablePath(path) == path # <<>> /\ SafePath(path)

OverlapWithin(paths) ==
  \E i, j \in DOMAIN paths : i < j /\ PathsOverlap(paths[i], paths[j])

OverlapBetween(packets) ==
  \E i, j \in DOMAIN packets : i < j /\
    \E k \in DOMAIN packets[i].owned, l \in DOMAIN packets[j].owned :
      PathsOverlap(packets[i].owned[k], packets[j].owned[l])
-----------------------------------------------------------------------------
(* Dependencies.                                                           *)

IdsIn(packets) == {packets[i].id : i \in DOMAIN packets}
DependenciesOf(packets, id) == packets[CHOOSE i \in DOMAIN packets : packets[i].id = id].deps

\* What visit has come to; when it meets a packet that is being visited it raises.
Search(packets) ==
  [visiting : SUBSET IdsIn(packets), visited : SUBSET IdsIn(packets), cycle : BOOLEAN]

\* One after the other, each from where the last one ended.
InTurn(visit, search, ids) ==
  LET after[k \in 0..Len(ids)] ==
        IF k = 0 THEN search ELSE visit[<<after[k - 1], ids[k]>>] IN
  after[Len(ids)]

\* visit, depth first: deeper is how it visits the dependencies.
Visit(packets, deeper, search, id) ==
  IF search.cycle \/ id \in search.visiting THEN [search EXCEPT !.cycle = TRUE]
  ELSE IF id \in search.visited THEN search
  ELSE LET below == InTurn(deeper, [search EXCEPT !.visiting = @ \cup {id}],
                           DependenciesOf(packets, id)) IN
       [below EXCEPT !.visiting = @ \ {id}, !.visited = @ \cup {id}]

\* Where all packets but n are being visited.  With none left, a visit is to one of these.
Visits(packets) ==
  LET visits[n \in 0..Len(packets)] ==
        [at \in Search(packets) \X IdsIn(packets) |->
           IF n = 0 THEN [at[1] EXCEPT !.cycle = TRUE]
           ELSE Visit(packets, visits[n - 1], at[1], at[2])] IN
  visits

Cyclic(packets) ==
  InTurn(Visits(packets)[Len(packets)], [visiting |-> {}, visited |-> {}, cycle |-> FALSE],
         [i \in DOMAIN packets |-> packets[i].id]).cycle

\* Known, not the packet itself, and without a cycle.
GraphHolds(packets) ==
  /\ \A i \in DOMAIN packets : \A k \in DOMAIN packets[i].deps :
       packets[i].deps[k] \in IdsIn(packets) \ {packets[i].id}
  /\ ~Cyclic(packets)

IdsDiffer(packets) == \A i, j \in DOMAIN packets : packets[i].id = packets[j].id => i = j
-----------------------------------------------------------------------------
\* The compiler's _normalize_owned_path takes "." as well.
CompilablePath(path) == SafePath(path)

\* _build_packet; it takes identifiers that end in a dot.
Builds(packet) ==
  /\ packet.owned # <<>>
  /\ \A k \in DOMAIN packet.owned : CompilablePath(packet.owned[k])
  /\ ~OverlapWithin(packet.owned)
  /\ IsInjective(packet.owned) /\ IsInjective(packet.deps)

\* _validate_graph.
CompiledGraphHolds(packets) == GraphHolds(packets) /\ ~OverlapBetween(packets)

\* compile_markdown: each packet as it is built, then the graph.
Compiles(packets) ==
  /\ packets # <<>>
  /\ \A i \in DOMAIN packets : Builds(packets[i])
  /\ IdsDiffer(packets)
  /\ CompiledGraphHolds(packets)

\* _validate_packet_plan.
ValidPacketPlan(packets) ==
  /\ packets # <<>>
  /\ IdsDiffer(packets)
  /\ \A i \in DOMAIN packets :
       /\ packets[i].id.stable
       /\ packets[i].owned # <<>>
       /\ \A k \in DOMAIN packets[i].owned : OwnablePath(packets[i].owned[k])
       /\ ~OverlapWithin(packets[i].owned)
       /\ IsInjective(packets[i].owned) /\ IsInjective(packets[i].deps)
  /\ GraphHolds(packets)
  /\ ~OverlapBetween(packets)

PacketPlanInit == packetPlan \in PacketPlans /\ compiled = "unread" /\ validated = "unread"

CompileMarkdown ==
  /\ compiled = "unread" /\ validated = "unread"
  /\ compiled' = IF Compiles(packetPlan) THEN "accepted" ELSE "refused"
  /\ UNCHANGED <<packetPlan, validated>>

\* plan-packets of what was compiled, or of a plan that somebody wrote as JSON.
TakePlan ==
  /\ validated = "unread" /\ compiled # "refused"
  /\ validated' = IF ValidPacketPlan(packetPlan) THEN "accepted" ELSE "refused"
  /\ UNCHANGED <<packetPlan, compiled>>

PacketPlanNext == CompileMarkdown \/ TakePlan

PacketPlanSpec == PacketPlanInit /\ [][PacketPlanNext]_packetPlanVars
-----------------------------------------------------------------------------
(* The reference: the packets can be put in an order, and no file has two   *)
(* owners on a file system that folds names.                                *)

NeedsPacket(i, j) ==
  \E k \in DOMAIN packetPlan[i].deps : packetPlan[i].deps[k] = packetPlan[j].id

Orderable ==
  \E order \in [DOMAIN packetPlan -> DOMAIN packetPlan] :
    /\ IsInjective(order)
    /\ \A i, j \in DOMAIN packetPlan : NeedsPacket(i, j) => order[j] < order[i]

\* A file system finds a file by the names of its directories, in any spelling.
Resolved(path) == [k \in DOMAIN path |-> path[k].name]

PathsOf(i) == {packetPlan[i].owned[k] : k \in DOMAIN packetPlan[i].owned}

\* The files as deep as some path; below them nothing else is decided.
Files ==
  UNION {[1..Len(path) -> FileName] : path \in UNION {PathsOf(i) : i \in DOMAIN packetPlan}}
OwnersOf(file) ==
  {i \in DOMAIN packetPlan : \E path \in PathsOf(i) : IsPrefix(Resolved(path), file)}

OneOwner == \A file \in Files : \A i, j \in OwnersOf(file) : i = j

\* What is asked of each packet by itself.
EachIsWellFormed ==
  \A i \in DOMAIN packetPlan :
    LET packet == packetPlan[i] IN
    /\ packet.id.stable
    /\ packet.owned # <<>> /\ \A path \in PathsOf(i) : OwnablePath(path)
    /\ \A k, l \in DOMAIN packet.owned : k # l =>
         ~IsPrefix(Resolved(packet.owned[k]), Resolved(packet.owned[l]))
    /\ \A k \in DOMAIN packet.deps : packet.deps[k] \in IdsIn(packetPlan)
    /\ IsInjective(packet.deps)

SoundPlan ==
  /\ packetPlan # <<>> /\ IdsDiffer(packetPlan)
  /\ EachIsWellFormed /\ Orderable /\ OneOwner

\* plan-packets accepts a plan exactly when its packets are well formed, can be done in
\* an order and share no file; the compiler refuses no such plan, and lets through
\* besides only identifiers and the path "." that plan-packets does not take.
PacketPlanIsSound ==
  /\ validated # "unread" => (validated = "accepted" <=> SoundPlan)
  /\ compiled = "refused" => ~SoundPlan
  /\ compiled = "accepted" /\ validated = "refused" =>
       \E i \in DOMAIN packetPlan : ~packetPlan[i].id.stable \/ <<>> \in PathsOf(i)
=============================================================================
