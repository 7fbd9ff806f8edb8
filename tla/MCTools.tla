------------------------------ MODULE MCTools ------------------------------
(* The tools around the durable session, the protocols of the skills and   *)
(* the release for TLC.  They share nothing, so a behaviour is about one    *)
(* of them, its focus; the others stay in an initial state of theirs.       *)
EXTENDS Batch, AgentPlan, LiveRun, Rollouts, PacketPlan, Protocols, ReleaseWitness, TLC

CONSTANTS
  Focus,   \* the tools to explore
  d1, d2, x, y,            \* Batch
  c1, c2, t1, t2, t3, v1, v2   \* ReleaseWitness

TwoDirs == {d1, d2}
TwoConfigs == {x, y}

VARIABLE focus
-----------------------------------------------------------------------------
(* Planning inputs, of three units.                                        *)

Paths == {<<"a">>, <<"a", "b">>, <<"a", "c">>}

AUnit(role, owned, deps, ready) ==
  [role |-> role, owned |-> owned, deps |-> deps, ready |-> ready,
   red |-> role = "test-writer"]

Signals == [phase |-> "implement", delegable |-> TRUE, authorized |-> TRUE, packets |-> TRUE,
            wanted |-> FALSE, slots |-> 3, completed |-> {}, retry |-> None, attempts |-> 0,
            units |-> [u \in Unit |-> AUnit("reader", {}, {}, TRUE)]]

\* Every dependency graph, the cyclic ones included.
Investigations ==
  {[Signals EXCEPT !.phase = "diagnose", !.slots = s, !.completed = c,
                   !.units = [u \in Unit |-> AUnit("reader", {<<"a">>}, deps[u], TRUE)]] :
     s \in 2..4, c \in {{}, {1}}, deps \in [Unit -> SUBSET Unit]}

Retries ==
  {[Signals EXCEPT !.phase = ph, !.wanted = w, !.retry = rt, !.attempts = n, !.completed = c] :
     ph \in {"diagnose", "verify"}, rt \in {None, 2}, n \in 0..1, w \in BOOLEAN,
     c \in {{}, {1, 2}, Unit}}

Roles == ({"executor", "test-writer"} \X {{path} : path \in Paths}) \cup {<<"reader", {}>>}

Changes ==
  {[Signals EXCEPT !.slots = s, !.packets = k, !.authorized = g,
                   !.units = [u \in Unit |-> AUnit(f[u][1], f[u][2], deps[u], TRUE)]] :
     s \in {3, 4}, k \in {TRUE}, g \in {TRUE}, f \in [Unit -> Roles],
     deps \in {<<{}, {}, {}>>, <<{}, {1}, {2}>>, <<{3}, {}, {}>>, <<{}, {}, {1}>>}}

\* Two packets that own neighbouring files; the third unit is not ready.
TwoPackets ==
  {[Signals EXCEPT !.units = <<AUnit("executor", {<<"a", "b">>}, {}, TRUE),
                               AUnit("executor", {<<"a", "c">>}, {}, TRUE),
                               AUnit("executor", {<<"a">>}, {}, FALSE)>>]}

AllInputs == Investigations \cup Retries \cup Changes \cup TwoPackets
-----------------------------------------------------------------------------
(* Packet plans.                                                           *)

Packet(id, owned, deps) == [id |-> id, owned |-> owned, deps |-> deps]
Spelt(name, spelling) == [name |-> name, spelling |-> spelling]
Named(name) == [name |-> name, stable |-> name # "d."]

\* Three packets with disjoint paths, over every kind of dependency list: cycles,
\* repetitions, packets that are not there and ids that are not stable.
Dependencies == {<<>>, <<Named("a")>>, <<Named("b")>>, <<Named("c")>>, <<Named("d.")>>,
                 <<Named("a"), Named("b")>>, <<Named("b"), Named("a")>>, <<Named("b"), Named("c")>>,
                 <<Named("c"), Named("a")>>, <<Named("a"), Named("a")>>, <<Named("a"), Named("b"), Named("c")>>}

X == Spelt("x", "plain")
Y == Spelt("y", "plain")
OtherX == Spelt("x", "other")

Graphs ==
  {<<Packet(Named("a"), <<<<X>>>>, p), Packet(Named("b"), <<<<Y, X>>>>, q),
     Packet(Named("c"), <<<<Y, Y>>>>, r)>> :
     p \in Dependencies, q \in Dependencies, r \in Dependencies}

OwnedPaths == {<<>>, <<X>>, <<Y>>, <<OtherX>>, <<X, Y>>, <<OtherX, Y>>, <<Y, X>>,
               <<X, Spelt("y", "unsafe")>>}
OwnedLists == {<<>>} \cup {<<p>> : p \in OwnedPaths} \cup {<<p, q>> : p \in OwnedPaths, q \in OwnedPaths}

\* Two packets that own up to two paths each, and the empty plan.
Ownerships ==
  {<<Packet(Named("a"), p, <<>>), Packet(Named("b"), q, <<Named("a")>>)>> :
     p \in OwnedLists, q \in OwnedLists}
  \cup {<<Packet(Named("a"), p, <<>>), Packet(id, <<<<Y, X>>>>, <<>>)>> :
          p \in OwnedLists, id \in {Named("a"), Named("d.")}}
  \cup {<<>>}

MarkdownPlans == Graphs \cup Ownerships
-----------------------------------------------------------------------------
(* Protocols of the skills.                                                *)

EventLists == {<<"e", "e">>, <<"e", "f">>}

HypothesisReports ==
  [key : 1..2, confidence : {0, 2}, evidence : {{}, {"u"}, {"v"}}]

\* Two problems under one key, that key on another axis, and another one.
IssueReports ==
  {[key |-> 1, axis |-> "contract", severity |-> 0, confidence |-> 2, problem |-> "p", evidence |-> {}],
   [key |-> 1, axis |-> "contract", severity |-> 2, confidence |-> 1, problem |-> "q", evidence |-> {"u"}],
   [key |-> 1, axis |-> "quality", severity |-> 1, confidence |-> 1, problem |-> "p", evidence |-> {"u"}],
   [key |-> 2, axis |-> "quality", severity |-> 2, confidence |-> 1, problem |-> "q", evidence |-> {"v"}]}

PassReports ==
  [axis : {"contract", "quality"}, verdict : {"confirmed", "failed", "inconclusive"},
   evidence : {{}, {"u"}}]

\* Three items, of which one is more wanted, and an expired one; budgets at whose edge a
\* separator or part of an item fits.
Texts == {<<>>, <<" ", "k">>, <<"w", "w", "w">>, <<"k", "w", "k">>}

Offered(id, text, expired, priority) ==
  [id |-> id, text |-> text, expired |-> expired, priority |-> priority]

Offerings ==
  {<<Offered("a", p, FALSE, 0), Offered("b", q, FALSE, 1), Offered("c", r, FALSE, 0)>> :
     p \in Texts, q \in Texts, r \in {<<>>, <<"k", "w", "k">>}}
  \cup {<<Offered("a", p, FALSE, 0), Offered(id, p, TRUE, 0)>> : p \in Texts, id \in {"a", "b"}}

SmallBudgets == [chars : {1, 6}, items : {2, 3}]

\* Plug-ins that reorder, repeat, drop, rewrite, rename and bring back items, and that lie
\* about what they decided.
Turned(s) == [k \in DOMAIN s |-> s[Len(s) + 1 - k]]
Dropped(s, i) == Only(s, DOMAIN s \ {i})

OtherProcessors(items, given) ==
  {items, Turned(items), given, items \o items}
  \cup {Dropped(items, i) : i \in DOMAIN items}
  \cup {[items EXCEPT ![i].text = <<"k">>] : i \in DOMAIN items}
  \cup {[items EXCEPT ![i].id = "other"] : i \in DOMAIN items}

OtherSelectors(items, s) ==
  (IF s.decisions = <<>> THEN {} ELSE {[s EXCEPT !.decisions = Dropped(@, 1)]})
  \cup {[s EXCEPT !.decisions = Turned(@)], [s EXCEPT !.items = Turned(@)],
        [s EXCEPT !.items = @ \o @]}
  \cup {[s EXCEPT !.items = Dropped(@, i)] : i \in DOMAIN s.items}
  \cup {[s EXCEPT !.items[i].text = t] : i \in DOMAIN s.items, t \in {<<>>, <<"k", "k", "k">>}}
  \cup {[s EXCEPT !.items[i].id = "other"] : i \in DOMAIN s.items}
  \cup {[s EXCEPT !.items = Append(@, [items[i] EXCEPT !.text = <<"k">>])] : i \in DOMAIN items}
  \cup {[s EXCEPT !.decisions[i].status = st] :
          i \in DOMAIN s.decisions, st \in {"included", "truncated", "excluded"}}
  \cup {[s EXCEPT !.decisions[i].selected = n] : i \in DOMAIN s.decisions, n \in 0..1}
  \cup {[s EXCEPT !.decisions[i].consumed = TRUE] : i \in DOMAIN s.decisions}
-----------------------------------------------------------------------------
(* The release.  t2 is t1 with a file that git ignores.                     *)

TwoCommits == {c1, c2}
ThreeTrees == {t1, t2, t3}
TwoTags == {v1, v2}
CheckoutsOf == c1 :> {t1, t2} @@ c2 :> {t3}
Versions == t1 :> v1 @@ t2 :> v1 @@ t3 :> v2

\* Somebody works on the tree between the looks of the offline commands, or moves tags.
ReleaseBounds ==
  /\ focus = "witness" => moves.tags = 0 /\ (job # None => ~\E i \in DOMAIN job.todo : job.todo[i] = "live")
  /\ focus = "retags" => moves.repo <= 1
-----------------------------------------------------------------------------
NoPacketPlan == packetPlan = <<>> /\ compiled = "unread" /\ validated = "unread"

MCInit ==
  /\ focus \in Focus
  /\ focus # "plan" => input = CHOOSE i \in Input : TRUE
  /\ BatchInit /\ PlanInit /\ RunInit /\ RolloutsInit
  /\ LifecycleInit /\ ResearchInit /\ SynthesesInit /\ PipelineInit /\ ReleaseInit
  /\ focus \notin {"witness", "retags"} => repo.tree = t1
  /\ IF focus = "packets" THEN PacketPlanInit ELSE NoPacketPlan

MCNext ==
  /\ UNCHANGED focus
  /\ IF focus = "batch" THEN BatchNext ELSE UNCHANGED batchVars
  /\ IF focus = "plan" THEN PlanNext ELSE UNCHANGED planVars
  /\ IF focus = "live" THEN RunNext ELSE UNCHANGED runVars
  /\ IF focus = "rollouts" THEN RolloutsNext ELSE UNCHANGED rolloutVars
  /\ IF focus = "capabilities" THEN LifecycleNext ELSE UNCHANGED lifecycleVars
  /\ IF focus = "studies" THEN ResearchNext ELSE UNCHANGED researchVars
  /\ IF focus = "reports" THEN SynthesesNext ELSE UNCHANGED synthesesVars
  /\ IF focus = "context" THEN PipelineNext ELSE UNCHANGED pipelineVars
  /\ IF focus \in {"witness", "retags"} THEN ReleaseNext /\ ReleaseBounds'
     ELSE UNCHANGED releaseVars
  /\ IF focus = "packets" THEN PacketPlanNext ELSE UNCHANGED packetPlanVars

MCSpec ==
  MCInit /\ [][MCNext]_<<focus, batchVars, planVars, runVars, rolloutVars, lifecycleVars,
                    researchVars, synthesesVars, pipelineVars, releaseVars, packetPlanVars>>
=============================================================================
