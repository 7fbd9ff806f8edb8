------------------------------ MODULE LiveRun ------------------------------
(* One process of live_ab_runner.py: it freezes the identity of the plugin  *)
(* and of the fixture, copies the homes and the fixture for every session,  *)
(* lets the two arms work one after the other, judges each result in clones *)
(* of it, and writes its evidence before it removes its work directory.     *)
(*                                                                          *)
(* What a tree holds is a version: an edit gives it the next one, or the    *)
(* newest, as an upgrade of source and homes does; no tree returns to an    *)
(* older version.                                                           *)
EXTENDS Naturals, Sequences, Absence

CONSTANTS
  LastRep,    \* repetitions of the pair of arms
  MaxVersions    \* bound: versions made by somebody else

ASSUME RunBounds == LastRep \in Nat \ {0} /\ MaxVersions \in Nat
ASSUME NoneIsNoWork == None \notin {"kept", "gone"}

Arm == {"baseline", "candidate"}
Root == Arm \cup {"source", "fixture"}   \* the two source homes, the plugin, the fixture
File == {"results", "receipts", "summary"}

VARIABLES
  at,        \* the step the runner is about to take
  world,     \* the version of every root
  newest,     \* the newest version
  taken,    \* what the runner took down before it began: plugin, guards, fixture
  homes,     \* the copied homes of this repetition
  tree,      \* the fixture copy of the running arm
  clones,    \* the copies its result is judged in
  draft,     \* what is known of the running arm
  armResults,   \* the results so far
  todo,      \* the arms of this repetition that have not run
  rep,
  written,     \* evidence in the output directory
  work,      \* the work directory: None, "kept" or "gone"
  exit

runVars == <<at, world, newest, taken, homes, tree, clones, draft, armResults, todo, rep, written, work, exit>>

NoHomes == [a \in Arm |-> None]
-----------------------------------------------------------------------------
(* A home has the plugin of the source, file for file.                     *)
Installed(version) == version = world["source"]

(* The plugin that two homes have in common with the source, or None.      *)
ArmPlugins(home) ==
  IF \A a \in Arm : Installed(home[a]) THEN world["source"] ELSE None

Changed(t) == t.work   \* the paths in which a result differs from its fixture

Stop(code) ==
  /\ exit' = code
  /\ at' = IF work = None THEN "done" ELSE "clean"

(* Anything that raises: the run has no evidence, its work is kept.        *)
Fail ==
  /\ Stop(2)
  /\ UNCHANGED <<world, newest, taken, homes, tree, clones, draft, armResults, todo, rep, written, work>>

Proceed(next) == at' = next /\ UNCHANGED exit
-----------------------------------------------------------------------------
RunInit ==
  /\ at = "preflight" /\ newest = 0 /\ exit = None
  /\ world = [r \in Root |-> 0]
  /\ taken = [plugin |-> None, guards |-> None, fixture |-> None]
  /\ homes = NoHomes /\ tree = None /\ clones = None /\ draft = None
  /\ armResults = <<>> /\ todo = <<>> /\ rep = 0
  /\ written = {} /\ work = None

(* Layout, protocol, contract and checks are in order, and both source     *)
(* homes hold the plugin of the source.                                    *)
Preflight ==
  /\ at = "preflight"
  /\ ArmPlugins(world) # None
  /\ taken' = [taken EXCEPT !.plugin = ArmPlugins(world)]
  /\ Proceed("guard")
  /\ UNCHANGED <<world, newest, homes, tree, clones, draft, armResults, todo, rep, written, work>>

SnapshotGuards ==
  /\ at = "guard"
  /\ taken' = [taken EXCEPT !.guards = world]
  /\ Proceed("hash")
  /\ UNCHANGED <<world, newest, homes, tree, clones, draft, armResults, todo, rep, written, work>>

HashFixture ==
  /\ at = "hash"
  /\ taken' = [taken EXCEPT !.fixture = world["fixture"]]
  /\ Proceed("create")
  /\ UNCHANGED <<world, newest, homes, tree, clones, draft, armResults, todo, rep, written, work>>

CreateWorkdir ==
  /\ at = "create"
  /\ work' = "kept" /\ rep' = 1
  /\ Proceed("homes")
  /\ UNCHANGED <<world, newest, taken, homes, tree, clones, draft, armResults, todo, written>>

(* Both homes are copied anew for every repetition.                        *)
CopyHome(a) ==
  /\ at = "homes" /\ homes[a] = None
  /\ a = "candidate" => homes["baseline"] # None
  /\ homes' = [homes EXCEPT ![a] = world[a]]
  /\ Proceed(IF a = "candidate" THEN "check" ELSE "homes")
  /\ UNCHANGED <<world, newest, taken, tree, clones, draft, armResults, todo, rep, written, work>>

CheckHomes ==
  /\ at = "check"
  /\ ArmPlugins(homes) = taken.plugin
  /\ todo' \in {<<"baseline", "candidate">>, <<"candidate", "baseline">>}
  /\ Proceed("copy")
  /\ UNCHANGED <<world, newest, taken, homes, tree, clones, draft, armResults, rep, written, work>>

CopyFixture ==
  /\ at = "copy" /\ todo # <<>>
  /\ world["fixture"] = taken.fixture
  /\ tree' = [version |-> world["fixture"], work |-> {}, late |-> 0]
  /\ draft' = [arm |-> Head(todo), fixture |-> world["fixture"]]
  /\ Proceed("session")
  /\ UNCHANGED <<world, newest, taken, homes, clones, armResults, todo, rep, written, work>>
-----------------------------------------------------------------------------
(* One arm: the session, and the judgement of what it left.                *)

(* The session ends in time and its events and rollouts can be read.       *)
Session ==
  /\ at = "session"
  /\ \E made \in {{}, {"allowed"}, {"other"}}, ok \in BOOLEAN :
       /\ tree' = [tree EXCEPT !.work = @ \cup made]
       /\ draft' = [arm |-> draft.arm, fixture |-> draft.fixture,
                    plugin |-> homes[draft.arm], ok |-> ok]
  /\ Proceed("measure")
  /\ UNCHANGED <<world, newest, taken, homes, clones, armResults, todo, rep, written, work>>

Measure ==
  /\ at = "measure"
  /\ draft' = [arm |-> draft.arm, fixture |-> draft.fixture, plugin |-> draft.plugin,
               ok |-> draft.ok /\ Changed(tree) \subseteq {"allowed"},
               changed |-> Changed(tree), wasLate |-> tree.late]
  /\ Proceed("clone")
  /\ UNCHANGED <<world, newest, taken, homes, tree, clones, armResults, todo, rep, written, work>>

CloneResult ==
  /\ at = "clone"
  /\ \/ clones = None /\ clones' = [hidden |-> tree] /\ Proceed("clone")
     \/ /\ clones # None
        /\ clones' = [hidden |-> clones.hidden, quality |-> tree]
        /\ Proceed("compare")
  /\ UNCHANGED <<world, newest, taken, homes, tree, draft, armResults, todo, rep, written, work>>

MeasuredTree(t) == clones.hidden = t /\ clones.quality = t

CompareClones ==
  /\ at = "compare"
  /\ MeasuredTree(tree)
  /\ clones' = [hidden |-> clones.hidden, quality |-> clones.quality, measured |-> tree]
  /\ Proceed("evaluate")
  /\ UNCHANGED <<world, newest, taken, homes, tree, draft, armResults, todo, rep, written, work>>

(* The hidden check, then the quality check, each in its own clone.        *)
EvaluateArm ==
  /\ at = "evaluate"
  /\ \E ok \in BOOLEAN : draft' = [draft EXCEPT !.ok = @ /\ ok]
  /\ Proceed("judge")
  /\ UNCHANGED <<world, newest, taken, homes, tree, clones, armResults, todo, rep, written, work>>

\* Mutant: the tree is not compared with the one that was cloned.
MutUnchanged == TRUE

Unchanged == tree = clones.measured

Judge ==
  /\ at = "judge"
  /\ Unchanged
  /\ armResults' = Append(armResults,
       [arm |-> draft.arm, rep |-> rep, plugin |-> draft.plugin, fixture |-> draft.fixture,
        changed |-> draft.changed, wasLate |-> draft.wasLate, success |-> draft.ok,
        hidden |-> clones.hidden, quality |-> clones.quality, left |-> tree])
  /\ todo' = Tail(todo)
  /\ tree' = None /\ clones' = None /\ draft' = None
  /\ Proceed(IF Len(todo) = 1 THEN "recheck" ELSE "copy")
  /\ UNCHANGED <<world, newest, taken, homes, rep, written, work>>
-----------------------------------------------------------------------------
(* After the arms.                                                         *)

HomesHeld == ArmPlugins(homes) = taken.plugin

Recheck ==
  /\ at = "recheck"
  /\ HomesHeld
  /\ homes' = NoHomes
  /\ rep' = IF rep < LastRep THEN rep + 1 ELSE rep
  /\ Proceed(IF rep < LastRep THEN "homes" ELSE "postflight")
  /\ UNCHANGED <<world, newest, taken, tree, clones, draft, armResults, todo, written, work>>

Postflight ==
  /\ at = "postflight"
  /\ ArmPlugins(world) = taken.plugin
  /\ Proceed("guards")
  /\ UNCHANGED <<world, newest, taken, homes, tree, clones, draft, armResults, todo, rep, written, work>>

VerifyGuards ==
  /\ at = "guards"
  /\ world = taken.guards
  /\ Proceed("write")
  /\ UNCHANGED <<world, newest, taken, homes, tree, clones, draft, armResults, todo, rep, written, work>>

NextFile ==
  IF "results" \notin written THEN "results"
  ELSE IF "receipts" \notin written THEN "receipts" ELSE "summary"

WriteEvidence ==
  /\ at = "write"
  /\ written' = written \cup {NextFile}
  /\ Proceed(IF NextFile = "summary" THEN "validate" ELSE "write")
  /\ UNCHANGED <<world, newest, taken, homes, tree, clones, draft, armResults, todo, rep, work>>

ValidateEvidence ==
  /\ at = "validate"
  /\ written = File /\ Len(armResults) = 2 * LastRep
  /\ Stop(IF \A i \in DOMAIN armResults : armResults[i].success THEN 0 ELSE 1)
  /\ UNCHANGED <<world, newest, taken, homes, tree, clones, draft, armResults, todo, rep, written, work>>

Succeeded == exit \in {0, 1}

(* Only a validated run loses its work directory; a cleanup that leaves    *)
(* files behind is an error of its own.                                    *)
Finalize ==
  /\ at = "clean"
  /\ IF Succeeded
     THEN \/ work' = "gone" /\ exit' = exit
          \/ work' = "kept" /\ exit' \in {exit, 2}   \* asked to retain, or the cleanup failed
     ELSE UNCHANGED <<work, exit>>
  /\ at' = "done"
  /\ UNCHANGED <<world, newest, taken, homes, tree, clones, draft, armResults, todo, rep, written>>
-----------------------------------------------------------------------------
(* What others do meanwhile.                                               *)

Executing == at \notin {"clean", "done", "dead"}

Crash ==
  /\ Executing \/ at = "clean"
  /\ at' = "dead"
  /\ UNCHANGED <<world, newest, taken, homes, tree, clones, draft, armResults, todo, rep, written, work, exit>>

(* A source home, the plugin or the fixture is edited.                     *)
EditRoot(r) ==
  /\ Executing
  /\ \E v \in {newest, newest + 1} \cap (1..MaxVersions) :
       /\ v > world[r]
       /\ world' = [world EXCEPT ![r] = v]
       /\ newest' = IF v > newest THEN v ELSE newest
  /\ UNCHANGED <<at, taken, homes, tree, clones, draft, armResults, todo, rep, written, work, exit>>

(* A session, or a process it left behind, edits the plugin of a copied    *)
(* home.                                                                   *)
EditHome(a) ==
  /\ at \in {"session", "measure", "copy", "evaluate", "recheck"} /\ homes[a] # None
  /\ newest < MaxVersions
  /\ homes' = [homes EXCEPT ![a] = newest + 1]
  /\ newest' = newest + 1
  /\ UNCHANGED <<at, world, taken, tree, clones, draft, armResults, todo, rep, written, work, exit>>

(* A process the session left behind, or a check, writes into the result.  *)
WriteLate ==
  /\ at \in {"measure", "clone", "compare", "evaluate", "judge"}
  /\ newest < MaxVersions
  /\ tree' = [tree EXCEPT !.work = @ \cup {"other"}, !.late = newest + 1]
  /\ newest' = newest + 1
  /\ UNCHANGED <<at, world, taken, homes, clones, draft, armResults, todo, rep, written, work, exit>>

RunNext ==
  \/ Preflight \/ SnapshotGuards \/ HashFixture \/ CreateWorkdir
  \/ \E a \in Arm : CopyHome(a)
  \/ CheckHomes \/ CopyFixture \/ Session \/ Measure \/ CloneResult \/ CompareClones
  \/ EvaluateArm \/ Judge \/ Recheck \/ Postflight \/ VerifyGuards \/ WriteEvidence \/ ValidateEvidence
  \/ Finalize
  \/ Executing /\ Fail
  \/ Crash
  \/ \E r \in Root : EditRoot(r)
  \/ \E a \in Arm : EditHome(a)
  \/ WriteLate

RunSpec == RunInit /\ [][RunNext]_runVars
-----------------------------------------------------------------------------
\* Evidence is of one experiment: when the summary is there, each arm of each
\* repetition ran once, on the fixture and with the plugin that were frozen before,
\* and the guarded roots held those very versions then, whatever was edited or
\* upgraded in between.
OneExperiment ==
  "summary" \in written =>
    /\ \A a \in Arm, r \in 1..LastRep :
         \E i \in DOMAIN armResults : armResults[i].arm = a /\ armResults[i].rep = r
    /\ Len(armResults) = 2 * LastRep
    /\ \A i \in DOMAIN armResults :
         armResults[i].plugin = taken.plugin /\ armResults[i].fixture = taken.fixture
    /\ taken.guards = [r \in Root |-> IF r = "fixture" THEN taken.fixture ELSE taken.plugin]

\* The two checks judged the tree that was there when the result was recorded, and the
\* recorded changes are those of that tree unless somebody wrote after they were taken.
JudgedAsLeft ==
  \A i \in DOMAIN armResults :
    /\ armResults[i].hidden = armResults[i].left /\ armResults[i].quality = armResults[i].left
    /\ armResults[i].left.late = armResults[i].wasLate => armResults[i].changed = Changed(armResults[i].left)

\* The work directory is removed only behind complete evidence of a run that ended
\* well, and an exit code below 2 says that the evidence is complete.
WorkOutlivesFailure ==
  /\ work = "gone" => exit \in {0, 1}
  /\ exit \in {0, 1} => written = File /\ Len(armResults) = 2 * LastRep
  /\ exit = 0 => \A i \in DOMAIN armResults : armResults[i].success

LiveRunIsSound == OneExperiment /\ JudgedAsLeft /\ WorkOutlivesFailure
=============================================================================
