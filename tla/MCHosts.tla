------------------------------ MODULE MCHosts ------------------------------
(* A host for TLC: the installation of the plugin, the hooks of its edits,  *)
(* the memory its agents keep, and the evaluation of the workflows it       *)
(* invokes.  They share nothing, so a behaviour is about one, its focus;    *)
(* the others stay in an initial state of theirs.                          *)
EXTENDS EditGate, Activation, Installer, MemoryContext, TLC

CONSTANTS Focus, h1, h2, ana, bo, a, b, c1, c2, v1, v2

TwoHooks == {h1, h2}
TwoAgents == {ana, bo}
TwoSources == {a, b}

\* Hooks, agents and contents are interchangeable.
Symmetry == Permutations(TwoHooks) \cup Permutations(TwoAgents)
            \cup Permutations(TwoSources)

VARIABLE focus
-----------------------------------------------------------------------------
HostSession(events, exit, injected) ==
  [events |-> events, exit |-> exit, injected |-> injected]

\* Silence, a wrong workflow before the right one, throttling, and a session its
\* arm's context did not reach.
HostSessions ==
  {HostSession(<<"end">>, "ok", TRUE),
   HostSession(<<"bad", "good", "end">>, "ok", TRUE),
   HostSession(<<"end">>, "throttled", TRUE),
   HostSession(<<"good", "end">>, "ok", FALSE)}

MemoryRecord(id, scope, expires, supersedes, overlap, confidence) ==
  [id |-> id, scope |-> scope, expires |-> expires, supersedes |-> supersedes,
   overlap |-> overlap, confidence |-> confidence]

TwoRecords == {MemoryRecord(1, "p", 2, {}, 1, 0), MemoryRecord(2, "p", 2, {}, 1, 0)}

\* One that supersedes another and expires before it, one of another scope that claims
\* to supersede a record of this one, and ties to be broken.
FourRecords ==
  {MemoryRecord(1, "p", 2, {}, 1, 0), MemoryRecord(2, "p", 1, {1}, 1, 2),
   MemoryRecord(3, "p", 2, {}, 2, 0), MemoryRecord(1, "q", 2, {3}, 1, 0)}

MemoryRecords == TwoRecords \cup FourRecords

\* Two writers of two records at one time that nobody reads, or one writer and a reader.
Writing ==
  /\ now' = now /\ retrieved' = retrieved
  /\ \A w \in Writer : writer'[w] = None \/ writer'[w].rec \in TwoRecords
Retrieval == \A w \in Writer : writer'[w] = None \/ (w = 1 /\ writer'[w].rec \in FourRecords)

TwoReleases == {c1, c2}
ReleaseVersions == c1 :> v1 @@ c2 :> v2

\* No marketplace and no plugin, where another component is looked at.
InstallParked ==
  /\ host = [reported |-> "plain", personal |-> None]
  /\ profile = [markets |-> <<>>, private |-> None, personal |-> None]
-----------------------------------------------------------------------------
MCInit ==
  /\ focus \in Focus
  /\ Init
  /\ ActivationInit
  /\ focus # "install" => InstallParked
  /\ InstallInit
  /\ MemoryInit

MCNext ==
  /\ UNCHANGED focus
  /\ IF focus = "edits" THEN Next ELSE UNCHANGED gateVars
  /\ IF focus = "evaluation" THEN ActivationNext ELSE UNCHANGED activationVars
  /\ IF focus = "install" THEN InstallNext ELSE UNCHANGED installVars
  /\ CASE focus = "writing" -> MemoryNext /\ Writing
       [] focus = "retrieval" -> MemoryNext /\ Retrieval
       [] OTHER -> UNCHANGED memoryVars

MCSpec == MCInit /\ [][MCNext]_<<focus, gateVars, activationVars, memoryVars, installVars>>
=============================================================================
