---------------------------- MODULE MCArtifacts ----------------------------
(* What is stored, for TLC: artifacts on their way from a provider into the  *)
(* evidence of a criterion, and through the storage collector; the ledger of *)
(* a session, and its bundles.  They share nothing here, so a behaviour is   *)
(* about one of them, its focus; the others stay in an initial state of      *)
(* theirs.                                                                   *)
EXTENDS StorageGC, Evidence, LedgerReplay, TLC

CONSTANTS Focus, s1, s2, c1, d1

TwoSessions == {s1, s2}
OneClient == {c1}
OneDigest == {d1}

Symmetry == Permutations(TwoSessions)
-----------------------------------------------------------------------------
(* Session states: objects, lists and values that differ in type only,      *)
(* nested and under keys that come and go.                                  *)

One == Atom("int", "1")
Text == Atom("str", "1")
Null == Atom("null", "")

Nested == Object([k \in {2} |-> List(<<Object([j \in {1} |-> One]), Null>>)])
TwoStates == {Object([k \in {1} |-> One]), Nested}
SixStates ==
  TwoStates \cup
  {Object([k \in {1, 2} |-> IF k = 1 THEN Text ELSE List(<<One>>)]),
   Object([k \in {2} |-> List(<<One, Null>>)]),
   Object([k \in {2} |-> List(<<Object([j \in {3} |-> Null]), Null>>)]),
   Object([k \in {1} |-> Object([j \in {3} |-> One])])}

PartsOf(nodes) ==
  UNION {{d.keys[k] : k \in DOMAIN d.keys} \cup {d.items[i] : i \in DOMAIN d.items} : d \in nodes}

\* Documents, of which the states are three levels deep.
ThreeDeep ==
  LET second == PartsOf(SixStates)
      third == PartsOf(second) IN
  [n \in 0..3 |-> IF n = 3 THEN SixStates ELSE IF n = 2 THEN second
                  ELSE IF n = 1 THEN third ELSE PartsOf(third)]

VARIABLE focus
-----------------------------------------------------------------------------
\* Six states and no bundles, or two states and bundles.
LedgerBounds ==
  /\ focus = "deltas" => bundles = 0
  /\ focus = "bundles" => /\ state.doc \in TwoStates
                          /\ pending # None => pending.doc \in TwoStates
                          /\ bundle # None => bundle.state.doc \in TwoStates

MCInit ==
  /\ focus \in Focus
  /\ Init
  /\ focus # "storage" => /\ \A s \in Session : dir[s] = Absent
                          /\ \A d \in Digest : object[d] = "absent"
  /\ focus # "evidence" => kind = "artifact"
  /\ EvidenceInit
  /\ LedgerInit /\ LedgerBounds
  /\ focus \notin {"deltas", "bundles"} => state.doc = Nested

MCNext ==
  /\ UNCHANGED focus
  /\ IF focus = "storage" THEN Next ELSE UNCHANGED vars
  /\ IF focus = "evidence" THEN EvidenceNext ELSE UNCHANGED evidenceVars
  /\ IF focus \in {"deltas", "bundles"} THEN LedgerNext /\ LedgerBounds' ELSE UNCHANGED ledgerVars

MCSpec == MCInit /\ [][MCNext]_<<focus, vars, evidenceVars, ledgerVars>>
=============================================================================
