----------------------------- MODULE MCCriteria -----------------------------
(* Instances of Criteria for TLC.                                          *)
EXTENDS Criteria, TLC

CONSTANTS c1, r1, r2, s1, s2, ana, Ana, bo, test, other

OneCriterion == {c1}
OneRunner == {r1}
TwoRunners == {r1, r2}
TwoSources == {s1, s2}
TwoCommands == {test, other}

\* Two spellings of one identifier, and a second one.
Spellings == {ana, Ana, bo}
CaseFold == [a \in Spellings |-> IF a = bo THEN "bo" ELSE "ana"]
\* An executor and a verifier.
Pair == {ana, bo}
PairFold == [a \in Pair |-> a]

Common == Permutations({r1, r2}) \cup Permutations({s1, s2}) \cup Permutations({test, other})
Symmetry == Common \cup Permutations(Pair)
SpellingSymmetry == Common \cup Permutations({ana, Ana})
=============================================================================
