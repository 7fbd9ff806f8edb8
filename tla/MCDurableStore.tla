--------------------------- MODULE MCDurableStore ---------------------------
(* A session store for TLC, whose state.json somebody edits in place or     *)
(* which may become unreadable at any moment, with a reader that takes no   *)
(* lock.                                                                    *)
EXTENDS DurableStore, TLC

CONSTANTS v1, v2, r1

TwoValues == {v1, v2}
OneReader == {r1}

\* Contents of a state are interchangeable.
Symmetry == Permutations(TwoValues)
=============================================================================
