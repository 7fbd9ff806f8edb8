--------------------------- MODULE MCSessionLock ---------------------------
(* Instances of SessionLock for TLC.                                       *)
EXTENDS SessionLock, TLC, FiniteSets

CONSTANTS p1, p2, p3, t1, t2, t3, t4

TwoPids == {p1, p2}
ThreePids == {p1, p2, p3}
\* One token for each call in progress and one for a file left behind are
\* enough for Enter to find a fresh one.
ThreeTokens == {t1, t2, t3}
FourTokens == {t1, t2, t3, t4}
=============================================================================
