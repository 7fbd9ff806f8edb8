----------------------------- MODULE MCPackets ------------------------------
(* Instances of Packets for TLC.                                           *)
EXTENDS Packets, TLC

CONSTANTS p1, p2, p3, r1, r2, v1, v2, k1, k2, ana, bo

OnePacket == {p1}

ThreePackets == {p1, p2, p3}
OneCheck == {k1}
TwoChecks == {k1, k2}
OneAgent == {ana}
TwoAgents == {ana, bo}
OneRunner == {r1}
TwoRunners == {r1, r2}
OneContent == {v1}
TwoContents == {v1, v2}

PacketSymmetry == Permutations({p1, p2, p3})
=============================================================================
