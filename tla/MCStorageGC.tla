---------------------------- MODULE MCStorageGC ----------------------------
(* An instance of StorageGC for TLC.                                       *)
EXTENDS StorageGC

CONSTANTS s1, c1, d1

OneSession == {s1}
OneClient == {c1}
OneDigest == {d1}
=============================================================================
