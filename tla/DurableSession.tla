--------------------------- MODULE DurableSession ---------------------------
(***************************************************************************)
(* What durable-work storage promises its commands: one versioned state    *)
(* that changes in single atomic steps, is never rolled back, and holds    *)
(* every transition that a command reported as done.                       *)
(***************************************************************************)
EXTENDS Naturals

CONSTANTS
  Val,        \* contents of a session state, up to equal digests
  NoSession   \* nothing was initialised yet

VARIABLES
  committed,  \* the state every later load returns: NoSession or [seq, val]
  acked       \* sequence number of the last transition reported as done

vars == <<committed, acked>>

Init == committed = NoSession /\ acked = 0

Create ==
  /\ committed = NoSession
  /\ \E v \in Val : committed' = [seq |-> 1, val |-> v]
  /\ UNCHANGED acked

Commit ==
  /\ committed # NoSession
  /\ \E v \in Val : committed' = [seq |-> committed.seq + 1, val |-> v]
  /\ UNCHANGED acked

\* The current snapshot edited in place, outside the commands.
Edit ==
  /\ committed # NoSession
  /\ \E v \in Val : committed' = [committed EXCEPT !.val = v]
  /\ UNCHANGED acked

Acknowledge ==
  /\ committed # NoSession
  /\ acked' = committed.seq
  /\ UNCHANGED committed

Next == Create \/ Commit \/ Edit \/ Acknowledge

Spec == Init /\ [][Next]_vars
=============================================================================
