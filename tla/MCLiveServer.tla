---------------------------- MODULE MCLiveServer ----------------------------
(* LiveServer with one play from before the start, two that osu! finishes   *)
(* while it runs, and two connections.  What else a replay file can become  *)
(* is left to MCLiveLiveness: here osu! only                                *)
(* finishes files, the ones that were being written when forge started      *)
(* stay so, and the two files appear in an order.                           *)
EXTENDS LiveServer, TLC

CONSTANTS old, p1, p2, s1, s2, loop, nobody

MCReplays == {old, p1, p2}
MCSockets == {s1, s2}

MCInit ==
  /\ LiveInit
  /\ file = [p \in Replays |-> IF p = old THEN "whole" ELSE "absent"]

\* osu! and the player, restricted.
FinishFile ==
  /\ GameWrites
  /\ file'[old] = "whole"
  /\ \A p \in Replays : file'[p] \notin {"foreign", "deleted"}
  /\ file'[p2] = "absent" \/ file[p1] # "absent"

MCNext == Server \/ Browsers \/ FinishFile
MCSpec == MCInit /\ [][MCNext]_liveVars
SocketSymmetry == Permutations(MCSockets)
=============================================================================
