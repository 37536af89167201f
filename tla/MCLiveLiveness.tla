--------------------------- MODULE MCLiveLiveness ---------------------------
(* LiveServer, small enough for liveness: one play from before the start, one *)
(* that may finish while it runs, one connection, and every fate a file has.  *)
EXTENDS LiveServer

CONSTANTS old, new, tab, loop, nobody

MCReplays == {old, new}
MCSockets == {tab}

MCInit == LiveInit /\ file[old] = "whole"
MCSpec == MCInit /\ [][LiveNext]_liveVars /\ LiveFairness
=============================================================================
