---------------------------- MODULE MCServeStart ----------------------------
(* Two runs, of two builds, over two replays: one gets a payload, the other is *)
(* restored or backfilled. Port o3 belongs to another tool.                    *)
EXTENDS ServeStart, TLC

CONSTANTS p1, p2, o1, o2, o3

MCRuns == {"r1", "r2"}
MCPlays == {p1, p2}
MCBuildOf == [r \in MCRuns |-> IF r = "r1" THEN "old" ELSE "new"]
MCPorts == {o1, o2, o3}
MCReserved == {o3}
MCLeftovers == [whole |-> {"old"}, malformed |-> {"new"}]
MCSymmetry == Permutations(MCPlays) \cup Permutations(MCPorts \ MCReserved)
=============================================================================
