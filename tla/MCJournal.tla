------------------------------ MODULE MCJournal ------------------------------
(* Journal with two replays, two configurations and two runs of collect; and *)
(* with three replays and the runs of one player, one after the other.       *)
EXTENDS Journal, TLC

CONSTANTS r1, r2, r3, d1, d2, c1, c2, none

MCReplays == {r1, r2}
MCThreeReplays == {r1, r2, r3}
MCDigests == {d1, d2}
MCCollectors == {c1, c2}
MCOneCollector == {c1}

JournalSymmetry ==
  Permutations(MCReplays) \union Permutations(MCDigests) \union Permutations(MCCollectors)
=============================================================================
