------------------------------- MODULE MCPage -------------------------------
(* Page with two plays, one of which is there when the first run starts, a   *)
(* restart of the server and two connections that fail.  To keep the product *)
(* small the user browses before the first of them fails, and the connection *)
(* fails while at most one load is on its way.                               *)
EXTENDS Page

CONSTANTS a, b, none

MCNames == {a, b}

MCInit == PageInit /\ finished = <<a>>

Calm == drops = 0 /\ run = 1

MCNext ==
  \/ Network
  \/ Responses
  \/ OpenPage
  \/ Calm /\ User
  \/ Calm /\ (Stops \/ \E p \in Names : Plays(p))
  \/ Len(loads) <= 1 /\ Environment

MCSpec == MCInit /\ [][MCNext]_pageVars /\ PageFairness
=============================================================================
