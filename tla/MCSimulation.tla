---------------------------- MODULE MCSimulation ----------------------------
(* Simulation and Failures over a few beatmaps, each with objects whose       *)
(* windows overlap, and every recording of three frames.  Position 9 is the   *)
(* one of markers and away from everything; 0 and 2 are in each other's       *)
(* follow circles.                                                            *)
EXTENDS Failures

Circle(t, x) == [kind |-> "circle", time |-> t, end |-> t, x |-> x, parts |-> <<>>]
Spinner(t, e) == [kind |-> "spinner", time |-> t, end |-> e, x |-> 2, parts |-> <<>>]
Slider(t, x, parts) ==
  [kind |-> "slider", time |-> t, end |-> Last(parts).time, x |-> x, parts |-> parts]
Part(t, x) == [time |-> t, x |-> x]

MCBeatmaps ==
  {<<Circle(2, 0), Circle(3, 2)>>,
   <<Circle(2, 0), Circle(2, 0), Circle(5, 0)>>,
   <<Slider(1, 0, <<Part(2, 2), Part(3, 0), Part(5, 0)>>)>>,
   <<Spinner(1, 2), Circle(3, 0), Slider(4, 0, <<Part(5, 0), Part(6, 2)>>)>>}

MCKeyStates ==
  {{}, {"K1", "M1"}, {"M2"}, {"K1", "M1", "K2", "M2"}}

MCCursors == {0, 2, 9}
MCSteps == {-1, 1, 3}
=============================================================================
