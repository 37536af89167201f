------------------------------ MODULE MCProfile ------------------------------
(* Three forge profile commands over every store and older file, killed or not. *)
EXTENDS Profile

MCDpis == {"800", "1600", "8"}
MCPlausible == {"800", "1600"}
MCHeights == {"1mm"}
MCLabels == {"Low"}
MCPresets == {"1"}
MCDistances == [p \in MCPresets |-> <<"1mm", "1mm">>]
MCMakers == {"", "Razer"}
=============================================================================
