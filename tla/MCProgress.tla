------------------------------ MODULE MCProgress ------------------------------
(* Four plays over two changes of the settings, with sides of two sessions.    *)
EXTENDS Progress

MCSettings == {[offset |-> 0, device |-> "speakers"],
               [offset |-> 10, device |-> "speakers"],
               [offset |-> 0, device |-> "headset"]}
MCNoEpoch == [offset |-> -1, device |-> "none"]
MCKinds == {"good", "unreproduced"}

\* Two changes of nothing but the offset.
MCPoolSettings == {[offset |-> o, device |-> "speakers"] : o \in {0, 10, 8}}
MCPoolKinds == {"good"}
=============================================================================
