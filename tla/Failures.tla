------------------------------ MODULE Failures ------------------------------
(***************************************************************************)
(* analysis/failures.py: where a play went wrong, over a judged recording, *)
(* and what of it live/watch.py and server/protocol.py show.  Combo is     *)
(* added up over whole objects; what the map looked like at a failure and  *)
(* the picture of it are left out.                                         *)
(***************************************************************************)
EXTENDS Simulation

PartsTotal(i) == Len(objects[i].parts) + 1

DroppedAPart(i) == objects[i].kind = "slider" /\ Collected(i) < PartsTotal(i)

Broke(i) == Grade(i) = 0 \/ DroppedAPart(i)

\* _combo_value
ComboValue(i) == IF objects[i].kind = "slider" THEN PartsTotal(i) ELSE 1

\* `combo` after each object.
Combos ==
  LET combo[i \in 0..Len(objects)] ==
        IF i = 0 \/ Broke(i) THEN 0 ELSE combo[i - 1] + ComboValue(i)
  IN combo

Failed(i) == Grade(i) # 300 \/ Broke(i)

\* Failure.combo_lost
ComboLost(i) == IF Broke(i) THEN Combos[i - 1] ELSE 0

\* Mutant: the run after the last break is forgotten.
LongestEndedCombo == Max({0} \union {ComboLost(i) : i \in DOMAIN objects})

\* `longest` at every break, and once more after the last one.
MaxCombo == Max({Combos[Len(objects)]} \union {ComboLost(i) : i \in DOMAIN objects})

\* Failure.is_sliderbreak: scored, but not completed.
IsSliderbreak(i) == objects[i].kind = "slider" /\ Broke(i) /\ Grade(i) # 0

ComboAgrees(reported) == MaxCombo = reported

\* Mutant: a drop is shown whatever the game recorded.
AllBreaks(reported) == {i \in DOMAIN objects : Failed(i) /\ Broke(i)}

\* FailureReport.shown_breaks: a drop is shown when the game recorded the same
\* longest combo, a miss always.
ShownBreaks(reported) ==
  {i \in DOMAIN objects : Failed(i) /\ IF ComboAgrees(reported) THEN Broke(i) ELSE Grade(i) = 0}

\* Play.sliderbreaks: the count on the page.
Sliderbreaks(reported) ==
  IF ComboAgrees(reported)
    THEN Cardinality({i \in DOMAIN objects : Failed(i) /\ IsSliderbreak(i)}) ELSE 0

-----------------------------------------------------------------------------
\* Every scoring point of the map in the order of the objects: was it collected?
PointsOf(i) ==
  CASE objects[i].kind = "slider" -> [k \in 1..PartsTotal(i) |-> Tracking(i)[k - 1]]
    [] objects[i].kind = "spinner" -> <<TRUE>>
    [] OTHER -> <<heads[i] # None>>

Missing == {i \in DOMAIN objects : \E k \in DOMAIN PointsOf(i) : ~PointsOf(i)[k]}

Points == UNION {{<<i, k>> : k \in DOMAIN PointsOf(i)} : i \in DOMAIN objects}

NotAfter(p, q) == p[1] < q[1] \/ (p[1] = q[1] /\ p[2] <= q[2])

Between(p, q) == {r \in Points : NotAfter(p, r) /\ NotAfter(r, q)}

\* The stretches of points without one that was dropped.
Runs == {run \in {Between(p, q) : p, q \in Points} : \A r \in run : PointsOf(r[1])[r[2]]}

LongestRun == Max({0} \union {Cardinality(run) : run \in Runs})

\* failures.py, "Combo, and where it really breaks": the longest combo never
\* counts a scoring point twice or across one that was dropped, and it leaves none
\* out when no slider was dropped half-way.
LongestComboIsARun ==
  pending = <<>> =>
    LET longest == LongestRun
        best == MaxCombo
    IN /\ best <= longest
       /\ (\A i \in Missing : Grade(i) = 0) => best = longest

\* With the header's figure equal to the longest combo the breaks shown are exactly
\* the objects with a point that was not collected; with any other figure nothing
\* is shown that scored, and no slider drop is counted (shown_breaks).
ShownBreaksAreMissedPoints ==
  \A reported \in {MaxCombo, MaxCombo + 1} :
    IF ComboAgrees(reported)
    THEN /\ ShownBreaks(reported) = Missing
         /\ Sliderbreaks(reported) = Cardinality({i \in Missing : Grade(i) # 0})
    ELSE /\ ShownBreaks(reported) \subseteq {i \in Missing : Grade(i) = 0}
         /\ Sliderbreaks(reported) = 0
=============================================================================
