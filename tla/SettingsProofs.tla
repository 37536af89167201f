--------------------------- MODULE SettingsProofs ---------------------------
(* What a play is held against, for any settings, plays and bounds: the plays  *)
(* that forge serve and forge diagnose call the present, the verdict on an     *)
(* offset, and the offsets that are read out of osu!.db.                       *)
EXTENDS Progress, OsuDb, TLAPS, FiniteSetTheorems, SequenceTheorems, WellFoundedInduction

-----------------------------------------------------------------------------
(* The largest of a bounded set of numbers                                     *)

LEMMA ASetHasALeast ==
    ASSUME NEW T, T \subseteq Nat, T # {}
    PROVE  \E x \in T : \A y \in T : x <= y
  <1> DEFINE R == OpToRel(<, Nat)
  <1>1. IsWellFoundedOn(R, Nat)
    BY NatLessThanWellFounded
  <1>2. \A x, y \in Nat : y < x => <<y, x>> \in R
    BY DEF OpToRel
  <1> HIDE DEF R
  <1>3. \E x \in T : \A y \in T : ~ (<<y, x>> \in R)
    BY ONLY <1>1, T \subseteq Nat, T # {}, WFMin
  <1>4. PICK x \in T : \A y \in T : ~ (<<y, x>> \in R)
    BY <1>3
  <1>5. \A y \in T : ~(y < x)
    BY <1>2, <1>4
  <1>6. \A y \in T : x <= y
    BY <1>5
  <1>7. QED
    BY <1>6

LEMMA ABoundedSetHasAMax ==
    ASSUME NEW k \in Nat, NEW T, T \subseteq 1..k, T # {}
    PROVE  /\ Max(T) \in T
           /\ \A y \in T : y <= Max(T)
  <1> DEFINE U == {k - t : t \in T}
  <1>1. \A t \in T : t \in Int /\ k - t \in Nat /\ k - t \in U
    OBVIOUS
  <1>2. \A v \in U : v \in Nat /\ \E t \in T : v = k - t
    BY <1>1
  <1>3. U \subseteq Nat /\ U # {}
    BY <1>1, <1>2
  <1> HIDE DEF U
  <1>4. PICK u \in U : \A v \in U : u <= v
    BY <1>3, ASetHasALeast
  <1>5. PICK x \in T : u = k - x
    BY <1>2
  <1>6. \A y \in T : k - x <= k - y
    BY <1>1, <1>4, <1>5
  <1>7. \A y \in T : x >= y
    BY <1>1, <1>6
  <1>8. Max(T) \in T /\ \A y \in T : Max(T) >= y
    BY <1>7 DEF Max
  <1>9. QED
    BY <1>1, <1>8

LEMMA TheMaxIs ==
    ASSUME NEW T, T \subseteq Int, NEW x \in T, \A y \in T : y <= x
    PROVE  Max(T) = x
  <1>1. \A y \in T : x >= y
    OBVIOUS
  <1>2. Max(T) \in T /\ \A y \in T : Max(T) >= y
    BY <1>1 DEF Max
  <1>3. x \in Int /\ Max(T) \in Int /\ Max(T) <= x /\ Max(T) >= x
    BY <1>2
  <1>4. QED
    BY <1>3

-----------------------------------------------------------------------------
(* What every state has                                                        *)

\* A line of the journal holds settings the player had.
EpochsKnown ==
  \E Lines : /\ journal \in Seq(Lines)
             /\ \A line \in Lines : line.epoch \in Settings

PlaysCounted == \E Plays : plays \in Seq(Plays)

PresentInv ==
  /\ settings \in Settings
  /\ EpochsKnown
  /\ PlaysCounted
  /\ recorded \subseteq Settings

LEMMA Counted ==
    ASSUME PresentInv
    PROVE  /\ DOMAIN journal = 1..Len(journal) /\ Len(journal) \in Nat
           /\ \A n \in DOMAIN journal : journal[n].epoch \in Settings
           /\ DOMAIN plays = 1..Len(plays) /\ Len(plays) \in Nat
  BY DEF PresentInv, EpochsKnown, PlaysCounted

-----------------------------------------------------------------------------
(* The present *)

LEMMA TheLastLineIsThePresent ==
    ASSUME PresentInv, JournalFollowsThePlays, Believed # {}
    PROVE  /\ journal # <<>>
           /\ EpochOf(Max(Believed)) = journal[Len(journal)].epoch
  <1> DEFINE k == Len(journal)
             last == journal[k].play
  <1>1. /\ k \in Nat /\ DOMAIN journal = 1..k /\ DOMAIN plays = 1..Len(plays) /\ Len(plays) \in Nat
    BY Counted
  <1>2. Believed \subseteq Here /\ Here \subseteq 1..Len(plays) /\ Here = Journaled
    BY <1>1 DEF Believed, Here, JournalFollowsThePlays
  <1>3. k # 0
    <2>1. PICK i : i \in Journaled
      BY <1>2
    <2>2. \E n \in DOMAIN journal : TRUE
      BY <2>1 DEF Journaled
    <2>3. QED
      BY <1>1, <2>2
  <1>4. k \in DOMAIN journal /\ last \in Here /\ last \in Int
    BY <1>1, <1>2, <1>3 DEF Journaled
  <1>5. \A n \in DOMAIN journal : n # k => journal[n].play < last
    BY <1>1, <1>4 DEF JournalFollowsThePlays
  <1>6. \A i \in Here : i <= last
    <2> SUFFICES ASSUME NEW i \in Here PROVE i <= last
      OBVIOUS
    <2>1. PICK n \in DOMAIN journal : i = journal[n].play
      BY <1>2 DEF Journaled
    <2>2. i \in Int
      BY <1>2
    <2>3. QED
      BY <1>4, <1>5, <2>1, <2>2
  <1>7. Max(Here) = last
    <2>1. Here \subseteq Int
      BY <1>2
    <2> HIDE DEF last
    <2>2. QED
      BY ONLY <1>4, <1>6, <2>1, TheMaxIs
  <1>8. Max(Believed) = last
    BY <1>7 DEF JournalFollowsThePlays
  <1>9. \A n \in DOMAIN journal : journal[n].play = last <=> n = k
    BY <1>4, <1>5
  <1>10. {n \in DOMAIN journal : journal[n].play = last} = {k}
    BY <1>4, <1>9
  <1>11. EpochOf(last) = journal[k].epoch
    BY <1>10 DEF EpochOf
  <1>12. journal # <<>>
    BY <1>1, <1>3
  <1>13. QED
    BY <1>8, <1>11, <1>12

LEMMA JournaledPlaysHaveEpochs ==
    ASSUME PresentInv, NEW i \in Journaled
    PROVE  EpochOf(i) \in Settings /\ EpochOf(i) # NoEpoch
  <1>1. \E n \in DOMAIN journal : journal[n].play = i
    BY DEF Journaled
  <1>2. EpochOf(i) \in Settings
    BY <1>1, Counted DEF EpochOf
  <1>3. QED
    BY <1>2, NoEpochIsNoSettings

LEMMA NothingIsFilled ==
    ASSUME PresentInv, Here = Journaled, NEW i \in Believed
    PROVE  Filled(i) = EpochOf(i) /\ EpochOf(i) # NoEpoch
  <1> DEFINE known == {j \in Believed : j <= i /\ EpochOf(j) # NoEpoch}
  <1>1. Believed \subseteq Journaled /\ Believed \subseteq Int
    BY Counted DEF Believed, Here
  <1>2. EpochOf(i) # NoEpoch
    BY <1>1, JournaledPlaysHaveEpochs
  <1>0. i \in Int /\ i <= i
    BY <1>1
  <1>3. i \in known /\ known \subseteq Int /\ \A j \in known : j <= i
    BY <1>0, <1>1, <1>2
  <1> HIDE DEF known
  <1>4. Max(known) = i
    BY ONLY <1>3, TheMaxIs
  <1>5. Filled(i) = EpochOf(Max(known))
    BY <1>3 DEF Filled, known
  <1>6. QED
    BY <1>2, <1>4, <1>5

LEMMA TheyAgree ==
    ASSUME PresentInv
    PROVE  PanelAndCommandAgreeOnThePresent
  <1> SUFFICES ASSUME JournalFollowsThePlays PROVE PanelPresent = CommandPresent
    BY DEF PanelAndCommandAgreeOnThePresent
  <1>1. CASE Believed = {}
    BY <1>1 DEF PanelPresent, CommandPresent
  <1>2. CASE Believed # {}
    <2>1. Here = Journaled
      BY DEF JournalFollowsThePlays
    <2>2. \A i \in Believed : Filled(i) = EpochOf(i) /\ EpochOf(i) # NoEpoch
      BY <2>1, NothingIsFilled
    <2>3. Max(Believed) \in Believed
      <3>1. Len(plays) \in Nat /\ Believed \subseteq 1..Len(plays)
        BY Counted DEF Believed, Here
      <3>2. QED
        BY ONLY <1>2, <3>1, ABoundedSetHasAMax
    <2>4. PanelEpoch = EpochOf(Max(Believed)) /\ PanelEpoch # NoEpoch
      BY <1>2, <2>2, <2>3 DEF PanelEpoch
    <2>5. CommandEpoch = PanelEpoch
      BY <1>2, <2>4, TheLastLineIsThePresent DEF CommandEpoch
    <2>6. QED
      BY <2>2, <2>4, <2>5 DEF PanelPresent, CommandPresent
  <1>3. QED
    BY <1>1, <1>2

-----------------------------------------------------------------------------
(* Every step keeps it *)

LEMMA CollectKeeps ==
    ASSUME PresentInv, NEW withSettings, Collect(withSettings)
    PROVE  PresentInv'
  <1> DEFINE new == Ascending(Here \ Journaled)
             c == Cardinality(Here \ Journaled)
             lines == [n \in DOMAIN new |-> [play |-> new[n], epoch |-> settings]]
  <1>1. journal' = journal \o lines /\ UNCHANGED <<settings, plays>>
    BY DEF Collect
  <1>2. c \in Nat
    <2>1. IsFiniteSet(1..Len(plays))
      BY Counted, FS_Interval
    <2>2. Here \ Journaled \subseteq 1..Len(plays)
      BY Counted DEF Here
    <2>3. IsFiniteSet(Here \ Journaled)
      BY ONLY <2>1, <2>2, FS_Subset
    <2>4. QED
      BY ONLY <2>3, FS_CardinalityType
  <1>3. DOMAIN new = 1..c
    BY DEF Ascending
  <1>4. PICK Lines : journal \in Seq(Lines) /\ \A line \in Lines : line.epoch \in Settings
    BY DEF PresentInv, EpochsKnown
  <1> DEFINE Both == Lines \cup {lines[n] : n \in 1..c}
  <1> HIDE DEF new, c
  <1>5. \A line \in Both : line.epoch \in Settings
    BY <1>3, <1>4 DEF PresentInv
  <1>6. journal \in Seq(Both)
    BY <1>4
  <1>7. lines \in Seq(Both)
    <2> HIDE DEF lines
    <2>1. \A n \in 1..c : lines[n] \in Both
      OBVIOUS
    <2> HIDE DEF Both
    <2>2. lines = [n \in 1..c |-> lines[n]]
      BY <1>3 DEF lines
    <2>3. QED
      BY <1>2, <2>1, <2>2
  <1> HIDE DEF lines, Both
  <1>8. journal' \in Seq(Both)
    BY <1>1, <1>6, <1>7
  <1>9. EpochsKnown'
    BY <1>5, <1>8, <1>1 DEF EpochsKnown
  <1>10. recorded' \subseteq Settings
    BY DEF Collect, PresentInv
  <1>11. QED
    BY <1>1, <1>9, <1>10 DEF PresentInv, PlaysCounted

LEMMA PlaysKeep ==
    ASSUME PresentInv,
           \/ \E kind, pause, here : Play(kind, pause, here)
           \/ \E i \in DOMAIN plays : Arrive(i)
    PROVE  PresentInv'
  <1>1. UNCHANGED <<settings, journal, recorded>>
    BY DEF Play, Arrive
  <1>2. PICK Plays : plays \in Seq(Plays)
    BY DEF PresentInv, PlaysCounted
  <1>3. PlaysCounted'
    <2>1. ASSUME NEW kind, NEW pause, NEW here, Play(kind, pause, here) PROVE PlaysCounted'
      <3> DEFINE p == [at |-> Now + pause, under |-> settings, kind |-> kind, here |-> here]
      <3>1. plays' = Append(plays, p)
        BY <2>1 DEF Play
      <3> HIDE DEF p
      <3>2. plays' \in Seq(Plays \cup {p})
        BY <1>2, <3>1
      <3>3. QED
        BY <3>2 DEF PlaysCounted
    <2>2. ASSUME NEW i \in DOMAIN plays, Arrive(i) PROVE PlaysCounted'
      <3> DEFINE p == [plays[i] EXCEPT !.here = TRUE]
      <3>1. plays' = [plays EXCEPT ![i] = p]
        BY <2>2 DEF Arrive
      <3> HIDE DEF p
      <3>2. plays' \in Seq(Plays \cup {p})
        BY <1>2, <3>1
      <3>3. QED
        BY <3>2 DEF PlaysCounted
    <2>3. QED
      BY <2>1, <2>2
  <1>4. QED
    BY <1>1, <1>3 DEF PresentInv, EpochsKnown

LEMMA EveryStateIsPresent == ProgressSpec => []PresentInv
  <1>1. ProgressInit => PresentInv
    <2> SUFFICES ASSUME ProgressInit PROVE PresentInv
      OBVIOUS
    <2>1. settings \in Settings /\ plays = <<>> /\ journal = <<>> /\ recorded = {}
      BY DEF ProgressInit
    <2>2. <<>> \in Seq({})
      OBVIOUS
    <2>3. QED
      BY <2>1, <2>2 DEF PresentInv, EpochsKnown, PlaysCounted
  <1>2. PresentInv /\ [ProgressNext]_progressVars => PresentInv'
    <2> SUFFICES ASSUME PresentInv, [ProgressNext]_progressVars PROVE PresentInv'
      OBVIOUS
    <2>1. CASE \E withSettings \in BOOLEAN : Collect(withSettings)
      BY <2>1, CollectKeeps
    <2>2. CASE \/ \E kind, pause, here : Play(kind, pause, here)
               \/ \E i \in DOMAIN plays : Arrive(i)
      BY <2>2, PlaysKeep
    <2>3. CASE \E s \in Settings : ChangeSettings(s)
      BY <2>3 DEF ChangeSettings, PresentInv, EpochsKnown, PlaysCounted
    <2>4. CASE UNCHANGED progressVars
      BY <2>4 DEF progressVars, PresentInv, EpochsKnown, PlaysCounted
    <2>5. QED
      BY <2>1, <2>2, <2>3, <2>4 DEF ProgressNext
  <1>3. QED
    BY <1>1, <1>2, PTL DEF ProgressSpec

\* The panel of forge serve and forge diagnose call the same plays the present,
\* in every history in which forge collect keeps up with the plays: the epoch
\* that is carried forward from the play made last is the one of the line that
\* the journal got last.
THEOREM PanelAndCommandAgree == ProgressSpec => []PanelAndCommandAgreeOnThePresent
  <1>1. PresentInv => PanelAndCommandAgreeOnThePresent
    BY TheyAgree
  <1>2. QED
    BY <1>1, EveryStateIsPresent, PTL

-----------------------------------------------------------------------------
(* The verdict on an offset                                                    *)

\* A set of plays has one more play up to n when n is in it, and as many else.
LEMMA OneMorePlay ==
    ASSUME NEW S, NEW n \in Nat \ {0}
    PROVE  /\ IsFiniteSet(S \cap 1..n) /\ Cardinality(S \cap 1..n) \in Nat
           /\ IsFiniteSet(S \cap 1..(n - 1)) /\ Cardinality(S \cap 1..(n - 1)) \in Nat
           /\ Cardinality(S \cap 1..n) =
                IF n \in S THEN Cardinality(S \cap 1..(n - 1)) + 1 ELSE Cardinality(S \cap 1..(n - 1))
  <1> DEFINE A == S \cap 1..n
             B == S \cap 1..(n - 1)
  <1>1. IsFiniteSet(1..n) /\ IsFiniteSet(1..(n - 1))
    BY FS_Interval
  <1>2. A \in SUBSET 1..n /\ B \in SUBSET 1..(n - 1) /\ n \notin B
    OBVIOUS
  <1>3. n \in S => A = B \cup {n}
    OBVIOUS
  <1>4. n \notin S => A = B
    OBVIOUS
  <1> HIDE DEF A, B
  <1>5. IsFiniteSet(A) /\ IsFiniteSet(B)
    BY <1>1, <1>2, FS_Subset
  <1>6. Cardinality(A) \in Nat /\ Cardinality(B) \in Nat
    BY <1>5, FS_CardinalityType
  <1>7. Cardinality(B \cup {n}) = Cardinality(B) + 1
    BY <1>2, <1>5, FS_AddElement
  <1>8. Cardinality(A) = IF n \in S THEN Cardinality(B) + 1 ELSE Cardinality(B)
    BY <1>3, <1>4, <1>7
  <1>9. QED
    BY <1>5, <1>6, <1>8 DEF A, B

LEMMA OneMoreTime ==
    ASSUME NEW c \in Int, NEW e \in Int
    PROVE  (c + 1) * e = c * e + e /\ c * e \in Int /\ 0 * e = 0
  OBVIOUS

\* The errors of plays that all have the same error add up to as many times it.
LEMMA EqualErrorsAddUp ==
    ASSUME PresentInv, NEW S, S \subseteq DOMAIN plays, NEW e \in Int,
           \A i \in S : ErrorOf(i) = e
    PROVE  /\ IsFiniteSet(S) /\ Cardinality(S) \in Nat
           /\ ErrorsOf(S) = Cardinality(S) * e
  <1> DEFINE k == Len(plays)
             body(f) == [n \in 0..k |-> IF n = 0 THEN 0
                                        ELSE IF n \in S THEN f[n - 1] + ErrorOf(n) ELSE f[n - 1]]
             sum == CHOOSE f : f = body(f)
             C(n) == Cardinality(S \cap 1..n)
             g == [n \in 0..k |-> C(n) * e]
  <1>1. k \in Nat /\ DOMAIN plays = 1..k
    BY Counted
  <1>2. ErrorsOf(S) = sum[k]
    BY DEF ErrorsOf
  <1> HIDE DEF k
  <1>3. C(0) = 0
    <2>1. S \cap 1..0 = {}
      OBVIOUS
    <2>2. QED
      BY <2>1, FS_EmptySet
  <1>4. \A n \in 1..k : /\ n - 1 \in 0..k /\ C(n - 1) \in Nat
                        /\ C(n) = IF n \in S THEN C(n - 1) + 1 ELSE C(n - 1)
    <2> SUFFICES ASSUME NEW n \in 1..k
                 PROVE  /\ n - 1 \in 0..k /\ C(n - 1) \in Nat
                        /\ C(n) = IF n \in S THEN C(n - 1) + 1 ELSE C(n - 1)
      OBVIOUS
    <2>1. n \in Nat \ {0} /\ n - 1 \in 0..k
      BY <1>1
    <2>2. C(n - 1) \in Nat /\ C(n) = IF n \in S THEN C(n - 1) + 1 ELSE C(n - 1)
      BY ONLY <2>1, OneMorePlay
    <2>3. QED
      BY <2>1, <2>2
  <1> HIDE DEF C
  <1>5. \A n \in 1..k : g[n] = IF n \in S THEN g[n - 1] + ErrorOf(n) ELSE g[n - 1]
    <2> SUFFICES ASSUME NEW n \in 1..k
                 PROVE  g[n] = IF n \in S THEN g[n - 1] + ErrorOf(n) ELSE g[n - 1]
      OBVIOUS
    <2>1. n \in 0..k /\ n - 1 \in 0..k /\ C(n - 1) \in Int
      BY <1>1, <1>4
    <2>2. g[n] = C(n) * e /\ g[n - 1] = C(n - 1) * e
      BY <2>1
    <2> HIDE DEF g
    <2>3. (C(n - 1) + 1) * e = C(n - 1) * e + e
      BY <2>1, OneMoreTime
    <2>4. CASE n \in S
      BY <1>4, <2>2, <2>3, <2>4
    <2>5. CASE n \notin S
      BY <1>4, <2>2, <2>5
    <2>6. QED
      BY <2>4, <2>5
  <1>6. g[0] = 0
    BY <1>1, <1>3, OneMoreTime
  <1>7. g = body(g)
    <2>1. \A n \in 0..k : n = 0 \/ n \in 1..k
      BY <1>1
    <2>2. \A n \in 0..k : g[n] = IF n = 0 THEN 0 ELSE IF n \in S THEN g[n - 1] + ErrorOf(n) ELSE g[n - 1]
      BY <1>5, <1>6, <2>1
    <2>3. QED
      BY <2>2
  <1>8. sum = body(sum)
    BY <1>7
  <1> HIDE DEF sum, g
  <1>9. /\ sum[0] = 0
        /\ \A n \in 1..k : sum[n] = IF n \in S THEN sum[n - 1] + ErrorOf(n) ELSE sum[n - 1]
    <2>1. 0 \in 0..k /\ \A n \in 1..k : n \in 0..k /\ n # 0
      BY <1>1
    <2>2. QED
      BY <1>8, <2>1
  <1>10. \A n \in 0..k : sum[n] = g[n]
    <2> DEFINE Bad == {n \in 0..k : sum[n] # g[n]}
    <2>1. SUFFICES ASSUME Bad # {} PROVE FALSE
      OBVIOUS
    <2>2. Bad \subseteq Nat
      BY <1>1
    <2> HIDE DEF Bad
    <2>3. PICK m \in Bad : \A l \in Bad : m <= l
      BY <2>1, <2>2, ASetHasALeast
    <2>4. m \in 0..k /\ sum[m] # g[m]
      BY <2>3 DEF Bad
    <2>5. m \in 1..k /\ m - 1 \in 0..k /\ m - 1 \notin Bad
      BY <1>1, <1>6, <1>9, <2>2, <2>3, <2>4
    <2>6. sum[m - 1] = g[m - 1]
      BY <2>5 DEF Bad
    <2>7. QED
      BY <1>5, <1>9, <2>4, <2>5, <2>6
  <1>11. sum[k] = C(k) * e
    BY <1>1, <1>10 DEF g
  <1>12. S \cap 1..k = S
    BY <1>1
  <1>13. IsFiniteSet(S)
    BY <1>1, FS_Interval, FS_Subset
  <1>14. QED
    BY <1>2, <1>11, <1>12, <1>13, FS_CardinalityType DEF C

\* What an offset moves, over both numbers of plays.
LEMMA AnOffsetMovesTheMean ==
    ASSUME NEW a \in Int, NEW b \in Int, NEW bias \in Int, NEW was \in Int, NEW is \in Int
    PROVE  (a * (bias - is)) * b - (b * (bias - was)) * a = -(is - was) * (b * a)
  OBVIOUS

LEMMA WhatWasPredictedIsWithin ==
    ASSUME NEW x \in Int
    PROVE  ~(x * x < 0) /\ Distance(x, x) * 10 <= Distance(x, 0) * 4
  BY DEF Distance

\* Whatever was played before and under any settings, a change of nothing but the
\* offset that is on the record is never scored as undone, nor as something else
\* that moved: the means differ by what the offset predicts.
THEOREM AnOffsetThatWorkedIsConfirmed == ProgressSpec => []AnOffsetThatWorkedIsNotContradicted
  <1>1. PresentInv => AnOffsetThatWorkedIsNotContradicted
    <2> SUFFICES ASSUME PresentInv, Changes # {}, AnOffsetExperiment, NEW m \in Measurable
                 PROVE  VerdictWhen(m) \in {"confirmed", "unchanged", "insufficient"}
      BY DEF AnOffsetThatWorkedIsNotContradicted, Verdicts
    <2> DEFINE was == BeforeEpoch.offset
               is == AfterEpoch.offset
               a == Cardinality(Kept("after"))
               b == Cardinality(Kept("before"))
    <2>1. was \in Int /\ is \in Int /\ Bias \in Int
      BY OffsetsAreNumbers DEF AnOffsetExperiment, PresentInv
    <2>2. \A side \in Sides : Kept(side) \subseteq DOMAIN plays /\ Kept(side) \subseteq Side(side)
      BY DEF Kept, Selected, Side, Believed, Here
    <2>3. /\ \A i \in Kept("before") : ErrorOf(i) = Bias - was
          /\ \A i \in Kept("after") : ErrorOf(i) = Bias - is
      BY <2>2 DEF Sides, AnOffsetExperiment, ErrorOf
    <2> HIDE DEF was, is
    <2>4. Bias - was \in Int /\ Bias - is \in Int
      BY <2>1
    <2>5. b \in Nat /\ ErrorsOf(Kept("before")) = b * (Bias - was)
      BY <2>2, <2>3, <2>4, EqualErrorsAddUp DEF Sides
    <2>6. a \in Nat /\ ErrorsOf(Kept("after")) = a * (Bias - is)
      BY <2>2, <2>3, <2>4, EqualErrorsAddUp DEF Sides
    <2>7. Difference = (a * (Bias - is)) * b - (b * (Bias - was)) * a
      BY <2>5, <2>6 DEF Difference
    <2>8. Predicted = -(is - was) * (b * a)
      BY DEF Predicted, Scale, is, was
    <2> HIDE DEF a, b
    <2>9. Difference = Predicted
      BY <2>1, <2>5, <2>6, <2>7, <2>8, AnOffsetMovesTheMean
    <2>10. Predicted \in Int
      BY <2>1, <2>5, <2>6, <2>8
    <2>11. ~(Difference * Predicted < 0) /\ Within
      BY <2>9, <2>10, WhatWasPredictedIsWithin DEF Within
    <2>12. OffsetChanged \/ Difference = 0
      <3>1. CASE is = was
        <4>1. is - was = 0
          BY <2>1, <3>1
        <4>2. QED
          BY <2>5, <2>6, <2>8, <2>9, <4>1
      <3>2. CASE is # was
        BY <3>2 DEF OffsetChanged, AnOffsetExperiment, is, was
      <3>3. QED
        BY <3>1, <3>2
    <2>13. m \in BOOLEAN /\ (Difference = 0 => ~m)
      BY DEF Measurable
    <2>14. QED
      BY <2>11, <2>12, <2>13 DEF VerdictWhen
  <1>2. QED
    BY <1>1, EveryStateIsPresent, PTL

-----------------------------------------------------------------------------
(* The offsets of osu!.db                                                      *)

\* The cells of s are in the file from a position on.
InFile(data, at, s) ==
    /\ at + Len(s) <= Len(data) + 1
    /\ \A j \in 1..Len(s) : data[at + j - 1] = s[j]

LEMMA WhatIsInFile ==
    ASSUME NEW data \in Seq(Int), NEW at \in Nat \ {0}, NEW s \in Seq(Int), InFile(data, at, s)
    PROVE  Take(data, at, Len(s)) = at + Len(s)
  BY DEF InFile, Take, Lost

LEMMA PartsAreInFile ==
    ASSUME NEW data \in Seq(Int), NEW at \in Nat \ {0}, NEW s \in Seq(Int), NEW t \in Seq(Int),
           InFile(data, at, s \o t)
    PROVE  InFile(data, at, s) /\ InFile(data, at + Len(s), t)
  <1>1. s \o t \in Seq(Int) /\ Len(s \o t) = Len(s) + Len(t) /\ Len(s) \in Nat /\ Len(t) \in Nat
    OBVIOUS
  <1>2. \A j \in 1..Len(s) : (s \o t)[j] = s[j] /\ j \in 1..Len(s \o t)
    BY <1>1
  <1>3. \A j \in 1..Len(t) : (s \o t)[Len(s) + j] = t[j] /\ Len(s) + j \in 1..Len(s \o t)
    BY <1>1
  <1>4. \A j \in 1..Len(t) : data[(at + Len(s)) + j - 1] = t[j]
    <2> TAKE j \in 1..Len(t)
    <2>1. at + (Len(s) + j) - 1 = (at + Len(s)) + j - 1
      BY <1>1
    <2>2. QED
      BY <1>3, <2>1 DEF InFile
  <1>5. QED
    BY <1>1, <1>2, <1>4 DEF InFile

\* A sequence of sequences is flattened one after the other.
LEMMA FlattenedOneByOne ==
    ASSUME NEW s \in Seq(Seq(Int)), Len(s) > 0
    PROVE  \E f \in [0..Len(s) -> Seq(Int)] :
             /\ f[0] = <<>> /\ f[Len(s)] = FlattenSeq(s)
             /\ \A i \in 1..Len(s) : f[i] = f[i - 1] \o s[i]
  <1> DEFINE N == Len(s)
             step(f, n) == [i \in 1..n |-> IF i = 1 THEN s[i] ELSE f[i - 1] \o s[i]]
             flat == CHOOSE f : f = step(f, N)
             Exists(n) == \E f : f = step(f, n)
             Bad == {n \in 1..N : ~Exists(n)}
  <1>1. N \in Nat \ {0} /\ \A i \in 1..N : s[i] \in Seq(Int)
    OBVIOUS
  <1>2. FlattenSeq(s) = flat[N]
    BY DEF FlattenSeq
  <1> HIDE DEF N
  <1> HIDE DEF Exists
  <1>3. \A n \in 1..N : Exists(n)
    <2> SUFFICES ASSUME Bad # {} PROVE FALSE
      OBVIOUS
    <2>1. Bad \subseteq Nat
      BY <1>1
    <2>2. PICK m \in Bad : \A n \in Bad : m <= n
      BY <2>1, ASetHasALeast, Zenon
    <2>3. m \in 1..N /\ ~Exists(m)
      BY <2>2
    <2>4. m # 1
      <3> DEFINE g == [i \in 1..1 |-> s[i]]
      <3>1. g = step(g, 1)
        OBVIOUS
      <3>2. Exists(1)
        BY <3>1 DEF Exists
      <3>3. QED
        BY <2>3, <3>2
    <2>5. m - 1 \in 1..N /\ m - 1 \notin Bad
      <3>1. m - 1 \in 1..N /\ ~(m <= m - 1)
        BY <1>1, <2>3, <2>4
      <3>2. QED
        BY <2>2, <3>1
    <2>6. PICK f : f = step(f, m - 1)
      <3>1. Exists(m - 1)
        BY <2>5
      <3>2. QED
        BY <3>1 DEF Exists
    <2> DEFINE g == [i \in 1..m |-> IF i = m THEN f[m - 1] \o s[m] ELSE f[i]]
    <2>7. \A i \in 1..m : i # m => i \in 1..(m - 1)
      BY <1>1, <2>3
    <2>8. \A i \in 1..m : g[i] = IF i = 1 THEN s[i] ELSE g[i - 1] \o s[i]
      <3> TAKE i \in 1..m
      <3>1. CASE i = m
        <4>1. m - 1 \in 1..m /\ m \in 1..m /\ m - 1 # m
          BY <1>1, <2>3, <2>4
        <4>2. g[i] = f[m - 1] \o s[m] /\ g[m - 1] = f[m - 1]
          BY <3>1, <4>1
        <4>3. QED
          BY <2>4, <3>1, <4>2
      <3>2. CASE i # m
        <4>1. g[i] = f[i] /\ f[i] = IF i = 1 THEN s[i] ELSE f[i - 1] \o s[i]
          BY <2>6, <2>7, <3>2
        <4>2. i # 1 => g[i - 1] = f[i - 1]
          BY <1>1, <2>3, <3>2
        <4>3. QED
          BY <4>1, <4>2
      <3>3. QED
        BY <3>1, <3>2
    <2> HIDE DEF g
    <2>9. g = step(g, m)
      <3>1. g = [i \in 1..m |-> g[i]]
        BY DEF g
      <3>2. QED
        BY <2>8, <3>1
    <2>10. Exists(m)
      BY <2>9 DEF Exists
    <2>11. QED
      BY <2>3, <2>10
  <1>4. flat = step(flat, N)
    <2>1. N \in 1..N
      BY <1>1
    <2>2. Exists(N)
      BY <1>3, <2>1
    <2>3. QED
      BY <2>2 DEF Exists
  <1> HIDE DEF flat, Bad
  <1>5. flat[1] = s[1] /\ \A i \in 2..N : flat[i] = flat[i - 1] \o s[i]
    <2>1. 1 \in 1..N /\ \A i \in 2..N : i \in 1..N /\ i # 1
      BY <1>1
    <2>2. \A i \in 1..N : flat[i] = IF i = 1 THEN s[i] ELSE flat[i - 1] \o s[i]
      BY <1>4
    <2>3. QED
      BY <2>1, <2>2
  <1> DEFINE g == [i \in 0..N |-> IF i = 0 THEN <<>> ELSE flat[i]]
             Odd == {n \in 1..N : ~(flat[n] \in Seq(Int))}
  <1>6. Odd = {}
    <2> SUFFICES ASSUME Odd # {} PROVE FALSE
      OBVIOUS
    <2>1. Odd \subseteq Nat
      BY <1>1
    <2>2. PICK m \in Odd : \A n \in Odd : m <= n
      BY <2>1, ASetHasALeast, Zenon
    <2>3. m \in 1..N /\ ~(flat[m] \in Seq(Int))
      BY <2>2
    <2>4. m \in 2..N /\ m - 1 \in 1..N
      BY <1>1, <1>5, <2>3
    <2>5. flat[m - 1] \in Seq(Int)
      BY <1>1, <2>2, <2>4
    <2>6. flat[m - 1] \o s[m] \in Seq(Int)
      BY <1>1, <2>3, <2>5
    <2>7. QED
      BY <1>5, <2>3, <2>4, <2>6
  <1>7. g \in [0..N -> Seq(Int)]
    <2>1. \A i \in 1..N : flat[i] \in Seq(Int)
      BY <1>6
    <2>2. \A i \in 0..N : i = 0 \/ i \in 1..N
      BY <1>1
    <2>3. QED
      BY <2>1, <2>2
  <1>8. g[0] = <<>> /\ g[N] = FlattenSeq(s)
    BY <1>1, <1>2
  <1>9. \A i \in 1..N : g[i] = g[i - 1] \o s[i]
    <2> TAKE i \in 1..N
    <2>1. CASE i = 1
      <3>1. <<>> \o s[1] = s[1]
        BY <1>1
      <3>2. QED
        BY <1>1, <1>5, <2>1, <3>1
    <2>2. CASE i # 1
      <3>1. i \in 2..N /\ i - 1 \in 0..N /\ i - 1 # 0 /\ i \in 0..N /\ i # 0
        BY <1>1, <2>2
      <3>2. g[i] = flat[i] /\ g[i - 1] = flat[i - 1]
        BY <3>1
      <3>3. QED
        BY <1>5, <3>1, <3>2
    <2>3. QED
      BY <2>1, <2>2
  <1>10. QED
    BY <1>7, <1>8, <1>9 DEF N

LEMMA OneBehindTheOther ==
    ASSUME NEW a \in Nat \ {0}, NEW b \in Nat, NEW c \in Nat
    PROVE  (a + b) + c = a + (b + c)
  OBVIOUS

\* The parts of a flattened sequence in a file are one behind the other.
LieFrom(data, at, s, start) ==
    /\ start \in [0..Len(s) -> Nat \ {0}]
    /\ start[0] = at /\ start[Len(s)] = at + Len(FlattenSeq(s))
    /\ \A i \in 1..Len(s) : start[i] = start[i - 1] + Len(s[i]) /\ InFile(data, start[i - 1], s[i])

LEMMA PartsOfFlattened ==
    ASSUME NEW data \in Seq(Int), NEW at \in Nat \ {0}, NEW s \in Seq(Seq(Int)), Len(s) > 0,
           InFile(data, at, FlattenSeq(s))
    PROVE  \E start : LieFrom(data, at, s, start)
  <1> DEFINE N == Len(s)
  <1>1. N \in Nat \ {0} /\ \A i \in 1..N : s[i] \in Seq(Int)
    OBVIOUS
  <1>2. PICK f \in [0..N -> Seq(Int)] :
          /\ f[0] = <<>> /\ f[N] = FlattenSeq(s)
          /\ \A i \in 1..N : f[i] = f[i - 1] \o s[i]
    BY FlattenedOneByOne
  <1> HIDE DEF N
  <1> DEFINE Bad == {k \in 0..N : ~InFile(data, at, f[N - k])}
  <1>3. Bad = {}
    <2> SUFFICES ASSUME Bad # {} PROVE FALSE
      OBVIOUS
    <2>1. Bad \subseteq Nat
      BY <1>1
    <2>2. PICK k \in Bad : \A n \in Bad : k <= n
      BY <2>1, ASetHasALeast, Zenon
    <2>3. k \in 0..N /\ ~InFile(data, at, f[N - k])
      BY <2>2
    <2>4. k # 0
      BY <1>1, <1>2, <2>3
    <2>5. k - 1 \in 0..N /\ ~(k <= k - 1) /\ N - k \in 0..N /\ N - (k - 1) \in 1..N /\ N - (k - 1) - 1 = N - k
      BY <1>1, <2>3, <2>4
    <2>6. InFile(data, at, f[N - (k - 1)])
      BY <2>2, <2>5
    <2>7. f[N - (k - 1)] = f[N - k] \o s[N - (k - 1)]
      BY <1>2, <2>5
    <2>8. f[N - k] \in Seq(Int) /\ s[N - (k - 1)] \in Seq(Int)
      BY <1>1, <1>2, <2>5
    <2>9. QED
      BY <2>3, <2>6, <2>7, <2>8, PartsAreInFile
  <1>4. \A i \in 0..N : InFile(data, at, f[i])
    <2> TAKE i \in 0..N
    <2>1. N - i \in 0..N /\ N - (N - i) = i
      BY <1>1
    <2>2. QED
      BY <1>3, <2>1
  <1> DEFINE start == [i \in 0..N |-> at + Len(f[i])]
  <1>5. start \in [0..N -> Nat \ {0}]
    BY <1>2
  <1>6. start[0] = at /\ start[N] = at + Len(FlattenSeq(s))
    <2>1. 0 \in 0..N /\ N \in 0..N /\ at + Len(<<>>) = at
      BY <1>1
    <2>2. QED
      BY <1>2, <2>1
  <1>7. ASSUME NEW i \in 1..N
        PROVE  start[i] = start[i - 1] + Len(s[i]) /\ InFile(data, start[i - 1], s[i])
    <2>1. i - 1 \in 0..N /\ i \in 0..N
      BY <1>1
    <2>2. f[i - 1] \in Seq(Int) /\ s[i] \in Seq(Int) /\ f[i] = f[i - 1] \o s[i]
      BY <1>1, <1>2, <2>1
    <2>3. Len(f[i]) = Len(f[i - 1]) + Len(s[i]) /\ Len(f[i - 1]) \in Nat /\ Len(s[i]) \in Nat
      BY <2>2
    <2>4. start[i - 1] = at + Len(f[i - 1]) /\ start[i] = at + Len(f[i])
      BY <2>1
    <2>5. InFile(data, at, f[i - 1] \o s[i])
      BY <1>4, <2>1, <2>2
    <2> HIDE DEF start
    <2>6. InFile(data, at + Len(f[i - 1]), s[i])
      BY <2>2, <2>5, PartsAreInFile
    <2>7. start[i] = start[i - 1] + Len(s[i])
      <3>1. (at + Len(f[i - 1])) + Len(s[i]) = at + (Len(f[i - 1]) + Len(s[i]))
        BY <2>3, OneBehindTheOther, Zenon
      <3>2. start[i - 1] + Len(s[i]) = (at + Len(f[i - 1])) + Len(s[i])
        BY <2>4, Zenon
      <3>3. start[i] = at + (Len(f[i - 1]) + Len(s[i]))
        BY <2>3, <2>4, Zenon
      <3>4. QED
        BY <3>1, <3>2, <3>3, Zenon
    <2>8. QED
      BY <2>4, <2>6, <2>7
  <1> HIDE DEF start
  <1>8. QED
    BY <1>5, <1>6, <1>7 DEF N, LieFrom

-----------------------------------------------------------------------------
(* One field after the other                                                   *)

LEMMA AStringThatIsAbsent ==
    ASSUME NEW data \in Seq(Int), NEW at \in Nat \ {0}, InFile(data, at, <<StringAbsent>>)
    PROVE  AfterString(data, at) = at + 1
  <1>1. at + 1 <= Len(data) + 1 /\ data[at] = 0
    BY DEF InFile, StringAbsent
  <1>2. Take(data, at, 1) = at + 1 /\ at + 1 # Lost
    BY <1>1 DEF Take, Lost
  <1>3. QED
    BY <1>1, <1>2 DEF AfterString, StringAbsent, StringPresent

LEMMA ATextIsRead ==
    ASSUME NEW data \in Seq(Int), NEW at \in Nat \ {0}, NEW name \in Int, InFile(data, at, CellsOf(name))
    PROVE  AfterString(data, at) = at + 3 /\ TextAt(data, at) = <<name>>
  <1>1. CellsOf(name) = <<StringPresent, 1, name>> /\ Len(CellsOf(name)) = 3
    BY DEF CellsOf
  <1>2. at + 3 <= Len(data) + 1 /\ data[at] = 11 /\ data[at + 1] = 1 /\ data[at + 2] = name
    <2>1. 1 \in 1..3 /\ 2 \in 1..3 /\ 3 \in 1..3 /\ at + 1 - 1 = at /\ at + 2 - 1 = at + 1 /\ at + 3 - 1 = at + 2
      OBVIOUS
    <2>2. /\ at + 3 <= Len(data) + 1
          /\ \A j \in 1..3 : data[at + j - 1] = CellsOf(name)[j]
      BY <1>1 DEF InFile
    <2>3. data[at + 1 - 1] = CellsOf(name)[1] /\ data[at + 2 - 1] = CellsOf(name)[2] /\ data[at + 3 - 1] = CellsOf(name)[3]
      BY <2>1, <2>2
    <2>4. CellsOf(name)[1] = 11 /\ CellsOf(name)[2] = 1 /\ CellsOf(name)[3] = name
      BY <1>1 DEF StringPresent
    <2>5. QED
      BY <2>1, <2>2, <2>3, <2>4
  <1>3. AfterString(data, at) = at + 3
    <2>1. /\ Take(data, at, 1) = at + 1 /\ Take(data, at, 2) = at + 2
          /\ Take(data, at + 2, 1) = at + 3
          /\ at + 1 # Lost /\ at + 2 # Lost
      BY <1>2 DEF Take, Lost
    <2>2. QED
      BY <1>2, <2>1 DEF AfterString, StringAbsent, StringPresent
  <1>4. TextAt(data, at) = SubSeq(data, at + 2, at + 2)
    BY <1>2 DEF TextAt, StringAbsent
  <1>5. SubSeq(data, at + 2, at + 2) = <<name>>
    <2>1. at + 2 \in Nat \ {0} /\ at + 2 <= Len(data) /\ Len(data) \in Nat
      BY <1>2
    <2>2. Len(SubSeq(data, at + 2, at + 2)) = 1 /\ SubSeq(data, at + 2, at + 2) \in Seq(Int)
      BY <2>1
    <2>3. SubSeq(data, at + 2, at + 2)[1] = data[at + 2]
      BY <2>1, SubSeqProperties
    <2>4. <<name>> \in Seq(Int) /\ Len(<<name>>) = 1 /\ <<name>>[1] = name
      OBVIOUS
    <2>5. \A i \in 1..1 : i = 1
      OBVIOUS
    <2>6. QED
      BY <1>2, <2>2, <2>3, <2>4, <2>5, SeqEqual
  <1>6. QED
    BY <1>3, <1>4, <1>5

LEMMA PointsAreRead ==
    ASSUME NEW data \in Seq(Int), NEW at \in Nat \ {0}, InFile(data, at, <<1, 7>>)
    PROVE  AfterPoints(data, at) = at + 2
  <1>1. at + 2 <= Len(data) + 1 /\ data[at] = 1
    BY DEF InFile
  <1>2. 1 \in 0..CountLimit
    BY OsuDbBounds
  <1>3. QED
    BY <1>1, <1>2 DEF AfterPoints, HasCount, Take, Lost

\* A layout the reader knows.
IsKnown(l) == l \in Layouts /\ l.extra = 0 /\ l.swapped = 0 /\ l.tag \in {TagSingle, TagDouble}

RatingOf(l) ==
    <<1, 8, l.tag>> \o (IF l.tag = TagSingle THEN <<l.number>> ELSE <<l.number>> \o <<l.number>>)

LEMMA ARatingIsRead ==
    ASSUME NEW data \in Seq(Int), NEW at \in Nat \ {0}, NEW l, IsKnown(l), InFile(data, at, RatingOf(l))
    PROVE  AfterRatings(data, at) = at + Len(RatingOf(l))
  <1>1. l.number \in Int /\ l.tag \in {12, 13}
    BY CellsAreNumbers DEF IsKnown, TagSingle, TagDouble
  <1>2. /\ Len(RatingOf(l)) = IF l.tag = 12 THEN 4 ELSE 5
        /\ RatingOf(l)[1] = 1 /\ RatingOf(l)[3] = l.tag
    BY <1>1 DEF RatingOf, TagSingle
  <1> DEFINE size == Len(RatingOf(l))
  <1>3. /\ at + size <= Len(data) + 1 /\ size \in {4, 5} /\ size = IF l.tag = 12 THEN 4 ELSE 5
        /\ data[at] = 1 /\ data[(at + 1) + 1] = l.tag
    <2>1. 1 \in 1..size /\ 3 \in 1..size /\ at + 1 - 1 = at /\ at + 3 - 1 = (at + 1) + 1
      BY <1>2
    <2>2. QED
      BY <1>1, <1>2, <2>1 DEF InFile
  <1> HIDE DEF size
  <1>4. 1 \in 0..CountLimit
    BY OsuDbBounds
  <1>5. AfterRating(data, at + 1) = at + size
    <2>1. /\ Take(data, at + 1, 2) # Lost
          /\ size = 4 => Take(data, at + 1, 3) = at + size
          /\ size = 5 => Take(data, at + 1, 4) = at + size
      BY <1>3 DEF Take, Lost
    <2>2. QED
      BY <1>1, <1>3, <2>1 DEF AfterRating, TagSingle, TagDouble
  <1> DEFINE body(f) == [k \in 0..1 |-> IF k = 0 THEN at + 1 ELSE AfterRating(data, f[k - 1])]
             after == CHOOSE f : f = body(f)
             g == [k \in 0..1 |-> IF k = 0 THEN at + 1 ELSE at + size]
  <1>6. g = body(g)
    BY <1>5
  <1>7. after = body(after)
    BY <1>6
  <1> HIDE DEF after
  <1>8. after[1] = at + size
    <2>1. after[0] = at + 1
      BY <1>7
    <2>2. after[1] = AfterRating(data, after[0])
      BY <1>7
    <2>3. QED
      BY <1>5, <2>1, <2>2
  <1>9. HasCount(data, at)
    BY <1>3, <1>4 DEF HasCount, Take, Lost
  <1>10. AfterRatings(data, at) = after[1]
    BY <1>3, <1>9 DEF AfterRatings, after
  <1>11. QED
    BY <1>8, <1>10 DEF size

\* An entry is its eleven fields, as they are.
IsFields(fields, m, entry, l) ==
    /\ fields \in Seq(Seq(Int)) /\ Len(fields) = 11
    /\ fields[1] = <<StringAbsent>> /\ fields[2] = CellsOf(HashOf(m, entry.hash)) /\ fields[3] = CellsOf(FileOf(m))
    /\ Len(fields[4]) = 1 /\ Len(fields[5]) = IF l.floats THEN 2 ELSE 1
    /\ fields[6] = IF l.floats THEN RatingOf(l) ELSE <<>>
    /\ fields[7] = <<1, 7>> /\ fields[8] = <<entry.offset>>
    /\ fields[9] = <<StringAbsent>> /\ fields[10] = CellsOf(FolderOf(m))
    /\ Len(fields[11]) = IF l.floats THEN 1 ELSE 2

LEMMA FieldsAreWritten ==
    ASSUME NEW m \in Int, NEW entry, entry.hash \in Int, entry.offset \in Int, NEW l, IsKnown(l)
    PROVE  /\ IsFields(FieldsOf(m, entry, l), m, entry, l)
           /\ WrittenEntry(m, entry, l) = FlattenSeq(FieldsOf(m, entry, l))
  <1> DEFINE number == <<l.number>>
             pair == number \o number
             absent == <<StringAbsent>>
             hash == CellsOf(HashOf(m, entry.hash))
             file == CellsOf(FileOf(m))
             folder == CellsOf(FolderOf(m))
             rating == <<1, 8, l.tag>> \o (IF l.tag = TagSingle THEN number ELSE pair)
             sixth == IF l.floats THEN rating ELSE <<>>
             fifth == IF l.floats THEN pair ELSE number
             last == IF l.floats THEN number ELSE pair
             points == <<1, 7>>
             offset == <<entry.offset>>
             fields == << absent, hash, file, number, fifth, sixth, points, offset, absent, folder, last >>
  <1>1. l.number \in Int /\ l.tag \in {12, 13} /\ l.floats \in BOOLEAN
    BY CellsAreNumbers DEF IsKnown, TagSingle, TagDouble
  <1>2. fields = FieldsOf(m, entry, l)
    BY DEF FieldsOf
  <1>3. /\ number \in Seq(Int) /\ Len(number) = 1
        /\ pair \in Seq(Int) /\ Len(pair) = 2
        /\ absent \in Seq(Int) /\ points \in Seq(Int) /\ offset \in Seq(Int)
    BY <1>1 DEF StringAbsent
  <1>4. hash \in Seq(Int) /\ file \in Seq(Int) /\ folder \in Seq(Int)
    BY DEF CellsOf, HashOf, FileOf, FolderOf, StringPresent
  <1> HIDE DEF number, pair, absent, hash, file, folder, points, offset
  <1>5. rating \in Seq(Int)
    BY <1>1, <1>3
  <1>6. rating = RatingOf(l)
    BY DEF rating, RatingOf, number, pair
  <1> HIDE DEF rating
  <1>7. sixth \in Seq(Int) /\ sixth = IF l.floats THEN RatingOf(l) ELSE <<>>
    BY <1>1, <1>5, <1>6
  <1>8. /\ fifth \in Seq(Int) /\ Len(fifth) = IF l.floats THEN 2 ELSE 1
        /\ last \in Seq(Int) /\ Len(last) = IF l.floats THEN 1 ELSE 2
    BY <1>1, <1>3
  <1> HIDE DEF sixth, fifth, last
  <1>9. fields \in Seq(Seq(Int)) /\ Len(fields) = 11
    BY <1>3, <1>4, <1>7, <1>8
  <1>10. IsFields(fields, m, entry, l)
    BY <1>3, <1>7, <1>8, <1>9 DEF IsFields, absent, hash, file, folder, points, offset
  <1> HIDE DEF fields
  <1>11. WrittenEntry(m, entry, l) = FlattenSeq(fields)
    <2>1. DOMAIN fields = 1..11 /\ fields = [k \in 1..11 |-> fields[k]]
      BY <1>9
    <2>2. l.extra = 0 /\ l.swapped = 0 /\ \A k \in 1..11 : k # 0
      BY DEF IsKnown
    <2> DEFINE placed == [k \in DOMAIN fields |-> CASE l.swapped # 0 /\ k = l.swapped -> fields[k + 1]
                                                    [] l.swapped # 0 /\ k = l.swapped + 1 -> fields[k - 1]
                                                    [] OTHER -> fields[k]]
               written == [k \in DOMAIN fields |-> IF k = l.extra THEN placed[k] \o <<l.number>> ELSE placed[k]]
    <2>3. \A k \in 1..11 : placed[k] = fields[k]
      BY <2>1, <2>2
    <2> HIDE DEF placed
    <2>4. written = fields
      BY <2>1, <2>2, <2>3
    <2>5. WrittenEntry(m, entry, l) = FlattenSeq(written)
      BY <1>2 DEF WrittenEntry, placed, written
    <2>6. QED
      BY <2>4, <2>5
  <1>12. QED
    BY <1>2, <1>10, <1>11

IsEntry(entry) == entry.hash \in Int /\ entry.offset \in Int

\* A file whose first cell says what its layout is.
IsFileOf(data, l) == data \in Seq(Int) /\ IsKnown(l) /\ data[1] = IF l.floats THEN 1 ELSE 0

FieldIsRead(data, k, at, m, entry) ==
    /\ k = 2 => TextAt(data, at) = <<HashOf(m, entry.hash)>>
    /\ k = 3 => TextAt(data, at) = <<FileOf(m)>>
    /\ k = 8 => data[at] = entry.offset
    /\ k = 10 => TextAt(data, at) = <<FolderOf(m)>>

LEMMA EveryFieldIsRead ==
    ASSUME NEW data, NEW at \in Nat \ {0}, NEW l, IsFileOf(data, l),
           NEW m \in Int, NEW entry, IsEntry(entry),
           NEW fields, IsFields(fields, m, entry, l),
           NEW k \in 1..11, InFile(data, at, fields[k])
    PROVE  AfterField(data, k, at) = at + Len(fields[k]) /\ FieldIsRead(data, k, at, m, entry)
  <1>1. data \in Seq(Int) /\ IsKnown(l)
    BY DEF IsFileOf
  <1>2. l.floats \in BOOLEAN /\ (data[1] = 1 <=> l.floats)
    BY CellsAreNumbers DEF IsFileOf, IsKnown
  <1>3. HashOf(m, entry.hash) \in Int /\ FileOf(m) \in Int /\ FolderOf(m) \in Int
    BY DEF HashOf, FileOf, FolderOf, IsEntry
  <1>4. fields[k] \in Seq(Int) /\ Take(data, at, Len(fields[k])) = at + Len(fields[k])
    <2>1. fields \in Seq(Seq(Int)) /\ k \in 1..Len(fields)
      BY DEF IsFields
    <2>2. fields[k] \in Seq(Int)
      BY <2>1
    <2>3. QED
      BY <1>1, <2>2, WhatIsInFile
  <1>5. CASE k \in {1, 9}
    <2>1. fields[k] = <<StringAbsent>>
      BY <1>5 DEF IsFields
    <2>2. AfterString(data, at) = at + 1 /\ Len(<<StringAbsent>>) = 1
      BY <1>1, <2>1, AStringThatIsAbsent
    <2>3. AfterField(data, k, at) = AfterString(data, at)
      BY <1>5 DEF AfterField
    <2>4. QED
      BY <1>5, <2>1, <2>2, <2>3 DEF FieldIsRead
  <1>6. ASSUME NEW name \in Int, fields[k] = CellsOf(name), k \in {2, 3, 10}
        PROVE  AfterField(data, k, at) = at + Len(fields[k]) /\ TextAt(data, at) = <<name>>
    <2>1. AfterString(data, at) = at + 3 /\ TextAt(data, at) = <<name>>
      BY <1>1, <1>6, ATextIsRead
    <2>2. Len(fields[k]) = 3
      BY <1>6 DEF CellsOf
    <2>3. AfterField(data, k, at) = AfterString(data, at)
      BY <1>6 DEF AfterField
    <2>4. QED
      BY <2>1, <2>2, <2>3
  <1>7. CASE k = 2
    <2>1. fields[k] = CellsOf(HashOf(m, entry.hash))
      BY <1>7 DEF IsFields
    <2>2. QED
      BY <1>3, <1>6, <1>7, <2>1 DEF FieldIsRead
  <1>8. CASE k = 3
    <2>1. fields[k] = CellsOf(FileOf(m))
      BY <1>8 DEF IsFields
    <2>2. QED
      BY <1>3, <1>6, <1>8, <2>1 DEF FieldIsRead
  <1>9. CASE k = 10
    <2>1. fields[k] = CellsOf(FolderOf(m))
      BY <1>9 DEF IsFields
    <2>2. QED
      BY <1>3, <1>6, <1>9, <2>1 DEF FieldIsRead
  <1>10. CASE k = 4
    <2>1. Len(fields[k]) = 1
      BY <1>10 DEF IsFields
    <2>2. QED
      BY <1>4, <1>10, <2>1 DEF AfterField, FieldIsRead
  <1>11. CASE k = 8
    <2>1. fields[k] = <<entry.offset>>
      BY <1>11 DEF IsFields
    <2>2. Len(fields[k]) = 1 /\ data[at] = entry.offset
      BY <2>1 DEF InFile
    <2>3. QED
      BY <1>4, <1>11, <2>2 DEF AfterField, FieldIsRead
  <1>12. CASE k = 5
    <2>1. Len(fields[k]) = IF l.floats THEN 2 ELSE 1
      BY <1>12 DEF IsFields
    <2>2. QED
      BY <1>2, <1>4, <1>12, <2>1 DEF AfterField, FieldIsRead
  <1>13. CASE k = 11
    <2>1. Len(fields[k]) = IF l.floats THEN 1 ELSE 2
      BY <1>13 DEF IsFields
    <2>2. QED
      BY <1>2, <1>4, <1>13, <2>1 DEF AfterField, FieldIsRead
  <1>14. CASE k = 6
    <2>1. fields[k] = IF l.floats THEN RatingOf(l) ELSE <<>>
      BY <1>14 DEF IsFields
    <2>2. CASE l.floats
      <3>1. InFile(data, at, RatingOf(l)) /\ fields[k] = RatingOf(l)
        BY <2>1, <2>2
      <3>2. AfterRatings(data, at) = at + Len(fields[k])
        BY <1>1, <3>1, ARatingIsRead
      <3>3. QED
        BY <1>2, <1>14, <2>2, <3>2 DEF AfterField, FieldIsRead
    <2>3. CASE ~l.floats
      <3>1. at + Len(fields[k]) = at
        BY <2>1, <2>3
      <3>2. QED
        BY <1>2, <1>14, <2>3, <3>1 DEF AfterField, FieldIsRead
    <2>4. QED
      BY <1>2, <2>2, <2>3
  <1>15. CASE k = 7
    <2>1. fields[k] = <<1, 7>>
      BY <1>15 DEF IsFields
    <2>2. AfterPoints(data, at) = at + 2 /\ Len(fields[k]) = 2
      BY <1>1, <2>1, PointsAreRead
    <2>3. QED
      BY <1>15, <2>2 DEF AfterField, FieldIsRead
  <1>16. k \in {1, 2, 3, 4, 5, 6, 7, 8, 9, 10, 11}
    OBVIOUS
  <1>17. QED
    BY <1>5, <1>7, <1>8, <1>9, <1>10, <1>11, <1>12, <1>13, <1>14, <1>15, <1>16

\* What the reader should make of an entry.
EntryOf(m, entry) ==
    [hash |-> <<HashOf(m, entry.hash)>>, file |-> <<FileOf(m)>>,
     offset |-> entry.offset, folder |-> <<FolderOf(m)>>]

AreEnds(data, at, ends) ==
    /\ ends = [k \in 0..11 |-> ends[k]] /\ ends[0] = at
    /\ \A k \in 1..11 : ends[k] = AfterField(data, k, ends[k - 1])

LEMMA TheEndsAre ==
    ASSUME NEW data, NEW at, NEW start, AreEnds(data, at, start)
    PROVE  FieldEnds(data, at) = start
  <1> DEFINE body(f) == [k \in 0..11 |-> IF k = 0 THEN at ELSE AfterField(data, k, f[k - 1])]
             ends == CHOOSE f : f = body(f)
  <1>1. FieldEnds(data, at) = ends
    BY DEF FieldEnds
  <1>2. start = body(start)
    <2>1. \A k \in 0..11 : k = 0 \/ k \in 1..11
      OBVIOUS
    <2>2. \A k \in 0..11 : start[k] = body(start)[k]
      BY <2>1 DEF AreEnds
    <2>3. start = [k \in 0..11 |-> start[k]]
      BY DEF AreEnds
    <2>4. QED
      BY <2>2, <2>3
  <1>3. ends = body(ends)
    BY <1>2
  <1> HIDE DEF ends
  <1>4. ends[0] = at
    BY <1>3
  <1>5. \A k \in 1..11 : ends[k] = AfterField(data, k, ends[k - 1])
    <2>1. \A k \in 1..11 : k \in 0..11 /\ k # 0
      OBVIOUS
    <2>2. QED
      BY <1>3, <2>1
  <1> DEFINE Bad == {k \in 0..11 : ends[k] # start[k]}
  <1>6. Bad = {}
    <2> SUFFICES ASSUME Bad # {} PROVE FALSE
      OBVIOUS
    <2>1. Bad \subseteq Nat
      OBVIOUS
    <2>2. PICK k \in Bad : \A n \in Bad : k <= n
      BY <2>1, ASetHasALeast, Zenon
    <2>3. k \in 0..11 /\ ends[k] # start[k]
      BY <2>2
    <2>4. k \in 1..11 /\ k - 1 \in 0..11 /\ ~(k <= k - 1)
      BY <1>4, <2>3 DEF AreEnds
    <2>5. ends[k - 1] = start[k - 1]
      BY <2>2, <2>4
    <2>6. start[k] = AfterField(data, k, start[k - 1])
      BY <2>4 DEF AreEnds
    <2>7. QED
      BY <1>5, <2>3, <2>4, <2>5, <2>6
  <1>7. ends = [k \in 0..11 |-> ends[k]] /\ start = [k \in 0..11 |-> start[k]]
    BY <1>3 DEF AreEnds
  <1>8. \A k \in 0..11 : ends[k] = start[k]
    BY <1>6
  <1>9. ends = start
    BY <1>7, <1>8
  <1>10. QED
    BY <1>1, <1>9

\* The reader ends each field of an entry where the game did.
LEMMA AnEntryIsRead ==
    ASSUME NEW data, NEW at \in Nat \ {0}, NEW l, IsFileOf(data, l),
           NEW m \in Int, NEW entry, IsEntry(entry),
           InFile(data, at, WrittenEntry(m, entry, l))
    PROVE  /\ EntryAt(data, at) = EntryOf(m, entry)
           /\ FieldEnds(data, at)[11] = at + Len(WrittenEntry(m, entry, l))
  <1> DEFINE fields == FieldsOf(m, entry, l)
  <1>1. IsFields(fields, m, entry, l) /\ WrittenEntry(m, entry, l) = FlattenSeq(fields)
    BY FieldsAreWritten DEF IsFileOf, IsEntry
  <1>2. fields \in Seq(Seq(Int)) /\ Len(fields) = 11
    BY <1>1 DEF IsFields
  <1> HIDE DEF fields
  <1>3. PICK start : LieFrom(data, at, fields, start)
    <2>1. Len(fields) > 0 /\ InFile(data, at, FlattenSeq(fields)) /\ data \in Seq(Int)
      BY <1>1, <1>2 DEF IsFileOf
    <2>2. QED
      BY <1>2, <2>1, PartsOfFlattened
  <1>4. ASSUME NEW k \in 1..11
        PROVE  start[k] = AfterField(data, k, start[k - 1]) /\ FieldIsRead(data, k, start[k - 1], m, entry)
    <2>1. k - 1 \in 0..11
      OBVIOUS
    <2>2. start[k - 1] \in Nat \ {0}
      BY <1>2, <1>3, <2>1 DEF LieFrom
    <2>3. start[k] = start[k - 1] + Len(fields[k]) /\ InFile(data, start[k - 1], fields[k])
      BY <1>2, <1>3 DEF LieFrom
    <2>4. AfterField(data, k, start[k - 1]) = start[k - 1] + Len(fields[k]) /\ FieldIsRead(data, k, start[k - 1], m, entry)
      BY <1>1, <2>2, <2>3, EveryFieldIsRead
    <2>5. QED
      BY <2>3, <2>4
  <1>5. FieldEnds(data, at) = start
    <2>1. start = [k \in 0..11 |-> start[k]] /\ start[0] = at
      BY <1>2, <1>3 DEF LieFrom
    <2>2. AreEnds(data, at, start)
      BY <1>4, <2>1 DEF AreEnds
    <2>3. QED
      BY <2>2, TheEndsAre
  <1>6. /\ TextAt(data, start[1]) = <<HashOf(m, entry.hash)>>
        /\ TextAt(data, start[2]) = <<FileOf(m)>>
        /\ data[start[7]] = entry.offset
        /\ TextAt(data, start[9]) = <<FolderOf(m)>>
    <2>1. 2 - 1 = 1 /\ 3 - 1 = 2 /\ 8 - 1 = 7 /\ 10 - 1 = 9 /\ {2, 3, 8, 10} \subseteq 1..11
      OBVIOUS
    <2>2. QED
      BY <1>4, <2>1 DEF FieldIsRead
  <1>7. EntryAt(data, at) = EntryOf(m, entry)
    BY <1>5, <1>6 DEF EntryAt, EntryOf
  <1>8. start[11] = at + Len(FlattenSeq(fields))
    BY <1>2, <1>3 DEF LieFrom
  <1>9. QED
    BY <1>1, <1>5, <1>7, <1>8

-----------------------------------------------------------------------------
(* The whole file                                                              *)

Indexes == [Maps -> [hash : {0, 1}, offset : Int]]
EntriesOf(i) == [n \in 1..MapCount |-> EntryOf(n, i[n])]

LEMMA FlattenedIsASequence ==
    ASSUME NEW s \in Seq(Seq(Int)), Len(s) > 0
    PROVE  FlattenSeq(s) \in Seq(Int)
  <1>1. PICK f \in [0..Len(s) -> Seq(Int)] : f[Len(s)] = FlattenSeq(s)
    BY FlattenedOneByOne
  <1>2. Len(s) \in 0..Len(s)
    OBVIOUS
  <1>3. QED
    BY <1>1, <1>2

LEMMA EntriesAreSequences ==
    ASSUME NEW m \in Int, NEW entry, IsEntry(entry), NEW l, IsKnown(l)
    PROVE  WrittenEntry(m, entry, l) \in Seq(Int) /\ Len(WrittenEntry(m, entry, l)) \in Nat
  <1> DEFINE fields == FieldsOf(m, entry, l)
             written == WrittenEntry(m, entry, l)
  <1>1. IsFields(fields, m, entry, l) /\ written = FlattenSeq(fields)
    BY FieldsAreWritten DEF IsEntry
  <1> HIDE DEF fields, written
  <1>2. fields \in Seq(Seq(Int)) /\ Len(fields) > 0
    BY <1>1 DEF IsFields
  <1>3. written \in Seq(Int)
    BY <1>1, <1>2, FlattenedIsASequence
  <1>4. QED
    BY <1>3 DEF written

AreStarts(data, start) ==
    /\ start = [n \in 0..MapCount |-> start[n]] /\ start[0] = 3
    /\ \A n \in 1..MapCount :
         start[n] = IF start[n - 1] = Lost THEN Lost ELSE FieldEnds(data, start[n - 1])[11]

LEMMA TheStartsAre ==
    ASSUME NEW data, NEW start, data[2] = MapCount, AreStarts(data, start)
    PROVE  StartsOf(data) = start
  <1> DEFINE body(f) ==
               [n \in 0..data[2] |->
                  IF n = 0 THEN 3 ELSE IF f[n - 1] = Lost THEN Lost ELSE FieldEnds(data, f[n - 1])[11]]
             starts == CHOOSE f : f = body(f)
  <1>1. StartsOf(data) = starts
    BY DEF StartsOf
  <1>2. MapCount \in Nat
    BY OsuDbBounds
  <1>3. start = body(start)
    <2>1. \A n \in 0..MapCount : n = 0 \/ n \in 1..MapCount
      BY <1>2
    <2>2. \A n \in 0..MapCount : start[n] = body(start)[n]
      BY <2>1 DEF AreStarts
    <2>3. start = [n \in 0..MapCount |-> start[n]]
      BY DEF AreStarts
    <2>4. QED
      BY <2>2, <2>3
  <1>4. starts = body(starts)
    BY <1>3
  <1> HIDE DEF starts
  <1>5. starts[0] = 3
    BY <1>2, <1>4
  <1>6. \A n \in 1..MapCount :
          starts[n] = IF starts[n - 1] = Lost THEN Lost ELSE FieldEnds(data, starts[n - 1])[11]
    <2>1. \A n \in 1..MapCount : n \in 0..MapCount /\ n # 0
      BY <1>2
    <2>2. QED
      BY <1>4, <2>1
  <1> DEFINE Bad == {n \in 0..MapCount : starts[n] # start[n]}
  <1>7. Bad = {}
    <2> SUFFICES ASSUME Bad # {} PROVE FALSE
      OBVIOUS
    <2>1. Bad \subseteq Nat
      BY <1>2
    <2>2. PICK n \in Bad : \A k \in Bad : n <= k
      BY <2>1, ASetHasALeast, Zenon
    <2>3. n \in 0..MapCount /\ starts[n] # start[n]
      BY <2>2
    <2>4. n \in 1..MapCount /\ n - 1 \in 0..MapCount /\ ~(n <= n - 1)
      BY <1>2, <1>5, <2>3 DEF AreStarts
    <2>5. starts[n - 1] = start[n - 1]
      BY <2>2, <2>4
    <2>6. start[n] = IF start[n - 1] = Lost THEN Lost ELSE FieldEnds(data, start[n - 1])[11]
      BY <2>4 DEF AreStarts
    <2>7. QED
      BY <1>6, <2>3, <2>4, <2>5, <2>6
  <1>8. starts = [n \in 0..MapCount |-> starts[n]] /\ start = [n \in 0..MapCount |-> start[n]]
    BY <1>4 DEF AreStarts
  <1>9. \A n \in 0..MapCount : starts[n] = start[n]
    BY <1>7
  <1>10. starts = start
    BY <1>8, <1>9
  <1>11. QED
    BY <1>1, <1>10

\* Where the entries begin in a file, and where the last one ends.
EntriesLie(i, l, start) ==
    /\ start \in [0..MapCount -> Nat \ {0}]
    /\ start[0] = 3 /\ start[MapCount] = Len(Written(i, l)) + 1
    /\ \A n \in 1..MapCount :
         /\ start[n] = start[n - 1] + Len(WrittenEntry(n, i[n], l))
         /\ InFile(Written(i, l), start[n - 1], WrittenEntry(n, i[n], l))

LEMMA TheFileHasEntries ==
    ASSUME NEW i \in Indexes, NEW l, IsKnown(l)
    PROVE  /\ IsFileOf(Written(i, l), l) /\ Len(Written(i, l)) >= 2 /\ Written(i, l)[2] = MapCount
           /\ \E start : EntriesLie(i, l, start)
  <1> DEFINE head == <<IF l.floats THEN 1 ELSE 0, MapCount>>
             entries == [m \in Maps |-> WrittenEntry(m, i[m], l)]
             data == Written(i, l)
  <1>1. MapCount \in Nat \ {0} /\ Maps = 1..MapCount /\ MapCount \in 0..CountLimit
    BY OsuDbBounds DEF Maps
  <1>2. \A m \in 1..MapCount : m \in Int /\ IsEntry(i[m])
    BY <1>1 DEF Indexes, IsEntry
  <1>3. \A m \in 1..MapCount : WrittenEntry(m, i[m], l) \in Seq(Int)
    BY <1>2, EntriesAreSequences
  <1>4. entries \in Seq(Seq(Int)) /\ Len(entries) = MapCount
    BY <1>1, <1>3
  <1>5. \A m \in 1..MapCount : entries[m] = WrittenEntry(m, i[m], l)
    BY <1>1
  <1>6. data = head \o FlattenSeq(entries)
    BY DEF Written
  <1> HIDE DEF entries, data
  <1>7. FlattenSeq(entries) \in Seq(Int)
    BY <1>1, <1>4, FlattenedIsASequence
  <1>8. head \in Seq(Int) /\ Len(head) = 2 /\ head[1] = (IF l.floats THEN 1 ELSE 0) /\ head[2] = MapCount
    BY <1>1
  <1> HIDE DEF head
  <1>9. /\ data \in Seq(Int) /\ Len(data) >= 2 /\ data[1] = (IF l.floats THEN 1 ELSE 0) /\ data[2] = MapCount
        /\ Len(data) = Len(head) + Len(FlattenSeq(entries)) /\ Len(FlattenSeq(entries)) \in Nat
    <2> DEFINE rest == FlattenSeq(entries)
    <2>1. rest \in Seq(Int)
      BY <1>7
    <2> HIDE DEF rest
    <2>2. /\ head \o rest \in Seq(Int) /\ Len(head \o rest) >= 2
          /\ Len(head \o rest) = Len(head) + Len(rest) /\ Len(rest) \in Nat
          /\ (head \o rest)[1] = head[1] /\ (head \o rest)[2] = head[2]
      <3>1. /\ head \o rest \in Seq(Int) /\ Len(head \o rest) = Len(head) + Len(rest)
            /\ \A j \in 1..(Len(head) + Len(rest)) :
                 (head \o rest)[j] = IF j <= Len(head) THEN head[j] ELSE rest[j - Len(head)]
        BY <1>8, <2>1, ConcatProperties, Zenon
      <3>2. Len(rest) \in Nat
        BY <2>1
      <3>3. QED
        BY <1>8, <3>1, <3>2
    <2>3. data = head \o rest
      BY <1>6 DEF rest
    <2>4. QED
      BY <1>8, <2>2, <2>3 DEF rest
  <1>10. IsFileOf(data, l)
    BY <1>9 DEF IsFileOf
  <1>11. InFile(data, 3, FlattenSeq(entries))
    <2>1. InFile(data, 1, head \o FlattenSeq(entries))
      BY <1>6, <1>9 DEF InFile
    <2>2. 1 \in Nat \ {0} /\ 1 + Len(head) = 3
      BY <1>8
    <2>3. InFile(data, 1 + Len(head), FlattenSeq(entries))
      BY <1>7, <1>8, <1>9, <2>1, <2>2, PartsAreInFile
    <2>4. QED
      BY <2>2, <2>3
  <1>12. PICK start : LieFrom(data, 3, entries, start)
    <2>1. 3 \in Nat \ {0} /\ Len(entries) > 0
      BY <1>1, <1>4
    <2>2. QED
      BY <1>4, <1>9, <1>11, <2>1, PartsOfFlattened
  <1>13. start \in [0..MapCount -> Nat \ {0}] /\ start[0] = 3
    BY <1>4, <1>12 DEF LieFrom
  <1>14. start[MapCount] = Len(data) + 1
    <2>1. start[MapCount] = 3 + Len(FlattenSeq(entries))
      BY <1>4, <1>12 DEF LieFrom
    <2>2. QED
      BY <1>8, <1>9, <2>1
  <1>15. ASSUME NEW n \in 1..MapCount
         PROVE  /\ start[n] = start[n - 1] + Len(WrittenEntry(n, i[n], l))
                /\ InFile(data, start[n - 1], WrittenEntry(n, i[n], l))
    <2>1. start[n] = start[n - 1] + Len(entries[n]) /\ InFile(data, start[n - 1], entries[n])
      BY <1>4, <1>12 DEF LieFrom
    <2>2. QED
      BY <1>5, <2>1
  <1>16. EntriesLie(i, l, start)
    BY <1>13, <1>14, <1>15 DEF EntriesLie, data
  <1>17. QED
    BY <1>9, <1>10, <1>16 DEF data

\* A whole file of a layout the reader knows is read as what was written.
LEMMA AWholeFileIsRead ==
    ASSUME NEW i \in Indexes, NEW l, IsKnown(l)
    PROVE  ParseIndex(Written(i, l)) = [ok |-> TRUE, entries |-> EntriesOf(i)]
  <1> DEFINE data == Written(i, l)
  <1>1. /\ IsFileOf(data, l) /\ Len(data) >= 2 /\ data[2] = MapCount
        /\ \E start : EntriesLie(i, l, start)
    BY TheFileHasEntries
  <1>2. PICK start : EntriesLie(i, l, start)
    BY <1>1
  <1>3. /\ MapCount \in Nat \ {0} /\ MapCount \in 0..CountLimit
        /\ \A m \in 1..MapCount : m \in Int /\ IsEntry(i[m])
    BY OsuDbBounds DEF Indexes, IsEntry, Maps
  <1>4. start \in [0..MapCount -> Nat \ {0}] /\ start[0] = 3
    BY <1>2 DEF EntriesLie
  <1>5. ASSUME NEW n \in 1..MapCount
        PROVE  /\ start[n] = IF start[n - 1] = Lost THEN Lost ELSE FieldEnds(data, start[n - 1])[11]
               /\ EntryAt(data, start[n - 1]) = EntryOf(n, i[n])
    <2>1. n - 1 \in 0..MapCount
      BY <1>3
    <2>2. start[n - 1] \in Nat \ {0} /\ start[n - 1] # Lost
      BY <1>4, <2>1 DEF Lost
    <2>3. /\ start[n] = start[n - 1] + Len(WrittenEntry(n, i[n], l))
          /\ InFile(data, start[n - 1], WrittenEntry(n, i[n], l))
      BY <1>2 DEF EntriesLie
    <2> HIDE DEF data
    <2>4. /\ EntryAt(data, start[n - 1]) = EntryOf(n, i[n])
          /\ FieldEnds(data, start[n - 1])[11] = start[n - 1] + Len(WrittenEntry(n, i[n], l))
      BY <1>1, <1>3, <2>2, <2>3, AnEntryIsRead
    <2>5. QED
      BY <2>2, <2>3, <2>4
  <1> HIDE DEF data
  <1>6. StartsOf(data) = start
    <2>1. AreStarts(data, start)
      BY <1>4, <1>5 DEF AreStarts
    <2>2. QED
      BY <1>1, <2>1, TheStartsAre
  <1>7. HasCount(data, 2)
    BY <1>1, <1>3 DEF HasCount, Take, Lost, IsFileOf
  <1>8. start[MapCount] # Lost
    BY <1>3, <1>4 DEF Lost
  <1>9. ParseIndex(data) = [ok |-> TRUE, entries |-> [n \in 1..MapCount |-> EntryAt(data, start[n - 1])]]
    BY <1>1, <1>6, <1>7, <1>8 DEF ParseIndex
  <1>10. [n \in 1..MapCount |-> EntryAt(data, start[n - 1])] = EntriesOf(i)
    BY <1>5 DEF EntriesOf
  <1>11. QED
    BY <1>9, <1>10 DEF data

-----------------------------------------------------------------------------
(* A faithful index is believed                                                *)

\* Contents other than the first are the last a map gets.
IsOf(i, lib) == \A m \in Maps : i[m].hash # 0 => lib[m] = i[m].hash
Agrees == \A m \in Maps : library[m] = reader.source.of[m].hash
IsFaithful == IsKnown(layout) /\ reader.source.whole /\ Agrees

\* What was read of a whole file of a known layout.
HasReadIt ==
    /\ reader.source.of \in Indexes /\ IsOf(reader.source.of, library)
    /\ IsKnown(layout) /\ reader.source.whole => reader.entries = EntriesOf(reader.source.of)

FaithInv ==
    /\ layout \in Layouts
    /\ index \in Indexes /\ IsOf(index, library)
    /\ library \in [Maps -> {Deleted, 0, 1}]
    /\ saved.of \in Indexes /\ IsOf(saved.of, library)
    /\ saved.whole => disk = Written(saved.of, layout)
    /\ saved = [of |-> saved.of, whole |-> saved.whole]
    /\ reader = [pc |-> reader.pc, entries |-> reader.entries, checked |-> reader.checked,
                 matched |-> reader.matched, held |-> reader.held, source |-> reader.source]
    /\ reader.pc \in {"read", "verify", "done"}
    /\ reader.pc = "read" => reader = Start
    /\ reader.pc # "read" => HasReadIt
    /\ reader.pc = "verify" /\ IsFaithful =>
         reader.checked \in 0..MapCount /\ reader.matched = reader.checked
    /\ reader.pc = "done" /\ IsFaithful => IsBelieved

LEMMA TheIndexMatches ==
    ASSUME NEW i \in Indexes, NEW n \in 1..MapCount, library[n] = i[n].hash
    PROVE  Matches(EntriesOf(i)[n])
  <1>1. n \in Maps /\ i[n].hash \in {0, 1}
    BY DEF Maps, Indexes
  <1>2. EntriesOf(i)[n] = EntryOf(n, i[n])
    BY DEF EntriesOf
  <1>3. Names(EntryOf(n, i[n]), n) /\ EntryOf(n, i[n]).hash = <<HashOf(n, library[n])>> /\ library[n] # Deleted
    BY <1>1 DEF Names, EntryOf, Deleted
  <1>4. QED
    BY <1>1, <1>2, <1>3 DEF Matches

LEMMA FaithInitially == OsuDbInit => FaithInv
  <1> SUFFICES ASSUME OsuDbInit PROVE FaithInv
    OBVIOUS
  <1>1. PICK offsets \in FirstOffsets : index = [m \in Maps |-> [hash |-> 0, offset |-> offsets[m]]]
    BY DEF OsuDbInit
  <1>2. offsets \in [Maps -> Int]
    BY CellsAreNumbers DEF Maps
  <1>3. index \in Indexes /\ \A m \in Maps : index[m].hash = 0
    BY <1>1, <1>2 DEF Indexes
  <1>4. /\ layout \in Layouts /\ library = [m \in Maps |-> 0] /\ disk = Written(index, layout)
        /\ saved = [of |-> index, whole |-> TRUE] /\ reader = Start
    BY DEF OsuDbInit
  <1>5. IsOf(index, library) /\ library \in [Maps -> {Deleted, 0, 1}]
    BY <1>3, <1>4 DEF IsOf
  <1>6. saved.of = index /\ saved = [of |-> saved.of, whole |-> saved.whole]
    BY <1>4
  <1>7. /\ reader.pc = "read"
        /\ reader = [pc |-> reader.pc, entries |-> reader.entries, checked |-> reader.checked,
                     matched |-> reader.matched, held |-> reader.held, source |-> reader.source]
    BY <1>4 DEF Start
  <1>8. QED
    BY <1>3, <1>4, <1>5, <1>6, <1>7 DEF FaithInv

LEMMA ReadingKeepsFaith ==
    ASSUME FaithInv, ReadFile
    PROVE  FaithInv'
  <1> DEFINE parsed == ParseIndex(disk)
             r == reader'
  <1>1. layout' = layout /\ index' = index /\ library' = library /\ disk' = disk /\ saved' = saved
    BY DEF ReadFile
  <1>2. reader = Start
    BY DEF FaithInv, ReadFile
  <1>3. r = [pc |-> IF parsed.ok THEN "verify" ELSE "done", entries |-> parsed.entries, checked |-> 0, matched |-> 0,
             held |-> IF parsed.ok THEN NothingHeld("none yet") ELSE NothingHeld("unreadable"), source |-> saved]
    BY <1>2 DEF ReadFile, Start
  <1>4. IsKnown(layout) /\ saved.whole => parsed.ok = TRUE /\ parsed.entries = EntriesOf(saved.of)
    <2>1. SUFFICES ASSUME IsKnown(layout), saved.whole PROVE parsed.ok = TRUE /\ parsed.entries = EntriesOf(saved.of)
      OBVIOUS
    <2>2. disk = Written(saved.of, layout) /\ saved.of \in Indexes
      BY <2>1 DEF FaithInv
    <2>3. parsed = [ok |-> TRUE, entries |-> EntriesOf(saved.of)]
      BY <2>1, <2>2, AWholeFileIsRead
    <2>4. QED
      BY <2>3
  <1> HIDE DEF parsed
  <1>5. /\ r.pc \in {"verify", "done"} /\ r.entries = parsed.entries /\ r.source = saved
        /\ r.checked = 0 /\ r.matched = 0
        /\ r = [pc |-> r.pc, entries |-> r.entries, checked |-> r.checked,
                matched |-> r.matched, held |-> r.held, source |-> r.source]
    BY <1>3
  <1>6. parsed.ok = TRUE => r.pc = "verify"
    BY <1>3
  <1>7. HasReadIt'
    BY <1>1, <1>4, <1>5 DEF HasReadIt, FaithInv
  <1>8. IsFaithful' => r.pc = "verify"
    BY <1>1, <1>4, <1>5, <1>6 DEF IsFaithful
  <1>9. r.checked \in 0..MapCount
    BY <1>5, OsuDbBounds
  <1>10. QED
    BY <1>1, <1>5, <1>7, <1>8, <1>9 DEF FaithInv, IsOf

\* While nothing but the reader moves, what it holds of the file is as faithful.
LEMMA VerifyingKeepsFaith ==
    ASSUME FaithInv, VerifyEntry
    PROVE  FaithInv'
  <1> DEFINE n == reader.checked + 1
             r == reader'
  <1>1. layout' = layout /\ index' = index /\ library' = library /\ disk' = disk /\ saved' = saved
    BY DEF VerifyEntry
  <1>2. r = [pc |-> "verify", entries |-> reader.entries, checked |-> n,
             matched |-> IF Matches(reader.entries[n]) THEN reader.matched + 1 ELSE reader.matched,
             held |-> reader.held, source |-> reader.source]
    BY DEF VerifyEntry, FaithInv
  <1>3. HasReadIt /\ reader.pc = "verify"
    BY DEF VerifyEntry, FaithInv
  <1>4. /\ r.pc = "verify" /\ r.entries = reader.entries /\ r.source = reader.source /\ r.held = reader.held
        /\ r.checked = n /\ r.matched = IF Matches(reader.entries[n]) THEN reader.matched + 1 ELSE reader.matched
        /\ r = [pc |-> r.pc, entries |-> r.entries, checked |-> r.checked,
                matched |-> r.matched, held |-> r.held, source |-> r.source]
    BY <1>2
  <1>5. HasReadIt'
    BY <1>1, <1>3, <1>4 DEF HasReadIt, IsOf
  <1>6. IsFaithful' => IsFaithful
    BY <1>1, <1>4 DEF IsFaithful, Agrees
  <1>7. ASSUME IsFaithful
        PROVE  r.checked \in 0..MapCount /\ r.matched = r.checked
    <2>1. reader.checked \in 0..MapCount /\ reader.matched = reader.checked
      BY <1>3, <1>7 DEF FaithInv
    <2>2. reader.entries = EntriesOf(reader.source.of) /\ reader.source.of \in Indexes /\ IsOf(reader.source.of, library)
      BY <1>3, <1>7 DEF HasReadIt, IsFaithful
    <2>3. MapCount \in Nat
      BY OsuDbBounds
    <2>4. Len(reader.entries) = MapCount
      BY <2>2, <2>3 DEF EntriesOf
    <2>5. n \in 1..MapCount
      BY <2>1, <2>3, <2>4 DEF VerifyEntry
    <2>6. library[n] = reader.source.of[n].hash
      BY <1>7, <2>5 DEF IsFaithful, Agrees, Maps
    <2>7. Matches(reader.entries[n])
      BY <2>2, <2>5, <2>6, TheIndexMatches
    <2>8. QED
      BY <1>4, <2>1, <2>5, <2>7
  <1>8. QED
    BY <1>1, <1>4, <1>5, <1>6, <1>7 DEF FaithInv, IsOf

LEMMA AllAgreeing ==
    ASSUME NEW n \in Nat, NEW p \in 0..100
    PROVE  n * 100 >= p * n
  OBVIOUS

LEMMA SettlingKeepsFaith ==
    ASSUME FaithInv, Settle
    PROVE  FaithInv'
  <1> DEFINE r == reader'
             held == CASE ~Trustworthy -> NothingHeld("unverified")
                       [] Trustworthy /\ Offsets = {} -> NothingHeld("verified")
                       [] OTHER -> [finding |-> "local_offset", offsets |-> Offsets]
  <1>1. layout' = layout /\ index' = index /\ library' = library /\ disk' = disk /\ saved' = saved
    BY DEF Settle
  <1>2. r = [pc |-> "done", entries |-> reader.entries, checked |-> reader.checked,
             matched |-> reader.matched, held |-> held, source |-> reader.source]
    BY DEF Settle, FaithInv
  <1>3. Trustworthy => held.finding \in {"verified", "local_offset"}
    BY DEF NothingHeld
  <1> HIDE DEF held
  <1>4. HasReadIt /\ reader.pc = "verify"
    BY DEF Settle, FaithInv
  <1>5. /\ r.pc = "done" /\ r.entries = reader.entries /\ r.source = reader.source /\ r.held = held
        /\ r = [pc |-> r.pc, entries |-> r.entries, checked |-> r.checked,
                matched |-> r.matched, held |-> r.held, source |-> r.source]
    BY <1>2
  <1>6. HasReadIt'
    BY <1>1, <1>4, <1>5 DEF HasReadIt, IsOf
  <1>7. IsFaithful' => IsFaithful
    BY <1>1, <1>5 DEF IsFaithful, Agrees
  <1>8. IsFaithful => Trustworthy
    <2>1. SUFFICES ASSUME IsFaithful PROVE Trustworthy
      OBVIOUS
    <2>2. reader.checked \in 0..MapCount /\ reader.matched = reader.checked
      BY <1>4, <2>1 DEF FaithInv
    <2>3. MapCount \in Nat /\ MapCount > 0 /\ MinimumAgreement \in 0..100
      BY OsuDbBounds
    <2>4. reader.entries = EntriesOf(reader.source.of)
      BY <1>4, <2>1 DEF HasReadIt, IsFaithful
    <2>5. Len(reader.entries) = MapCount
      BY <2>3, <2>4 DEF EntriesOf
    <2>6. reader.checked = MapCount
      BY <2>5 DEF Settle
    <2>7. QED
      BY <2>2, <2>3, <2>6, AllAgreeing DEF Trustworthy
  <1>9. IsFaithful' => IsBelieved'
    BY <1>3, <1>5, <1>7, <1>8 DEF IsBelieved
  <1>10. QED
    BY <1>1, <1>5, <1>6, <1>9 DEF FaithInv, IsOf

LEMMA BeginningAgainKeepsFaith ==
    ASSUME FaithInv, Again
    PROVE  FaithInv'
  <1>1. layout' = layout /\ index' = index /\ library' = library /\ disk' = disk /\ saved' = saved
    BY DEF Again
  <1>2. reader' = Start
    BY DEF Again
  <1>3. /\ reader'.pc = "read"
        /\ reader' = [pc |-> reader'.pc, entries |-> reader'.entries, checked |-> reader'.checked,
                      matched |-> reader'.matched, held |-> reader'.held, source |-> reader'.source]
    BY <1>2 DEF Start
  <1>4. QED
    BY <1>1, <1>2, <1>3 DEF FaithInv, IsOf, Start, NothingHeld

\* What game and player do leaves the reader where it is; it is enough that a map
\* that was in step with the index read had been so before.
LEMMA TheReaderStands ==
    ASSUME FaithInv, reader' = reader, layout' = layout,
           \A i \in Indexes : IsOf(i, library) => IsOf(i, library'),
           reader.pc # "read" /\ Agrees' => Agrees,
           library' \in [Maps -> {Deleted, 0, 1}],
           index' \in Indexes, IsOf(index', library'),
           saved'.of \in Indexes, IsOf(saved'.of, library'),
           saved' = [of |-> saved'.of, whole |-> saved'.whole],
           saved'.whole => disk' = Written(saved'.of, layout)
    PROVE  FaithInv'
  <1>1. HasReadIt => HasReadIt'
    BY DEF HasReadIt
  <1>2. reader.pc # "read" /\ IsFaithful' => IsFaithful
    BY DEF IsFaithful
  <1>3. IsBelieved' = IsBelieved
    BY DEF IsBelieved
  <1>4. QED
    BY <1>1, <1>2, <1>3 DEF FaithInv

LEMMA TheGameKeepsFaith ==
    ASSUME FaithInv, Game
    PROVE  FaithInv'
  <1>1. /\ layout \in Layouts /\ index \in Indexes /\ IsOf(index, library)
        /\ library \in [Maps -> {Deleted, 0, 1}]
        /\ saved.of \in Indexes /\ IsOf(saved.of, library)
        /\ (saved.whole => disk = Written(saved.of, layout))
        /\ saved = [of |-> saved.of, whole |-> saved.whole]
    BY DEF FaithInv
  <1>2. \A m \in Maps : index[m].hash \in {0, 1} /\ index[m].offset \in Int
                        /\ index[m] = [hash |-> index[m].hash, offset |-> index[m].offset]
    BY <1>1 DEF Indexes
  <1>3. reader' = reader /\ layout' = layout
    BY DEF Game, Nudge, Change, Rescan, BeginSave, EndSave
  <1>4. ASSUME library' = library
        PROVE  (\A i \in Indexes : IsOf(i, library) => IsOf(i, library')) /\ (Agrees' => Agrees)
    BY <1>3, <1>4 DEF Agrees
  <1>5. ASSUME NEW m \in Maps, NEW offset \in Nudges, Nudge(m, offset)
        PROVE  FaithInv'
    <2>1. /\ index' = [index EXCEPT ![m].offset = offset] /\ offset \in Int
          /\ library' = library /\ disk' = disk /\ saved' = saved
      BY <1>5, CellsAreNumbers DEF Nudge
    <2>2. index' \in Indexes /\ \A k \in Maps : index'[k].hash = index[k].hash
      BY <1>1, <1>2, <2>1 DEF Indexes
    <2>3. IsOf(index', library')
      BY <1>1, <2>1, <2>2 DEF IsOf
    <2>4. QED
      BY <1>1, <1>3, <1>4, <2>1, <2>2, <2>3, TheReaderStands
  <1>6. ASSUME NEW m \in Maps, NEW contents \in {Deleted, 1}, Change(m, contents)
        PROVE  FaithInv'
    <2>1. /\ library[m] = 0 /\ library' = [library EXCEPT ![m] = contents] /\ contents # 0
          /\ index' = index /\ disk' = disk /\ saved' = saved
      BY <1>6 DEF Change, Deleted
    <2>2. library' \in [Maps -> {Deleted, 0, 1}]
      BY <1>1, <2>1
    <2>3. \A k \in Maps : k # m => library'[k] = library[k]
      BY <1>1, <2>1
    <2>4. library'[m] = contents
      BY <1>1, <2>1
    <2>5. \A i \in Indexes : IsOf(i, library) => IsOf(i, library') /\ i[m].hash = 0
      BY <2>1, <2>3 DEF IsOf
    <2>6. reader.pc # "read" /\ Agrees' => Agrees
      <3>1. SUFFICES ASSUME reader.pc # "read", Agrees' PROVE Agrees
        OBVIOUS
      <3>2. contents = reader.source.of[m].hash
        BY <1>3, <2>4, <3>1 DEF Agrees
      <3>3. reader.source.of \in Indexes /\ IsOf(reader.source.of, library)
        BY <3>1 DEF FaithInv, HasReadIt
      <3>4. QED
        BY <2>1, <2>5, <3>2, <3>3
    <2>7. IsOf(index', library') /\ IsOf(saved'.of, library')
      BY <1>1, <2>1, <2>5
    <2>8. QED
      BY <1>1, <1>3, <2>1, <2>2, <2>5, <2>6, <2>7, TheReaderStands
  <1>7. ASSUME NEW m \in Maps, Rescan(m)
        PROVE  FaithInv'
    <2>1. /\ library[m] # Deleted /\ index' = [index EXCEPT ![m].hash = library[m]]
          /\ library' = library /\ disk' = disk /\ saved' = saved
      BY <1>7 DEF Rescan
    <2>2. library[m] \in {0, 1}
      BY <1>1, <2>1
    <2>3. /\ index' \in Indexes /\ index'[m].hash = library[m]
          /\ \A k \in Maps : k # m => index'[k].hash = index[k].hash
      BY <1>1, <1>2, <2>1, <2>2 DEF Indexes
    <2>4. IsOf(index', library')
      BY <1>1, <2>1, <2>3 DEF IsOf
    <2>5. QED
      BY <1>1, <1>3, <1>4, <2>1, <2>3, <2>4, TheReaderStands
  <1>8. ASSUME BeginSave
        PROVE  FaithInv'
    <2>1. saved' = [of |-> index, whole |-> FALSE] /\ index' = index /\ library' = library
      BY <1>8 DEF BeginSave
    <2>2. saved'.of = index /\ ~saved'.whole /\ saved' = [of |-> saved'.of, whole |-> saved'.whole]
      BY <2>1
    <2>3. QED
      BY <1>1, <1>3, <1>4, <2>1, <2>2, TheReaderStands
  <1>9. ASSUME EndSave
        PROVE  FaithInv'
    <2>1. /\ saved' = [saved EXCEPT !.whole = TRUE] /\ disk' = Written(saved.of, layout)
          /\ index' = index /\ library' = library
      BY <1>9 DEF EndSave
    <2>2. saved'.of = saved.of /\ saved' = [of |-> saved'.of, whole |-> saved'.whole]
      BY <1>1, <2>1
    <2>3. QED
      BY <1>1, <1>3, <1>4, <2>1, <2>2, TheReaderStands
  <1>10. QED
    BY <1>5, <1>6, <1>7, <1>8, <1>9 DEF Game

LEMMA InvFaith == OsuDbSpec => []FaithInv
  <1>1. ASSUME FaithInv, [OsuDbNext]_osuDbVars
        PROVE  FaithInv'
    <2>1. CASE ReadFile
      BY <1>1, <2>1, ReadingKeepsFaith
    <2>2. CASE VerifyEntry
      BY <1>1, <2>2, VerifyingKeepsFaith
    <2>3. CASE Settle
      BY <1>1, <2>3, SettlingKeepsFaith
    <2>4. CASE Again
      BY <1>1, <2>4, BeginningAgainKeepsFaith
    <2>5. CASE Game
      BY <1>1, <2>5, TheGameKeepsFaith
    <2>6. CASE UNCHANGED osuDbVars
      BY <1>1, <2>6 DEF osuDbVars, FaithInv, HasReadIt, IsFaithful, Agrees, IsBelieved, IsOf
    <2>7. QED
      BY <1>1, <2>1, <2>2, <2>3, <2>4, <2>5, <2>6 DEF OsuDbNext, LoadIndex
  <1>2. QED
    BY <1>1, FaithInitially, PTL DEF OsuDbSpec

\* Whatever the player does to maps and offsets and whenever the game writes the
\* index, a whole file of a layout the reader knows, with every map as the index
\* has it, is believed, and so are its offsets (read, verify, load).
THEOREM FaithfulIndexesAreBelieved == OsuDbSpec => []AFaithfulIndexIsBelieved
  <1>1. FaithInv => AFaithfulIndexIsBelieved
    BY DEF AFaithfulIndexIsBelieved, FaithInv, IsFaithful, IsKnown, Agrees
  <1>2. QED
    BY <1>1, InvFaith, PTL

-----------------------------------------------------------------------------
(* A file that was read while the game wrote it                                *)

IsCut(p, data) == p \in Seq(Int) /\ Len(p) < Len(data) /\ \A j \in 1..Len(p) : p[j] = data[j]

\* A position, as long as the file has one there or ends before it.
Reached(p, at) == IF at <= Len(p) + 1 THEN at ELSE Lost

LEMMA WhatIsNotCut ==
    ASSUME NEW data \in Seq(Int), NEW p, IsCut(p, data), NEW at \in Nat \ {0}, NEW s \in Seq(Int),
           InFile(data, at, s), at + Len(s) <= Len(p) + 1
    PROVE  InFile(p, at, s)
  <1>1. p \in Seq(Int) /\ Len(p) \in Nat /\ Len(s) \in Nat
    BY DEF IsCut
  <1>2. ASSUME NEW j \in 1..Len(s) PROVE p[at + j - 1] = s[j]
    <2>1. at + j - 1 \in 1..Len(p)
      BY <1>1
    <2>2. QED
      BY <2>1 DEF IsCut, InFile
  <1>3. QED
    BY <1>2 DEF InFile

LEMMA LostStaysLost ==
    ASSUME NEW p, NEW k \in 1..11
    PROVE  AfterField(p, k, Lost) = Lost
  <1>1. \A n : Take(p, Lost, n) = Lost
    BY DEF Take
  <1>2. AfterString(p, Lost) = Lost
    BY <1>1 DEF AfterString
  <1>3. ~HasCount(p, Lost)
    BY <1>1 DEF HasCount
  <1>4. AfterRatings(p, Lost) = Lost /\ AfterPoints(p, Lost) = Lost
    BY <1>3 DEF AfterRatings, AfterPoints
  <1>5. k \in {1, 2, 3, 4, 5, 6, 7, 8, 9, 10, 11}
    OBVIOUS
  <1>6. QED
    BY <1>1, <1>2, <1>4, <1>5 DEF AfterField

LEMMA ACutIsBeyond ==
    ASSUME NEW p \in Seq(Int), NEW at \in Nat \ {0}, NEW n \in Nat, at + n > Len(p) + 1
    PROVE  Take(p, at, n) = Lost
  BY DEF Take, Lost

LEMMA ACutTextIsLost ==
    ASSUME NEW data \in Seq(Int), NEW p, IsCut(p, data), NEW at \in Nat \ {0}, NEW name \in Int,
           InFile(data, at, CellsOf(name)), at + 3 > Len(p) + 1
    PROVE  AfterString(p, at) = Lost
  <1>1. CellsOf(name) = <<StringPresent, 1, name>> /\ Len(CellsOf(name)) = 3 /\ p \in Seq(Int) /\ Len(p) \in Nat
    BY DEF CellsOf, IsCut
  <1>2. data[at] = 11 /\ data[at + 1] = 1
    <2>1. 1 \in 1..3 /\ 2 \in 1..3 /\ at + 1 - 1 = at /\ at + 2 - 1 = at + 1
      OBVIOUS
    <2>2. data[at + 1 - 1] = CellsOf(name)[1] /\ data[at + 2 - 1] = CellsOf(name)[2]
      BY <1>1, <2>1 DEF InFile
    <2>3. CellsOf(name)[1] = 11 /\ CellsOf(name)[2] = 1
      BY <1>1 DEF StringPresent
    <2>4. QED
      BY <2>1, <2>2, <2>3
  <1>3. CASE at > Len(p)
    <2>1. Take(p, at, 1) = Lost /\ Take(p, at, 2) = Lost
      BY <1>1, <1>3 DEF Take, Lost
    <2>2. QED
      BY <2>1 DEF AfterString
  <1>4. CASE at <= Len(p)
    <2>1. p[at] = 11
      <3>1. at \in 1..Len(p)
        BY <1>1, <1>4
      <3>2. QED
        BY <1>2, <3>1 DEF IsCut
    <2>2. CASE at + 1 > Len(p)
      <3>1. Take(p, at, 2) = Lost
        BY <1>1, <2>2 DEF Take, Lost
      <3>2. QED
        BY <2>1, <3>1 DEF AfterString, StringAbsent, StringPresent
    <2>3. CASE at + 1 <= Len(p)
      <3>1. p[at + 1] = 1
        <4>1. at + 1 \in 1..Len(p)
          BY <1>1, <2>3
        <4>2. QED
          BY <1>2, <4>1 DEF IsCut
      <3>2. Take(p, at + 2, 1) = Lost
        BY <1>1 DEF Take, Lost
      <3>3. QED
        BY <2>1, <3>1, <3>2 DEF AfterString, StringAbsent, StringPresent
    <2>4. QED
      BY <1>1, <2>2, <2>3
  <1>5. QED
    BY <1>1, <1>3, <1>4

LEMMA CutPointsAreLost ==
    ASSUME NEW data \in Seq(Int), NEW p, IsCut(p, data), NEW at \in Nat \ {0},
           InFile(data, at, <<1, 7>>), at + 2 > Len(p) + 1
    PROVE  AfterPoints(p, at) = Lost
  <1>1. p \in Seq(Int) /\ Len(p) \in Nat
    BY DEF IsCut
  <1>2. data[at] = 1
    BY DEF InFile
  <1>3. CASE at > Len(p)
    <2>1. Take(p, at, 1) = Lost
      BY <1>1, <1>3, ACutIsBeyond
    <2>2. QED
      BY <2>1 DEF AfterPoints, HasCount
  <1>4. CASE at <= Len(p)
    <2>1. p[at] = 1
      <3>1. at \in 1..Len(p)
        BY <1>1, <1>4
      <3>2. QED
        BY <1>2, <3>1 DEF IsCut
    <2>2. Take(p, at + 1, 1) = Lost
      BY <1>1, <1>4 DEF Take, Lost
    <2>3. QED
      BY <2>1, <2>2 DEF AfterPoints
  <1>5. QED
    BY <1>1, <1>3, <1>4

LEMMA ACutRatingIsLost ==
    ASSUME NEW data \in Seq(Int), NEW p, IsCut(p, data), NEW at \in Nat \ {0}, NEW l, IsKnown(l),
           InFile(data, at, RatingOf(l)), at + Len(RatingOf(l)) > Len(p) + 1
    PROVE  AfterRatings(p, at) = Lost
  <1>1. l.number \in Int /\ l.tag \in {12, 13}
    BY CellsAreNumbers DEF IsKnown, TagSingle, TagDouble
  <1>2. /\ Len(RatingOf(l)) = IF l.tag = 12 THEN 4 ELSE 5
        /\ RatingOf(l)[1] = 1 /\ RatingOf(l)[3] = l.tag
    BY <1>1 DEF RatingOf, TagSingle
  <1> DEFINE size == Len(RatingOf(l))
  <1>3. size \in {4, 5} /\ size = (IF l.tag = 12 THEN 4 ELSE 5) /\ data[at] = 1 /\ data[(at + 1) + 1] = l.tag
    <2>1. 1 \in 1..size /\ 3 \in 1..size /\ at + 1 - 1 = at /\ at + 3 - 1 = (at + 1) + 1
      BY <1>2
    <2>2. QED
      BY <1>1, <1>2, <2>1 DEF InFile
  <1>4. at + size > Len(p) + 1
    OBVIOUS
  <1> HIDE DEF size
  <1>5. p \in Seq(Int) /\ Len(p) \in Nat
    BY DEF IsCut
  <1>6. CASE at > Len(p)
    <2>1. Take(p, at, 1) = Lost
      BY <1>5, <1>6, ACutIsBeyond
    <2>2. QED
      BY <2>1 DEF AfterRatings, HasCount
  <1>7. CASE at <= Len(p)
    <2>1. p[at] = 1
      <3>1. at \in 1..Len(p)
        BY <1>5, <1>7
      <3>2. QED
        BY <1>3, <3>1 DEF IsCut
    <2>2. AfterRating(p, at + 1) = Lost
      <3>1. CASE at + 2 > Len(p)
        <4>1. Take(p, at + 1, 2) = Lost
          BY <1>5, <3>1 DEF Take, Lost
        <4>2. QED
          BY <4>1 DEF AfterRating
      <3>2. CASE at + 2 <= Len(p)
        <4>1. p[(at + 1) + 1] = l.tag
          <5>1. (at + 1) + 1 \in 1..Len(p)
            BY <1>5, <3>2
          <5>2. QED
            BY <1>3, <5>1 DEF IsCut
        <4>2. /\ size = 4 => Take(p, at + 1, 3) = Lost
              /\ size = 5 => Take(p, at + 1, 4) = Lost
          BY <1>4, <1>5 DEF Take, Lost
        <4>3. QED
          BY <1>1, <1>3, <4>1, <4>2 DEF AfterRating, TagSingle, TagDouble
      <3>3. QED
        BY <1>5, <3>1, <3>2
    <2> DEFINE body(f) == [k \in 0..1 |-> IF k = 0 THEN at + 1 ELSE AfterRating(p, f[k - 1])]
               after == CHOOSE f : f = body(f)
               g == [k \in 0..1 |-> IF k = 0 THEN at + 1 ELSE Lost]
    <2>3. g = body(g)
      BY <2>2
    <2>4. after = body(after)
      BY <2>3
    <2> HIDE DEF after
    <2>5. after[0] = at + 1
      BY <2>4
    <2>6. after[1] = AfterRating(p, after[0])
      BY <2>4
    <2>7. HasCount(p, at) => AfterRatings(p, at) = after[1]
      BY <2>1 DEF AfterRatings, after
    <2>8. ~HasCount(p, at) => AfterRatings(p, at) = Lost
      BY DEF AfterRatings
    <2>9. QED
      BY <2>2, <2>5, <2>6, <2>7, <2>8
  <1>8. QED
    BY <1>5, <1>6, <1>7

LEMMA ACutFieldIsLost ==
    ASSUME NEW data \in Seq(Int), NEW p, IsCut(p, data), NEW at \in Nat \ {0}, NEW l, IsFileOf(p, l),
           NEW m \in Int, NEW entry, IsEntry(entry),
           NEW fields, IsFields(fields, m, entry, l),
           NEW k \in 1..11, InFile(data, at, fields[k]), at + Len(fields[k]) > Len(p) + 1, at <= Len(p) + 1
    PROVE  AfterField(p, k, at) = Lost
  <1>1. p \in Seq(Int) /\ Len(p) \in Nat /\ IsKnown(l)
    BY DEF IsFileOf
  <1>2. l.floats \in BOOLEAN /\ (p[1] = 1 <=> l.floats)
    BY CellsAreNumbers DEF IsFileOf, IsKnown
  <1>3. HashOf(m, entry.hash) \in Int /\ FileOf(m) \in Int /\ FolderOf(m) \in Int
    BY DEF HashOf, FileOf, FolderOf, IsEntry
  <1>4. Take(p, at, Len(fields[k])) = Lost
    <2>1. fields \in Seq(Seq(Int)) /\ k \in 1..Len(fields)
      BY DEF IsFields
    <2>2. Len(fields[k]) \in Nat
      BY <2>1
    <2>3. QED
      BY <1>1, <2>2, ACutIsBeyond
  <1>5. CASE k \in {1, 9}
    <2>1. fields[k] = <<StringAbsent>> /\ Len(<<StringAbsent>>) = 1
      BY <1>5 DEF IsFields
    <2>2. Take(p, at, 1) = Lost /\ Take(p, at, 2) = Lost
      BY <1>1, <2>1 DEF Take, Lost
    <2>3. AfterString(p, at) = Lost
      BY <2>2 DEF AfterString
    <2>4. QED
      BY <1>5, <2>3 DEF AfterField
  <1>6. ASSUME NEW name \in Int, fields[k] = CellsOf(name), k \in {2, 3, 10}
        PROVE  AfterField(p, k, at) = Lost
    <2>1. Len(CellsOf(name)) = 3
      BY DEF CellsOf
    <2>2. AfterString(p, at) = Lost
      BY <1>6, <2>1, ACutTextIsLost
    <2>3. k \in {1, 2, 3, 9, 10}
      BY <1>6
    <2>4. k \notin {4, 5, 6, 7, 8, 11}
      BY <1>6
    <2>5. AfterField(p, k, at) = AfterString(p, at)
      BY <2>3, <2>4 DEF AfterField
    <2>6. QED
      BY <2>2, <2>5
  <1>7. CASE k = 2
    <2>1. fields[k] = CellsOf(HashOf(m, entry.hash))
      BY <1>7 DEF IsFields
    <2>2. QED
      BY <1>3, <1>6, <1>7, <2>1
  <1>8. CASE k = 3
    <2>1. fields[k] = CellsOf(FileOf(m))
      BY <1>8 DEF IsFields
    <2>2. QED
      BY <1>3, <1>6, <1>8, <2>1
  <1>9. CASE k = 10
    <2>1. fields[k] = CellsOf(FolderOf(m))
      BY <1>9 DEF IsFields
    <2>2. QED
      BY <1>3, <1>6, <1>9, <2>1
  <1>10. CASE k \in {4, 8}
    <2>1. Len(fields[4]) = 1 /\ fields[8] = <<entry.offset>> /\ Len(<<entry.offset>>) = 1
      BY DEF IsFields
    <2>2. Len(fields[k]) = 1
      BY <1>10, <2>1
    <2>3. QED
      BY <1>4, <1>10, <2>2 DEF AfterField
  <1>11. CASE k = 5
    <2>1. Len(fields[k]) = IF l.floats THEN 2 ELSE 1
      BY <1>11 DEF IsFields
    <2>2. QED
      BY <1>2, <1>4, <1>11, <2>1 DEF AfterField
  <1>12. CASE k = 11
    <2>1. Len(fields[k]) = IF l.floats THEN 1 ELSE 2
      BY <1>12 DEF IsFields
    <2>2. QED
      BY <1>2, <1>4, <1>12, <2>1 DEF AfterField
  <1>13. CASE k = 6
    <2>1. fields[k] = IF l.floats THEN RatingOf(l) ELSE <<>>
      BY <1>13 DEF IsFields
    <2>2. CASE l.floats
      <3>1. fields[k] = RatingOf(l)
        BY <2>1, <2>2
      <3>2. AfterRatings(p, at) = Lost
        BY <1>1, <3>1, ACutRatingIsLost
      <3>3. QED
        BY <1>2, <1>13, <2>2, <3>2 DEF AfterField
    <2>3. CASE ~l.floats
      <3>1. fields[k] = <<>> /\ Len(<<>>) = 0
        BY <2>1, <2>3
      <3>2. QED
        BY <1>1, <3>1
    <2>4. QED
      BY <1>2, <2>2, <2>3
  <1>14. CASE k = 7
    <2>1. fields[k] = <<1, 7>> /\ Len(<<1, 7>>) = 2
      BY <1>14 DEF IsFields
    <2>2. AfterPoints(p, at) = Lost
      BY <2>1, CutPointsAreLost
    <2>3. QED
      BY <1>14, <2>2 DEF AfterField
  <1>15. k \in {1, 2, 3, 4, 5, 6, 7, 8, 9, 10, 11}
    OBVIOUS
  <1>16. QED
    BY <1>5, <1>7, <1>8, <1>9, <1>10, <1>11, <1>12, <1>13, <1>14, <1>15

\* Of an entry that is cut somewhere the reader finds no end.
LEMMA ACutEntryIsLost ==
    ASSUME NEW data \in Seq(Int), NEW p, IsCut(p, data), NEW at \in Nat \ {0}, NEW l, IsFileOf(p, l),
           NEW m \in Int, NEW entry, IsEntry(entry),
           InFile(data, at, WrittenEntry(m, entry, l)), at <= Len(p) + 1
    PROVE  FieldEnds(p, at)[11] = Reached(p, at + Len(WrittenEntry(m, entry, l)))
  <1> DEFINE fields == FieldsOf(m, entry, l)
  <1>1. IsFields(fields, m, entry, l) /\ WrittenEntry(m, entry, l) = FlattenSeq(fields)
    BY FieldsAreWritten DEF IsFileOf, IsEntry
  <1>2. fields \in Seq(Seq(Int)) /\ Len(fields) = 11
    BY <1>1 DEF IsFields
  <1> HIDE DEF fields
  <1>3. PICK start : LieFrom(data, at, fields, start)
    <2>1. Len(fields) > 0 /\ InFile(data, at, FlattenSeq(fields))
      BY <1>1, <1>2
    <2>2. QED
      BY <1>2, <2>1, PartsOfFlattened
  <1>4. start \in [0..11 -> Nat \ {0}] /\ start[0] = at /\ start[11] = at + Len(FlattenSeq(fields))
    BY <1>2, <1>3 DEF LieFrom
  <1> DEFINE ends == [k \in 0..11 |-> Reached(p, start[k])]
  <1>5. ASSUME NEW k \in 1..11
        PROVE  ends[k] = AfterField(p, k, ends[k - 1])
    <2>1. k - 1 \in 0..11 /\ k \in 0..11
      OBVIOUS
    <2>2. start[k - 1] \in Nat \ {0} /\ start[k] \in Nat \ {0}
      BY <1>4, <2>1
    <2>3. start[k] = start[k - 1] + Len(fields[k]) /\ InFile(data, start[k - 1], fields[k])
      BY <1>2, <1>3 DEF LieFrom
    <2>4. Len(fields[k]) \in Nat /\ fields[k] \in Seq(Int)
      <3>1. k \in 1..Len(fields)
        BY <1>2
      <3>2. fields[k] \in Seq(Int)
        BY <1>2, <3>1, ElementOfSeq, Zenon
      <3>3. QED
        BY <3>2
    <2>5. ends[k] = Reached(p, start[k]) /\ ends[k - 1] = Reached(p, start[k - 1])
      BY <2>1
    <2>6. Len(p) \in Nat
      BY DEF IsCut
    <2> HIDE DEF ends
    <2>7. CASE start[k] <= Len(p) + 1
      <3>1. start[k - 1] <= Len(p) + 1
        BY <2>2, <2>3, <2>4, <2>6, <2>7
      <3>2. ends[k] = start[k] /\ ends[k - 1] = start[k - 1]
        BY <2>5, <2>7, <3>1 DEF Reached
      <3>3. start[k - 1] + Len(fields[k]) <= Len(p) + 1
        BY <2>3, <2>7
      <3>4. InFile(p, start[k - 1], fields[k])
        BY <2>2, <2>3, <2>4, <3>3, WhatIsNotCut
      <3>5. /\ AfterField(p, k, start[k - 1]) = start[k - 1] + Len(fields[k])
            /\ FieldIsRead(p, k, start[k - 1], m, entry)
        BY <1>1, <2>2, <3>4, EveryFieldIsRead
      <3>6. QED
        BY <2>3, <3>2, <3>5
    <2>8. CASE start[k] > Len(p) + 1 /\ start[k - 1] <= Len(p) + 1
      <3>1. ends[k] = Lost /\ ends[k - 1] = start[k - 1]
        BY <2>2, <2>5, <2>6, <2>8 DEF Reached
      <3>2. start[k - 1] + Len(fields[k]) > Len(p) + 1
        BY <2>3, <2>8
      <3>3. AfterField(p, k, start[k - 1]) = Lost
        BY <1>1, <2>2, <2>3, <2>8, <3>2, ACutFieldIsLost
      <3>4. QED
        BY <3>1, <3>3
    <2>9. CASE start[k - 1] > Len(p) + 1
      <3>1. start[k] > Len(p) + 1
        BY <2>2, <2>3, <2>4, <2>6, <2>9
      <3>2. ends[k] = Lost /\ ends[k - 1] = Lost
        BY <2>2, <2>5, <2>6, <2>9, <3>1 DEF Reached
      <3>3. QED
        BY <3>2, LostStaysLost
    <2>10. QED
      BY <2>2, <2>6, <2>7, <2>8, <2>9
  <1>6. ends[0] = at /\ ends[11] = Reached(p, at + Len(FlattenSeq(fields))) /\ ends = [k \in 0..11 |-> ends[k]]
    BY <1>4 DEF Reached
  <1> HIDE DEF ends
  <1>7. AreEnds(p, at, ends)
    BY <1>5, <1>6 DEF AreEnds
  <1>8. FieldEnds(p, at) = ends
    BY <1>7, TheEndsAre
  <1>9. QED
    BY <1>1, <1>6, <1>8

\* A file of a layout the reader knows that was cut while it was written.
LEMMA ACutFileIsUnreadable ==
    ASSUME NEW i \in Indexes, NEW l, IsKnown(l), NEW p, IsCut(p, Written(i, l))
    PROVE  ParseIndex(p) = Unreadable
  <1> DEFINE data == Written(i, l)
  <1>1. /\ IsFileOf(data, l) /\ Len(data) >= 2 /\ data[2] = MapCount /\ data \in Seq(Int)
        /\ \E start : EntriesLie(i, l, start)
    BY TheFileHasEntries DEF IsFileOf
  <1>2. PICK start : EntriesLie(i, l, start)
    BY <1>1
  <1>3. /\ MapCount \in Nat \ {0} /\ MapCount \in 0..CountLimit
        /\ \A m \in 1..MapCount : m \in Int /\ IsEntry(i[m])
    BY OsuDbBounds DEF Indexes, IsEntry, Maps
  <1>4. start \in [0..MapCount -> Nat \ {0}] /\ start[0] = 3 /\ start[MapCount] = Len(data) + 1
    BY <1>2 DEF EntriesLie
  <1>5. \A n \in 1..MapCount :
          /\ start[n] = start[n - 1] + Len(WrittenEntry(n, i[n], l))
          /\ InFile(data, start[n - 1], WrittenEntry(n, i[n], l))
    BY <1>2 DEF EntriesLie
  <1> HIDE DEF data
  <1>6. p \in Seq(Int) /\ Len(p) \in Nat /\ Len(p) < Len(data) /\ Len(data) \in Nat /\ IsCut(p, data)
    BY <1>1 DEF IsCut, data
  <1>7. CASE Len(p) < 2
    <2>1. ~HasCount(p, 2)
      BY <1>6, <1>7 DEF HasCount, Take, Lost
    <2>2. QED
      BY <2>1 DEF ParseIndex
  <1>8. CASE Len(p) >= 2
    <2>1. p[1] = data[1] /\ p[2] = MapCount
      <3>1. 1 \in 1..Len(p) /\ 2 \in 1..Len(p)
        BY <1>6, <1>8
      <3>2. QED
        BY <1>1, <1>6, <3>1 DEF IsCut
    <2>2. IsFileOf(p, l)
      BY <1>1, <1>6, <2>1 DEF IsFileOf
    <2>8. ASSUME NEW at \in Nat \ {0}, NEW m \in Int, NEW entry, IsEntry(entry),
                 InFile(data, at, WrittenEntry(m, entry, l)), at <= Len(p) + 1
          PROVE  FieldEnds(p, at)[11] = Reached(p, at + Len(WrittenEntry(m, entry, l)))
      BY <1>1, <1>6, <2>2, <2>8, ACutEntryIsLost
    <2> DEFINE starts == [n \in 0..MapCount |-> Reached(p, start[n])]
    <2>3. ASSUME NEW n \in 1..MapCount
          PROVE  starts[n] = IF starts[n - 1] = Lost THEN Lost ELSE FieldEnds(p, starts[n - 1])[11]
      <3>1. n - 1 \in 0..MapCount /\ n \in 0..MapCount
        BY <1>3
      <3>2. start[n - 1] \in Nat \ {0} /\ start[n] \in Nat \ {0}
        BY <1>4, <3>1
      <3>3. starts[n] = Reached(p, start[n]) /\ starts[n - 1] = Reached(p, start[n - 1])
        BY <3>1
      <3>4. start[n] = start[n - 1] + Len(WrittenEntry(n, i[n], l)) /\ InFile(data, start[n - 1], WrittenEntry(n, i[n], l))
        BY <1>5
      <3>5. n \in Int /\ IsEntry(i[n])
        BY <1>3
      <3> HIDE DEF starts
      <3>6. CASE start[n - 1] <= Len(p) + 1
        <4>1. starts[n - 1] = start[n - 1] /\ start[n - 1] # Lost
          BY <3>2, <3>3, <3>6 DEF Reached, Lost
        <4>2. FieldEnds(p, start[n - 1])[11] = Reached(p, start[n - 1] + Len(WrittenEntry(n, i[n], l)))
          BY <2>8, <3>2, <3>4, <3>5, <3>6
        <4>3. QED
          BY <3>3, <3>4, <4>1, <4>2
      <3>7. CASE start[n - 1] > Len(p) + 1
        <4>1. Len(WrittenEntry(n, i[n], l)) \in Nat
          BY <3>5, EntriesAreSequences
        <4>2. start[n] > Len(p) + 1
          BY <1>6, <3>2, <3>4, <3>7, <4>1
        <4>3. starts[n - 1] = Lost /\ starts[n] = Lost
          BY <1>6, <3>2, <3>3, <3>7, <4>2 DEF Reached
        <4>4. QED
          BY <4>3
      <3>8. QED
        BY <1>6, <3>2, <3>6, <3>7
    <2>4. starts = [n \in 0..MapCount |-> starts[n]] /\ starts[0] = 3 /\ starts[MapCount] = Lost
      <3>1. 0 \in 0..MapCount /\ MapCount \in 0..MapCount
        BY <1>3
      <3>2. starts[0] = Reached(p, 3) /\ starts[MapCount] = Reached(p, Len(data) + 1)
        BY <1>4, <3>1
      <3>3. Reached(p, 3) = 3 /\ Reached(p, Len(data) + 1) = Lost
        BY <1>6, <1>8 DEF Reached
      <3>4. QED
        BY <3>2, <3>3
    <2> HIDE DEF starts
    <2>5. AreStarts(p, starts)
      BY <2>3, <2>4 DEF AreStarts
    <2>6. StartsOf(p) = starts
      BY <2>1, <2>5, TheStartsAre
    <2>7. QED
      BY <2>1, <2>4, <2>6 DEF ParseIndex
  <1>9. QED
    BY <1>6, <1>7, <1>8

\* The offsets of what was read of a whole file are those that were written.
LEMMA OffsetsOfTheEntries ==
    ASSUME NEW i \in Indexes
    PROVE  {<<e.hash, e.offset>> : e \in {e \in Range(EntriesOf(i)) : e.offset # 0}} =
             {<<<<HashOf(m, i[m].hash)>>, i[m].offset>> : m \in {m \in Maps : i[m].offset # 0}}
  <1>1. \A m \in Maps : EntriesOf(i)[m].hash = <<HashOf(m, i[m].hash)>> /\ EntriesOf(i)[m].offset = i[m].offset
    BY DEF EntriesOf, EntryOf, Maps
  <1>2. Range(EntriesOf(i)) = {EntriesOf(i)[m] : m \in Maps}
    BY DEF Range, EntriesOf, Maps
  <1> DEFINE entries == EntriesOf(i)
             written == {<<<<HashOf(m, i[m].hash)>>, i[m].offset>> : m \in {m \in Maps : i[m].offset # 0}}
             held == {<<e.hash, e.offset>> : e \in {e \in Range(entries) : e.offset # 0}}
  <1> HIDE DEF entries
  <1>3. ASSUME NEW w \in held PROVE w \in written
    <2>1. PICK m \in Maps : entries[m].offset # 0 /\ w = <<entries[m].hash, entries[m].offset>>
      BY <1>2 DEF entries
    <2>2. QED
      BY <1>1, <2>1 DEF entries
  <1>4. ASSUME NEW w \in written PROVE w \in held
    <2>1. PICK m \in Maps : i[m].offset # 0 /\ w = <<<<HashOf(m, i[m].hash)>>, i[m].offset>>
      OBVIOUS
    <2>2. w = <<entries[m].hash, entries[m].offset>> /\ entries[m].offset # 0 /\ entries[m] \in Range(entries)
      BY <1>1, <1>2, <2>1 DEF entries
    <2>3. QED
      BY <2>2
  <1>5. held = written
    BY <1>3, <1>4
  <1>6. QED
    BY <1>5 DEF entries

\* Of a layout the reader knows: what is on disk is a file the game wrote or the
\* first part of one, what is being verified was whole, and nothing is believed
\* that was not verified.
OffsetsInv ==
    /\ IsKnown(layout) =>
         /\ ~saved.whole => IsCut(disk, Written(saved.of, layout))
         /\ reader.pc = "verify" => reader.source.whole
         /\ OffsetsAreThoseTheGameWrote
    /\ reader.pc # "done" => ~IsBelieved

LEMMA OffsetsInitially == OsuDbInit => OffsetsInv
  <1> SUFFICES ASSUME OsuDbInit PROVE OffsetsInv
    OBVIOUS
  <1>1. saved.whole /\ reader = Start
    BY DEF OsuDbInit
  <1>2. reader.pc = "read" /\ ~IsBelieved
    BY <1>1 DEF Start, NothingHeld, IsBelieved
  <1>3. QED
    BY <1>1, <1>2 DEF OffsetsInv, OffsetsAreThoseTheGameWrote

LEMMA ReadingKeepsOffsets ==
    ASSUME FaithInv, OffsetsInv, ReadFile
    PROVE  OffsetsInv'
  <1> DEFINE parsed == ParseIndex(disk)
             r == reader'
  <1>1. layout' = layout /\ disk' = disk /\ saved' = saved
    BY DEF ReadFile
  <1>2. reader = Start
    BY DEF FaithInv, ReadFile
  <1>3. r = [pc |-> IF parsed.ok THEN "verify" ELSE "done", entries |-> parsed.entries, checked |-> 0, matched |-> 0,
             held |-> IF parsed.ok THEN NothingHeld("none yet") ELSE NothingHeld("unreadable"), source |-> saved]
    BY <1>2 DEF ReadFile, Start
  <1>4. IsKnown(layout) /\ ~saved.whole => ~parsed.ok
    <2>1. SUFFICES ASSUME IsKnown(layout), ~saved.whole PROVE ~parsed.ok
      OBVIOUS
    <2>2. saved.of \in Indexes
      BY DEF FaithInv
    <2>3. IsCut(disk, Written(saved.of, layout))
      BY <2>1 DEF OffsetsInv
    <2>4. parsed = Unreadable
      BY <2>1, <2>2, <2>3, ACutFileIsUnreadable
    <2>5. QED
      BY <2>4 DEF Unreadable
  <1> HIDE DEF parsed
  <1>5. r.pc = (IF parsed.ok THEN "verify" ELSE "done") /\ r.source = saved /\ r.held.finding \in {"none yet", "unreadable"}
    BY <1>3 DEF NothingHeld
  <1>6. ~IsBelieved'
    BY <1>5 DEF IsBelieved
  <1>7. QED
    BY <1>1, <1>4, <1>5, <1>6 DEF OffsetsInv, OffsetsAreThoseTheGameWrote

LEMMA SettlingKeepsOffsets ==
    ASSUME FaithInv, OffsetsInv, Settle
    PROVE  OffsetsInv'
  <1> DEFINE r == reader'
             held == CASE ~Trustworthy -> NothingHeld("unverified")
                       [] Trustworthy /\ Offsets = {} -> NothingHeld("verified")
                       [] OTHER -> [finding |-> "local_offset", offsets |-> Offsets]
  <1>1. layout' = layout /\ disk' = disk /\ saved' = saved
    BY DEF Settle
  <1>2. r = [pc |-> "done", entries |-> reader.entries, checked |-> reader.checked,
             matched |-> reader.matched, held |-> held, source |-> reader.source]
    BY DEF Settle, FaithInv
  <1>3. held.finding \in {"verified", "local_offset"} => held.offsets = Offsets
    BY DEF NothingHeld
  <1> HIDE DEF held
  <1>4. HasReadIt /\ reader.pc = "verify"
    BY DEF Settle, FaithInv
  <1>5. r.pc = "done" /\ r.source = reader.source /\ r.held = held
    BY <1>2
  <1>6. IsKnown(layout) => OffsetsAreThoseTheGameWrote'
    <2>1. SUFFICES ASSUME IsKnown(layout), IsBelieved' PROVE OffsetsAreThoseTheGameWrote'
      BY DEF OffsetsAreThoseTheGameWrote
    <2>2. reader.source.whole
      BY <1>4, <2>1 DEF OffsetsInv
    <2>3. reader.source.of \in Indexes /\ reader.entries = EntriesOf(reader.source.of)
      BY <1>4, <2>1, <2>2 DEF HasReadIt
    <2>4. r.held.offsets = Offsets
      BY <1>3, <1>5, <2>1 DEF IsBelieved
    <2>5. Offsets = {<<<<HashOf(m, reader.source.of[m].hash)>>, reader.source.of[m].offset>> :
                       m \in {m \in Maps : reader.source.of[m].offset # 0}}
      BY <2>3, OffsetsOfTheEntries DEF Offsets
    <2>6. QED
      BY <1>5, <2>4, <2>5 DEF OffsetsAreThoseTheGameWrote
  <1>7. QED
    BY <1>1, <1>5, <1>6 DEF OffsetsInv

LEMMA TheGameKeepsOffsets ==
    ASSUME FaithInv, OffsetsInv, Game
    PROVE  OffsetsInv'
  <1>1. reader' = reader /\ layout' = layout
    BY DEF Game, Nudge, Change, Rescan, BeginSave, EndSave
  <1>2. ASSUME IsKnown(layout), ~saved'.whole
        PROVE  IsCut(disk', Written(saved'.of, layout))
    <2>1. CASE disk' = disk /\ saved' = saved
      BY <1>2, <2>1 DEF OffsetsInv
    <2>2. ASSUME BeginSave
          PROVE  IsCut(disk', Written(saved'.of, layout))
      <3> DEFINE data == Written(index, layout)
      <3>1. data \in Seq(Int) /\ saved'.of = index
        BY <1>2, <2>2, TheFileHasEntries DEF FaithInv, BeginSave, IsFileOf
      <3>2. PICK cells \in 0..(Len(data) - 1) : disk' = SubSeq(data, 1, cells)
        BY <2>2 DEF BeginSave
      <3> HIDE DEF data
      <3>3. IsCut(SubSeq(data, 1, cells), data)
        <4>1. Len(data) \in Nat /\ cells \in Nat /\ cells < Len(data)
          BY <3>1, <3>2
        <4>2. \A j \in 1..cells : data[j] \in Int
          BY <3>1, <4>1
        <4>3. SubSeq(data, 1, cells) = [j \in 1..cells |-> data[j]]
          BY <3>1, <4>1
        <4>4. QED
          BY <4>1, <4>2, <4>3 DEF IsCut
      <3>4. QED
        BY <3>1, <3>2, <3>3 DEF data
    <2>3. CASE EndSave
      BY <1>2, <2>3 DEF EndSave, FaithInv
    <2>4. QED
      BY <2>1, <2>2, <2>3 DEF Game, Nudge, Change, Rescan
  <1>3. QED
    BY <1>1, <1>2 DEF OffsetsInv, OffsetsAreThoseTheGameWrote, IsBelieved

\* Whenever the reader looks at the file, before, after or while the game writes
\* it, and whatever became of the maps since: the offsets of a layout the reader
\* knows that are used, or said to be zero, are those of one index the game
\* wrote, all of them (read, verify, load).
THEOREM KnownLayoutsGiveTheirOffsets == OsuDbSpec => [](IsKnown(layout) => OffsetsAreThoseTheGameWrote)
  <1>1. ASSUME FaithInv, OffsetsInv, [OsuDbNext]_osuDbVars
        PROVE  OffsetsInv'
    <2>1. CASE ReadFile
      BY <1>1, <2>1, ReadingKeepsOffsets
    <2>2. CASE VerifyEntry
      <3>1. /\ layout' = layout /\ disk' = disk /\ saved' = saved /\ reader'.pc = reader.pc
            /\ reader'.held = reader.held /\ reader'.source = reader.source
        BY <1>1, <2>2 DEF VerifyEntry, FaithInv
      <3>2. QED
        BY <1>1, <3>1 DEF OffsetsInv, OffsetsAreThoseTheGameWrote, IsBelieved
    <2>3. CASE Settle
      BY <1>1, <2>3, SettlingKeepsOffsets
    <2>4. CASE Again
      <3>1. layout' = layout /\ disk' = disk /\ saved' = saved /\ reader' = Start
        BY <2>4 DEF Again
      <3>2. reader'.pc = "read" /\ ~IsBelieved'
        BY <3>1 DEF Start, NothingHeld, IsBelieved
      <3>3. QED
        BY <1>1, <3>1, <3>2 DEF OffsetsInv, OffsetsAreThoseTheGameWrote
    <2>5. CASE Game
      BY <1>1, <2>5, TheGameKeepsOffsets
    <2>6. CASE UNCHANGED osuDbVars
      BY <1>1, <2>6 DEF osuDbVars, OffsetsInv, OffsetsAreThoseTheGameWrote, IsBelieved
    <2>7. QED
      BY <1>1, <2>1, <2>2, <2>3, <2>4, <2>5, <2>6 DEF OsuDbNext, LoadIndex
  <1>2. OffsetsInv => (IsKnown(layout) => OffsetsAreThoseTheGameWrote)
    BY DEF OffsetsInv
  <1>3. QED
    BY <1>1, <1>2, OffsetsInitially, InvFaith, PTL DEF OsuDbSpec
=============================================================================
