------------------------------ MODULE Progress ------------------------------
(* What the analysis makes of a history of plays and of the settings they were *)
(* played under: sessions, the epochs the journal recorded and what it carries *)
(* forward, the boundary of the progress view, the verdict on a settings       *)
(* change, and the plays that forge serve and forge diagnose call the present. *)
(* A play is its place in the order they were played in; every play that is    *)
(* kept has the same number of hits, and its mean error is Bias minus the      *)
(* offset it was played under: the player does not adapt.                      *)
EXTENDS Integers, Sequences, FiniteSets, FiniteSetsExt, SequencesExt, Functions

CONSTANTS
  Settings,        \* what the player sets Offset and the output device to;
                   \* the device stands for the other EPOCH_KEYS
  Kinds,           \* "good", and what select() or the screen leaves out
  Bias,            \* the mean error at offset 0
  Gap,             \* SESSION_GAP
  MinSideReplays,  \* MIN_SIDE_REPLAYS, MIN_REPLAYS_PER_SIDE
  MinSideSessions, \* MIN_SIDE_SESSIONS, MIN_SESSIONS_PER_SIDE
  MaxPlays,        \* bound on the plays
  MaxLate,         \* bound on the plays that are elsewhere
  MaxLeftOut,      \* bound on the plays that are not "good"
  MaxChanges,      \* bound on the changes of the settings
  NoEpoch          \* the epoch of a play that has none

ASSUME NoEpochIsNoSettings == NoEpoch \notin Settings
ASSUME OffsetsAreNumbers == Bias \in Int /\ \A s \in Settings : s.offset \in Int
ASSUME SidesAreBounded == {Gap, MinSideReplays, MinSideSessions, MaxPlays, MaxLate, MaxLeftOut, MaxChanges} \subseteq Nat

\* The numbers of a set, the smallest first.
Ascending(S) ==
  [n \in 1..Cardinality(S) |-> CHOOSE i \in S : Cardinality({j \in S : j < i}) = n - 1]

VARIABLES
  settings, \* what osu!.cfg holds
  changes,  \* how often the player changed it
  plays,    \* the history, oldest first
  journal,  \* its entries, as forge collect appended them
  recorded  \* the epochs whose settings are in the journal too

progressVars == <<settings, changes, plays, journal, recorded>>

ProgressInit ==
  /\ settings \in Settings
  /\ changes = 0
  /\ plays = <<>>
  /\ journal = <<>>
  /\ recorded = {}

Now == IF plays = <<>> THEN 0 ELSE plays[Len(plays)].at

\* A play is in the folder at once, or comes into it later, from another place.
Play(kind, pause, here) ==
  /\ Len(plays) < MaxPlays
  /\ here \/ Cardinality({i \in DOMAIN plays : ~plays[i].here}) < MaxLate
  /\ kind = "good" \/ Cardinality({i \in DOMAIN plays : plays[i].kind # "good"}) < MaxLeftOut
  /\ plays' = Append(plays, [at |-> Now + pause, under |-> settings, kind |-> kind, here |-> here])
  /\ UNCHANGED <<settings, changes, journal, recorded>>

Arrive(i) ==
  /\ ~plays[i].here
  /\ plays' = [plays EXCEPT ![i].here = TRUE]
  /\ UNCHANGED <<settings, changes, journal, recorded>>

ChangeSettings(s) ==
  /\ s # settings /\ changes < MaxChanges
  /\ plays # <<>> /\ Last(plays).under = settings \* bound: no change is undone unplayed
  /\ settings' = s
  /\ changes' = changes + 1
  /\ UNCHANGED <<plays, journal, recorded>>

Here == {i \in DOMAIN plays : plays[i].here}
Journaled == {journal[n].play : n \in DOMAIN journal}

\* forge collect: what is new gets the epoch of now. The first builds left the
\* settings behind it out.
Collect(withSettings) ==
  LET new == Ascending(Here \ Journaled)
  IN /\ new # <<>>
     /\ withSettings \/ journal = <<>> \* bound: a first build collects once
     /\ journal' = journal \o [n \in DOMAIN new |-> [play |-> new[n], epoch |-> settings]]
     /\ recorded' = IF withSettings THEN recorded \cup {settings} ELSE recorded
     /\ UNCHANGED <<settings, changes, plays>>

ProgressNext ==
  \/ \E kind \in Kinds, pause \in IF plays = <<>> THEN {1} ELSE {1, Gap + 1}, here \in BOOLEAN :
       Play(kind, pause, here)
  \/ \E i \in DOMAIN plays : Arrive(i)
  \/ \E s \in Settings : ChangeSettings(s)
  \/ \E withSettings \in BOOLEAN : Collect(withSettings)

ProgressSpec == ProgressInit /\ [][ProgressNext]_progressVars

-----------------------------------------------------------------------------
(* The corpus *)

\* The screen leaves out a play the simulation does not reproduce.
Believed == {i \in Here : plays[i].kind # "unreproduced"}

\* select(): too few hits, too many misses or a local offset.
Selected(S) == {i \in S : plays[i].kind = "good"}

Before(i, S) == {j \in S : j < i}

\* assign_sessions numbers the silences longer than the gap.
SessionOf(i) ==
  Cardinality({j \in Believed : /\ j <= i
                                /\ Before(j, Believed) # {}
                                /\ plays[j].at - plays[Max(Before(j, Believed))].at > Gap})
SessionsOf(S) == {SessionOf(i) : i \in S}

EpochOf(i) ==
  LET lines == {n \in DOMAIN journal : journal[n].play = i}
  IN IF lines = {} THEN NoEpoch ELSE journal[CHOOSE n \in lines : TRUE].epoch

\* fill_epochs: carried forward over the plays not recorded, never backwards.
Filled(i) ==
  LET known == {j \in Believed : j <= i /\ EpochOf(j) # NoEpoch}
  IN IF known = {} THEN NoEpoch ELSE EpochOf(Max(known))

Previous(i) == Max(Before(i, Believed))

Changes ==
  LET filled == [i \in Believed |-> Filled(i)]
  IN {i \in Believed : /\ Before(i, Believed) # {}
                       /\ filled[Previous(i)] # NoEpoch
                       /\ filled[i] # filled[Previous(i)]}

\* _midpoint_boundary: the first play of the session in the middle.
Midpoint ==
  LET kept == Selected(Believed)
      sessions == Ascending(SessionsOf(kept))
      middle == sessions[Len(sessions) \div 2 + 1]
  IN IF Len(sessions) < 2 * MinSideSessions THEN {}
     ELSE {Min({i \in kept : SessionOf(i) = middle})}

\* The most recent change of the settings; without one the middle of the
\* sessions; without enough of those none.
Boundary == IF Changes # {} THEN {Max(Changes)} ELSE Midpoint

Side(which) ==
  LET boundary == Boundary
  IN {i \in Believed : \E b \in boundary : IF which = "before" THEN i < b ELSE i >= b}

Sides == {"before", "after"}

Thin(kept) ==
  Cardinality(kept) < MinSideReplays \/ Cardinality(SessionsOf(kept)) < MinSideSessions

Compared == Boundary # {} /\ \A side \in Sides : ~Thin(Selected(Side(side)))

-----------------------------------------------------------------------------
(* The verdict on a change. Means are compared as sums over both numbers of    *)
(* plays, so that everything stays an integer.                                 *)

ErrorOf(i) == Bias - plays[i].under.offset
ErrorsOf(S) ==
  LET sum[n \in 0..Len(plays)] ==
        IF n = 0 THEN 0 ELSE IF n \in S THEN sum[n - 1] + ErrorOf(n) ELSE sum[n - 1]
  IN sum[Len(plays)]

Kept(side) == Selected(Side(side))
Scale == Cardinality(Kept("before")) * Cardinality(Kept("after"))
Difference ==
  ErrorsOf(Kept("after")) * Cardinality(Kept("before"))
    - ErrorsOf(Kept("before")) * Cardinality(Kept("after"))

AfterEpoch == Filled(Max(Changes))
BeforeEpoch == Filled(Previous(Max(Changes)))

\* A change whose settings were not recorded changed nothing that is known.
OffsetChanged ==
  {BeforeEpoch, AfterEpoch} \subseteq recorded /\ AfterEpoch.offset # BeforeEpoch.offset

\* The sign was once the other one.
PredictedUp == (AfterEpoch.offset - BeforeEpoch.offset) * Scale

\* Raising the offset moves the mean the other way.
Predicted == -(AfterEpoch.offset - BeforeEpoch.offset) * Scale

Distance(a, b) == IF a < b THEN b - a ELSE a - b

\* AGREEMENT_TOLERANCE is forty percent.
Within == Distance(Difference, Predicted) * 10 <= Distance(Predicted, 0) * 4

\* compare(), when the interval on the difference does or does not include zero.
VerdictWhen(measurable) ==
  IF ~Compared THEN "insufficient"
  ELSE IF ~measurable THEN "unchanged"
  ELSE IF ~OffsetChanged THEN "partial"
  ELSE IF Difference * Predicted < 0 THEN "contradicted"
  ELSE IF Within THEN "confirmed" ELSE "partial"

\* The interval covers the difference; how wide it is depends on the hits.
Measurable == IF Difference = 0 THEN {FALSE} ELSE BOOLEAN

\* verify_boundary: the middle of the sessions predicts nothing.
Verdicts == IF Changes = {} THEN {} ELSE {VerdictWhen(m) : m \in Measurable}

-----------------------------------------------------------------------------
(* The present *)

\* The panel of forge serve: the epoch of the play made last, carried forward.
PanelEpoch == IF Believed = {} THEN NoEpoch ELSE Filled(Max(Believed))
PanelPresent == {i \in Believed : Filled(i) \in {NoEpoch, PanelEpoch} \/ PanelEpoch = NoEpoch}

\* forge diagnose: the epoch of the line the journal got last.
CommandEpochIsTheFirst == IF journal = <<>> THEN NoEpoch ELSE journal[1].epoch
CommandEpoch == IF journal = <<>> THEN NoEpoch ELSE journal[Len(journal)].epoch
CommandPresent ==
  {i \in Believed : CommandEpoch = NoEpoch \/ EpochOf(i) = CommandEpoch}

-----------------------------------------------------------------------------
(* Properties *)

Truthful(i) == EpochOf(i) = plays[i].under

\* Each side was played under one configuration, and the two differ in the
\* offset. Both are on the record.
AnOffsetExperiment ==
  LET was == BeforeEpoch
      is == AfterEpoch
  IN /\ {was, is} \subseteq recorded
     /\ was.device = is.device
     /\ \A i \in Side("before") : plays[i].under = was
     /\ \A i \in Side("after") : plays[i].under = is

\* When all that happened is that the player changed the offset, the verdict
\* never tells them to undo it, nor that something else moved: it is confirmed,
\* or there is nothing to see yet (compare).
AnOffsetThatWorkedIsNotContradicted ==
  Changes # {} /\ AnOffsetExperiment
    => Verdicts \subseteq {"confirmed", "unchanged", "insufficient"}

\* Collected after every play, in the order they were played, and the last one
\* is in the corpus.
JournalFollowsThePlays ==
  /\ Journaled = Here
  /\ \A m, n \in DOMAIN journal : m < n => journal[m].play < journal[n].play
  /\ Believed # {} => Max(Believed) = Max(Here)

\* The panel and the command call the same plays the present, whatever the
\* player changed and changed back, while forge collect keeps up with the plays
\* (_build, _epoch_filter).
PanelAndCommandAgreeOnThePresent ==
  JournalFollowsThePlays => PanelPresent = CommandPresent

\* "A comparison, never a pool": with every play on the record and nothing but
\* the offset ever changed, a change that did what it predicts is not
\* contradicted, however many came before it (progress, compare).
AChangeIsScoredOnWhatItChanged ==
  (/\ \A i \in Believed : Truthful(i) /\ plays[i].under \in recorded
   /\ \A i, j \in Believed : plays[i].under.device = plays[j].under.device)
    => "contradicted" \notin Verdicts
=============================================================================
