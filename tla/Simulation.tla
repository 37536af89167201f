----------------------------- MODULE Simulation -----------------------------
(***************************************************************************)
(* replay/frames.py normalize and replay/simulate.py simulate: the judging *)
(* of a recorded replay against its beatmap.                               *)
(*                                                                         *)
(* The code first turns all frames into key events and then matches all    *)
(* presses with objects; both go from left to right, so the two loops are  *)
(* run frame by frame here.  Sliders are tracked over the finished         *)
(* recording, which is any state of this one.  The playfield is a line and *)
(* times are integers, as they are in a replay.  Rounding of the hit       *)
(* windows, and what the part times lose as floats, are left out.          *)
(***************************************************************************)
EXTENDS Integers, SequencesExt, FiniteSetsExt

CONSTANTS
  Beatmaps,        \* object lists, in the order of their times
  KeyStates,       \* what keys a frame can have down
  Cursors, Steps,  \* where the cursor can be; time between two frames
  MaxFrames,       \* bound: length of a recording
  Marker,          \* the place of the marker frames
  Window300, Window100, Window50, Radius, FollowRadius,
  BREAK_MS, AFTER_SPINNER_MS,
  None

ASSUME KeysAssumption ==
  \A keys \in KeyStates : keys \subseteq {"M1", "M2", "K1", "K2"}
ASSUME NumbersAssumption ==
  /\ Cursors \subseteq Int /\ Steps \subseteq Int
  /\ Window50 \in Nat /\ Radius \in Nat /\ MaxFrames \in Nat
  /\ BREAK_MS \in Nat /\ AFTER_SPINNER_MS \in Nat
\* FOLLOW_CIRCLE_SCALE is more than one.
ASSUME FollowAssumption == FollowRadius \in Nat /\ Radius <= FollowRadius

Objects ==
  [kind : {"circle", "slider", "spinner"}, time : Int, end : Int, x : Int,
   parts : Seq([time : Int, x : Int])]

ASSUME BeatmapsAssumption ==
  \A all \in Beatmaps :
    /\ all \in Seq(Objects)
    /\ \A i, j \in DOMAIN all : i < j => all[i].time <= all[j].time

Bits == {"M1", "M2"}

Events ==
  [time : Int, edge : {"down", "up"}, bit : Bits, button : {"M1", "M2", "K1", "K2"},
   uncertainty : Nat \union {None}, frame : Nat]

Reasons ==
  {"spinner", "slider_head", "simultaneous_objects", "after_break", "after_spinner"}

ASSUME NoneAssumption == None \notin Events /\ None \notin Reasons

VARIABLES
  objects,     \* the beatmap
  clock,       \* time of the last frame of the file
  frames,      \* NormalizedFrames.frames
  markers,     \* NormalizedFrames.markers_removed
  events,      \* NormalizedFrames.events
  pending,     \* presses of the last frame that are still to be matched
  cursor,      \* the first object that is not behind the matcher
  heads,       \* which press judged each object, None if none did
  presses, offTarget, outOfWindow   \* Simulation.presses, and what became of some

simVars ==
  <<objects, clock, frames, markers, events, pending, cursor, heads, presses, offTarget,
    outOfWindow>>
matchVars == <<cursor, heads, offTarget, outOfWindow>>

SimInit ==
  /\ objects \in Beatmaps
  /\ clock = 0
  /\ frames = <<>>
  /\ markers = 0
  /\ events = <<>>
  /\ pending = <<>>
  /\ cursor = 1
  /\ heads = [i \in DOMAIN objects |-> None]
  /\ presses = 0
  /\ offTarget = 0
  /\ outOfWindow = 0

-----------------------------------------------------------------------------
\* frames.py

Keyboard(bit) == IF bit = "M1" THEN "K1" ELSE "K2"

\* Keys.judgement_mask
Mask(keys) == keys \intersect Bits

\* _button_for: K1 always sets M1 as well.
ButtonFor(bit, keys) == IF Keyboard(bit) \in keys THEN Keyboard(bit) ELSE bit

\* Mutant: a key that is held presses again on every frame.
PressedAnew(was, now) == now

Pressed(was, now) == now \ was

HeldBefore(earlier) == IF earlier = <<>> THEN {} ELSE Last(earlier).keys

\* How far back the event may lie: unknown on the first frame and after a step
\* back, which is not the same as zero.
Uncertainty(earlier, frame) ==
  IF earlier = <<>> \/ frame.time < Last(earlier).time THEN None
  ELSE frame.time - Last(earlier).time

KeyEvent(earlier, frame, edge, bit, keys) ==
  [time |-> frame.time, edge |-> edge, bit |-> bit, button |-> ButtonFor(bit, keys),
   uncertainty |-> Uncertainty(earlier, frame), frame |-> Len(earlier) + 1]

Downs(earlier, frame, bit) ==
  IF bit \in Pressed(Mask(HeldBefore(earlier)), Mask(frame.keys))
    THEN <<KeyEvent(earlier, frame, "down", bit, frame.keys)>> ELSE <<>>

\* A release is attributed to what was held on the frame before.
Ups(earlier, frame, bit) ==
  IF bit \in Mask(HeldBefore(earlier)) \ Mask(frame.keys)
    THEN <<KeyEvent(earlier, frame, "up", bit, HeldBefore(earlier))>> ELSE <<>>

\* The next frame of the file is read.  Markers are dropped at its head only.
Read(frame) ==
  /\ pending = <<>>
  /\ markers + Len(frames) < MaxFrames
  /\ clock' = frame.time
  /\ IF frames = <<>> /\ frame.x = Marker
       THEN markers' = markers + 1 /\ UNCHANGED <<frames, events, pending>>
       ELSE /\ frames' = Append(frames, frame)
            /\ events' = events \o Downs(frames, frame, "M1") \o Ups(frames, frame, "M1")
                                \o Downs(frames, frame, "M2") \o Ups(frames, frame, "M2")
            /\ pending' = Downs(frames, frame, "M1") \o Downs(frames, frame, "M2")
            /\ UNCHANGED markers
  /\ presses' = presses + Len(pending')
  /\ UNCHANGED <<objects, matchVars>>

-----------------------------------------------------------------------------
\* simulate(): one press against the queue, which has no spinners in it.

\* queue[cursor]
IsNext(i) ==
  /\ i >= cursor
  /\ objects[i].kind # "spinner"
  /\ \A j \in cursor..(i - 1) : objects[j].kind = "spinner"

Error(e, object) == e.time - object.time
Distance(x, y) == IF x < y THEN y - x ELSE x - y

Expired(e, object) == Error(e, object) >= Window50
TooEarly(e, object) == Error(e, object) <= -Window50
OnTarget(e, object) == Distance(frames[e.frame].x, object.x) <= Radius

\* Mutant: a press away from the object uses the object up.
PassOffTarget(i) ==
  /\ offTarget' = offTarget + 1
  /\ cursor' = i + 1
  /\ UNCHANGED <<heads, outOfWindow>>

\* A press away from the object does nothing at all: the object stays alive.
OffTarget(i) ==
  /\ offTarget' = offTarget + 1
  /\ UNCHANGED <<cursor, heads, outOfWindow>>

\* Mutant: the object that was hit stays first in the queue.
HitAgain(i) ==
  /\ heads' = [heads EXCEPT ![i] = Head(pending)]
  /\ cursor' = i
  /\ UNCHANGED <<offTarget, outOfWindow>>

Hit(i) ==
  /\ heads' = [heads EXCEPT ![i] = Head(pending)]
  /\ cursor' = i + 1
  /\ UNCHANGED <<offTarget, outOfWindow>>

\* The press goes nowhere.
OutOfWindow ==
  /\ outOfWindow' = outOfWindow + 1
  /\ UNCHANGED <<cursor, heads, offTarget>>

\* The object can no longer be hit; the press is tested against the next one.
Expire(i) ==
  /\ pending # <<>>
  /\ IsNext(i)
  /\ Expired(Head(pending), objects[i])
  /\ cursor' = i + 1
  /\ UNCHANGED <<objects, clock, frames, markers, events, pending, heads, presses, offTarget,
                 outOfWindow>>

Match(i) ==
  /\ pending # <<>>
  /\ IsNext(i)
  /\ LET e == Head(pending)
     IN /\ ~Expired(e, objects[i])
        /\ \/ TooEarly(e, objects[i]) /\ OutOfWindow
           \/ ~TooEarly(e, objects[i]) /\ ~OnTarget(e, objects[i]) /\ OffTarget(i)
           \/ ~TooEarly(e, objects[i]) /\ OnTarget(e, objects[i]) /\ Hit(i)
  /\ pending' = Tail(pending)
  /\ UNCHANGED <<objects, clock, frames, markers, events, presses>>

NothingLeft ==
  /\ pending # <<>>
  /\ \A i \in DOMAIN objects : ~IsNext(i)
  /\ OutOfWindow
  /\ pending' = Tail(pending)
  /\ UNCHANGED <<objects, clock, frames, markers, events, presses>>

SimNext ==
  \/ \E step \in Steps, keys \in KeyStates, x \in Cursors :
       Read([time |-> clock + step, keys |-> keys, x |-> x])
  \/ \E i \in DOMAIN objects : Expire(i) \/ Match(i)
  \/ NothingLeft

SimSpec == SimInit /\ [][SimNext]_simVars

-----------------------------------------------------------------------------
\* _FrameSampler and _judge: the parts of a slider.

\* Mutant: the search runs over the times as they are.
FrameByTime(time) == Cardinality({i \in DOMAIN frames : frames[i].time < time}) + 1

\* bisect_left over the running maximum of the times.
FrameAt(time) ==
  LET highest(i) == Max({frames[j].time : j \in 1..i})
  IN Cardinality({i \in DOMAIN frames : highest(i) < time}) + 1

\* Which bits keep the slider: the one that hit its head, or any.
Required(i) == IF heads[i] = None THEN Bits ELSE {heads[i].bit}

\* Mutant: the follow circle counts whether the slider is being followed or not.
FollowedFrom(before) == FollowRadius

\* Acquiring tracking needs the object's own radius, keeping it the wide one.
Limit(before) == IF before THEN FollowRadius ELSE Radius

Holds(i, part, before) ==
  LET f == FrameAt(part.time)
  IN /\ f <= Len(frames)
     /\ frames[f].keys \intersect Required(i) # {}
     /\ Distance(frames[f].x, part.x) <= Limit(before)

\* `tracking` after the head, and after each part.
Tracking(i) ==
  LET parts == objects[i].parts
      tracking[k \in 0..Len(parts)] ==
        IF k = 0 THEN heads[i] # None ELSE Holds(i, parts[k], tracking[k - 1])
  IN tracking

SliderGrade(collected, total) ==
  IF collected = 0 THEN 0
  ELSE IF collected = total THEN 300
  ELSE IF 2 * collected >= total THEN 100 ELSE 50

CircleGrade(magnitude) ==
  IF magnitude < Window300 THEN 300 ELSE IF magnitude < Window100 THEN 100 ELSE 50

\* Hit.parts_collected: the head is one of the parts.
Collected(i) ==
  LET tracking == Tracking(i)
  IN Cardinality({k \in 0..Len(objects[i].parts) : tracking[k]})

Grade(i) ==
  CASE objects[i].kind = "spinner" -> 300
    [] objects[i].kind = "slider" -> SliderGrade(Collected(i), Len(objects[i].parts) + 1)
    [] OTHER ->
         IF heads[i] = None THEN 0 ELSE CircleGrade(Distance(heads[i].time, objects[i].time))

\* The judgements as the header has them: 300s, 100s, 50s and misses.
Counts ==
  LET graded == {<<i, Grade(i)>> : i \in DOMAIN objects}
      Of(grade) == Cardinality({g \in graded : g[2] = grade})
  IN <<Of(300), Of(100), Of(50), Of(0)>>

-----------------------------------------------------------------------------
\* _exclusion_reasons: why an object cannot contribute a timing measurement.
Reason(i) ==
  LET object == objects[i]
      spins == {j \in 1..(i - 1) : objects[j].kind = "spinner"}
  IN IF object.kind = "spinner" THEN "spinner"
     ELSE IF object.kind = "slider" THEN "slider_head"
     ELSE IF i > 1 /\ objects[i - 1].time = object.time THEN "simultaneous_objects"
     ELSE IF i > 1 /\ object.time - objects[i - 1].end > BREAK_MS THEN "after_break"
     ELSE IF spins # {} /\ object.time - objects[Max(spins)].end <= AFTER_SPINNER_MS
       THEN "after_spinner"
     ELSE None

\* Mutant: the first of a pair is not caught.
ExcludedOnce(i) == Reason(i)

\* The second of a pair is caught above; the first is caught here.
Excluded(i) ==
  IF Reason(i) = None /\ i < Len(objects) /\ Reason(i + 1) = "simultaneous_objects"
    THEN "simultaneous_objects"
    ELSE Reason(i)

UsableForTiming(i) == heads[i] # None /\ Excluded(i) = None

-----------------------------------------------------------------------------
\* validate.py: the screen against the counts of the replay's header.

\* Mutant: an object whose head no press judged is a miss, whatever it scored.
HeadsMissed == {i \in DOMAIN objects : objects[i].kind # "spinner" /\ heads[i] = None}

CirclesMissed == {i \in DOMAIN objects : objects[i].kind = "circle" /\ Grade(i) = 0}

\* max(_MINIMUM_ALLOWANCE, ceil(_SLIDER_ALLOWANCE * sliders))
Allowance ==
  LET sliders == Cardinality({i \in DOMAIN objects : objects[i].kind = "slider"})
  IN Max({2, (15 * sliders + 99) \div 100})

Misses == 4
Total(counts) == counts[1] + counts[2] + counts[3] + counts[Misses]

Agreement(counts, missed, reported) ==
  LET worst == Max({Distance(counts[g], reported[g]) : g \in DOMAIN counts})
  IN IF Total(counts) # Total(reported) \/ missed > reported[Misses]
        THEN "mismatch"
     ELSE IF worst = 0 THEN "exact"
     ELSE IF worst <= Allowance THEN "close" ELSE "mismatch"

-----------------------------------------------------------------------------
\* NormalizedFrames.press_events
Presses == {e \in Range(events) : e.edge = "down"}

EventsUpTo(n) == {e \in Events : e.frame \in 1..n}
Event == EventsUpTo(Len(frames))

SimTypeOK ==
  /\ objects \in Beatmaps
  /\ clock \in Int
  /\ frames \in Seq([time : Int, keys : KeyStates, x : Cursors])
  /\ markers \in 0..MaxFrames
  /\ events \in Seq(Event)
  /\ pending \in Seq(Event)
  /\ cursor \in 1..(Len(objects) + 1)
  /\ heads \in [DOMAIN objects -> Event \union {None}]
  /\ presses \in Nat /\ offTarget \in Nat /\ outOfWindow \in Nat

\* The last of some events is a press.
EndsDown(some) == \E l \in some : events[l].edge = "down" /\ \A m \in some : m <= l

\* frames.py: "a single physical press produces one edge rather than two", and
\* holding it none: the events of a bit are a press, its release, a press and so
\* on, and the bit is down on the frames from a press up to its release.
BitsAreDownFromPressToRelease ==
  \A bit \in Bits :
    LET own == {k \in DOMAIN events : events[k].bit = bit}
    IN /\ \A k \in own : events[k].edge = "up" <=> EndsDown({l \in own : l < k})
       /\ \A f \in DOMAIN frames :
            bit \in frames[f].keys <=> EndsDown({l \in own : events[l].frame <= f})

Before(e, d) == e.frame < d.frame \/ (e.frame = d.frame /\ e.bit = "M1" /\ d.bit = "M2")

\* Behind a press are the objects earlier presses hit, and those that were out
\* of reach at this press or at one before it.
Behind(d, i) ==
  \/ objects[i].kind = "spinner"
  \/ \E m \in Presses : (m = d \/ Before(m, d)) /\ m.time >= objects[i].time + Window50
  \/ \E m \in Presses : Before(m, d) /\ heads[i] = m

\* The first object that is not behind is the one a press can hit, and it does
\* when it is in time and on it.
GoesToTheEarliest(d, i) ==
  heads[i] = d <=>
    /\ ~Behind(d, i)
    /\ \A j \in 1..(i - 1) : Behind(d, j)
    /\ d.time > objects[i].time - Window50
    /\ OnTarget(d, objects[i])

\* simulate.py, "Notelock": "a press goes to the earliest object still inside its
\* own window", once all presses of the frames so far are matched.
PressesGoToTheEarliestOpenObject ==
  pending = <<>> =>
    \A d \in Presses, i \in DOMAIN objects : GoesToTheEarliest(d, i)

\* Hits pair presses and objects in the order of both, and every press is
\* accounted for: it hit one object, was off target or out of every window.
MatchingKeepsOrder ==
  LET hit == {i \in DOMAIN objects : heads[i] # None}
  IN /\ \A i, j \in hit : i < j => Before(heads[i], heads[j])
     /\ Cardinality(hit) + offTarget + outOfWindow + Len(pending) = presses

\* "The game checks a tick on the update its clock passes the tick's time": the
\* frame a part is judged on is the first one at or after it, although the times
\* of a real replay step back here and there.
PartsAreJudgedOnTheNextUpdate ==
  \A i \in DOMAIN objects : \A k \in DOMAIN objects[i].parts :
    LET t == objects[i].parts[k].time
        f == FrameAt(t)
    IN /\ f <= Len(frames) => frames[f].time >= t
       /\ \A g \in 1..(f - 1) : frames[g].time < t

\* At the k-th part the cursor is near it, with a key down that may follow.
On(i, k, radius) ==
  LET part == objects[i].parts[k]
      f == FrameAt(part.time)
  IN /\ f <= Len(frames)
     /\ \E bit \in frames[f].keys \intersect Bits : heads[i] # None => bit = heads[i].bit
     /\ Distance(frames[f].x, part.x) <= radius

Acquired(i, k) == IF k = 0 THEN heads[i] # None ELSE On(i, k, Radius)

\* "Acquiring it needs the cursor within the object's own radius; only keeping
\* it allows the wider one, and only while the key that hit the head stays
\* down": a part is collected when tracking was acquired at it, or earlier and
\* kept at every part since.
TrackingIsAcquiredThenKept ==
  \A i \in DOMAIN objects :
    LET tracking == Tracking(i)
    IN \A k \in 0..Len(objects[i].parts) :
         tracking[k] <=>
           \E j \in 0..k : Acquired(i, j) /\ \A m \in (j + 1)..k : On(i, m, FollowRadius)

\* simulate(): a timing error feeds the statistics only when it is a circle's, no
\* object before it and no circle after it in a row of circles has its time, and
\* the player is inside a rhythm: neither a rest nor the last spin lies right
\* before it.
TimedHitsAreRhythm ==
  \A i \in DOMAIN objects : UsableForTiming(i) =>
    /\ objects[i].kind = "circle"
    /\ \A j \in 1..(i - 1) : objects[j].time # objects[i].time
    /\ \A j \in (i + 1)..Len(objects) :
         (\A k \in (i + 1)..j : objects[k].kind = "circle") => objects[j].time # objects[i].time
    /\ i > 1 => objects[i].time - objects[i - 1].end <= BREAK_MS
    /\ \A j \in 1..(i - 1) :
         /\ objects[j].kind = "spinner"
         /\ \A k \in (j + 1)..(i - 1) : objects[k].kind # "spinner"
         => objects[i].time - objects[j].end > AFTER_SPINNER_MS

\* validate.py: the screen accepts the simulation of a replay that reproduces,
\* also when a slider scored without its head.  With one object graded otherwise
\* the replay is close, if every circle missed can be one of the header's misses.
OwnCountsReproduce ==
  pending = <<>> =>
    LET counts == Counts
        missed == Cardinality(CirclesMissed)
    IN /\ Agreement(counts, missed, counts) = "exact"
       /\ \A g, h \in DOMAIN counts :
            g # h /\ counts[g] > 0 =>
              LET other == [counts EXCEPT ![g] = @ - 1, ![h] = @ + 1]
              IN Agreement(counts, missed, other)
                   = IF other[Misses] < missed THEN "mismatch" ELSE "close"
=============================================================================
