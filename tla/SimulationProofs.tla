-------------------------- MODULE SimulationProofs --------------------------
(***************************************************************************)
(* Simulation, for every beatmap and every recording: presses and objects  *)
(* are paired in order, each press goes to the earliest open object, the   *)
(* key log follows the keys, parts are judged and sliders tracked as the   *)
(* comments of simulate.py say, and only rhythm is timed.                  *)
(***************************************************************************)
EXTENDS Failures, TLAPS, FiniteSetTheorems, WellFoundedInduction

Frame == [time : Int, keys : KeyStates, x : Cursors]

LEMMA BeatmapsAreSequences ==
  ASSUME NEW all \in Beatmaps
  PROVE  all \in Seq(Objects) /\ Len(all) \in Nat /\ DOMAIN all = 1..Len(all)
  BY BeatmapsAssumption

LEMMA WiderSequences ==
  ASSUME NEW S, NEW T, S \subseteq T, NEW s \in Seq(S)
  PROVE  s \in Seq(T)
  OBVIOUS

LEMMA ElementsAreTyped ==
  ASSUME NEW S, NEW s \in Seq(S), NEW k \in DOMAIN s
  PROVE  s[k] \in S
  OBVIOUS

LEMMA LaterEvents ==
  ASSUME NEW n \in Nat
  PROVE  EventsUpTo(n) \subseteq EventsUpTo(n + 1)
  BY DEF EventsUpTo

LEMMA AtMostOne ==
  ASSUME NEW S, NEW x \in S, NEW s \in {<<x>>, <<>>}
  PROVE  s \in Seq(S) /\ Len(s) \in 0..1 /\ \A k \in DOMAIN s : s[k] = x
  <1>1. CASE s = <<x>>
    BY <1>1
  <1>2. CASE s = <<>>
    BY <1>2
  <1>3. QED
    BY <1>1, <1>2

\* What one bit contributes on a frame: events of that frame and that bit.
LEMMA KeyEventIsTyped ==
  ASSUME NEW earlier \in Seq(Frame), NEW frame \in Frame, NEW bit \in Bits,
         NEW edge \in {"down", "up"}, NEW keys
  PROVE  /\ KeyEvent(earlier, frame, edge, bit, keys) \in EventsUpTo(Len(earlier) + 1)
         /\ KeyEvent(earlier, frame, edge, bit, keys).frame = Len(earlier) + 1
         /\ KeyEvent(earlier, frame, edge, bit, keys).bit = bit
  <1>1. ButtonFor(bit, keys) \in {"M1", "M2", "K1", "K2"}
    BY DEF ButtonFor, Keyboard, Bits
  <1>2. frame.time \in Int /\ Len(earlier) \in Nat
    BY DEF Frame
  <1>3. Uncertainty(earlier, frame) \in Nat \union {None}
    <2>1. CASE earlier = <<>>
      BY <2>1 DEF Uncertainty
    <2>2. CASE earlier # <<>>
      <3>1. Last(earlier) \in Frame
        BY <2>2 DEF Last
      <3>2. Last(earlier).time \in Int
        BY <3>1 DEF Frame
      <3>3. QED
        BY <1>2, <2>2, <3>2 DEF Uncertainty
    <2>3. QED
      BY <2>1, <2>2
  <1>4. QED
    BY <1>1, <1>2, <1>3 DEF KeyEvent, EventsUpTo, Events

LEMMA EdgesAreTyped ==
  ASSUME NEW earlier \in Seq(Frame), NEW frame \in Frame, NEW bit \in Bits
  PROVE  /\ Downs(earlier, frame, bit) \in Seq(EventsUpTo(Len(earlier) + 1))
         /\ Ups(earlier, frame, bit) \in Seq(EventsUpTo(Len(earlier) + 1))
         /\ Len(Downs(earlier, frame, bit)) \in 0..1
         /\ \A k \in DOMAIN Downs(earlier, frame, bit) :
              /\ Downs(earlier, frame, bit)[k].frame = Len(earlier) + 1
              /\ Downs(earlier, frame, bit)[k].bit = bit
  <1> DEFINE down == KeyEvent(earlier, frame, "down", bit, frame.keys)
             up == KeyEvent(earlier, frame, "up", bit, HeldBefore(earlier))
  <1>1. down \in EventsUpTo(Len(earlier) + 1) /\ down.frame = Len(earlier) + 1 /\ down.bit = bit
    BY KeyEventIsTyped
  <1>2. up \in EventsUpTo(Len(earlier) + 1)
    BY KeyEventIsTyped
  <1>3. Downs(earlier, frame, bit) \in {<<down>>, <<>>}
    BY DEF Downs
  <1>4. Ups(earlier, frame, bit) \in {<<up>>, <<>>}
    BY DEF Ups
  <1> HIDE DEF down, up
  <1>5. /\ Downs(earlier, frame, bit) \in Seq(EventsUpTo(Len(earlier) + 1))
        /\ Len(Downs(earlier, frame, bit)) \in 0..1
        /\ \A k \in DOMAIN Downs(earlier, frame, bit) : Downs(earlier, frame, bit)[k] = down
    BY <1>1, <1>3, AtMostOne
  <1>6. Ups(earlier, frame, bit) \in Seq(EventsUpTo(Len(earlier) + 1))
    BY <1>2, <1>4, AtMostOne
  <1>7. QED
    BY <1>1, <1>5, <1>6

\* The presses of one frame are the one of M1 before the one of M2.
LEMMA DownsInOrder ==
  ASSUME NEW earlier \in Seq(Frame), NEW frame \in Frame
  PROVE  LET downs == Downs(earlier, frame, "M1") \o Downs(earlier, frame, "M2")
         IN /\ downs \in Seq(EventsUpTo(Len(earlier) + 1))
            /\ \A k \in DOMAIN downs : downs[k].frame = Len(earlier) + 1
            /\ \A k, l \in DOMAIN downs : k < l => Before(downs[k], downs[l])
  <1> DEFINE first == Downs(earlier, frame, "M1")
             second == Downs(earlier, frame, "M2")
             downs == first \o second
             E == EventsUpTo(Len(earlier) + 1)
  <1>1. /\ first \in Seq(E) /\ Len(first) \in 0..1
        /\ \A k \in DOMAIN first : first[k].frame = Len(earlier) + 1 /\ first[k].bit = "M1"
    BY EdgesAreTyped DEF Bits
  <1>2. /\ second \in Seq(E) /\ Len(second) \in 0..1
        /\ \A k \in DOMAIN second : second[k].frame = Len(earlier) + 1 /\ second[k].bit = "M2"
    BY EdgesAreTyped DEF Bits
  <1> HIDE DEF first, second, E
  <1>3. /\ downs \in Seq(E)
        /\ DOMAIN downs = 1..(Len(first) + Len(second))
        /\ \A k \in 1..Len(first) : downs[k] = first[k]
        /\ \A k \in 1..Len(second) : downs[Len(first) + k] = second[k]
    BY <1>1, <1>2
  <1>4. ASSUME NEW k \in DOMAIN downs
        PROVE  /\ downs[k].frame = Len(earlier) + 1
               /\ k <= Len(first) => downs[k].bit = "M1"
               /\ k > Len(first) => downs[k].bit = "M2"
    <2>1. CASE k <= Len(first)
      BY <1>1, <1>3, <2>1
    <2>2. CASE k > Len(first)
      <3>1. k - Len(first) \in 1..Len(second) /\ Len(first) + (k - Len(first)) = k
        BY <1>1, <1>2, <1>3, <2>2
      <3>2. downs[k] = second[k - Len(first)]
        BY <1>3, <3>1
      <3>3. QED
        BY <1>1, <1>2, <2>2, <3>1, <3>2
    <2>3. QED
      BY <1>1, <1>3, <2>1, <2>2
  <1>5. ASSUME NEW k \in DOMAIN downs, NEW l \in DOMAIN downs, k < l
        PROVE  Before(downs[k], downs[l])
    <2>1. k <= Len(first) /\ l > Len(first)
      BY <1>1, <1>2, <1>3, <1>5
    <2>2. QED
      BY <1>4, <2>1 DEF Before
  <1>6. QED
    BY <1>3, <1>4, <1>5 DEF first, second, E

-----------------------------------------------------------------------------
\* Types.

LEMMA ReadTypes ==
  ASSUME SimTypeOK, NEW frame \in Frame, Read(frame)
  PROVE  SimTypeOK'
  <1> DEFINE n == Len(frames)
  <1>1. /\ frames \in Seq(Frame) /\ n \in Nat
        /\ events \in Seq(EventsUpTo(n))
        /\ pending \in Seq(EventsUpTo(n))
        /\ heads \in [DOMAIN objects -> EventsUpTo(n) \union {None}]
        /\ presses \in Nat /\ markers \in 0..MaxFrames
    BY DEF SimTypeOK, Event, Frame
  <1>2. pending' \in Seq(EventsUpTo(n + 1)) /\ Len(pending') \in Nat
    <2>1. CASE pending' = pending
      BY <1>1, <2>1, LaterEvents
    <2>2. CASE pending' = Downs(frames, frame, "M1") \o Downs(frames, frame, "M2")
      BY <1>1, <2>2, DownsInOrder
    <2>3. QED
      BY <2>1, <2>2 DEF Read
  <1>3. presses' \in Nat
    BY <1>1, <1>2 DEF Read
  <1>4. clock' \in Int
    BY DEF Read, Frame
  <1>5. CASE frames = <<>> /\ frame.x = Marker
    <2>1. markers' = markers + 1 /\ UNCHANGED <<frames, events, pending>>
      BY <1>5 DEF Read
    <2>2. markers' \in 0..MaxFrames
      <3>1. markers + Len(frames) < MaxFrames
        BY DEF Read
      <3>2. QED
        BY <1>1, <2>1, <3>1, NumbersAssumption
    <2>3. QED
      BY <1>3, <1>4, <2>1, <2>2 DEF SimTypeOK, Event, Read, matchVars
  <1>6. CASE ~(frames = <<>> /\ frame.x = Marker)
    <2>1. /\ frames' = Append(frames, frame)
          /\ events' = events \o Downs(frames, frame, "M1") \o Ups(frames, frame, "M1")
                              \o Downs(frames, frame, "M2") \o Ups(frames, frame, "M2")
          /\ markers' = markers
      BY <1>6 DEF Read
    <2>2. frames' \in Seq(Frame) /\ Len(frames') = n + 1
      BY <1>1, <2>1
    <2>3. events' \in Seq(EventsUpTo(n + 1))
      <3>1. events \in Seq(EventsUpTo(n + 1))
        BY <1>1, LaterEvents
      <3>2. \A bit \in Bits : /\ Downs(frames, frame, bit) \in Seq(EventsUpTo(n + 1))
                              /\ Ups(frames, frame, bit) \in Seq(EventsUpTo(n + 1))
        BY <1>1, EdgesAreTyped
      <3> HIDE DEF n
      <3>3. QED
        BY <2>1, <3>1, <3>2 DEF Bits
    <2>4. heads' \in [DOMAIN objects' -> EventsUpTo(n + 1) \union {None}]
      BY <1>1, LaterEvents DEF Read, matchVars
    <2>5. QED
      BY <1>2, <1>3, <1>4, <2>1, <2>2, <2>3, <2>4 DEF SimTypeOK, Event, Frame, Read, matchVars
  <1>7. QED
    BY <1>5, <1>6

\* Heads of presses and rests of them are as well typed as the presses were.
LEMMA MatchTypes ==
  ASSUME SimTypeOK, [SimNext]_simVars,
         \A step \in Steps, keys \in KeyStates, x \in Cursors :
           ~Read([time |-> clock + step, keys |-> keys, x |-> x])
  PROVE  SimTypeOK'
  <1>1. /\ objects \in Beatmaps /\ Len(objects) \in Nat /\ DOMAIN objects = 1..Len(objects)
        /\ pending \in Seq(Event)
        /\ cursor \in 1..(Len(objects) + 1)
        /\ heads \in [DOMAIN objects -> Event \union {None}]
        /\ offTarget \in Nat /\ outOfWindow \in Nat
    BY BeatmapsAreSequences DEF SimTypeOK
  <1>2. CASE UNCHANGED simVars
    BY <1>2 DEF SimTypeOK, Event, simVars
  <1>3. ASSUME NEW i \in DOMAIN objects, Expire(i)
        PROVE  SimTypeOK'
    <2>1. cursor' \in 1..(Len(objects) + 1)
      BY <1>1, <1>3 DEF Expire
    <2>2. QED
      BY <1>3, <2>1 DEF SimTypeOK, Event, Expire
  <1>4. ASSUME NEW i \in DOMAIN objects, Match(i)
        PROVE  SimTypeOK'
    <2>1. pending # <<>> /\ pending' = Tail(pending)
      BY <1>4 DEF Match
    <2>2. Head(pending) \in Event /\ pending' \in Seq(Event)
      BY <1>1, <2>1
    <2>3. /\ cursor' \in 1..(Len(objects) + 1)
          /\ heads' \in [DOMAIN objects -> Event \union {None}]
          /\ offTarget' \in Nat /\ outOfWindow' \in Nat
      <3>1. CASE OutOfWindow
        BY <1>1, <3>1 DEF OutOfWindow
      <3>2. CASE OffTarget(i)
        BY <1>1, <3>2 DEF OffTarget
      <3>3. CASE Hit(i)
        BY <1>1, <2>2, <3>3 DEF Hit
      <3>4. QED
        BY <1>4, <3>1, <3>2, <3>3 DEF Match
    <2>4. QED
      BY <1>4, <2>2, <2>3 DEF SimTypeOK, Event, Match
  <1>5. CASE NothingLeft
    <2>1. pending' \in Seq(Event)
      BY <1>1, <1>5 DEF NothingLeft
    <2>2. QED
      BY <1>1, <1>5, <2>1 DEF SimTypeOK, Event, NothingLeft, OutOfWindow
  <1>6. QED
    BY <1>2, <1>3, <1>4, <1>5 DEF SimNext

LEMMA InitialSimTypes == SimInit => SimTypeOK
  BY BeatmapsAreSequences, NumbersAssumption DEF SimInit, SimTypeOK, Event

\* Whatever the recording, every variable keeps its type; among others, the
\* matcher never runs past the end of the objects.
THEOREM SimTypeCorrect == SimSpec => []SimTypeOK
  <1>1. SimTypeOK /\ [SimNext]_simVars => SimTypeOK'
    <2> SUFFICES ASSUME SimTypeOK, [SimNext]_simVars PROVE SimTypeOK'
      OBVIOUS
    <2>1. ASSUME NEW step \in Steps, NEW keys \in KeyStates, NEW x \in Cursors,
                 Read([time |-> clock + step, keys |-> keys, x |-> x])
          PROVE  SimTypeOK'
      <3>1. [time |-> clock + step, keys |-> keys, x |-> x] \in Frame
        BY NumbersAssumption DEF SimTypeOK, Frame
      <3>2. QED
        BY <2>1, <3>1, ReadTypes
    <2>2. QED
      BY <2>1, MatchTypes
  <1>2. QED
    BY <1>1, InitialSimTypes, PTL DEF SimSpec

-----------------------------------------------------------------------------
\* Order.

\* The objects some press hit, and what makes their order inductive: they are
\* behind the cursor, and all their presses are past those still to be matched.
Matched == {i \in DOMAIN objects : heads[i] # None}

HitsAreBehind == \A i \in Matched : i < cursor
HitsAreInOrder == \A i, j \in Matched : i < j => Before(heads[i], heads[j])
HitsArePast == \A i \in Matched, k \in DOMAIN pending : Before(heads[i], pending[k])
PendingInOrder == \A k, l \in DOMAIN pending : k < l => Before(pending[k], pending[l])
AllAccountedFor == Cardinality(Matched) + offTarget + outOfWindow + Len(pending) = presses

OrderInv ==
  /\ HitsAreBehind
  /\ HitsAreInOrder
  /\ HitsArePast
  /\ PendingInOrder
  /\ AllAccountedFor

MatchingInv == SimTypeOK /\ OrderInv

LEMMA MatchedIsFinite ==
  ASSUME SimTypeOK
  PROVE  IsFiniteSet(Matched) /\ Cardinality(Matched) \in Nat
  <1>1. DOMAIN objects = 1..Len(objects) /\ Len(objects) \in Nat
    BY BeatmapsAreSequences DEF SimTypeOK
  <1>2. IsFiniteSet(DOMAIN objects)
    BY <1>1, FS_Interval
  <1>3. QED
    BY <1>2, FS_Subset, FS_CardinalityType DEF Matched

\* What is left of a row of presses without its first one.
LEMMA PressesLeft ==
  ASSUME NEW S, NEW s \in Seq(S), s # <<>>
  PROVE  /\ Head(s) = s[1] /\ 1 \in DOMAIN s
         /\ Len(Tail(s)) = Len(s) - 1
         /\ \A k \in DOMAIN Tail(s) : k + 1 \in DOMAIN s /\ 1 < k + 1 /\ Tail(s)[k] = s[k + 1]
  OBVIOUS

LEMMA ReadKeepsOrder ==
  ASSUME MatchingInv, NEW frame \in Frame, Read(frame)
  PROVE  OrderInv'
  <1>1. /\ pending = <<>> /\ presses' = presses + Len(pending')
        /\ UNCHANGED <<objects, cursor, heads, offTarget, outOfWindow>>
    BY DEF Read, matchVars
  <1>2. Matched' = Matched
    BY <1>1 DEF Matched
  <1>3. /\ frames \in Seq(Frame) /\ Len(frames) \in Nat
        /\ \A i \in Matched : heads[i].frame \in 1..Len(frames)
    BY DEF MatchingInv, OrderInv, SimTypeOK, Frame, Matched, Event, EventsUpTo
  <1>4. /\ pending' \in Seq(EventsUpTo(Len(frames) + 1))
        /\ \A k \in DOMAIN pending' : pending'[k].frame = Len(frames) + 1
        /\ PendingInOrder'
    <2>1. CASE pending' = pending
      BY <1>1, <2>1 DEF PendingInOrder
    <2>2. CASE pending' = Downs(frames, frame, "M1") \o Downs(frames, frame, "M2")
      BY <1>3, <2>2, DownsInOrder DEF PendingInOrder
    <2>3. QED
      BY <2>1, <2>2 DEF Read
  <1>5. HitsAreBehind' /\ HitsAreInOrder'
    BY <1>1, <1>2 DEF MatchingInv, OrderInv, HitsAreBehind, HitsAreInOrder
  <1>6. HitsArePast'
    BY <1>1, <1>2, <1>3, <1>4 DEF HitsArePast, Before
  <1>7. AllAccountedFor'
    <2>1. Cardinality(Matched) + offTarget + outOfWindow = presses
      <3>1. Cardinality(Matched) \in Nat /\ offTarget \in Nat /\ outOfWindow \in Nat
        BY MatchedIsFinite DEF MatchingInv, OrderInv, SimTypeOK
      <3>2. QED
        BY <1>1, <3>1 DEF MatchingInv, OrderInv, AllAccountedFor
    <2>2. presses \in Nat /\ Len(pending') \in Nat
      BY <1>4 DEF MatchingInv, OrderInv, SimTypeOK
    <2>3. QED
      BY <1>1, <1>2, <2>1, <2>2 DEF AllAccountedFor
  <1>8. QED
    BY <1>4, <1>5, <1>6, <1>7 DEF OrderInv

\* A press that hits nothing is counted as what it was.
LEMMA MissKeepsOrder ==
  ASSUME MatchingInv, pending # <<>>, pending' = Tail(pending),
         UNCHANGED <<objects, cursor, heads, presses>>,
         \/ offTarget' = offTarget + 1 /\ outOfWindow' = outOfWindow
         \/ offTarget' = offTarget /\ outOfWindow' = outOfWindow + 1
  PROVE  OrderInv'
  <1>1. Matched' = Matched
    BY DEF Matched
  <1>2. pending \in Seq(Event)
    BY DEF MatchingInv, OrderInv, SimTypeOK
  <1>3. /\ Len(pending') = Len(pending) - 1
        /\ \A k \in DOMAIN pending' : k + 1 \in DOMAIN pending /\ pending'[k] = pending[k + 1]
    BY <1>2, PressesLeft
  <1>4. HitsAreBehind' /\ HitsAreInOrder'
    BY <1>1 DEF MatchingInv, OrderInv, HitsAreBehind, HitsAreInOrder
  <1>5. HitsArePast'
    BY <1>1, <1>3 DEF MatchingInv, OrderInv, HitsArePast
  <1>6. PendingInOrder'
    <2> SUFFICES ASSUME NEW k \in DOMAIN pending', NEW l \in DOMAIN pending', k < l
                 PROVE  Before(pending'[k], pending'[l])
      BY DEF PendingInOrder
    <2>1. k \in Int /\ l \in Int
      BY <1>2
    <2>2. k + 1 < l + 1
      BY <2>1
    <2>3. QED
      BY <1>3, <2>2 DEF MatchingInv, OrderInv, PendingInOrder
  <1>7. AllAccountedFor'
    <2>1. /\ Cardinality(Matched) \in Nat /\ Len(pending) \in Nat
          /\ offTarget \in Nat /\ outOfWindow \in Nat
      BY <1>2, MatchedIsFinite DEF MatchingInv, OrderInv, SimTypeOK
    <2>2. QED
      BY <1>1, <1>3, <2>1 DEF MatchingInv, OrderInv, AllAccountedFor
  <1>8. QED
    BY <1>4, <1>5, <1>6, <1>7 DEF OrderInv

\* A hit joins the earlier ones at their end: its object is the first that is
\* not behind, its press the first that is left.
LEMMA HitKeepsOrder ==
  ASSUME MatchingInv, pending # <<>>, pending' = Tail(pending),
         NEW i \in DOMAIN objects, i >= cursor, Hit(i), UNCHANGED <<objects, presses>>
  PROVE  OrderInv'
  <1>1. /\ pending \in Seq(Event) /\ cursor \in Int /\ DOMAIN objects \subseteq Int
        /\ heads \in [DOMAIN objects -> Event \union {None}]
    BY BeatmapsAreSequences DEF MatchingInv, OrderInv, SimTypeOK
  <1>2. /\ Head(pending) = pending[1] /\ 1 \in DOMAIN pending
        /\ Len(pending') = Len(pending) - 1
        /\ \A k \in DOMAIN pending' :
             k + 1 \in DOMAIN pending /\ 1 < k + 1 /\ pending'[k] = pending[k + 1]
    BY <1>1, PressesLeft
  <1>3. pending[1] # None
    <2>1. pending[1] \in Event
      BY <1>1, <1>2
    <2>2. QED
      BY <2>1, NoneAssumption DEF Event, EventsUpTo
  <1>4. i \notin Matched /\ \A j \in Matched : j < i
    BY <1>1 DEF MatchingInv, OrderInv, HitsAreBehind, Matched
  <1>5. /\ Matched' = Matched \union {i}
        /\ heads'[i] = pending[1]
        /\ \A j \in Matched : heads'[j] = heads[j]
        /\ cursor' = i + 1 /\ offTarget' = offTarget /\ outOfWindow' = outOfWindow
    BY <1>1, <1>2, <1>3, <1>4 DEF Hit, Matched
  <1>6. HitsAreBehind'
    BY <1>1, <1>4, <1>5 DEF HitsAreBehind, Matched
  <1>7. HitsAreInOrder'
    <2> SUFFICES ASSUME NEW j \in Matched', NEW k \in Matched', j < k
                 PROVE  Before(heads'[j], heads'[k])
      BY DEF HitsAreInOrder
    <2>1. j \in Int /\ k \in Int
      BY <1>1, <1>5 DEF Matched
    <2>2. j \in Matched
      BY <1>1, <1>4, <1>5, <2>1
    <2>3. CASE k = i
      BY <1>2, <1>5, <2>2, <2>3 DEF MatchingInv, OrderInv, HitsArePast
    <2>4. CASE k \in Matched
      BY <1>5, <2>2, <2>4 DEF MatchingInv, OrderInv, HitsAreInOrder
    <2>5. QED
      BY <1>5, <2>3, <2>4
  <1>8. HitsArePast'
    <2> SUFFICES ASSUME NEW j \in Matched', NEW k \in DOMAIN pending'
                 PROVE  Before(heads'[j], pending'[k])
      BY DEF HitsArePast
    <2>1. CASE j = i
      BY <1>2, <1>5, <2>1 DEF MatchingInv, OrderInv, PendingInOrder
    <2>2. CASE j \in Matched
      BY <1>2, <1>5, <2>2 DEF MatchingInv, OrderInv, HitsArePast
    <2>3. QED
      BY <1>5, <2>1, <2>2
  <1>9. PendingInOrder'
    <2> SUFFICES ASSUME NEW k \in DOMAIN pending', NEW l \in DOMAIN pending', k < l
                 PROVE  Before(pending'[k], pending'[l])
      BY DEF PendingInOrder
    <2>1. k \in Int /\ l \in Int
      BY <1>1
    <2>2. k + 1 < l + 1
      BY <2>1
    <2>3. QED
      BY <1>2, <2>2 DEF MatchingInv, OrderInv, PendingInOrder
  <1>10. AllAccountedFor'
    <2>1. Cardinality(Matched') = Cardinality(Matched) + 1
      BY <1>4, <1>5, MatchedIsFinite, FS_AddElement DEF MatchingInv, OrderInv
    <2>2. /\ Cardinality(Matched) \in Nat /\ Len(pending) \in Nat
          /\ offTarget \in Nat /\ outOfWindow \in Nat
      BY <1>1, MatchedIsFinite DEF MatchingInv, OrderInv, SimTypeOK
    <2>3. QED
      BY <1>2, <1>5, <2>1, <2>2 DEF MatchingInv, OrderInv, AllAccountedFor
  <1>11. QED
    BY <1>6, <1>7, <1>8, <1>9, <1>10 DEF OrderInv

LEMMA StepKeepsOrder ==
  ASSUME MatchingInv, SimNext
  PROVE  OrderInv'
  <1>1. /\ offTarget \in Nat /\ outOfWindow \in Nat /\ cursor \in Int
        /\ DOMAIN objects \subseteq Int
    BY BeatmapsAreSequences DEF MatchingInv, OrderInv, SimTypeOK
  <1>2. ASSUME NEW step \in Steps, NEW keys \in KeyStates, NEW x \in Cursors,
               Read([time |-> clock + step, keys |-> keys, x |-> x])
        PROVE  OrderInv'
    <2>1. [time |-> clock + step, keys |-> keys, x |-> x] \in Frame
      BY NumbersAssumption DEF MatchingInv, OrderInv, SimTypeOK, Frame
    <2>2. QED
      BY <1>2, <2>1, ReadKeepsOrder
  <1>3. ASSUME NEW i \in DOMAIN objects, Expire(i)
        PROVE  OrderInv'
    <2>1. /\ i >= cursor /\ cursor' = i + 1
          /\ UNCHANGED <<objects, heads, pending, presses, offTarget, outOfWindow>>
      BY <1>3 DEF Expire, IsNext
    <2>2. Matched' = Matched
      BY <2>1 DEF Matched
    <2>3. HitsAreBehind'
      BY <1>1, <2>1, <2>2 DEF MatchingInv, OrderInv, HitsAreBehind, Matched
    <2>4. QED
      BY <2>1, <2>2, <2>3
         DEF MatchingInv, OrderInv, HitsAreInOrder, HitsArePast, PendingInOrder, AllAccountedFor
  <1>4. ASSUME NEW i \in DOMAIN objects, Match(i)
        PROVE  OrderInv'
    <2>1. /\ pending # <<>> /\ pending' = Tail(pending) /\ i >= cursor
          /\ UNCHANGED <<objects, presses>>
      BY <1>4 DEF Match, IsNext
    <2>2. CASE OutOfWindow
      BY <1>1, <2>1, <2>2, MissKeepsOrder DEF OutOfWindow
    <2>3. CASE OffTarget(i)
      BY <1>1, <2>1, <2>3, MissKeepsOrder DEF OffTarget
    <2>4. CASE Hit(i)
      BY <2>1, <2>4, HitKeepsOrder
    <2>5. QED
      BY <1>4, <2>2, <2>3, <2>4 DEF Match
  <1>5. CASE NothingLeft
    BY <1>1, <1>5, MissKeepsOrder DEF NothingLeft, OutOfWindow
  <1>6. QED
    BY <1>2, <1>3, <1>4, <1>5 DEF SimNext

LEMMA InitialMatching == SimInit => MatchingInv
  <1> SUFFICES ASSUME SimInit PROVE MatchingInv
    OBVIOUS
  <1>1. Matched = {}
    BY DEF SimInit, Matched
  <1>2. Cardinality(Matched) = 0
    BY <1>1, FS_EmptySet
  <1>3. SimTypeOK
    BY InitialSimTypes
  <1>4. QED
    BY <1>1, <1>2, <1>3
       DEF SimInit, MatchingInv, OrderInv, HitsAreBehind, HitsAreInOrder, HitsArePast,
           PendingInOrder, AllAccountedFor

LEMMA MatchingIsKept == SimSpec => []MatchingInv
  <1>1. SimTypeOK /\ OrderInv /\ [SimNext]_simVars => OrderInv'
    <2>1. ASSUME SimTypeOK, OrderInv, SimNext PROVE OrderInv'
      BY <2>1, StepKeepsOrder DEF MatchingInv, OrderInv
    <2>2. ASSUME OrderInv, UNCHANGED simVars PROVE OrderInv'
      BY <2>2 DEF simVars, OrderInv, Matched, HitsAreBehind, HitsAreInOrder, HitsArePast,
                  PendingInOrder, AllAccountedFor
    <2>3. QED
      BY <2>1, <2>2
  <1>2. SimInit => OrderInv
    BY InitialMatching DEF MatchingInv
  <1>3. SimTypeOK /\ OrderInv => MatchingInv
    BY DEF MatchingInv
  <1>4. QED
    BY <1>1, <1>2, <1>3, SimTypeCorrect, PTL DEF SimSpec

\* Whatever the recording, hits pair presses and objects in the order of both,
\* no object is hit twice, and every press is accounted for.
THEOREM MatchingIsOrdered == SimSpec => []MatchingKeepsOrder
  <1>1. MatchingInv => MatchingKeepsOrder
    BY DEF MatchingInv, OrderInv, HitsAreInOrder, AllAccountedFor, MatchingKeepsOrder, Matched
  <1>2. QED
    BY <1>1, MatchingIsKept, PTL

-----------------------------------------------------------------------------
\* Notelock.

\* The induction principle of the naturals, in the form the provers can use:
\* a set of them has a least one.
LEMMA LeastNatural ==
  ASSUME NEW T \in SUBSET Nat, T # {}
  PROVE  \E m \in T : \A n \in T : m <= n
  <1>1. IsWellFoundedOn(OpToRel(<, Nat), Nat)
    BY NatLessThanWellFounded
  <1>2. PICK m \in T : \A n \in T : ~(<<n, m>> \in OpToRel(<, Nat))
    BY <1>1, WFMin
  <1>3. \A n \in T : ~(n < m)
    BY <1>2 DEF OpToRel
  <1>4. QED
    BY <1>3

\* The presses that are matched, and the one that is being matched.
Done == Presses \ Range(pending)
Now == IF pending = <<>> THEN {} ELSE {Head(pending)}

PendingArePresses == Range(pending) \subseteq Presses
DoneArePast == \A d \in Done, p \in Range(pending) : Before(d, p)
HeadsAreDone == \A i \in Matched : heads[i] \in Done

\* What the matcher passed is out of play for good ...
PassedAreBehind ==
  \A i \in DOMAIN objects : i < cursor =>
    \/ objects[i].kind = "spinner"
    \/ i \in Matched
    \/ \E m \in Done \union Now : Expired(m, objects[i])

\* ... and what it has not passed was in reach of every press so far, although
\* the times of the presses may step back.
LeftAreInReach ==
  \A i \in DOMAIN objects, m \in Done :
    i >= cursor /\ objects[i].kind # "spinner" => ~Expired(m, objects[i])

DoneWentRight == \A d \in Done, i \in DOMAIN objects : GoesToTheEarliest(d, i)

NotelockInv ==
  /\ MatchingInv
  /\ PendingArePresses /\ DoneArePast /\ HeadsAreDone
  /\ PassedAreBehind /\ LeftAreInReach /\ DoneWentRight

LEMMA BeforeIsStrict ==
  ASSUME NEW d \in Event, NEW e \in Event, Before(d, e)
  PROVE  d # e /\ ~Before(e, d)
  BY DEF Before, Event, EventsUpTo

LEMMA PressesAreTyped ==
  ASSUME SimTypeOK
  PROVE  /\ Presses \subseteq Event
         /\ None \notin Presses
         /\ \A m \in Presses : m.time \in Int /\ m.frame \in 1..Len(frames)
  <1>1. Presses \subseteq Event
    BY DEF SimTypeOK, Presses, Range
  <1>2. QED
    BY <1>1, NoneAssumption DEF Event, EventsUpTo, Events

LEMMA ObjectsAreTyped ==
  ASSUME SimTypeOK
  PROVE  /\ Len(objects) \in Nat /\ DOMAIN objects = 1..Len(objects)
         /\ \A i \in DOMAIN objects : objects[i].time \in Int
         /\ \A i, j \in DOMAIN objects : i < j => objects[i].time <= objects[j].time
  <1>1. objects \in Seq(Objects) /\ Len(objects) \in Nat /\ DOMAIN objects = 1..Len(objects)
    BY BeatmapsAreSequences DEF SimTypeOK
  <1>2. \A i, j \in DOMAIN objects : i < j => objects[i].time <= objects[j].time
    BY BeatmapsAssumption DEF SimTypeOK
  <1>3. \A i \in DOMAIN objects : objects[i] \in Objects
    BY <1>1
  <1>4. QED
    BY <1>1, <1>2, <1>3 DEF Objects

\* The press that is being matched: all before it are done, the rest after it.
LEMMA ThePressInHand ==
  ASSUME NotelockInv, pending # <<>>, NEW e, e = Head(pending)
  PROVE  /\ e \in Presses /\ e \notin Done /\ Now = {e}
         /\ Presses \ Range(Tail(pending)) = Done \union {e}
         /\ Range(Tail(pending)) \subseteq Range(pending)
         /\ \A d \in Done : Before(d, e)
         /\ \A p \in Range(Tail(pending)) : Before(e, p)
         /\ \A m \in Presses : m = e \/ Before(m, e) <=> m \in Done \union {e}
  <1>1. pending \in Seq(Event) /\ Presses \subseteq Event
    BY PressesAreTyped DEF NotelockInv, MatchingInv, SimTypeOK
  <1>2. /\ e = pending[1] /\ 1 \in DOMAIN pending
        /\ Len(Tail(pending)) = Len(pending) - 1
        /\ \A k \in DOMAIN Tail(pending) :
             k + 1 \in DOMAIN pending /\ 1 < k + 1 /\ Tail(pending)[k] = pending[k + 1]
    BY <1>1, PressesLeft
  <1>3. e \in Range(pending)
    BY <1>2 DEF Range
  <1>4. e \in Presses /\ e \notin Done /\ Now = {e}
    BY <1>3 DEF NotelockInv, PendingArePresses, Done, Now
  <1>5. \A p \in Range(Tail(pending)) : p \in Range(pending) /\ Before(e, p)
    BY <1>2 DEF Range, NotelockInv, MatchingInv, OrderInv, PendingInOrder
  <1>6. ASSUME NEW p \in Range(pending), p # e PROVE p \in Range(Tail(pending))
    <2>1. PICK k \in DOMAIN pending : p = pending[k]
      BY DEF Range
    <2>2. k # 1
      BY <1>2, <1>6, <2>1
    <2>3. /\ k \in 1..Len(pending) /\ DOMAIN Tail(pending) = 1..(Len(pending) - 1)
          /\ Len(pending) \in Nat
      BY <1>1, <1>2
    <2>4. k - 1 \in DOMAIN Tail(pending) /\ (k - 1) + 1 = k
      BY <2>2, <2>3
    <2>5. Tail(pending)[k - 1] = p
      BY <1>2, <2>1, <2>4
    <2>6. QED
      BY <2>4, <2>5 DEF Range
  <1>7. e \notin Range(Tail(pending))
    BY <1>1, <1>4, <1>5, BeforeIsStrict
  <1>8. Presses \ Range(Tail(pending)) = Done \union {e}
    BY <1>4, <1>5, <1>6, <1>7 DEF Done
  <1>9. \A d \in Done : Before(d, e)
    BY <1>3 DEF NotelockInv, DoneArePast
  <1>10. ASSUME NEW m \in Presses, Before(m, e) PROVE m \in Done
    <2>1. m \notin Range(Tail(pending))
      BY <1>1, <1>4, <1>5, <1>10, BeforeIsStrict
    <2>2. m # e
      BY <1>1, <1>4, <1>10, BeforeIsStrict
    <2>3. QED
      BY <1>8, <2>1, <2>2
  <1>11. QED
    BY <1>4, <1>5, <1>8, <1>9, <1>10

\* A press went right as long as no press is added before it, and what earlier
\* presses hit and what it hit itself stays.
LEMMA RightAsBefore ==
  ASSUME SimTypeOK, NEW d, NEW i \in DOMAIN objects, objects' = objects,
         \A m : m \in Presses' /\ (m = d \/ Before(m, d)) <=> m \in Presses /\ (m = d \/ Before(m, d)),
         \A m \in Presses, j \in DOMAIN objects : Before(m, d) => (heads'[j] = m <=> heads[j] = m),
         heads'[i] = d <=> heads[i] = d,
         frames'[d.frame] = frames[d.frame],
         GoesToTheEarliest(d, i)
  PROVE  GoesToTheEarliest(d, i)'
  <1>0. i \in 1..Len(objects) /\ 1..(i - 1) \subseteq DOMAIN objects
    BY ObjectsAreTyped
  <1>1. ASSUME NEW j \in DOMAIN objects PROVE Behind(d, j)' <=> Behind(d, j)
    BY DEF Behind
  <1>2. OnTarget(d, objects[i])' <=> OnTarget(d, objects[i])
    BY DEF OnTarget
  <1>3. QED
    BY <1>0, <1>1, <1>2 DEF GoesToTheEarliest

\* The object the matcher tests a press against, and does not expire, is the
\* first one that is not behind that press.
LEMMA TheFirstOpenObject ==
  ASSUME NotelockInv, pending # <<>>, NEW e, e = Head(pending),
         NEW i \in DOMAIN objects, IsNext(i), ~Expired(e, objects[i])
  PROVE  /\ ~Behind(e, i)
         /\ \A j \in 1..(i - 1) : Behind(e, j)
         /\ \A j \in DOMAIN objects : j >= cursor /\ objects[j].kind # "spinner" =>
              ~Expired(e, objects[j])
  <1>0. SimTypeOK /\ Window50 \in Nat /\ cursor \in Nat
    BY BeatmapsAreSequences, NumbersAssumption DEF NotelockInv, MatchingInv, SimTypeOK
  <1>1. /\ e \in Presses /\ e \notin Done /\ Now = {e}
        /\ \A m \in Presses : m = e \/ Before(m, e) <=> m \in Done \union {e}
        /\ \A d \in Done : Before(d, e)
    BY ThePressInHand
  <1>2. /\ i >= cursor /\ objects[i].kind # "spinner"
        /\ \A j \in cursor..(i - 1) : objects[j].kind = "spinner"
    BY DEF IsNext
  <1>3. \A m \in Presses, j \in DOMAIN objects :
          Expired(m, objects[j]) <=> m.time >= objects[j].time + Window50
    BY <1>0, PressesAreTyped, ObjectsAreTyped DEF Expired, Error
  <1>4. i \notin Matched
    BY <1>0, <1>2, ObjectsAreTyped DEF NotelockInv, MatchingInv, OrderInv, HitsAreBehind
  <1>5. ~Behind(e, i)
    <2>1. \A m \in Presses : m = e \/ Before(m, e) => ~Expired(m, objects[i])
      BY <1>1, <1>2 DEF NotelockInv, LeftAreInReach
    <2>2. \A m \in Presses : heads[i] # m
      BY <1>0, <1>4, PressesAreTyped DEF Matched
    <2>3. QED
      BY <1>2, <1>3, <2>1, <2>2 DEF Behind
  <1>6. ASSUME NEW j \in 1..(i - 1) PROVE Behind(e, j)
    <2>1. j \in DOMAIN objects
      BY <1>0, ObjectsAreTyped
    <2>2. CASE j >= cursor
      <3>1. j \in cursor..(i - 1)
        BY <1>0, <2>2, ObjectsAreTyped
      <3>2. QED
        BY <1>2, <3>1 DEF Behind
    <2>3. CASE j < cursor
      <3>1. CASE objects[j].kind = "spinner"
        BY <3>1 DEF Behind
      <3>2. CASE j \in Matched
        BY <1>1, <3>2 DEF Behind, NotelockInv, HeadsAreDone, Done
      <3>3. ASSUME NEW m \in Done \union Now, Expired(m, objects[j]) PROVE Behind(e, j)
        <4>1. m \in Presses /\ (m = e \/ Before(m, e))
          BY <1>1, <3>3 DEF Done
        <4>2. QED
          BY <1>3, <2>1, <3>3, <4>1 DEF Behind
      <3>4. QED
        BY <2>1, <2>3, <3>1, <3>2, <3>3 DEF NotelockInv, PassedAreBehind
    <2>4. QED
      BY <1>0, <2>1, <2>2, <2>3, ObjectsAreTyped
  <1>7. ASSUME NEW j \in DOMAIN objects, j >= cursor, objects[j].kind # "spinner"
        PROVE  ~Expired(e, objects[j])
    <2>1. j >= i
      BY <1>0, <1>2, <1>7, ObjectsAreTyped
    <2>2. objects[i].time <= objects[j].time
      BY <1>0, <2>1, ObjectsAreTyped
    <2>3. objects[i].time \in Int /\ objects[j].time \in Int /\ e.time \in Int
      BY <1>0, <1>1, PressesAreTyped, ObjectsAreTyped
    <2>4. QED
      BY <1>0, <2>2, <2>3 DEF Expired, Error
  <1>8. QED
    BY <1>5, <1>6, <1>7

\* When the matcher finds no object, everything is behind the press.
LEMMA NothingIsOpen ==
  ASSUME NotelockInv, pending # <<>>, NEW e, e = Head(pending),
         \A i \in DOMAIN objects : ~IsNext(i)
  PROVE  /\ \A j \in DOMAIN objects : Behind(e, j)
         /\ \A j \in DOMAIN objects : j >= cursor => objects[j].kind = "spinner"
  <1>0. SimTypeOK /\ Window50 \in Nat /\ cursor \in Nat
    BY BeatmapsAreSequences, NumbersAssumption DEF NotelockInv, MatchingInv, SimTypeOK
  <1> DEFINE Open == {j \in DOMAIN objects : j >= cursor /\ objects[j].kind # "spinner"}
  <1>1. Open = {}
    <2> SUFFICES ASSUME Open # {} PROVE FALSE
      OBVIOUS
    <2>1. Open \in SUBSET Nat
      BY <1>0, ObjectsAreTyped
    <2> HIDE DEF Open
    <2>2. PICK i \in Open : \A j \in Open : i <= j
      BY <2>1, LeastNatural
    <2>3. i \in DOMAIN objects /\ i >= cursor /\ objects[i].kind # "spinner" /\ i \in Nat
      BY <2>1, <2>2 DEF Open
    <2>4. ASSUME NEW j \in cursor..(i - 1) PROVE objects[j].kind = "spinner"
      <3>1. j \in DOMAIN objects /\ j >= cursor /\ ~(i <= j)
        <4>1. i \in 1..Len(objects) /\ Len(objects) \in Nat /\ cursor >= 1
          BY <1>0, <2>3, ObjectsAreTyped DEF SimTypeOK
        <4>2. j \in 1..Len(objects) /\ j >= cursor /\ ~(i <= j)
          BY <1>0, <4>1
        <4>3. QED
          BY <1>0, <4>2, ObjectsAreTyped
      <3>2. QED
        BY <2>2, <3>1 DEF Open
    <2>5. QED
      BY <2>3, <2>4 DEF IsNext
  <1>2. /\ e \in Presses /\ Now = {e}
        /\ \A m \in Presses : m = e \/ Before(m, e) <=> m \in Done \union {e}
        /\ \A d \in Done : Before(d, e)
    BY ThePressInHand
  <1>3. ASSUME NEW j \in DOMAIN objects PROVE Behind(e, j)
    <2>1. CASE objects[j].kind = "spinner"
      BY <2>1 DEF Behind
    <2>2. CASE j \in Matched
      BY <1>2, <2>2 DEF Behind, NotelockInv, HeadsAreDone, Done
    <2>3. ASSUME NEW m \in Done \union Now, Expired(m, objects[j]) PROVE Behind(e, j)
      <3>1. m \in Presses /\ (m = e \/ Before(m, e))
        BY <1>2, <2>3 DEF Done
      <3>2. m.time >= objects[j].time + Window50
        BY <1>0, <2>3, <3>1, PressesAreTyped, ObjectsAreTyped DEF Expired, Error
      <3>3. QED
        BY <3>1, <3>2 DEF Behind
    <2>4. j < cursor \/ objects[j].kind = "spinner"
      BY <1>0, <1>1, ObjectsAreTyped
    <2>5. QED
      BY <2>1, <2>2, <2>3, <2>4 DEF NotelockInv, PassedAreBehind
  <1>4. QED
    BY <1>1, <1>3

\* A press leaves the queue: what is asked of the earlier ones still holds.
LEMMA ThePressIsDone ==
  ASSUME NotelockInv, pending # <<>>, NEW e, e = Head(pending), pending' = Tail(pending),
         UNCHANGED <<objects, frames, events>>,
         \A j \in DOMAIN objects : heads'[j] = heads[j] \/ (heads[j] = None /\ heads'[j] = e)
  PROVE  /\ Presses' = Presses /\ Done' = Done \union {e}
         /\ PendingArePresses' /\ DoneArePast' /\ HeadsAreDone'
         /\ \A d \in Done, i \in DOMAIN objects : GoesToTheEarliest(d, i)'
  <1>0. SimTypeOK /\ Presses \subseteq Event /\ None \notin Presses
    BY PressesAreTyped DEF NotelockInv, MatchingInv
  <1>1. /\ e \in Presses /\ e \notin Done
        /\ Presses \ Range(Tail(pending)) = Done \union {e}
        /\ Range(Tail(pending)) \subseteq Range(pending)
        /\ \A d \in Done : Before(d, e)
        /\ \A p \in Range(Tail(pending)) : Before(e, p)
    BY ThePressInHand
  <1>2. Presses' = Presses
    BY DEF Presses
  <1>3. Done' = Done \union {e}
    BY <1>1, <1>2 DEF Done
  <1>4. PendingArePresses' /\ DoneArePast'
    BY <1>1, <1>2, <1>3 DEF NotelockInv, PendingArePresses, DoneArePast
  <1>5. HeadsAreDone'
    BY <1>3 DEF NotelockInv, HeadsAreDone, Matched
  <1>6. ASSUME NEW d \in Done, NEW i \in DOMAIN objects PROVE GoesToTheEarliest(d, i)'
    <2>1. d \in Presses /\ d # e /\ d # None
      BY <1>0, <1>1 DEF Done
    <2>2. ~Before(e, d)
      BY <1>0, <1>1, <2>1, BeforeIsStrict
    <2>3. heads'[i] = d <=> heads[i] = d
      BY <2>1
    <2>4. \A m \in Presses, j \in DOMAIN objects : Before(m, d) => (heads'[j] = m <=> heads[j] = m)
      BY <1>0, <2>2
    <2>5. GoesToTheEarliest(d, i)
      BY DEF NotelockInv, DoneWentRight
    <2>6. QED
      BY <1>0, <1>2, <2>3, <2>4, <2>5, RightAsBefore
  <1>7. QED
    BY <1>2, <1>3, <1>4, <1>5, <1>6

\* It hits nothing ...
LEMMA MissKeepsNotelock ==
  ASSUME NotelockInv, MatchingInv', pending # <<>>, NEW e, e = Head(pending),
         pending' = Tail(pending), UNCHANGED <<objects, frames, events, heads, cursor>>,
         \A j \in DOMAIN objects : j >= cursor /\ objects[j].kind # "spinner" =>
           ~Expired(e, objects[j]),
         \A i \in DOMAIN objects :
           \/ Behind(e, i) \/ TooEarly(e, objects[i]) \/ ~OnTarget(e, objects[i])
           \/ \E j \in 1..(i - 1) : ~Behind(e, j)
  PROVE  NotelockInv'
  <1>0. SimTypeOK /\ Window50 \in Nat
    BY NumbersAssumption DEF NotelockInv, MatchingInv
  <1>1. /\ Presses' = Presses /\ Done' = Done \union {e}
        /\ PendingArePresses' /\ DoneArePast' /\ HeadsAreDone'
        /\ \A d \in Done, i \in DOMAIN objects : GoesToTheEarliest(d, i)'
    BY ThePressIsDone
  <1>2. e \in Presses /\ e \notin Done /\ Now = {e}
    BY ThePressInHand
  <1>3. Matched' = Matched
    BY DEF Matched
  <1>4. PassedAreBehind' /\ LeftAreInReach'
    BY <1>1, <1>2, <1>3 DEF NotelockInv, PassedAreBehind, LeftAreInReach, Expired, Error
  <1>5. ASSUME NEW i \in DOMAIN objects PROVE GoesToTheEarliest(e, i)'
    <2>1. heads[i] # e
      BY <1>0, <1>2, PressesAreTyped DEF NotelockInv, HeadsAreDone, Matched
    <2>2. \A j : Behind(e, j)' <=> Behind(e, j)
      BY <1>1 DEF Behind
    <2>3. OnTarget(e, objects[i])' <=> OnTarget(e, objects[i])
      BY DEF OnTarget
    <2>4. TooEarly(e, objects[i]) => ~(e.time > objects[i].time - Window50)
      BY <1>0, <1>2, PressesAreTyped, ObjectsAreTyped DEF TooEarly, Error
    <2>5. QED
      BY <2>1, <2>2, <2>3, <2>4 DEF GoesToTheEarliest
  <1>6. DoneWentRight'
    BY <1>1, <1>5 DEF DoneWentRight
  <1>7. QED
    BY <1>1, <1>4, <1>6 DEF NotelockInv

\* ... or the first object that is not behind it.
LEMMA HitKeepsNotelock ==
  ASSUME NotelockInv, MatchingInv', pending # <<>>, NEW e, e = Head(pending),
         pending' = Tail(pending), UNCHANGED <<objects, frames, events>>,
         NEW i \in DOMAIN objects, IsNext(i), ~Expired(e, objects[i]), ~TooEarly(e, objects[i]),
         OnTarget(e, objects[i]), Hit(i)
  PROVE  NotelockInv'
  <1>0. /\ SimTypeOK /\ Window50 \in Nat /\ cursor \in Nat
        /\ heads \in [DOMAIN objects -> Event \union {None}]
    <2>1. SimTypeOK
      BY DEF NotelockInv, MatchingInv
    <2>2. objects \in Seq(Objects)
      BY BeatmapsAreSequences, <2>1 DEF SimTypeOK
    <2>3. cursor \in Nat /\ heads \in [DOMAIN objects -> Event \union {None}]
      BY ONLY <2>1, <2>2 DEF SimTypeOK
    <2>4. QED
      BY ONLY <2>1, <2>3, NumbersAssumption
  <1>1. /\ ~Behind(e, i) /\ \A j \in 1..(i - 1) : Behind(e, j)
        /\ \A j \in DOMAIN objects : j >= cursor /\ objects[j].kind # "spinner" =>
             ~Expired(e, objects[j])
    BY TheFirstOpenObject
  <1>2. /\ i >= cursor /\ i \in Nat /\ cursor' = i + 1
        /\ \A j \in cursor..(i - 1) : objects[j].kind = "spinner"
    BY <1>0, ObjectsAreTyped DEF IsNext, Hit
  <1>3. i \notin Matched /\ heads[i] = None
    BY <1>0, <1>2, ObjectsAreTyped DEF NotelockInv, MatchingInv, OrderInv, HitsAreBehind, Matched
  <1>4. /\ heads'[i] = e
        /\ \A j \in DOMAIN objects : j # i => heads'[j] = heads[j]
    BY <1>0 DEF Hit
  <1>5. /\ Presses' = Presses /\ Done' = Done \union {e}
        /\ PendingArePresses' /\ DoneArePast' /\ HeadsAreDone'
        /\ \A d \in Done, j \in DOMAIN objects : GoesToTheEarliest(d, j)'
    BY <1>3, <1>4, ThePressIsDone
  <1>6. /\ e \in Presses /\ e \notin Done /\ Now = {e} /\ e # None
        /\ \A m \in Presses : m = e \/ Before(m, e) <=> m \in Done \union {e}
    BY <1>0, ThePressInHand, PressesAreTyped
  <1>7. Matched' = Matched \union {i}
    BY <1>3, <1>4, <1>6 DEF Matched
  <1>8. PassedAreBehind'
    <2> SUFFICES ASSUME NEW j \in DOMAIN objects, j < i + 1
                 PROVE  \/ objects[j].kind = "spinner"
                        \/ j \in Matched'
                        \/ \E m \in Done' : Expired(m, objects[j])
      BY <1>2 DEF PassedAreBehind, Expired, Error
    <2>1. CASE j < cursor
      BY <1>5, <1>6, <1>7, <2>1 DEF NotelockInv, PassedAreBehind
    <2>2. CASE j >= cursor /\ j < i
      <3>1. j \in cursor..(i - 1)
        BY <1>0, <1>2, <2>2, ObjectsAreTyped
      <3>2. QED
        BY <1>2, <3>1
    <2>3. CASE j = i
      BY <1>7, <2>3
    <2>4. QED
      BY <1>0, <1>2, <2>1, <2>2, <2>3, ObjectsAreTyped
  <1>9. LeftAreInReach'
    <2> SUFFICES ASSUME NEW j \in DOMAIN objects, NEW m \in Done \union {e}, j >= i + 1,
                        objects[j].kind # "spinner"
                 PROVE  ~Expired(m, objects[j])
      BY <1>2, <1>5 DEF LeftAreInReach, Expired, Error
    <2>1. j >= cursor
      BY <1>0, <1>2, ObjectsAreTyped
    <2>2. QED
      BY <1>1, <2>1 DEF NotelockInv, LeftAreInReach
  <1>10. ASSUME NEW j \in DOMAIN objects PROVE GoesToTheEarliest(e, j)'
    <2>1. \A k \in DOMAIN objects : Behind(e, k)' <=> Behind(e, k)
      <3> SUFFICES ASSUME NEW k \in DOMAIN objects PROVE Behind(e, k)' <=> Behind(e, k)
        OBVIOUS
      <3>1. \A m \in Presses : Before(m, e) => m # e
        BY <1>0, <1>6, PressesAreTyped, BeforeIsStrict
      <3>2. \A m \in Presses : Before(m, e) => (heads'[k] = m <=> heads[k] = m)
        BY <1>0, <1>3, <1>4, <3>1, PressesAreTyped
      <3>3. QED
        BY <1>5, <3>2 DEF Behind
    <2>2. OnTarget(e, objects[j])' <=> OnTarget(e, objects[j])
      BY DEF OnTarget
    <2>3. 1..(j - 1) \subseteq DOMAIN objects /\ j \in Nat
      BY <1>0, ObjectsAreTyped
    <2>4. CASE j = i
      <3>1. e.time > objects[i].time - Window50
        BY <1>0, <1>6, PressesAreTyped, ObjectsAreTyped DEF TooEarly, Error
      <3>2. QED
        BY <1>1, <1>4, <2>1, <2>2, <2>3, <2>4, <3>1 DEF GoesToTheEarliest
    <2>5. CASE j # i
      <3>1. heads'[j] # e
        BY <1>4, <1>6, <2>5 DEF NotelockInv, HeadsAreDone, Matched
      <3>2. Behind(e, j) \/ i \in 1..(j - 1)
        <4>1. CASE j < i
          <5>1. j \in 1..(i - 1)
            BY <1>0, <1>2, <2>3, <4>1, ObjectsAreTyped
          <5>2. QED
            BY <1>1, <5>1
        <4>2. CASE i < j
          BY <1>0, <1>2, <2>3, <4>2, ObjectsAreTyped
        <4>3. QED
          BY <1>2, <2>3, <2>5, <4>1, <4>2
      <3>3. QED
        BY <1>1, <2>1, <2>3, <3>1, <3>2 DEF GoesToTheEarliest
    <2>6. QED
      BY <2>4, <2>5
  <1>11. DoneWentRight'
    BY <1>5, <1>10 DEF DoneWentRight
  <1>12. QED
    BY <1>5, <1>8, <1>9, <1>11 DEF NotelockInv

LEMMA ExpireKeepsNotelock ==
  ASSUME NotelockInv, MatchingInv', NEW i \in DOMAIN objects, Expire(i)
  PROVE  NotelockInv'
  <1>0. SimTypeOK /\ cursor \in Nat
    BY BeatmapsAreSequences DEF NotelockInv, MatchingInv, SimTypeOK
  <1>1. /\ pending # <<>> /\ cursor' = i + 1
        /\ i >= cursor /\ \A j \in cursor..(i - 1) : objects[j].kind = "spinner"
        /\ Expired(Head(pending), objects[i])
        /\ UNCHANGED <<objects, frames, events, heads, pending>>
    BY DEF Expire, IsNext
  <1>2. /\ Presses' = Presses /\ Done' = Done /\ Now' = Now /\ Matched' = Matched
        /\ Now = {Head(pending)} /\ i \in Nat
    BY <1>0, <1>1, ObjectsAreTyped DEF Presses, Done, Now, Matched
  <1>3. PendingArePresses' /\ DoneArePast' /\ HeadsAreDone'
    BY <1>1, <1>2 DEF NotelockInv, PendingArePresses, DoneArePast, HeadsAreDone
  <1>4. PassedAreBehind'
    <2> SUFFICES ASSUME NEW j \in DOMAIN objects, j < i + 1
                 PROVE  \/ objects[j].kind = "spinner"
                        \/ j \in Matched
                        \/ \E m \in Done \union Now : Expired(m, objects[j])
      BY <1>1, <1>2 DEF PassedAreBehind, Expired, Error
    <2>1. CASE j < cursor
      BY <2>1 DEF NotelockInv, PassedAreBehind
    <2>2. CASE j >= cursor /\ j < i
      <3>1. j \in cursor..(i - 1)
        BY <1>0, <1>2, <2>2, ObjectsAreTyped
      <3>2. QED
        BY <1>1, <3>1
    <2>3. CASE j = i
      BY <1>1, <1>2, <2>3
    <2>4. QED
      BY <1>0, <1>2, <2>1, <2>2, <2>3, ObjectsAreTyped
  <1>5. LeftAreInReach'
    <2> SUFFICES ASSUME NEW j \in DOMAIN objects, NEW m \in Done, j >= i + 1,
                        objects[j].kind # "spinner"
                 PROVE  ~Expired(m, objects[j])
      BY <1>1, <1>2 DEF LeftAreInReach, Expired, Error
    <2>1. j >= cursor
      BY <1>0, <1>1, <1>2, ObjectsAreTyped
    <2>2. QED
      BY <2>1 DEF NotelockInv, LeftAreInReach
  <1>6. DoneWentRight'
    BY <1>1, <1>2 DEF NotelockInv, DoneWentRight, GoesToTheEarliest, Behind, OnTarget
  <1>7. QED
    BY <1>3, <1>4, <1>5, <1>6 DEF NotelockInv

LEMMA WhatIsInBoth ==
  ASSUME NEW S, NEW s \in Seq(S), NEW t \in Seq(S)
  PROVE  s \o t \in Seq(S) /\ Range(s \o t) = Range(s) \union Range(t)
  <1> DEFINE st == s \o t
  <1>1. /\ st \in Seq(S) /\ DOMAIN s = 1..Len(s) /\ DOMAIN t = 1..Len(t)
        /\ DOMAIN st = 1..(Len(s) + Len(t)) /\ Len(s) \in Nat /\ Len(t) \in Nat
        /\ \A k \in 1..Len(s) : st[k] = s[k]
        /\ \A k \in 1..Len(t) : st[Len(s) + k] = t[k]
    OBVIOUS
  <1> HIDE DEF st
  <1>2. ASSUME NEW k \in DOMAIN st PROVE st[k] \in Range(s) \union Range(t)
    <2>1. CASE k <= Len(s)
      BY <1>1, <2>1 DEF Range
    <2>2. CASE k > Len(s)
      <3>1. k - Len(s) \in 1..Len(t) /\ Len(s) + (k - Len(s)) = k
        BY <1>1, <2>2
      <3>2. QED
        BY <1>1, <3>1 DEF Range
    <2>3. QED
      BY <1>1, <2>1, <2>2
  <1>3. Range(s) \subseteq Range(st)
    BY <1>1 DEF Range
  <1>4. ASSUME NEW k \in DOMAIN t PROVE t[k] \in Range(st)
    <2>1. Len(s) + k \in DOMAIN st
      BY <1>1
    <2>2. QED
      BY <1>1, <2>1 DEF Range
  <1>5. Range(st) = Range(s) \union Range(t)
    BY <1>2, <1>3, <1>4 DEF Range
  <1>6. QED
    BY <1>1, <1>5 DEF st

\* A frame adds the presses that it queues, all of them its own.
LEMMA WhatAFrameAdds ==
  ASSUME SimTypeOK, NEW frame \in Frame, Read(frame)
  PROVE  /\ Presses' = Presses \union Range(pending')
         /\ \A p \in Range(pending') : p.frame = Len(frames) + 1
         /\ frames' = frames \/ frames' = Append(frames, frame)
  <1>0. frames \in Seq(Frame) /\ Len(frames) \in Nat
    BY DEF SimTypeOK, Frame
  <1> DEFINE E == EventsUpTo(Len(frames) + 1)
             d1 == Downs(frames, frame, "M1")
             d2 == Downs(frames, frame, "M2")
             u1 == Ups(frames, frame, "M1")
             u2 == Ups(frames, frame, "M2")
  <1>1. CASE frames' = frames /\ events' = events /\ pending' = pending
    <2>1. Range(pending') = {} /\ Presses' = Presses
      BY <1>1 DEF Read, Range, Presses
    <2>2. QED
      BY <1>1, <2>1
  <1>2. CASE /\ frames' = Append(frames, frame)
             /\ events' = events \o d1 \o u1 \o d2 \o u2
             /\ pending' = d1 \o d2
    <2>1. /\ events \in Seq(E)
          /\ d1 \in Seq(E) /\ d2 \in Seq(E) /\ u1 \in Seq(E) /\ u2 \in Seq(E)
      <3>1. events \in Seq(E)
        BY <1>0, LaterEvents DEF SimTypeOK, Event
      <3>2. QED
        BY <1>0, <3>1, EdgesAreTyped DEF Bits
    <2>2. /\ \A e \in Range(d1) \union Range(d2) : e.edge = "down"
          /\ \A e \in Range(u1) \union Range(u2) : e.edge = "up"
      BY DEF Downs, Ups, KeyEvent, Range
    <2>3. \A p \in Range(pending') : p.frame = Len(frames) + 1
      BY <1>0, <1>2, DownsInOrder DEF Range
    <2> HIDE DEF E, d1, d2, u1, u2
    <2>4. /\ Range(events') = Range(events) \union Range(d1) \union Range(u1) \union Range(d2)
                                            \union Range(u2)
          /\ Range(pending') = Range(d1) \union Range(d2)
      <3> DEFINE s1 == events \o d1
                 s2 == s1 \o u1
                 s3 == s2 \o d2
                 s4 == s3 \o u2
      <3>1. events' = s4
        BY <1>2
      <3>2. s1 \in Seq(E) /\ Range(s1) = Range(events) \union Range(d1)
        BY <2>1, WhatIsInBoth
      <3> HIDE DEF s1
      <3>3. s2 \in Seq(E) /\ Range(s2) = Range(s1) \union Range(u1)
        BY <2>1, <3>2, WhatIsInBoth
      <3> HIDE DEF s2
      <3>4. s3 \in Seq(E) /\ Range(s3) = Range(s2) \union Range(d2)
        BY <2>1, <3>3, WhatIsInBoth
      <3> HIDE DEF s3
      <3>5. Range(s4) = Range(s3) \union Range(u2)
        BY <2>1, <3>4, WhatIsInBoth
      <3>6. Range(d1 \o d2) = Range(d1) \union Range(d2)
        BY <2>1, WhatIsInBoth
      <3> HIDE DEF s4
      <3>7. QED
        BY <1>2, <3>1, <3>2, <3>3, <3>4, <3>5, <3>6
    <2>5. Presses' = Presses \union Range(pending')
      BY <2>2, <2>4 DEF Presses
    <2>6. QED
      BY <1>2, <2>3, <2>5
  <1>3. QED
    BY <1>1, <1>2 DEF Read

LEMMA ReadKeepsNotelock ==
  ASSUME NotelockInv, MatchingInv', NEW frame \in Frame, Read(frame)
  PROVE  NotelockInv'
  <1>0. SimTypeOK /\ frames \in Seq(Frame) /\ Len(frames) \in Nat
    <2>1. SimTypeOK
      BY DEF NotelockInv, MatchingInv
    <2>2. frames \in Seq(Frame)
      BY ONLY <2>1 DEF SimTypeOK, Frame
    <2>3. QED
      BY ONLY <2>1, <2>2
  <1>1. /\ Presses' = Presses \union Range(pending')
        /\ \A p \in Range(pending') : p.frame = Len(frames) + 1
        /\ frames' = frames \/ frames' = Append(frames, frame)
    BY <1>0, WhatAFrameAdds
  <1>2. pending = <<>> /\ UNCHANGED <<objects, heads, cursor>>
    BY DEF Read, matchVars
  <1>3. \A m \in Presses : m.frame \in 1..Len(frames) /\ m # None
    BY <1>0, PressesAreTyped
  <1>4. Done = Presses /\ Now = {}
    BY <1>2 DEF Done, Now, Range
  <1>5. Done' = Presses
    <2>1. \A p \in Range(pending') : p \notin Presses
      BY <1>0, <1>1, <1>3
    <2>2. QED
      BY <1>1, <2>1 DEF Done
  <1>6. PendingArePresses'
    BY <1>1 DEF PendingArePresses
  <1>7. DoneArePast'
    BY <1>0, <1>1, <1>3, <1>5 DEF DoneArePast, Before
  <1>8. Matched' = Matched
    BY <1>2 DEF Matched
  <1>9. HeadsAreDone' /\ PassedAreBehind' /\ LeftAreInReach'
    BY <1>2, <1>4, <1>5, <1>8
       DEF NotelockInv, HeadsAreDone, PassedAreBehind, LeftAreInReach, Expired, Error
  <1>10. ASSUME NEW d \in Presses, NEW i \in DOMAIN objects PROVE GoesToTheEarliest(d, i)'
    <2>1. GoesToTheEarliest(d, i)
      BY <1>4 DEF NotelockInv, DoneWentRight
    <2>2. \A m \in Range(pending') : m # d /\ ~Before(m, d)
      BY <1>0, <1>1, <1>3 DEF Before
    <2>3. \A m : m \in Presses' /\ (m = d \/ Before(m, d)) <=> m \in Presses /\ (m = d \/ Before(m, d))
      BY <1>1, <2>2
    <2>4. frames'[d.frame] = frames[d.frame]
      BY <1>0, <1>1, <1>3
    <2>5. \A j \in DOMAIN objects : heads'[j] = heads[j]
      BY <1>2
    <2>6. QED
      BY <1>0, <1>2, <2>1, <2>3, <2>4, <2>5, RightAsBefore
  <1>11. DoneWentRight'
    BY <1>2, <1>5, <1>10 DEF DoneWentRight
  <1>12. QED
    BY <1>6, <1>7, <1>9, <1>11 DEF NotelockInv

LEMMA StepKeepsNotelock ==
  ASSUME NotelockInv, MatchingInv', SimNext
  PROVE  NotelockInv'
  <1>0. SimTypeOK /\ Window50 \in Nat
    BY NumbersAssumption DEF NotelockInv, MatchingInv
  <1>1. ASSUME NEW step \in Steps, NEW keys \in KeyStates, NEW x \in Cursors,
               Read([time |-> clock + step, keys |-> keys, x |-> x])
        PROVE  NotelockInv'
    <2>1. [time |-> clock + step, keys |-> keys, x |-> x] \in Frame
      BY <1>0, NumbersAssumption DEF SimTypeOK, Frame
    <2>2. QED
      BY <1>1, <2>1, ReadKeepsNotelock
  <1>2. ASSUME NEW i \in DOMAIN objects, Match(i)
        PROVE  NotelockInv'
    <2> DEFINE e == Head(pending)
    <2>1. /\ pending # <<>> /\ pending' = Tail(pending) /\ IsNext(i) /\ ~Expired(e, objects[i])
          /\ UNCHANGED <<objects, frames, events>>
      BY <1>2 DEF Match
    <2>2. \/ TooEarly(e, objects[i]) /\ OutOfWindow
          \/ ~TooEarly(e, objects[i]) /\ ~OnTarget(e, objects[i]) /\ OffTarget(i)
          \/ ~TooEarly(e, objects[i]) /\ OnTarget(e, objects[i]) /\ Hit(i)
      BY <1>2 DEF Match
    <2>3. PICK p : p = e
      OBVIOUS
    <2> HIDE DEF e
    <2>4. p = Head(pending) /\ ~Expired(p, objects[i])
      BY <2>1, <2>3 DEF e
    <2>5. /\ ~Behind(p, i) /\ \A j \in 1..(i - 1) : Behind(p, j)
          /\ \A j \in DOMAIN objects : j >= cursor /\ objects[j].kind # "spinner" =>
               ~Expired(p, objects[j])
      BY <2>1, <2>4, TheFirstOpenObject
    <2>6. CASE (TooEarly(p, objects[i]) \/ ~OnTarget(p, objects[i])) /\ UNCHANGED <<heads, cursor>>
      <3>1. ASSUME NEW j \in DOMAIN objects
            PROVE  \/ Behind(p, j) \/ TooEarly(p, objects[j]) \/ ~OnTarget(p, objects[j])
                   \/ \E k \in 1..(j - 1) : ~Behind(p, k)
        <4>1. i \in Nat /\ i >= 1 /\ j \in Nat /\ j >= 1
          BY <1>0, ObjectsAreTyped
        <4>2. CASE j < i
          BY <2>5, <4>1, <4>2
        <4>3. CASE j = i
          BY <2>6, <4>3
        <4>4. CASE i < j
          <5>1. i \in 1..(j - 1)
            BY <4>1, <4>4
          <5>2. QED
            BY <2>5, <5>1
        <4>5. QED
          BY <4>1, <4>2, <4>3, <4>4
      <3>2. QED
        BY <2>1, <2>4, <2>5, <2>6, <3>1, MissKeepsNotelock
    <2>7. CASE ~TooEarly(p, objects[i]) /\ OnTarget(p, objects[i]) /\ Hit(i)
      BY <2>1, <2>4, <2>7, HitKeepsNotelock
    <2>8. QED
      BY <2>2, <2>3, <2>6, <2>7 DEF OutOfWindow, OffTarget
  <1>3. CASE NothingLeft
    <2>1. /\ pending # <<>> /\ pending' = Tail(pending)
          /\ \A i \in DOMAIN objects : ~IsNext(i)
          /\ UNCHANGED <<objects, frames, events, heads, cursor>>
      BY <1>3 DEF NothingLeft, OutOfWindow
    <2>2. PICK p : p = Head(pending)
      OBVIOUS
    <2>3. /\ \A j \in DOMAIN objects : Behind(p, j)
          /\ \A j \in DOMAIN objects : j >= cursor => objects[j].kind = "spinner"
      BY <2>1, <2>2, NothingIsOpen
    <2>4. QED
      BY <2>1, <2>2, <2>3, MissKeepsNotelock
  <1>4. QED
    BY <1>1, <1>2, <1>3, ExpireKeepsNotelock DEF SimNext

\* simulate.py, "Notelock": whatever the recording, also one whose frames step
\* back, a press goes to the earliest object still inside its own window, and a
\* press that misses it changes nothing for those after it.
THEOREM NotelockIsKept == SimSpec => []PressesGoToTheEarliestOpenObject
  <1>1. SimInit => NotelockInv
    <2> SUFFICES ASSUME SimInit PROVE NotelockInv
      OBVIOUS
    <2>1. MatchingInv
      BY InitialMatching
    <2>2. Presses = {} /\ Matched = {} /\ cursor = 1 /\ pending = <<>>
      BY DEF SimInit, Presses, Range, Matched
    <2>3. Done = {} /\ Range(pending) = {}
      BY <2>2 DEF Done, Range
    <2>4. \A i \in DOMAIN objects : ~(i < cursor)
      BY <2>1, <2>2, ObjectsAreTyped DEF MatchingInv
    <2>5. QED
      BY <2>1, <2>2, <2>3, <2>4
         DEF NotelockInv, PendingArePresses, DoneArePast, HeadsAreDone, PassedAreBehind,
             LeftAreInReach, DoneWentRight
  <1>2. NotelockInv /\ MatchingInv' /\ [SimNext]_simVars => NotelockInv'
    <2>1. ASSUME NotelockInv, MatchingInv', UNCHANGED simVars PROVE NotelockInv'
      <3>1. /\ UNCHANGED <<objects, frames, events, pending, cursor, heads>>
            /\ Presses' = Presses /\ Done' = Done /\ Now' = Now /\ Matched' = Matched
        BY <2>1 DEF simVars, Presses, Done, Now, Matched
      <3>2. \A d, i : GoesToTheEarliest(d, i)' <=> GoesToTheEarliest(d, i)
        BY <3>1 DEF GoesToTheEarliest, Behind, OnTarget
      <3>3. QED
        BY <2>1, <3>1, <3>2
           DEF NotelockInv, PendingArePresses, DoneArePast, HeadsAreDone, PassedAreBehind,
               LeftAreInReach, DoneWentRight, Expired, Error
    <2>2. QED
      BY <2>1, StepKeepsNotelock
  <1>3. NotelockInv => PressesGoToTheEarliestOpenObject
    BY DEF NotelockInv, DoneWentRight, Done, Range, PressesGoToTheEarliestOpenObject
  <1>4. QED
    BY <1>1, <1>2, <1>3, MatchingIsKept, PTL DEF SimSpec

-----------------------------------------------------------------------------
\* The log of the keys.

\* EndsDown, BitsAreDownFromPressToRelease's first half and the sets of events
\* they speak of, for any log.
LastIsDown(log, some) == \E l \in some : log[l].edge = "down" /\ \A m \in some : m <= l
Own(log, bit) == {k \in DOMAIN log : log[k].bit = bit}
OwnUpTo(log, bit, f) == {l \in Own(log, bit) : log[l].frame <= f}
Alternates(log, bit) ==
  \A k \in Own(log, bit) : log[k].edge = "up" <=> LastIsDown(log, {l \in Own(log, bit) : l < k})

Logged ==
  \A bit \in Bits :
    /\ Alternates(events, bit)
    /\ \A f \in DOMAIN frames :
         bit \in frames[f].keys <=> LastIsDown(events, OwnUpTo(events, bit, f))

LEMMA LoggedIsDownFromPressToRelease == Logged <=> BitsAreDownFromPressToRelease
  BY DEF Logged, Alternates, LastIsDown, Own, OwnUpTo, BitsAreDownFromPressToRelease, EndsDown

\* One more event of a bit: the others' logs stay, its own goes on if it is not
\* the edge the log ends with.
LEMMA OneMoreEvent ==
  ASSUME NEW S, NEW s \in Seq(S), NEW e \in S
  PROVE  LET t == Append(s, e)
         IN /\ t \in Seq(S)
            /\ \A bit : bit # e.bit =>
                 /\ Alternates(s, bit) => Alternates(t, bit)
                 /\ LastIsDown(t, Own(t, bit)) <=> LastIsDown(s, Own(s, bit))
            /\ \A bit, f : ~(e.frame <= f) =>
                 (LastIsDown(t, OwnUpTo(t, bit, f)) <=> LastIsDown(s, OwnUpTo(s, bit, f)))
            /\ LastIsDown(t, Own(t, e.bit)) <=> e.edge = "down"
            /\ Alternates(s, e.bit) /\ (e.edge = "up" <=> LastIsDown(s, Own(s, e.bit)))
                 => Alternates(t, e.bit)
  <1> DEFINE t == Append(s, e)
             n == Len(s)
  <1>1. /\ t \in Seq(S) /\ n \in Nat
        /\ DOMAIN s = 1..n /\ DOMAIN t = 1..(n + 1)
        /\ \A k \in 1..n : t[k] = s[k]
        /\ t[n + 1] = e
    OBVIOUS
  <1> HIDE DEF t, n
  <1>2. \A k \in DOMAIN t : k \in DOMAIN s \/ k = n + 1
    BY <1>1
  <1>3. DOMAIN s \subseteq DOMAIN t /\ n + 1 \in DOMAIN t /\ \A k \in DOMAIN s : k < n + 1 /\ k \in Nat
    BY <1>1
  <1>4. ASSUME NEW some, some \subseteq DOMAIN s
        PROVE  LastIsDown(t, some) <=> LastIsDown(s, some)
    BY <1>1, <1>4 DEF LastIsDown
  <1>5. ASSUME NEW bit, bit # e.bit PROVE Own(t, bit) = Own(s, bit)
    BY <1>1, <1>2, <1>3, <1>5 DEF Own
  <1>6. Own(t, e.bit) = Own(s, e.bit) \union {n + 1}
    BY <1>1, <1>2, <1>3 DEF Own
  <1>7. \A bit : Own(s, bit) \subseteq DOMAIN s
    BY DEF Own
  <1>8. ASSUME NEW bit, NEW k \in Own(s, bit)
        PROVE  {l \in Own(t, bit) : l < k} = {l \in Own(s, bit) : l < k}
    <2>1. k < n + 1 /\ k \in Nat /\ ~(n + 1 < k)
      BY <1>1, <1>3, <1>7
    <2>2. Own(t, bit) = Own(s, bit) \/ Own(t, bit) = Own(s, bit) \union {n + 1}
      BY <1>5, <1>6
    <2>3. QED
      BY <2>1, <2>2
  <1>9. ASSUME NEW bit, Alternates(s, bit), NEW k \in Own(s, bit)
        PROVE  t[k].edge = "up" <=> LastIsDown(t, {l \in Own(t, bit) : l < k})
    <2>1. s[k].edge = "up" <=> LastIsDown(s, {l \in Own(s, bit) : l < k})
      BY <1>9 DEF Alternates
    <2>2. LastIsDown(t, {l \in Own(s, bit) : l < k}) <=> LastIsDown(s, {l \in Own(s, bit) : l < k})
      BY <1>4, <1>7
    <2>3. t[k] = s[k]
      BY <1>1, <1>7
    <2>4. QED
      BY <1>8, <2>1, <2>2, <2>3
  <1>10. ASSUME NEW bit, bit # e.bit
         PROVE  /\ Alternates(s, bit) => Alternates(t, bit)
                /\ LastIsDown(t, Own(t, bit)) <=> LastIsDown(s, Own(s, bit))
    <2>1. Alternates(s, bit) => Alternates(t, bit)
      BY <1>5, <1>9, <1>10 DEF Alternates
    <2>2. LastIsDown(t, Own(s, bit)) <=> LastIsDown(s, Own(s, bit))
      BY <1>4, <1>7
    <2>3. QED
      BY <1>5, <1>10, <2>1, <2>2
  <1>11. ASSUME NEW bit, NEW f, ~(e.frame <= f)
         PROVE  LastIsDown(t, OwnUpTo(t, bit, f)) <=> LastIsDown(s, OwnUpTo(s, bit, f))
    <2>1. OwnUpTo(t, bit, f) = OwnUpTo(s, bit, f)
      BY <1>1, <1>2, <1>3, <1>11 DEF OwnUpTo, Own
    <2>2. OwnUpTo(s, bit, f) \subseteq DOMAIN s
      BY DEF OwnUpTo, Own
    <2>3. QED
      BY <1>4, <2>1, <2>2
  <1>12. LastIsDown(t, Own(t, e.bit)) <=> e.edge = "down"
    <2>1. n + 1 \in Own(t, e.bit) /\ \A m \in Own(t, e.bit) : m <= n + 1
      BY <1>1, <1>3, <1>6, <1>7
    <2>2. ASSUME NEW l \in Own(t, e.bit), \A m \in Own(t, e.bit) : m <= l
          PROVE  l = n + 1
      <3>1. n + 1 <= l
        BY <2>1, <2>2
      <3>2. \A k \in DOMAIN s : ~(n + 1 <= k)
        BY <1>1
      <3>3. l \in DOMAIN s \/ l = n + 1
        BY <1>6, <1>7
      <3>4. QED
        BY <3>1, <3>2, <3>3
    <2>3. QED
      BY <1>1, <2>1, <2>2 DEF LastIsDown
  <1>13. ASSUME Alternates(s, e.bit), e.edge = "up" <=> LastIsDown(s, Own(s, e.bit))
         PROVE  Alternates(t, e.bit)
    <2>1. {l \in Own(t, e.bit) : l < n + 1} = Own(s, e.bit)
      BY <1>1, <1>3, <1>6, <1>7
    <2>2. LastIsDown(t, Own(s, e.bit)) <=> LastIsDown(s, Own(s, e.bit))
      BY <1>4, <1>7
    <2>3. t[n + 1].edge = "up" <=> LastIsDown(t, {l \in Own(t, e.bit) : l < n + 1})
      BY <1>1, <1>13, <2>1, <2>2
    <2>4. QED
      BY <1>6, <1>9, <1>13, <2>3 DEF Alternates
  <1>14. QED
    BY <1>1, <1>10, <1>11, <1>12, <1>13 DEF t

\* What a frame logs for one bit: its edge if it has one, and nothing else.
LEMMA OneBitLogged ==
  ASSUME NEW earlier \in Seq(Frame), NEW frame \in Frame, NEW bit \in Bits,
         NEW s \in Seq(EventsUpTo(Len(earlier) + 1)), Alternates(s, bit),
         bit \in HeldBefore(earlier) <=> LastIsDown(s, Own(s, bit))
  PROVE  LET t == s \o Downs(earlier, frame, bit) \o Ups(earlier, frame, bit)
         IN /\ t \in Seq(EventsUpTo(Len(earlier) + 1))
            /\ Alternates(t, bit)
            /\ LastIsDown(t, Own(t, bit)) <=> bit \in frame.keys
            /\ \A other : other # bit =>
                 /\ Alternates(s, other) => Alternates(t, other)
                 /\ LastIsDown(t, Own(t, other)) <=> LastIsDown(s, Own(s, other))
            /\ \A any : \A f \in Int : f <= Len(earlier) =>
                 (LastIsDown(t, OwnUpTo(t, any, f)) <=> LastIsDown(s, OwnUpTo(s, any, f)))
  <1> DEFINE E == EventsUpTo(Len(earlier) + 1)
             down == KeyEvent(earlier, frame, "down", bit, frame.keys)
             up == KeyEvent(earlier, frame, "up", bit, HeldBefore(earlier))
             t == s \o Downs(earlier, frame, bit) \o Ups(earlier, frame, bit)
  <1>1. /\ down \in E /\ down.frame = Len(earlier) + 1 /\ down.bit = bit /\ down.edge = "down"
        /\ up \in E /\ up.frame = Len(earlier) + 1 /\ up.bit = bit /\ up.edge = "up"
    BY KeyEventIsTyped DEF KeyEvent
  <1>2. Len(earlier) \in Nat /\ \A f \in Int : f <= Len(earlier) => ~(Len(earlier) + 1 <= f)
    OBVIOUS
  <1>3. /\ Downs(earlier, frame, bit) =
             IF bit \in frame.keys /\ bit \notin HeldBefore(earlier) THEN <<down>> ELSE <<>>
        /\ Ups(earlier, frame, bit) =
             IF bit \notin frame.keys /\ bit \in HeldBefore(earlier) THEN <<up>> ELSE <<>>
    BY DEF Downs, Ups, Pressed, Mask
  <1> HIDE DEF E, down, up
  <1>4. CASE bit \in frame.keys /\ bit \notin HeldBefore(earlier)
    <2>1. t = Append(s, down)
      BY <1>1, <1>3, <1>4 DEF E
    <2> HIDE DEF t
    <2>2. QED
      BY <1>1, <1>2, <1>4, <2>1, OneMoreEvent DEF t, E
  <1>5. CASE bit \notin frame.keys /\ bit \in HeldBefore(earlier)
    <2>1. t = Append(s, up)
      BY <1>1, <1>3, <1>5 DEF E
    <2> HIDE DEF t
    <2>2. QED
      BY <1>1, <1>2, <1>5, <2>1, OneMoreEvent DEF t, E
  <1>6. CASE bit \in frame.keys <=> bit \in HeldBefore(earlier)
    <2>1. t = s
      <3>1. Downs(earlier, frame, bit) = <<>> /\ Ups(earlier, frame, bit) = <<>>
        BY <1>3, <1>6
      <3>2. s \o <<>> = s
        OBVIOUS
      <3>3. QED
        BY <3>1, <3>2
    <2> HIDE DEF t
    <2>2. QED
      BY <1>6, <2>1 DEF t, E
  <1>7. QED
    BY <1>4, <1>5, <1>6

\* Before a frame is read, a bit is held if its log ends with a press.
LEMMA HeldIsLogged ==
  ASSUME SimTypeOK, Logged, NEW bit \in Bits
  PROVE  /\ Alternates(events, bit)
         /\ bit \in HeldBefore(frames) <=> LastIsDown(events, Own(events, bit))
         /\ OwnUpTo(events, bit, Len(frames)) = Own(events, bit)
  <1>1. /\ frames \in Seq(Frame) /\ Len(frames) \in Nat
        /\ \A k \in DOMAIN events : events[k].frame \in 1..Len(frames)
    BY DEF SimTypeOK, Frame, Event, EventsUpTo
  <1>2. OwnUpTo(events, bit, Len(frames)) = Own(events, bit)
    BY <1>1 DEF OwnUpTo, Own
  <1>3. CASE frames = <<>>
    <2>1. Own(events, bit) = {}
      BY <1>1, <1>3 DEF Own
    <2>2. QED
      BY <1>2, <1>3, <2>1 DEF Logged, HeldBefore, LastIsDown
  <1>4. CASE frames # <<>>
    <2>1. Len(frames) \in DOMAIN frames /\ HeldBefore(frames) = frames[Len(frames)].keys
      BY <1>1, <1>4 DEF HeldBefore, Last
    <2>2. QED
      BY <1>2, <2>1 DEF Logged
  <1>5. QED
    BY <1>3, <1>4

LEMMA ReadKeepsLog ==
  ASSUME SimTypeOK, Logged, NEW frame \in Frame, Read(frame)
  PROVE  Logged'
  <1> DEFINE n == Len(frames)
             E == EventsUpTo(n + 1)
             s == events \o Downs(frames, frame, "M1") \o Ups(frames, frame, "M1")
             t == s \o Downs(frames, frame, "M2") \o Ups(frames, frame, "M2")
  <1>1. frames \in Seq(Frame) /\ n \in Nat /\ events \in Seq(E) /\ "M1" \in Bits /\ "M2" \in Bits
    BY LaterEvents DEF SimTypeOK, Frame, Event, Bits
  <1>2. CASE UNCHANGED <<frames, events>>
    BY <1>2 DEF Logged
  <1>3. CASE frames' = Append(frames, frame) /\ events' = t
    <2>1. \A bit \in Bits :
            /\ Alternates(events, bit)
            /\ bit \in HeldBefore(frames) <=> LastIsDown(events, Own(events, bit))
      BY HeldIsLogged
    <2>2. /\ s \in Seq(E)
          /\ Alternates(s, "M1") /\ (LastIsDown(s, Own(s, "M1")) <=> "M1" \in frame.keys)
          /\ Alternates(s, "M2") /\ (LastIsDown(s, Own(s, "M2")) <=> "M2" \in HeldBefore(frames))
          /\ \A bit : \A f \in Int : f <= n =>
               (LastIsDown(s, OwnUpTo(s, bit, f)) <=> LastIsDown(events, OwnUpTo(events, bit, f)))
      BY <1>1, <2>1, OneBitLogged
    <2> HIDE DEF s
    <2>3. /\ t \in Seq(E)
          /\ Alternates(t, "M1") /\ (LastIsDown(t, Own(t, "M1")) <=> "M1" \in frame.keys)
          /\ Alternates(t, "M2") /\ (LastIsDown(t, Own(t, "M2")) <=> "M2" \in frame.keys)
          /\ \A bit : \A f \in Int : f <= n =>
               (LastIsDown(t, OwnUpTo(t, bit, f)) <=> LastIsDown(s, OwnUpTo(s, bit, f)))
      BY <1>1, <2>2, OneBitLogged
    <2> HIDE DEF t, n
    <2>4. /\ DOMAIN frames = 1..n /\ DOMAIN frames' = 1..(n + 1)
          /\ \A f \in 1..n : frames'[f] = frames[f]
          /\ frames'[n + 1] = frame
      BY <1>1, <1>3 DEF n
    <2>5. ASSUME NEW bit \in Bits PROVE Alternates(t, bit)
      BY <2>3 DEF Bits
    <2>6. ASSUME NEW bit \in Bits, NEW f \in 1..(n + 1)
          PROVE  bit \in frames'[f].keys <=> LastIsDown(t, OwnUpTo(t, bit, f))
      <3>1. CASE f = n + 1
        <4>1. \A k \in DOMAIN t : t[k].frame \in 1..(n + 1)
          BY <2>3 DEF EventsUpTo
        <4>2. OwnUpTo(t, bit, f) = Own(t, bit)
          BY <1>1, <3>1, <4>1 DEF OwnUpTo, Own
        <4>3. LastIsDown(t, Own(t, bit)) <=> bit \in frame.keys
          BY <2>3 DEF Bits
        <4>4. QED
          BY <2>4, <3>1, <4>2, <4>3
      <3>2. CASE f # n + 1
        <4>1. f \in 1..n /\ f \in Int /\ f <= n
          BY <1>1, <3>2
        <4>2. bit \in frames[f].keys <=> LastIsDown(events, OwnUpTo(events, bit, f))
          BY <2>4, <4>1 DEF Logged
        <4>3. LastIsDown(s, OwnUpTo(s, bit, f)) <=> LastIsDown(events, OwnUpTo(events, bit, f))
          BY <2>2, <4>1
        <4>4. LastIsDown(t, OwnUpTo(t, bit, f)) <=> LastIsDown(s, OwnUpTo(s, bit, f))
          BY <2>3, <4>1
        <4>5. frames'[f] = frames[f]
          BY <2>4, <4>1
        <4>6. QED
          BY <4>2, <4>3, <4>4, <4>5
      <3>3. QED
        BY <3>1, <3>2
    <2>7. QED
      BY <1>3, <2>4, <2>5, <2>6 DEF Logged
  <1>4. QED
    BY <1>2, <1>3 DEF Read

\* frames.py: whatever the recording, the events of a bit are a press, its
\* release, a press and so on, and it is down on the frames in between: "a
\* single physical press produces one edge rather than two".
THEOREM BitsFollowTheKeys == SimSpec => []BitsAreDownFromPressToRelease
  <1>1. SimInit => Logged
    BY DEF SimInit, Logged, Alternates, Own
  <1>2. SimTypeOK /\ Logged /\ [SimNext]_simVars => Logged'
    <2> SUFFICES ASSUME SimTypeOK, Logged, [SimNext]_simVars PROVE Logged'
      OBVIOUS
    <2>1. ASSUME NEW step \in Steps, NEW keys \in KeyStates, NEW x \in Cursors,
                 Read([time |-> clock + step, keys |-> keys, x |-> x])
          PROVE  Logged'
      <3>1. [time |-> clock + step, keys |-> keys, x |-> x] \in Frame
        BY NumbersAssumption DEF SimTypeOK, Frame
      <3>2. QED
        BY <2>1, <3>1, ReadKeepsLog
    <2>2. CASE UNCHANGED <<frames, events>>
      BY <2>2 DEF Logged
    <2>3. QED
      BY <2>1, <2>2 DEF SimNext, Expire, Match, NothingLeft, simVars
  <1>3. QED
    BY <1>1, <1>2, LoggedIsDownFromPressToRelease, SimTypeCorrect, PTL DEF SimSpec

-----------------------------------------------------------------------------
\* The frame a part is judged on.

\* A row of numbers has a highest one, by induction over its length.
LEMMA ARowHasAHighest ==
  ASSUME NEW n \in Nat, NEW v, \A j \in 1..n : v[j] \in Int, NEW i \in 1..n
  PROVE  \E m \in 1..i : \A j \in 1..i : v[j] <= v[m]
  <1> DEFINE Bad == {k \in 1..n : ~\E m \in 1..k : \A j \in 1..k : v[j] <= v[m]}
  <1>1. SUFFICES ASSUME Bad # {} PROVE FALSE
    OBVIOUS
  <1>2. Bad \in SUBSET Nat
    OBVIOUS
  <1> HIDE DEF Bad
  <1>3. PICK k \in Bad : \A l \in Bad : k <= l
    BY <1>1, <1>2, LeastNatural
  <1>4. k \in 1..n /\ ~\E m \in 1..k : \A j \in 1..k : v[j] <= v[m]
    BY <1>3 DEF Bad
  <1>5. k # 1
    BY <1>4
  <1>6. k - 1 \in 1..n /\ k - 1 \notin Bad
    BY <1>2, <1>3, <1>4, <1>5
  <1>7. PICK m \in 1..(k - 1) : \A j \in 1..(k - 1) : v[j] <= v[m]
    BY <1>6 DEF Bad
  <1>8. \A j \in 1..k : j = k \/ j \in 1..(k - 1)
    BY <1>4
  <1>9. m \in 1..k /\ k \in 1..k /\ v[m] \in Int /\ v[k] \in Int
    BY <1>4, <1>7
  <1>10. CASE v[k] <= v[m]
    BY <1>4, <1>7, <1>8, <1>9, <1>10
  <1>11. CASE ~(v[k] <= v[m])
    <2>1. \A j \in 1..(k - 1) : v[j] \in Int
      BY <1>4
    <2>2. \A j \in 1..(k - 1) : v[j] <= v[k]
      BY <1>7, <1>9, <1>11, <2>1
    <2>3. v[k] <= v[k]
      BY <1>9
    <2>4. QED
      BY <1>4, <1>8, <1>9, <2>2, <2>3
  <1>12. QED
    BY <1>10, <1>11

LEMMA FramesAreTyped ==
  ASSUME SimTypeOK
  PROVE  /\ frames \in Seq(Frame) /\ Len(frames) \in Nat /\ DOMAIN frames = 1..Len(frames)
         /\ \A j \in 1..Len(frames) : frames[j].time \in Int
  <1>1. frames \in Seq(Frame)
    BY DEF SimTypeOK, Frame
  <1>2. \A j \in 1..Len(frames) : frames[j] \in Frame
    BY <1>1
  <1>3. QED
    BY <1>1, <1>2 DEF Frame

\* The running maximum of _FrameSampler stays below a time as long as the times
\* of the frames do.
LEMMA RunningMaximum ==
  ASSUME SimTypeOK, NEW i \in DOMAIN frames, NEW time \in Int
  PROVE  Max({frames[j].time : j \in 1..i}) < time <=> \A j \in 1..i : frames[j].time < time
  <1> DEFINE v == [j \in 1..Len(frames) |-> frames[j].time]
             S == {frames[j].time : j \in 1..i}
  <1>1. /\ Len(frames) \in Nat /\ DOMAIN frames = 1..Len(frames)
        /\ \A j \in 1..Len(frames) : frames[j].time \in Int
    BY FramesAreTyped
  <1>2. i \in 1..Len(frames) /\ \A j \in 1..i : j \in 1..Len(frames)
    BY <1>1
  <1>3. \A j \in 1..Len(frames) : v[j] \in Int /\ v[j] = frames[j].time
    BY <1>1
  <1> HIDE DEF v
  <1>4. PICK m \in 1..i : \A j \in 1..i : v[j] <= v[m]
    BY <1>1, <1>2, <1>3, ARowHasAHighest
  <1>5. frames[m].time \in S /\ \A y \in S : frames[m].time >= y
    BY <1>2, <1>3, <1>4
  <1> HIDE DEF S
  <1>6. Max(S) \in S /\ \A y \in S : Max(S) >= y
    BY <1>5 DEF Max
  <1>7. PICK l \in 1..i : Max(S) = frames[l].time
    BY <1>6 DEF S
  <1>8. ASSUME NEW j \in 1..i
        PROVE  frames[j].time <= Max(S) /\ frames[j].time \in Int /\ Max(S) \in Int
    BY <1>1, <1>2, <1>6, <1>7 DEF S
  <1>9. Max(S) < time <=> \A j \in 1..i : frames[j].time < time
    BY <1>7, <1>8
  <1>10. QED
    BY <1>9 DEF S

LEMMA TheNextUpdate ==
  ASSUME SimTypeOK, NEW time \in Int
  PROVE  /\ FrameAt(time) \in 1..(Len(frames) + 1)
         /\ FrameAt(time) <= Len(frames) => frames[FrameAt(time)].time >= time
         /\ \A g \in 1..(FrameAt(time) - 1) : frames[g].time < time
  <1> DEFINE n == Len(frames)
             Late == {i \in DOMAIN frames : frames[i].time >= time}
             Early == {i \in DOMAIN frames : Max({frames[j].time : j \in 1..i}) < time}
  <1>1. /\ n \in Nat /\ DOMAIN frames = 1..n /\ \A j \in 1..n : frames[j].time \in Int
    BY FramesAreTyped
  <1>2. FrameAt(time) = Cardinality(Early) + 1
    BY DEF FrameAt
  <1>3. \A i \in 1..n : i \in Early <=> \A j \in 1..i : frames[j].time < time
    BY <1>1, RunningMaximum
  <1>4. Early \subseteq 1..n
    BY <1>1
  <1> HIDE DEF n, Early
  <1>5. PICK f \in 1..(n + 1) :
          /\ f <= n => frames[f].time >= time
          /\ \A g \in 1..(f - 1) : g \in 1..n /\ frames[g].time < time
    <2>1. CASE Late = {}
      <3>1. \A g \in 1..n : frames[g].time < time
        BY <1>1, <2>1
      <3>2. n + 1 \in 1..(n + 1) /\ ~(n + 1 <= n) /\ (n + 1) - 1 = n
        BY <1>1
      <3>3. QED
        BY <3>1, <3>2
    <2>2. CASE Late # {}
      <3>1. Late \in SUBSET Nat
        BY <1>1
      <3> HIDE DEF Late
      <3>2. PICK f \in Late : \A g \in Late : f <= g
        BY <2>2, <3>1, LeastNatural
      <3>3. f \in 1..n /\ frames[f].time >= time
        BY <1>1, <3>2 DEF Late
      <3>4. ASSUME NEW g \in 1..(f - 1) PROVE g \in 1..n /\ frames[g].time < time
        <4>1. g \in 1..n /\ ~(f <= g)
          BY <1>1, <3>3
        <4>2. QED
          BY <1>1, <3>2, <4>1 DEF Late
      <3>5. f \in 1..(n + 1)
        BY <1>1, <3>3
      <3>6. QED
        BY <3>3, <3>4, <3>5
    <2>3. QED
      BY <2>1, <2>2
  <1>6. Early = 1..(f - 1)
    <2>1. ASSUME NEW i \in 1..(f - 1) PROVE i \in Early
      <3>1. i \in 1..n /\ \A j \in 1..i : j \in 1..(f - 1)
        BY <1>1, <1>5
      <3>2. QED
        BY <1>3, <1>5, <3>1
    <2>2. ASSUME NEW i \in Early PROVE i \in 1..(f - 1)
      <3>1. i \in 1..n /\ \A j \in 1..i : frames[j].time < time
        BY <1>3, <1>4
      <3>2. ASSUME f <= i PROVE FALSE
        <4>1. f \in 1..i /\ f <= n
          BY <1>1, <3>1, <3>2
        <4>2. frames[f].time \in Int
          BY <1>1, <4>1
        <4>3. QED
          BY <1>5, <3>1, <4>1, <4>2
      <3>3. QED
        BY <1>1, <3>1, <3>2
    <2>3. QED
      BY <2>1, <2>2
  <1>7. Cardinality(Early) = f - 1
    BY <1>1, <1>6, FS_Interval
  <1>8. FrameAt(time) = f
    BY <1>1, <1>2, <1>7
  <1>9. QED
    BY <1>5, <1>8 DEF n

\* _FrameSampler: "The game checks a tick on the update its clock passes the
\* tick's time": for any recording, also one whose times step back, the frame a
\* part is judged on is the first one at or after it.
THEOREM PartsUseTheNextUpdate == SimSpec => []PartsAreJudgedOnTheNextUpdate
  <1>1. SimTypeOK => PartsAreJudgedOnTheNextUpdate
    <2> SUFFICES ASSUME SimTypeOK, NEW i \in DOMAIN objects, NEW k \in DOMAIN objects[i].parts
                 PROVE  LET t == objects[i].parts[k].time
                            f == FrameAt(t)
                        IN /\ f <= Len(frames) => frames[f].time >= t
                           /\ \A g \in 1..(f - 1) : frames[g].time < t
      BY DEF PartsAreJudgedOnTheNextUpdate
    <2>1. objects[i] \in Objects
      BY BeatmapsAreSequences DEF SimTypeOK
    <2>2. objects[i].parts \in Seq([time : Int, x : Int])
      BY <2>1 DEF Objects
    <2>3. PICK part : part = objects[i].parts[k]
      OBVIOUS
    <2>4. part \in [time : Int, x : Int]
      BY <2>2, <2>3, ElementsAreTyped
    <2>5. part.time \in Int
      BY <2>4
    <2>6. QED
      BY <2>3, <2>5, TheNextUpdate
  <1>2. QED
    BY <1>1, SimTypeCorrect, PTL

-----------------------------------------------------------------------------
\* Tracking.

\* A function that is defined by going up a row exists, by induction over the
\* length of the row.
Rows(n, V) == [0..n -> V]
StepsUp(n, V) == [1..n -> [V -> V]]
Goes(g, n, start, step) == g[0] = start /\ \A k \in 1..n : g[k] = step[k][g[k - 1]]

LEMMA ARowIsFollowed ==
  ASSUME NEW n \in Nat, NEW V, NEW start \in V, NEW step \in StepsUp(n, V)
  PROVE  \E g \in Rows(n, V) : Goes(g, n, start, step)
  <1> USE DEF Rows, StepsUp, Goes
  <1> DEFINE Follows(g, m) == Goes(g, m, start, step)
             Bad == {m \in 0..n : ~\E g \in [0..m -> V] : Follows(g, m)}
  <1>1. SUFFICES ASSUME Bad # {} PROVE FALSE
    <2>1. n \in 0..n
      OBVIOUS
    <2>2. QED
      BY <2>1
  <1>2. Bad \in SUBSET Nat
    OBVIOUS
  <1> HIDE DEF Bad
  <1>3. PICK m \in Bad : \A l \in Bad : m <= l
    BY <1>1, <1>2, LeastNatural
  <1>4. m \in 0..n /\ ~\E g \in [0..m -> V] : Follows(g, m)
    BY <1>3 DEF Bad
  <1>5. CASE m = 0
    <2>1. [k \in 0..0 |-> start] \in [0..0 -> V] /\ Follows([k \in 0..0 |-> start], 0)
      OBVIOUS
    <2>2. QED
      BY <1>4, <1>5, <2>1
  <1>6. CASE m # 0
    <2>1. m - 1 \in 0..n /\ m - 1 \notin Bad
      BY <1>2, <1>3, <1>4, <1>6
    <2>2. PICK g \in [0..(m - 1) -> V] : Follows(g, m - 1)
      BY <2>1 DEF Bad
    <2> DEFINE h == [k \in 0..m |-> IF k = m THEN step[m][g[m - 1]] ELSE g[k]]
    <2>3. m \in 1..n /\ m - 1 \in 0..(m - 1) /\ step[m] \in [V -> V]
      BY <1>4, <1>6
    <2>4. g[m - 1] \in V /\ step[m][g[m - 1]] \in V
      BY <2>3
    <2>5. \A k \in 0..m : k = m \/ k \in 0..(m - 1)
      BY <2>3
    <2>6. h \in [0..m -> V]
      BY <2>4, <2>5
    <2>7. h[0] = start
      BY <1>4, <1>6, <2>2
    <2>8. ASSUME NEW k \in 1..m PROVE h[k] = step[k][h[k - 1]]
      <3>1. k \in 0..m /\ k - 1 \in 0..m /\ k - 1 # m
        BY <2>3
      <3>2. h[k - 1] = g[k - 1]
        BY <3>1
      <3>3. CASE k = m
        BY <3>1, <3>2, <3>3
      <3>4. CASE k # m
        <4>1. k \in 1..(m - 1)
          BY <2>3, <3>4
        <4>2. QED
          BY <2>2, <3>1, <3>2, <3>4, <4>1
      <3>5. QED
        BY <3>3, <3>4
    <2> HIDE DEF h
    <2>9. QED
      BY <1>4, <2>6, <2>7, <2>8
  <1>7. QED
    BY <1>5, <1>6

LEMMA TrackingGoesOn ==
  ASSUME SimTypeOK, NEW i \in DOMAIN objects
  PROVE  LET n == Len(objects[i].parts)
             tracking == Tracking(i)
         IN /\ n \in Nat
            /\ tracking[0] = (heads[i] # None)
            /\ \A k \in 1..n : tracking[k] = Holds(i, objects[i].parts[k], tracking[k - 1])
            /\ tracking \in [0..n -> BOOLEAN]
  <1> DEFINE n == Len(objects[i].parts)
             body(g) == [k \in 0..n |-> IF k = 0 THEN heads[i] # None
                                        ELSE Holds(i, objects[i].parts[k], g[k - 1])]
             step == [k \in 1..n |-> [b \in BOOLEAN |-> Holds(i, objects[i].parts[k], b)]]
  <1>1. n \in Nat
    <2>1. objects[i] \in Objects
      BY BeatmapsAreSequences DEF SimTypeOK
    <2>2. objects[i].parts \in Seq([time : Int, x : Int])
      BY <2>1 DEF Objects
    <2>3. QED
      BY <2>2
  <1>2. Tracking(i) = CHOOSE g : g = body(g)
    BY DEF Tracking
  <1>3. step \in [1..n -> [BOOLEAN -> BOOLEAN]]
    BY DEF Holds
  <1> HIDE DEF n
  <1>4. PICK g \in Rows(n, BOOLEAN) : Goes(g, n, heads[i] # None, step)
    <2>1. (heads[i] # None) \in BOOLEAN /\ step \in StepsUp(n, BOOLEAN)
      BY <1>3 DEF StepsUp
    <2> HIDE DEF step
    <2>2. QED
      BY <1>1, <2>1, ARowIsFollowed, Zenon
  <1>5. \A k \in 1..n : g[k] = Holds(i, objects[i].parts[k], g[k - 1])
    <2> SUFFICES ASSUME NEW k \in 1..n PROVE g[k] = Holds(i, objects[i].parts[k], g[k - 1])
      OBVIOUS
    <2>1. k - 1 \in 0..n
      BY <1>1
    <2>2. g[k - 1] \in BOOLEAN
      BY <1>4, <2>1 DEF Rows
    <2>3. QED
      BY <1>4, <2>2 DEF Goes
  <1>6. g = body(g)
    <2>1. \A k \in 0..n : k = 0 \/ k \in 1..n
      BY <1>1
    <2>2. \A k \in 0..n : g[k] = IF k = 0 THEN heads[i] # None
                                 ELSE Holds(i, objects[i].parts[k], g[k - 1])
      BY <1>4, <1>5, <2>1 DEF Goes
    <2>3. QED
      BY <1>4, <2>2 DEF Rows
  <1>7. Tracking(i) = body(Tracking(i))
    BY <1>2, <1>6
  <1> DEFINE t == Tracking(i)
  <1> HIDE DEF t
  <1>8. t = [k \in 0..n |-> IF k = 0 THEN heads[i] # None
                            ELSE Holds(i, objects[i].parts[k], t[k - 1])]
    BY <1>7 DEF t
  <1>9. \A k \in 1..n : k \in 0..n /\ k # 0
    BY <1>1
  <1>10. t[0] = (heads[i] # None) /\ \A k \in 1..n : t[k] = Holds(i, objects[i].parts[k], t[k - 1])
    BY <1>1, <1>8, <1>9
  <1>11. t \in [0..n -> BOOLEAN]
    <2>1. \A k \in 0..n : (IF k = 0 THEN heads[i] # None
                           ELSE Holds(i, objects[i].parts[k], t[k - 1])) \in BOOLEAN
      BY DEF Holds
    <2>2. QED
      BY <1>8, <2>1
  <1>12. QED
    BY <1>1, <1>10, <1>11 DEF t, n

LEMMA PartsAreTyped ==
  ASSUME SimTypeOK, NEW i \in DOMAIN objects, NEW k \in DOMAIN objects[i].parts
  PROVE  /\ DOMAIN objects[i].parts = 1..Len(objects[i].parts)
         /\ objects[i].parts[k].time \in Int /\ objects[i].parts[k].x \in Int
  <1>1. objects[i] \in Objects
    BY BeatmapsAreSequences DEF SimTypeOK
  <1>2. objects[i].parts \in Seq([time : Int, x : Int])
    BY <1>1 DEF Objects
  <1>3. PICK part : part = objects[i].parts[k]
    OBVIOUS
  <1>4. part \in [time : Int, x : Int]
    BY <1>2, <1>3, ElementsAreTyped
  <1>5. QED
    BY <1>2, <1>3, <1>4

\* Tracking is kept at a part with the wide radius and acquired with the other;
\* who acquires it would also have kept it.
LEMMA HoldingIsBeingOn ==
  ASSUME SimTypeOK, NEW i \in DOMAIN objects, NEW k \in 1..Len(objects[i].parts)
  PROVE  /\ Holds(i, objects[i].parts[k], TRUE) <=> On(i, k, FollowRadius)
         /\ Holds(i, objects[i].parts[k], FALSE) <=> On(i, k, Radius)
         /\ On(i, k, Radius) => On(i, k, FollowRadius)
  <1> DEFINE part == objects[i].parts[k]
             f == FrameAt(part.time)
  <1>1. part.time \in Int /\ part.x \in Int
    <2> DEFINE object == objects[i]
    <2>1. object \in Objects
      BY BeatmapsAreSequences DEF SimTypeOK
    <2> HIDE DEF object
    <2>2. object.parts \in Seq([time : Int, x : Int])
      BY <2>1 DEF Objects
    <2>3. objects[i].parts \in Seq([time : Int, x : Int])
      BY <2>2 DEF object
    <2>4. k \in DOMAIN objects[i].parts
      BY <2>3
    <2>5. QED
      BY <2>4, PartsAreTyped
  <1>2. ASSUME f <= Len(frames) PROVE Distance(frames[f].x, part.x) \in Int
    <2>1. f \in 1..(Len(frames) + 1)
      BY <1>1, TheNextUpdate
    <2>2. frames \in Seq(Frame) /\ f \in DOMAIN frames
      BY <1>2, <2>1, FramesAreTyped
    <2>3. PICK frame : frame = frames[f]
      OBVIOUS
    <2>4. frame \in Frame
      BY <2>2, <2>3, ElementsAreTyped
    <2>5. frame.x \in Int
      BY <2>4, NumbersAssumption DEF Frame
    <2>6. QED
      BY <1>1, <2>3, <2>5 DEF Distance
  <1> DEFINE d == Distance(frames[f].x, part.x)
  <1>3. f <= Len(frames) /\ d <= Radius => d <= FollowRadius
    BY <1>2, FollowAssumption, NumbersAssumption
  <1>4. (frames[f].keys \intersect Required(i) # {})
          <=> (\E bit \in frames[f].keys \intersect Bits : heads[i] # None => bit = heads[i].bit)
    <2>1. CASE heads[i] = None
      BY <2>1 DEF Required
    <2>2. CASE heads[i] # None
      <3>1. heads[i].bit \in Bits
        BY <2>2 DEF SimTypeOK, Event, EventsUpTo, Events
      <3>2. QED
        BY <2>2, <3>1 DEF Required
    <2>3. QED
      BY <2>1, <2>2
  <1>5. Limit(TRUE) = FollowRadius /\ Limit(FALSE) = Radius
    BY DEF Limit
  <1> HIDE DEF part
  <1>6. Holds(i, part, TRUE) <=> On(i, k, FollowRadius)
    BY <1>4, <1>5 DEF Holds, On, part
  <1>7. Holds(i, part, FALSE) <=> On(i, k, Radius)
    BY <1>4, <1>5 DEF Holds, On, part
  <1>8. On(i, k, Radius) => On(i, k, FollowRadius)
    BY <1>3 DEF On, part
  <1>9. QED
    BY <1>6, <1>7, <1>8 DEF part

\* Acquired at some part up to the k-th, and kept from there.
KeptTo(i, k) ==
  \E j \in 0..k : Acquired(i, j) /\ \A m \in (j + 1)..k : On(i, m, FollowRadius)

LEMMA KeepingGoesOn ==
  ASSUME NEW i, NEW k \in Nat, k > 0
  PROVE  KeptTo(i, k)
           <=> On(i, k, Radius) \/ (KeptTo(i, k - 1) /\ On(i, k, FollowRadius))
  <1>1. ASSUME KeptTo(i, k)
        PROVE  On(i, k, Radius) \/ (KeptTo(i, k - 1) /\ On(i, k, FollowRadius))
    <2>1. PICK j \in 0..k : Acquired(i, j) /\ \A m \in (j + 1)..k : On(i, m, FollowRadius)
      BY <1>1 DEF KeptTo
    <2>2. CASE j = k
      BY <2>1, <2>2 DEF Acquired
    <2>3. CASE j # k
      <3>1. j \in 0..(k - 1) /\ k \in (j + 1)..k
        BY <2>3
      <3>2. \A m \in (j + 1)..(k - 1) : m \in (j + 1)..k
        OBVIOUS
      <3>3. KeptTo(i, k - 1)
        BY <2>1, <3>1, <3>2 DEF KeptTo
      <3>4. QED
        BY <2>1, <3>1, <3>3
    <2>4. QED
      BY <2>2, <2>3
  <1>2. ASSUME On(i, k, Radius) PROVE KeptTo(i, k)
    <2>1. k \in 0..k /\ (k + 1)..k = {} /\ Acquired(i, k)
      BY <1>2 DEF Acquired
    <2>2. QED
      BY <2>1 DEF KeptTo
  <1>3. ASSUME KeptTo(i, k - 1), On(i, k, FollowRadius) PROVE KeptTo(i, k)
    <2>1. PICK j \in 0..(k - 1) :
            Acquired(i, j) /\ \A m \in (j + 1)..(k - 1) : On(i, m, FollowRadius)
      BY <1>3 DEF KeptTo
    <2>2. j \in 0..k /\ \A m \in (j + 1)..k : m = k \/ m \in (j + 1)..(k - 1)
      OBVIOUS
    <2>3. QED
      BY <1>3, <2>1, <2>2 DEF KeptTo
  <1>4. QED
    BY <1>1, <1>2, <1>3

\* A part is tracked when tracking was acquired at it, or earlier and kept since.
LEMMA TrackedWhenKept ==
  ASSUME SimTypeOK, NEW i \in DOMAIN objects, NEW k \in 0..Len(objects[i].parts)
  PROVE  Tracking(i)[k] <=> KeptTo(i, k)
  <1> DEFINE n == Len(objects[i].parts)
             t == Tracking(i)
             Bad == {l \in 0..n : ~(t[l] <=> KeptTo(i, l))}
  <1>1. /\ n \in Nat
        /\ t[0] = (heads[i] # None)
        /\ \A l \in 1..n : t[l] = Holds(i, objects[i].parts[l], t[l - 1])
        /\ t \in [0..n -> BOOLEAN]
    BY TrackingGoesOn
  <1>2. SUFFICES ASSUME Bad # {} PROVE FALSE
    OBVIOUS
  <1> HIDE DEF n, t
  <1>3. Bad \in SUBSET Nat
    BY <1>1
  <1> HIDE DEF Bad
  <1>4. PICK l \in Bad : \A m \in Bad : l <= m
    BY <1>2, <1>3, LeastNatural
  <1>5. l \in 0..n /\ ~(t[l] <=> KeptTo(i, l))
    BY <1>4 DEF Bad
  <1>6. CASE l = 0
    <2>1. KeptTo(i, 0) <=> heads[i] # None
      <3>1. 0..0 = {0} /\ (0 + 1)..0 = {}
        OBVIOUS
      <3>2. QED
        BY <3>1 DEF KeptTo, Acquired
    <2>2. QED
      BY <1>1, <1>5, <1>6, <2>1
  <1>7. CASE l # 0
    <2>1. l \in 1..n /\ l - 1 \in 0..n /\ l - 1 \notin Bad /\ l \in Nat /\ l > 0
      BY <1>1, <1>3, <1>4, <1>5, <1>7
    <2>2. t[l - 1] <=> KeptTo(i, l - 1)
      BY <2>1 DEF Bad
    <2>3. t[l - 1] \in BOOLEAN
      BY <1>1, <2>1
    <2>4. t[l] = Holds(i, objects[i].parts[l], t[l - 1])
      BY <1>1, <2>1
    <2>5. /\ Holds(i, objects[i].parts[l], TRUE) <=> On(i, l, FollowRadius)
          /\ Holds(i, objects[i].parts[l], FALSE) <=> On(i, l, Radius)
          /\ On(i, l, Radius) => On(i, l, FollowRadius)
      BY <2>1, HoldingIsBeingOn DEF n
    <2>6. KeptTo(i, l) <=> On(i, l, Radius) \/ (KeptTo(i, l - 1) /\ On(i, l, FollowRadius))
      BY <2>1, KeepingGoesOn
    <2>7. CASE t[l - 1] = TRUE
      BY <1>5, <2>2, <2>4, <2>5, <2>6, <2>7, Zenon
    <2>8. CASE t[l - 1] = FALSE
      BY <1>5, <2>2, <2>4, <2>5, <2>6, <2>8, Zenon
    <2>9. QED
      BY <2>3, <2>7, <2>8
  <1>8. QED
    BY <1>6, <1>7

\* For every beatmap and every recording, a part of a slider is collected when
\* the cursor came close to it, or to an earlier part, and followed it since with
\* the key of the head: the loop that carries one flag along computes no more.
THEOREM SlidersAreFollowed == SimSpec => []TrackingIsAcquiredThenKept
  <1>1. SimTypeOK => TrackingIsAcquiredThenKept
    BY TrackedWhenKept DEF TrackingIsAcquiredThenKept, KeptTo
  <1>2. QED
    BY <1>1, SimTypeCorrect, PTL

-----------------------------------------------------------------------------
\* Which hits feed the timing statistics.

LEMMA TimesAreInOrder ==
  ASSUME SimTypeOK
  PROVE  /\ Len(objects) \in Nat /\ DOMAIN objects = 1..Len(objects)
         /\ \A i \in 1..Len(objects) :
              /\ objects[i].kind \in {"circle", "slider", "spinner"}
              /\ objects[i].time \in Int /\ objects[i].end \in Int
         /\ \A i, j \in 1..Len(objects) : i < j => objects[i].time <= objects[j].time
  <1>1. objects \in Seq(Objects) /\ \A i, j \in DOMAIN objects : i < j => objects[i].time <= objects[j].time
    BY BeatmapsAssumption DEF SimTypeOK
  <1>2. \A i \in 1..Len(objects) : objects[i] \in Objects
    BY <1>1
  <1>3. ASSUME NEW i \in 1..Len(objects)
        PROVE  /\ objects[i].kind \in {"circle", "slider", "spinner"}
               /\ objects[i].time \in Int /\ objects[i].end \in Int
    <2>1. PICK object : object = objects[i]
      OBVIOUS
    <2>2. object \in Objects
      BY <1>2, <2>1
    <2>3. QED
      BY <2>1, <2>2 DEF Objects
  <1>4. Len(objects) \in Nat /\ DOMAIN objects = 1..Len(objects)
    BY <1>1
  <1>5. \A i, j \in DOMAIN objects : i < j => objects[i].time <= objects[j].time
    BY <1>1
  <1>6. \A i, j \in 1..Len(objects) : i < j => objects[i].time <= objects[j].time
    BY <1>4, <1>5
  <1>7. QED
    BY <1>3, <1>4, <1>6

\* The set of the spinners before an object has a last one when it is not empty.
LEMMA TheLastSpinner ==
  ASSUME NEW S, NEW i \in Nat, S \subseteq 1..(i - 1), NEW j \in S, \A k \in S : k <= j
  PROVE  Max(S) = j
  <1>1. \A k \in S : k \in Int
    OBVIOUS
  <1>2. j \in S /\ \A k \in S : j >= k
    BY <1>1
  <1>3. Max(S) \in S /\ \A k \in S : Max(S) >= k
    BY <1>2 DEF Max
  <1>4. PICK m : m = Max(S)
    OBVIOUS
  <1>5. m \in S /\ m >= j /\ j >= m
    BY <1>2, <1>3, <1>4
  <1>6. m \in Int /\ j \in Int
    BY <1>1, <1>5
  <1>7. QED
    BY <1>4, <1>5, <1>6

\* What is not excluded is a circle with a rhythm before it.
LEMMA WhatIsNotExcluded ==
  ASSUME SimTypeOK, NEW i \in DOMAIN objects, UsableForTiming(i)
  PROVE  /\ objects[i].kind = "circle"
         /\ i > 1 => /\ objects[i - 1].time # objects[i].time
                     /\ objects[i].time - objects[i - 1].end <= BREAK_MS
         /\ LET spins == {j \in 1..(i - 1) : objects[j].kind = "spinner"}
            IN spins # {} => ~(objects[i].time - objects[Max(spins)].end <= AFTER_SPINNER_MS)
         /\ ~(i < Len(objects) /\ Reason(i + 1) = "simultaneous_objects")
  <1>1. Reason(i) = None /\ ~(i < Len(objects) /\ Reason(i + 1) = "simultaneous_objects")
    <2>1. "simultaneous_objects" # None
      BY NoneAssumption DEF Reasons
    <2>2. QED
      BY <2>1 DEF UsableForTiming, Excluded
  <1>2. /\ i \in 1..Len(objects)
        /\ i > 1 => i - 1 \in 1..Len(objects)
        /\ objects[i].kind \in {"circle", "slider", "spinner"}
        /\ objects[i].time \in Int
        /\ i > 1 => objects[i - 1].end \in Int
    <2>1. /\ Len(objects) \in Nat /\ i \in 1..Len(objects)
          /\ \A j \in 1..Len(objects) :
               /\ objects[j].kind \in {"circle", "slider", "spinner"}
               /\ objects[j].time \in Int /\ objects[j].end \in Int
      BY TimesAreInOrder, Zenon
    <2>2. i > 1 => i - 1 \in 1..Len(objects)
      BY <2>1
    <2>3. QED
      BY <2>1, <2>2, Zenon
  <1> DEFINE spins == {j \in 1..(i - 1) : objects[j].kind = "spinner"}
             afterSpinner ==
               spins # {} /\ objects[i].time - objects[Max(spins)].end <= AFTER_SPINNER_MS
             afterBreak == i > 1 /\ objects[i].time - objects[i - 1].end > BREAK_MS
             together == i > 1 /\ objects[i - 1].time = objects[i].time
  <1>3. Reason(i) = IF objects[i].kind = "spinner" THEN "spinner"
                    ELSE IF objects[i].kind = "slider" THEN "slider_head"
                    ELSE IF together THEN "simultaneous_objects"
                    ELSE IF afterBreak THEN "after_break"
                    ELSE IF afterSpinner THEN "after_spinner" ELSE None
    BY DEF Reason
  <1> HIDE DEF spins, afterSpinner, afterBreak, together
  <1>4. objects[i].kind = "circle" /\ ~together /\ ~afterBreak /\ ~afterSpinner
    BY <1>1, <1>2, <1>3, NoneAssumption DEF Reasons
  <1>5. i > 1 => objects[i].time - objects[i - 1].end <= BREAK_MS
    BY <1>2, <1>4, NumbersAssumption DEF afterBreak
  <1>6. QED
    BY <1>1, <1>4, <1>5 DEF spins, afterSpinner, together

\* simulate(): for every beatmap, a timing error counts only where the player is
\* inside a rhythm and no neighbour has the same time, as far as the rows of
\* circles go.
THEOREM OnlyRhythmIsTimed == SimSpec => []TimedHitsAreRhythm
  <1>1. SimTypeOK => TimedHitsAreRhythm
    <2> SUFFICES ASSUME SimTypeOK, NEW i \in DOMAIN objects, UsableForTiming(i)
                 PROVE  /\ objects[i].kind = "circle"
                        /\ \A j \in 1..(i - 1) : objects[j].time # objects[i].time
                        /\ \A j \in (i + 1)..Len(objects) :
                             (\A k \in (i + 1)..j : objects[k].kind = "circle")
                               => objects[j].time # objects[i].time
                        /\ i > 1 => objects[i].time - objects[i - 1].end <= BREAK_MS
                        /\ \A j \in 1..(i - 1) :
                             /\ objects[j].kind = "spinner"
                             /\ \A k \in (j + 1)..(i - 1) : objects[k].kind # "spinner"
                             => objects[i].time - objects[j].end > AFTER_SPINNER_MS
      BY DEF TimedHitsAreRhythm
    <2> DEFINE n == Len(objects)
    <2>1. /\ n \in Nat /\ DOMAIN objects = 1..n
          /\ \A k \in 1..n : objects[k].time \in Int /\ objects[k].end \in Int
          /\ \A k, l \in 1..n : k < l => objects[k].time <= objects[l].time
      BY TimesAreInOrder, Zenon
    <2>2. /\ objects[i].kind = "circle"
          /\ i > 1 => /\ objects[i - 1].time # objects[i].time
                      /\ objects[i].time - objects[i - 1].end <= BREAK_MS
      BY WhatIsNotExcluded
    <2> HIDE DEF n
    <2>3. ASSUME NEW j \in 1..(i - 1) PROVE objects[j].time # objects[i].time
      <3>1. j \in 1..n /\ i \in 1..n /\ i - 1 \in 1..n /\ i > 1 /\ (j = i - 1 \/ j < i - 1)
        BY <2>1
      <3>2. /\ objects[j].time <= objects[i - 1].time /\ objects[i - 1].time <= objects[i].time
            /\ objects[j].time \in Int /\ objects[i - 1].time \in Int /\ objects[i].time \in Int
        BY <2>1, <3>1
      <3>3. QED
        BY <2>2, <3>1, <3>2
    <2>4. ASSUME NEW j \in (i + 1)..n, \A k \in (i + 1)..j : objects[k].kind = "circle",
                 objects[j].time = objects[i].time
          PROVE  FALSE
      <3>1. /\ j \in 1..n /\ i \in 1..n /\ i + 1 \in 1..n /\ i < n
            /\ (j = i + 1 \/ i + 1 < j) /\ i + 1 > 1 /\ i + 1 \in (i + 1)..j /\ (i + 1) - 1 = i
        BY <2>1
      <3>2. /\ objects[i].time <= objects[i + 1].time /\ objects[i + 1].time <= objects[j].time
            /\ objects[j].time \in Int /\ objects[i + 1].time \in Int /\ objects[i].time \in Int
        BY <2>1, <3>1
      <3>3. objects[i].time = objects[i + 1].time /\ objects[i + 1].kind = "circle"
        BY <2>4, <3>1, <3>2
      <3>4. Reason(i + 1) = "simultaneous_objects"
        BY <3>1, <3>3 DEF Reason
      <3>5. QED
        BY <3>1, <3>4, WhatIsNotExcluded DEF n
    <2>5. ASSUME NEW j \in 1..(i - 1), objects[j].kind = "spinner",
                 \A k \in (j + 1)..(i - 1) : objects[k].kind # "spinner"
          PROVE  objects[i].time - objects[j].end > AFTER_SPINNER_MS
      <3> DEFINE spins == {k \in 1..(i - 1) : objects[k].kind = "spinner"}
      <3>1. i \in Nat /\ j \in 1..n /\ i \in 1..n
        BY <2>1
      <3>2. j \in spins /\ spins \subseteq 1..(i - 1)
        BY <2>5
      <3>3. \A k \in spins : k <= j
        BY <2>5, <3>1
      <3>4. spins # {} => ~(objects[i].time - objects[Max(spins)].end <= AFTER_SPINNER_MS)
        BY WhatIsNotExcluded
      <3> HIDE DEF spins
      <3>5. Max(spins) = j
        BY <3>1, <3>2, <3>3, TheLastSpinner
      <3>6. ~(objects[i].time - objects[j].end <= AFTER_SPINNER_MS)
        BY <3>2, <3>4, <3>5
      <3>7. objects[i].time \in Int /\ objects[j].end \in Int
        BY <2>1, <3>1
      <3>8. QED
        BY <3>6, <3>7, NumbersAssumption
    <2>6. QED
      BY <2>2, <2>3, <2>4, <2>5 DEF n
  <1>2. QED
    BY <1>1, SimTypeCorrect, PTL

-----------------------------------------------------------------------------
\* The screen of validate.py.

LEMMA MaxOfOne == Max({0}) = 0
  <1>1. 0 \in {0} /\ \A y \in {0} : 0 >= y
    OBVIOUS
  <1>2. Max({0}) \in {0}
    BY <1>1 DEF Max
  <1>3. QED
    BY <1>2

LEMMA MaxOfTwo ==
  ASSUME NEW a \in Int, NEW b \in Int
  PROVE  /\ Max({a, b}) \in {a, b} /\ Max({a, b}) >= a /\ Max({a, b}) >= b
  <1>1. CASE a >= b
    <2>1. a \in {a, b} /\ \A y \in {a, b} : a >= y
      BY <1>1
    <2>2. Max({a, b}) \in {a, b} /\ \A y \in {a, b} : Max({a, b}) >= y
      BY <2>1 DEF Max
    <2>3. QED
      BY <2>2
  <1>2. CASE ~(a >= b)
    <2>1. b \in {a, b} /\ \A y \in {a, b} : b >= y
      BY <1>2
    <2>2. Max({a, b}) \in {a, b} /\ \A y \in {a, b} : Max({a, b}) >= y
      BY <2>1 DEF Max
    <2>3. QED
      BY <2>2
  <1>3. QED
    BY <1>1, <1>2

LEMMA AllowanceIsTwoAtLeast ==
  ASSUME SimTypeOK
  PROVE  Allowance \in Int /\ Allowance >= 2
  <1> DEFINE S == {i \in DOMAIN objects : objects[i].kind = "slider"}
             n == Cardinality(S)
  <1>1. n \in Nat
    <2>1. Len(objects) \in Nat /\ DOMAIN objects = 1..Len(objects)
      BY TimesAreInOrder
    <2>2. IsFiniteSet(DOMAIN objects)
      BY <2>1, FS_Interval
    <2>3. S \in SUBSET DOMAIN objects
      OBVIOUS
    <2> HIDE DEF S
    <2>4. QED
      BY <2>2, <2>3, FS_Subset, FS_CardinalityType
  <1>2. Allowance = Max({2, (15 * n + 99) \div 100})
    BY DEF Allowance
  <1> HIDE DEF n
  <1> DEFINE d == (15 * n + 99) \div 100
  <1>3. d \in Int
    BY <1>1
  <1> HIDE DEF d
  <1>4. Max({2, d}) \in {2, d} /\ Max({2, d}) >= 2
    BY <1>3, MaxOfTwo
  <1>5. QED
    BY <1>2, <1>3, <1>4 DEF d

\* Every circle missed is counted with the misses.
LEMMA MissedCirclesAreMisses ==
  ASSUME SimTypeOK
  PROVE  /\ Counts \in [1..4 -> Nat]
         /\ Cardinality(CirclesMissed) \in Nat
         /\ Cardinality(CirclesMissed) <= Counts[4]
  <1> DEFINE D == DOMAIN objects
             graded == {<<i, Grade(i)>> : i \in D}
             Graded(grade) == {g \in graded : g[2] = grade}
             pair == [i \in D |-> <<i, Grade(i)>>]
             miss == [i \in CirclesMissed |-> <<i, Grade(i)>>]
  <1>1. IsFiniteSet(D)
    <2>1. Len(objects) \in Nat /\ D = 1..Len(objects)
      BY TimesAreInOrder
    <2>2. QED
      BY <2>1, FS_Interval
  <1>2. IsFiniteSet(graded)
    <2>1. pair \in Surjection(D, graded)
      BY DEF Surjection
    <2> HIDE DEF D, graded, pair
    <2>2. QED
      BY <1>1, <2>1, FS_Surjection
  <1>3. ASSUME NEW grade
        PROVE  IsFiniteSet(Graded(grade)) /\ Cardinality(Graded(grade)) \in Nat
    <2>1. Graded(grade) \in SUBSET graded
      OBVIOUS
    <2> HIDE DEF graded, Graded
    <2>2. QED
      BY <1>2, <2>1, FS_Subset, FS_CardinalityType
  <1>4. Counts = <<Cardinality(Graded(300)), Cardinality(Graded(100)),
                   Cardinality(Graded(50)), Cardinality(Graded(0))>>
    BY DEF Counts
  <1>5. Cardinality(CirclesMissed) <= Cardinality(Graded(0))
    <2>1. miss \in Injection(CirclesMissed, Graded(0))
      BY DEF Injection, IsInjective, CirclesMissed
    <2> HIDE DEF miss, Graded
    <2>2. QED
      BY <1>3, <2>1, FS_Injection
  <1>6. Cardinality(CirclesMissed) \in Nat
    <2>1. CirclesMissed \in SUBSET D
      BY DEF CirclesMissed
    <2> HIDE DEF D
    <2>2. QED
      BY <1>1, <2>1, FS_Subset, FS_CardinalityType
  <1> HIDE DEF Graded
  <1>7. QED
    BY <1>3, <1>4, <1>5, <1>6

\* One object of grade g is one of grade h.
Moved(counts, g, h) == [counts EXCEPT ![g] = @ - 1, ![h] = @ + 1]
Apart(counts, other) == {Distance(counts[k], other[k]) : k \in DOMAIN counts}

LEMMA OneMovedTotal ==
  ASSUME NEW counts \in [1..4 -> Nat], NEW g \in 1..4, NEW h \in 1..4, g # h
  PROVE  /\ Total(Moved(counts, g, h)) = Total(counts)
         /\ Moved(counts, g, h)[Misses] \in Int
         /\ Apart(counts, Moved(counts, g, h)) = {0, 1}
  <1> DEFINE other == [counts EXCEPT ![g] = @ - 1, ![h] = @ + 1]
  <1>1. other[g] = counts[g] - 1 /\ other[h] = counts[h] + 1
    OBVIOUS
  <1>2. \A k \in 1..4 : k # g /\ k # h => other[k] = counts[k]
    OBVIOUS
  <1>3. \A k \in 1..4 : counts[k] \in Nat
    OBVIOUS
  <1>4. DOMAIN counts = 1..4
    OBVIOUS
  <1> HIDE DEF other
  <1>5. g = 1 \/ g = 2 \/ g = 3 \/ g = 4
    OBVIOUS
  <1>6. h = 1 \/ h = 2 \/ h = 3 \/ h = 4
    OBVIOUS
  <1>7. Total(other) = Total(counts) /\ other[Misses] \in Int
    <2>1. counts[1] \in Int /\ counts[2] \in Int /\ counts[3] \in Int /\ counts[4] \in Int
      BY <1>3
    <2>2. CASE g = 1
      BY <1>1, <1>2, <2>1, <2>2, <1>6 DEF Total, Misses
    <2>3. CASE g = 2
      BY <1>1, <1>2, <2>1, <2>3, <1>6 DEF Total, Misses
    <2>4. CASE g = 3
      BY <1>1, <1>2, <2>1, <2>4, <1>6 DEF Total, Misses
    <2>5. CASE g = 4
      BY <1>1, <1>2, <2>1, <2>5, <1>6 DEF Total, Misses
    <2>6. QED
      BY <1>5, <2>2, <2>3, <2>4, <2>5
  <1>8. {Distance(counts[k], other[k]) : k \in DOMAIN counts} = {0, 1}
    <2>1. Distance(counts[g], other[g]) = 1
      BY <1>1, <1>3 DEF Distance
    <2>2. \A k \in 1..4 : Distance(counts[k], other[k]) \in {0, 1}
      BY <1>1, <1>2, <1>3 DEF Distance
    <2>3. PICK k \in 1..4 : k # g /\ k # h
      BY <1>5, <1>6
    <2>4. Distance(counts[k], other[k]) = 0
      BY <1>2, <1>3, <2>3 DEF Distance
    <2>5. QED
      BY <1>4, <2>1, <2>2, <2>3, <2>4
  <1>9. QED
    BY <1>7, <1>8 DEF other, Moved, Apart

\* validate.py: for every beatmap and every recording, a simulation agrees
\* exactly with a header that has its own counts, and closely with one in which
\* a single object is graded otherwise, unless more circles are missed than that
\* header has misses.
THEOREM OwnCountsAreAccepted == SimSpec => []OwnCountsReproduce
  <1>1. SimTypeOK => OwnCountsReproduce
    <2> SUFFICES ASSUME SimTypeOK PROVE OwnCountsReproduce
      OBVIOUS
    <2>1. PICK counts : counts = Counts
      OBVIOUS
    <2>2. PICK missed : missed = Cardinality(CirclesMissed)
      OBVIOUS
    <2>3. counts \in [1..4 -> Nat] /\ missed \in Nat /\ missed <= counts[4]
      BY <2>1, <2>2, MissedCirclesAreMisses
    <2>4. DOMAIN counts = 1..4 /\ counts[Misses] \in Nat /\ ~(missed > counts[Misses])
      BY <2>3 DEF Misses
    <2>5. Agreement(counts, missed, counts) = "exact"
      <3>1. {Distance(counts[g], counts[g]) : g \in DOMAIN counts} = {0}
        BY <2>3 DEF Distance
      <3>2. QED
        BY <2>4, <3>1, MaxOfOne DEF Agreement
    <2>6. ASSUME NEW g \in DOMAIN counts, NEW h \in DOMAIN counts, g # h
          PROVE  LET other == [counts EXCEPT ![g] = @ - 1, ![h] = @ + 1]
                 IN Agreement(counts, missed, other)
                      = IF other[Misses] < missed THEN "mismatch" ELSE "close"
      <3> DEFINE other == Moved(counts, g, h)
      <3>1. /\ Total(other) = Total(counts)
            /\ other[Misses] \in Int
            /\ Apart(counts, other) = {0, 1}
        <4>1. g \in 1..4 /\ h \in 1..4
          BY <2>4
        <4>2. QED
          BY <2>3, <2>6, <4>1, OneMovedTotal
      <3> HIDE DEF other
      <3>2. Max({0, 1}) = 1
        <4>1. Max({0, 1}) \in {0, 1} /\ Max({0, 1}) >= 1
          BY MaxOfTwo
        <4>2. QED
          BY <4>1
      <3>3. Allowance \in Int /\ Allowance >= 2
        BY AllowanceIsTwoAtLeast
      <3>4. Agreement(counts, missed, other)
              = IF missed > other[Misses] THEN "mismatch" ELSE "close"
        BY <3>1, <3>2, <3>3 DEF Agreement, Apart
      <3>5. QED
        BY <2>3, <3>1, <3>4 DEF other, Moved
    <2>7. QED
      BY <2>1, <2>2, <2>5, <2>6 DEF OwnCountsReproduce
  <1>2. QED
    BY <1>1, SimTypeCorrect, PTL

-----------------------------------------------------------------------------
\* The breaks that are shown.

LEMMA HalfCollected ==
  ASSUME SimTypeOK, NEW i \in DOMAIN objects
  PROVE  Collected(i) < PartsTotal(i) <=>
             \E k \in 0..Len(objects[i].parts) : ~Tracking(i)[k]
  <1> DEFINE n == Len(objects[i].parts)
             C == {k \in 0..n : Tracking(i)[k]}
  <1>1. n \in Nat
    BY TrackingGoesOn
  <1>2. IsFiniteSet(0..n) /\ Cardinality(0..n) = n + 1
    BY <1>1, FS_Interval
  <1>3. C \subseteq 0..n
    OBVIOUS
  <1> HIDE DEF n, C
  <1>4. /\ IsFiniteSet(C) /\ Cardinality(C) <= n + 1
        /\ Cardinality(C) = n + 1 => C = 0..n
    BY <1>2, <1>3, FS_Subset
  <1>5. Cardinality(C) \in Nat
    BY <1>4, FS_CardinalityType
  <1>6. Cardinality(C) < n + 1 <=> C # 0..n
    BY <1>1, <1>2, <1>4, <1>5
  <1>7. C # 0..n <=> \E k \in 0..n : ~Tracking(i)[k]
    BY DEF C
  <1>8. QED
    BY <1>6, <1>7 DEF Collected, PartsTotal, C, n

\* An object broke the combo when one of its points was not collected, and what
\* was missed entirely is among them.
LEMMA BreaksAreMissing ==
  ASSUME SimTypeOK, NEW i \in DOMAIN objects
  PROVE  /\ Broke(i) <=> \E k \in DOMAIN PointsOf(i) : ~PointsOf(i)[k]
         /\ Broke(i) /\ Grade(i) # 0 => objects[i].kind = "slider"
  <1>1. CASE objects[i].kind = "spinner"
    <2>1. PointsOf(i) = <<TRUE>> /\ Grade(i) = 300
      BY <1>1 DEF PointsOf, Grade
    <2>2. ~Broke(i)
      BY <1>1, <2>1 DEF Broke, DroppedAPart
    <2>3. DOMAIN PointsOf(i) = {1} /\ PointsOf(i)[1] = TRUE
      BY <2>1
    <2>4. QED
      BY <2>2, <2>3, Zenon
  <1>2. CASE objects[i].kind = "slider"
    <2> DEFINE n == Len(objects[i].parts)
    <2>0. n \in Nat /\ PartsTotal(i) = n + 1
      BY TrackingGoesOn DEF PartsTotal
    <2>1. PointsOf(i) = [k \in 1..PartsTotal(i) |-> Tracking(i)[k - 1]]
      BY <1>2 DEF PointsOf
    <2>2. (\E k \in DOMAIN PointsOf(i) : ~PointsOf(i)[k]) <=> \E k \in 0..n : ~Tracking(i)[k]
      <3>1. ASSUME NEW k \in DOMAIN PointsOf(i), ~PointsOf(i)[k]
            PROVE  \E l \in 0..n : ~Tracking(i)[l]
        BY <2>0, <2>1, <3>1
      <3>2. ASSUME NEW l \in 0..n, ~Tracking(i)[l]
            PROVE  \E k \in DOMAIN PointsOf(i) : ~PointsOf(i)[k]
        <4>1. l + 1 \in DOMAIN PointsOf(i) /\ PointsOf(i)[l + 1] = Tracking(i)[(l + 1) - 1] /\ (l + 1) - 1 = l
          BY <2>0, <2>1
        <4>2. QED
          BY <3>2, <4>1
      <3>3. QED
        BY <3>1, <3>2
    <2>3. DroppedAPart(i) <=> \E k \in 0..n : ~Tracking(i)[k]
      BY <1>2, HalfCollected DEF DroppedAPart
    <2>4. Grade(i) = 0 => DroppedAPart(i)
      <3>1. Grade(i) = SliderGrade(Collected(i), n + 1)
        BY <1>2 DEF Grade
      <3>2. Grade(i) = 0 => Collected(i) = 0
        BY <3>1 DEF SliderGrade
      <3>3. QED
        BY <1>2, <2>0, <3>2 DEF DroppedAPart
    <2>5. QED
      BY <1>2, <2>2, <2>3, <2>4 DEF Broke
  <1>3. CASE objects[i].kind = "circle"
    <2>1. PointsOf(i) = <<heads[i] # None>>
      BY <1>3 DEF PointsOf
    <2>2. DOMAIN PointsOf(i) = {1} /\ PointsOf(i)[1] = (heads[i] # None)
      BY <2>1
    <2>3. Grade(i) = 0 <=> heads[i] = None
      BY <1>3 DEF Grade, CircleGrade
    <2>4. Broke(i) <=> Grade(i) = 0
      BY <1>3 DEF Broke, DroppedAPart
    <2>5. QED
      BY <2>2, <2>3, <2>4
  <1>4. objects[i].kind \in {"circle", "slider", "spinner"}
    <2>1. objects \in Seq(Objects)
      BY BeatmapsAreSequences DEF SimTypeOK
    <2>2. objects[i] \in Objects
      BY <2>1
    <2>3. QED
      BY <2>2 DEF Objects
  <1>5. QED
    BY <1>1, <1>2, <1>3, <1>4

\* For every beatmap and every recording the page shows as broken what the player
\* did not collect, when its longest combo is the one the game recorded; and
\* claims no slider drop when it is not.
THEOREM OnlyMissedPointsAreShown == SimSpec => []ShownBreaksAreMissedPoints
  <1>1. ASSUME SimTypeOK PROVE ShownBreaksAreMissedPoints
    <2> SUFFICES ASSUME NEW reported
                 PROVE  IF ComboAgrees(reported)
                        THEN /\ ShownBreaks(reported) = Missing
                             /\ Sliderbreaks(reported) = Cardinality({i \in Missing : Grade(i) # 0})
                        ELSE /\ ShownBreaks(reported) \subseteq {i \in Missing : Grade(i) = 0}
                             /\ Sliderbreaks(reported) = 0
      BY DEF ShownBreaksAreMissedPoints
    <2>1. \A i \in DOMAIN objects :
             /\ i \in Missing <=> Broke(i)
             /\ Broke(i) /\ Grade(i) # 0 => objects[i].kind = "slider"
      BY <1>1, BreaksAreMissing DEF Missing
    <2>2. \A i \in DOMAIN objects : Grade(i) = 0 => Broke(i)
      BY DEF Broke
    <2>3. Missing \subseteq DOMAIN objects
      BY DEF Missing
    <2>4. CASE ComboAgrees(reported)
      <3>1. ShownBreaks(reported) = Missing
        BY <2>1, <2>3, <2>4 DEF ShownBreaks, Failed
      <3>2. {i \in DOMAIN objects : Failed(i) /\ IsSliderbreak(i)} = {i \in Missing : Grade(i) # 0}
        BY <2>1, <2>3 DEF Failed, IsSliderbreak
      <3>3. QED
        BY <2>4, <3>1, <3>2 DEF Sliderbreaks
    <2>5. CASE ~ComboAgrees(reported)
      BY <2>1, <2>2, <2>5 DEF ShownBreaks, Sliderbreaks
    <2>6. QED
      BY <2>4, <2>5
  <1>2. QED
    BY <1>1, SimTypeCorrect, PTL

-----------------------------------------------------------------------------
\* The longest combo.

\* A set of numbers with a bound has a highest.
LEMMA ABoundedSetHasAMax ==
  ASSUME NEW k \in Nat, NEW T, T \subseteq 0..k, T # {}
  PROVE  /\ Max(T) \in T
         /\ \A y \in T : y <= Max(T)
  <1> DEFINE U == {k - t : t \in T}
  <1>1. \A t \in T : t \in Int /\ k - t \in Nat /\ k - t \in U
    OBVIOUS
  <1>2. \A v \in U : v \in Nat /\ \E t \in T : v = k - t
    BY <1>1
  <1>3. U \in SUBSET Nat /\ U # {}
    BY <1>1, <1>2
  <1> HIDE DEF U
  <1>4. PICK u \in U : \A v \in U : u <= v
    BY <1>3, LeastNatural
  <1>5. PICK x \in T : u = k - x
    BY <1>2
  <1>6. \A y \in T : x >= y
    BY <1>1, <1>4, <1>5
  <1>7. Max(T) \in T /\ \A y \in T : Max(T) >= y
    BY <1>6 DEF Max
  <1>8. QED
    BY <1>1, <1>7

\* An object has as many points as it adds to the combo, one at least, and none of
\* them was collected when it was missed entirely.
LEMMA PointsOfAnObject ==
  ASSUME SimTypeOK, NEW i \in DOMAIN objects
  PROVE  /\ ComboValue(i) \in Nat /\ ComboValue(i) >= 1
         /\ DOMAIN PointsOf(i) = 1..ComboValue(i)
         /\ Grade(i) = 0 => \A k \in DOMAIN PointsOf(i) : ~PointsOf(i)[k]
  <1>1. CASE objects[i].kind = "spinner"
    <2>1. PointsOf(i) = <<TRUE>> /\ Grade(i) = 300 /\ ComboValue(i) = 1
      BY <1>1 DEF PointsOf, Grade, ComboValue
    <2>2. DOMAIN PointsOf(i) = 1..1
      BY <2>1
    <2>3. QED
      BY <2>1, <2>2
  <1>2. CASE objects[i].kind = "slider"
    <2> DEFINE n == Len(objects[i].parts)
               C == {k \in 0..n : Tracking(i)[k]}
    <2>1. n \in Nat /\ PartsTotal(i) = n + 1 /\ ComboValue(i) = n + 1
      BY <1>2, TrackingGoesOn DEF PartsTotal, ComboValue
    <2>2. PointsOf(i) = [k \in 1..(n + 1) |-> Tracking(i)[k - 1]]
      BY <1>2, <2>1 DEF PointsOf
    <2>3. ASSUME Grade(i) = 0, NEW k \in 1..(n + 1) PROVE ~Tracking(i)[k - 1]
      <3>1. Grade(i) = SliderGrade(Cardinality(C), n + 1)
        BY <1>2 DEF Grade, Collected
      <3>2. C \subseteq 0..n
        OBVIOUS
      <3> HIDE DEF C
      <3>3. Cardinality(C) = 0
        BY <2>3, <3>1 DEF SliderGrade
      <3>4. IsFiniteSet(0..n)
        BY <2>1, FS_Interval
      <3>5. IsFiniteSet(C)
        BY <3>2, <3>4, FS_Subset
      <3>6. C = {}
        BY <3>3, <3>5, FS_EmptySet
      <3>7. k - 1 \in 0..n
        BY <2>1
      <3>8. QED
        BY <3>6, <3>7 DEF C
    <2> HIDE DEF n
    <2>4. DOMAIN PointsOf(i) = 1..ComboValue(i)
      BY <2>1, <2>2
    <2>5. Grade(i) = 0 => \A k \in DOMAIN PointsOf(i) : ~PointsOf(i)[k]
      BY <2>1, <2>2, <2>3
    <2>6. QED
      BY <2>1, <2>4, <2>5
  <1>3. CASE objects[i].kind = "circle"
    <2>1. PointsOf(i) = <<heads[i] # None>> /\ ComboValue(i) = 1
      BY <1>3 DEF PointsOf, ComboValue
    <2>2. DOMAIN PointsOf(i) = 1..1 /\ PointsOf(i)[1] = (heads[i] # None)
      BY <2>1
    <2>3. Grade(i) = 0 => heads[i] = None
      BY <1>3 DEF Grade, CircleGrade
    <2>4. \A k \in 1..1 : k = 1
      OBVIOUS
    <2>5. Grade(i) = 0 => \A k \in DOMAIN PointsOf(i) : ~PointsOf(i)[k]
      BY <2>2, <2>3, <2>4, Zenon
    <2>6. QED
      BY <2>1, <2>2, <2>5
  <1>4. objects[i].kind \in {"circle", "slider", "spinner"}
    BY TimesAreInOrder
  <1>5. QED
    BY <1>1, <1>2, <1>3, <1>4

\* The combo goes up by what the object adds, and back to zero at a break.
LEMMA CombosGoOn ==
  ASSUME SimTypeOK
  PROVE  /\ Combos \in [0..Len(objects) -> Nat]
         /\ Combos[0] = 0
         /\ \A i \in 1..Len(objects) :
              Combos[i] = IF Broke(i) THEN 0 ELSE Combos[i - 1] + ComboValue(i)
  <1> DEFINE n == Len(objects)
             body(g) == [i \in 0..n |-> IF i = 0 \/ Broke(i) THEN 0 ELSE g[i - 1] + ComboValue(i)]
             step == [i \in 1..n |-> [c \in Nat |-> IF Broke(i) THEN 0 ELSE c + ComboValue(i)]]
  <1>1. n \in Nat /\ DOMAIN objects = 1..n
    BY TimesAreInOrder
  <1>2. Combos = CHOOSE g : g = body(g)
    BY DEF Combos
  <1>3. step \in StepsUp(n, Nat)
    <2>1. \A i \in 1..n : ComboValue(i) \in Nat
      BY <1>1, PointsOfAnObject
    <2> HIDE DEF n
    <2>2. QED
      BY <2>1 DEF StepsUp
  <1> HIDE DEF n
  <1>4. PICK g \in Rows(n, Nat) : Goes(g, n, 0, step)
    <2> HIDE DEF step
    <2>1. QED
      BY <1>1, <1>3, ARowIsFollowed
  <1>5. \A i \in 1..n : g[i] = IF Broke(i) THEN 0 ELSE g[i - 1] + ComboValue(i)
    <2> SUFFICES ASSUME NEW i \in 1..n
                 PROVE  g[i] = IF Broke(i) THEN 0 ELSE g[i - 1] + ComboValue(i)
      OBVIOUS
    <2>1. i - 1 \in 0..n
      BY <1>1
    <2>2. g[i - 1] \in Nat
      BY <1>4, <2>1 DEF Rows
    <2>3. QED
      BY <1>4, <2>2 DEF Goes
  <1>6. g = body(g)
    <2>1. \A i \in 0..n : i = 0 \/ (i \in 1..n /\ i # 0)
      BY <1>1
    <2>2. g[0] = 0
      BY <1>4 DEF Goes
    <2>3. \A i \in 0..n : g[i] = body(g)[i]
      BY <1>5, <2>1, <2>2
    <2>4. QED
      BY <1>4, <2>3 DEF Rows
  <1>7. Combos = body(Combos)
    BY <1>2, <1>6
  <1> DEFINE t == Combos
  <1> HIDE DEF t
  <1>8. t = [i \in 0..n |-> IF i = 0 \/ Broke(i) THEN 0 ELSE t[i - 1] + ComboValue(i)]
    BY <1>7 DEF t
  <1>9. \A i \in 1..n : i \in 0..n /\ i # 0
    BY <1>1
  <1>10. t[0] = 0 /\ \A i \in 1..n : t[i] = IF Broke(i) THEN 0 ELSE t[i - 1] + ComboValue(i)
    BY <1>1, <1>8, <1>9
  <1>11. \A i \in 0..n : t[i] \in Nat
    <2> DEFINE Bad == {i \in 0..n : t[i] \notin Nat}
    <2>1. SUFFICES ASSUME Bad # {} PROVE FALSE
      OBVIOUS
    <2>2. Bad \in SUBSET Nat
      OBVIOUS
    <2> HIDE DEF Bad
    <2>3. PICK m \in Bad : \A l \in Bad : m <= l
      BY <2>1, <2>2, LeastNatural
    <2>4. m \in 0..n /\ t[m] \notin Nat
      BY <2>3 DEF Bad
    <2>5. m # 0
      BY <1>10, <2>4
    <2>6. m \in 1..n /\ m - 1 \in 0..n /\ m - 1 \notin Bad
      BY <1>1, <2>2, <2>3, <2>4, <2>5
    <2>7. t[m - 1] \in Nat /\ ComboValue(m) \in Nat
      BY <1>1, <2>6, PointsOfAnObject DEF Bad
    <2>8. QED
      BY <1>10, <2>4, <2>6, <2>7
  <1>12. t \in [0..n -> Nat]
    BY <1>8, <1>11
  <1>13. QED
    BY <1>10, <1>12 DEF t, n

\* The points of the objects after s, up to j.
PointsIn(s, j) == {p \in Points : s < p[1] /\ p[1] <= j}

OwnPoints(i) == {<<i, k>> : k \in 1..ComboValue(i)}

LEMMA OwnPointsAreCounted ==
  ASSUME NEW i, ComboValue(i) \in Nat
  PROVE  IsFiniteSet(OwnPoints(i)) /\ Cardinality(OwnPoints(i)) = ComboValue(i)
  <1> DEFINE n == ComboValue(i)
             f == [k \in 1..n |-> <<i, k>>]
  <1>1. n \in Nat /\ IsFiniteSet(1..n) /\ Cardinality(1..n) = n
    BY FS_Interval
  <1>2. OwnPoints(i) = {<<i, k>> : k \in 1..n}
    BY DEF OwnPoints
  <1> HIDE DEF n
  <1>3. f \in [1..n -> OwnPoints(i)]
    BY <1>2
  <1>4. \A k, l \in 1..n : f[k] = f[l] => k = l
    OBVIOUS
  <1>5. \A p \in OwnPoints(i) : \E k \in 1..n : f[k] = p
    BY <1>2
  <1> HIDE DEF f
  <1>6. f \in Bijection(1..n, OwnPoints(i))
    BY <1>3, <1>4, <1>5 DEF Bijection, Injection, IsInjective, Surjection
  <1>7. ExistsBijection(1..n, OwnPoints(i))
    BY <1>6 DEF ExistsBijection
  <1>8. QED
    BY <1>1, <1>7, FS_Bijection DEF n

LEMMA PointsArePairs ==
  ASSUME SimTypeOK
  PROVE  /\ \A i \in 1..Len(objects) : \A k \in 1..ComboValue(i) : <<i, k>> \in Points
         /\ \A p \in Points : /\ p[1] \in 1..Len(objects) /\ p[2] \in 1..ComboValue(p[1])
                              /\ p = <<p[1], p[2]>>
  <1>1. DOMAIN objects = 1..Len(objects)
    BY TimesAreInOrder
  <1>2. \A i \in 1..Len(objects) : DOMAIN PointsOf(i) = 1..ComboValue(i)
    BY <1>1, PointsOfAnObject
  <1>3. ASSUME NEW i \in 1..Len(objects), NEW k \in 1..ComboValue(i) PROVE <<i, k>> \in Points
    <2>1. i \in DOMAIN objects /\ k \in DOMAIN PointsOf(i)
      BY <1>1, <1>2
    <2>2. <<i, k>> \in {<<i, l>> : l \in DOMAIN PointsOf(i)}
      BY <2>1
    <2>3. QED
      BY <2>1, <2>2 DEF Points
  <1>4. ASSUME NEW p \in Points
        PROVE  p[1] \in 1..Len(objects) /\ p[2] \in 1..ComboValue(p[1]) /\ p = <<p[1], p[2]>>
    <2>1. PICK i \in 1..Len(objects) : p \in {<<i, k>> : k \in DOMAIN PointsOf(i)}
      BY <1>1 DEF Points
    <2>2. PICK k \in 1..ComboValue(i) : p = <<i, k>>
      BY <1>2, <2>1
    <2>3. p[1] = i /\ p[2] = k
      BY <2>2
    <2>4. QED
      BY <2>2, <2>3
  <1>5. QED
    BY <1>3, <1>4

LEMMA NoPoints ==
  ASSUME SimTypeOK, NEW j \in 0..Len(objects)
  PROVE  PointsIn(j, j) = {} /\ IsFiniteSet(PointsIn(j, j)) /\ Cardinality(PointsIn(j, j)) = 0
  <1>1. \A p \in Points : p[1] \in Int
    BY PointsArePairs
  <1>2. Len(objects) \in Nat
    BY TimesAreInOrder
  <1>3. PointsIn(j, j) = {}
    BY <1>1, <1>2 DEF PointsIn
  <1>4. QED
    BY <1>3, FS_EmptySet

\* One more object brings its own points.
LEMMA OneMoreObject ==
  ASSUME SimTypeOK, NEW j \in 1..Len(objects), NEW s \in 0..(j - 1),
         IsFiniteSet(PointsIn(s, j - 1))
  PROVE  /\ IsFiniteSet(PointsIn(s, j))
         /\ Cardinality(PointsIn(s, j)) = Cardinality(PointsIn(s, j - 1)) + ComboValue(j)
  <1>1. Len(objects) \in Nat /\ DOMAIN objects = 1..Len(objects)
    BY TimesAreInOrder
  <1>2. ComboValue(j) \in Nat
    BY <1>1, PointsOfAnObject
  <1>3. IsFiniteSet(OwnPoints(j)) /\ Cardinality(OwnPoints(j)) = ComboValue(j)
    BY <1>2, OwnPointsAreCounted
  <1>4. \A p \in OwnPoints(j) : p \in Points /\ p[1] = j
    BY PointsArePairs DEF OwnPoints
  <1>5. \A p \in Points : p[1] \in Int /\ (p[1] = j => p \in OwnPoints(j))
    <2>1. ASSUME NEW p \in Points PROVE p[1] \in Int /\ (p[1] = j => p \in OwnPoints(j))
      <3>1. p[1] \in 1..Len(objects) /\ p[2] \in 1..ComboValue(p[1]) /\ p = <<p[1], p[2]>>
        BY <2>1, PointsArePairs
      <3>2. p[1] = j => p = <<j, p[2]>> /\ p[2] \in 1..ComboValue(j)
        BY <3>1
      <3>3. QED
        BY <1>1, <3>1, <3>2 DEF OwnPoints
    <2>2. QED
      BY <2>1
  <1>6. PointsIn(s, j) = PointsIn(s, j - 1) \union OwnPoints(j)
    BY <1>1, <1>4, <1>5 DEF PointsIn
  <1>7. PointsIn(s, j - 1) \intersect OwnPoints(j) = {}
    BY <1>1, <1>4 DEF PointsIn
  <1>8. Cardinality(PointsIn(s, j - 1)) \in Nat
    BY FS_CardinalityType
  <1>9. /\ IsFiniteSet(PointsIn(s, j))
        /\ Cardinality(PointsIn(s, j)) = Cardinality(PointsIn(s, j - 1)) + ComboValue(j) - Cardinality({})
    BY <1>3, <1>6, <1>7, FS_Union
  <1>10. QED
    BY <1>2, <1>8, <1>9, FS_EmptySet

LEMMA ThePointsAreFinite ==
  ASSUME SimTypeOK
  PROVE  IsFiniteSet(Points)
  <1> DEFINE n == Len(objects)
             Bad == {j \in 0..n : ~IsFiniteSet(PointsIn(0, j))}
  <1>1. n \in Nat
    BY TimesAreInOrder
  <1>2. Bad = {}
    <2>1. SUFFICES ASSUME Bad # {} PROVE FALSE
      OBVIOUS
    <2>2. Bad \in SUBSET Nat
      BY <1>1
    <2> HIDE DEF Bad
    <2>3. PICK m \in Bad : \A l \in Bad : m <= l
      BY <2>1, <2>2, LeastNatural
    <2>4. m \in 0..n /\ ~IsFiniteSet(PointsIn(0, m))
      BY <2>3 DEF Bad
    <2>5. m # 0
      BY <1>1, <2>4, NoPoints
    <2>6. m \in 1..n /\ m - 1 \in 0..n /\ m - 1 \notin Bad /\ 0 \in 0..(m - 1)
      BY <1>1, <2>2, <2>3, <2>4, <2>5
    <2>7. IsFiniteSet(PointsIn(0, m - 1))
      BY <2>6 DEF Bad
    <2>8. QED
      BY <2>4, <2>6, <2>7, OneMoreObject
  <1>3. IsFiniteSet(PointsIn(0, n))
    BY <1>1, <1>2
  <1>4. Points = PointsIn(0, n)
    BY <1>1, PointsArePairs DEF PointsIn
  <1>5. QED
    BY <1>3, <1>4

\* The combo after an object is the number of the points since the last break.
LEMMA TheComboIsCounted ==
  ASSUME SimTypeOK, NEW j \in 0..Len(objects)
  PROVE  \E s \in 0..j :
           /\ s = 0 \/ Broke(s)
           /\ \A i \in (s + 1)..j : ~Broke(i)
           /\ IsFiniteSet(PointsIn(s, j)) /\ Cardinality(PointsIn(s, j)) = Combos[j]
  <1> DEFINE n == Len(objects)
             Counted(s, l) == /\ s = 0 \/ Broke(s)
                              /\ \A i \in (s + 1)..l : ~Broke(i)
                              /\ IsFiniteSet(PointsIn(s, l)) /\ Cardinality(PointsIn(s, l)) = Combos[l]
             Bad == {l \in 0..n : ~\E s \in 0..l : Counted(s, l)}
  <1>1. n \in Nat
    BY TimesAreInOrder
  <1>2. SUFFICES ASSUME Bad # {} PROVE FALSE
    OBVIOUS
  <1>3. Bad \in SUBSET Nat
    BY <1>1
  <1> HIDE DEF Bad
  <1>4. PICK m \in Bad : \A l \in Bad : m <= l
    BY <1>2, <1>3, LeastNatural
  <1>5. m \in 0..n /\ m \in Nat /\ \A s \in 0..m : ~Counted(s, m)
    BY <1>1, <1>4 DEF Bad
  <1>6. IsFiniteSet(PointsIn(m, m)) /\ Cardinality(PointsIn(m, m)) = 0
    BY <1>5, NoPoints
  <1>7. m \in 0..m /\ \A i \in (m + 1)..m : FALSE
    BY <1>5
  <1>8. m # 0
    <2>1. Combos[0] = 0
      BY CombosGoOn
    <2>2. QED
      BY <1>5, <1>6, <1>7, <2>1
  <1>9. m \in 1..n /\ m - 1 \in 0..n /\ m - 1 \notin Bad
    BY <1>1, <1>3, <1>4, <1>5, <1>8
  <1>10. Combos[m] = (IF Broke(m) THEN 0 ELSE Combos[m - 1] + ComboValue(m)) /\ Combos[m - 1] \in Nat
    BY <1>9, CombosGoOn
  <1>11. ~Broke(m)
    BY <1>5, <1>6, <1>7, <1>10
  <1>12. PICK s \in 0..(m - 1) : Counted(s, m - 1)
    BY <1>9 DEF Bad
  <1>13. /\ IsFiniteSet(PointsIn(s, m))
         /\ Cardinality(PointsIn(s, m)) = Cardinality(PointsIn(s, m - 1)) + ComboValue(m)
    BY <1>9, <1>12, OneMoreObject
  <1>14. s \in 0..m /\ \A i \in (s + 1)..m : i = m \/ i \in (s + 1)..(m - 1)
    BY <1>9, <1>12
  <1>15. Counted(s, m)
    BY <1>10, <1>11, <1>12, <1>13, <1>14
  <1>16. QED
    BY <1>5, <1>14, <1>15

\* The longest combo is the combo after some object, and no less than the combo
\* that any break put to an end or that stands at the end of the play.
LEMMA TheLongestCombo ==
  ASSUME SimTypeOK
  PROVE  /\ \E j \in 0..Len(objects) : MaxCombo = Combos[j]
         /\ MaxCombo \in Nat
         /\ \A j \in 0..Len(objects) :
              j = Len(objects) \/ Broke(j + 1) => Combos[j] <= MaxCombo
  <1> DEFINE n == Len(objects)
             T == {Combos[n]} \union {ComboLost(i) : i \in DOMAIN objects}
  <1>1. n \in Nat /\ DOMAIN objects = 1..n
    BY TimesAreInOrder
  <1>2. Combos \in [0..n -> Nat] /\ Combos[0] = 0
    BY CombosGoOn
  <1>3. \A i \in 1..n : i - 1 \in 0..n /\ ComboLost(i) \in {Combos[i - 1], Combos[0]}
    BY <1>1, <1>2 DEF ComboLost
  <1>4. 0 \in 0..n /\ n \in 0..n
    BY <1>1
  <1>5. \A t \in T : \E j \in 0..n : t = Combos[j]
    BY <1>1, <1>3, <1>4
  <1>6. Combos[n] \in T /\ \A i \in DOMAIN objects : ComboLost(i) \in T
    OBVIOUS
  <1>7. T # {} /\ MaxCombo = Max(T)
    BY DEF MaxCombo
  <1> HIDE DEF n, T
  <1>8. \A j \in 0..n : j = n \/ Broke(j + 1) => Combos[j] \in T
    <2>1. ASSUME NEW j \in 0..n, j # n, Broke(j + 1) PROVE Combos[j] \in T
      <3>1. j + 1 \in 1..n /\ (j + 1) - 1 = j
        BY <1>1, <2>1
      <3>2. ComboLost(j + 1) = Combos[j]
        BY <2>1, <3>1 DEF ComboLost
      <3>3. ComboLost(j + 1) \in T
        BY <1>1, <1>6, <3>1
      <3>4. QED
        BY <3>2, <3>3
    <2>2. QED
      BY <1>6, <2>1
  <1>9. T \subseteq 0..Cardinality(Points) /\ Cardinality(Points) \in Nat
    <2>1. IsFiniteSet(Points) /\ Cardinality(Points) \in Nat
      BY ThePointsAreFinite, FS_CardinalityType
    <2>2. ASSUME NEW j \in 0..n PROVE Combos[j] \in 0..Cardinality(Points)
      <3>1. PICK s \in 0..j : Cardinality(PointsIn(s, j)) = Combos[j]
        BY TheComboIsCounted DEF n
      <3>2. PointsIn(s, j) \in SUBSET Points
        BY DEF PointsIn
      <3>3. Cardinality(PointsIn(s, j)) <= Cardinality(Points)
        BY <2>1, <3>2, FS_Subset
      <3>4. Combos[j] \in Nat
        BY <1>2
      <3>5. QED
        BY <2>1, <3>1, <3>3, <3>4
    <2>3. QED
      BY <1>5, <2>1, <2>2
  <1>10. Max(T) \in T /\ \A y \in T : y <= Max(T)
    BY <1>7, <1>9, ABoundedSetHasAMax
  <1>11. MaxCombo \in Nat /\ \E j \in 0..n : MaxCombo = Combos[j]
    <2> DEFINE best == Max(T)
    <2>1. best \in T /\ MaxCombo = best
      BY <1>7, <1>10
    <2> HIDE DEF best
    <2>2. best \in Nat
      BY <1>9, <2>1
    <2>3. PICK j \in 0..n : best = Combos[j]
      BY <1>5, <2>1
    <2>4. QED
      BY <2>1, <2>2, <2>3
  <1>12. \A j \in 0..n : j = n \/ Broke(j + 1) => Combos[j] <= MaxCombo
    BY <1>7, <1>8, <1>10
  <1>13. QED
    BY <1>11, <1>12, Zenon DEF n

\* A stretch of points has no more than there are.
LEMMA TheLongestRun ==
  ASSUME SimTypeOK
  PROVE  /\ LongestRun \in Nat
         /\ LongestRun = 0 \/ \E run \in Runs : LongestRun = Cardinality(run)
         /\ \A run \in Runs : Cardinality(run) <= LongestRun
  <1> DEFINE T == {0} \union {Cardinality(run) : run \in Runs}
  <1>1. IsFiniteSet(Points) /\ Cardinality(Points) \in Nat
    BY ThePointsAreFinite, FS_CardinalityType
  <1>2. ASSUME NEW run \in Runs PROVE Cardinality(run) \in 0..Cardinality(Points)
    <2>1. run \in SUBSET Points
      BY DEF Runs, Between
    <2>2. IsFiniteSet(run) /\ Cardinality(run) <= Cardinality(Points)
      BY <1>1, <2>1, FS_Subset
    <2>3. Cardinality(run) \in Nat
      BY <2>2, FS_CardinalityType
    <2>4. QED
      BY <1>1, <2>2, <2>3
  <1>3. T \subseteq 0..Cardinality(Points) /\ T # {}
    BY <1>1, <1>2
  <1>4. LongestRun = Max(T)
    BY DEF LongestRun
  <1>5. \A t \in T : t = 0 \/ \E run \in Runs : t = Cardinality(run)
    OBVIOUS
  <1>6. \A run \in Runs : Cardinality(run) \in T
    OBVIOUS
  <1> HIDE DEF T
  <1>7. Max(T) \in T /\ \A y \in T : y <= Max(T)
    BY <1>1, <1>3, ABoundedSetHasAMax
  <1>8. LongestRun \in Nat /\ (LongestRun = 0 \/ \E run \in Runs : LongestRun = Cardinality(run))
    <2> DEFINE longest == Max(T)
    <2>1. longest \in T /\ LongestRun = longest
      BY <1>4, <1>7
    <2> HIDE DEF longest
    <2>2. longest \in Nat
      BY <1>1, <1>3, <2>1
    <2>3. longest = 0 \/ \E run \in Runs : longest = Cardinality(run)
      BY <1>5, <2>1
    <2>4. QED
      BY <2>1, <2>2, <2>3
  <1>9. \A run \in Runs : Cardinality(run) <= LongestRun
    BY <1>4, <1>6, <1>7
  <1>10. QED
    BY <1>8, <1>9

\* What the combo counts up to an object is a stretch without a dropped point.
LEMMA TheComboIsARun ==
  ASSUME SimTypeOK, NEW j \in 0..Len(objects)
  PROVE  Combos[j] = 0 \/ \E run \in Runs : Cardinality(run) = Combos[j]
  <1>1. Len(objects) \in Nat /\ DOMAIN objects = 1..Len(objects)
    BY TimesAreInOrder
  <1>2. PICK s \in 0..j : /\ \A i \in (s + 1)..j : ~Broke(i)
                          /\ Cardinality(PointsIn(s, j)) = Combos[j]
    BY TheComboIsCounted
  <1>3. CASE s = j
    BY <1>2, <1>3, NoPoints
  <1>4. CASE s # j
    <2> DEFINE p == <<s + 1, 1>>
               q == <<j, ComboValue(j)>>
    <2>1. s + 1 \in 1..Len(objects) /\ j \in 1..Len(objects) /\ s + 1 <= j
      BY <1>1, <1>2, <1>4
    <2>2. 1 \in 1..ComboValue(s + 1) /\ ComboValue(j) \in 1..ComboValue(j)
      BY <1>1, <2>1, PointsOfAnObject
    <2>3. p \in Points /\ q \in Points
      BY <2>1, <2>2, PointsArePairs
    <2>4. ASSUME NEW r \in Points
          PROVE  s < r[1] /\ r[1] <= j <=> NotAfter(p, r) /\ NotAfter(r, q)
      <3>1. r[1] \in 1..Len(objects) /\ r[2] \in 1..ComboValue(r[1])
        BY <2>4, PointsArePairs
      <3>2. ComboValue(r[1]) \in Nat
        BY <1>1, <3>1, PointsOfAnObject
      <3>3. r[1] \in Int /\ r[2] \in Int /\ 1 <= r[2] /\ (r[1] = j => r[2] <= ComboValue(j))
        BY <3>1, <3>2
      <3>4. QED
        BY <1>1, <2>1, <3>3 DEF NotAfter
    <2>5. PointsIn(s, j) = Between(p, q)
      BY <2>4 DEF PointsIn, Between
    <2>6. ASSUME NEW r \in PointsIn(s, j) PROVE PointsOf(r[1])[r[2]]
      <3>1. r[1] \in 1..Len(objects) /\ r[2] \in 1..ComboValue(r[1]) /\ s < r[1] /\ r[1] <= j
        BY <2>6, PointsArePairs DEF PointsIn
      <3>2. r[1] \in (s + 1)..j
        BY <1>1, <3>1
      <3>3. ~Broke(r[1]) /\ r[1] \in DOMAIN objects /\ r[2] \in DOMAIN PointsOf(r[1])
        BY <1>1, <1>2, <3>1, <3>2, PointsOfAnObject
      <3>4. QED
        BY <3>3, BreaksAreMissing
    <2>7. PointsIn(s, j) \in {Between(a, b) : a, b \in Points}
      BY <2>3, <2>5
    <2> HIDE DEF p, q
    <2>8. PointsIn(s, j) \in Runs
      BY <2>6, <2>7 DEF Runs
    <2>9. QED
      BY <1>2, <2>8
  <1>5. QED
    BY <1>3, <1>4

\* When no slider was dropped half-way a stretch lies between two breaks.
LEMMA ARunIsInACombo ==
  ASSUME SimTypeOK, \A i \in Missing : Grade(i) = 0, NEW run \in Runs
  PROVE  Cardinality(run) <= MaxCombo
  <1> DEFINE n == Len(objects)
  <1>1. n \in Nat /\ DOMAIN objects = 1..n
    BY TimesAreInOrder
  <1>2. PICK p \in Points, q \in Points :
          run = Between(p, q) /\ \A r \in run : PointsOf(r[1])[r[2]]
    BY DEF Runs
  <1>3. /\ p[1] \in 1..n /\ p[2] \in 1..ComboValue(p[1])
        /\ q[1] \in 1..n /\ q[2] \in 1..ComboValue(q[1])
    BY PointsArePairs
  <1>4. ComboValue(p[1]) \in Nat /\ ComboValue(q[1]) \in Nat
    BY <1>1, <1>3, PointsOfAnObject
  <1>5. /\ p[1] \in Int /\ p[2] \in Int /\ q[1] \in Int /\ q[2] \in Int
        /\ 1 <= p[2] /\ p[2] <= ComboValue(p[1]) /\ 1 <= q[2]
    BY <1>3, <1>4
  <1> HIDE DEF n
  <1>6. CASE run = {}
    BY <1>6, FS_EmptySet, TheLongestCombo
  <1>7. CASE run # {}
    <2>1. PICK m \in run : TRUE
      BY <1>7
    <2>2. m \in Points /\ NotAfter(p, m) /\ NotAfter(m, q)
      BY <1>2, <2>1 DEF Between
    <2>3. m[1] \in 1..n /\ m[2] \in 1..ComboValue(m[1]) /\ ComboValue(m[1]) \in Nat
      <3>1. m[1] \in 1..n /\ m[2] \in 1..ComboValue(m[1])
        BY <2>2, PointsArePairs DEF n
      <3>2. QED
        BY <1>1, <3>1, PointsOfAnObject
    <2>4. NotAfter(p, q)
      BY <1>1, <1>5, <2>2, <2>3 DEF NotAfter
    <2>5. ASSUME NEW i \in p[1]..q[1] PROVE ~Broke(i)
      <3>1. i \in 1..n /\ i \in DOMAIN objects
        BY <1>1, <1>3
      <3>2. ComboValue(i) \in Nat /\ ComboValue(i) >= 1 /\ DOMAIN PointsOf(i) = 1..ComboValue(i)
        BY <3>1, PointsOfAnObject
      <3>3. PICK k \in 1..ComboValue(i) : NotAfter(p, <<i, k>>) /\ NotAfter(<<i, k>>, q)
        <4>1. CASE i = p[1]
          <5>1. NotAfter(p, <<i, p[2]>>) /\ NotAfter(<<i, p[2]>>, q)
            BY <1>5, <2>4, <4>1 DEF NotAfter
          <5>2. QED
            BY <1>3, <4>1, <5>1
        <4>2. CASE i # p[1]
          <5>1. p[1] < i /\ i <= q[1]
            BY <1>5, <4>2
          <5>2. NotAfter(p, <<i, 1>>) /\ NotAfter(<<i, 1>>, q)
            BY <1>5, <5>1 DEF NotAfter
          <5>3. 1 \in 1..ComboValue(i)
            BY <3>2
          <5>4. QED
            BY <5>2, <5>3
        <4>3. QED
          BY <4>1, <4>2
      <3>4. <<i, k>> \in Points
        BY <3>1, PointsArePairs DEF n
      <3>5. <<i, k>> \in run
        BY <1>2, <3>3, <3>4 DEF Between
      <3>6. PointsOf(i)[k]
        BY <1>2, <3>5
      <3>7. Grade(i) # 0
        BY <3>1, <3>2, <3>6, PointsOfAnObject
      <3>8. i \notin Missing
        BY <3>7
      <3>9. QED
        BY <3>1, <3>8, BreaksAreMissing DEF Missing
    <2> DEFINE Ends == {l \in q[1]..n : l = n \/ Broke(l + 1)}
    <2>6. Ends \in SUBSET Nat /\ n \in Ends
      BY <1>1, <1>3
    <2> HIDE DEF Ends
    <2>7. PICK j \in Ends : \A l \in Ends : j <= l
      BY <2>6, LeastNatural
    <2>8. j \in q[1]..n /\ j \in 0..n /\ (j = n \/ Broke(j + 1))
      BY <1>1, <1>3, <2>7 DEF Ends
    <2>9. ASSUME NEW i \in (q[1] + 1)..j PROVE ~Broke(i)
      <3>1. i - 1 \in q[1]..n /\ (i - 1) + 1 = i /\ i - 1 < j
        BY <1>1, <1>5, <2>8, <2>9
      <3>2. i - 1 \notin Ends
        BY <1>1, <1>5, <2>7, <2>8, <3>1
      <3>3. QED
        BY <3>1, <3>2 DEF Ends
    <2>10. PICK s \in 0..j : /\ s = 0 \/ Broke(s)
                             /\ IsFiniteSet(PointsIn(s, j)) /\ Cardinality(PointsIn(s, j)) = Combos[j]
      BY <2>8, TheComboIsCounted DEF n
    <2>11. s < p[1]
      <3>1. s \notin p[1]..q[1]
        BY <1>1, <1>3, <2>5, <2>10
      <3>2. s \notin (q[1] + 1)..j
        BY <1>1, <1>3, <2>9, <2>10
      <3>3. QED
        BY <1>1, <1>3, <2>8, <2>10, <3>1, <3>2
    <2>12. run \in SUBSET PointsIn(s, j)
      <3>1. ASSUME NEW r \in run PROVE r \in PointsIn(s, j)
        <4>1. r \in Points /\ NotAfter(p, r) /\ NotAfter(r, q)
          BY <1>2, <3>1 DEF Between
        <4>2. r[1] \in Int
          BY <4>1, PointsArePairs
        <4>3. p[1] <= r[1] /\ r[1] <= q[1]
          BY <1>5, <4>1, <4>2 DEF NotAfter
        <4>4. s \in Int /\ j \in Int /\ q[1] <= j
          BY <1>1, <1>5, <2>8
        <4>5. QED
          BY <1>5, <2>11, <4>1, <4>2, <4>3, <4>4 DEF PointsIn
      <3>2. QED
        BY <3>1
    <2>13. IsFiniteSet(run) /\ Cardinality(run) <= Combos[j]
      BY <2>10, <2>12, FS_Subset
    <2>14. Combos[j] <= MaxCombo
      BY <2>8, TheLongestCombo DEF n
    <2>15. Cardinality(run) \in Nat /\ Combos[j] \in Nat /\ MaxCombo \in Nat
      BY <2>8, <2>13, FS_CardinalityType, CombosGoOn, TheLongestCombo DEF n
    <2>16. QED
      BY <2>13, <2>14, <2>15
  <1>8. QED
    BY <1>6, <1>7

\* For every beatmap and every recording the longest combo counts points that were
\* collected in a row, each once; and all such a row has, unless a slider was
\* dropped half-way.
THEOREM TheLongestComboIsCounted == SimSpec => []LongestComboIsARun
  <1>1. ASSUME SimTypeOK PROVE LongestComboIsARun
    <2>1. LongestRun \in Nat /\ MaxCombo \in Nat
      BY <1>1, TheLongestRun, TheLongestCombo
    <2>2. MaxCombo <= LongestRun
      <3>1. PICK j \in 0..Len(objects) : MaxCombo = Combos[j]
        BY <1>1, TheLongestCombo
      <3>2. CASE Combos[j] = 0
        BY <2>1, <3>1, <3>2
      <3>3. CASE Combos[j] # 0
        <4>1. PICK run \in Runs : Cardinality(run) = Combos[j]
          BY <1>1, <3>3, TheComboIsARun
        <4>2. QED
          BY <1>1, <3>1, <4>1, TheLongestRun
      <3>4. QED
        BY <3>2, <3>3
    <2>3. ASSUME \A i \in Missing : Grade(i) = 0 PROVE MaxCombo = LongestRun
      <3>1. LongestRun <= MaxCombo
        <4>1. CASE LongestRun = 0
          BY <2>1, <4>1
        <4>2. CASE LongestRun # 0
          <5>1. PICK run \in Runs : LongestRun = Cardinality(run)
            BY <1>1, <4>2, TheLongestRun
          <5>2. QED
            BY <1>1, <2>3, <5>1, ARunIsInACombo
        <4>3. QED
          BY <4>1, <4>2
      <3>2. QED
        BY <2>1, <2>2, <3>1
    <2>4. QED
      BY <2>2, <2>3 DEF LongestComboIsARun
  <1>2. QED
    BY <1>1, SimTypeCorrect, PTL
=============================================================================
