-------------------------- MODULE LiveServerProofs --------------------------
(***************************************************************************)
(* forge serve while it runs, for any sets of replays, connections and     *)
(* tasks and any SETTLE_ATTEMPTS.                                          *)
(*                                                                         *)
(* First the watcher: types, no play pushed twice, every seen play         *)
(* accounted for.  Then the corpus: the lock makes the served answer grow  *)
(* only, no added play is lost, and the whole implements CorpusPromise.    *)
(* Then LiveServer: the composition implements both, a listening page      *)
(* hears every play, and the served corpus answer catches up.              *)
(***************************************************************************)
EXTENDS LiveServer, TLAPS, FiniteSetTheorems

-----------------------------------------------------------------------------
(* The watcher.                                                            *)

\* The plays on their way to the pages, in order: those broadcast, then those
\* waiting.  Sending moves the boundary and leaves the line unchanged.
Line == sent \o messages

LEMMA SendKeepsLine ==
  ASSUME NEW S, NEW s \in Seq(S), NEW m \in Seq(S), m # <<>>
  PROVE  Append(s, Head(m)) \o Tail(m) = s \o m
  OBVIOUS

LEMMA AppendToLine ==
  ASSUME NEW S, NEW s \in Seq(S), NEW m \in Seq(S), NEW p \in S
  PROVE  s \o Append(m, p) = Append(s \o m, p)
  OBVIOUS

LEMMA AppendKeepsInjective ==
  ASSUME NEW S, NEW q \in Seq(S), NEW p \in S, IsInjective(q), p \notin ToSet(q)
  PROVE  /\ IsInjective(Append(q, p))
         /\ ToSet(Append(q, p)) = ToSet(q) \union {p}
  <1>1. \A i \in 1..Len(q) : Append(q, p)[i] = q[i] /\ q[i] \in ToSet(q)
    BY DEF ToSet
  <1>2. /\ Len(Append(q, p)) = Len(q) + 1
        /\ DOMAIN Append(q, p) = 1..(Len(q) + 1)
        /\ Append(q, p)[Len(q) + 1] = p
    OBVIOUS
  <1>3. IsInjective(Append(q, p))
    BY <1>1, <1>2 DEF IsInjective
  <1>4. ToSet(Append(q, p)) = ToSet(q) \union {p}
    BY <1>1, <1>2 DEF ToSet
  <1>5. QED
    BY <1>3, <1>4

LEMMA SplitLine ==
  ASSUME NEW S, NEW s \in Seq(S), NEW m \in Seq(S), IsInjective(s \o m)
  PROVE  /\ IsInjective(s)
         /\ ToSet(s \o m) = ToSet(s) \union ToSet(m)
         /\ ToSet(s) \intersect ToSet(m) = {}
  <1>1. /\ DOMAIN (s \o m) = 1..(Len(s) + Len(m))
        /\ \A i \in 1..Len(s) : (s \o m)[i] = s[i]
        /\ \A i \in 1..Len(m) : (s \o m)[Len(s) + i] = m[i]
    OBVIOUS
  <1>2. IsInjective(s)
    BY <1>1 DEF IsInjective
  <1>3. ToSet(s \o m) = ToSet(s) \union ToSet(m)
    <2>1. ToSet(s) \union ToSet(m) \subseteq ToSet(s \o m)
      <3>1. ASSUME NEW i \in 1..Len(s) PROVE s[i] \in ToSet(s \o m)
        BY <1>1, i \in 1..(Len(s) + Len(m)) DEF ToSet
      <3>2. ASSUME NEW i \in 1..Len(m) PROVE m[i] \in ToSet(s \o m)
        BY <1>1, Len(s) + i \in 1..(Len(s) + Len(m)) DEF ToSet
      <3>3. /\ ToSet(s) = {s[i] : i \in 1..Len(s)}
            /\ ToSet(m) = {m[i] : i \in 1..Len(m)}
        BY DEF ToSet
      <3>4. QED
        BY <3>1, <3>2, <3>3
    <2>2. ASSUME NEW k \in 1..(Len(s) + Len(m))
          PROVE  (s \o m)[k] \in ToSet(s) \union ToSet(m)
      <3>1. CASE k <= Len(s)
        BY <3>1, <1>1 DEF ToSet
      <3>2. CASE k > Len(s)
        BY <3>2, <1>1, k - Len(s) \in 1..Len(m), k = Len(s) + (k - Len(s)) DEF ToSet
      <3>3. QED
        BY <3>1, <3>2
    <2>3. QED
      BY <1>1, <2>1, <2>2 DEF ToSet
  <1>4. ToSet(s) \intersect ToSet(m) = {}
    <2>1. ASSUME NEW i \in 1..Len(s), NEW j \in 1..Len(m) PROVE s[i] # m[j]
      BY <1>1, i # Len(s) + j, Len(s) + j \in 1..(Len(s) + Len(m)) DEF IsInjective
    <2>2. QED
      BY <2>1 DEF ToSet
  <1>5. QED
    BY <1>2, <1>3, <1>4

LEMMA TailOfInjective ==
  ASSUME NEW S, NEW q \in Seq(S), q # <<>>, IsInjective(q)
  PROVE  /\ IsInjective(Tail(q))
         /\ ToSet(Tail(q)) \subseteq ToSet(q) \ {Head(q)}
         /\ Head(q) \in ToSet(q)
  <1>1. /\ Len(q) >= 1
        /\ DOMAIN Tail(q) = 1..(Len(q) - 1)
        /\ \A i \in 1..(Len(q) - 1) : Tail(q)[i] = q[i + 1]
        /\ Head(q) = q[1]
    OBVIOUS
  <1>2. QED
    BY <1>1 DEF IsInjective, ToSet

\* A listing is a sequence of its files, each of them once.
LEMMA ListingIsASequence ==
  ASSUME NEW S \in SUBSET Replays, NEW q \in SetToSeqs(S)
  PROVE  q \in Seq(Replays) /\ IsInjective(q) /\ ToSet(q) \subseteq S
  <1>1. Cardinality(S) \in Nat
    BY ReplaysAreFinite, FS_Subset, FS_CardinalityType
  <1>2. QED
    BY <1>1 DEF SetToSeqs, IsInjective, ToSet
-----------------------------------------------------------------------------
\* A listing holds no file twice and none that has been seen; both survive
\* until the listing is used up, because only its head is ever marked seen.
QueueIsFresh == IsInjective(queue) /\ ToSet(queue) \intersect seen = {}

\* A pass starts with nothing left over from the one before, and what is being
\* built is still the head of the listing.
PassStartsEmpty ==
  /\ phase = "asleep" => messages = <<>>
  /\ phase = "building" => queue # <<>>

WatcherInv ==
  /\ WatcherTypeOK
  /\ PassStartsEmpty
  /\ QueueIsFresh
  /\ NoPlayIsPushedTwice
  /\ EverySeenPlayIsAccountedFor

LEMMA WatcherInitInv == WatcherInit => WatcherInv
  <1> SUFFICES ASSUME WatcherInit PROVE WatcherInv
    OBVIOUS
  <1> USE DEF WatcherInit, Prime
  <1>1. WatcherTypeOK
    BY SettleAssumption, FaultsAssumption DEF WatcherTypeOK, Contents
  <1>2. ToSet(<<>>) = {} /\ IsInjective(<<>>) /\ sent \o messages = <<>>
    BY DEF ToSet, IsInjective
  <1>3. QueueIsFresh /\ PassStartsEmpty /\ NoPlayIsPushedTwice /\ EverySeenPlayIsAccountedFor
    BY <1>2 DEF QueueIsFresh, PassStartsEmpty, NoPlayIsPushedTwice, EverySeenPlayIsAccountedFor
  <1>4. QED
    BY <1>1, <1>3 DEF WatcherInv

\* The steps that move no play: what the properties talk about is unchanged.
LEMMA QuietStep ==
  ASSUME WatcherInv, WatcherTypeOK', QueueIsFresh', PassStartsEmpty',
         UNCHANGED <<seen, messages, payloads, primed, sent, lost>>
  PROVE  WatcherInv'
  BY DEF WatcherInv, NoPlayIsPushedTwice, EverySeenPlayIsAccountedFor

LEMMA SplitNextLine ==
  ASSUME WatcherTypeOK', NoPlayIsPushedTwice'
  PROVE  ToSet(Line') = ToSet(sent') \union ToSet(messages')
  <1>1. sent' \in Seq(Replays) /\ messages' \in Seq(Replays)
    BY DEF WatcherTypeOK
  <1>2. IsInjective(sent' \o messages')
    BY DEF NoPlayIsPushedTwice
  <1>3. QED
    BY <1>1, <1>2, SplitLine DEF Line

LEMMA ListInv == ASSUME WatcherInv, List PROVE WatcherInv'
  <1> USE DEF WatcherInv, List
  <1>1. queue' \in Seq(Replays) /\ IsInjective(queue') /\ ToSet(queue') \subseteq Fresh
    BY ListingIsASequence DEF Fresh
  <1>2. WatcherTypeOK'
    BY <1>1 DEF WatcherTypeOK
  <1>3. QueueIsFresh'
    BY <1>1 DEF QueueIsFresh, Fresh
  <1>4. PassStartsEmpty' /\ UNCHANGED messages
    BY DEF PassStartsEmpty
  <1>5. QED
    BY <1>2, <1>3, <1>4, QuietStep

LEMMA NotReadableInv ==
  ASSUME WatcherInv, NEW p \in Replays, NotReadable(p) PROVE WatcherInv'
  <1> USE DEF WatcherInv, NotReadable, IsNext
  <1>1. WatcherTypeOK'
    <2>1. failures' \in [Replays -> 0..(SettleAttempts - 1)]
      <3>1. failures \in [Replays -> 0..(SettleAttempts - 1)] /\ SettleAttempts \in Nat \ {0}
        BY SettleAssumption DEF WatcherTypeOK
      <3>2. CASE failures[p] + 1 >= SettleAttempts
        BY <3>1, <3>2
      <3>3. CASE ~(failures[p] + 1 >= SettleAttempts)
        BY <3>1, <3>3, failures[p] + 1 \in 0..(SettleAttempts - 1)
      <3>4. QED
        BY <3>2, <3>3
    <2>2. abandoned' \in SUBSET Replays /\ queue' \in Seq(Replays)
      BY DEF WatcherTypeOK
    <2>3. QED
      BY <2>1, <2>2 DEF WatcherTypeOK
  <1>2. QueueIsFresh'
    BY TailOfInjective DEF QueueIsFresh, WatcherTypeOK
  <1>3. PassStartsEmpty'
    BY DEF PassStartsEmpty
  <1>4. QED
    BY <1>1, <1>2, <1>3, QuietStep

LEMMA BuiltInv ==
  ASSUME WatcherInv, NEW p \in Replays, Built(p) PROVE WatcherInv'
  <1> USE DEF WatcherInv, Built, Building
  <1>1. WatcherTypeOK'
    BY SettleAssumption DEF WatcherTypeOK, PassStartsEmpty
  <1>2. p \in ToSet(queue) /\ QueueIsFresh'
    BY TailOfInjective DEF QueueIsFresh, PassStartsEmpty, WatcherTypeOK
  <1>3. p \notin seen
    BY <1>2 DEF QueueIsFresh
  <1>4. ToSet(Line) = ToSet(sent) \union ToSet(messages)
    BY SplitLine DEF Line, NoPlayIsPushedTwice, WatcherTypeOK
  <1>5. p \notin ToSet(Line) /\ p \notin primed \union lost
    BY <1>3, <1>4 DEF EverySeenPlayIsAccountedFor
  <1>6. Line' = Append(Line, p)
    <2>1. sent \in Seq(Replays) /\ messages \in Seq(Replays)
      BY DEF WatcherTypeOK
    <2>2. sent' = sent /\ messages' = Append(messages, p)
      OBVIOUS
    <2>3. QED
      BY <2>1, <2>2, AppendToLine DEF Line
  <1>7. Line \in Seq(Replays)
    BY DEF Line, WatcherTypeOK
  <1>8. IsInjective(Line') /\ ToSet(Line') = ToSet(Line) \union {p}
    <2>1. IsInjective(Line)
      BY DEF Line, NoPlayIsPushedTwice
    <2>2. QED
      BY <1>5, <1>6, <1>7, <2>1, AppendKeepsInjective
  <1>9. NoPlayIsPushedTwice'
    BY <1>5, <1>8 DEF Line, NoPlayIsPushedTwice
  <1>10. ToSet(Line') = ToSet(sent') \union ToSet(messages')
    BY <1>9, <1>1, SplitNextLine
  <1>11. EverySeenPlayIsAccountedFor'
    BY <1>4, <1>8, <1>10 DEF EverySeenPlayIsAccountedFor
  <1>12. PassStartsEmpty'
    BY DEF PassStartsEmpty
  <1>13. QED
    BY <1>1, <1>2, <1>9, <1>11, <1>12

LEMMA BuildRaisesInv ==
  ASSUME WatcherInv, NEW p \in Replays, BuildRaises(p) PROVE WatcherInv'
  <1> USE DEF WatcherInv, BuildRaises, Building
  <1>1. WatcherTypeOK'
    BY FaultsAssumption DEF WatcherTypeOK, ToSet
  <1>2. /\ IsInjective(sent)
        /\ ToSet(Line) = ToSet(sent) \union ToSet(messages)
        /\ ToSet(sent) \intersect ToSet(messages) = {}
    BY SplitLine DEF Line, NoPlayIsPushedTwice, WatcherTypeOK
  <1>3. /\ ToSet(<<>>) = {}
        /\ IsInjective(<<>>)
        /\ sent \o <<>> = sent
    BY DEF ToSet, IsInjective, WatcherTypeOK
  <1>4. QueueIsFresh'
    BY <1>3 DEF QueueIsFresh
  <1>5. NoPlayIsPushedTwice'
    BY <1>2, <1>3 DEF Line, NoPlayIsPushedTwice
  <1>6. EverySeenPlayIsAccountedFor'
    BY <1>3 DEF EverySeenPlayIsAccountedFor
  <1>7. PassStartsEmpty'
    BY DEF PassStartsEmpty
  <1>8. QED
    BY <1>1, <1>4, <1>5, <1>6, <1>7

LEMMA SendInv == ASSUME WatcherInv, Send PROVE WatcherInv'
  <1> USE DEF WatcherInv, Send
  <1>1. WatcherTypeOK'
    BY DEF WatcherTypeOK
  <1>2. QueueIsFresh'
    BY DEF QueueIsFresh
  <1>3. Line' = Line
    BY SendKeepsLine DEF Line, WatcherTypeOK
  <1>4. NoPlayIsPushedTwice'
    BY <1>3 DEF Line, NoPlayIsPushedTwice
  <1>5. /\ ToSet(Line) = ToSet(sent) \union ToSet(messages)
        /\ ToSet(Line') = ToSet(sent') \union ToSet(messages')
    <2>1. ToSet(Line) = ToSet(sent) \union ToSet(messages)
      BY SplitLine DEF Line, NoPlayIsPushedTwice, WatcherTypeOK
    <2>2. QED
      BY <2>1, <1>1, <1>4, SplitNextLine
  <1>6. EverySeenPlayIsAccountedFor'
    BY <1>3, <1>5 DEF EverySeenPlayIsAccountedFor
  <1>7. PassStartsEmpty'
    BY DEF PassStartsEmpty
  <1>8. QED
    BY <1>1, <1>2, <1>4, <1>6, <1>7
LEMMA WatcherNextInv == WatcherInv /\ [WatcherNext]_watcherVars => WatcherInv'
  <1> SUFFICES ASSUME WatcherInv, [WatcherNext]_watcherVars
               PROVE  WatcherInv'
    OBVIOUS
  <1>1. CASE List \/ ListRaises
    <2>1. CASE ListRaises
      <3>1. WatcherTypeOK' /\ QueueIsFresh' /\ PassStartsEmpty'
        BY <2>1, FaultsAssumption
           DEF WatcherInv, WatcherTypeOK, QueueIsFresh, PassStartsEmpty, ListRaises
      <3>2. QED
        BY <2>1, <3>1, QuietStep DEF ListRaises
    <2>2. QED
      BY <1>1, <2>1, ListInv
  <1>2. ASSUME NEW p \in Replays, NotReadable(p) PROVE WatcherInv'
    BY <1>2, NotReadableInv
  <1>3. ASSUME NEW p \in Replays, ReadReplay(p) PROVE WatcherInv'
    <2>1. WatcherTypeOK' /\ QueueIsFresh' /\ PassStartsEmpty'
      BY <1>3 DEF WatcherInv, WatcherTypeOK, QueueIsFresh, PassStartsEmpty, ReadReplay, IsNext
    <2>2. QED
      BY <1>3, <2>1, QuietStep DEF ReadReplay
  <1>4. ASSUME NEW p \in Replays, Built(p) PROVE WatcherInv'
    BY <1>4, BuiltInv
  <1>5. ASSUME NEW p \in Replays, BuildRaises(p) PROVE WatcherInv'
    BY <1>5, BuildRaisesInv
  <1>6. CASE EndPoll \/ Sleep
    <2>1. WatcherTypeOK' /\ QueueIsFresh' /\ PassStartsEmpty'
      BY <1>6 DEF WatcherInv, WatcherTypeOK, QueueIsFresh, PassStartsEmpty, EndPoll, Sleep
    <2>2. QED
      BY <1>6, <2>1, QuietStep DEF EndPoll, Sleep
  <1>7. CASE Send
    BY <1>7, SendInv
  <1>8. CASE Folder
    <2>1. WatcherTypeOK'
      BY <1>8 DEF WatcherInv, WatcherTypeOK, Contents, Folder, Game, Create,
                  FinishWriting, InstallBeatmap, Delete
    <2>2. QueueIsFresh' /\ PassStartsEmpty'
      BY <1>8 DEF WatcherInv, QueueIsFresh, PassStartsEmpty, Folder
    <2>3. QED
      BY <1>8, <2>1, <2>2, QuietStep DEF Folder
  <1>9. CASE UNCHANGED watcherVars
    BY <1>9 DEF watcherVars, WatcherInv, WatcherTypeOK, QueueIsFresh, PassStartsEmpty,
                NoPlayIsPushedTwice, EverySeenPlayIsAccountedFor
  <1>10. QED
    BY <1>1, <1>2, <1>3, <1>4, <1>5, <1>6, <1>7, <1>8, <1>9 DEF WatcherNext, Watch, Build

LEMMA WatcherInvariant == WatcherSpec => []WatcherInv
  BY WatcherInitInv, WatcherNextInv, PTL DEF WatcherSpec

\* Every field of Watcher keeps its type; a failure count stays below the
\* limit at which the file is given up on.
THEOREM WatcherTypeCorrect == WatcherSpec => []WatcherTypeOK
  <1>1. WatcherInv => WatcherTypeOK
    BY DEF WatcherInv
  <1>2. QED
    BY <1>1, WatcherInvariant, PTL

\* live.py, poll and run: a listing may be stale and a pass may fail half-way,
\* and still no play is pushed twice.
THEOREM PushedAtMostOnce == WatcherSpec => []NoPlayIsPushedTwice
  <1>1. WatcherInv => NoPlayIsPushedTwice
    BY DEF WatcherInv
  <1>2. QED
    BY <1>1, WatcherInvariant, PTL

\* live.py, poll and run: a seen play is primed, on its way, pushed or dropped
\* with a failed pass, and can be loaded unless it was primed.
THEOREM SeenIsAccountedFor == WatcherSpec => []EverySeenPlayIsAccountedFor
  <1>1. WatcherInv => EverySeenPlayIsAccountedFor
    BY DEF WatcherInv
  <1>2. QED
    BY <1>1, WatcherInvariant, PTL

-----------------------------------------------------------------------------
(* The corpus.                                                             *)

\* The inductive invariant.  The three parts the properties leave out: who is
\* inside recompute holds the lock, the key is the names the answer covers,
\* and a task that has not finished was asked for plays that are still known.
LockHeld ==
  \A t \in Tasks : task[t] = "building" <=> lock = t

KeyIsPayload == computedFor = payload

AskedIsKnown ==
  \A t \in Tasks :
    /\ asked[t] \subseteq facts
    /\ task[t] = "building" => asked[t] \subseteq view[t] /\ view[t] \subseteq facts

PayloadIsKnown == payload \subseteq facts

Growing ==
  \A t \in Tasks : task[t] = "building" => payload \subseteq view[t] /\ payload # view[t]

CorpusInv ==
  /\ CorpusTypeOK
  /\ LockHeld
  /\ KeyIsPayload
  /\ AskedIsKnown
  /\ PayloadIsKnown
  /\ Growing
  /\ NoAddedPlayIsLost

LEMMA CorpusInitInv == CorpusInit => CorpusInv
  <1> SUFFICES ASSUME CorpusInit PROVE CorpusInv
    OBVIOUS
  <1> USE NoTaskAssumption DEF CorpusInit
  <1>1. CorpusTypeOK
    BY DEF CorpusTypeOK, TaskStates
  <1>2. LockHeld /\ KeyIsPayload /\ AskedIsKnown /\ PayloadIsKnown /\ Growing
    BY DEF LockHeld, KeyIsPayload, AskedIsKnown, PayloadIsKnown, Growing
  <1>3. NoAddedPlayIsLost
    BY DEF NoAddedPlayIsLost
  <1>4. QED
    BY <1>1, <1>2, <1>3 DEF CorpusInv

LEMMA CorpusNextInv == CorpusInv /\ [CorpusNext]_corpusVars => CorpusInv'
  <1> SUFFICES ASSUME CorpusInv, [CorpusNext]_corpusVars
               PROVE  CorpusInv'
    OBVIOUS
  <1> USE NoTaskAssumption
  <1> USE DEF CorpusInv, CorpusTypeOK, TaskStates, LockHeld, KeyIsPayload,
              AskedIsKnown, PayloadIsKnown, Growing, NoAddedPlayIsLost
  <1>1. ASSUME NEW p \in Plays, Add(p) PROVE CorpusInv'
    BY <1>1 DEF Add
  <1>2. ASSUME NEW t \in Tasks, Refresh(t) PROVE CorpusInv'
    BY <1>2 DEF Refresh
  <1>3. ASSUME NEW t \in Tasks, ReturnCached(t) PROVE CorpusInv'
    BY <1>3 DEF ReturnCached, LockIsFree
  <1>4. ASSUME NEW t \in Tasks, StartBuild(t) PROVE CorpusInv'
    BY <1>4 DEF StartBuild, LockIsFree
  <1>5. ASSUME NEW t \in Tasks, Publish(t) PROVE CorpusInv'
    BY <1>5 DEF Publish, KeyOf
  <1>6. ASSUME NEW t \in Tasks, BuildFails(t) PROVE CorpusInv'
    BY <1>6 DEF BuildFails
  <1>7. ASSUME NEW t \in Tasks, Push(t) PROVE CorpusInv'
    BY <1>7 DEF Push
  <1>8. CASE UNCHANGED corpusVars
    BY <1>8 DEF corpusVars
  <1>9. QED
    BY <1>1, <1>2, <1>3, <1>4, <1>5, <1>6, <1>7, <1>8 DEF CorpusNext, Worker

LEMMA CorpusInvariant == CorpusSpec => []CorpusInv
  BY CorpusInitInv, CorpusNextInv, PTL DEF CorpusSpec

\* Every field of CorpusState and of the push tasks keeps its type.
THEOREM CorpusTypeCorrect == CorpusSpec => []CorpusTypeOK
  <1>1. CorpusInv => CorpusTypeOK
    BY DEF CorpusInv
  <1>2. QED
    BY <1>1, CorpusInvariant, PTL

\* corpus.py, recompute: however adds, spawns and workers interleave, the
\* answer of a refresh covers every play added before it was asked for, and
\* what is served from then on covers that answer.
THEOREM AddedPlaysAreServed == CorpusSpec => []NoAddedPlayIsLost
  <1>1. CorpusInv => NoAddedPlayIsLost
    BY DEF CorpusInv
  <1>2. QED
    BY <1>1, CorpusInvariant, PTL

\* corpus.py, recompute: one build at a time, and only for an unserved play.
THEOREM BuildsAreNeeded == CorpusSpec => []BuildsOnlyWhatIsNew
  <1>1. CorpusInv => BuildsOnlyWhatIsNew
    <2> SUFFICES ASSUME CorpusInv, NEW t \in Tasks, task[t] = "building"
                 PROVE  /\ \A u \in Tasks \ {t} : task[u] # "building"
                        /\ payload \subseteq view[t]
                        /\ payload # view[t]
      BY DEF BuildsOnlyWhatIsNew
    <2>1. \A u \in Tasks \ {t} : task[u] # "building"
      BY DEF CorpusInv, LockHeld
    <2>2. payload \subseteq view[t] /\ payload # view[t]
      BY DEF CorpusInv, Growing
    <2>3. QED
      BY <2>1, <2>2
  <1>2. QED
    BY <1>1, CorpusInvariant, PTL

\* Only Publish changes the served answer, and its copy holds what is served.
LEMMA ServedAnswerGrows ==
  ASSUME CorpusInv, [CorpusNext]_corpusVars
  PROVE  payload \subseteq payload'
  <1>1. ASSUME NEW t \in Tasks, Publish(t) PROVE payload \subseteq payload'
    BY <1>1 DEF Publish, CorpusInv, Growing
  <1>2. ASSUME payload' = payload PROVE payload \subseteq payload'
    BY <1>2
  <1>3. QED
    BY <1>1, <1>2 DEF CorpusNext, Worker, Add, Refresh, ReturnCached, StartBuild,
                      BuildFails, Push, corpusVars

\* corpus.py, recompute's lock: no step takes a play out of the served answer, so
\* what the page shows does not go back in time.
THEOREM CorpusMonotone == CorpusSpec => [][payload \subseteq payload']_corpusVars
  <1>1. CorpusInv /\ [CorpusNext]_corpusVars => [payload \subseteq payload']_corpusVars
    BY ServedAnswerGrows
  <1>2. QED
    BY <1>1, CorpusInvariant, PTL DEF CorpusSpec

\* A step of CorpusRefresh is a step of CorpusPromise or leaves it unchanged:
\* the reply of a refresh takes effect when it is published, or, for a cached
\* answer, when the key is compared.
LEMMA RefreshStepRefines ==
  ASSUME CorpusInv, [CorpusNext]_corpusVars
  PROVE  [Promise!Next]_Promise!vars
  <1> USE DEF CorpusInv, CorpusTypeOK, TaskStates, Outcome
  <1> USE DEF Promise!Next, Promise!vars
  <1>1. ASSUME NEW p \in Plays, Add(p) PROVE Promise!Learn(p)
    BY <1>1 DEF Add, Promise!Learn
  <1>2. ASSUME NEW t \in Tasks, Refresh(t) PROVE Promise!Ask(t)
    BY <1>2 DEF Refresh, Promise!Ask
  <1>3. ASSUME NEW t \in Tasks, ReturnCached(t) PROVE Promise!Answer(t)
    <2>1. payload' = payload /\ payload = facts
      BY <1>3 DEF ReturnCached, KeyIsPayload
    <2>2. asked[t] \subseteq facts
      BY DEF AskedIsKnown
    <2>3. QED
      BY <1>3, <2>1, <2>2 DEF ReturnCached, Promise!Answer
  <1>4. ASSUME NEW t \in Tasks, StartBuild(t) PROVE UNCHANGED Promise!vars
    BY <1>4 DEF StartBuild
  <1>5. ASSUME NEW t \in Tasks, Publish(t) PROVE Promise!Answer(t)
    BY <1>5 DEF Publish, Promise!Answer, Growing, AskedIsKnown
  <1>6. ASSUME NEW t \in Tasks, BuildFails(t) PROVE Promise!GiveUp(t)
    BY <1>6 DEF BuildFails, Promise!GiveUp
  <1>7. ASSUME NEW t \in Tasks, Push(t) PROVE UNCHANGED Promise!vars
    BY <1>7 DEF Push
  <1>8. CASE UNCHANGED corpusVars
    BY <1>8 DEF corpusVars
  <1>9. QED
    BY <1>1, <1>2, <1>3, <1>4, <1>5, <1>6, <1>7, <1>8 DEF CorpusNext, Worker

\* corpus.py, CorpusState: lock, key and threads together keep the promise.
THEOREM CorpusKeepsPromise == CorpusSpec => ImplementsPromise
  <1>1. CorpusInit => Promise!Init
    BY DEF CorpusInit, Promise!Init, Outcome
  <1>2. CorpusInv /\ [CorpusNext]_corpusVars => [Promise!Next]_Promise!vars
    BY RefreshStepRefines
  <1>3. QED
    BY <1>1, <1>2, CorpusInvariant, PTL DEF CorpusSpec, ImplementsPromise, Promise!Spec

-----------------------------------------------------------------------------
(* Watcher, corpus and broadcaster together.                               *)

LiveTypeOK ==
  /\ sockets \in SUBSET Sockets
  /\ link \in [Sockets -> {"new", "up", "down"}]
  /\ sending \in [Senders -> BOOLEAN]
  /\ todo \in [Senders -> SUBSET Sockets]
  /\ gone \in [Senders -> SUBSET Sockets]
  /\ heard \in [Sockets -> Seq(Replays)]
  /\ joined \in [Sockets -> Nat]

\* A broadcast of the watcher has its message for as long as it lasts: run()
\* awaits the send before it does anything else.
LoopSendsItsHead == sending[Loop] => phase = "sending" /\ messages # <<>>

\* What a send or the registry holds has been connected at some time, and what
\* a send gives up on has been seen to fail, which no connection outlives.
NobodyNewIsKnown ==
  \A s \in Sockets : link[s] = "new" =>
    /\ s \notin sockets
    /\ heard[s] = <<>>
    /\ \A x \in Senders : s \notin todo[x]

TheGoneAreDown ==
  \A x \in Senders : \A s \in gone[x] : link[s] = "down"

\* A snapshot holds only the sockets that were there when the send began.
JoinedInTime ==
  \A s \in Sockets :
    /\ joined[s] <= Len(sent) + (IF sending[Loop] THEN 1 ELSE 0)
    /\ sending[Loop] /\ s \in todo[Loop] => joined[s] <= Len(sent)

\* A page that is up is registered, and what it has heard ends where the
\* broadcasts do: with the one under way if it has been written to.
SocketInv ==
  /\ LiveTypeOK
  /\ LoopSendsItsHead
  /\ NobodyNewIsKnown
  /\ TheGoneAreDown
  /\ JoinedInTime
  /\ ListenersHearEveryPlay

\* A push task that was spawned was asked for its own play: refresh_corpus
\* runs after remember.
TasksKnowTheirPlay == \A p \in Tasks : task[p] # "idle" => p \in asked[p]

\* What is served beside the corpus is in the corpus answer or was asked for.
ServedIsAsked == \A p \in payloads : p \in payload \/ task[p] # "idle"

AskedInv == TasksKnowTheirPlay /\ ServedIsAsked

LiveInv == WatcherInv /\ CorpusInv /\ SocketInv /\ AskedInv

-----------------------------------------------------------------------------
\* The composition adds interleavings to the components, never a step.
LEMMA LiveStepOfWatcher == [LiveNext]_liveVars => [WatcherNext]_watcherVars
  <1> USE DEF WatcherNext, Watch, Build
  <1>1. Poll => WatcherNext
    BY DEF Poll
  <1>2. ASSUME NEW p \in Replays, Remember(p) \/ OnNewReplay(p)
        PROVE  WatcherNext \/ UNCHANGED watcherVars
    BY <1>2 DEF Remember, OnNewReplay
  <1>3. ASSUME NEW x \in Senders, Sends(x) PROVE WatcherNext \/ UNCHANGED watcherVars
    BY <1>3 DEF Sends, StartSend, Write, EndSend
  <1>4. Threads \/ GameWrites => WatcherNext \/ UNCHANGED watcherVars
    BY DEF Threads, GameWrites
  <1>5. ASSUME NEW s \in Sockets, Connect(s) \/ Close(s) \/ Disconnected(s)
        PROVE  UNCHANGED watcherVars
    BY <1>5 DEF Connect, Close, Disconnected
  <1>6. UNCHANGED liveVars => UNCHANGED watcherVars
    BY DEF liveVars
  <1>7. QED
    BY <1>1, <1>2, <1>3, <1>4, <1>5, <1>6
    DEF LiveNext, Server, WatcherTask, Browsers, Senders

LEMMA LiveStepOfCorpus == [LiveNext]_liveVars => [CorpusNext]_corpusVars
  <1> USE OnePushPerReplay DEF CorpusNext
  <1>1. Poll => UNCHANGED corpusVars
    BY DEF Poll
  <1>2. ASSUME NEW p \in Replays, Remember(p) \/ OnNewReplay(p)
        PROVE  CorpusNext \/ UNCHANGED corpusVars
    BY <1>2 DEF Remember, OnNewReplay
  <1>3. ASSUME NEW x \in Senders, Sends(x) PROVE CorpusNext \/ UNCHANGED corpusVars
    <2>1. CASE x = Loop
      BY <1>3, <2>1 DEF Sends, StartSend, Write, EndSend
    <2>2. CASE x \in Tasks
      BY <1>3, <2>2, LoopAssumption DEF Sends, StartSend, Write, EndSend
    <2>3. QED
      BY <2>1, <2>2 DEF Senders
  <1>4. Threads \/ GameWrites => CorpusNext \/ UNCHANGED corpusVars
    BY DEF Threads, GameWrites
  <1>5. ASSUME NEW s \in Sockets, Connect(s) \/ Close(s) \/ Disconnected(s)
        PROVE  UNCHANGED corpusVars
    BY <1>5 DEF Connect, Close, Disconnected
  <1>6. UNCHANGED liveVars => UNCHANGED corpusVars
    BY DEF liveVars
  <1>7. QED
    BY <1>1, <1>2, <1>3, <1>4, <1>5, <1>6
    DEF LiveNext, Server, WatcherTask, Browsers, Senders

LEMMA LiveInitInv == LiveInit => LiveInv
  <1> SUFFICES ASSUME LiveInit PROVE LiveInv
    OBVIOUS
  <1>1. WatcherInv /\ CorpusInv
    BY WatcherInitInv, CorpusInitInv DEF LiveInit
  <1> USE DEF LiveInit
  <1>2. sent = <<>> /\ payloads \subseteq payload
    BY DEF WatcherInit, CorpusInit
  <1>3. LiveTypeOK /\ LoopSendsItsHead /\ NobodyNewIsKnown /\ TheGoneAreDown
    BY DEF LiveTypeOK, LoopSendsItsHead, NobodyNewIsKnown, TheGoneAreDown, Senders
  <1>4. JoinedInTime /\ ListenersHearEveryPlay
    BY <1>2 DEF JoinedInTime, ListenersHearEveryPlay, Senders
  <1>5. AskedInv
    BY <1>2 DEF CorpusInit, AskedInv, TasksKnowTheirPlay, ServedIsAsked
  <1>6. QED
    BY <1>1, <1>3, <1>4, <1>5 DEF LiveInv, SocketInv

-----------------------------------------------------------------------------
\* The four shapes of a step, as far as the connections are concerned.  First:
\* the watcher polls, a thread works, the folder changes.
LEMMA AwayFromSockets ==
  ASSUME SocketInv, UNCHANGED socketVars, sent' = sent,
         sending[Loop] => UNCHANGED <<phase, messages>>
  PROVE  SocketInv'
  <1> USE DEF SocketInv, socketVars
  <1>1. LiveTypeOK'
    BY DEF LiveTypeOK
  <1>2. LoopSendsItsHead' /\ NobodyNewIsKnown' /\ TheGoneAreDown' /\ JoinedInTime'
    BY DEF LoopSendsItsHead, NobodyNewIsKnown, TheGoneAreDown, JoinedInTime
  <1>3. ListenersHearEveryPlay'
    <2>1. CASE sending[Loop]
      BY <2>1 DEF ListenersHearEveryPlay
    <2>2. CASE ~sending[Loop]
      BY <2>2 DEF ListenersHearEveryPlay
    <2>3. QED
      BY <2>1, <2>2
  <1>4. QED
    BY <1>1, <1>2, <1>3

\* While the watcher sends, it does nothing else.
LEMMA PollSockets ==
  ASSUME SocketInv, Poll \/ (\E p \in Replays : Remember(p) \/ OnNewReplay(p))
                    \/ Threads \/ GameWrites
  PROVE  SocketInv'
  <1>1. UNCHANGED socketVars
    BY DEF Poll, Remember, OnNewReplay, Threads, GameWrites
  <1>2. sent' = sent
    BY DEF Poll, Remember, OnNewReplay, Threads, GameWrites, List, ListRaises, NotReadable, ReadReplay,
           BuildRaises, EndPoll, Sleep, Built, Folder, watcherVars
  <1>3. sending[Loop] => phase = "sending" /\ messages # <<>>
    BY DEF SocketInv, LoopSendsItsHead
  <1>4. sending[Loop] => UNCHANGED <<phase, messages>>
    BY <1>3 DEF Poll, Remember, OnNewReplay, Threads, GameWrites, List, ListRaises, NotReadable,
           ReadReplay, BuildRaises, EndPoll, Sleep, Built, Building, IsNext, Folder, watcherVars
  <1>5. QED
    BY <1>1, <1>2, <1>4, AwayFromSockets

\* Second: a browser comes or goes.
LEMMA ConnectSockets ==
  ASSUME SocketInv, sent \in Seq(Replays), NEW s \in Sockets, Connect(s)
  PROVE  SocketInv'
  <1> USE DEF SocketInv, Connect, watcherVars
  <1>1. LiveTypeOK'
    BY DEF LiveTypeOK
  <1>2. LoopSendsItsHead' /\ TheGoneAreDown'
    BY DEF LoopSendsItsHead, TheGoneAreDown, LiveTypeOK
  <1>3. NobodyNewIsKnown'
    BY DEF NobodyNewIsKnown, LiveTypeOK
  <1>4. s \notin todo[Loop] /\ heard[s] = <<>>
    BY DEF NobodyNewIsKnown, Senders
  <1>5. JoinedInTime'
    BY <1>4 DEF JoinedInTime, LiveTypeOK
  <1>6. ListenersHearEveryPlay'
    <2> SUFFICES ASSUME NEW u \in Sockets, link'[u] = "up"
                 PROVE  LET written == sending[Loop] /\ u \notin todo[Loop] /\ joined'[u] <= Len(sent)
                            begun == IF written THEN Append(sent, Head(messages)) ELSE sent
                        IN /\ u \in sockets'
                           /\ heard[u] = SubSeq(begun, joined'[u] + 1, Len(begun))
      BY DEF ListenersHearEveryPlay
    <2>1. CASE u = s
      <3>1. joined'[u] = Len(sent) + (IF sending[Loop] THEN 1 ELSE 0)
        BY <2>1 DEF LiveTypeOK
      <3>2. ~(sending[Loop] /\ joined'[u] <= Len(sent))
        BY <3>1
      <3>3. SubSeq(sent, joined'[u] + 1, Len(sent)) = <<>>
        BY <3>1
      <3>4. QED
        BY <1>4, <2>1, <3>2, <3>3
    <2>2. CASE u # s
      BY <2>2 DEF ListenersHearEveryPlay, LiveTypeOK
    <2>3. QED
      BY <2>1, <2>2
  <1>7. QED
    BY <1>1, <1>2, <1>3, <1>5, <1>6

LEMMA LeaveSockets ==
  ASSUME SocketInv, NEW s \in Sockets, Close(s) \/ Disconnected(s)
  PROVE  SocketInv'
  <1> USE DEF SocketInv, Close, Disconnected, watcherVars
  <1>1. LiveTypeOK'
    BY DEF LiveTypeOK
  <1>2. LoopSendsItsHead' /\ TheGoneAreDown' /\ NobodyNewIsKnown' /\ JoinedInTime'
    BY DEF LoopSendsItsHead, TheGoneAreDown, NobodyNewIsKnown, JoinedInTime, LiveTypeOK
  <1>3. ListenersHearEveryPlay'
    BY DEF ListenersHearEveryPlay, LiveTypeOK
  <1>4. QED
    BY <1>1, <1>2, <1>3

\* Third: a send begins or writes to one connection.
LEMMA StartSendSockets ==
  ASSUME SocketInv, NEW x \in Senders, StartSend(x)
  PROVE  SocketInv'
  <1> USE DEF SocketInv, StartSend, watcherVars
  <1>1. LiveTypeOK'
    BY DEF LiveTypeOK
  <1>2. LoopSendsItsHead'
    BY DEF LoopSendsItsHead, HasMessage, LiveTypeOK
  <1>3. TheGoneAreDown' /\ NobodyNewIsKnown'
    BY DEF TheGoneAreDown, NobodyNewIsKnown, LiveTypeOK
  <1>4. JoinedInTime'
    BY DEF JoinedInTime, LiveTypeOK
  <1>5. ListenersHearEveryPlay'
    BY DEF ListenersHearEveryPlay, LiveTypeOK
  <1>6. QED
    BY <1>1, <1>2, <1>3, <1>4, <1>5

\* What a connection has heard grows by the message it is written.
LEMMA OneMoreHeard ==
  ASSUME NEW S, NEW q \in Seq(S), NEW m \in S, NEW j \in Nat, j <= Len(q)
  PROVE  SubSeq(Append(q, m), j + 1, Len(q) + 1) = Append(SubSeq(q, j + 1, Len(q)), m)
  <1> DEFINE long == SubSeq(Append(q, m), j + 1, Len(q) + 1)
             short == SubSeq(q, j + 1, Len(q))
  <1>1. /\ short \in Seq(S) /\ Len(short) = Len(q) - j
        /\ \A i \in 1..(Len(q) - j) : short[i] = q[i + j]
    OBVIOUS
  <1>2. /\ Append(q, m) \in Seq(S) /\ Len(Append(q, m)) = Len(q) + 1
        /\ Append(q, m)[Len(q) + 1] = m
        /\ \A i \in 1..Len(q) : Append(q, m)[i] = q[i]
    OBVIOUS
  <1>3. /\ long \in Seq(S) /\ Len(long) = Len(q) + 1 - j
        /\ \A i \in 1..(Len(q) + 1 - j) : long[i] = Append(q, m)[i + j]
    BY <1>2
  <1>4. /\ Append(short, m) \in Seq(S) /\ Len(Append(short, m)) = Len(q) + 1 - j
        /\ Append(short, m)[Len(q) + 1 - j] = m
        /\ \A i \in 1..(Len(q) - j) : Append(short, m)[i] = short[i]
    BY <1>1
  <1> HIDE DEF long, short
  <1>5. ASSUME NEW i \in 1..(Len(q) + 1 - j) PROVE long[i] = Append(short, m)[i]
    <2>1. CASE i = Len(q) + 1 - j
      BY <1>2, <1>3, <1>4, <2>1
    <2>2. CASE i # Len(q) + 1 - j
      <3>1. i \in 1..(Len(q) - j) /\ i + j \in 1..Len(q)
        BY <2>2, Len(q) \in Nat
      <3>2. QED
        BY <1>1, <1>2, <1>3, <1>4, <3>1
    <2>3. QED
      BY <2>1, <2>2
  <1>6. long = Append(short, m)
    BY <1>3, <1>4, <1>5
  <1>7. QED
    BY <1>6 DEF long, short

LEMMA WriteSockets ==
  ASSUME SocketInv, WatcherTypeOK, NEW x \in Senders, NEW s \in Sockets, Write(x, s)
  PROVE  SocketInv'
  <1> USE DEF SocketInv, Write, watcherVars
  <1>0. /\ gone[x] \union {s} \in SUBSET Sockets
        /\ \/ gone' = gone
           \/ link[s] = "down" /\ gone' = [gone EXCEPT ![x] = gone[x] \union {s}]
    BY DEF LiveTypeOK
  <1>1. sending[Loop] => messages # <<>> /\ Head(messages) \in Replays
    BY DEF LoopSendsItsHead, WatcherTypeOK
  <1>2. LiveTypeOK'
    <2>1. x = Loop => Append(heard[s], Head(messages)) \in Seq(Replays)
      BY <1>1 DEF LiveTypeOK
    <2>2. heard' \in [Sockets -> Seq(Replays)]
      <3>1. CASE link[s] = "up" /\ x = Loop
        BY <2>1, <3>1 DEF LiveTypeOK
      <3>2. CASE ~(link[s] = "up" /\ x = Loop)
        BY <3>2 DEF LiveTypeOK
      <3>3. QED
        BY <3>1, <3>2
    <2>3. gone' \in [Senders -> SUBSET Sockets]
      BY <1>0 DEF LiveTypeOK
    <2>4. QED
      BY <2>2, <2>3 DEF LiveTypeOK
  <1>3. LoopSendsItsHead' /\ TheGoneAreDown' /\ JoinedInTime'
    <2>1. LoopSendsItsHead'
      BY DEF LoopSendsItsHead
    <2>2. TheGoneAreDown'
      <3>1. \A y \in Senders : gone'[y] \subseteq gone[y] \union {s}
        BY <1>0 DEF LiveTypeOK
      <3>2. gone' # gone => link[s] = "down"
        BY <1>0
      <3>3. QED
        BY <3>1, <3>2 DEF TheGoneAreDown
    <2>3. todo'[Loop] \subseteq todo[Loop]
      BY DEF LiveTypeOK, Senders
    <2>4. JoinedInTime'
      BY <2>3 DEF JoinedInTime
    <2>5. QED
      BY <2>1, <2>2, <2>4
  <1>4. NobodyNewIsKnown'
    BY DEF NobodyNewIsKnown, LiveTypeOK
  <1>5. ListenersHearEveryPlay'
    <2>1. CASE x = Loop /\ link[s] = "up"
      <3>1. joined[s] <= Len(sent) /\ heard[s] = SubSeq(sent, joined[s] + 1, Len(sent))
        BY <2>1 DEF JoinedInTime, ListenersHearEveryPlay
      <3>2. heard'[s] = Append(heard[s], Head(messages)) /\ s \notin todo'[Loop]
        BY <2>1 DEF LiveTypeOK, Senders
      <3>3. heard'[s] = SubSeq(Append(sent, Head(messages)), joined[s] + 1, Len(sent) + 1)
        <4>1. sent \in Seq(Replays) /\ joined[s] \in Nat /\ Head(messages) \in Replays
          BY <1>1, <2>1 DEF WatcherTypeOK, LiveTypeOK
        <4>2. SubSeq(Append(sent, Head(messages)), joined[s] + 1, Len(sent) + 1)
                = Append(SubSeq(sent, joined[s] + 1, Len(sent)), Head(messages))
          BY <3>1, <4>1, OneMoreHeard
        <4>3. QED
          BY <3>1, <3>2, <4>2
      <3>4. Len(Append(sent, Head(messages))) = Len(sent) + 1
        BY <1>1, <2>1 DEF WatcherTypeOK
      <3>5. \A u \in Sockets \ {s} : heard'[u] = heard[u] /\ (u \in todo'[Loop] <=> u \in todo[Loop])
        BY <2>1 DEF LiveTypeOK
      <3>6. QED
        BY <2>1, <3>1, <3>2, <3>3, <3>4, <3>5 DEF ListenersHearEveryPlay
    <2>2. CASE x # Loop
      BY <2>2 DEF ListenersHearEveryPlay, LiveTypeOK, Senders
    <2>3. CASE x = Loop /\ link[s] = "down"
      BY <2>3 DEF ListenersHearEveryPlay, LiveTypeOK
    <2>4. QED
      BY <2>1, <2>2, <2>3
  <1>6. QED
    BY <1>2, <1>3, <1>4, <1>5

\* Fourth: a send ends.  The watcher's moves its message into what was sent;
\* everyone of its snapshot has been written to by then.
LEMMA EndSendSockets ==
  ASSUME SocketInv, WatcherTypeOK, NEW x \in Senders, EndSend(x)
  PROVE  SocketInv'
  <1> USE DEF SocketInv, EndSend
  <1>1. x = Loop => Send
    OBVIOUS
  <1>2. x # Loop => UNCHANGED watcherVars
    OBVIOUS
  <1>3. x = Loop => sent' = Append(sent, Head(messages)) /\ Len(sent') = Len(sent) + 1
    BY <1>1 DEF Send, WatcherTypeOK
  <1>4. LiveTypeOK'
    BY DEF LiveTypeOK
  <1>5. LoopSendsItsHead'
    BY <1>2 DEF LoopSendsItsHead, LiveTypeOK, watcherVars
  <1>6. TheGoneAreDown' /\ NobodyNewIsKnown'
    BY DEF TheGoneAreDown, NobodyNewIsKnown
  <1>7. JoinedInTime'
    <2>1. CASE x = Loop
      BY <1>3, <2>1 DEF JoinedInTime, LiveTypeOK, WatcherTypeOK
    <2>2. CASE x # Loop
      BY <1>2, <2>2 DEF JoinedInTime, LiveTypeOK, watcherVars
    <2>3. QED
      BY <2>1, <2>2
  <1>8. ListenersHearEveryPlay'
    <2> SUFFICES ASSUME NEW s \in Sockets, link[s] = "up"
                 PROVE  LET written == sending'[Loop] /\ s \notin todo[Loop]
                                         /\ joined[s] <= Len(sent')
                            begun == IF written THEN Append(sent', Head(messages')) ELSE sent'
                        IN /\ s \in sockets'
                           /\ heard[s] = SubSeq(begun, joined[s] + 1, Len(begun))
      BY DEF ListenersHearEveryPlay
    <2>1. s \in sockets'
      BY DEF ListenersHearEveryPlay, TheGoneAreDown
    <2>2. CASE x = Loop
      <3>1. ~sending'[Loop] /\ sending[Loop] /\ todo[Loop] = {}
        BY <2>2 DEF LiveTypeOK
      <3>2. CASE joined[s] <= Len(sent)
        BY <1>3, <2>1, <2>2, <3>1, <3>2 DEF ListenersHearEveryPlay
      <3>3. CASE joined[s] = Len(sent) + 1
        <4>1. heard[s] = SubSeq(sent, joined[s] + 1, Len(sent))
          BY <3>3, Len(sent) \in Nat, ~(joined[s] <= Len(sent))
          DEF ListenersHearEveryPlay, WatcherTypeOK
        <4>2. heard[s] = <<>>
          BY <3>3, <4>1 DEF WatcherTypeOK
        <4>3. SubSeq(sent', joined[s] + 1, Len(sent')) = <<>>
          BY <1>3, <2>2, <3>3 DEF WatcherTypeOK
        <4>4. QED
          BY <2>1, <3>1, <4>2, <4>3
      <3>4. joined[s] <= Len(sent) + 1
        BY <3>1 DEF JoinedInTime
      <3>5. QED
        <4>1. joined[s] \in Nat /\ Len(sent) \in Nat
          BY DEF LiveTypeOK, WatcherTypeOK
        <4>2. joined[s] <= Len(sent) \/ joined[s] = Len(sent) + 1
          BY <3>4, <4>1
        <4>3. QED
          BY <3>2, <3>3, <4>2
    <2>3. CASE x # Loop
      <3>1. sending'[Loop] = sending[Loop] /\ UNCHANGED <<sent, messages>>
        BY <1>2, <2>3 DEF watcherVars, LiveTypeOK, Senders
      <3>2. QED
        BY <2>1, <3>1 DEF ListenersHearEveryPlay
    <2>4. QED
      BY <2>2, <2>3
  <1>9. QED
    BY <1>4, <1>5, <1>6, <1>7, <1>8

-----------------------------------------------------------------------------
\* A task is spawned for a play that is in the facts by then, and a play gets
\* served in the step that spawns its task.
LEMMA ServePlayAsked ==
  ASSUME WatcherTypeOK, CorpusInv, AskedInv, NEW p \in Replays, OnNewReplay(p)
  PROVE  AskedInv'
  <1> USE OnePushPerReplay DEF AskedInv, OnNewReplay, corpusVars
  <1>1. payloads' = payloads \union {p} /\ payload' = payload
    BY DEF Built, Refresh
  <1>2. task'[p] # "idle"
    <2>1. CASE task[p] = "idle"
      BY <2>1 DEF Refresh, CorpusInv, CorpusTypeOK
    <2>2. CASE task[p] # "idle"
      BY <2>2
    <2>3. QED
      BY <2>1, <2>2
  <1>3. \A t \in Tasks : task[t] # "idle" => task'[t] # "idle"
    BY DEF Refresh, CorpusInv, CorpusTypeOK
  <1>4. TasksKnowTheirPlay'
    <2> SUFFICES ASSUME NEW t \in Tasks, task'[t] # "idle" PROVE t \in asked'[t]
      BY DEF TasksKnowTheirPlay
    <2>1. CASE t = p /\ task[p] = "idle"
      BY <2>1 DEF Refresh, CorpusInv, CorpusTypeOK
    <2>2. CASE t # p \/ task[p] # "idle"
      BY <2>2 DEF Refresh, CorpusInv, CorpusTypeOK, TasksKnowTheirPlay
    <2>3. QED
      BY <2>1, <2>2
  <1>5. ServedIsAsked'
    BY <1>1, <1>2, <1>3 DEF ServedIsAsked, WatcherTypeOK
  <1>6. QED
    BY <1>4, <1>5

\* Every other step serves no new play, spawns no task and takes nothing from
\* the answer.
LEMMA OtherStepsAsked ==
  ASSUME WatcherInv, CorpusInv, AskedInv, [LiveNext]_liveVars,
         \A p \in Replays : ~OnNewReplay(p)
  PROVE  AskedInv'
  <1> USE OnePushPerReplay
  <1>1. payloads' = payloads
    <2>1. Poll \/ (\E p \in Replays : Remember(p)) => payloads' = payloads
      BY DEF Poll, List, ListRaises, NotReadable, ReadReplay, BuildRaises, EndPoll, Sleep, Remember,
             watcherVars
    <2>2. ASSUME NEW x \in Senders, Sends(x) PROVE payloads' = payloads
      BY <2>2 DEF Sends, StartSend, Write, EndSend, Send, watcherVars
    <2>3. Threads \/ GameWrites => payloads' = payloads
      BY DEF Threads, GameWrites, Folder, watcherVars
    <2>4. ASSUME NEW s \in Sockets, Connect(s) \/ Close(s) \/ Disconnected(s)
          PROVE  payloads' = payloads
      BY <2>4 DEF Connect, Close, Disconnected, watcherVars
    <2>5. QED
      BY <2>1, <2>2, <2>3, <2>4
      DEF LiveNext, Server, WatcherTask, Browsers, Senders, liveVars, watcherVars
  <1>2. payload \subseteq payload'
    BY LiveStepOfCorpus, ServedAnswerGrows
  <1>3. /\ asked' = asked
        /\ \A t \in Tasks : task'[t] = "idle" <=> task[t] = "idle"
    <2> USE DEF CorpusInv, CorpusTypeOK
    <2>1. ASSUME NEW t \in Tasks, Worker(t) \/ Push(t)
          PROVE  /\ asked' = asked
                 /\ \A u \in Tasks : task'[u] = "idle" <=> task[u] = "idle"
      BY <2>1 DEF Worker, ReturnCached, StartBuild, Publish, BuildFails, Push
    <2>2. ASSUME NEW x \in Senders, Sends(x)
          PROVE  UNCHANGED corpusVars \/ \E t \in Tasks : Push(t)
      BY <2>2, LoopAssumption DEF Sends, StartSend, Write, EndSend, Senders
    <2>3. Threads => \E t \in Tasks : Worker(t)
      BY DEF Threads
    <2>4. (\E p \in Replays : Remember(p)) => UNCHANGED <<task, asked>>
      BY DEF Remember, Add
    <2>5. Poll \/ GameWrites => UNCHANGED corpusVars
      BY DEF Poll, GameWrites
    <2>6. ASSUME NEW s \in Sockets, Connect(s) \/ Close(s) \/ Disconnected(s)
          PROVE  UNCHANGED corpusVars
      BY <2>6 DEF Connect, Close, Disconnected
    <2>7. QED
      BY <2>1, <2>2, <2>3, <2>4, <2>5, <2>6
      DEF LiveNext, Server, WatcherTask, Browsers, Senders, liveVars, corpusVars
  <1>4. QED
    BY <1>1, <1>2, <1>3
    DEF AskedInv, TasksKnowTheirPlay, ServedIsAsked, WatcherInv, WatcherTypeOK

LEMMA LiveNextInv == LiveInv /\ [LiveNext]_liveVars => LiveInv'
  <1> SUFFICES ASSUME LiveInv, [LiveNext]_liveVars PROVE LiveInv'
    OBVIOUS
  <1> USE DEF LiveInv
  <1>1. WatcherInv' /\ CorpusInv'
    BY LiveStepOfWatcher, LiveStepOfCorpus, WatcherNextInv, CorpusNextInv
  <1>2. SocketInv'
    <2>1. CASE Poll \/ (\E p \in Replays : Remember(p) \/ OnNewReplay(p)) \/ Threads \/ GameWrites
      BY <2>1, PollSockets
    <2>2. ASSUME NEW x \in Senders, Sends(x) PROVE SocketInv'
      BY <2>2, StartSendSockets, WriteSockets, EndSendSockets DEF Sends, WatcherInv
    <2>3. ASSUME NEW s \in Sockets, Connect(s) PROVE SocketInv'
      BY <2>3, ConnectSockets DEF WatcherInv, WatcherTypeOK
    <2>4. ASSUME NEW s \in Sockets, Close(s) \/ Disconnected(s) PROVE SocketInv'
      BY <2>4, LeaveSockets
    <2>5. CASE UNCHANGED liveVars
      BY <2>5, AwayFromSockets DEF liveVars, watcherVars
    <2>6. QED
      BY <2>1, <2>2, <2>3, <2>4, <2>5 DEF LiveNext, Server, WatcherTask, Browsers, Senders
  <1>3. AskedInv'
    BY ServePlayAsked, OtherStepsAsked DEF WatcherInv
  <1>4. QED
    BY <1>1, <1>2, <1>3

LEMMA LiveInvariant == LiveSpec => []LiveInv
  BY LiveInitInv, LiveNextInv, PTL DEF LiveSpec

-----------------------------------------------------------------------------
\* forge serve, live.py: beside the corpus, the push tasks and the pages, the
\* watcher still behaves as it does alone; what is proved of it holds here.
THEOREM ServerRunsTheWatcher == LiveSpec => WatcherSpec
  <1>1. LiveInit => WatcherInit
    BY DEF LiveInit
  <1>2. QED
    BY <1>1, LiveStepOfWatcher, PTL DEF LiveSpec, WatcherSpec

\* forge serve, corpus.py: only the watcher adds plays and asks for refreshes,
\* and the corpus behaves as it does under any caller.
THEOREM ServerRunsTheCorpus == LiveSpec => CorpusSpec
  <1>1. LiveInit => CorpusInit
    BY DEF LiveInit
  <1>2. QED
    BY <1>1, LiveStepOfCorpus, PTL DEF LiveSpec, CorpusSpec

\* The Broadcaster's registry, its sends and the connections keep their types.
THEOREM LiveTypeCorrect == LiveSpec => []LiveTypeOK
  <1>1. LiveInv => LiveTypeOK
    BY DEF LiveInv, SocketInv
  <1>2. QED
    BY <1>1, LiveInvariant, PTL

\* live.py, Broadcaster.send: a page that is connected is registered and has
\* heard every play broadcast since it joined, once and in order, however many
\* pages come and go while sends are blocked.
THEOREM EveryListenerHears == LiveSpec => []ListenersHearEveryPlay
  <1>1. LiveInv => ListenersHearEveryPlay
    BY DEF LiveInv, SocketInv
  <1>2. QED
    BY <1>1, LiveInvariant, PTL

\* cli._serve, refresh_corpus: with every refresh answered, the corpus covers
\* what the list endpoint serves.
THEOREM CorpusCoversWhatIsServed == LiveSpec => []CorpusCatchesUp
  <1>1. LiveInv => CorpusCatchesUp
    <2> SUFFICES ASSUME LiveInv,
                        \A t \in Tasks : task[t] \in {"idle", "answered", "pushed"},
                        NEW p \in payloads
                 PROVE  p \in payload
      BY DEF CorpusCatchesUp
    <2>1. p \in Tasks
      BY OnePushPerReplay DEF LiveInv, WatcherInv, WatcherTypeOK
    <2>2. CASE task[p] = "idle"
      BY <2>2 DEF LiveInv, AskedInv, ServedIsAsked
    <2>3. CASE task[p] \in {"answered", "pushed"}
      BY <2>1, <2>3 DEF LiveInv, AskedInv, TasksKnowTheirPlay, CorpusInv, NoAddedPlayIsLost
    <2>4. QED
      BY <2>1, <2>2, <2>3
  <1>2. QED
    BY <1>1, LiveInvariant, PTL
=============================================================================
