------------------------------ MODULE Watcher ------------------------------
(***************************************************************************)
(* server/live.py Watcher, with the build callback cli._serve gives it.    *)
(*                                                                         *)
(* One pass lists the folder once, then builds the files of that listing   *)
(* one by one while osu! and the player go on changing the folder, then    *)
(* hands the messages of the pass to the broadcaster.  Files are built in  *)
(* mtime order; mtimes are left free, so a listing is in any order.  An    *)
(* exception anywhere in a pass ends the pass (contextlib.suppress).       *)
(***************************************************************************)
EXTENDS Naturals, SequencesExt, ReplayFolder

CONSTANTS
  SettleAttempts,   \* SETTLE_ATTEMPTS
  MaxFaults         \* bound: passes that an exception ends

ASSUME ReplaysAreFinite == IsFiniteSet(Replays)
ASSUME SettleAssumption == SettleAttempts \in Nat \ {0}
ASSUME FaultsAssumption == MaxFaults \in Nat

VARIABLES
  seen, failures, abandoned,   \* the fields of Watcher
  phase,      \* run(): asleep, in poll(), inside build(), or broadcasting
  queue,      \* candidates of this pass that are still to be built
  messages,   \* what poll() collected and run() has not sent yet
  payloads,   \* the keys of the payloads the endpoints serve
  primed,     \* names known at startup (history)
  sent,       \* names broadcast, in order (history)
  lost,       \* names whose message was dropped with its pass (history)
  faults      \* passes an exception ended so far

watcherVars ==
  <<file, seen, failures, abandoned, phase, queue, messages, payloads, primed,
    sent, lost, faults>>

\* cli._serve: everything found is primed, readable or not; the newest
\* readable ones are served, and with none the command ends.
Prime(found) ==
  /\ primed = found
  /\ seen = found

WatcherInit ==
  /\ file \in [Replays -> {"absent", "partial", "foreign", "whole"}]
  /\ Prime({p \in Replays : OnDisk(p)})
  /\ payloads \in (SUBSET {p \in Replays : Judged(p)}) \ {{}}
  /\ failures = [p \in Replays |-> 0]
  /\ abandoned = {}
  /\ phase = "asleep"
  /\ queue = <<>>
  /\ messages = <<>>
  /\ sent = <<>>
  /\ lost = {}
  /\ faults = 0

\* Mutant: a name that was broadcast is not remembered.
FreshForgetsSeen == {p \in Replays : OnDisk(p) /\ p \notin primed /\ p \notin abandoned}

\* Mutant: a file that could not be read once is not looked at again.
FreshIsTriedOnce ==
  {p \in Replays : OnDisk(p) /\ p \notin seen /\ p \notin abandoned /\ failures[p] = 0}

Fresh == {p \in Replays : OnDisk(p) /\ p \notin seen /\ p \notin abandoned}

\* candidates().  A folder that cannot be listed is a pass with nothing in it.
List ==
  /\ phase = "asleep"
  /\ phase' = "polling"
  /\ queue' \in SetToSeqs(Fresh)
  /\ messages' = <<>>
  /\ UNCHANGED <<file, seen, failures, abandoned, payloads, primed, sent, lost, faults>>

\* The sort of candidates() stats every file: one that is gone by then raises,
\* and the pass ends before it has built anything.
ListRaises ==
  /\ phase = "asleep"
  /\ Fresh # {}
  /\ faults < MaxFaults
  /\ faults' = faults + 1
  /\ UNCHANGED <<file, seen, failures, abandoned, phase, queue, messages, payloads,
                 primed, sent, lost>>

IsNext(p) == phase = "polling" /\ queue # <<>> /\ p = Head(queue)

\* build returned None: counted, and at the limit given up on.
NotReadable(p) ==
  /\ IsNext(p)
  /\ ~Judged(p)
  /\ queue' = Tail(queue)
  /\ IF failures[p] + 1 >= SettleAttempts
       THEN /\ abandoned' = abandoned \union {p}
            /\ failures' = [failures EXCEPT ![p] = 0]
       ELSE /\ failures' = [failures EXCEPT ![p] = @ + 1]
            /\ UNCHANGED abandoned
  /\ UNCHANGED <<file, seen, phase, messages, payloads, primed, sent, lost, faults>>

\* Mutant: the name is marked before its build, not after.
MarkedBeforeItsBuild(p) ==
  /\ IsNext(p)
  /\ Judged(p)
  /\ phase' = "building"
  /\ seen' = seen \union {p}
  /\ UNCHANGED <<file, failures, abandoned, queue, messages, payloads, primed, sent,
                 lost, faults>>

\* judge read the replay: from here on the file itself no longer decides.
ReadReplay(p) ==
  /\ IsNext(p)
  /\ Judged(p)
  /\ phase' = "building"
  /\ UNCHANGED <<file, seen, failures, abandoned, queue, messages, payloads, primed,
                 sent, lost, faults>>

Building(p) == phase = "building" /\ p = Head(queue)

\* build returned a message: the payload is served from here on.
Built(p) ==
  /\ Building(p)
  /\ phase' = "polling"
  /\ queue' = Tail(queue)
  /\ failures' = [failures EXCEPT ![p] = 0]
  /\ seen' = seen \union {p}
  /\ payloads' = payloads \union {p}
  /\ messages' = Append(messages, p)
  /\ UNCHANGED <<file, abandoned, primed, sent, lost, faults>>

\* build raised: judge on a file that cannot be opened, or remember() with its
\* stat of a replay that is gone by then.  The pass ends, its messages with it.
BuildRaises(p) ==
  /\ IsNext(p) \/ Building(p)
  /\ faults < MaxFaults
  /\ faults' = faults + 1
  /\ phase' = "asleep"
  /\ queue' = <<>>
  /\ messages' = <<>>
  /\ lost' = lost \union ToSet(messages)
  /\ UNCHANGED <<file, seen, failures, abandoned, payloads, primed, sent>>

EndPoll ==
  /\ phase = "polling"
  /\ queue = <<>>
  /\ phase' = "sending"
  /\ UNCHANGED <<file, seen, failures, abandoned, queue, messages, payloads, primed,
                 sent, lost, faults>>

\* await broadcaster.send(message), which never raises.
Send ==
  /\ phase = "sending"
  /\ messages # <<>>
  /\ sent' = Append(sent, Head(messages))
  /\ messages' = Tail(messages)
  /\ UNCHANGED <<file, seen, failures, abandoned, phase, queue, payloads, primed, lost,
                 faults>>

Sleep ==
  /\ phase = "sending"
  /\ messages = <<>>
  /\ phase' = "asleep"
  /\ UNCHANGED <<file, seen, failures, abandoned, queue, messages, payloads, primed,
                 sent, lost, faults>>

Build(p) == NotReadable(p) \/ ReadReplay(p) \/ Built(p) \/ BuildRaises(p)

Watch == List \/ ListRaises \/ (\E p \in Replays : Build(p)) \/ EndPoll \/ Send \/ Sleep

Folder ==
  /\ \E p \in Replays : Game(p)
  /\ UNCHANGED <<seen, failures, abandoned, phase, queue, messages, payloads, primed,
                 sent, lost, faults>>

WatcherNext == Watch \/ Folder

WatcherSpec == WatcherInit /\ [][WatcherNext]_watcherVars
\* The loop is an asyncio task: while the process lives it always gets to
\* run.  Nothing obliges osu! or the player.
WatcherFairSpec == WatcherSpec /\ WF_watcherVars(Watch)

-----------------------------------------------------------------------------
WatcherTypeOK ==
  /\ file \in [Replays -> Contents]
  /\ seen \in SUBSET Replays
  /\ failures \in [Replays -> 0..(SettleAttempts - 1)]
  /\ abandoned \in SUBSET Replays
  /\ phase \in {"asleep", "polling", "building", "sending"}
  /\ queue \in Seq(Replays)
  /\ messages \in Seq(Replays)
  /\ payloads \in SUBSET Replays
  /\ primed \in SUBSET Replays
  /\ sent \in Seq(Replays)
  /\ lost \in SUBSET Replays
  /\ faults \in 0..MaxFaults

\* "A file is reported once" (test_server_live.py), whatever passes fail in
\* between: nothing is pushed twice, nothing found at startup is pushed, and
\* what was dropped with a failed pass is not pushed later.
NoPlayIsPushedTwice ==
  /\ IsInjective(sent \o messages)
  /\ ToSet(sent \o messages) \intersect (primed \union lost) = {}

\* Every name seen since startup is accounted for: on its way, pushed, or
\* dropped with the pass that failed around it.  And a page that is told of a
\* play can load it: app.py's endpoints never answer 404 for a pushed name.
EverySeenPlayIsAccountedFor ==
  /\ seen = primed \union lost \union ToSet(sent) \union ToSet(messages)
  /\ seen \ primed \subseteq payloads

\* What becomes of a play that can be read: it is announced, unless its pass
\* failed around it, it had been given up before, or the player deletes it.
Taken(p) == p \in ToSet(sent) \union lost \union abandoned \/ file[p] = "deleted"

\* live.py: a file that is never readable "stops being retried rather than
\* being retried forever", and one that becomes readable in time is announced,
\* whatever other files of the listing do.  Not a file that was there when the
\* server started: it is primed, also when osu! is still writing it (cli.py:869),
\* and the watcher never looks at it again.
FinishedPlayIsTaken ==
  \A p \in Replays : file[p] = "whole" /\ p \notin primed ~> Taken(p)

=============================================================================
