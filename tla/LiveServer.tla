---------------------------- MODULE LiveServer ----------------------------
(***************************************************************************)
(* forge serve while it runs: the watcher, the corpus with its push tasks, *)
(* and the Broadcaster that writes to every page listening on /ws.         *)
(*                                                                         *)
(* One event loop runs the watcher, the push tasks and the socket          *)
(* endpoints; a coroutine keeps it until it awaits something that blocks.  *)
(* poll() and the builds under it never do, so while the watcher polls     *)
(* only worker threads, the browsers and the replay folder move.  A send   *)
(* may block at every socket.                                              *)
(***************************************************************************)
EXTENDS Watcher, CorpusRefresh

CONSTANTS
  Sockets,   \* connections, each used for one lifetime of a page's socket
  Loop       \* the watcher's own task, as a sender beside the push tasks

ASSUME OnePushPerReplay == Plays = Replays /\ Tasks = Replays
ASSUME LoopAssumption == Loop \notin Tasks

Senders == Tasks \union {Loop}

VARIABLES
  sockets,   \* Broadcaster.sockets
  link,      \* each connection as the browser sees it: "new", "up", "down"
  sending,   \* senders inside Broadcaster.send
  todo,      \* each send's snapshot of the sockets, less those written to
  gone,      \* each send's `gone`: sockets whose write raised
  heard,     \* plays each connection has been told of, in order
  joined     \* broadcasts begun before each connection was listening (history)

socketVars == <<sockets, link, sending, todo, gone, heard, joined>>
liveVars == <<watcherVars, corpusVars, socketVars>>

\* What the startup scan prepared is in the corpus before it serves, with the
\* older plays the cache restored.
LiveInit ==
  /\ WatcherInit
  /\ CorpusInit
  /\ payloads \subseteq facts
  /\ facts \subseteq primed
  /\ sockets = {}
  /\ link = [s \in Sockets |-> "new"]
  /\ sending = [x \in Senders |-> FALSE]
  /\ todo = [x \in Senders |-> {}]
  /\ gone = [x \in Senders |-> {}]
  /\ heard = [s \in Sockets |-> <<>>]
  /\ joined = [s \in Sockets |-> 0]

LoopIsFree == phase \notin {"polling", "building"}

-----------------------------------------------------------------------------
\* cli._serve remember(): inside the build, before anything can raise.
Remember(p) ==
  /\ Building(p)
  /\ Add(p)
  /\ UNCHANGED <<watcherVars, socketVars>>

\* Mutant: the new play is pushed, the corpus answer is not asked for.
OnNewReplayAsksNothing(p) ==
  /\ p \in facts
  /\ Built(p)
  /\ UNCHANGED <<corpusVars, socketVars>>

\* cli._serve on_new_replay, after prepare_replay returned a payload.  Tasks are
\* named after plays: a play announced again would have its first task's.
OnNewReplay(p) ==
  /\ p \in facts
  /\ Built(p)
  /\ IF task[p] = "idle" THEN Refresh(p) ELSE UNCHANGED corpusVars
  /\ UNCHANGED socketVars

Poll ==
  /\ \/ List \/ ListRaises
     \/ \E p \in Replays : NotReadable(p) \/ ReadReplay(p) \/ BuildRaises(p)
     \/ EndPoll
     \/ Sleep
  /\ UNCHANGED <<corpusVars, socketVars>>

Threads ==
  /\ \E t \in Tasks : Worker(t)
  /\ UNCHANGED <<watcherVars, socketVars>>

GameWrites ==
  /\ Folder
  /\ UNCHANGED <<corpusVars, socketVars>>

-----------------------------------------------------------------------------
\* app.py socket(): the handshake is over and the socket is added.
Connect(s) ==
  /\ LoopIsFree
  /\ link[s] = "new"
  /\ link' = [link EXCEPT ![s] = "up"]
  /\ sockets' = sockets \union {s}
  /\ joined' = [joined EXCEPT ![s] = Len(sent) + (IF sending[Loop] THEN 1 ELSE 0)]
  /\ UNCHANGED <<watcherVars, corpusVars, sending, todo, gone, heard>>

\* The tab is closed, or the connection drops: the server does not know yet.
Close(s) ==
  /\ link[s] = "up"
  /\ link' = [link EXCEPT ![s] = "down"]
  /\ UNCHANGED <<watcherVars, corpusVars, sockets, sending, todo, gone, heard, joined>>

\* receive_json raises, and the endpoint's `finally` unregisters the socket.
Disconnected(s) ==
  /\ LoopIsFree
  /\ link[s] = "down"
  /\ s \in sockets
  /\ sockets' = sockets \ {s}
  /\ UNCHANGED <<watcherVars, corpusVars, link, sending, todo, gone, heard, joined>>

-----------------------------------------------------------------------------
HasMessage(x) ==
  IF x = Loop THEN phase = "sending" /\ messages # <<>> ELSE task[x] = "answered"

\* Mutant: a send that finds another one under way is skipped.
StartSendUnlessBusy(x) ==
  /\ LoopIsFree
  /\ HasMessage(x)
  /\ ~sending[x]
  /\ sending' = [sending EXCEPT ![x] = TRUE]
  /\ todo' = [todo EXCEPT ![x] = IF \E y \in Senders : sending[y] THEN {} ELSE sockets]
  /\ gone' = [gone EXCEPT ![x] = {}]
  /\ UNCHANGED <<watcherVars, corpusVars, sockets, link, heard, joined>>

\* `list(self.sockets)`: who connects after this is not written to.
\* The watcher begins a send as soon as it has a message; the model lets other
\* coroutines come between, which only adds interleavings.
StartSend(x) ==
  /\ LoopIsFree
  /\ HasMessage(x)
  /\ ~sending[x]
  /\ sending' = [sending EXCEPT ![x] = TRUE]
  /\ todo' = [todo EXCEPT ![x] = sockets]
  /\ gone' = [gone EXCEPT ![x] = {}]
  /\ UNCHANGED <<watcherVars, corpusVars, sockets, link, heard, joined>>

\* Mutant: a socket that goes away ends the send for the ones after it.
WriteStopsAtTheFirstGone(x, s) ==
  /\ LoopIsFree
  /\ sending[x]
  /\ s \in todo[x]
  /\ todo' = [todo EXCEPT ![x] = IF link[s] = "up" THEN @ \ {s} ELSE {}]
  /\ heard' = IF link[s] = "up" /\ x = Loop
                THEN [heard EXCEPT ![s] = Append(@, Head(messages))]
                ELSE heard
  /\ UNCHANGED <<watcherVars, corpusVars, sockets, link, sending, gone, joined>>

\* await socket.send_json(message), for one socket of the snapshot.
Write(x, s) ==
  /\ LoopIsFree
  /\ sending[x]
  /\ s \in todo[x]
  /\ todo' = [todo EXCEPT ![x] = @ \ {s}]
  /\ \/ /\ link[s] = "up"
        /\ heard' = IF x = Loop THEN [heard EXCEPT ![s] = Append(@, Head(messages))]
                                ELSE heard
        /\ UNCHANGED gone
     \/ /\ link[s] = "down"
        /\ gone' = [gone EXCEPT ![x] = @ \union {s}]
        /\ UNCHANGED heard
  /\ UNCHANGED <<watcherVars, corpusVars, sockets, link, sending, joined>>

\* The loop over the snapshot is done: the raising sockets are discarded, and
\* the sender goes on to its next message or ends.
EndSend(x) ==
  /\ LoopIsFree
  /\ sending[x]
  /\ todo[x] = {}
  /\ sending' = [sending EXCEPT ![x] = FALSE]
  /\ sockets' = sockets \ gone[x]
  /\ IF x = Loop THEN Send /\ UNCHANGED corpusVars ELSE Push(x) /\ UNCHANGED watcherVars
  /\ UNCHANGED <<link, todo, gone, heard, joined>>

Sends(x) == StartSend(x) \/ (\E s \in Sockets : Write(x, s)) \/ EndSend(x)

\* The watcher's task, Watcher.run.
WatcherTask ==
  \/ Poll
  \/ \E p \in Replays : Remember(p) \/ OnNewReplay(p)
  \/ Sends(Loop)

Server ==
  \/ WatcherTask
  \/ Threads
  \/ \E t \in Tasks : Sends(t)
  \/ \E s \in Sockets : Disconnected(s)

Browsers == \E s \in Sockets : Connect(s) \/ Close(s)

LiveNext == Server \/ Browsers \/ GameWrites

LiveSpec == LiveInit /\ [][LiveNext]_liveVars

\* Every coroutine gets its turn, and so does every worker thread.  A socket
\* write ends: the WebSocket server's ping timeout closes a peer that stopped
\* reading.  A push task that is ready while the watcher polls runs when the
\* poll is over, the loop's ready queue being first in, first out: hence the
\* strong fairness.  Nothing obliges osu!, the player or a browser.
LiveFairness ==
  /\ WF_liveVars(WatcherTask)
  /\ \A t \in Tasks :
       /\ WF_liveVars(Worker(t) /\ UNCHANGED <<watcherVars, socketVars>>)
       /\ SF_liveVars(Sends(t))

LiveFairSpec == LiveSpec /\ LiveFairness

-----------------------------------------------------------------------------
\* live.py, Broadcaster: whichever pages come, go and fail around a send, a
\* page that is connected is registered, and has been told of every play whose
\* broadcast began after it joined, each once and in order.
ListenersHearEveryPlay ==
  \A s \in Sockets : link[s] = "up" =>
    LET written == sending[Loop] /\ s \notin todo[Loop] /\ joined[s] <= Len(sent)
        begun == IF written THEN Append(sent, Head(messages)) ELSE sent
    IN /\ s \in sockets
       /\ heard[s] = SubSeq(begun, joined[s] + 1, Len(begun))

\* cli._serve, refresh_corpus: when every refresh that was asked for has its
\* answer, the corpus answer covers every play the list endpoint serves.
CorpusCatchesUp ==
  (\A t \in Tasks : task[t] \in {"idle", "answered", "pushed"}) => payloads \subseteq payload

\* cli._serve: "new plays appear without a reload".  A page that stays connected
\* is told of a play that was finished, unless the watcher had given it up or
\* its pass failed around it.
PlayReachesThePage ==
  \A p \in Replays, s \in Sockets :
    file[p] = "whole" /\ p \notin seen /\ link[s] = "up"
      ~> \/ p \in ToSet(heard[s]) \union abandoned \union lost
         \/ file[p] = "deleted" \/ link[s] = "down"

\* cli._serve, refresh_corpus: the corpus answer that covers a new play is
\* eventually sent to the pages, unless its computation fails.
CorpusIsPushed ==
  \A p \in Replays :
    p \in payloads \ primed
      ~> (p \in payload /\ task[p] = "pushed") \/ task[p] = "failed"
=============================================================================
