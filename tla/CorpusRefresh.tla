--------------------------- MODULE CorpusRefresh ---------------------------
(***************************************************************************)
(* server/corpus.py CorpusState and the push tasks of cli._serve.          *)
(*                                                                         *)
(* The event loop adds plays and spawns one push task for each of them; a  *)
(* push task runs CorpusState.recompute on a worker thread (to_thread) and *)
(* then sends the answer.  recompute copies the facts and compares their   *)
(* key while holding a lock; adding takes no lock.  A play's facts are     *)
(* abstracted to its name: the key the code compares is the set of names,  *)
(* and a replay is not rewritten once osu! has finished it.                *)
(***************************************************************************)
EXTENDS FiniteSets

CONSTANTS
  Plays,     \* replay names
  Tasks,     \* push() tasks, each spawned at most once
  NoTask     \* the lock's holder when it is free

ASSUME NoTaskAssumption == NoTask \notin Tasks

VARIABLES
  facts,        \* CorpusState._facts, its keys
  lock,         \* CorpusState._lock
  computedFor,  \* CorpusState._computed_for
  payload,      \* CorpusState._payload: the plays it was computed from
  task,         \* where each push task is
  asked,        \* facts at the moment the task was spawned (history)
  view,         \* recompute's local `key`, the names it copied
  answer        \* push's local `fresh`

corpusVars == <<facts, lock, computedFor, payload, task, asked, view, answer>>

TaskStates == {"idle", "queued", "building", "answered", "pushed", "failed"}

\* recompute() has run once, synchronously, before the server starts.
CorpusInit ==
  /\ facts \in SUBSET Plays
  /\ lock = NoTask
  /\ payload = facts
  /\ computedFor = facts
  /\ task = [t \in Tasks |-> "idle"]
  /\ asked = [t \in Tasks |-> {}]
  /\ view = [t \in Tasks |-> {}]
  /\ answer = [t \in Tasks |-> {}]

\* CorpusState.add: takes no lock, so it may fall inside a recompute.
Add(p) ==
  /\ facts' = facts \union {p}
  /\ UNCHANGED <<lock, computedFor, payload, task, asked, view, answer>>

\* refresh_corpus: create_task(push()).
Refresh(t) ==
  /\ task[t] = "idle"
  /\ task' = [task EXCEPT ![t] = "queued"]
  /\ asked' = [asked EXCEPT ![t] = facts]
  /\ UNCHANGED <<facts, lock, computedFor, payload, view, answer>>

\* Mutant: every worker enters recompute at once.
LockIgnored(t) == TRUE

\* `with self._lock:`
LockIsFree(t) == lock = NoTask

\* The worker takes the lock, copies the facts and finds the key unchanged:
\* the previous answer is returned and the lock released.
ReturnCached(t) ==
  /\ task[t] = "queued"
  /\ LockIsFree(t)
  /\ facts = computedFor
  /\ task' = [task EXCEPT ![t] = "answered"]
  /\ view' = [view EXCEPT ![t] = facts]
  /\ answer' = [answer EXCEPT ![t] = payload]
  /\ UNCHANGED <<facts, lock, computedFor, payload, asked>>

\* The key is a new one: the statistics run, for seconds, under the lock.
StartBuild(t) ==
  /\ task[t] = "queued"
  /\ LockIsFree(t)
  /\ facts # computedFor
  /\ lock' = t
  /\ task' = [task EXCEPT ![t] = "building"]
  /\ view' = [view EXCEPT ![t] = facts]
  /\ UNCHANGED <<facts, computedFor, payload, asked, answer>>

\* Mutant: the key is taken when the answer is stored, not when it was copied.
KeyWhenStored(t) == facts

\* `key = frozenset(facts)`, of the copy the answer was computed from.
KeyOf(t) == view[t]

Publish(t) ==
  /\ task[t] = "building"
  /\ payload' = view[t]
  /\ computedFor' = KeyOf(t)
  /\ lock' = NoTask
  /\ answer' = [answer EXCEPT ![t] = view[t]]
  /\ task' = [task EXCEPT ![t] = "answered"]
  /\ UNCHANGED <<facts, asked, view>>

\* _build raises: the `with` releases the lock, push() reports and ends.
BuildFails(t) ==
  /\ task[t] = "building"
  /\ lock' = NoTask
  /\ task' = [task EXCEPT ![t] = "failed"]
  /\ UNCHANGED <<facts, computedFor, payload, asked, view, answer>>

\* Back on the loop: broadcaster.send({"event": "corpus", ...}).
Push(t) ==
  /\ task[t] = "answered"
  /\ task' = [task EXCEPT ![t] = "pushed"]
  /\ UNCHANGED <<facts, lock, computedFor, payload, asked, view, answer>>

Worker(t) == ReturnCached(t) \/ StartBuild(t) \/ Publish(t) \/ BuildFails(t)

CorpusNext ==
  \/ \E p \in Plays : Add(p)
  \/ \E t \in Tasks : Refresh(t) \/ Worker(t) \/ Push(t)

CorpusSpec == CorpusInit /\ [][CorpusNext]_corpusVars

-----------------------------------------------------------------------------
CorpusTypeOK ==
  /\ facts \in SUBSET Plays
  /\ lock \in Tasks \union {NoTask}
  /\ computedFor \in SUBSET Plays
  /\ payload \in SUBSET Plays
  /\ task \in [Tasks -> TaskStates]
  /\ asked \in [Tasks -> SUBSET Plays]
  /\ view \in [Tasks -> SUBSET Plays]
  /\ answer \in [Tasks -> SUBSET Plays]

\* recompute's docstring: "a play added while one runs is not lost".  Once a
\* refresh has its answer, that answer and the one served from then on cover
\* every play that had been added when the refresh was asked for.
NoAddedPlayIsLost ==
  \A t \in Tasks : task[t] \in {"answered", "pushed"} =>
    asked[t] \subseteq answer[t] /\ answer[t] \subseteq payload

\* recompute "deduplicates itself": the statistics only ever run, one thread
\* at a time, for a corpus that holds a play the served answer lacks.
BuildsOnlyWhatIsNew ==
  \A t \in Tasks : task[t] = "building" =>
    /\ \A u \in Tasks \ {t} : task[u] # "building"
    /\ payload \subseteq view[t]
    /\ payload # view[t]

\* The refinement of CorpusPromise. Among what it promises: a published answer is
\* never overtaken by a build that started before it and finished after.
Outcome ==
  [t \in Tasks |->
     IF task[t] = "idle" THEN "none"
     ELSE IF task[t] \in {"queued", "building"} THEN "pending"
     ELSE IF task[t] = "failed" THEN "failed"
     ELSE "answered"]

Promise == INSTANCE CorpusPromise WITH outcome <- Outcome

ImplementsPromise == Promise!Spec
=============================================================================
