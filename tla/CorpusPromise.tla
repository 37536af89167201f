--------------------------- MODULE CorpusPromise ---------------------------
(***************************************************************************)
(* What server/corpus.py promises whoever asks for the corpus answer:      *)
(* "a play added while one [recompute] runs is not lost", and an answer is *)
(* never replaced by one that knows fewer plays.  A refresh is one request *)
(* and one reply; the lock, the threads and the recompute key of the       *)
(* implementation are invisible here.  CorpusRefresh implements this.      *)
(***************************************************************************)

CONSTANTS Plays, Tasks

VARIABLES
  facts,     \* the plays the corpus knows about
  payload,   \* the plays the served answer is computed from
  asked,     \* what each refresh must at least cover: facts when it was asked for
  outcome    \* "none", "pending", "answered" or "failed" for each refresh

vars == <<facts, payload, asked, outcome>>

Init ==
  /\ facts \in SUBSET Plays
  /\ payload = facts
  /\ asked = [t \in Tasks |-> {}]
  /\ outcome = [t \in Tasks |-> "none"]

Learn(p) ==
  /\ facts' = facts \union {p}
  /\ UNCHANGED <<payload, asked, outcome>>

Ask(t) ==
  /\ outcome[t] = "none"
  /\ outcome' = [outcome EXCEPT ![t] = "pending"]
  /\ asked' = [asked EXCEPT ![t] = facts]
  /\ UNCHANGED <<facts, payload>>

\* The reply covers everything known when it was asked for and everything the
\* previous answer covered, and may cover what arrived since.
Answer(t) ==
  /\ outcome[t] = "pending"
  /\ outcome' = [outcome EXCEPT ![t] = "answered"]
  /\ payload' \in SUBSET facts
  /\ payload \union asked[t] \subseteq payload'
  /\ UNCHANGED <<facts, asked>>

\* The statistics raised: the panel misses an update and keeps the old answer.
GiveUp(t) ==
  /\ outcome[t] = "pending"
  /\ outcome' = [outcome EXCEPT ![t] = "failed"]
  /\ UNCHANGED <<facts, payload, asked>>

Next ==
  \/ \E p \in Plays : Learn(p)
  \/ \E t \in Tasks : Ask(t) \/ Answer(t) \/ GiveUp(t)

Spec == Init /\ [][Next]_vars
=============================================================================
