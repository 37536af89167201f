----------------------------- MODULE PageServer -----------------------------
(***************************************************************************)
(* forge serve as a page sees it: runs that come and go, each with a token *)
(* of its own and the list of plays it serves.  How a play gets into that  *)
(* list, and what a send does at each socket, is LiveServer's business:    *)
(* here a play is served and broadcast when it finishes.                   *)
(***************************************************************************)
EXTENDS Naturals, SequencesExt

CONSTANTS
  Names,      \* plays
  Limit,      \* --limit: how many a run prepares when it starts
  MaxRuns     \* bound: runs of forge serve

ASSUME NamesAreFinite == IsFiniteSet(Names)
ASSUME LimitAssumption == Limit \in Nat \ {0}
ASSUME RunsAssumption == MaxRuns \in Nat \ {0}

VARIABLES
  finished,   \* plays in the order they were finished
  run,        \* which run this is: its token
  up,         \* a server is listening
  served      \* the names of `payloads`, in the dict's order

serverVars == <<finished, run, up, served>>

\* `sorted(..., key=st_mtime, reverse=True)[: args.limit]`
Startup(plays) ==
  LET newestFirst == Reverse(plays)
  IN SubSeq(newestFirst, 1, IF Len(plays) < Limit THEN Len(plays) ELSE Limit)

\* A run with nothing to serve ends at once, so there is something.
ServerInit ==
  /\ \E P \in (SUBSET Names) \ {{}} : finished \in SetToSeqs(P)
  /\ run = 1
  /\ up = TRUE
  /\ served = Startup(finished)

\* on_new_replay stores the payload: a new key goes to the end of the dict.
\* With no server running the play is only a file.
Finish(p) ==
  /\ p \notin ToSet(finished)
  /\ finished' = Append(finished, p)
  /\ served' = IF up THEN Append(served, p) ELSE served
  /\ UNCHANGED <<run, up>>

Stop ==
  /\ up
  /\ up' = FALSE
  /\ UNCHANGED <<finished, run, served>>

\* A new run: a token of its own (SessionToken.generate), a scan of its own.
Restart ==
  /\ ~up
  /\ run < MaxRuns
  /\ up' = TRUE
  /\ run' = run + 1
  /\ served' = Startup(finished)
  /\ UNCHANGED finished
=============================================================================
