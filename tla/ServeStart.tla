------------------------------ MODULE ServeStart ------------------------------
(* forge serve from its start to its end, for runs that may overlap: the       *)
(* analysis cache they share on disk, the scan that fills their corpus from    *)
(* it, the port they claim and the runtime file they publish it in.            *)
(* A file's contents are the time it was written at, which is also the size    *)
(* and mtime that stat reports. Facts are the contents and the build they      *)
(* were reduced from and by. What happens to a play that finishes while the    *)
(* run serves is in Watcher; here it only has to reach the cache.              *)
EXTENDS Naturals, Sequences, FiniteSets, FiniteSetsExt, SequencesExt

CONSTANTS
  Runs,      \* processes
  Plays,     \* replay files, by name
  BuildOf,   \* the build of the tool (_TOOL) each run is of
  Ports,     \* the ports a run may be told to use
  Reserved,  \* RESERVED_PORTS
  Limit,     \* --limit, how many plays get a payload
  Backfill,  \* --backfill, how many plays of the tail are analysed per start
  Leftovers, \* the builds whose rows, whole or malformed, earlier runs left
  MaxWrites, \* bound on the writes of the folder
  Nobody

ASSUME BoundsAreCounts == {Limit, Backfill, MaxWrites} \subseteq Nat
ASSUME EveryRunIsConfigured == Runs \subseteq DOMAIN BuildOf
ASSUME TheFolderIsFinite == IsFiniteSet(Plays)

VARIABLES
  clock,    \* the time of the last write to the folder
  folder,   \* when each play was last written, 0 for one that is not there
  cache,    \* the row of each play
  mixed,    \* whether runs of two builds have had the cache open at once
  rewritten,\* the plays written over while a run had read them and not told yet
  runtime,  \* the run that runtime.json names, or Nobody
  bound,    \* who listens on each port
  proc      \* the runs

vars == <<clock, folder, cache, mixed, rewritten, runtime, bound, proc>>


NoFacts == [of |-> 0, by |-> Nobody]
NoRow == [stat |-> 0, tool |-> Nobody, facts |-> NoFacts]
Malformed(b) == [stat |-> 1, tool |-> b, facts |-> NoFacts]
Whole(b) == [Malformed(b) EXCEPT !.facts = [of |-> 1, by |-> b]]

AtStart == [pc |-> "off", port |-> Nobody, open |-> FALSE, found |-> <<>>, at |-> 0,
            play |-> Nobody, seen |-> 0, payloads |-> {},
            corpus |-> [p \in Plays |-> NoFacts],
            fate |-> [p \in Plays |-> "none"]]

\* A cache may hold what earlier runs left, also rows this build wrote and no
\* longer reads: the schema number is bumped by hand.
ServeInit ==
  /\ clock = 1
  /\ folder \in [Plays -> {0, 1}]
  /\ cache \in [Plays -> {NoRow} \cup {Malformed(b) : b \in Leftovers.malformed}
                  \cup {Whole(b) : b \in Leftovers.whole}]
  /\ mixed = FALSE
  /\ rewritten = {}
  /\ runtime = Nobody
  /\ bound = [o \in Ports |-> Nobody]
  /\ proc = [r \in Runs |-> AtStart]

Goes(r, pc) == proc' = [proc EXCEPT ![r].pc = pc]

\* Memory goes with the process.
Gone(pc) == [AtStart EXCEPT !.pc = pc]
Ends(r) == proc' = [proc EXCEPT ![r] = Gone("ended")]

\* AnalysisCache.__init__: every row of another build goes, in one commit.
Swept(r) == [p \in Plays |-> IF cache[p].tool = BuildOf[r] THEN cache[p] ELSE NoRow]

OpenCache(r) ==
  /\ proc[r].pc = "off"
  /\ cache' = Swept(r)
  /\ mixed' = (mixed \/ \E q \in Runs : proc[q].open /\ BuildOf[q] # BuildOf[r])
  /\ proc' = [proc EXCEPT ![r].pc = "list", ![r].open = TRUE]
  /\ UNCHANGED <<clock, folder, rewritten, runtime, bound>>

\* A directory that cannot be made, a locked or a damaged file: no cache.
CacheUnavailable(r) ==
  /\ proc[r].pc = "off"
  /\ Goes(r, "list")
  /\ UNCHANGED <<clock, folder, cache, mixed, rewritten, runtime, bound>>

\* A configuration, a built page, its placeholder or a folder is missing.
Refuse(r) ==
  /\ proc[r].pc = "off"
  /\ Ends(r)
  /\ UNCHANGED <<clock, folder, cache, mixed, rewritten, runtime, bound>>

There == {p \in Plays : folder[p] > 0}

\* Files of the same time stay in the order of the directory.
NewestFirst(names) ==
  LET newer(p, q) == folder[p] > folder[q]
      kept(p, q) == folder[p] = folder[q] /\ \E i, j \in DOMAIN names : i < j /\ names[i] = p /\ names[j] = q
  IN {s \in SetToSeqs(Range(names)) :
        \A i, j \in DOMAIN s : i < j => newer(s[i], s[j]) \/ kept(s[i], s[j])}

Glob(r) ==
  /\ proc[r].pc = "list"
  /\ \E s \in SetToSeqs(There) : proc' = [proc EXCEPT ![r].pc = "sort", ![r].found = s]
  /\ UNCHANGED <<clock, folder, cache, mixed, rewritten, runtime, bound>>

\* sorted() stats every name glob() found: one that is gone ends the run.
Sort(r) ==
  LET allThere == Range(proc[r].found) \subseteq There
  IN /\ proc[r].pc = "sort"
     /\ \/ /\ allThere
           /\ \E s \in NewestFirst(proc[r].found) :
                proc' = [proc EXCEPT ![r].pc = "replays", ![r].at = 1, ![r].found = s]
        \/ ~allThere /\ Ends(r)
     /\ UNCHANGED <<clock, folder, cache, mixed, rewritten, runtime, bound>>

Turn(r) == proc[r].pc = "replays" /\ proc[r].at \in DOMAIN proc[r].found
Here(r) == proc[r].found[proc[r].at]
InHead(r) == proc[r].at <= Limit

\* The loop goes on with the next play, and the fate of this one is settled.
Settles(r, p, fate) ==
  [proc[r] EXCEPT !.pc = "replays", !.at = @ + 1, !.fate[p] = fate, !.play = Nobody, !.seen = 0]

FatesOf(r, fate) == {p \in Plays : proc[r].fate[p] = fate}

MayBackfill(r) == Cardinality(FatesOf(r, "backfilled")) < Backfill

\* judge() reads what is there now; the file may be gone or not whole yet.
Judge(r) ==
  /\ Turn(r) /\ InHead(r)
  /\ LET p == Here(r)
     IN \/ /\ folder[p] > 0
           /\ proc' = [proc EXCEPT ![r].pc = "judged", ![r].play = p, ![r].seen = folder[p]]
        \/ proc' = [proc EXCEPT ![r] = Settles(r, p, "skipped")]
  /\ UNCHANGED <<clock, folder, cache, mixed, rewritten, runtime, bound>>

StatTail(r) ==
  /\ Turn(r) /\ ~InHead(r)
  /\ LET p == Here(r)
     IN proc' = [proc EXCEPT ![r] =
          IF folder[p] = 0 THEN Settles(r, p, "vanished")
          ELSE [@ EXCEPT !.pc = "statted", !.play = p, !.seen = folder[p]]]
  /\ UNCHANGED <<clock, folder, cache, mixed, rewritten, runtime, bound>>

\* AnalysisCache.lookup: by name, size and mtime. Which build wrote the row was
\* settled when the cache was opened.
LookupByName(r, p) == proc[r].open /\ cache[p].stat > 0
Lookup(r, p) == proc[r].open /\ cache[p].stat = proc[r].seen

\* add_facts reads every field before it touches the corpus.
Restorable(r, p) == Lookup(r, p) /\ cache[p].facts # NoFacts

Restored(r, p) == [Settles(r, p, "restored") EXCEPT !.corpus[p] = cache[p].facts]

\* The count was once taken before the row was read.
RestoreCountsFirst(r) ==
  LET p == proc[r].play
  IN /\ proc[r].pc = "statted" /\ Lookup(r, p)
     /\ proc' = [proc EXCEPT ![r] =
          IF Restorable(r, p) THEN Restored(r, p) ELSE Settles(r, p, "restored")]
     /\ UNCHANGED <<clock, folder, cache, mixed, rewritten, runtime, bound>>

Restore(r) ==
  LET p == proc[r].play
  IN /\ proc[r].pc = "statted" /\ Restorable(r, p)
     /\ proc' = [proc EXCEPT ![r] = Restored(r, p)]
     /\ UNCHANGED <<clock, folder, cache, mixed, rewritten, runtime, bound>>

\* No row, or one that is malformed: analysed while the backfill lasts.
JudgeTail(r) ==
  LET p == proc[r].play
  IN /\ proc[r].pc = "statted" /\ ~Restorable(r, p)
     /\ \/ /\ MayBackfill(r) /\ folder[p] > 0
           /\ proc' = [proc EXCEPT ![r].pc = "judged", ![r].seen = folder[p]]
        \/ proc' = [proc EXCEPT ![r] = Settles(r, p, "unanalysed")]
     /\ UNCHANGED <<clock, folder, cache, mixed, rewritten, runtime, bound>>

FactsInHand(r) == [of |-> proc[r].seen, by |-> BuildOf[r]]

\* AnalysisCache.put, with the stat remember() took just before it.
Stored(r, p) ==
  IF proc[r].open
  THEN [cache EXCEPT ![p] = [stat |-> folder[p], tool |-> BuildOf[r], facts |-> FactsInHand(r)]]
  ELSE cache

\* remember(): into the corpus, then a stat that may raise, then into the cache.
Told(r, p) == [proc[r] EXCEPT !.corpus[p] = FactsInHand(r)]

Remember(r) ==
  LET p == proc[r].play
      settled == IF InHead(r) THEN "prepared" ELSE "backfilled"
  IN /\ proc[r].pc = "judged"
     /\ IF folder[p] = 0
        THEN /\ proc' = [proc EXCEPT ![r] = Gone("ended")]
             /\ UNCHANGED cache
        ELSE /\ proc' = [proc EXCEPT ![r] =
                   [Settles(r, p, settled) EXCEPT
                      !.corpus[p] = FactsInHand(r),
                      !.payloads = IF InHead(r) THEN @ \cup {p} ELSE @]]
             /\ cache' = Stored(r, p)
     /\ UNCHANGED <<clock, folder, mixed, rewritten, runtime, bound>>

\* Nothing to play back ends the run; otherwise the first corpus answer.
Ready(r) ==
  /\ proc[r].pc = "replays" /\ proc[r].at > Len(proc[r].found)
  /\ IF proc[r].payloads = {} THEN Ends(r) ELSE Goes(r, "ready")
  /\ UNCHANGED <<clock, folder, cache, mixed, rewritten, runtime, bound>>

\* _check_port binds the port and gives it back before the file is written.
CheckPort(r) ==
  /\ proc[r].pc = "ready"
  /\ \E o \in Ports :
       proc' = [proc EXCEPT ![r] = IF o \notin Reserved /\ bound[o] = Nobody
                                   THEN [@ EXCEPT !.pc = "checked", !.port = o]
                                   ELSE Gone("ended")]
  /\ UNCHANGED <<clock, folder, cache, mixed, rewritten, runtime, bound>>

WriteRuntimeFile(r) ==
  /\ proc[r].pc = "checked"
  /\ runtime' = r
  /\ Goes(r, "published")
  /\ UNCHANGED <<clock, folder, cache, mixed, rewritten, bound>>

\* uvicorn binds for itself; when it cannot it exits, through the finally.
BindFailsHard(r) ==
  /\ proc[r].pc = "published"
  /\ IF bound[proc[r].port] = Nobody
     THEN bound' = [bound EXCEPT ![proc[r].port] = r] /\ Goes(r, "serving")
     ELSE UNCHANGED bound /\ Ends(r)
  /\ UNCHANGED <<clock, folder, cache, mixed, rewritten, runtime>>

Bind(r) ==
  /\ proc[r].pc = "published"
  /\ IF bound[proc[r].port] = Nobody
     THEN bound' = [bound EXCEPT ![proc[r].port] = r] /\ Goes(r, "serving")
     ELSE UNCHANGED bound /\ Goes(r, "stopping")
  /\ UNCHANGED <<clock, folder, cache, mixed, rewritten, runtime>>

\* The watcher builds a play the start did not list: on_new_replay.
JudgeNew(r) ==
  /\ proc[r].pc = "serving"
  /\ \E p \in There \ Range(proc[r].found) :
       /\ proc[r].corpus[p] = NoFacts
       /\ proc' = [proc EXCEPT ![r].pc = "watching", ![r].play = p, ![r].seen = folder[p]]
  /\ UNCHANGED <<clock, folder, cache, mixed, rewritten, runtime, bound>>

RememberNew(r) ==
  LET p == proc[r].play
  IN /\ proc[r].pc = "watching"
     /\ proc' = [proc EXCEPT ![r] = [Told(r, p) EXCEPT !.pc = "serving", !.play = Nobody, !.seen = 0]]
     /\ cache' = IF folder[p] = 0 THEN cache ELSE Stored(r, p)
     /\ UNCHANGED <<clock, folder, mixed, rewritten, runtime, bound>>

\* Ctrl+C: the port goes first, then the finally removes the file by its name.
Interrupt(r) ==
  /\ proc[r].pc = "serving"
  /\ bound' = [bound EXCEPT ![proc[r].port] = Nobody]
  /\ Goes(r, "stopping")
  /\ UNCHANGED <<clock, folder, cache, mixed, rewritten, runtime>>

Unlink(r) ==
  /\ proc[r].pc = "stopping"
  /\ runtime' = Nobody
  /\ Ends(r)
  /\ UNCHANGED <<clock, folder, cache, mixed, rewritten, bound>>

Kill(r) ==
  /\ proc[r].pc \notin {"off", "ended", "killed"}
  /\ bound' = [o \in Ports |-> IF bound[o] = r THEN Nobody ELSE bound[o]]
  /\ proc' = [proc EXCEPT ![r] = Gone("killed")]
  /\ UNCHANGED <<clock, folder, cache, mixed, rewritten, runtime>>

\* judge() has its contents, and remember() has not looked at its stat yet.
BeingRead(p) == \E r \in Runs : proc[r].pc \in {"judged", "watching"} /\ proc[r].play = p

\* osu! writes a replay, or someone copies one over another; or deletes it.
WriteReplay(p) ==
  /\ clock < MaxWrites
  /\ clock' = clock + 1
  /\ folder' = [folder EXCEPT ![p] = clock']
  /\ rewritten' = IF BeingRead(p) THEN rewritten \cup {p} ELSE rewritten
  /\ UNCHANGED <<cache, mixed, runtime, bound, proc>>

DeleteReplay(p) ==
  /\ folder[p] > 0
  /\ folder' = [folder EXCEPT ![p] = 0]
  /\ UNCHANGED <<clock, cache, mixed, rewritten, runtime, bound, proc>>

Serve(r) ==
  \/ OpenCache(r) \/ CacheUnavailable(r) \/ Refuse(r)
  \/ Glob(r) \/ Sort(r)
  \/ Judge(r) \/ StatTail(r) \/ Restore(r) \/ JudgeTail(r) \/ Remember(r) \/ Ready(r)
  \/ CheckPort(r) \/ WriteRuntimeFile(r) \/ Bind(r)
  \/ JudgeNew(r) \/ RememberNew(r)
  \/ Interrupt(r) \/ Unlink(r)

ServeNext ==
  \/ \E r \in Runs : Serve(r) \/ Kill(r)
  \/ \E p \in Plays : WriteReplay(p) \/ DeleteReplay(p)

ServeSpec == ServeInit /\ [][ServeNext]_vars

-----------------------------------------------------------------------------
(* Properties *)

Believes(r, p) == proc[r].fate[p] # "restored" /\ proc'[r].fate[p] = "restored"

\* The cache is transparent: a play that is restored gets the facts that
\* analysing it now would give, of the file that was looked at and by this
\* build. It needs that no other build has had the cache open beside this one
\* and that the replay was never written over while it was read; the next
\* property says it without that condition.
ARestoredPlayIsAsAnalysed ==
  [][\A r \in Runs, p \in Plays :
       Believes(r, p) /\ ~mixed /\ p \notin rewritten => cache[p].facts = FactsInHand(r)]_vars

\* cache.py: a row is only believed when name, size and time match, "a replaced
\* replay re-analyses", "and when it was written by this version of the tool";
\* test_server_cache.py: believing the old reduction "would attach one file's
\* numbers to another file's name". But the time stored is that of a stat behind
\* the analysis (remember), and the version is asked about when the cache is
\* opened, not when a row is looked up.
ARowIsBelievedOfItsFileAndBuild ==
  [][\A r \in Runs, p \in Plays : Believes(r, p) => cache[p].facts = FactsInHand(r)]_vars

AfterTheScan == {"ready", "checked", "published", "serving", "watching", "stopping"}

\* Once a start has gone through its scan, every replay it listed has met one
\* fate, and its corpus holds exactly those it says it prepared, restored or
\* analysed, whichever files vanish and rows are malformed on the way (the
\* "history:" line of forge serve).
EveryListedPlayIsAccountedFor ==
  \A r \in Runs : proc[r].pc \in AfterTheScan =>
    \A p \in Range(proc[r].found) :
      /\ proc[r].fate[p] # "none"
      /\ proc[r].corpus[p] # NoFacts <=> proc[r].fate[p] \in {"prepared", "restored", "backfilled"}

\* A runtime file that names a run which is over was left by a kill: a run that
\* ends, also one whose bind failed, takes its file with it (prepare).
AFileLeftBehindIsOfAKilledRun ==
  runtime # Nobody =>
    proc[runtime].pc \in {"published", "serving", "watching", "stopping", "killed"}

=============================================================================
