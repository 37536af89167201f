# osu!forge: specifications and proofs

TLA+ models of osu!forge, the checks TLC runs on them and the theorems TLAPS
proves about them. The models follow the code of this repository, not its
documentation; `PROJECT.json` maps every definition to the lines it stands for.

## 1. The system

osu!forge reads what osu!stable leaves on disk - replays, beatmaps,
configuration, its database - and Windows itself, and tells a player what to
change. It never writes to osu!'s files. Three commands keep running or keep
state: `forge serve` (a loopback server and the page it serves), `forge live` (a
static page rewritten after each play) and `forge collect` (a cumulative
journal). `forge profile` keeps what the player typed. `forge doctor` and
`forge diagnose` compute one answer and print it.

### Inventory

| Component | Code | State | Operations | What makes it correct |
|---|---|---|---|---|
| Replay watcher | `server/live.py` Watcher, `replay/source.py` | `seen`, `failures`, `abandoned`; the messages of a pass | `prime`, `candidates`, `poll`, `run`, the build callback of `cli._serve` | every play that finishes is taken once, a half-written one is retried, none is announced twice |
| Broadcaster | `server/live.py`, `server/app.py` socket | set of sockets | add, discard, send | every page that listens hears every play, whatever other pages do |
| Corpus state | `server/corpus.py` | facts by name, lock, key and answer of the last computation | `add_facts`, `recompute`, `payload` | no added play is lost, no answer replaces a newer one, no computation is wasted |
| Loopback server | `server/app.py`, `security.py`, `assets.py`, `protocol.py` | payloads, token of the run | list, load, corpus, `/ws` | only the page of this run is answered |
| Process, port, runtime file | `server/run.py` | a bound port, a file with port and token | prepare, serve | the file names a run that serves, or one that was killed |
| Analysis cache | `server/cache.py`, `cli._serve` | SQLite rows keyed by name, size, mtime, tool | lookup, put, sweep at open, backfill | a row that is believed is what this build makes of this file |
| Web page | `App.tsx`, `lib/protocol.ts` | list, selection, view, address, socket, loads | list, watch, load, select | lists each play once, shows what is selected, reconnects, frees images |
| Page panels | `web/src/components`, `lib/keys.ts`, `lib/renderer.ts` | one loaded play, the clock | draw | presentation |
| Journal | `collect/journal.py`, `cli._collect` | an append-only file | entries, snapshots, append, record_epoch | one record per replay, settings before entries, damage is bounded |
| Settings epochs | `collect/epoch.py` | none | digest of the settings | equal settings, equal digest |
| Store and profile | `store/db.py`, `store/profile.py`, `hardware.py` | SQLite schema, devices, settings, the old `profile.json` | migrate, put, save, import | an open store is whole, a command or a kill loses nothing the player typed |
| forge live | `live/watch.py`, `live/render.py` | `seen` of the loop | watch, render | every play is rendered |
| Simulation | `replay/simulate.py`, `validate.py`, `oracle.py` | none | match presses, track sliders, grade | presses and objects are paired once, in order |
| Replay parsing | `replay/parse.py`, `frames.py`, `model.py` | none | decode, normalise | press events are the rising edges of the keys |
| Play analysis | `analysis/*.py` | none | statistics, the breaks of a play | sessions and causes partition the plays |
| Progress and verdicts | `analysis/progress.py`, `verify.py`, `verification.py` | none | fill and split by epoch, predict, score a change | before and after never mix |
| Rules | `rules/*.py` | none | evaluate rules over a snapshot | one failing rule costs only itself, advice that is followed goes away |
| Configuration | `config/*.py` | none | find, parse, type, redact, bindings | a bad value is one bad value |
| Probes, models | `probes/*.py`, `models.py` | COM objects while one runs | read Windows | what is acquired is given back, a failure is reported as one |
| osu!.db | `sources/osudb.py` | none | read, verify, offsets | a misread or stale offset is not used |
| Difficulty calculation | `diffcalc/` (Rust) | none | parse, stack, nest | order of objects and parts |
| Memory engine | `engine/` | none | a stub and a prototype | not connected |
| Vendored code, tools, CI | `web/vendor`, `tools`, `scripts`, `.github` | - | - | not part of the program |

### How they interact

`forge serve` sweeps the cache, lists the folder newest first, gives the newest
plays a payload, restores older ones from the cache or analyses some of them,
computes the corpus answer, primes the watcher with everything it found, checks
its port, publishes the runtime file and starts one event loop, on which the
port is bound. On that loop the watcher polls the folder every two seconds. A
build judges the replay (`judge`), adds the facts to the corpus and the cache,
stores the payload and spawns a *push task*. The messages of the pass are then
sent by the Broadcaster to every socket in turn. A push task computes the corpus
answer on a worker thread and sends it through the same Broadcaster; the answer
selects and splits the plays by epoch and scores the last change of settings.
The page fetches the list and the corpus once, keeps a WebSocket open for new
plays and corpus answers, and loads the frames of the play that is selected.

`forge collect` is another process: it reads the journal and the folder and
appends what is new. `forge serve` reads the journal and the offsets of
`osu!.db` at startup, `forge diagnose` reads the journal when it runs.
`forge doctor` reads the configuration, asks the probes one after the other and
runs the rules over what came back; the player follows the advice and runs it
again. `forge profile` and `forge doctor` share the store.

### What is hard here

- osu! creates, writes and finishes a file while a pass reads the folder; it
  rewrites its configuration when it closes and its database while it runs.
- A pass collects messages and sends them at its end; an exception in between
  ends the pass, not the loop.
- Sends suspend at every socket, so sockets come and go under them, and push
  tasks and the watcher send at the same time.
- `recompute` runs on several worker threads while the event loop adds plays.
- Every response reaches the page as an event of its own, in any order, after
  the user has moved on; the server may have been restarted.
- A journal write may be cut at any byte, and two collects may overlap.
- Two starts of `forge serve` may overlap, of two builds of the tool, on one
  cache, one port and one runtime file, while replays are rewritten and deleted.
- A migration and a save are several commits, and a kill may fall between them.
- Any call of the WASAPI probe may fail after some objects were acquired.
- Plays reach the journal late or never, and which settings a play was made
  under is then filled in from its neighbours.
- `osu!.db` has no length or checksum, and its layout moves with the game.

`PROJECT.json` lists these hazards at their lines, each with the properties that
would catch it going wrong or with the reason why none does.

## 2. Modules

    ReplayFolder --> Watcher --------+--> LiveServer --> MCLiveServer, MCLiveLiveness
         (osu!)        |             |        |
                       |   CorpusRefresh --(implements)--> CorpusPromise
                       |             |        |
                       +-------------+--------+--> LiveServerProofs

    PageServer --> Page --> MCPage, PageProofs

    Journal --> MCJournal, JournalProofs
    ServeStart --> MCServeStart, ServeStartProofs

    Config --> Probes --> Rules --+--> Doctor --> MCDoctor --+
                     AudioProbe --+      +--> DoctorProofs   |
    Profile --> MCProfile -----------------------------------+--> MCInputs
       +--> ProfileProofs                                    |
    OsuDb --> MCOsuDb ---------------------------------------+
       +--------------+--> SettingsProofs
    Progress ---------+
       +--> MCProgress

    Simulation --> Failures --> MCSimulation, SimulationProofs

### forge serve while it runs

**ReplayFolder** is the environment: a replay file is absent, partial, foreign
(complete but of no use yet: another mode, a beatmap that is not installed),
whole or deleted. `Judged` is `judge` returning a `Judged`.

**Watcher** is `Watcher.run` with the build of `cli._serve`. One pass is a phase:
`List` is `candidates()`, in any order since mtimes are free; `NotReadable` is a
build that returned `None` with its count and the limit `SETTLE_ATTEMPTS`;
`ReadReplay` is `judge` returning, after which the file may go away under the
build; `Built` marks the name, keeps the message and stores the payload;
`ListRaises` is the sort over a file that is gone, before anything was built;
`BuildRaises` is an exception that ends the pass under `contextlib.suppress` with
the messages it had collected (`lost`); `EndPoll`, `Send` and `Sleep` are the
rest of `run`. `abandoned` and `failures` are the fields of the class. `primed`,
`sent`, `lost` and `faults` are history.

**CorpusPromise** says what whoever asks for the corpus answer is promised: the
reply covers all plays known when it was asked for, and all the previous reply
covered. **CorpusRefresh** is `CorpusState` with the push tasks: adding takes no
lock; `ReturnCached` and `StartBuild` are the two ways into the locked region,
`Publish` and `BuildFails` the two ways out. The facts are their names, because
names are what the code compares. The last lines map it to CorpusPromise.

**LiveServer** composes the two with the Broadcaster. Poll and build never await
anything that blocks, so while the watcher polls (`~LoopIsFree`) only worker
threads, browsers and the folder move; a send is `StartSend` (the snapshot of the
sockets), one `Write` for each socket, and `EndSend`. `Connect` and
`Disconnected` are the two ends of the socket endpoint. `Remember` and
`OnNewReplay` join a build of the watcher with the corpus, in the order of the
code: facts first, then payload and refresh.

**PageServer** is the same server as a page sees it: runs with a token each and
the list in the order of the `payloads` dict. **Page** holds the effects of
`App.tsx` and the client of `protocol.ts`. `OpenPage` is the first render with
all its effects; `Handshake`, `OnClose`, `Reconnect`, `OnReplay` are `watch`;
`Header`, `Body`, `Background`, `Show` are `load` with its two overlapping
requests; `Select` contains the clean-up that the effect runs when its
dependency changes. PageServer abstracts LiveServer: a play is served and
broadcast in one step; that listeners hear every play is checked there.

### forge serve from start to end

**ServeStart** has any number of runs of `_serve` over one folder, one cache, one
runtime file and the ports; `proc[r].pc` is where run `r` is. A file's contents are
the time it was written at, which is also what `stat` says; facts remember the
contents and the build they came from. `OpenCache` is `AnalysisCache.__init__`
with its sweep, `CacheUnavailable` a cache that cannot be opened, `Refuse` the
early returns. `Glob` and `Sort` are the listing: the names in the order of the
directory, then the stable sort by modification time, which raises when a listed
file is gone. A turn of the scan is `Judge` and `Remember` for the newest plays;
for the others `StatTail`, then `Restore` from a row that is believed or
`JudgeTail` while the backfill lasts. `Remember` is `remember()`: the corpus
first, then the stat that may raise, then `put`. `Ready` ends a run with nothing
to show. `CheckPort`, `WriteRuntimeFile`, `Bind`, `Interrupt` and `Unlink` are
`prepare` and `serve`; `JudgeNew` and `RememberNew` the plays that reach the cache
later. `Kill` may come at any step, `WriteReplay` and `DeleteReplay` are osu! and
the player. `mixed` and `rewritten` are history: whether runs of two builds have
had the cache open at once, and the replays that were written over while a run
had read them and not told the cache yet.

### forge collect, forge profile

**Journal** is the file as the list of lines `_records` would find, with `torn`
for a last line without newline. `collect` is split where another process can
come between: reading entries, listing, reading snapshots, writing the
snapshot, each entry. A kill may fall between two steps (`Crash`) or inside a
write (`CrashWriting`), which leaves nothing but a prefix: the whole record
without its newline, an undecodable tail, or a line that does not parse.

**Profile** is the store as `forge profile` uses it: `ReadVersion`, `CreateTable`
and `SetVersion` are the statements of the migration, each on disk when it
returns; `Import` is `import_legacy_profile` with its ways out, `Load` the
validation of what is stored and typed, `ImportPointer`, `ImportTracking`,
`SavePointer` and `SaveTracking` the two commits of `save` for each caller. A kill
(`KillCommand`) may fall between any two. `typed` is history: what the player was
told is saved. A mouse is its resolution and its maker, and the maker stands for the
fields that are only read from the command line, so a command that saves anything
replaces it. A cut-off is the two distances and the label (`Tracking`), and is
written as a whole: `TrackingOf` makes it of the flags of one command, a preset or
what the others say, with nothing for what is not given.

### forge doctor

**Config** is `find_config`, `parse()` over the lines of a file, `redact`, the
typed reads and the key bindings with their conflicts. A line is a record of
what its text decides (a comment, a separator, key and value). **Probes** is
`probe()` and what each probe returns or fails with, as the rules tell it apart.
**AudioProbe** is the probe that goes through COM: `CoInitializeEx`, `Succeed` for
one call after the other, `Fail` for the one that does not return, and
`Finally` for the clauses that give back what was acquired. **Rules** is
`run_rules` with the requirements of each rule, the rule functions themselves and
what each recommends. **Doctor** composes them with osu! and the player:
`ReadConfig`, `CollectProbe` in the order of the snapshot with `AudioStep` inside
it, `Report`; osu! starts and exits (`OsuStarts`, `OsuExits`, which writes the
configuration osu! held in memory), and `Follow` is the player doing what one
finding says before running doctor again.

### What the analyses stand on

**Simulation** is `normalize`, `simulate` and `validate`. The code makes key events
of all frames and then matches all presses; both loops go from left to right and
the second reads only what the first has finished, so the model runs them frame
by frame (`Read`), then press by press: `Expire` is the `continue` of the inner
loop, `Match` its three ways out for an object within reach, `NothingLeft` its end.
`cursor` points into all objects and `IsNext` skips the spinners, which the code
leaves out of its queue. `Tracking`, `Grade`, `Reason` and `Agreement` are functions
of the finished recording, and every state is one. The playfield is a line.

**Failures** is what `analysis/failures.py` makes of such a recording: the combo
that was lost at each break, the largest combo and the breaks it shows. The code
adds up whole objects; `MaxCombo` is that sum and `LongestComboIsARun` compares it
with the most scoring points between two of which none was dropped (`LongestRun`), a
point being an object and one of its parts; `ShownBreaksAreMissedPoints` says which
breaks may be shown as facts.

**Progress** is the history of plays under settings that change, the journal that
records some of it late, and the functions of `progress.py`, `verify.py` and
`corpus.py` over both: sessions, `Filled` (`fill_epochs`), `Changes`, `Boundary`,
`Side`, `Verdicts`, `PanelPresent` and `CommandPresent`. `Play`, `Arrive`,
`ChangeSettings` and `Collect` are what builds such a history. A play is its place
in the order of playing; its mean error is `Bias` minus the offset it was played
under, which is the premise the prediction in `verify.py` rests on.

**OsuDb** is the index as a row of cells. The game writes it in steps
(`BeginSave`, `EndSave`) while maps change (`Nudge`, `Change`, `Rescan`); the reader
takes what is there, field after field in the one layout it knows (`ReadFile`),
compares entries with the folder (`VerifyEntry`, `Settle`) and hands the offsets
over. Layouts that drifted are a constant: a field more at some place, two
neighbours swapped, another tag before the difficulty pairs.

A definition whose comment begins `Mutant:` or tells what "once" was the case is
in no specification. Each is a plausible bug of the definition beside it and
shows which property notices it.

## 3. What TLC checks

| Run | Instance | Shows |
|---|---|---|
| `live_server` | MCLiveServer: one old play, two that finish while it runs, two connections, one failing pass, `SettleAttempts = 1`; 1.4 million states | `ListenersHearEveryPlay`, `CorpusCatchesUp`, `NoAddedPlayIsLost`, `BuildsOnlyWhatIsNew`, `ImplementsPromise` |
| `live_liveness` | MCLiveLiveness: one old play, one with every fate a file has, one connection, `SettleAttempts = 2` | `NoPlayIsPushedTwice`, `EverySeenPlayIsAccountedFor`, and under fairness `FinishedPlayIsTaken`, `PlayReachesThePage`, `CorpusIsPushed` |
| `page` | MCPage: two plays, two runs of the server, two drops, two loads, both list requests; 0.3 million states | `TheSelectedPlayIsShown`, `BackgroundsAreRevoked`, `ComesBackToItsServer` |
| `serve_start` | MCServeStart: two runs of two builds, two plays, one payload and one backfilled play each, rows of either build left behind, three ports of which one is reserved; 1.8 million states | `ARestoredPlayIsAsAnalysed`, `EveryListedPlayIsAccountedFor`, `AFileLeftBehindIsOfAKilledRun` |
| `journal` | MCJournal: two replays, two configurations, two overlapping collectors, two kills, runs started on up to four lines; 2.1 million states | `SettingsPrecedeEntries`, `ReplaysAreRecordedOnce`, `SnapshotsAreChanges`, `ADamagedLineCostsOneReplay` |
| `inputs` | MCInputs, one of three parts moving while the others rest. MCDoctor: machines, files and arguments that vary one group of settings at a time, osu! starting and exiting around two runs of doctor. MCProfile: three commands, killed or not, over every store and every older file. MCOsuDb: three maps, two events of the game, every place of an unknown field, a swap at three of them, the same in every entry; 1.2 million states | `FollowedAdviceSettles`, `AFailedProbeCostsItsRulesOnly`, `ARuleFailsOnlyOnABadValue`, `AStaleReportSaysSo`, `EverythingIsGivenBack`; `AnOpenStoreIsWhole`, `WhatWasTypedIsKept`; `OffsetsAreThoseTheGameWrote`, `AFaithfulIndexIsBelieved` |
| `progress` | MCProgress: four plays in the folder or late, two changes of offset or device, one play left out, sides of two sessions; 1.2 million states | `AnOffsetThatWorkedIsNotContradicted`, `PanelAndCommandAgreeOnThePresent` |
| `simulation` | MCSimulation: four beatmaps with overlapping windows, every recording of three frames with four key states, three cursor positions and time steps of -1, 1 and 3; 0.2 million states | `BitsAreDownFromPressToRelease`, `MatchingKeepsOrder`, `PressesGoToTheEarliestOpenObject`, `PartsAreJudgedOnTheNextUpdate`, `TrackingIsAcquiredThenKept`, `TimedHitsAreRhythm`, `OwnCountsReproduce`, `LongestComboIsARun`, `ShownBreaksAreMissedPoints` |

The other runs show where the code and what is written about it part. Each checks
one property, and TLC's counterexample is the finding:

| Run | Property | Counterexample |
|---|---|---|
| `page_restart` | `ComesBackAfterARestart` | a page reconnects for ever with the token of the run it came from |
| `progress_pools` | `AChangeIsScoredOnWhatItChanged` | the offset goes from 0 to 10 to 8; everything before the last change is one side, so 8 is scored against the mean of 0 and 10, and a change that did what it predicts is "contradicted" |
| `journal_damage` | `DamageCostsOneRecord` | a kill inside a character makes `read_text` raise (journal.py:174): two replays that were reported cannot be read back after one kill, where journal.py:181 says damage costs one record |
| `serve_believed` | `ARowIsBelievedOfItsFileAndBuild` | a run of another build stores a row after this run has swept the cache, and it is believed (cache.py:109), where cache.py:27 says a row is believed when this version of the tool wrote it |

The passing runs say what holds beside them: `ADamagedLineCostsOneReplay` of a file
that can be decoded, and `ARestoredPlayIsAsAnalysed` when no two builds had the cache
open at once and no replay was written over while it was read. Either exception is
needed: `serve_believed` stops at the shorter one, and a replay that is replaced
between its analysis and the stat behind it is believed with the facts of the old file
too (cli.py:718).

### Bounds, and why they are enough

- *Two new plays and one old* (live_server): two push tasks overlap, a build is
  under way while the other play is added, one pass carries two messages. A third
  would repeat a pair. Two sockets are the fewest for one failing before another
  is written; they are interchangeable, hence the symmetry. `SettleAttempts = 1`
  because retries are the other run's question; the code's limit is five, and the
  proofs are for every limit.
- *`MaxFaults`* bounds the passes an exception ends. A pass that always fails
  would block the files behind its candidate, which no property denies.
- *One connection* (live_liveness) is enough, as a property names one. Symmetry
  is not used there: it is not sound for liveness.
- *`MaxDrops = 2`, `MaxDelay = 2`, `MaxRuns = 2`, `MaxLoads = 2`* (page): a first
  drop before and one after a successful open, the doubling and the ceiling of the
  delay, one restart, one load under way when the next is selected. To keep the
  product small the user browses before the first drop (`Calm` in MCPage); the
  network goes on failing afterwards. Deadlock is off because a page nobody
  opens, before a server nobody restarts, rightly stops.
- *Two runs, two plays, `Limit = Backfill = 1`, `MaxWrites = 2`* (serve_start and
  serve_believed): one
  run opens, sweeps and writes between any two steps of the other, one play is in
  the head and one in the tail of the list, and one file is rewritten after it was
  judged or listed. Plays are interchangeable, and so are the ports that are not
  reserved. Deadlock is off: runs end.
- *`MaxCrashes = 2`, `MaxLines = 5`* (journal): a torn line, a line lost to it and
  records after both. A run is only started below `MaxLines` lines; what it has
  started it finishes. One collector, three replays and one kill are enough for
  journal_damage.
- *One part at a time* (inputs): doctor, the store and the index share no variable, so
  a behaviour of all three, seen by the variables of one, is a behaviour of that one
  with steps that leave it alone, and every property of the run speaks of one part.
  The product would only multiply the states. doctor comes first; behind its second
  report on a machine where nothing can be read, the store or the index goes on from any of its
  initial states. Deadlock is off because each part ends.
- *Three commands* (the store): one that is killed, one that imports or saves, and one
  that could undo it; one height, one label and one preset, each given or not, make
  every shape a cut-off can have; the proofs are for any number.
- *Scenarios* (the machine): rules read disjoint groups of settings and probes, so one
  group varies at a time around a machine on which nothing is found; the audio
  probe fails at each of its calls. One follow-up and `moves` of osu! are the
  fewest that let a configuration change behind a report.
- *Four plays, two changes* (progress): two sides of two sessions of one play are
  the smallest comparison; the code asks for two sessions and five replays on a
  side, and the number of replays only decides how much fits. The interval on
  the difference is a choice that covers the difference. One play comes late or
  never, one is left out. Deadlock is off: a history ends.
- *Three maps* (the index): the gate of 95 percent becomes 60, so that one map of
  three may disagree and two may not.
- *`MaxFrames = 3`* (simulation), with up to two presses each: a press that misses,
  one that expires an object and one that hits the next; a slider acquired, kept
  and lost; a step back before and behind a part. Windows of 1, 2 and 3 put presses
  on every edge; beatmaps have two circles whose windows overlap, two at one time,
  a slider, and a circle after a spinner. Deadlock is off: a recording ends.

### Fairness

`WatcherFairSpec` and `LiveFairness` ask that every coroutine of the event loop
and every worker thread gets its turn: weak fairness for the watcher's task and
for workers; strong fairness for sending in a push task, because the watcher's
polls disable it again and again, and asyncio's first-in first-out ready queue
still runs it between two polls. A socket write ends since the WebSocket server
times out a silent peer; what a page that stops reading costs until then is not
checked. `PageFairness` asks that the browser delivers events and
timers and that every request has some outcome. Nothing obliges osu!, the player,
a browser that wants to close, or whoever starts the server.

### Seen on the way

These came up while modelling beside what the runs above show. They are modelled as
the code has them, or are outside the models; none has a run of its own.

- *serve, list and watch.* `_serve` primes the watcher with every name it listed, also
  with that of a replay osu! is still writing (cli.py:869). It is then never looked at
  again, where live.py:17 says that a half-written file "is retried on later passes";
  `FinishedPlayIsTaken` is about the replays that were not primed. A play that finishes while a page's socket is
  down is not sent again (protocol.ts:499), and a page that opens later gets a list
  with the pushed play last (cli.py:859) and opens on the first (App.tsx:111). The
  address is mirrored on the first render, before the link in it is read
  (App.tsx:130, App.tsx:109). An exception that a build raises every time blocks
  the files behind it for ever (live.py:123). The page shows nothing else once a load
  has failed (App.tsx:118, App.tsx:192, App.tsx:315), which `Page` leaves out.
- *start of serve.* The listing and the stats of the tail are not guarded: a replay
  that is deleted under them ends the start (cli.py:759, cli.py:717).
- *journal.* A settings record written after a torn line is lost with it while its
  entries are kept (journal.py:238). `splitlines` splits at characters JSON leaves
  unescaped.
- *runtime file.* A run that ends removes the file by name, also when another run
  has published its own since (run.py:120).
- *store.* A migration killed between its two `CREATE TABLE` fails for ever after
  with "already exists" (db.py:228), where the comment promises one transaction.
  `--vendor` alone changes nothing, a command about the cut-off clears vendor and
  model (profile.py:84, cli.py:943), and one distance of the cut-off clears the other
  (cli.py:935). An import asks the store for a pointer only (profile.py:112): a
  `profile.json` with a cut-off and no mouse is imported again by every command, over a
  cut-off that was typed since, although "re-importing would quietly overwrite a newer
  value with an older file" (profile.py:108); and an import that is killed between the
  two commits of `save` (profile.py:94) leaves a pointer and never brings the cut-off,
  although cli.py:919 wants a value already entered "not silently lost".
  `WhatWasTypedIsKept` says what is kept beside that, of an older file that has no
  cut-off or has a mouse.
- *doctor.* "Nothing is silently skipped" (engine.py:11), but a probe may be ok with a
  part of its reading missing, and the rule that looks at the part says nothing: the
  Game Mode value that is refused (system.py:207), one monitor of several
  (display.py:137), a pointer value that is no number and reads as its default
  (mouse.py:58), an endpoint without engine periods or name (probes/audio.py:390, 450,
  475; rules/audio.py:122, 172). `AFailedProbeCostsItsRulesOnly` is about probes that
  fail as a whole. The stock binding recommended for a conflict may itself be taken
  (keybind.py:50), and the compatibility flag is looked for beside the
  configuration that was read, which may be a copy. `FollowedAdviceSettles` names
  both, and does not see two rules that send the player back and forth. A rule that
  fails is called a bug in osu-forge (engine.py:142), where `ARuleFailsOnlyOnABadValue`
  finds a bad value in the file. A configuration that cannot be decoded or is gone
  when it is read raises (cli.py:145); `ReadConfig` leaves that out.
- *progress.* `diagnose` calls the epoch of the journal's last line the present,
  serve that of the play made last; with plays that arrive late they differ, and the
  property asks for a journal that keeps up. `diagnose` counts its minimum of
  sessions and replays before it leaves plays out.
- *osu!.db.* Verification sees only hash, folder and file name, so two swapped
  numbers of one width cannot be told, and such layouts are left out. serve reads
  the offsets once (cli.py:690). A drifted name that holds a NUL makes the read of the
  map raise something `verify` does not catch (osudb.py:447); `VerifyEntry` counts it as
  a map that does not match.
- *simulation.* `simultaneous_objects` "has to be symmetric" (simulate.py:457), but
  the pass that makes it so looks for that reason on the later object, which a
  slider never has: a circle that starts together with a slider is timed, although
  "neither error means anything" (simulate.py:443). `TimedHitsAreRhythm` therefore
  looks for company in a row of circles only.
- *failures.* "Combo counts every scoring point" (failures.py:22), but the points of
  a slider before or after its drop are left out (failures.py:312), so a largest
  combo may be understated. `LongestComboIsARun` says it is never overstated, and
  exact when no slider is dropped half-way.

## 4. What is proved

TLAPS checks these for all values of the constants:

| Module | Theorem | Statement |
|---|---|---|
| LiveServerProofs | `WatcherTypeCorrect` | `WatcherSpec => []WatcherTypeOK` |
| | `PushedAtMostOnce` | `WatcherSpec => []NoPlayIsPushedTwice` |
| | `SeenIsAccountedFor` | `WatcherSpec => []EverySeenPlayIsAccountedFor` |
| | `CorpusTypeCorrect` | `CorpusSpec => []CorpusTypeOK` |
| | `AddedPlaysAreServed` | `CorpusSpec => []NoAddedPlayIsLost` |
| | `BuildsAreNeeded` | `CorpusSpec => []BuildsOnlyWhatIsNew` |
| | `CorpusMonotone` | `CorpusSpec => [][payload \subseteq payload']_corpusVars` |
| | `CorpusKeepsPromise` | `CorpusSpec => ImplementsPromise` |
| | `ServerRunsTheWatcher` | `LiveSpec => WatcherSpec` |
| | `ServerRunsTheCorpus` | `LiveSpec => CorpusSpec` |
| | `LiveTypeCorrect` | `LiveSpec => []LiveTypeOK` |
| | `EveryListenerHears` | `LiveSpec => []ListenersHearEveryPlay` |
| | `CorpusCoversWhatIsServed` | `LiveSpec => []CorpusCatchesUp` |
| PageProofs | `PageTypeCorrect` | `PageSpec => []PageTypeOK` |
| | `SelectedPlayIsShown` | `PageSpec => []TheSelectedPlayIsShown` |
| | `BrowsedBackgroundsAreRevoked` | `PageSpec => []BackgroundsAreRevoked` |
| ServeStartProofs | `LeftBehindByAKill` | `ServeSpec => []AFileLeftBehindIsOfAKilledRun` |
| | `RestoringIsAnalysing` | `ServeSpec => ARestoredPlayIsAsAnalysed` |
| | `ListedPlaysAreAccountedFor` | `ServeSpec => []EveryListedPlayIsAccountedFor` |
| JournalProofs | `JournalTypeCorrect` | `JournalSpec => []JournalTypeOK` |
| | `SettingsAreOnRecord` | `JournalSpec => []SettingsPrecedeEntries` |
| | `RecordedOnce` | `JournalSpec => []ReplaysAreRecordedOnce` |
| | `SnapshotsRecordChanges` | `JournalSpec => []SnapshotsAreChanges` |
| | `EveryLossIsAKill` | `JournalSpec => []ADamagedLineCostsOneReplay` |
| ProfileProofs | `OpenStoresAreWhole` | `ProfileSpec => []AnOpenStoreIsWhole` |
| | `TypedIsKept` | `ProfileSpec => []WhatWasTypedIsKept` |
| DoctorProofs | `WhatIsAcquiredIsGivenBack` | `DoctorSpec => []EverythingIsGivenBack` |
| | `AStaleReportIsMarked` | `DoctorSpec => []AStaleReportSaysSo` |
| | `WhatCannotBeReadIsReported` | `DoctorSpec => []AFailedProbeCostsItsRulesOnly` |
| | `FailuresAreBadValues` | `DoctorSpec => []ARuleFailsOnlyOnABadValue` |
| | `FollowedAdviceIsSettled` | `DoctorSpec => []FollowedAdviceSettles` |
| SettingsProofs | `PanelAndCommandAgree` | `ProgressSpec => []PanelAndCommandAgreeOnThePresent` |
| | `AnOffsetThatWorkedIsConfirmed` | `ProgressSpec => []AnOffsetThatWorkedIsNotContradicted` |
| | `FaithfulIndexesAreBelieved` | `OsuDbSpec => []AFaithfulIndexIsBelieved` |
| | `KnownLayoutsGiveTheirOffsets` | `OsuDbSpec => [](IsKnown(layout) => OffsetsAreThoseTheGameWrote)` |
| SimulationProofs | `SimTypeCorrect` | `SimSpec => []SimTypeOK` |
| | `MatchingIsOrdered` | `SimSpec => []MatchingKeepsOrder` |
| | `NotelockIsKept` | `SimSpec => []PressesGoToTheEarliestOpenObject` |
| | `BitsFollowTheKeys` | `SimSpec => []BitsAreDownFromPressToRelease` |
| | `PartsUseTheNextUpdate` | `SimSpec => []PartsAreJudgedOnTheNextUpdate` |
| | `SlidersAreFollowed` | `SimSpec => []TrackingIsAcquiredThenKept` |
| | `OnlyRhythmIsTimed` | `SimSpec => []TimedHitsAreRhythm` |
| | `OwnCountsAreAccepted` | `SimSpec => []OwnCountsReproduce` |
| | `OnlyMissedPointsAreShown` | `SimSpec => []ShownBreaksAreMissedPoints` |
| | `TheLongestComboIsCounted` | `SimSpec => []LongestComboIsARun` |

The assumptions are the named ones of the modules: `NoTask` is no task, the sets
of replays are finite, `SettleAttempts` is positive, bounds are naturals, a run
has a build, a beatmap lists its objects in the order of their times, the radius to
keep a slider is no smaller than the one to acquire it, `None` is no event, no
reason and is not typed, the presets of a cut-off are distances that can be typed, a plausible resolution is one that can be typed, the epoch
of a play without one is no settings, and offsets are integers (`OffsetsAreNumbers`).
Of osu!.db: the index names a map, and no more of them than a count may be, the
agreement asked for is a percentage, and what is written into a cell is a number
(`OsuDbBounds`, `CellsAreNumbers`).
Of every start of doctor: it has a place for the user's configuration and a psutil
that is installed, missing or raises (`ScenariosAssumption`), what `find_config` finds
is there and is a sequence of lines (`FilesAssumption`), and Windows answers for its
adapters with a sequence of refresh rates and for its shortcuts with the three of
them, or refuses (`MachinesAssumption`).

*Corpus.* The invariant says who may be in the locked region: the lock's holder
is the one task that builds, its view is a set of facts that covers the answer
served, and the key is the set the answer was computed from. `NoAddedPlayIsLost`
alone is not inductive: that a cached answer covers what was asked for follows
only from the key being the answer's own set, and that a published one covers the
former only from the mutual exclusion. With that invariant each step is a step of
CorpusPromise or leaves its variables alone.

*Watcher.* That no name is announced twice needs more than the announced names:
no name in the queue of the pass has been seen, the queue has no name twice, and
the name under the build is its head. Lemmas about injective sequences (appending
a new name, dropping the head) carry the step.

*Live server.* `LiveInv` is the watcher's invariant, the corpus's, and what only
their composition can say: which sockets a send holds and has written to
(`SocketInv`) and which push tasks owe a request (`AskedInv`). Every step of the
composition is a step of each part or leaves its variables alone, which is what
`ServerRunsTheWatcher` and `ServerRunsTheCorpus` state, so what is proved of the
parts holds in the server. A page that is up has heard a suffix of what was
broadcast, with the play under way once it was written to; that needs that a
snapshot holds only sockets that were there when the send began (`JoinedInTime`),
and that what a send gives up on is down for good (`TheGoneAreDown`).

*Page.* `PageInv` describes every load by where its two requests are, and says that
all but the last are cancelled and the last is for the selected play. A late answer
of a cancelled load then cannot reach the screen, and its background
has been revoked, is still to come, or belongs to a load that rejected late: the
leak of protocol.ts:516, which the property names.

*Start of serve.* That a restored play is as analysed is a statement about one step,
`Restore`, and what it needs was arranged by others long before.
`RowsAreOfTheirFile` says that every row was stored by the build that made its facts,
and that these are of the file whose stat it carries, unless that was written over
while it was read; storing a row keeps that because what a run has read is still what
the folder holds, or nothing, or was written over (`Looked`). `Holds` says that a run
with an open cache finds no row of another build in it as long as the builds were
never mixed, for which `OneBuild` says that those with an open cache are of one; the
sweep of another run only empties rows. Sixteen
of the steps leave folder and cache alone and are treated alike (`Moves`); a lemma
each says what the run becomes, and that it believes no new row unless the step is
`Restore`. That a runtime file names a live or a killed run is inductive as it
stands. `AccountInv` follows the scan: the listing names each play once, the plays
before the one looked at have a fate and those behind it have none, and the corpus
holds those whose fate says so.

*Journal.* The invariant follows each collector: at "append" the file already
holds a line that backs its digest (its snapshot or a line that damage took), so
every entry it appends is backed. Damage only ever turns a line into a damaged
one, which backs everything; that is the lemma that other collectors and kills
cannot disturb. `OnceInv` says, as long as no two runs have overlapped, that one
collector is at work at most, that what it will append is not on file and that a
snapshot it is about to write is not the last one. `KillInv` counts: every name a
run has written that is in no line with a newline (`Written \ FirmNames`) cost a
kill of its own, and a torn last line is a kill that has cost nothing yet. The count
is of the lines of the file; that nothing can be read of one that cannot be decoded
is why the theorem is about files that can.

*Profile.* `WhatWasTypedIsKept` is not inductive: an import that begins after the
player typed something could write the older file over it. The invariant follows
the command: before it saves anything the store is `Settled` (it has a pointer, or
the older file has nothing that would be brought again), an import only runs on a
store without a pointer, and what a save is about to write is what was asked for
or what is there (`Wanted`), with the maker of the command that asks. `SchemaAtStep` says the same of the tables at each statement of
the migration.

*Doctor.* `AudioInv` says that, until a call raises, what the probe holds is a
function of the step it has reached (`HeldAt`), each thing once. That it is holds by
the order of the calls, so one lemma goes over the steps and says of each what it
acquires, gives back, or leaves at the step a failure skips to. Once a call has
raised, everything still held is covered by a clause (`Covered`), and the clauses
run until nothing is left. `Fresh` follows the age of a report through the ten
probes: before the look for the process the configuration read is the one on disk,
after it the one osu! will keep, unless the look saw osu! or failed, or osu! exited
in between; it needs `InOrder`, that the probes done are the first of the snapshot.
`ReadingsInv` says that, once its probe has run, a reading is not ok if and only if the
probe cannot be read; the rest is that `run_rules` then says of its rules that they were
not checked and nothing else, and that no rule says so of itself. For
`FailuresAreBadValues` one lemma per group of rules says that a rule whose values are
of their kind returns findings that say what is the case (`Harmless`), whatever the
probes gave it. `FollowedAdviceSettles` compares the reports of two runs, and nothing
in the second says what the first was made of, so `SettleInv` carries it along: the
probes say what the machine is, a report is that of the configuration read and of
those probes, and for an advice that was followed there was a configuration and a
machine whose report held it, of which the machine now differs by that advice. One
lemma per rule then says that what it advises, put into the configuration or into
Windows, leaves the rule quiet, and that the other rule of the same shortcut says
nothing it had not said before. For the refresh rate that is an argument about the
greatest of a finite sequence; for a key bound twice, that advice is only ever given on
quick retry, so that once it has its stock key a conflict that gets advice again is one
the property leaves out.

*Progress.* The panel takes the epoch of the play made last, the command that of
the last line of the journal. When the journal has followed the plays, the last
line is of the largest play, and the epochs filled in between change nothing there.
The invariant is small (a line holds settings the player had); the argument is that
of a maximum over a bounded set of numbers. The verdict on an offset is one about
means: on each side of the change every play has the same error, a sum of equal
numbers is their number times one of them (`EqualErrorsAddUp`, by the least number of
plays up to which it would not be), so the means differ by what the offset moved and
the prediction is met, unless there is nothing to see or too little to tell.

*osu!.db.* A layout is known when no field was added, none changed places and the
ratings carry a tag the reader has (`IsKnown`). The file is a row of entries and an
entry a row of fields, one behind the other (`PartsOfFlattened`). Of each field a lemma
says that the reader ends it where the game ended it, and, when the file stops inside
it, that the reader is lost (`EveryFieldIsRead`, `ACutFieldIsLost`); from field to field
and from entry to entry a whole file is read as the index that was written, and the
first part of one is unreadable (`AWholeFileIsRead`, `ACutFileIsUnreadable`). `FaithInv`
then says that the entries being verified are those of one index, and that contents
other than the first are the last a map gets: a map that is in step with the index when
the reader is done was in step when it was verified, so every entry matched.
`OffsetsInv` adds that a file that is not whole is the first part of one, so what is
being verified was whole, and its offsets are those of that index.

*Simulation.* Hits being in order is not inductive by itself: the next hit goes to
an object at or behind the cursor with the first pending press, so the invariant
adds that hit objects are before the cursor, that their presses are before all
pending ones, and that pending presses are in order. A frame is read only when
none is pending, and its number is above that of every press so far, whatever its
time. `NotelockInv` adds what became of the objects the cursor passed: each was
hit, is a spinner, or had expired for some press that was matched, while those at
or behind the cursor had expired for none of them, whatever the times of the
presses. `Logged` says the key log holds one event for each change of a bit, which
is what the presses are.

The other theorems are about functions of a finished recording: the update a slider
part is judged on, the parts that are tracked, the objects that are timed, the combo.
They need an induction over frames, parts or objects. The library's induction theorems
take an operator as a parameter, so the proofs use the least element of a set of
naturals instead (`LeastNatural`, from the well-foundedness of `<`): the first part
where tracking and its description differ does not exist. That an agreement of counts
with themselves is exact needs only cardinalities of finite sets. That only missed
points are shown needs one count: a slider of which less than everything was collected
has a part that was not (`HalfCollected`). The combo after an object is the number of
points since the last object that broke it (`TheComboIsCounted`, from one object to the
next). Those points are a run, so the largest combo is no longer than the longest run;
and when nothing was dropped half-way a run has no broken object in it, so it lies
within the points counted for the last object it touches.

Only model-checked:

- The violations of section 3, and all liveness (`FinishedPlayIsTaken`, `PlayReachesThePage`, `CorpusIsPushed`,
  `ComesBackToItsServer`): fairness and ENABLED are out of the prover's reach.
- `OffsetsAreThoseTheGameWrote` for layouts that drifted. It is not true of every set
  of them: a field more or two neighbours swapped are noticed by what the cells after
  them happen to hold, so it is exhausted over the layouts of the run. For layouts the
  reader knows it is `KnownLayoutsGiveTheirOffsets`.

## 5. Plan

Done: the live core (watcher, corpus, broadcaster, page), the start of serve with
its cache and its runtime file, the journal, the profile, doctor with its probes and
rules, the reader of `osu!.db`, progress and verdicts, and the simulation with the
breaks of a play.

What is left, in this order:

1. `Page`: the corpus panel (one fetch against pushed answers), the playback clock.
2. `forge live` as a second reader of ReplayFolder.
3. `corpus_health` and the oracle of the simulation, as operators over its recordings.
4. Stacking and nested objects of `diffcalc/src/beatmap` as integer algorithms.

## 6. Not modelled

- Floating-point statistics (`analysis/gain.py`, `clustering.py`, `timing.py`), slider
  curves: TLC has no reals, and rounding would be the whole content.
- Text and byte handling of the decoders of `.osr` and `.osu`, line ends and encodings
  of `osu!.cfg`: what a file means to the state machines is a value of
  `ReplayFolder`, a line of a configuration is a record. `osu!.db` is modelled as
  cells because its reader decides by them whether to believe what it read.
- Win32 structures, shaders, rendering, wording: I/O and presentation. A probe is
  what it returns or how it fails.
- Host and Origin checks, headers, static assets: each is one decision over one
  request, and no state outlives it.
- `engine/`: a stub and a prototype nothing calls. `web/vendor`: third-party code.
- Facts of a replay beyond its name in CorpusRefresh: a replay is not rewritten
  after osu! has finished it. In ServeStart it may be, and the contents count.
- The order of two corpus pushes at a page and plays missed by a socket that is down are
  listed as hazards without a property; so is what a permanent exception of one candidate
  does to the plays behind it, with the hazard of a failing pass (live.py:148).

## 7. Running it

    tlc -workers 2 -config MCLiveServer.cfg MCLiveServer.tla
    tlapm LiveServerProofs.tla

Every run's module and configuration are in `PROJECT.json` under `runs`. The
passing runs take between a few seconds and three minutes each, and so do the proofs.
