------------------------------- MODULE Journal -------------------------------
(***************************************************************************)
(* collect/journal.py and the forge collect command around it: an          *)
(* append-only file of lines, read and appended to by runs of collect that *)
(* may overlap and may be killed between any two steps, a write included.  *)
(*                                                                         *)
(* A line is what _records makes of it.  A killed write leaves the file    *)
(* without its final newline, so the next record lands on the same line.   *)
(* A batch is written record by record: buffering only makes some of the   *)
(* interleavings rarer.                                                    *)
(***************************************************************************)
EXTENDS Naturals, SequencesExt

CONSTANTS
  Replays,      \* file names
  Digests,      \* configuration fingerprints
  Collectors,   \* processes that run forge collect
  None,
  MaxCrashes,   \* bound: runs that are killed
  MaxLines      \* bound: lines a run is still started on

ASSUME NamesAssumption == None \notin Replays \union Digests
ASSUME CrashesAssumption == MaxCrashes \in Nat
ASSUME LinesAssumption == MaxLines \in Nat
ASSUME JournalReplaysAreFinite == IsFiniteSet(Replays)

VARIABLES
  lines,     \* the file
  torn,      \* its last line has no newline
  folder,    \* the readable replays in Data/r
  config,    \* the fingerprint of the settings in force
  pc,        \* where each run is in scan()
  epoch,     \* each run's `epoch`
  known,     \* each run's `known`
  added,     \* each run's `added`
  todo,      \* ... less what it has written
  legacy,    \* lines written before there were snapshots (history)
  overlapped,   \* two runs have been at work at once (history)
  reported,     \* names that completed runs reported as added (history)
  crashes

journalVars == <<lines, torn, folder, config, pc, epoch, known, added, todo, legacy,
                 overlapped, reported, crashes>>

Entry(p, d) == [kind |-> "replay", name |-> p, digest |-> d]
Snapshot(d) == [kind |-> "epoch", name |-> None, digest |-> d]
\* json.loads refuses it, and it is skipped.
Damaged == [kind |-> "damaged", name |-> None, digest |-> None]
\* A character of a settings value cut in two: read_text refuses the file.
Broken == [kind |-> "broken", name |-> None, digest |-> None]

Line ==
  [kind : {"replay"}, name : Replays, digest : Digests]
    \union [kind : {"epoch"}, name : {None}, digest : Digests]
    \union {Damaged, Broken}

JournalInit ==
  /\ lines \in {<<>>} \union {<<Entry(p, d)>> : p \in Replays, d \in Digests}
  /\ torn = FALSE
  /\ folder \in SUBSET Replays
  /\ config \in Digests
  /\ pc = [c \in Collectors |-> "idle"]
  /\ epoch = [c \in Collectors |-> config]
  /\ known = [c \in Collectors |-> {}]
  /\ added = [c \in Collectors |-> {}]
  /\ todo = [c \in Collectors |-> {}]
  /\ legacy = Len(lines)
  /\ overlapped = FALSE
  /\ reported = {}
  /\ crashes = 0

Decodes == \A i \in DOMAIN lines : lines[i].kind # "broken"

\* Journal.known
Names(all) == {all[i].name : i \in {j \in DOMAIN all : all[j].kind = "replay"}}

\* Mutant: the digest the last entry carries stands for the last snapshot.
LastEntryCarries(all, d) ==
  \E i \in DOMAIN all :
    /\ all[i].kind = "replay" /\ all[i].digest = d
    /\ \A j \in DOMAIN all : all[j].kind = "replay" => j <= i

\* Mutant: the oldest snapshot is compared, not the newest.
FirstRecordedIs(all, d) ==
  \E i \in DOMAIN all :
    /\ all[i] = Snapshot(d)
    /\ \A j \in DOMAIN all : all[j].kind = "epoch" => i <= j

\* `recorded[-1].digest == epoch.digest`, of Journal.snapshots
LastRecordedIs(all, d) ==
  \E i \in DOMAIN all :
    /\ all[i] = Snapshot(d)
    /\ \A j \in DOMAIN all : all[j].kind = "epoch" => j <= i

-----------------------------------------------------------------------------
\* One record of _write, whole: after a torn line it only extends that line.
Spoilt(line) == IF line.kind = "broken" THEN Broken ELSE Damaged

\* Mutant: newlines separate the records of a batch instead of ending them.
WriteWithoutItsNewline(record) ==
  /\ lines' = IF torn THEN [lines EXCEPT ![Len(lines)] = Spoilt(@)]
              ELSE Append(lines, record)
  /\ torn' = TRUE

Write(record) ==
  /\ lines' = IF torn THEN [lines EXCEPT ![Len(lines)] = Spoilt(@)]
              ELSE Append(lines, record)
  /\ torn' = FALSE

\* What a killed write may leave: a prefix, or all but the newline.
TornWrite(record) ==
  /\ torn' = TRUE
  /\ \E left \in {record, Damaged} \union (IF record.kind = "epoch" THEN {Broken} ELSE {}) :
       lines' = IF torn THEN [lines EXCEPT ![Len(lines)] = IF left = Broken THEN Broken ELSE Spoilt(@)]
                ELSE Append(lines, left)

-----------------------------------------------------------------------------
\* cli._collect: the settings are read once, before the journal.
Start(c) ==
  /\ pc[c] \in {"idle", "failed"}
  /\ Len(lines) < MaxLines
  /\ pc' = [pc EXCEPT ![c] = "entries"]
  /\ epoch' = [epoch EXCEPT ![c] = config]
  /\ overlapped' = (overlapped \/ \E o \in Collectors \ {c} : pc[o] \notin {"idle", "failed"})
  /\ UNCHANGED <<lines, torn, folder, config, known, added, todo, legacy, reported, crashes>>

\* A read that cannot decode the file raises, and the run ends.
ReadFails(c) ==
  /\ pc[c] \in {"entries", "snapshots"}
  /\ ~Decodes
  /\ pc' = [pc EXCEPT ![c] = "failed"]
  /\ UNCHANGED <<lines, torn, folder, config, epoch, known, added, todo, legacy, overlapped,
                 reported, crashes>>

\* Mutant: only entries of the present fingerprint count as known.
ReadEntriesOfThisEpoch(c) ==
  /\ pc[c] = "entries"
  /\ Decodes
  /\ known' = [known EXCEPT ![c] =
                 Names(SelectSeq(lines, LAMBDA line : line.digest = epoch[c]))]
  /\ pc' = [pc EXCEPT ![c] = "folder"]
  /\ UNCHANGED <<lines, torn, folder, config, epoch, added, todo, legacy, overlapped, reported,
                 crashes>>

ReadEntries(c) ==
  /\ pc[c] = "entries"
  /\ Decodes
  /\ known' = [known EXCEPT ![c] = Names(lines)]
  /\ pc' = [pc EXCEPT ![c] = "folder"]
  /\ UNCHANGED <<lines, torn, folder, config, epoch, added, todo, legacy, overlapped, reported,
                 crashes>>

\* The folder is listed and what is new in it parsed.
ListFolder(c) ==
  /\ pc[c] = "folder"
  /\ added' = [added EXCEPT ![c] = folder \ known[c]]
  /\ todo' = [todo EXCEPT ![c] = folder \ known[c]]
  /\ pc' = [pc EXCEPT ![c] = IF folder \subseteq known[c] THEN "idle" ELSE "snapshots"]
  /\ UNCHANGED <<lines, torn, folder, config, epoch, known, legacy, overlapped, reported,
                 crashes>>

\* `if not recorded or recorded[-1].digest != epoch.digest`
ReadSnapshots(c) ==
  /\ pc[c] = "snapshots"
  /\ Decodes
  /\ pc' = [pc EXCEPT ![c] = IF LastRecordedIs(lines, epoch[c]) THEN "append" ELSE "record"]
  /\ UNCHANGED <<lines, torn, folder, config, epoch, known, added, todo, legacy, overlapped,
                 reported, crashes>>

RecordEpoch(c) ==
  /\ pc[c] = "record"
  /\ Write(Snapshot(epoch[c]))
  /\ pc' = [pc EXCEPT ![c] = "append"]
  /\ UNCHANGED <<folder, config, epoch, known, added, todo, legacy, overlapped, reported, crashes>>

\* One record of journal.append; after the last the run reports and exits.
\* File names are free, so any order is the sorted one.
AppendEntry(c) ==
  /\ pc[c] = "append"
  /\ \E p \in todo[c] :
       /\ Write(Entry(p, epoch[c]))
       /\ todo' = [todo EXCEPT ![c] = @ \ {p}]
  /\ IF todo'[c] = {}
       THEN /\ pc' = [pc EXCEPT ![c] = "idle"]
            /\ reported' = reported \union added[c]
       ELSE UNCHANGED <<pc, reported>>
  /\ UNCHANGED <<folder, config, epoch, known, added, legacy, overlapped, crashes>>

\* The process is killed, or the machine goes down, between two steps ...
Killed(c) ==
  /\ pc[c] \notin {"idle", "failed"}
  /\ crashes < MaxCrashes
  /\ crashes' = crashes + 1
  /\ pc' = [pc EXCEPT ![c] = "idle"]
  /\ UNCHANGED <<folder, config, epoch, known, added, todo, legacy, overlapped, reported>>

Crash(c) == Killed(c) /\ UNCHANGED <<lines, torn>>

\* ... or inside a write.
CrashWriting(c) ==
  /\ Killed(c)
  /\ \/ pc[c] = "record" /\ TornWrite(Snapshot(epoch[c]))
     \/ pc[c] = "append" /\ \E p \in todo[c] : TornWrite(Entry(p, epoch[c]))

Collect(c) ==
  \/ Start(c) \/ ReadFails(c) \/ ReadEntries(c) \/ ListFolder(c)
  \/ ReadSnapshots(c) \/ RecordEpoch(c) \/ AppendEntry(c)

\* A replay becomes readable, or a setting changes.
Player ==
  /\ \/ \E p \in Replays \ folder : folder' = folder \union {p} /\ UNCHANGED config
     \/ \E d \in Digests \ {config} : config' = d /\ UNCHANGED folder
  /\ UNCHANGED <<lines, torn, pc, epoch, known, added, todo, legacy, overlapped, reported,
                 crashes>>

JournalNext == (\E c \in Collectors : Collect(c) \/ Crash(c) \/ CrashWriting(c)) \/ Player

JournalSpec == JournalInit /\ [][JournalNext]_journalVars

-----------------------------------------------------------------------------
JournalTypeOK ==
  /\ lines \in Seq(Line)
  /\ torn \in BOOLEAN
  /\ torn => lines # <<>>
  /\ folder \in SUBSET Replays
  /\ config \in Digests
  /\ pc \in [Collectors -> {"idle", "entries", "folder", "snapshots", "record", "append",
                            "failed"}]
  /\ epoch \in [Collectors -> Digests]
  /\ known \in [Collectors -> SUBSET Replays]
  /\ added \in [Collectors -> SUBSET Replays]
  /\ todo \in [Collectors -> SUBSET Replays]
  /\ legacy \in 0..Len(lines)
  /\ overlapped \in BOOLEAN
  /\ reported \in SUBSET Replays
  /\ crashes \in 0..MaxCrashes

\* The line gives the settings behind the digest, or is one that damage took.
Backs(line, d) == line.kind \in {"damaged", "broken"} \/ (line.kind = "epoch" /\ line.digest = d)

\* scan(): "every entry appended from here on has the settings behind its
\* digest recorded at or before it", however runs overlap and wherever they
\* are killed, unless a line before it was damaged.
SettingsPrecedeEntries ==
  \A i \in DOMAIN lines :
    i > legacy /\ lines[i].kind = "replay" =>
      \E j \in 1..(i - 1) : Backs(lines[j], lines[i].digest)

\* "One replay, as it was when it was first seen": as long as runs do not
\* overlap, kills and damaged lines never get a replay recorded twice.
ReplaysAreRecordedOnce ==
  ~overlapped =>
    \A i, j \in DOMAIN lines :
      lines[i].kind = "replay" /\ lines[j].kind = "replay" /\ lines[i].name = lines[j].name
        => i = j

\* scan(): a snapshot is written "only when these values are not already the
\* ones on file": two in a row never carry the same digest.
SnapshotsAreChanges ==
  ~overlapped =>
    \A i, j \in DOMAIN lines :
      /\ i < j /\ lines[i].kind = "epoch" /\ lines[j].kind = "epoch"
      /\ \A k \in (i + 1)..(j - 1) : lines[k].kind # "epoch"
      => lines[i].digest # lines[j].digest

\* What a later run reads of the file: nothing when read_text cannot decode it.
ReadBack == IF Decodes THEN Names(lines) ELSE {}

\* _records: "A damaged line is skipped rather than fatal. Losing one record is
\* better than a corrupted file making every later run fail": of what completed
\* runs reported as added, a kill costs at most one replay.  It costs all of
\* them when it cuts a character of a settings value in two.
DamageCostsOneRecord ==
  Cardinality(reported \ ReadBack) <= crashes

\* What does hold of damaged lines: in a file that can be decoded, every kill has
\* cost at most one replay of those that completed runs reported as added, be
\* it the record it cut or the one that was glued to it.
ADamagedLineCostsOneReplay ==
  Decodes => Cardinality(reported \ ReadBack) <= crashes

=============================================================================
