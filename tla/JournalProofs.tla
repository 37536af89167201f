--------------------------- MODULE JournalProofs ---------------------------
(***************************************************************************)
(* Proofs about Journal, for every set of replays, fingerprints and        *)
(* overlapping runs of collect.                                            *)
(***************************************************************************)
EXTENDS Journal, TLAPS, FiniteSetTheorems

USE NamesAssumption, CrashesAssumption, LinesAssumption

LEMMA LastReplaced ==
  ASSUME NEW S, NEW s \in Seq(S), s # <<>>, NEW x \in S
  PROVE  LET t == [s EXCEPT ![Len(s)] = x]
         IN /\ t \in Seq(S)
            /\ Len(t) = Len(s)
            /\ t # <<>>
            /\ \A j \in 1..Len(s) : t[j] = s[j] \/ t[j] = x
            /\ \A j \in 1..(Len(s) - 1) : t[j] = s[j]
            /\ t[Len(s)] = x
OBVIOUS

LEMMA TheOneNewIndex ==
  ASSUME NEW m \in Nat, NEW n \in {m, m + 1}, NEW i \in 1..n, i \notin 1..m
  PROVE  i = m + 1 /\ i > m
OBVIOUS

LEMMA DamageIsALine == Damaged \in Line /\ Broken \in Line
BY DEF Damaged, Broken, Line

\* Both kinds of write leave a file of lines that is not empty, that has every
\* line it had except perhaps the last, and what it replaces or adds is no
\* entry but the record itself.
LEMMA WriteIsALine ==
  ASSUME NEW r \in Line, lines \in Seq(Line), torn \in BOOLEAN, torn => lines # <<>>,
         Write(r)
  PROVE  /\ lines' \in Seq(Line)
         /\ lines' # <<>>
         /\ Len(lines) <= Len(lines')
         /\ torn' = FALSE
<1>1. \A l : Spoilt(l) \in Line
  BY DamageIsALine DEF Spoilt
<1>2. CASE torn
  <2>1. lines' = [lines EXCEPT ![Len(lines)] = Spoilt(lines[Len(lines)])]
    BY <1>2 DEF Write
  <2>2. Len(lines) \in 1..Len(lines)
    BY <1>2
  <2>. QED  BY <1>1, <2>1, <2>2 DEF Write
<1>3. CASE ~torn
  BY <1>3 DEF Write
<1>. QED  BY <1>2, <1>3

LEMMA TornWriteIsALine ==
  ASSUME NEW r \in Line, lines \in Seq(Line), torn \in BOOLEAN, torn => lines # <<>>,
         TornWrite(r)
  PROVE  /\ lines' \in Seq(Line)
         /\ lines' # <<>>
         /\ Len(lines) <= Len(lines')
         /\ torn' = TRUE
<1>1. \A l : Spoilt(l) \in Line
  BY DamageIsALine DEF Spoilt
<1>3. PICK left \in {r, Damaged, Broken} :
        lines' = IF torn THEN [lines EXCEPT ![Len(lines)] =
                                 IF left = Broken THEN Broken ELSE Spoilt(@)]
                 ELSE Append(lines, left)
  BY DEF TornWrite
<1>4. left \in Line
  BY <1>3, DamageIsALine
<1>5. CASE torn
  <2>1. PICK last \in Line : lines' = [lines EXCEPT ![Len(lines)] = last]
    BY <1>1, <1>3, <1>5, DamageIsALine
  <2>2. Len(lines) \in 1..Len(lines)
    BY <1>5
  <2>. QED  BY <2>1, <2>2 DEF TornWrite
<1>6. CASE ~torn
  BY <1>3, <1>4, <1>6 DEF TornWrite
<1>. QED  BY <1>5, <1>6

LEMMA RecordsAreLines ==
  /\ \A p \in Replays, d \in Digests : Entry(p, d) \in Line
  /\ \A d \in Digests : Snapshot(d) \in Line
BY DEF Entry, Snapshot, Line

LEMMA InitTypes == JournalInit => JournalTypeOK
<1>. SUFFICES ASSUME JournalInit PROVE JournalTypeOK
  OBVIOUS
<1>1. lines \in Seq(Line)
  <2>1. CASE lines = <<>>
    BY <2>1
  <2>2. ASSUME NEW p \in Replays, NEW d \in Digests, lines = <<Entry(p, d)>>
        PROVE  lines \in Seq(Line)
    BY <2>2, RecordsAreLines
  <2>. QED  BY <2>1, <2>2 DEF JournalInit
<1>2. Len(lines) \in 0..Len(lines)
  BY <1>1
<1>3. legacy \in 0..Len(lines) /\ crashes \in 0..MaxCrashes
  BY <1>2 DEF JournalInit
<1>4. /\ pc \in [Collectors -> {"idle", "entries", "folder", "snapshots", "record", "append",
                                "failed"}]
      /\ epoch \in [Collectors -> Digests]
  BY DEF JournalInit
<1>5. /\ known \in [Collectors -> SUBSET Replays]
      /\ added \in [Collectors -> SUBSET Replays]
      /\ todo \in [Collectors -> SUBSET Replays]
  BY DEF JournalInit
<1>6. /\ torn = FALSE /\ overlapped = FALSE /\ reported = {}
      /\ folder \in SUBSET Replays /\ config \in Digests
  BY DEF JournalInit
<1>. QED  BY <1>1, <1>3, <1>4, <1>5, <1>6 DEF JournalTypeOK

LEMMA StepTypes == JournalTypeOK /\ [JournalNext]_journalVars => JournalTypeOK'
<1>. SUFFICES ASSUME JournalTypeOK, [JournalNext]_journalVars PROVE JournalTypeOK'
  OBVIOUS
<1>. USE DEF JournalTypeOK
<1>1. ASSUME NEW c \in Collectors, Start(c) PROVE JournalTypeOK'
  BY <1>1 DEF Start
<1>2. ASSUME NEW c \in Collectors, ReadFails(c) PROVE JournalTypeOK'
  BY <1>2 DEF ReadFails
<1>3. ASSUME NEW c \in Collectors, ReadEntries(c) PROVE JournalTypeOK'
  <2>1. ASSUME NEW i \in DOMAIN lines, lines[i].kind = "replay"
        PROVE  lines[i].name \in Replays
    <3>1. lines[i] \in Line
      OBVIOUS
    <3>. QED  BY <2>1, <3>1 DEF Line, Damaged, Broken
  <2>2. Names(lines) \subseteq Replays
    BY <2>1 DEF Names
  <2>. QED  BY <1>3, <2>2 DEF ReadEntries
<1>4. ASSUME NEW c \in Collectors, ListFolder(c) PROVE JournalTypeOK'
  BY <1>4 DEF ListFolder
<1>5. ASSUME NEW c \in Collectors, ReadSnapshots(c) PROVE JournalTypeOK'
  BY <1>5 DEF ReadSnapshots
<1>6. ASSUME NEW c \in Collectors, RecordEpoch(c) PROVE JournalTypeOK'
  <2>1. /\ lines' \in Seq(Line)
        /\ lines' # <<>>
        /\ Len(lines) <= Len(lines')
        /\ torn' = FALSE
    BY <1>6, RecordsAreLines, WriteIsALine DEF RecordEpoch
  <2>2. legacy' \in 0..Len(lines')
    BY <1>6, <2>1 DEF RecordEpoch
  <2>. QED  BY <1>6, <2>1, <2>2 DEF RecordEpoch
<1>7. ASSUME NEW c \in Collectors, AppendEntry(c) PROVE JournalTypeOK'
  <2>1. PICK p \in todo[c] : Write(Entry(p, epoch[c])) /\ todo' = [todo EXCEPT ![c] = @ \ {p}]
    BY <1>7 DEF AppendEntry
  <2>2. Entry(p, epoch[c]) \in Line
    BY RecordsAreLines
  <2>3. /\ lines' \in Seq(Line)
        /\ lines' # <<>>
        /\ Len(lines) <= Len(lines')
        /\ torn' = FALSE
    BY <2>1, <2>2, WriteIsALine
  <2>4. legacy' \in 0..Len(lines')
    BY <1>7, <2>3 DEF AppendEntry
  <2>. QED  BY <1>7, <2>1, <2>3, <2>4 DEF AppendEntry
<1>8. ASSUME NEW c \in Collectors, Crash(c) PROVE JournalTypeOK'
  BY <1>8 DEF Crash, Killed
<1>9. ASSUME NEW c \in Collectors, CrashWriting(c) PROVE JournalTypeOK'
  <2>1. PICK r \in Line : TornWrite(r)
    BY <1>9, RecordsAreLines DEF CrashWriting
  <2>2. /\ lines' \in Seq(Line)
        /\ lines' # <<>>
        /\ Len(lines) <= Len(lines')
        /\ torn' = TRUE
    BY <2>1, TornWriteIsALine
  <2>3. legacy' \in 0..Len(lines')
    BY <1>9, <2>2 DEF CrashWriting, Killed
  <2>. QED  BY <1>9, <2>2, <2>3 DEF CrashWriting, Killed
<1>10. CASE Player
  BY <1>10 DEF Player
<1>11. CASE UNCHANGED journalVars
  BY <1>11 DEF journalVars
<1>. QED
  BY <1>1, <1>2, <1>3, <1>4, <1>5, <1>6, <1>7, <1>8, <1>9, <1>10, <1>11
     DEF JournalNext, Collect

\* Every journal that forge collect can leave is made of lines of the three
\* kinds and their damaged forms, whichever runs overlap or are killed.
THEOREM JournalTypeCorrect == JournalSpec => []JournalTypeOK
BY InitTypes, StepTypes, PTL DEF JournalSpec

-----------------------------------------------------------------------------
(***************************************************************************)
(* The settings behind an entry are on record before it.  The property is  *)
(* not inductive: an entry is appended many steps after the snapshots were *)
(* read, and other runs write in between.  What carries it there is that a *)
(* run that is appending has its settings on record somewhere in the file, *)
(* and that no write takes a record away without leaving damage behind.    *)
(***************************************************************************)
OnRecord(d) == \E j \in DOMAIN lines : Backs(lines[j], d)

AppendersAreOnRecord == \A c \in Collectors : pc[c] = "append" => OnRecord(epoch[c])

SettingsInv == JournalTypeOK /\ SettingsPrecedeEntries /\ AppendersAreOnRecord

\* What either write does to the file: lines stay, or the last one is damaged;
\* at most one line is new, and it is the record, a fragment of it, or damage.
\* Only a torn file's last line is touched, and then no line is new.
Extends(r) ==
  /\ Len(lines') = Len(lines) + (IF torn THEN 0 ELSE 1)
  /\ \A j \in 1..(Len(lines) - 1) : lines'[j] = lines[j]
  /\ IF torn THEN lines'[Len(lines)] \in {Damaged, Broken}
             ELSE \A j \in 1..Len(lines) : lines'[j] = lines[j]
  /\ \A j \in 1..Len(lines) : lines'[j] = lines[j] \/ lines'[j] \in {Damaged, Broken}
  /\ \A j \in 1..Len(lines') : j > Len(lines) => lines'[j] \in {r, Damaged, Broken}

LEMMA WriteExtends ==
  ASSUME JournalTypeOK, NEW r \in Line, Write(r)
  PROVE  Extends(r)
<1>. USE DEF JournalTypeOK
<1>1. CASE torn
  <2>1. lines' = [lines EXCEPT ![Len(lines)] = Spoilt(lines[Len(lines)])]
    BY <1>1 DEF Write
  <2>2. Spoilt(lines[Len(lines)]) \in {Damaged, Broken}
    BY DEF Spoilt
  <2>3. /\ Len(lines') = Len(lines) /\ Len(lines) \in Nat
        /\ \A j \in 1..Len(lines) : lines'[j] = lines[j] \/ lines'[j] = Spoilt(lines[Len(lines)])
        /\ \A j \in 1..(Len(lines) - 1) : lines'[j] = lines[j]
        /\ lines'[Len(lines)] = Spoilt(lines[Len(lines)])
    BY <1>1, <2>1, <2>2, DamageIsALine, LastReplaced
  <2>. QED  BY <1>1, <2>2, <2>3 DEF Extends
<1>2. CASE ~torn
  BY <1>2 DEF Write, Extends
<1>. QED  BY <1>1, <1>2

LEMMA TornWriteExtends ==
  ASSUME JournalTypeOK, NEW r \in Line, TornWrite(r)
  PROVE  Extends(r)
<1>. USE DEF JournalTypeOK
<1>1. PICK left \in {r, Damaged, Broken} :
        lines' = IF torn THEN [lines EXCEPT ![Len(lines)] =
                                 IF left = Broken THEN Broken ELSE Spoilt(@)]
                 ELSE Append(lines, left)
  BY DEF TornWrite
<1>2. CASE torn
  <2>1. PICK last \in {Damaged, Broken} : lines' = [lines EXCEPT ![Len(lines)] = last]
    BY <1>1, <1>2 DEF Spoilt
  <2>2. /\ Len(lines') = Len(lines) /\ Len(lines) \in Nat
        /\ \A j \in 1..Len(lines) : lines'[j] = lines[j] \/ lines'[j] = last
        /\ \A j \in 1..(Len(lines) - 1) : lines'[j] = lines[j]
        /\ lines'[Len(lines)] = last
    BY <1>2, <2>1, DamageIsALine, LastReplaced
  <2>. QED  BY <1>2, <2>2 DEF Extends
<1>3. CASE ~torn
  BY <1>1, <1>3 DEF Extends
<1>. QED  BY <1>2, <1>3

\* A line that backs a digest goes on doing so, whatever is written.
LEMMA RecordsStay ==
  ASSUME JournalTypeOK, NEW r, Extends(r), NEW d, NEW j \in 1..Len(lines), Backs(lines[j], d)
  PROVE  j \in 1..Len(lines') /\ Backs(lines'[j], d)
<1>1. j \in 1..Len(lines')
  BY DEF Extends, JournalTypeOK
<1>2. lines'[j] = lines[j] \/ lines'[j] \in {Damaged, Broken}
  BY DEF Extends
<1>. QED  BY <1>1, <1>2 DEF Backs, Damaged, Broken

LEMMA EntriesStayBacked ==
  ASSUME SettingsInv, JournalTypeOK', NEW r \in Line, Extends(r), legacy' = legacy,
         r.kind = "replay" => OnRecord(r.digest)
  PROVE  SettingsPrecedeEntries'
<1>1. /\ JournalTypeOK
      /\ lines \in Seq(Line) /\ lines' \in Seq(Line)
      /\ DOMAIN lines = 1..Len(lines) /\ DOMAIN lines' = 1..Len(lines')
      /\ Len(lines) \in Nat /\ Len(lines') \in Nat
  BY DEF SettingsInv, JournalTypeOK
<1>2. SUFFICES ASSUME NEW i \in 1..Len(lines'), i > legacy, lines'[i].kind = "replay"
               PROVE  \E j \in 1..(i - 1) : Backs(lines'[j], lines'[i].digest)
  BY <1>1 DEF SettingsPrecedeEntries
<1>3. lines'[i] \notin {Damaged, Broken}
  BY <1>2 DEF Damaged, Broken
<1>4. CASE i \in 1..Len(lines)
  <2>1. lines'[i] = lines[i]
    BY <1>3, <1>4 DEF Extends
  <2>2. PICK j \in 1..(i - 1) : Backs(lines[j], lines[i].digest)
    BY <1>1, <1>2, <1>4, <2>1 DEF SettingsInv, SettingsPrecedeEntries
  <2>3. j \in 1..Len(lines)
    BY <1>1, <1>4
  <2>4. Backs(lines'[j], lines[i].digest)
    BY <1>1, <2>2, <2>3, RecordsStay
  <2>. QED  BY <2>1, <2>4
<1>5. CASE i \notin 1..Len(lines)
  <2>1. i = Len(lines) + 1 /\ i > Len(lines)
    BY <1>1, <1>5, TheOneNewIndex DEF Extends
  <2>2. lines'[i] = r
    BY <1>3, <2>1 DEF Extends
  <2>3. PICK j \in 1..Len(lines) : Backs(lines[j], r.digest)
    BY <1>1, <1>2, <2>2 DEF OnRecord
  <2>4. Backs(lines'[j], r.digest)
    BY <1>1, <2>3, RecordsStay
  <2>5. j \in 1..(i - 1)
    BY <1>1, <2>1
  <2>. QED  BY <2>2, <2>4, <2>5
<1>. QED  BY <1>4, <1>5

LEMMA InitSettings == JournalInit => SettingsInv
<1>. SUFFICES ASSUME JournalInit PROVE SettingsPrecedeEntries /\ AppendersAreOnRecord
  BY InitTypes DEF SettingsInv
<1>1. lines \in Seq(Line) /\ legacy = Len(lines)
  BY InitTypes DEF JournalInit, JournalTypeOK
<1>2. SettingsPrecedeEntries
  BY <1>1 DEF SettingsPrecedeEntries
<1>3. AppendersAreOnRecord
  BY DEF JournalInit, AppendersAreOnRecord
<1>. QED  BY <1>2, <1>3

\* A step that leaves the file alone and makes nobody start appending.
LEMMA FileUntouched ==
  ASSUME SettingsInv, JournalTypeOK', lines' = lines, legacy' = legacy,
         \A c \in Collectors : pc'[c] = "append" =>
           pc[c] = "append" /\ epoch'[c] = epoch[c]
  PROVE  SettingsInv'
BY DEF SettingsInv, SettingsPrecedeEntries, AppendersAreOnRecord, OnRecord

\* A write by one run, whatever becomes of that run.
LEMMA FileWritten ==
  ASSUME SettingsInv, JournalTypeOK', NEW c \in Collectors, NEW r \in Line, Extends(r),
         legacy' = legacy, epoch' = epoch,
         r.kind = "replay" => OnRecord(r.digest),
         \A o \in Collectors : pc'[o] = "append" =>
           pc[o] = "append" \/ (o = c /\ OnRecord(epoch[c])')
  PROVE  SettingsInv'
<1>1. JournalTypeOK
  BY DEF SettingsInv
<1>2. SettingsPrecedeEntries'
  BY EntriesStayBacked
<1>3. ASSUME NEW o \in Collectors, pc'[o] = "append" PROVE OnRecord(epoch[o])'
  <2>1. CASE pc[o] = "append"
    <3>1. OnRecord(epoch[o])
      BY <2>1 DEF SettingsInv, AppendersAreOnRecord
    <3>2. PICK j \in 1..Len(lines) : Backs(lines[j], epoch[o])
      BY <1>1, <3>1 DEF OnRecord, JournalTypeOK
    <3>3. j \in 1..Len(lines') /\ Backs(lines'[j], epoch[o])
      BY <1>1, <3>2, RecordsStay
    <3>. QED  BY <3>3 DEF OnRecord, JournalTypeOK
  <2>. QED  BY <1>3, <2>1
<1>. QED  BY <1>2, <1>3 DEF SettingsInv, AppendersAreOnRecord

\* The record a run has just written backs its digest, damaged or not.
LEMMA SnapshotIsOnRecord ==
  ASSUME JournalTypeOK, JournalTypeOK', NEW d \in Digests, Write(Snapshot(d))
  PROVE  \E j \in DOMAIN lines' : Backs(lines'[j], d)
<1>1. lines \in Seq(Line) /\ torn \in BOOLEAN /\ (torn => lines # <<>>)
  BY DEF JournalTypeOK
<1>2. CASE torn
  <2>1. lines' = [lines EXCEPT ![Len(lines)] = Spoilt(lines[Len(lines)])]
    BY <1>2 DEF Write
  <2>2. Len(lines) \in DOMAIN lines' /\ lines'[Len(lines)] = Spoilt(lines[Len(lines)])
    BY <1>1, <1>2, <2>1
  <2>. QED  BY <2>2 DEF Spoilt, Backs, Damaged, Broken
<1>3. CASE ~torn
  <2>1. lines' = Append(lines, Snapshot(d))
    BY <1>3 DEF Write
  <2>2. Len(lines) + 1 \in DOMAIN lines' /\ lines'[Len(lines) + 1] = Snapshot(d)
    BY <1>1, <2>1
  <2>. QED  BY <2>2 DEF Backs, Snapshot
<1>. QED  BY <1>1, <1>2, <1>3

LEMMA StepSettings == SettingsInv /\ [JournalNext]_journalVars => SettingsInv'
<1>. SUFFICES ASSUME SettingsInv, [JournalNext]_journalVars PROVE SettingsInv'
  OBVIOUS
<1>0. JournalTypeOK /\ JournalTypeOK'
  BY StepTypes DEF SettingsInv
<1>1. ASSUME NEW c \in Collectors,
             Start(c) \/ ReadFails(c) \/ ReadEntries(c) \/ ListFolder(c) \/ Crash(c)
      PROVE  SettingsInv'
  <2>1. /\ lines' = lines /\ legacy' = legacy
        /\ \A o \in Collectors \ {c} : pc'[o] = pc[o] /\ epoch'[o] = epoch[o]
        /\ pc'[c] # "append"
    BY <1>0, <1>1 DEF JournalTypeOK, Start, ReadFails, ReadEntries, ListFolder, Crash, Killed
  <2>. QED  BY <1>0, <2>1, FileUntouched
<1>2. ASSUME NEW c \in Collectors, ReadSnapshots(c) PROVE SettingsInv'
  <2>1. /\ lines' = lines /\ legacy' = legacy /\ epoch' = epoch
        /\ \A o \in Collectors \ {c} : pc'[o] = pc[o]
        /\ pc'[c] = "append" => LastRecordedIs(lines, epoch[c])
    BY <1>0, <1>2 DEF JournalTypeOK, ReadSnapshots
  <2>2. pc'[c] = "append" => OnRecord(epoch[c])
    BY <2>1 DEF LastRecordedIs, OnRecord, Backs, Snapshot
  <2>. QED  BY <1>0, <2>1, <2>2
            DEF SettingsInv, SettingsPrecedeEntries, AppendersAreOnRecord, OnRecord
<1>3. ASSUME NEW c \in Collectors, RecordEpoch(c) PROVE SettingsInv'
  <2>1. /\ Write(Snapshot(epoch[c])) /\ epoch[c] \in Digests
        /\ legacy' = legacy /\ epoch' = epoch
        /\ \A o \in Collectors \ {c} : pc'[o] = pc[o]
    BY <1>0, <1>3 DEF JournalTypeOK, RecordEpoch
  <2>2. Snapshot(epoch[c]) \in Line /\ Snapshot(epoch[c]).kind # "replay"
    BY <2>1, RecordsAreLines DEF Snapshot
  <2>3. OnRecord(epoch[c])'
    BY <1>0, <2>1, SnapshotIsOnRecord DEF OnRecord
  <2>4. Extends(Snapshot(epoch[c]))
    BY <1>0, <2>1, <2>2, WriteExtends
  <2>. QED  BY <1>0, <2>1, <2>2, <2>3, <2>4, FileWritten
<1>4. ASSUME NEW c \in Collectors, AppendEntry(c) PROVE SettingsInv'
  <2>1. PICK p \in todo[c] : Write(Entry(p, epoch[c]))
    BY <1>4 DEF AppendEntry
  <2>2. /\ p \in Replays /\ epoch[c] \in Digests /\ pc[c] = "append"
        /\ legacy' = legacy /\ epoch' = epoch
        /\ \A o \in Collectors \ {c} : pc'[o] = pc[o]
    BY <1>0, <1>4 DEF JournalTypeOK, AppendEntry
  <2>3. Entry(p, epoch[c]) \in Line /\ Entry(p, epoch[c]).digest = epoch[c]
    BY <2>2, RecordsAreLines DEF Entry
  <2>4. OnRecord(epoch[c])
    BY <2>2 DEF SettingsInv, AppendersAreOnRecord
  <2>5. Extends(Entry(p, epoch[c]))
    BY <1>0, <2>1, <2>3, WriteExtends
  <2>. QED  BY <1>0, <2>2, <2>3, <2>4, <2>5, FileWritten
<1>5. ASSUME NEW c \in Collectors, CrashWriting(c) PROVE SettingsInv'
  <2>1. /\ legacy' = legacy /\ epoch' = epoch
        /\ \A o \in Collectors \ {c} : pc'[o] = pc[o]
        /\ pc'[c] # "append"
    BY <1>0, <1>5 DEF JournalTypeOK, CrashWriting, Killed
  <2>2. PICK r \in Line : TornWrite(r) /\ (r.kind = "replay" => OnRecord(r.digest))
    <3>1. CASE pc[c] = "record" /\ TornWrite(Snapshot(epoch[c]))
      <4>1. Snapshot(epoch[c]) \in Line /\ Snapshot(epoch[c]).kind # "replay"
        BY <1>0, RecordsAreLines DEF JournalTypeOK, Snapshot
      <4>. QED  BY <3>1, <4>1
    <3>2. ASSUME pc[c] = "append", NEW p \in todo[c], TornWrite(Entry(p, epoch[c]))
          PROVE  \E r \in Line : TornWrite(r) /\ (r.kind = "replay" => OnRecord(r.digest))
      <4>1. Entry(p, epoch[c]) \in Line /\ Entry(p, epoch[c]).digest = epoch[c]
        BY <1>0, RecordsAreLines DEF JournalTypeOK, Entry
      <4>2. OnRecord(epoch[c])
        BY <3>2 DEF SettingsInv, AppendersAreOnRecord
      <4>. QED  BY <3>2, <4>1, <4>2
    <3>. QED  BY <1>5, <3>1, <3>2 DEF CrashWriting
  <2>3. Extends(r)
    BY <1>0, <2>2, TornWriteExtends
  <2>. QED  BY <1>0, <2>1, <2>2, <2>3, FileWritten
<1>6. CASE Player \/ UNCHANGED journalVars
  <2>1. lines' = lines /\ legacy' = legacy /\ pc' = pc /\ epoch' = epoch
    BY <1>6 DEF Player, journalVars
  <2>. QED  BY <1>0, <2>1, FileUntouched
<1>. QED
  BY <1>1, <1>2, <1>3, <1>4, <1>5, <1>6 DEF JournalNext, Collect

\* collect/journal.py scan(): every entry appended since there are snapshots
\* has the settings behind its digest at or before it, or damage there, for
\* any number of overlapping runs and of kills.
THEOREM SettingsAreOnRecord == JournalSpec => []SettingsPrecedeEntries
<1>1. SettingsInv => SettingsPrecedeEntries
  BY DEF SettingsInv
<1>. QED  BY <1>1, InitSettings, StepSettings, PTL DEF JournalSpec

-----------------------------------------------------------------------------
(***************************************************************************)
(* One replay, once, and a snapshot for a change only.  Both read the file *)
(* and write to it steps later; what makes them right is that nobody else  *)
(* has written in between, so what a run has read is still so when it      *)
(* writes.                                                                 *)
(***************************************************************************)
AtWork(c) == pc[c] \notin {"idle", "failed"}

Alone == \A c, o \in Collectors : AtWork(c) /\ AtWork(o) => c = o

\* What a run is going to append is not on file.
TodoIsNew ==
  \A c \in Collectors :
    /\ pc[c] = "folder" => Names(lines) \subseteq known[c]
    /\ pc[c] \in {"snapshots", "record", "append"} => todo[c] \intersect Names(lines) = {}

\* A snapshot about to be written is not the last on file.
RecordIsAChange ==
  \A c \in Collectors : pc[c] = "record" => ~LastRecordedIs(lines, epoch[c])

OnceInv ==
  /\ JournalTypeOK
  /\ ~overlapped => Alone /\ TodoIsNew /\ RecordIsAChange
  /\ ReplaysAreRecordedOnce
  /\ SnapshotsAreChanges

\* The names that no later write can take: those of the lines that end in a
\* newline.
FirmNames ==
  {lines[i].name : i \in {j \in DOMAIN lines : /\ lines[j].kind = "replay"
                                               /\ j < Len(lines) \/ ~torn}}

\* The names that runs have written, whole as far as they know.
Written ==
  reported \union UNION {added[c] \ todo[c] : c \in {o \in Collectors : pc[o] = "append"}}

\* Every name that was written and is not firm cost a kill of its own; while
\* the last line is torn, one kill has not cost its name yet.
KillsPayForLosses ==
  Cardinality(Written \ FirmNames) + (IF torn THEN 1 ELSE 0) <= crashes

NothingWrittenYet ==
  \A c \in Collectors :
    /\ pc[c] \in {"snapshots", "record"} => todo[c] = added[c]
    /\ pc[c] = "append" => todo[c] \subseteq added[c]

KillInv == JournalTypeOK /\ NothingWrittenYet /\ KillsPayForLosses

-----------------------------------------------------------------------------
\* A line of the file after a write that is an entry or a snapshot is one of
\* before, or the record itself at the end of a file that was not torn.
LEMMA WhereALineIsFrom ==
  ASSUME JournalTypeOK, JournalTypeOK', NEW r \in Line, Extends(r),
         NEW i \in DOMAIN lines', lines'[i].kind \in {"replay", "epoch"}
  PROVE  \/ i \in DOMAIN lines /\ lines'[i] = lines[i]
         \/ i = Len(lines) + 1 /\ ~torn /\ lines'[i] = r
<1>1. /\ DOMAIN lines = 1..Len(lines) /\ DOMAIN lines' = 1..Len(lines')
      /\ Len(lines) \in Nat /\ Len(lines') \in Nat
  BY DEF JournalTypeOK
<1>2. lines'[i] \notin {Damaged, Broken}
  BY DEF Damaged, Broken
<1>3. CASE i <= Len(lines)
  BY <1>1, <1>2, <1>3 DEF Extends
<1>4. CASE i > Len(lines)
  <2>1. i = Len(lines) + 1 /\ ~torn
    BY <1>1, <1>4 DEF Extends, JournalTypeOK
  <2>. QED  BY <1>1, <1>2, <1>4, <2>1 DEF Extends
<1>. QED  BY <1>1, <1>3, <1>4

LEMMA NamesAfterAWrite ==
  ASSUME JournalTypeOK, JournalTypeOK', NEW r \in Line, Extends(r)
  PROVE  \A p \in Names(lines') : p \in Names(lines) \/ (r.kind = "replay" /\ p = r.name)
<1>. SUFFICES ASSUME NEW i \in DOMAIN lines', lines'[i].kind = "replay"
              PROVE  lines'[i].name \in Names(lines)
                       \/ (r.kind = "replay" /\ lines'[i].name = r.name)
  BY DEF Names
<1>1. CASE i \in DOMAIN lines /\ lines'[i] = lines[i]
  BY <1>1 DEF Names
<1>2. CASE lines'[i] = r
  BY <1>2
<1>. QED  BY <1>1, <1>2, WhereALineIsFrom

\* A new entry repeats nothing ...
LEMMA StillOnce ==
  ASSUME JournalTypeOK, JournalTypeOK', NEW r \in Line, Extends(r),
         ~overlapped, ReplaysAreRecordedOnce, overlapped' = overlapped,
         r.kind = "replay" => r.name \notin Names(lines)
  PROVE  ReplaysAreRecordedOnce'
<1>. SUFFICES ASSUME NEW i \in DOMAIN lines', NEW j \in DOMAIN lines',
                     lines'[i].kind = "replay", lines'[j].kind = "replay",
                     lines'[i].name = lines'[j].name
              PROVE  i = j
  BY DEF ReplaysAreRecordedOnce
<1>1. /\ \/ i \in DOMAIN lines /\ lines'[i] = lines[i]
         \/ i = Len(lines) + 1 /\ lines'[i] = r
      /\ \/ j \in DOMAIN lines /\ lines'[j] = lines[j]
         \/ j = Len(lines) + 1 /\ lines'[j] = r
  BY WhereALineIsFrom
<1>2. \A k \in DOMAIN lines : lines[k].kind = "replay" => lines[k].name \in Names(lines)
  BY DEF Names
<1>. QED  BY <1>1, <1>2 DEF ReplaysAreRecordedOnce

\* ... and a new snapshot is another one than the last.
LEMMA StillChanges ==
  ASSUME JournalTypeOK, JournalTypeOK', NEW r \in Line, Extends(r),
         ~overlapped, SnapshotsAreChanges, overlapped' = overlapped,
         r.kind = "epoch" => ~LastRecordedIs(lines, r.digest)
  PROVE  SnapshotsAreChanges'
<1>. SUFFICES ASSUME NEW i \in DOMAIN lines', NEW j \in DOMAIN lines', i < j,
                     lines'[i].kind = "epoch", lines'[j].kind = "epoch",
                     \A k \in (i + 1)..(j - 1) : lines'[k].kind # "epoch"
              PROVE  lines'[i].digest # lines'[j].digest
  BY DEF SnapshotsAreChanges
<1>1. /\ DOMAIN lines = 1..Len(lines) /\ DOMAIN lines' = 1..Len(lines')
      /\ Len(lines) \in Nat /\ Len(lines') \in Nat
      /\ Len(lines') <= Len(lines) + 1
  BY DEF JournalTypeOK, Extends
<1>2. i \in DOMAIN lines /\ lines'[i] = lines[i]
  BY <1>1, WhereALineIsFrom
<1>3. CASE j \in DOMAIN lines /\ lines'[j] = lines[j]
  <2>1. \A k \in (i + 1)..(j - 1) : k \in 1..(Len(lines) - 1) /\ lines'[k] = lines[k]
    BY <1>1, <1>3 DEF Extends
  <2>2. \A k \in (i + 1)..(j - 1) : lines[k].kind # "epoch"
    BY <2>1
  <2>. QED  BY <1>2, <1>3, <2>2 DEF SnapshotsAreChanges
<1>4. CASE j = Len(lines) + 1 /\ ~torn /\ lines'[j] = r
  <2>1. \A k \in DOMAIN lines : lines'[k] = lines[k]
    BY <1>1, <1>4 DEF Extends
  <2>2. \A k \in DOMAIN lines : lines[k].kind = "epoch" => k <= i
    BY <1>1, <1>2, <1>4, <2>1
  <2>3. lines[i] \in Line /\ lines[i].kind = "epoch"
    BY <1>2 DEF JournalTypeOK
  <2>4. lines[i] = Snapshot(lines[i].digest)
    BY <2>3 DEF Line, Snapshot, Damaged, Broken
  <2>5. LastRecordedIs(lines, lines[i].digest)
    BY <1>2, <2>2, <2>4 DEF LastRecordedIs
  <2>. QED  BY <1>2, <1>4, <2>5
<1>. QED  BY <1>3, <1>4, WhereALineIsFrom

LEMMA InitOnce == JournalInit => OnceInv
<1>. SUFFICES ASSUME JournalInit PROVE OnceInv
  OBVIOUS
<1>1. JournalTypeOK
  BY InitTypes
<1>2. lines \in Seq(Line) /\ Len(lines) <= 1
  <2>1. CASE lines = <<>>
    BY <2>1
  <2>2. ASSUME NEW p \in Replays, NEW d \in Digests, lines = <<Entry(p, d)>>
        PROVE  lines \in Seq(Line) /\ Len(lines) <= 1
    BY <1>1, <2>2 DEF JournalTypeOK
  <2>. QED  BY <2>1, <2>2 DEF JournalInit
<1>3. \A i, j \in DOMAIN lines : i = j
  BY <1>2
<1>4. ReplaysAreRecordedOnce /\ SnapshotsAreChanges
  BY <1>2, <1>3 DEF ReplaysAreRecordedOnce, SnapshotsAreChanges
<1>5. Alone /\ TodoIsNew /\ RecordIsAChange
  BY DEF JournalInit, Alone, AtWork, TodoIsNew, RecordIsAChange
<1>. QED  BY <1>1, <1>4, <1>5 DEF OnceInv

\* A step of one run that leaves the file alone.
LEMMA ReadsOnce ==
  ASSUME OnceInv, JournalTypeOK', NEW c \in Collectors,
         lines' = lines,
         \A o \in Collectors \ {c} : /\ pc'[o] = pc[o] /\ todo'[o] = todo[o]
                                     /\ known'[o] = known[o] /\ epoch'[o] = epoch[o],
         ~overlapped' =>
           /\ ~overlapped
           /\ AtWork(c) \/ ~AtWork(c)' \/ \A o \in Collectors \ {c} : ~AtWork(o),
         ~overlapped /\ pc'[c] = "folder" => Names(lines) \subseteq known'[c],
         ~overlapped /\ pc'[c] \in {"snapshots", "record", "append"} =>
           todo'[c] \intersect Names(lines) = {},
         ~overlapped /\ pc'[c] = "record" => ~LastRecordedIs(lines, epoch'[c])
  PROVE  OnceInv'
<1>1. ReplaysAreRecordedOnce' /\ SnapshotsAreChanges'
  BY DEF OnceInv, ReplaysAreRecordedOnce, SnapshotsAreChanges
<1>2. ASSUME ~overlapped' PROVE Alone' /\ TodoIsNew' /\ RecordIsAChange'
  <2>1. ~overlapped /\ Alone /\ TodoIsNew /\ RecordIsAChange
    BY <1>2 DEF OnceInv
  <2>2. \A o \in Collectors \ {c} : AtWork(o)' <=> AtWork(o)
    BY DEF AtWork
  <2>3. Alone'
    BY <1>2, <2>1, <2>2 DEF Alone
  <2>4. TodoIsNew'
    BY <2>1 DEF TodoIsNew
  <2>5. RecordIsAChange'
    BY <2>1 DEF RecordIsAChange
  <2>. QED  BY <2>3, <2>4, <2>5
<1>. QED  BY <1>1, <1>2 DEF OnceInv

\* A write by one run: nobody else is at work, so only its own reading has to
\* be up to date.
LEMMA WritesOnce ==
  ASSUME OnceInv, JournalTypeOK', NEW c \in Collectors, NEW r \in Line, Extends(r),
         AtWork(c), overlapped' = overlapped,
         \A o \in Collectors \ {c} : pc'[o] = pc[o],
         pc'[c] \in {"idle", "append"},
         ~overlapped /\ r.kind = "replay" => r.name \notin Names(lines),
         ~overlapped /\ r.kind = "epoch" => ~LastRecordedIs(lines, r.digest),
         ~overlapped /\ pc'[c] = "append" =>
           \A p \in todo'[c] : p \notin Names(lines) /\ ~(r.kind = "replay" /\ p = r.name)
  PROVE  OnceInv'
<1>1. JournalTypeOK /\ JournalTypeOK'
  BY DEF OnceInv
<1>2. CASE overlapped
  BY <1>1, <1>2 DEF OnceInv, ReplaysAreRecordedOnce, SnapshotsAreChanges
<1>3. CASE ~overlapped
  <2>1. Alone /\ ReplaysAreRecordedOnce /\ SnapshotsAreChanges
    BY <1>3 DEF OnceInv
  <2>2. ReplaysAreRecordedOnce'
    BY <1>1, <1>3, <2>1, StillOnce
  <2>3. SnapshotsAreChanges'
    BY <1>1, <1>3, <2>1, StillChanges
  <2>4. \A o \in Collectors \ {c} : ~AtWork(o) /\ ~AtWork(o)'
    BY <2>1 DEF Alone, AtWork
  <2>5. Alone'
    BY <2>4 DEF Alone
  <2>6. \A p \in Names(lines') : p \in Names(lines) \/ (r.kind = "replay" /\ p = r.name)
    BY <1>1, NamesAfterAWrite
  <2>7. pc'[c] = "append" => todo'[c] \intersect Names(lines') = {}
    BY <1>3, <2>6
  <2>8. TodoIsNew' /\ RecordIsAChange'
    BY <2>4, <2>7 DEF TodoIsNew, RecordIsAChange, AtWork
  <2>. QED  BY <1>1, <2>2, <2>3, <2>5, <2>8 DEF OnceInv
<1>. QED  BY <1>1, <1>2, <1>3 DEF JournalTypeOK

LEMMA StepOnce == OnceInv /\ [JournalNext]_journalVars => OnceInv'
<1>. SUFFICES ASSUME OnceInv, [JournalNext]_journalVars PROVE OnceInv'
  OBVIOUS
<1>0. JournalTypeOK /\ JournalTypeOK'
  BY StepTypes DEF OnceInv
<1>1. ASSUME NEW c \in Collectors, Start(c) PROVE OnceInv'
  <2>1. /\ lines' = lines /\ pc'[c] = "entries"
        /\ \A o \in Collectors \ {c} : /\ pc'[o] = pc[o] /\ todo'[o] = todo[o]
                                       /\ known'[o] = known[o] /\ epoch'[o] = epoch[o]
    BY <1>0, <1>1 DEF Start, JournalTypeOK
  <2>2. ~overlapped' => ~overlapped /\ \A o \in Collectors \ {c} : ~AtWork(o)
    BY <1>1 DEF Start, AtWork
  <2>. QED  BY <1>0, <2>1, <2>2, ReadsOnce
<1>2. ASSUME NEW c \in Collectors, ReadFails(c) \/ Crash(c) PROVE OnceInv'
  <2>1. /\ lines' = lines /\ pc'[c] \in {"idle", "failed"} /\ overlapped' = overlapped
        /\ \A o \in Collectors \ {c} : /\ pc'[o] = pc[o] /\ todo'[o] = todo[o]
                                       /\ known'[o] = known[o] /\ epoch'[o] = epoch[o]
    BY <1>0, <1>2 DEF ReadFails, Crash, Killed, JournalTypeOK
  <2>2. ~AtWork(c)'
    BY <2>1 DEF AtWork
  <2>. QED  BY <1>0, <2>1, <2>2, ReadsOnce
<1>3. ASSUME NEW c \in Collectors, ReadEntries(c) PROVE OnceInv'
  <2>1. /\ lines' = lines /\ pc'[c] = "folder" /\ overlapped' = overlapped /\ AtWork(c)
        /\ known'[c] = Names(lines)
        /\ \A o \in Collectors \ {c} : /\ pc'[o] = pc[o] /\ todo'[o] = todo[o]
                                       /\ known'[o] = known[o] /\ epoch'[o] = epoch[o]
    BY <1>0, <1>3 DEF ReadEntries, JournalTypeOK, AtWork
  <2>. QED  BY <1>0, <2>1, ReadsOnce
<1>4. ASSUME NEW c \in Collectors, ListFolder(c) PROVE OnceInv'
  <2>1. /\ lines' = lines /\ pc'[c] \in {"idle", "snapshots"} /\ overlapped' = overlapped
        /\ AtWork(c) /\ pc[c] = "folder" /\ todo'[c] = folder \ known[c]
        /\ \A o \in Collectors \ {c} : /\ pc'[o] = pc[o] /\ todo'[o] = todo[o]
                                       /\ known'[o] = known[o] /\ epoch'[o] = epoch[o]
    BY <1>0, <1>4 DEF ListFolder, JournalTypeOK, AtWork
  <2>2. ~overlapped => todo'[c] \intersect Names(lines) = {}
    BY <2>1 DEF OnceInv, TodoIsNew
  <2>. QED  BY <1>0, <2>1, <2>2, ReadsOnce
<1>5. ASSUME NEW c \in Collectors, ReadSnapshots(c) PROVE OnceInv'
  <2>1. /\ lines' = lines /\ pc'[c] \in {"record", "append"} /\ overlapped' = overlapped
        /\ AtWork(c) /\ pc[c] = "snapshots"
        /\ todo' = todo /\ known' = known /\ epoch' = epoch
        /\ pc'[c] = "record" => ~LastRecordedIs(lines, epoch[c])
        /\ \A o \in Collectors \ {c} : pc'[o] = pc[o]
    BY <1>0, <1>5 DEF ReadSnapshots, JournalTypeOK, AtWork
  <2>2. ~overlapped => todo'[c] \intersect Names(lines) = {}
    BY <2>1 DEF OnceInv, TodoIsNew
  <2>. QED  BY <1>0, <2>1, <2>2, ReadsOnce
<1>6. ASSUME NEW c \in Collectors, RecordEpoch(c) PROVE OnceInv'
  <2>1. /\ Write(Snapshot(epoch[c])) /\ AtWork(c) /\ overlapped' = overlapped
        /\ pc[c] = "record" /\ pc'[c] = "append" /\ todo' = todo
        /\ \A o \in Collectors \ {c} : pc'[o] = pc[o]
    BY <1>0, <1>6 DEF RecordEpoch, JournalTypeOK, AtWork
  <2> DEFINE r == Snapshot(epoch[c])
  <2>2. r \in Line /\ r.kind = "epoch" /\ r.digest = epoch[c]
    BY <1>0, RecordsAreLines DEF Snapshot, JournalTypeOK
  <2>3. Extends(r)
    BY <1>0, <2>1, <2>2, WriteExtends
  <2>4. ~overlapped => /\ ~LastRecordedIs(lines, epoch[c])
                       /\ todo[c] \intersect Names(lines) = {}
    BY <2>1 DEF OnceInv, RecordIsAChange, TodoIsNew
  <2> HIDE DEF r
  <2>. QED  BY <1>0, <2>1, <2>2, <2>3, <2>4, WritesOnce
<1>7. ASSUME NEW c \in Collectors, AppendEntry(c) PROVE OnceInv'
  <2>1. PICK p \in todo[c] : Write(Entry(p, epoch[c])) /\ todo' = [todo EXCEPT ![c] = @ \ {p}]
    BY <1>7 DEF AppendEntry
  <2> DEFINE r == Entry(p, epoch[c])
  <2>2. /\ AtWork(c) /\ overlapped' = overlapped /\ pc[c] = "append"
        /\ pc'[c] \in {"append", "idle"}
        /\ \A o \in Collectors \ {c} : pc'[o] = pc[o]
        /\ todo'[c] = todo[c] \ {p}
    BY <1>0, <1>7, <2>1 DEF AppendEntry, JournalTypeOK, AtWork
  <2>3. r \in Line /\ r.kind = "replay" /\ r.name = p
    BY <1>0, RecordsAreLines DEF Entry, JournalTypeOK
  <2>4. Extends(r)
    BY <1>0, <2>1, <2>3, WriteExtends
  <2>5. ~overlapped => todo[c] \intersect Names(lines) = {}
    BY <2>2 DEF OnceInv, TodoIsNew
  <2> HIDE DEF r
  <2>6. ~overlapped => /\ p \notin Names(lines)
                       /\ \A q \in todo'[c] : q \notin Names(lines) /\ q # p
    BY <2>2, <2>5
  <2>. QED  BY <1>0, <2>2, <2>3, <2>4, <2>6, WritesOnce
<1>8. ASSUME NEW c \in Collectors, CrashWriting(c) PROVE OnceInv'
  <2>1. /\ AtWork(c) /\ overlapped' = overlapped /\ pc'[c] = "idle"
        /\ \A o \in Collectors \ {c} : pc'[o] = pc[o]
    BY <1>0, <1>8 DEF CrashWriting, Killed, JournalTypeOK, AtWork
  <2>2. PICK r \in Line :
          /\ TornWrite(r)
          /\ ~overlapped /\ r.kind = "replay" => r.name \notin Names(lines)
          /\ ~overlapped /\ r.kind = "epoch" => ~LastRecordedIs(lines, r.digest)
    <3>1. CASE pc[c] = "record" /\ TornWrite(Snapshot(epoch[c]))
      <4>1. /\ Snapshot(epoch[c]) \in Line /\ Snapshot(epoch[c]).kind = "epoch"
            /\ Snapshot(epoch[c]).digest = epoch[c]
        BY <1>0, RecordsAreLines DEF JournalTypeOK, Snapshot
      <4>2. ~overlapped => ~LastRecordedIs(lines, epoch[c])
        BY <3>1 DEF OnceInv, RecordIsAChange
      <4>. QED  BY <3>1, <4>1, <4>2
    <3>2. ASSUME pc[c] = "append", NEW p \in todo[c], TornWrite(Entry(p, epoch[c]))
          PROVE  \E r \in Line :
                   /\ TornWrite(r)
                   /\ ~overlapped /\ r.kind = "replay" => r.name \notin Names(lines)
                   /\ ~overlapped /\ r.kind = "epoch" => ~LastRecordedIs(lines, r.digest)
      <4>1. /\ Entry(p, epoch[c]) \in Line /\ Entry(p, epoch[c]).kind = "replay"
            /\ Entry(p, epoch[c]).name = p
        BY <1>0, RecordsAreLines DEF JournalTypeOK, Entry
      <4>2. ~overlapped => p \notin Names(lines)
        BY <3>2 DEF OnceInv, TodoIsNew
      <4>. QED  BY <3>2, <4>1, <4>2
    <3>. QED  BY <1>8, <3>1, <3>2 DEF CrashWriting
  <2>3. Extends(r)
    BY <1>0, <2>2, TornWriteExtends
  <2>. QED  BY <1>0, <2>1, <2>2, <2>3, WritesOnce
<1>9. CASE Player \/ UNCHANGED journalVars
  <2>1. UNCHANGED <<lines, pc, epoch, known, todo, overlapped>>
    BY <1>9 DEF Player, journalVars
  <2>. QED  BY <1>0, <2>1
            DEF OnceInv, Alone, AtWork, TodoIsNew, RecordIsAChange, ReplaysAreRecordedOnce,
                SnapshotsAreChanges
<1>. QED
  BY <1>1, <1>2, <1>3, <1>4, <1>5, <1>6, <1>7, <1>8, <1>9 DEF JournalNext, Collect

\* collect/journal.py scan(), known and append: as long as runs do not overlap,
\* no replay is recorded twice, whatever is killed and whatever gets damaged.
THEOREM RecordedOnce == JournalSpec => []ReplaysAreRecordedOnce
<1>1. OnceInv => ReplaysAreRecordedOnce
  BY DEF OnceInv
<1>. QED  BY <1>1, InitOnce, StepOnce, PTL DEF JournalSpec

\* collect/journal.py scan(), snapshots and record_epoch: a snapshot is another
\* configuration than the snapshot before it.
THEOREM SnapshotsRecordChanges == JournalSpec => []SnapshotsAreChanges
<1>1. OnceInv => SnapshotsAreChanges
  BY DEF OnceInv
<1>. QED  BY <1>1, InitOnce, StepOnce, PTL DEF JournalSpec

-----------------------------------------------------------------------------
\* A kill costs one name.
LEMMA WhoWrote ==
  \A p : p \in Written <=>
           \/ p \in reported
           \/ \E c \in Collectors : pc[c] = "append" /\ p \in added[c] /\ p \notin todo[c]
BY DEF Written

LEMMA LossesAreFinite ==
  ASSUME JournalTypeOK
  PROVE  /\ IsFiniteSet(Written \ FirmNames)
         /\ Cardinality(Written \ FirmNames) \in Nat
<1>1. Written \ FirmNames \subseteq Replays
  BY DEF Written, JournalTypeOK
<1>2. IsFiniteSet(Written \ FirmNames)
  BY <1>1, JournalReplaysAreFinite, FS_Subset
<1>. QED  BY <1>2, FS_CardinalityType

LEMMA AtMostOneMore ==
  ASSUME NEW A, NEW B, IsFiniteSet(A), NEW p, B \subseteq A \union {p}
  PROVE  IsFiniteSet(B) /\ Cardinality(B) <= Cardinality(A) + 1
<1>1. /\ IsFiniteSet(A \union {p})
      /\ Cardinality(A \union {p}) = Cardinality(A) \/ Cardinality(A \union {p}) = Cardinality(A) + 1
  BY FS_AddElement
<1>2. IsFiniteSet(B) /\ Cardinality(B) <= Cardinality(A \union {p})
  BY <1>1, FS_Subset
<1>3. Cardinality(A) \in Nat /\ Cardinality(B) \in Nat
  BY <1>2, FS_CardinalityType
<1>. QED  BY <1>1, <1>2, <1>3

\* No write takes a firm name.
LEMMA FirmNamesStay ==
  ASSUME JournalTypeOK, JournalTypeOK', NEW r, Extends(r)
  PROVE  FirmNames \subseteq FirmNames'
<1>. SUFFICES ASSUME NEW i \in DOMAIN lines, lines[i].kind = "replay", i < Len(lines) \/ ~torn
              PROVE  lines[i].name \in FirmNames'
  BY DEF FirmNames
<1>1. /\ DOMAIN lines = 1..Len(lines) /\ DOMAIN lines' = 1..Len(lines')
      /\ Len(lines) \in Nat /\ Len(lines') \in Nat
  BY DEF JournalTypeOK
<1>2. i \in DOMAIN lines' /\ lines'[i] = lines[i] /\ i < Len(lines')
  <2>1. CASE torn
    BY <1>1, <2>1 DEF Extends
  <2>2. CASE ~torn
    BY <1>1, <2>2 DEF Extends
  <2>. QED  BY <2>1, <2>2
<1>. QED  BY <1>2 DEF FirmNames

\* A step after which nothing more is written and nothing is less firm.
LEMMA NoLoss ==
  ASSUME KillInv, JournalTypeOK', NothingWrittenYet', Written' \subseteq Written,
         FirmNames \subseteq FirmNames', crashes' >= crashes,
         torn' /\ ~torn => crashes' = crashes + 1
  PROVE  KillInv'
<1>1. IsFiniteSet(Written \ FirmNames) /\ Cardinality(Written \ FirmNames) \in Nat
  BY LossesAreFinite DEF KillInv
<1>2. Written' \ FirmNames' \subseteq Written \ FirmNames
  OBVIOUS
<1>3. /\ Cardinality((Written \ FirmNames)') <= Cardinality(Written \ FirmNames)
      /\ Cardinality((Written \ FirmNames)') \in Nat
  BY <1>1, <1>2, FS_Subset, FS_CardinalityType
<1>4. crashes \in Nat /\ crashes' \in Nat /\ torn \in BOOLEAN /\ torn' \in BOOLEAN
  BY DEF KillInv, JournalTypeOK
<1>5. KillsPayForLosses'
  <2>1. CASE torn' /\ ~torn
    BY <1>1, <1>3, <1>4, <2>1 DEF KillInv, KillsPayForLosses
  <2>2. CASE ~torn' \/ torn
    BY <1>1, <1>3, <1>4, <2>2 DEF KillInv, KillsPayForLosses
  <2>. QED  BY <2>1, <2>2
<1>. QED  BY <1>5 DEF KillInv

\* An entry that is written whole is firm, or was spent on the torn line.
LEMMA AppendLosesAtMostOne ==
  ASSUME KillInv, JournalTypeOK', NothingWrittenYet', NEW p \in Replays, NEW d \in Digests,
         Write(Entry(p, d)), Written' \subseteq Written \union {p}, crashes' = crashes
  PROVE  KillInv'
<1>0. JournalTypeOK /\ Entry(p, d) \in Line
  BY RecordsAreLines DEF KillInv
<1>1. FirmNames \subseteq FirmNames'
  BY <1>0, WriteExtends, FirmNamesStay
<1>2. torn' = FALSE
  BY DEF Write
<1>3. IsFiniteSet(Written \ FirmNames) /\ Cardinality(Written \ FirmNames) \in Nat
  BY LossesAreFinite DEF KillInv
<1>4. crashes \in Nat
  BY <1>0 DEF JournalTypeOK
<1>5. CASE torn
  <2>1. Written' \ FirmNames' \subseteq (Written \ FirmNames) \union {p}
    BY <1>1
  <2>2. /\ IsFiniteSet(Written' \ FirmNames')
        /\ Cardinality(Written' \ FirmNames') <= Cardinality(Written \ FirmNames) + 1
    BY <1>3, <2>1, AtMostOneMore
  <2>3. Cardinality(Written' \ FirmNames') \in Nat
    BY <2>2, FS_CardinalityType
  <2>4. Cardinality(Written \ FirmNames) + 1 <= crashes
    BY <1>5 DEF KillInv, KillsPayForLosses
  <2>5. Cardinality(Written' \ FirmNames') <= crashes'
    BY <1>3, <1>4, <2>2, <2>3, <2>4
  <2>. QED  BY <1>2, <2>3, <2>5 DEF KillInv, KillsPayForLosses
<1>6. CASE ~torn
  <2>1. lines' = Append(lines, Entry(p, d)) /\ lines \in Seq(Line)
    BY <1>0, <1>6 DEF Write, JournalTypeOK
  <2>2. Len(lines) + 1 \in DOMAIN lines' /\ lines'[Len(lines) + 1] = Entry(p, d)
    BY <1>0, <2>1
  <2>3. p \in FirmNames'
    BY <1>2, <2>2 DEF FirmNames, Entry
  <2>4. Written' \ FirmNames' \subseteq Written \ FirmNames
    BY <1>1, <2>3
  <2>5. /\ Cardinality(Written' \ FirmNames') <= Cardinality(Written \ FirmNames)
        /\ Cardinality(Written' \ FirmNames') \in Nat
    BY <1>3, <2>4, FS_Subset, FS_CardinalityType
  <2>6. Cardinality(Written \ FirmNames) <= crashes
    BY <1>3, <1>6 DEF KillInv, KillsPayForLosses
  <2>7. Cardinality(Written' \ FirmNames') <= crashes'
    BY <1>3, <1>4, <2>5, <2>6
  <2>. QED  BY <1>2, <2>5, <2>7 DEF KillInv, KillsPayForLosses
<1>. QED  BY <1>0, <1>5, <1>6 DEF JournalTypeOK

LEMMA InitKill == JournalInit => KillInv
<1>. SUFFICES ASSUME JournalInit PROVE KillInv
  OBVIOUS
<1>1. JournalTypeOK
  BY InitTypes
<1>2. /\ \A c \in Collectors : pc[c] = "idle"
      /\ reported = {} /\ torn = FALSE /\ crashes = 0
  BY DEF JournalInit
<1>3. NothingWrittenYet
  BY <1>2 DEF NothingWrittenYet
<1>4. Written = {}
  BY <1>2, WhoWrote
<1>5. Cardinality(Written \ FirmNames) = 0
  BY <1>4, FS_EmptySet
<1>. QED  BY <1>1, <1>2, <1>3, <1>5 DEF KillInv, KillsPayForLosses

\* A run that stays as it was has written what it had; a run that is not
\* appending, or has all it added still to do, has written nothing.
LEMMA NothingNewIsWritten ==
  ASSUME NothingWrittenYet, reported' = reported,
         \A o \in Collectors :
           \/ /\ pc'[o] = pc[o] \/ pc'[o] \notin {"snapshots", "record", "append"}
              /\ added'[o] = added[o] /\ todo'[o] = todo[o]
           \/ todo'[o] = added'[o]
  PROVE  NothingWrittenYet' /\ Written' \subseteq Written
<1>1. NothingWrittenYet'
  BY DEF NothingWrittenYet
<1>2. ASSUME NEW p \in Written' PROVE p \in Written
  <2>1. CASE p \in reported'
    BY <2>1, WhoWrote
  <2>2. ASSUME NEW o \in Collectors, pc'[o] = "append", p \in added'[o], p \notin todo'[o]
        PROVE  p \in Written
    <3>1. pc[o] = "append" /\ p \in added[o] /\ p \notin todo[o]
      BY <2>2
    <3>. QED  BY <3>1, WhoWrote
  <2>. QED  BY <1>2, <2>1, <2>2 DEF Written
<1>. QED  BY <1>1, <1>2

LEMMA StepKill == KillInv /\ [JournalNext]_journalVars => KillInv'
<1>. SUFFICES ASSUME KillInv, [JournalNext]_journalVars PROVE KillInv'
  OBVIOUS
<1>0. JournalTypeOK /\ NothingWrittenYet /\ JournalTypeOK'
  BY StepTypes DEF KillInv
<1>. DEFINE SameFile == lines' = lines /\ torn' = torn
<1>a. ASSUME SameFile, crashes' >= crashes, NothingWrittenYet', Written' \subseteq Written
      PROVE  KillInv'
  <2>1. FirmNames' = FirmNames
    BY <1>a DEF FirmNames
  <2>. QED  BY <1>a, <1>0, <2>1, NoLoss
<1>b. crashes >= crashes /\ crashes + 1 >= crashes
  BY <1>0 DEF JournalTypeOK
<1>1. ASSUME NEW c \in Collectors,
             \/ Start(c) \/ ReadFails(c) \/ ReadEntries(c) \/ ListFolder(c)
             \/ ReadSnapshots(c) \/ Crash(c)
      PROVE  KillInv'
  <2>1. /\ SameFile /\ reported' = reported /\ crashes' \in {crashes, crashes + 1}
        /\ \A o \in Collectors \ {c} : /\ pc'[o] = pc[o] /\ added'[o] = added[o]
                                       /\ todo'[o] = todo[o]
    BY <1>0, <1>1 DEF JournalTypeOK, Start, ReadFails, ReadEntries, ListFolder, ReadSnapshots,
                      Crash, Killed
  <2>2. \/ /\ pc'[c] \notin {"snapshots", "record", "append"}
           /\ added'[c] = added[c] /\ todo'[c] = todo[c]
        \/ todo'[c] = added'[c]
    <3>1. CASE Start(c) \/ ReadFails(c) \/ ReadEntries(c) \/ Crash(c)
      BY <1>0, <3>1 DEF JournalTypeOK, Start, ReadFails, ReadEntries, Crash, Killed
    <3>2. CASE ListFolder(c)
      BY <1>0, <3>2 DEF JournalTypeOK, ListFolder
    <3>3. CASE ReadSnapshots(c)
      BY <1>0, <3>3 DEF JournalTypeOK, NothingWrittenYet, ReadSnapshots
    <3>. QED  BY <1>1, <3>1, <3>2, <3>3
  <2>3. NothingWrittenYet' /\ Written' \subseteq Written
    BY <1>0, <2>1, <2>2, NothingNewIsWritten
  <2>. QED  BY <1>a, <1>b, <2>1, <2>3
<1>2. ASSUME NEW c \in Collectors, RecordEpoch(c) PROVE KillInv'
  <2>1. /\ Write(Snapshot(epoch[c])) /\ reported' = reported /\ crashes' = crashes
        /\ pc[c] = "record" /\ added' = added /\ todo' = todo
        /\ \A o \in Collectors \ {c} : pc'[o] = pc[o]
    BY <1>0, <1>2 DEF RecordEpoch, JournalTypeOK
  <2>2. todo'[c] = added'[c]
    BY <1>0, <2>1 DEF NothingWrittenYet
  <2>3. NothingWrittenYet' /\ Written' \subseteq Written
    BY <1>0, <2>1, <2>2, NothingNewIsWritten
  <2>4. Snapshot(epoch[c]) \in Line
    BY <1>0, RecordsAreLines DEF JournalTypeOK
  <2>5. FirmNames \subseteq FirmNames'
    BY <1>0, <2>1, <2>4, WriteExtends, FirmNamesStay
  <2>6. ~torn'
    BY <2>1 DEF Write
  <2>. QED  BY <1>0, <1>b, <2>1, <2>3, <2>5, <2>6, NoLoss
<1>3. ASSUME NEW c \in Collectors, AppendEntry(c) PROVE KillInv'
  <2>1. PICK p \in todo[c] : Write(Entry(p, epoch[c])) /\ todo' = [todo EXCEPT ![c] = @ \ {p}]
    BY <1>3 DEF AppendEntry
  <2>2. /\ pc[c] = "append" /\ added' = added /\ crashes' = crashes
        /\ todo'[c] = todo[c] \ {p}
        /\ \A o \in Collectors \ {c} : pc'[o] = pc[o] /\ todo'[o] = todo[o]
        /\ \/ pc'[c] = "append" /\ reported' = reported
           \/ pc'[c] = "idle" /\ reported' = reported \union added[c] /\ todo'[c] = {}
    BY <1>0, <1>3, <2>1 DEF AppendEntry, JournalTypeOK
  <2>3. NothingWrittenYet'
    BY <1>0, <2>2 DEF NothingWrittenYet
  <2>4. ASSUME NEW q \in Written', q # p PROVE q \in Written
    <3>1. CASE q \in reported
      BY <3>1, WhoWrote
    <3>2. CASE q \in added[c] /\ q \notin todo[c]
      BY <2>2, <3>2, WhoWrote
    <3>3. ASSUME NEW o \in Collectors \ {c}, pc'[o] = "append", q \in added'[o], q \notin todo'[o]
          PROVE  q \in Written
      <4>1. pc[o] = "append" /\ q \in added[o] /\ q \notin todo[o]
        BY <2>2, <3>3
      <4>. QED  BY <4>1, WhoWrote
    <3>4. \/ q \in reported'
          \/ \E o \in Collectors : pc'[o] = "append" /\ q \in added'[o] /\ q \notin todo'[o]
      BY <2>4 DEF Written
    <3>5. CASE q \in reported'
      BY <2>2, <2>4, <3>1, <3>2, <3>5
    <3>6. ASSUME pc'[c] = "append", q \in added'[c], q \notin todo'[c]
          PROVE  q \in Written
      BY <2>2, <2>4, <3>2, <3>6
    <3>. QED  BY <3>3, <3>4, <3>5, <3>6
  <2>5. p \in Replays /\ epoch[c] \in Digests
    BY <1>0 DEF JournalTypeOK
  <2>. QED  BY <1>0, <2>1, <2>2, <2>3, <2>4, <2>5, AppendLosesAtMostOne
<1>4. ASSUME NEW c \in Collectors, CrashWriting(c) PROVE KillInv'
  <2>1. /\ reported' = reported /\ added' = added /\ todo' = todo /\ crashes' = crashes + 1
        /\ pc'[c] = "idle"
        /\ \A o \in Collectors \ {c} : pc'[o] = pc[o]
    BY <1>0, <1>4 DEF CrashWriting, Killed, JournalTypeOK
  <2>2. NothingWrittenYet' /\ Written' \subseteq Written
    BY <1>0, <2>1, NothingNewIsWritten
  <2>3. PICK r \in Line : TornWrite(r)
    BY <1>0, <1>4, RecordsAreLines DEF CrashWriting, JournalTypeOK
  <2>4. FirmNames \subseteq FirmNames'
    BY <1>0, <2>3, TornWriteExtends, FirmNamesStay
  <2>. QED  BY <1>0, <1>b, <2>1, <2>2, <2>4, NoLoss
<1>5. CASE Player \/ UNCHANGED journalVars
  <2>1. /\ SameFile /\ crashes' = crashes /\ reported' = reported
        /\ pc' = pc /\ added' = added /\ todo' = todo
    BY <1>5 DEF Player, journalVars
  <2>2. NothingWrittenYet' /\ Written' \subseteq Written
    BY <1>0, <2>1, NothingNewIsWritten
  <2>. QED  BY <1>a, <1>b, <2>1, <2>2
<1>. QED  BY <1>1, <1>2, <1>3, <1>4, <1>5 DEF JournalNext, Collect

\* _records, for a file that can be decoded: whatever runs overlap and wherever
\* they are killed, the replays that were reported as added and cannot be read
\* back are no more than the kills.
THEOREM EveryLossIsAKill == JournalSpec => []ADamagedLineCostsOneReplay
<1>1. KillInv => ADamagedLineCostsOneReplay
  <2>. SUFFICES ASSUME KillInv, Decodes PROVE Cardinality(reported \ ReadBack) <= crashes
    BY DEF ADamagedLineCostsOneReplay
  <2>0. ReadBack = Names(lines)
    BY DEF ReadBack
  <2>1. JournalTypeOK /\ crashes \in Nat
    BY DEF KillInv, JournalTypeOK
  <2>2. FirmNames \subseteq Names(lines)
    BY DEF FirmNames, Names
  <2>3. reported \ Names(lines) \subseteq Written \ FirmNames
    BY <2>2, WhoWrote
  <2>4. IsFiniteSet(Written \ FirmNames) /\ Cardinality(Written \ FirmNames) \in Nat
    BY <2>1, LossesAreFinite
  <2>5. /\ IsFiniteSet(reported \ Names(lines))
        /\ Cardinality(reported \ Names(lines)) <= Cardinality(Written \ FirmNames)
    BY <2>3, <2>4, FS_Subset
  <2>6. Cardinality(reported \ Names(lines)) \in Nat
    BY <2>5, FS_CardinalityType
  <2>7. Cardinality(Written \ FirmNames) <= crashes
    BY <2>1, <2>4 DEF KillInv, KillsPayForLosses
  <2>. QED  BY <2>0, <2>1, <2>4, <2>5, <2>6, <2>7
<1>. QED  BY <1>1, InitKill, StepKill, PTL DEF JournalSpec
=============================================================================
