-------------------------------- MODULE OsuDb --------------------------------
(* osu!.db: the index the game writes of its beatmaps, the reader of a format  *)
(* nobody documented, the check of every entry against the file it names, and  *)
(* the offsets an analysis holds after it, while the game writes the index     *)
(* again and the player changes the maps. A file is a sequence of cells: a     *)
(* number is one cell, or two where its width decides, a string its marker,    *)
(* its length and a cell that names the text.                                  *)
EXTENDS Integers, Sequences, FiniteSets, Functions, SequencesExt

CONSTANTS
  MapCount,         \* the beatmaps, numbered in the order of the index
  Nudges,           \* the offsets a player gives a beatmap, with 0
  FirstOffsets,     \* the offsets of the maps an earlier session may have left
  Layouts,          \* what builds of the game write, and what they write into
                    \* the numbers nobody reads
  MinimumAgreement, \* MINIMUM_AGREEMENT, in percent
  CountLimit,       \* what a count may be
  MaxEvents         \* bound on what player and game do

\* An index without a map is never believed, and one with more maps than a count
\* may be is not read.
ASSUME OsuDbBounds ==
  /\ CountLimit \in Nat /\ MapCount \in 1..CountLimit
  /\ MinimumAgreement \in 0..100
  /\ MaxEvents \in Nat
\* What the game writes, a cell of text apart, is a number.
ASSUME CellsAreNumbers ==
  /\ Nudges \subseteq Int
  /\ FirstOffsets \subseteq [1..MapCount -> Int]
  /\ \A l \in Layouts : l.floats \in BOOLEAN /\ {l.number, l.tag} \subseteq Int

VARIABLES
  layout,  \* what the installed game writes
  index,   \* the index in the memory of the game
  library, \* the contents of each map in Songs
  disk,    \* the cells of osu!.db
  saved,   \* the index the file is or will be of, and whether it is whole
  reader,  \* load(), as far as it got
  events

osuDbVars == <<layout, index, library, disk, saved, reader, events>>

Maps == 1..MapCount

Deleted == -1
StringAbsent == 0
StringPresent == 11
TagSingle == 12
TagDouble == 13
FileOf(m) == 20 + m
FolderOf(m) == 30 + m
HashOf(m, contents) == 40 + 10 * m + contents

-----------------------------------------------------------------------------
(* What the game writes *)

CellsOf(name) == <<StringPresent, 1, name>>

\* The fields in the order they are written; what is like its neighbour and is
\* not looked at is left out. A layout may hold a field more than the reader
\* knows, or two neighbours the other way round.
FieldsOf(m, entry, l) ==
  LET number == <<l.number>>
      pair == number \o number
  IN << <<StringAbsent>>, CellsOf(HashOf(m, entry.hash)), CellsOf(FileOf(m)),
        number,
        IF l.floats THEN pair ELSE number,
        IF l.floats THEN <<1, 8, l.tag>> \o (IF l.tag = TagSingle THEN number ELSE pair) ELSE <<>>,
        <<1, 7>>,
        <<entry.offset>>,
        <<StringAbsent>>, CellsOf(FolderOf(m)),
        IF l.floats THEN number ELSE pair >>

WrittenEntry(m, entry, l) ==
  LET fields == FieldsOf(m, entry, l)
      placed == [k \in DOMAIN fields |-> CASE l.swapped # 0 /\ k = l.swapped -> fields[k + 1]
                                           [] l.swapped # 0 /\ k = l.swapped + 1 -> fields[k - 1]
                                           [] OTHER -> fields[k]]
  IN FlattenSeq([k \in DOMAIN fields |-> IF k = l.extra THEN placed[k] \o <<l.number>> ELSE placed[k]])

Written(i, l) ==
  <<IF l.floats THEN 1 ELSE 0, MapCount>>
    \o FlattenSeq([m \in Maps |-> WrittenEntry(m, i[m], l)])

-----------------------------------------------------------------------------
(* The reader: a position in the file, Lost once anything is unaccountable *)

Lost == 0

Take(data, at, count) ==
  IF at = Lost \/ count < 0 \/ at + count > Len(data) + 1 THEN Lost ELSE at + count

AfterString(data, at) ==
  CASE Take(data, at, 1) = Lost -> Lost
    [] Take(data, at, 1) # Lost /\ data[at] = StringAbsent -> at + 1
    [] Take(data, at, 2) # Lost /\ data[at] = StringPresent -> Take(data, at + 2, data[at + 1])
    [] OTHER -> Lost

TextAt(data, at) ==
  IF data[at] = StringAbsent THEN <<>> ELSE SubSeq(data, at + 2, at + 1 + data[at + 1])

HasCount(data, at) == Take(data, at, 1) # Lost /\ data[at] \in 0..CountLimit

\* Every description of the format has it that each rating is a Double.
RatingAsDouble(data, at) == Take(data, at, 4)

AfterRating(data, at) ==
  IF Take(data, at, 2) = Lost THEN Lost
  ELSE CASE data[at + 1] = TagSingle -> Take(data, at, 3)
         [] data[at + 1] = TagDouble -> Take(data, at, 4)
         [] OTHER -> Lost

AfterRatings(data, at) ==
  LET after[k \in 0..data[at]] == IF k = 0 THEN at + 1 ELSE AfterRating(data, after[k - 1])
  IN IF HasCount(data, at) THEN after[data[at]] ELSE Lost

AfterPoints(data, at) == IF HasCount(data, at) THEN Take(data, at + 1, data[at]) ELSE Lost

\* _read_entry: where a field ends that begins at a position.
AfterField(data, k, at) ==
  LET floats == data[1] = 1
  IN CASE k \in {1, 2, 3, 9, 10} -> AfterString(data, at)
       [] k \in {4, 8} -> Take(data, at, 1)
       [] k = 5 -> Take(data, at, IF floats THEN 2 ELSE 1)
       [] k = 6 -> IF floats THEN AfterRatings(data, at) ELSE at
       [] k = 7 -> AfterPoints(data, at)
       [] k = 11 -> Take(data, at, IF floats THEN 1 ELSE 2)

FieldEnds(data, at) ==
  LET ends[k \in 0..11] == IF k = 0 THEN at ELSE AfterField(data, k, ends[k - 1])
  IN ends

EntryAt(data, at) ==
  LET ends == FieldEnds(data, at)
  IN [hash |-> TextAt(data, ends[1]), file |-> TextAt(data, ends[2]),
      offset |-> data[ends[7]], folder |-> TextAt(data, ends[9])]

Unreadable == [ok |-> FALSE, entries |-> <<>>]

StartsOf(data) ==
  LET start[n \in 0..data[2]] ==
        IF n = 0 THEN 3 ELSE IF start[n - 1] = Lost THEN Lost ELSE FieldEnds(data, start[n - 1])[11]
  IN start

ParseIndex(data) ==
  LET starts == StartsOf(data)
  IN IF ~HasCount(data, 2) \/ starts[data[2]] = Lost THEN Unreadable
     ELSE [ok |-> TRUE, entries |-> [n \in 1..data[2] |-> EntryAt(data, starts[n - 1])]]

-----------------------------------------------------------------------------
(* load(), verify() and what the analysis holds *)

NothingHeld(finding) == [finding |-> finding, offsets |-> {}]
IsBelieved == reader.held.finding \in {"verified", "local_offset"}

Start == [pc |-> "read", entries |-> <<>>, checked |-> 0, matched |-> 0, held |-> NothingHeld("none yet"),
          source |-> <<>>]

OsuDbInit ==
  /\ layout \in Layouts
  /\ index \in {[m \in Maps |-> [hash |-> 0, offset |-> offsets[m]]] : offsets \in FirstOffsets}
  /\ library = [m \in Maps |-> 0]
  /\ disk = Written(index, layout)
  /\ saved = [of |-> index, whole |-> TRUE]
  /\ reader = Start
  /\ events = 0

\* A read while the game writes gets what there is.
ReadFile ==
  LET parsed == ParseIndex(disk)
  IN /\ reader.pc = "read"
     /\ reader' = [reader EXCEPT !.pc = IF parsed.ok THEN "verify" ELSE "done",
                                 !.entries = parsed.entries, !.source = saved,
                                 !.held = IF parsed.ok THEN @ ELSE NothingHeld("unreadable")]
     /\ UNCHANGED <<layout, index, library, disk, saved, events>>

Names(entry, m) == entry.folder = <<FolderOf(m)>> /\ entry.file = <<FileOf(m)>>

Matches(entry) ==
  \E m \in Maps : Names(entry, m) /\ library[m] # Deleted /\ entry.hash = <<HashOf(m, library[m])>>

VerifyEntry ==
  /\ reader.pc = "verify" /\ reader.checked < Len(reader.entries)
  /\ reader' = [reader EXCEPT !.checked = @ + 1,
                              !.matched = IF Matches(reader.entries[reader.checked + 1]) THEN @ + 1 ELSE @]
  /\ UNCHANGED <<layout, index, library, disk, saved, events>>

\* A file that can be read to its end was once believed.
TrustworthyOnceRead == reader.checked > 0

Trustworthy ==
  reader.checked > 0 /\ reader.matched * 100 >= MinimumAgreement * reader.checked

Offsets == {<<e.hash, e.offset>> : e \in {e \in Range(reader.entries) : e.offset # 0}}

\* A file that does not agree with Songs is dropped whole, and every offset
\* taken for zero.
Settle ==
  /\ reader.pc = "verify" /\ reader.checked = Len(reader.entries)
  /\ reader' = [reader EXCEPT !.pc = "done",
                              !.held = CASE ~Trustworthy -> NothingHeld("unverified")
                                         [] Trustworthy /\ Offsets = {} -> NothingHeld("verified")
                                         [] OTHER -> [finding |-> "local_offset", offsets |-> Offsets]]
  /\ UNCHANGED <<layout, index, library, disk, saved, events>>

\* The next command, or the next run of forge serve.
Again ==
  /\ reader.pc = "done"
  /\ reader' = Start
  /\ UNCHANGED <<layout, index, library, disk, saved, events>>

LoadIndex == ReadFile \/ VerifyEntry \/ Settle \/ Again

-----------------------------------------------------------------------------
(* The game and the player *)

Event == events < MaxEvents /\ events' = events + 1

Nudge(m, offset) ==
  /\ Event
  /\ index[m].offset # offset
  /\ index' = [index EXCEPT ![m].offset = offset]
  /\ UNCHANGED <<layout, library, disk, saved, reader>>

\* A map is updated in Songs, or deleted.
Change(m, contents) ==
  /\ Event
  /\ library[m] = 0
  /\ library' = [library EXCEPT ![m] = contents]
  /\ UNCHANGED <<layout, index, disk, saved, reader>>

Rescan(m) ==
  /\ Event
  /\ library[m] \notin {Deleted, index[m].hash}
  /\ index' = [index EXCEPT ![m].hash = library[m]]
  /\ UNCHANGED <<layout, library, disk, saved, reader>>

BeginSave ==
  /\ Event
  /\ saved.whole
  /\ LET written == Written(index, layout)
     IN \E cells \in 0..(Len(written) - 1) : disk' = SubSeq(written, 1, cells)
  /\ saved' = [of |-> index, whole |-> FALSE]
  /\ UNCHANGED <<layout, index, library, reader>>

EndSave ==
  /\ ~saved.whole
  /\ disk' = Written(saved.of, layout)
  /\ saved' = [saved EXCEPT !.whole = TRUE]
  /\ UNCHANGED <<layout, index, library, reader, events>>

Game ==
  \/ \E m \in Maps, offset \in Nudges : Nudge(m, offset)
  \/ \E m \in Maps, contents \in {Deleted, 1} : Change(m, contents)
  \/ \E m \in Maps : Rescan(m)
  \/ BeginSave
  \/ EndSave

OsuDbNext == LoadIndex \/ Game

OsuDbSpec == OsuDbInit /\ [][OsuDbNext]_osuDbVars

-----------------------------------------------------------------------------
(* Properties *)

\* Whatever the layout holds that the reader does not know, and whenever the
\* game rewrites the file: offsets that are used, or said to be zero, are those
\* of one index the game wrote, all of them (read, verify, load).
OffsetsAreThoseTheGameWrote ==
  IsBelieved =>
    reader.held.offsets =
      {<<<<HashOf(m, reader.source.of[m].hash)>>, reader.source.of[m].offset>> :
         m \in {m \in Maps : reader.source.of[m].offset # 0}}

\* The other way round, the offsets of a layout the reader knows are used when
\* the file was whole and Songs is what it describes (_Reader, verify).
AFaithfulIndexIsBelieved ==
  (/\ reader.pc = "done" /\ reader.source.whole
   /\ layout.extra = 0 /\ layout.swapped = 0 /\ layout.tag \in {TagSingle, TagDouble}
   /\ \A m \in Maps : library[m] = reader.source.of[m].hash)
  => IsBelieved
=============================================================================
