------------------------------- MODULE Profile -------------------------------
(* forge profile: the store its answers are kept in, the migration that opens  *)
(* it, the profile.json of older builds that is brought across, and the two    *)
(* commits a profile is saved in. A command may be killed between any two of   *)
(* its statements; commands run one after the other.                           *)
EXTENDS Naturals

CONSTANTS
  Dpis,          \* what a player may type for --dpi
  PlausibleDpis, \* those between _MIN_DPI and _MAX_DPI
  Heights,       \* what a player may type for --lift-off-mm and --landing-mm, all plausible
  Labels,        \* what a player may type for --cutoff-label
  Presets,       \* what a player may type for --asymmetric-cutoff
  Distances,     \* preset -> landing and lift-off (ASYMMETRIC_CUTOFF_PRESETS)
  Makers,        \* what a player may type for --vendor, with "" for nothing
  MaxCommands,   \* bound on the commands
  None

ASSUME PlausibleIsTyped == PlausibleDpis \subseteq Dpis
ASSUME NoneIsNotTyped == None \notin Dpis \cup Heights \cup Labels \cup Presets
ASSUME PresetsAreDistances == Distances \in [Presets -> Heights \X Heights]
ASSUME ProfileBounds == MaxCommands \in Nat

VARIABLES
  db,       \* the store on disk
  legacy,   \* profile.json, which only older builds wrote
  command,  \* the forge profile that runs
  typed,    \* what the player was told is saved, last
  commands  \* how many ran

profileVars == <<db, legacy, command, typed, commands>>

SchemaVersion == 1

Mouse(dpi, maker) == [kind |-> "mouse", dpi |-> dpi, maker |-> maker]
NoPointer == [kind |-> "none", dpi |-> None, maker |-> ""]
Tablet == [kind |-> "tablet", dpi |-> None, maker |-> ""]

\* The sensor's cut-off. It is written as a whole: what is not given is None,
\* which for a label is the empty one.
Tracking(landing, liftOff, label) == [landing |-> landing, liftOff |-> liftOff, label |-> label]
Asymmetric(preset) == Tracking(Distances[preset][1], Distances[preset][2], preset)
Trackings == [landing : Heights \cup {None}, liftOff : Heights \cup {None},
              label : Labels \cup Presets \cup {None}]

\* A preset, beside which distances are refused, or what the other flags say.
CutoffFlags ==
  [preset : {None}, landing : Heights \cup {None}, liftOff : Heights \cup {None}, label : Labels \cup {None}]
    \cup [preset : Presets, landing : {None}, liftOff : {None}, label : Labels \cup {None}]
NoFlags == [preset |-> None, landing |-> None, liftOff |-> None, label |-> None]
TrackingOf(flags) ==
  IF flags.preset # None THEN Asymmetric(flags.preset)
  ELSE Tracking(flags.landing, flags.liftOff, flags.label)

NothingAsked == [dpi |-> None, cutoff |-> NoFlags, maker |-> ""]
NothingTyped == [dpi |-> None, maker |-> "", tracking |-> None]
Idle == [pc |-> "idle", asked |-> NothingAsked, dpi |-> None, tracking |-> None, maker |-> ""]

Fresh == [version |-> 0, devices |-> FALSE, settings |-> FALSE, pointer |-> NoPointer, tracking |-> None]
Kept(version, pointer) ==
  [version |-> version, devices |-> TRUE, settings |-> TRUE, pointer |-> pointer, tracking |-> None]

NoFile == [state |-> "absent", pointer |-> NoPointer, tracking |-> None]
File(pointer, tracking) == [state |-> "readable", pointer |-> pointer, tracking |-> tracking]

Pointers == {NoPointer, Tablet} \cup {Mouse(d, "") : d \in Dpis}

\* A store of this build or of a later one, edited by hand or not, or none yet.
ProfileInit ==
  /\ db \in {Fresh, Kept(SchemaVersion + 1, NoPointer)} \cup {Kept(SchemaVersion, p) : p \in Pointers}
  /\ legacy \in {NoFile, [NoFile EXCEPT !.state = "broken"]}
       \cup {File(p, t) : p \in Pointers, t \in {Asymmetric(preset) : preset \in Presets} \cup {None}}
  /\ command = Idle
  /\ typed = NothingTyped
  /\ commands = 0

Goes(pc) == command' = [command EXCEPT !.pc = pc]
Ends == command' = Idle

Ask(asked) ==
  /\ command = Idle /\ commands < MaxCommands
  /\ commands' = commands + 1
  /\ command' = [Idle EXCEPT !.pc = "open", !.asked = asked]
  /\ UNCHANGED <<db, legacy, typed>>

\* --dpi beside --dpi-x, one axis alone, a preset beside distances.
RefuseArguments ==
  /\ command = Idle /\ commands < MaxCommands
  /\ commands' = commands + 1
  /\ UNCHANGED <<db, legacy, command, typed>>

\* A newer file is refused whole; an older one is migrated.
ReadVersion ==
  /\ command.pc = "open"
  /\ CASE db.version > SchemaVersion -> Ends
       [] db.version = SchemaVersion -> Goes("import")
       [] OTHER -> Goes("devices")
  /\ UNCHANGED <<db, legacy, typed, commands>>

\* CREATE TABLE does not open a transaction of Python's sqlite3, so each one is
\* on disk when it returns, and fails when the table is there.
CreateTable(pc, table, next) ==
  /\ command.pc = pc
  /\ IF db[table]
     THEN Ends /\ UNCHANGED db
     ELSE db' = [db EXCEPT ![table] = TRUE] /\ Goes(next)
  /\ UNCHANGED <<legacy, typed, commands>>

\* The version once went on the file before its tables.
SetVersionFirst ==
  /\ command.pc = "devices" /\ db.version < SchemaVersion
  /\ db' = [db EXCEPT !.version = SchemaVersion]
  /\ UNCHANGED <<legacy, command, typed, commands>>

SetVersion ==
  /\ command.pc = "version"
  /\ db' = [db EXCEPT !.version = SchemaVersion]
  /\ Goes("import")
  /\ UNCHANGED <<legacy, typed, commands>>

Readable(pointer) == pointer = NoPointer \/ (pointer.kind = "mouse" /\ pointer.dpi \in PlausibleDpis)

ToSave(pc, dpi, tracking, maker) ==
  [command EXCEPT !.pc = pc, !.dpi = dpi, !.tracking = tracking, !.maker = maker]

NothingToImport == legacy.state = "absent" \/ (legacy.pointer = NoPointer /\ legacy.tracking = None)

\* What is in the store was once no reason to leave the older file alone.
ImportOverWhatIsThere ==
  /\ command.pc = "import"
  /\ \/ /\ NothingToImport /\ legacy.state # "broken"
        /\ Goes("load")
     \/ /\ legacy.state = "readable" /\ ~NothingToImport /\ Readable(legacy.pointer)
        /\ command' = ToSave("import pointer", legacy.pointer.dpi, legacy.tracking, "")
  /\ UNCHANGED <<db, legacy, typed, commands>>

\* import_legacy_profile: nothing once the store has a pointer, of any kind.
Import ==
  /\ command.pc = "import"
  /\ \/ /\ db.pointer # NoPointer \/ (legacy.state # "broken" /\ NothingToImport)
        /\ Goes("load")
     \/ /\ db.pointer = NoPointer
        /\ legacy.state = "broken" \/ ~Readable(legacy.pointer)
        /\ Ends
     \/ /\ db.pointer = NoPointer
        /\ legacy.state = "readable" /\ ~NothingToImport /\ Readable(legacy.pointer)
        /\ command' = ToSave("import pointer", legacy.pointer.dpi, legacy.tracking, "")
  /\ UNCHANGED <<db, legacy, typed, commands>>

\* save() commits the device, then the setting; the fields it has are written.
PutDevice(pc, next) ==
  /\ command.pc = pc
  /\ db' = IF command.dpi = None THEN db
           ELSE [db EXCEPT !.pointer = Mouse(command.dpi, command.maker)]
  /\ Goes(next)

PutTracking(pc) ==
  /\ command.pc = pc
  /\ db' = IF command.tracking = None THEN db ELSE [db EXCEPT !.tracking = command.tracking]

ImportPointer ==
  /\ PutDevice("import pointer", "import tracking")
  /\ UNCHANGED <<legacy, typed, commands>>

ImportTracking ==
  /\ PutTracking("import tracking")
  /\ Goes("load")
  /\ UNCHANGED <<legacy, typed, commands>>

Or(asked, current) == IF asked # None THEN asked ELSE current

\* load() validates what it reads, Mouse what was typed. The half that is not
\* asked about is written again as it was read, but the maker is read from this
\* command line only, and a cut-off that is asked about is built anew.
Load ==
  LET asked == command.asked
      asksNothing == asked.dpi = None /\ asked.cutoff = NoFlags
      tracking == IF asked.cutoff = NoFlags THEN db.tracking ELSE TrackingOf(asked.cutoff)
  IN /\ command.pc = "load"
     /\ IF ~Readable(db.pointer) \/ asksNothing \/ (asked.dpi # None /\ asked.dpi \notin PlausibleDpis)
        THEN Ends
        ELSE command' = ToSave("save pointer", Or(asked.dpi, db.pointer.dpi), tracking, asked.maker)
     /\ UNCHANGED <<db, legacy, typed, commands>>

SavePointer ==
  /\ PutDevice("save pointer", "save tracking")
  /\ typed' = [typed EXCEPT !.dpi = Or(command.asked.dpi, @),
                            !.maker = IF command.dpi # None THEN command.asked.maker ELSE @]
  /\ UNCHANGED <<legacy, commands>>

SaveTracking ==
  /\ PutTracking("save tracking")
  /\ typed' = IF command.asked.cutoff = NoFlags THEN typed
              ELSE [typed EXCEPT !.tracking = TrackingOf(command.asked.cutoff)]
  /\ Ends
  /\ UNCHANGED <<legacy, commands>>

KillCommand ==
  /\ command # Idle
  /\ Ends
  /\ UNCHANGED <<db, legacy, typed, commands>>

Asked == [dpi : Dpis \cup {None}, cutoff : CutoffFlags, maker : Makers]

ProfileNext ==
  \/ \E asked \in Asked : Ask(asked)
  \/ RefuseArguments \/ KillCommand
  \/ ReadVersion
  \/ CreateTable("devices", "devices", "settings")
  \/ CreateTable("settings", "settings", "version")
  \/ SetVersion
  \/ Import \/ ImportPointer \/ ImportTracking
  \/ Load \/ SavePointer \/ SaveTracking

ProfileSpec == ProfileInit /\ [][ProfileNext]_profileVars

-----------------------------------------------------------------------------
(* Properties *)

\* Wherever a migration was killed, a file that carries this build's version
\* has every table of it, so a command never works on half a schema (_migrate
\* writes the version last).
AnOpenStoreIsWhole ==
  /\ db.version >= SchemaVersion => db.devices /\ db.settings
  /\ command.pc \in {"import", "import pointer", "import tracking", "load", "save pointer", "save tracking"}
       => db.version = SchemaVersion

\* A profile.json that has a cut-off and no mouse is brought across again by
\* every command until a mouse is declared.
ImportedAgain == legacy.pointer = NoPointer /\ legacy.tracking # None

\* The dots per inch that were typed and saved stay until others are typed, and
\* so does a cut-off as a whole, through commands about the other half, imports
\* of the older file and kills (import_legacy_profile, save). Not the maker: a
\* command that saves anything writes the maker of its own command line, and
\* none when it has none. Nor one distance of a cut-off beside the other: what
\* is typed is the whole of it. And not a cut-off that is ImportedAgain over,
\* which import_legacy_profile means to rule out ("re-importing would quietly
\* overwrite a newer value with an older file") and does where there is a mouse.
WhatWasTypedIsKept ==
  /\ typed.dpi # None => db.pointer = Mouse(typed.dpi, typed.maker)
  /\ typed.tracking # None /\ ~ImportedAgain => db.tracking = typed.tracking
=============================================================================
