---------------------------- MODULE ProfileProofs ----------------------------
(* Proofs about the store behind forge profile: a command that goes on has the *)
(* whole schema under it, and what was typed stays, for any dots per inch,     *)
(* distances and makers and any number of commands and kills.                  *)
EXTENDS Profile, TLAPS

DpiOrNone == Dpis \cup {None}
MakerOrNothing == Makers \cup {""}
TrackingOrNone == Trackings \cup {None}
AskedType == [dpi : DpiOrNone, cutoff : CutoffFlags, maker : MakerOrNothing]
PointerType == [kind : {"none", "mouse", "tablet"}, dpi : DpiOrNone, maker : MakerOrNothing]
Steps ==
  {"idle", "open", "devices", "settings", "version", "import", "import pointer", "import tracking",
   "load", "save pointer", "save tracking"}
Saving == {"import", "import pointer", "import tracking", "load", "save pointer", "save tracking"}

CommandType ==
  [pc : Steps, asked : AskedType, dpi : DpiOrNone, tracking : TrackingOrNone, maker : MakerOrNothing]

ProfileTypeOK ==
  /\ db \in [version : Nat, devices : BOOLEAN, settings : BOOLEAN,
             pointer : PointerType, tracking : TrackingOrNone]
  /\ legacy \in [state : {"absent", "broken", "readable"}, pointer : PointerType, tracking : TrackingOrNone]
  /\ command \in CommandType
  /\ typed \in [dpi : DpiOrNone, maker : MakerOrNothing, tracking : TrackingOrNone]
  /\ commands \in Nat

\* The older file has been brought across, has nothing to bring, or is the one
\* that is brought across again.
Settled == db.pointer # NoPointer \/ legacy.tracking = None \/ legacy.pointer = NoPointer

\* Only a file that can be read declares something.
FileContents == legacy.state # "readable" => legacy.pointer = NoPointer /\ legacy.tracking = None

\* What a command has done before it is at its next statement.
SchemaAtStep ==
  /\ db.version >= SchemaVersion => db.devices /\ db.settings
  /\ command.pc \in {"settings", "version"} => db.devices
  /\ command.pc = "version" => db.settings
  /\ command.pc \in Saving => db.version = SchemaVersion

ImportAtStep ==
  /\ command.pc = "import pointer" =>
       /\ db.pointer = NoPointer
       /\ command.dpi = legacy.pointer.dpi /\ command.tracking = legacy.tracking
       /\ legacy.pointer # NoPointer => command.dpi # None
  /\ command.pc = "import tracking" => Settled /\ command.tracking = legacy.tracking
  /\ command.pc \in {"import pointer", "import tracking"} =>
       typed.tracking = None \/ legacy.tracking = None \/ legacy.pointer = NoPointer

\* The cut-off that is typed, or the one there is.
Wanted(asked, tracking) == IF asked.cutoff = NoFlags THEN tracking ELSE TrackingOf(asked.cutoff)

SaveAtStep ==
  /\ command.pc \in {"load", "save pointer", "save tracking"} => Settled
  /\ command.pc = "save pointer" =>
       /\ command.dpi = Or(command.asked.dpi, db.pointer.dpi)
       /\ command.maker = command.asked.maker
  /\ command.pc \in {"save pointer", "save tracking"} =>
       command.tracking = Wanted(command.asked, db.tracking)

\* Nothing is typed into a store before its older file is settled.
TypedAfterImport == typed.tracking # None => Settled

ProfileInv ==
  /\ ProfileTypeOK
  /\ FileContents
  /\ SchemaAtStep
  /\ ImportAtStep
  /\ SaveAtStep
  /\ TypedAfterImport
  /\ WhatWasTypedIsKept

-----------------------------------------------------------------------------
(* Pointers. *)

LEMMA NothingIsTyped ==
  /\ NothingAsked \in AskedType /\ NoFlags \in CutoffFlags
  /\ None \in DpiOrNone /\ None \in TrackingOrNone /\ "" \in MakerOrNothing
  BY DEF NothingAsked, AskedType, NoFlags, CutoffFlags, DpiOrNone, TrackingOrNone, MakerOrNothing

LEMMA PresetsAreTyped == \A preset \in Presets : Asymmetric(preset) \in Trackings
  <1>1. \A preset \in Presets : Distances[preset] \in Heights \X Heights
    BY PresetsAreDistances
  <1>2. QED
    BY <1>1 DEF Asymmetric, Tracking, Trackings

LEMMA WhatIsTypedIsTyped ==
  ASSUME NEW flags \in CutoffFlags
  PROVE  TrackingOf(flags) \in Trackings
  <1>1. CASE flags.preset # None
    BY <1>1, PresetsAreTyped DEF CutoffFlags, TrackingOf
  <1>2. CASE flags.preset = None
    <2>1. /\ flags.landing \in Heights \cup {None} /\ flags.liftOff \in Heights \cup {None}
          /\ flags.label \in Labels \cup {None}
      BY DEF CutoffFlags
    <2>2. QED
      BY <1>2, <2>1 DEF TrackingOf, Tracking, Trackings
  <1>3. QED
    BY <1>1, <1>2

LEMMA WhatIsWantedIsTyped ==
  ASSUME NEW asked \in AskedType, NEW tracking \in TrackingOrNone
  PROVE  Wanted(asked, tracking) \in TrackingOrNone
  BY WhatIsTypedIsTyped DEF Wanted, AskedType, TrackingOrNone

LEMMA PointersAreTyped == Pointers \subseteq PointerType
  <1>1. NoPointer \in PointerType /\ Tablet \in PointerType
    BY DEF NoPointer, Tablet, PointerType, DpiOrNone, MakerOrNothing
  <1>2. \A d \in Dpis : Mouse(d, "") \in PointerType
    BY DEF Mouse, PointerType, DpiOrNone, MakerOrNothing
  <1>3. QED
    BY <1>1, <1>2 DEF Pointers

LEMMA ReadablePointers ==
  ASSUME NEW p \in PointerType, Readable(p), p # NoPointer
  PROVE  p.dpi \in Dpis /\ p.dpi # None
  BY PlausibleIsTyped, NoneIsNotTyped DEF Readable

LEMMA MicePointAtSomething ==
  ASSUME NEW d \in Dpis, NEW m \in MakerOrNothing
  PROVE  Mouse(d, m) \in PointerType /\ Mouse(d, m) # NoPointer /\ Mouse(d, m).dpi = d
  BY DEF Mouse, NoPointer, PointerType, DpiOrNone

-----------------------------------------------------------------------------
(* The invariant. *)

LEMMA InitialStores ==
  ASSUME \/ db \in {Fresh, Kept(SchemaVersion + 1, NoPointer)}
         \/ \E p \in Pointers : db = Kept(SchemaVersion, p)
  PROVE  /\ db \in [version : Nat, devices : BOOLEAN, settings : BOOLEAN,
                     pointer : PointerType, tracking : TrackingOrNone]
         /\ db.version >= SchemaVersion => db.devices /\ db.settings
  <1>1. NoPointer \in PointerType
    BY PointersAreTyped DEF Pointers
  <1>2. CASE db = Fresh
    BY <1>1, <1>2 DEF Fresh, TrackingOrNone, SchemaVersion
  <1>3. ASSUME NEW v \in Nat, NEW p \in PointerType, db = Kept(v, p)
        PROVE  /\ db \in [version : Nat, devices : BOOLEAN, settings : BOOLEAN,
                           pointer : PointerType, tracking : TrackingOrNone]
               /\ db.devices /\ db.settings
    BY <1>3 DEF Kept, TrackingOrNone
  <1>4. SchemaVersion \in Nat /\ SchemaVersion + 1 \in Nat
    BY DEF SchemaVersion
  <1>5. QED
    BY <1>1, <1>2, <1>3, <1>4, PointersAreTyped

LEMMA InitialFiles ==
  ASSUME \/ legacy \in {NoFile, [NoFile EXCEPT !.state = "broken"]}
         \/ \E p \in Pointers, t \in TrackingOrNone : legacy = File(p, t)
  PROVE  /\ legacy \in [state : {"absent", "broken", "readable"}, pointer : PointerType, tracking : TrackingOrNone]
         /\ FileContents
  <1>1. NoPointer \in PointerType
    BY PointersAreTyped DEF Pointers
  <1>2. NoFile \in [state : {"absent", "broken", "readable"}, pointer : PointerType, tracking : TrackingOrNone]
    BY <1>1 DEF NoFile, TrackingOrNone
  <1>3. ASSUME NEW p \in PointerType, NEW t \in TrackingOrNone
        PROVE  File(p, t) \in [state : {"absent", "broken", "readable"}, pointer : PointerType, tracking : TrackingOrNone]
    BY DEF File
  <1>4. FileContents
    BY DEF FileContents, NoFile, File
  <1>5. QED
    BY <1>2, <1>3, <1>4, PointersAreTyped DEF TrackingOrNone

LEMMA ProfileInitInv == ProfileInit => ProfileInv
  <1>1. SUFFICES ASSUME ProfileInit PROVE ProfileInv
    OBVIOUS
  <1>2. /\ db \in [version : Nat, devices : BOOLEAN, settings : BOOLEAN,
                    pointer : PointerType, tracking : TrackingOrNone]
        /\ db.version >= SchemaVersion => db.devices /\ db.settings
    <2>1. \/ db \in {Fresh, Kept(SchemaVersion + 1, NoPointer)}
          \/ \E p \in Pointers : db = Kept(SchemaVersion, p)
      <3>1. db \in {Fresh, Kept(SchemaVersion + 1, NoPointer)} \cup {Kept(SchemaVersion, p) : p \in Pointers}
        BY <1>1 DEF ProfileInit
      <3>2. QED
        BY <3>1
    <2>2. QED
      BY <2>1, InitialStores
  <1>3. /\ legacy \in [state : {"absent", "broken", "readable"}, pointer : PointerType, tracking : TrackingOrNone]
        /\ FileContents
    <2>1. \/ legacy \in {NoFile, [NoFile EXCEPT !.state = "broken"]}
          \/ \E p \in Pointers, t \in TrackingOrNone : legacy = File(p, t)
      <3>1. legacy \in {NoFile, [NoFile EXCEPT !.state = "broken"]}
              \cup {File(p, t) : p \in Pointers, t \in {Asymmetric(preset) : preset \in Presets} \cup {None}}
        BY <1>1 DEF ProfileInit
      <3>2. {Asymmetric(preset) : preset \in Presets} \cup {None} \subseteq TrackingOrNone
        BY PresetsAreTyped DEF TrackingOrNone
      <3>3. QED
        BY <3>1, <3>2
    <2>2. QED
      BY <2>1, InitialFiles
  <1>4. /\ command = [pc |-> "idle", asked |-> NothingAsked, dpi |-> None, tracking |-> None, maker |-> ""]
        /\ typed = [dpi |-> None, maker |-> "", tracking |-> None]
        /\ commands = 0
    BY <1>1 DEF ProfileInit, Idle, NothingTyped
  <1>5. ProfileTypeOK
    BY <1>2, <1>3, <1>4, NothingIsTyped DEF ProfileTypeOK, CommandType, Steps
  <1>6. SchemaAtStep /\ ImportAtStep /\ SaveAtStep /\ TypedAfterImport /\ WhatWasTypedIsKept
    BY <1>2, <1>4 DEF SchemaAtStep, Saving, ImportAtStep, SaveAtStep, TypedAfterImport, WhatWasTypedIsKept
  <1>7. QED
    BY <1>3, <1>5, <1>6 DEF ProfileInv

-----------------------------------------------------------------------------
(* Steps that leave the store and what was typed. *)

LEMMA OnlyTheCommandMoves ==
  ASSUME ProfileInv, UNCHANGED <<db, legacy, typed>>, commands' \in Nat, command' \in CommandType,
         SchemaAtStep', ImportAtStep', SaveAtStep'
  PROVE  ProfileInv'
  <1>1. ProfileTypeOK'
    BY DEF ProfileInv, ProfileTypeOK
  <1>2. FileContents' /\ TypedAfterImport' /\ WhatWasTypedIsKept'
    BY DEF ProfileInv, FileContents, TypedAfterImport, Settled, WhatWasTypedIsKept, ImportedAgain
  <1>3. QED
    BY <1>1, <1>2 DEF ProfileInv

\* What Goes leaves of a command.
LEMMA GoesOn ==
  ASSUME ProfileTypeOK, NEW pc \in Steps, Goes(pc)
  PROVE  /\ command' \in CommandType
         /\ command'.pc = pc
         /\ command'.asked = command.asked
         /\ command'.dpi = command.dpi
         /\ command'.tracking = command.tracking
         /\ command'.maker = command.maker
  BY DEF ProfileTypeOK, CommandType, Goes

\* What save() is handed.
LEMMA SavesThese ==
  ASSUME ProfileTypeOK, NEW pc \in Steps, NEW dpi \in DpiOrNone, NEW tracking \in TrackingOrNone,
         NEW maker \in MakerOrNothing, command' = ToSave(pc, dpi, tracking, maker)
  PROVE  /\ command' \in CommandType
         /\ command'.pc = pc
         /\ command'.asked = command.asked
         /\ command'.dpi = dpi
         /\ command'.tracking = tracking
         /\ command'.maker = maker
  BY DEF ProfileTypeOK, CommandType, ToSave

\* A command that ends, or is killed.
LEMMA EndKeepsInv ==
  ASSUME ProfileInv, Ends, UNCHANGED <<db, legacy, typed>>, commands' \in Nat
  PROVE  ProfileInv'
  <1>1. command' = [pc |-> "idle", asked |-> NothingAsked, dpi |-> None, tracking |-> None, maker |-> ""]
    BY DEF Ends, Idle
  <1>2. command' \in CommandType
    BY <1>1, NothingIsTyped DEF CommandType, Steps
  <1>3. SchemaAtStep' /\ ImportAtStep' /\ SaveAtStep'
    BY <1>1 DEF ProfileInv, SchemaAtStep, ImportAtStep, SaveAtStep, Saving
  <1>4. QED
    BY <1>2, <1>3, OnlyTheCommandMoves

LEMMA AskKeepsInv ==
  ASSUME ProfileInv, NEW asked \in Asked, Ask(asked)
  PROVE  ProfileInv'
  <1>1. command' = [pc |-> "open", asked |-> asked, dpi |-> None, tracking |-> None, maker |-> ""]
    BY DEF Ask, Idle
  <1>2. UNCHANGED <<db, legacy, typed>> /\ commands' = commands + 1
    BY DEF Ask, Idle
  <1>3. commands' \in Nat
    BY <1>2 DEF ProfileInv, ProfileTypeOK
  <1>4. command' \in CommandType
    BY <1>1, NothingIsTyped DEF CommandType, AskedType, Asked, Steps, DpiOrNone, MakerOrNothing
  <1>5. SchemaAtStep' /\ ImportAtStep' /\ SaveAtStep'
    BY <1>1, <1>2 DEF ProfileInv, SchemaAtStep, ImportAtStep, SaveAtStep, Saving
  <1>6. QED
    BY <1>2, <1>3, <1>4, <1>5, OnlyTheCommandMoves

LEMMA RefusalKeepsInv ==
  ASSUME ProfileInv, RefuseArguments
  PROVE  ProfileInv'
  <1>1. UNCHANGED <<db, legacy, command, typed>> /\ commands' = commands + 1
    BY DEF RefuseArguments
  <1>2. commands' \in Nat /\ command' \in CommandType
    BY <1>1 DEF ProfileInv, ProfileTypeOK
  <1>3. SchemaAtStep' /\ ImportAtStep' /\ SaveAtStep'
    BY <1>1 DEF ProfileInv, SchemaAtStep, ImportAtStep, SaveAtStep, Settled
  <1>4. QED
    BY <1>1, <1>2, <1>3, OnlyTheCommandMoves

LEMMA ReadVersionKeepsInv ==
  ASSUME ProfileInv, ReadVersion
  PROVE  ProfileInv'
  <1>1. UNCHANGED <<db, legacy, typed>> /\ commands' \in Nat
    BY DEF ReadVersion, ProfileInv, ProfileTypeOK
  <1>2. CASE Ends
    BY <1>1, <1>2, EndKeepsInv
  <1>3. CASE db.version = SchemaVersion /\ Goes("import")
    <2>1. command' \in CommandType /\ command'.pc = "import"
      BY <1>3, GoesOn DEF ProfileInv, Steps
    <2>2. SchemaAtStep' /\ ImportAtStep' /\ SaveAtStep'
      BY <1>1, <1>3, <2>1 DEF ProfileInv, SchemaAtStep, ImportAtStep, SaveAtStep, Saving
    <2>3. QED
      BY <1>1, <2>1, <2>2, OnlyTheCommandMoves
  <1>4. CASE Goes("devices")
    <2>1. command' \in CommandType /\ command'.pc = "devices"
      BY <1>4, GoesOn DEF ProfileInv, Steps
    <2>2. SchemaAtStep' /\ ImportAtStep' /\ SaveAtStep'
      BY <1>1, <2>1 DEF ProfileInv, SchemaAtStep, ImportAtStep, SaveAtStep, Saving
    <2>3. QED
      BY <1>1, <2>1, <2>2, OnlyTheCommandMoves
  <1>5. QED
    BY <1>2, <1>3, <1>4 DEF ReadVersion

LEMMA ImportKeepsInv ==
  ASSUME ProfileInv, Import
  PROVE  ProfileInv'
  <1>1. UNCHANGED <<db, legacy, typed>> /\ commands' \in Nat
    BY DEF Import, ProfileInv, ProfileTypeOK
  <1>2. CASE Ends
    BY <1>1, <1>2, EndKeepsInv
  <1>3. CASE (db.pointer # NoPointer \/ NothingToImport) /\ Goes("load")
    <2>1. command' \in CommandType /\ command'.pc = "load"
      BY <1>3, GoesOn DEF ProfileInv, Steps
    <2>2. Settled
      BY <1>3 DEF Settled, NothingToImport, ProfileInv, FileContents
    <2>3. SchemaAtStep' /\ ImportAtStep' /\ SaveAtStep'
      BY <1>1, <2>1, <2>2 DEF Import, ProfileInv, SchemaAtStep, ImportAtStep, SaveAtStep, Settled, Saving
    <2>4. QED
      BY <1>1, <2>1, <2>3, OnlyTheCommandMoves
  <1>4. CASE /\ db.pointer = NoPointer /\ Readable(legacy.pointer)
             /\ command' = ToSave("import pointer", legacy.pointer.dpi, legacy.tracking, "")
    <2>1. /\ command' \in CommandType /\ command'.pc = "import pointer"
          /\ command'.dpi = legacy.pointer.dpi /\ command'.tracking = legacy.tracking
      <3>1. legacy.pointer.dpi \in DpiOrNone /\ legacy.tracking \in TrackingOrNone
        BY DEF ProfileInv, ProfileTypeOK, PointerType
      <3>2. QED
        BY <1>4, <3>1, NothingIsTyped, SavesThese DEF ProfileInv, Steps
    <2>2. legacy.pointer # NoPointer => legacy.pointer.dpi # None
      BY <1>4, ReadablePointers DEF ProfileInv, ProfileTypeOK
    <2>3. typed.tracking = None \/ legacy.tracking = None \/ legacy.pointer = NoPointer
      BY <1>4 DEF ProfileInv, TypedAfterImport, Settled
    <2>4. SchemaAtStep' /\ SaveAtStep'
      BY <1>1, <2>1 DEF Import, ProfileInv, SchemaAtStep, SaveAtStep, Saving
    <2>5. ImportAtStep'
      BY <1>1, <1>4, <2>1, <2>2, <2>3 DEF ImportAtStep
    <2>6. QED
      BY <1>1, <2>1, <2>4, <2>5, OnlyTheCommandMoves
  <1>5. QED
    BY <1>2, <1>3, <1>4 DEF Import

LEMMA LoadKeepsInv ==
  ASSUME ProfileInv, Load
  PROVE  ProfileInv'
  <1>1. UNCHANGED <<db, legacy, typed>> /\ commands' \in Nat
    BY DEF Load, ProfileInv, ProfileTypeOK
  <1>2. CASE Ends
    BY <1>1, <1>2, EndKeepsInv
  <1>3. CASE command' = ToSave("save pointer", Or(command.asked.dpi, db.pointer.dpi),
                               Wanted(command.asked, db.tracking), command.asked.maker)
    <2>1. /\ Or(command.asked.dpi, db.pointer.dpi) \in DpiOrNone
          /\ command.asked \in AskedType /\ db.tracking \in TrackingOrNone
          /\ command.asked.maker \in MakerOrNothing
      BY DEF ProfileInv, ProfileTypeOK, CommandType, AskedType, PointerType, Or
    <2>2. Wanted(command.asked, db.tracking) \in TrackingOrNone
      BY <2>1, WhatIsWantedIsTyped
    <2>3. /\ command' \in CommandType /\ command'.pc = "save pointer"
          /\ command'.asked = command.asked
          /\ command'.dpi = Or(command.asked.dpi, db.pointer.dpi)
          /\ command'.tracking = Wanted(command.asked, db.tracking)
          /\ command'.maker = command.asked.maker
      <3>1. ProfileTypeOK /\ "save pointer" \in Steps
        BY DEF ProfileInv, Steps
      <3>2. QED
        BY <1>3, <2>1, <2>2, <3>1, SavesThese
    <2>4. SchemaAtStep' /\ ImportAtStep'
      BY <1>1, <2>3 DEF Load, ProfileInv, SchemaAtStep, ImportAtStep, Saving
    <2>5. SaveAtStep'
      BY <1>1, <2>3 DEF Load, ProfileInv, SaveAtStep, Settled
    <2>6. QED
      BY <1>1, <2>3, <2>4, <2>5, OnlyTheCommandMoves
  <1>4. QED
    BY <1>2, <1>3 DEF Load, Wanted

-----------------------------------------------------------------------------
(* Steps that write the store. *)

LEMMA CreateTableKeepsInv ==
  ASSUME ProfileInv,
         \/ CreateTable("devices", "devices", "settings")
         \/ CreateTable("settings", "settings", "version")
  PROVE  ProfileInv'
  <1>1. UNCHANGED <<legacy, typed>> /\ commands' \in Nat
    BY DEF CreateTable, ProfileInv, ProfileTypeOK
  <1>2. CASE Ends /\ UNCHANGED db
    BY <1>1, <1>2, EndKeepsInv
  <1>3. CASE \/ /\ command.pc = "devices" /\ Goes("settings")
                /\ db' = [db EXCEPT !.devices = TRUE]
             \/ /\ command.pc = "settings" /\ Goes("version")
                /\ db' = [db EXCEPT !.settings = TRUE]
    <2>1. command' \in CommandType
      BY <1>3, GoesOn DEF ProfileInv, Steps
    <2>2. \/ /\ command.pc = "devices" /\ command'.pc = "settings"
             /\ db'.devices /\ db'.settings = db.settings
          \/ /\ command.pc = "settings" /\ command'.pc = "version"
             /\ db'.settings /\ db'.devices = db.devices
      BY <1>3, GoesOn DEF ProfileInv, ProfileTypeOK, Steps
    <2>3. /\ db'.version = db.version /\ db'.pointer = db.pointer /\ db'.tracking = db.tracking
          /\ db' \in [version : Nat, devices : BOOLEAN, settings : BOOLEAN,
                      pointer : PointerType, tracking : TrackingOrNone]
      BY <1>3 DEF ProfileInv, ProfileTypeOK
    <2>4. ProfileTypeOK'
      BY <1>1, <2>1, <2>3 DEF ProfileInv, ProfileTypeOK
    <2>5. SchemaAtStep'
      BY <2>2, <2>3 DEF ProfileInv, SchemaAtStep, Saving
    <2>6. ImportAtStep' /\ SaveAtStep'
      BY <2>2 DEF ImportAtStep, SaveAtStep
    <2>7. FileContents' /\ TypedAfterImport' /\ WhatWasTypedIsKept'
      BY <1>1, <2>3 DEF ProfileInv, FileContents, TypedAfterImport, Settled, WhatWasTypedIsKept, ImportedAgain
    <2>8. QED
      BY <2>4, <2>5, <2>6, <2>7 DEF ProfileInv
  <1>4. QED
    BY <1>2, <1>3 DEF CreateTable

LEMMA SetVersionKeepsInv ==
  ASSUME ProfileInv, SetVersion
  PROVE  ProfileInv'
  <1>1. /\ UNCHANGED <<legacy, typed, commands>>
        /\ command.pc = "version" /\ Goes("import")
        /\ db' = [db EXCEPT !.version = SchemaVersion]
    BY DEF SetVersion
  <1>2. command' \in CommandType /\ command'.pc = "import"
    BY <1>1, GoesOn DEF ProfileInv, Steps
  <1>3. /\ db'.version = SchemaVersion /\ db'.devices = db.devices /\ db'.settings = db.settings
        /\ db'.pointer = db.pointer /\ db'.tracking = db.tracking
        /\ db' \in [version : Nat, devices : BOOLEAN, settings : BOOLEAN,
                    pointer : PointerType, tracking : TrackingOrNone]
    BY <1>1 DEF ProfileInv, ProfileTypeOK, SchemaVersion
  <1>4. ProfileTypeOK'
    BY <1>1, <1>2, <1>3 DEF ProfileInv, ProfileTypeOK
  <1>5. SchemaAtStep' /\ ImportAtStep' /\ SaveAtStep'
    BY <1>1, <1>2, <1>3 DEF ProfileInv, SchemaAtStep, ImportAtStep, SaveAtStep, Saving
  <1>6. FileContents' /\ TypedAfterImport' /\ WhatWasTypedIsKept'
    BY <1>1, <1>3 DEF ProfileInv, FileContents, TypedAfterImport, Settled, WhatWasTypedIsKept, ImportedAgain
  <1>7. QED
    BY <1>4, <1>5, <1>6 DEF ProfileInv
\* The first commit of save() touches the pointer, the second the cut-off.
LEMMA PutDeviceWritesThePointer ==
  ASSUME ProfileTypeOK, NEW pc, NEW next \in Steps, PutDevice(pc, next)
  PROVE  /\ command.pc = pc /\ Goes(next)
         /\ db'.version = db.version /\ db'.devices = db.devices /\ db'.settings = db.settings
         /\ db'.tracking = db.tracking
         /\ command.dpi = None => db'.pointer = db.pointer
         /\ command.dpi # None =>
              db'.pointer # NoPointer /\ db'.pointer = Mouse(command.dpi, command.maker)
         /\ db' \in [version : Nat, devices : BOOLEAN, settings : BOOLEAN,
                     pointer : PointerType, tracking : TrackingOrNone]
  <1>1. command.pc = pc /\ Goes(next)
    BY DEF PutDevice
  <1>2. CASE command.dpi = None /\ db' = db
    BY <1>1, <1>2 DEF ProfileTypeOK
  <1>3. CASE command.dpi # None /\ db' = [db EXCEPT !.pointer = Mouse(command.dpi, command.maker)]
    <2>1. command.dpi \in Dpis /\ command.maker \in MakerOrNothing
      BY <1>3 DEF ProfileTypeOK, CommandType, DpiOrNone
    <2>2. /\ Mouse(command.dpi, command.maker) \in PointerType
          /\ Mouse(command.dpi, command.maker) # NoPointer
      BY <2>1, MicePointAtSomething
    <2>3. QED
      BY <1>1, <1>3, <2>2 DEF ProfileTypeOK
  <1>4. QED
    BY <1>2, <1>3 DEF PutDevice

LEMMA PutTrackingWritesTheCutOff ==
  ASSUME ProfileTypeOK, NEW pc, PutTracking(pc)
  PROVE  /\ command.pc = pc
         /\ db'.version = db.version /\ db'.devices = db.devices /\ db'.settings = db.settings
         /\ db'.pointer = db.pointer
         /\ db'.tracking = Or(command.tracking, db.tracking)
         /\ db' \in [version : Nat, devices : BOOLEAN, settings : BOOLEAN,
                     pointer : PointerType, tracking : TrackingOrNone]
  BY DEF PutTracking, ProfileTypeOK, CommandType, Or

LEMMA ImportPointerKeepsInv ==
  ASSUME ProfileInv, ImportPointer
  PROVE  ProfileInv'
  <1>1. PutDevice("import pointer", "import tracking") /\ UNCHANGED <<legacy, typed, commands>>
    BY DEF ImportPointer
  <1>2. /\ command.pc = "import pointer" /\ Goes("import tracking")
        /\ db'.version = db.version /\ db'.devices = db.devices /\ db'.settings = db.settings
        /\ db'.tracking = db.tracking
        /\ command.dpi = None => db'.pointer = db.pointer
        /\ command.dpi # None =>
             db'.pointer # NoPointer /\ db'.pointer = Mouse(command.dpi, command.maker)
        /\ db' \in [version : Nat, devices : BOOLEAN, settings : BOOLEAN,
                    pointer : PointerType, tracking : TrackingOrNone]
    BY <1>1, PutDeviceWritesThePointer, "import tracking" \in Steps DEF ProfileInv, Steps
  <1>3. /\ command' \in CommandType /\ command'.pc = "import tracking"
        /\ command'.tracking = command.tracking
    BY <1>2, GoesOn DEF ProfileInv, Steps
  <1>4. /\ db.pointer = NoPointer
        /\ command.tracking = legacy.tracking
        /\ legacy.pointer # NoPointer => command.dpi # None
        /\ typed.tracking = None \/ legacy.tracking = None \/ legacy.pointer = NoPointer
    BY <1>2 DEF ProfileInv, ImportAtStep
  <1>5. Settled'
    BY <1>1, <1>2, <1>4 DEF Settled
  <1>6. typed.dpi = None
    <2>1. CASE typed.dpi # None
      <3>1. typed.dpi \in Dpis /\ typed.maker \in MakerOrNothing
        BY <2>1 DEF ProfileInv, ProfileTypeOK, DpiOrNone
      <3>2. QED
        BY <1>4, <2>1, <3>1, MicePointAtSomething DEF ProfileInv, WhatWasTypedIsKept
    <2>2. QED
      BY <2>1
  <1>7. ProfileTypeOK' /\ FileContents'
    BY <1>1, <1>2, <1>3 DEF ProfileInv, ProfileTypeOK, FileContents
  <1>8. SchemaAtStep'
    BY <1>2, <1>3 DEF ProfileInv, SchemaAtStep, Saving
  <1>9. ImportAtStep'
    BY <1>1, <1>3, <1>4, <1>5 DEF ImportAtStep
  <1>10. SaveAtStep' /\ TypedAfterImport'
    BY <1>3, <1>5 DEF SaveAtStep, TypedAfterImport
  <1>11. WhatWasTypedIsKept'
    BY <1>1, <1>2, <1>6 DEF ProfileInv, WhatWasTypedIsKept, ImportedAgain
  <1>12. QED
    BY <1>7, <1>8, <1>9, <1>10, <1>11 DEF ProfileInv

LEMMA ImportTrackingKeepsInv ==
  ASSUME ProfileInv, ImportTracking
  PROVE  ProfileInv'
  <1>1. PutTracking("import tracking") /\ Goes("load") /\ UNCHANGED <<legacy, typed, commands>>
    BY DEF ImportTracking
  <1>2. /\ command.pc = "import tracking"
        /\ db'.version = db.version /\ db'.devices = db.devices /\ db'.settings = db.settings
        /\ db'.pointer = db.pointer
        /\ db'.tracking = Or(command.tracking, db.tracking)
        /\ db' \in [version : Nat, devices : BOOLEAN, settings : BOOLEAN,
                    pointer : PointerType, tracking : TrackingOrNone]
    BY <1>1, PutTrackingWritesTheCutOff DEF ProfileInv
  <1>3. command' \in CommandType /\ command'.pc = "load"
    BY <1>1, GoesOn DEF ProfileInv, Steps
  <1>4. /\ Settled /\ command.tracking = legacy.tracking
        /\ typed.tracking = None \/ legacy.tracking = None \/ legacy.pointer = NoPointer
    BY <1>2 DEF ProfileInv, ImportAtStep
  <1>5. ProfileTypeOK' /\ FileContents'
    BY <1>1, <1>2, <1>3 DEF ProfileInv, ProfileTypeOK, FileContents
  <1>6. SchemaAtStep' /\ ImportAtStep'
    BY <1>2, <1>3 DEF ProfileInv, SchemaAtStep, ImportAtStep, Saving
  <1>7. SaveAtStep' /\ TypedAfterImport'
    BY <1>1, <1>2, <1>3, <1>4 DEF SaveAtStep, TypedAfterImport, Settled
  <1>8. WhatWasTypedIsKept'
    BY <1>1, <1>2, <1>4 DEF ProfileInv, WhatWasTypedIsKept, ImportedAgain, Or
  <1>9. QED
    BY <1>5, <1>6, <1>7, <1>8 DEF ProfileInv

LEMMA SavePointerKeepsInv ==
  ASSUME ProfileInv, SavePointer
  PROVE  ProfileInv'
  <1>1. /\ PutDevice("save pointer", "save tracking") /\ UNCHANGED <<legacy, commands>>
        /\ typed' = [typed EXCEPT !.dpi = Or(command.asked.dpi, typed.dpi),
                                  !.maker = IF command.dpi # None THEN command.asked.maker ELSE typed.maker]
    BY DEF SavePointer
  <1>2. /\ command.pc = "save pointer" /\ Goes("save tracking")
        /\ db'.version = db.version /\ db'.devices = db.devices /\ db'.settings = db.settings
        /\ db'.tracking = db.tracking
        /\ command.dpi = None => db'.pointer = db.pointer
        /\ command.dpi # None =>
             db'.pointer # NoPointer /\ db'.pointer = Mouse(command.dpi, command.maker)
        /\ db' \in [version : Nat, devices : BOOLEAN, settings : BOOLEAN,
                    pointer : PointerType, tracking : TrackingOrNone]
    BY <1>1, PutDeviceWritesThePointer, "save tracking" \in Steps DEF ProfileInv, Steps
  <1>3. /\ command' \in CommandType /\ command'.pc = "save tracking"
        /\ command'.asked = command.asked /\ command'.tracking = command.tracking
    BY <1>2, GoesOn DEF ProfileInv, Steps
  <1>4. /\ typed' \in [dpi : DpiOrNone, maker : MakerOrNothing, tracking : TrackingOrNone]
        /\ typed'.dpi = Or(command.asked.dpi, typed.dpi) /\ typed'.tracking = typed.tracking
        /\ typed'.maker = IF command.dpi # None THEN command.asked.maker ELSE typed.maker
    BY <1>1 DEF ProfileInv, ProfileTypeOK, CommandType, AskedType, Or
  <1>5. /\ Settled
        /\ command.dpi = Or(command.asked.dpi, db.pointer.dpi)
        /\ command.maker = command.asked.maker
        /\ command.tracking = Wanted(command.asked, db.tracking)
    BY <1>2 DEF ProfileInv, SaveAtStep
  <1>6. Settled'
    BY <1>1, <1>2, <1>5 DEF Settled
  <1>7. ProfileTypeOK' /\ FileContents'
    BY <1>1, <1>2, <1>3, <1>4 DEF ProfileInv, ProfileTypeOK, FileContents
  <1>8. SchemaAtStep' /\ ImportAtStep'
    BY <1>2, <1>3 DEF ProfileInv, SchemaAtStep, ImportAtStep, Saving
  <1>9. SaveAtStep' /\ TypedAfterImport'
    BY <1>2, <1>3, <1>5, <1>6 DEF SaveAtStep, TypedAfterImport
  <1>10. WhatWasTypedIsKept'
    <2>1. typed.dpi # None => db.pointer = Mouse(typed.dpi, typed.maker) /\ db.pointer.dpi = typed.dpi
      BY DEF ProfileInv, WhatWasTypedIsKept, Mouse
    <2>2. typed'.dpi # None => command.dpi = typed'.dpi
      BY <1>4, <1>5, <2>1 DEF Or
    <2>3. typed'.dpi # None => db'.pointer = Mouse(typed'.dpi, typed'.maker)
      BY <1>2, <1>4, <1>5, <2>2
    <2>4. QED
      BY <1>1, <1>2, <1>4, <2>3 DEF ProfileInv, WhatWasTypedIsKept, ImportedAgain
  <1>11. QED
    BY <1>7, <1>8, <1>9, <1>10 DEF ProfileInv

LEMMA SaveTrackingKeepsInv ==
  ASSUME ProfileInv, SaveTracking
  PROVE  ProfileInv'
  <1>1. /\ PutTracking("save tracking") /\ Ends /\ UNCHANGED <<legacy, commands>>
        /\ typed' = IF command.asked.cutoff = NoFlags THEN typed
                    ELSE [typed EXCEPT !.tracking = TrackingOf(command.asked.cutoff)]
    BY DEF SaveTracking
  <1>2. /\ command.pc = "save tracking"
        /\ db'.version = db.version /\ db'.devices = db.devices /\ db'.settings = db.settings
        /\ db'.pointer = db.pointer
        /\ db'.tracking = Or(command.tracking, db.tracking)
        /\ db' \in [version : Nat, devices : BOOLEAN, settings : BOOLEAN,
                    pointer : PointerType, tracking : TrackingOrNone]
    BY <1>1, PutTrackingWritesTheCutOff DEF ProfileInv
  <1>3. command' = [pc |-> "idle", asked |-> NothingAsked, dpi |-> None, tracking |-> None, maker |-> ""]
    BY <1>1 DEF Ends, Idle
  <1>4. command' \in CommandType
    BY <1>3, NothingIsTyped DEF CommandType, Steps
  <1>5. /\ typed' \in [dpi : DpiOrNone, maker : MakerOrNothing, tracking : TrackingOrNone]
        /\ typed'.tracking = Wanted(command.asked, typed.tracking)
        /\ typed'.dpi = typed.dpi /\ typed'.maker = typed.maker
    <2>1. command.asked \in AskedType /\ typed.tracking \in TrackingOrNone
      BY DEF ProfileInv, ProfileTypeOK, CommandType
    <2>2. Wanted(command.asked, typed.tracking) \in TrackingOrNone
      BY <2>1, WhatIsWantedIsTyped
    <2>3. typed' = [typed EXCEPT !.tracking = Wanted(command.asked, typed.tracking)]
      BY <1>1 DEF Wanted, ProfileInv, ProfileTypeOK
    <2>4. QED
      BY <2>2, <2>3 DEF ProfileInv, ProfileTypeOK
  <1>6. Settled /\ command.tracking = Wanted(command.asked, db.tracking)
    BY <1>2 DEF ProfileInv, SaveAtStep
  <1>7. ProfileTypeOK' /\ FileContents'
    BY <1>1, <1>2, <1>4, <1>5 DEF ProfileInv, ProfileTypeOK, FileContents
  <1>8. SchemaAtStep' /\ ImportAtStep' /\ SaveAtStep'
    BY <1>2, <1>3 DEF ProfileInv, SchemaAtStep, ImportAtStep, SaveAtStep, Saving
  <1>9. TypedAfterImport'
    BY <1>1, <1>2, <1>6 DEF TypedAfterImport, Settled
  <1>10. WhatWasTypedIsKept'
    BY <1>1, <1>2, <1>5, <1>6 DEF ProfileInv, WhatWasTypedIsKept, ImportedAgain, Wanted, Or
  <1>11. QED
    BY <1>7, <1>8, <1>9, <1>10 DEF ProfileInv

-----------------------------------------------------------------------------
(* The theorems. *)

LEMMA ProfileNextInv == ProfileInv /\ [ProfileNext]_profileVars => ProfileInv'
  <1>1. SUFFICES ASSUME ProfileInv, [ProfileNext]_profileVars PROVE ProfileInv'
    OBVIOUS
  <1>2. ASSUME NEW asked \in Asked, Ask(asked) PROVE ProfileInv'
    BY <1>1, <1>2, AskKeepsInv
  <1>3. CASE RefuseArguments
    BY <1>1, <1>3, RefusalKeepsInv
  <1>4. CASE KillCommand
    <2>1. Ends /\ UNCHANGED <<db, legacy, typed>> /\ commands' \in Nat
      BY <1>1, <1>4 DEF KillCommand, ProfileInv, ProfileTypeOK
    <2>2. QED
      BY <1>1, <2>1, EndKeepsInv
  <1>5. CASE ReadVersion
    BY <1>1, <1>5, ReadVersionKeepsInv
  <1>6. CASE CreateTable("devices", "devices", "settings") \/ CreateTable("settings", "settings", "version")
    BY <1>1, <1>6, CreateTableKeepsInv
  <1>7. CASE SetVersion
    BY <1>1, <1>7, SetVersionKeepsInv
  <1>8. CASE Import
    BY <1>1, <1>8, ImportKeepsInv
  <1>9. CASE ImportPointer
    BY <1>1, <1>9, ImportPointerKeepsInv
  <1>10. CASE ImportTracking
    BY <1>1, <1>10, ImportTrackingKeepsInv
  <1>11. CASE Load
    BY <1>1, <1>11, LoadKeepsInv
  <1>12. CASE SavePointer
    BY <1>1, <1>12, SavePointerKeepsInv
  <1>13. CASE SaveTracking
    BY <1>1, <1>13, SaveTrackingKeepsInv
  <1>14. CASE UNCHANGED profileVars
    BY <1>1, <1>14 DEF profileVars, ProfileInv, ProfileTypeOK, FileContents, SchemaAtStep, ImportAtStep,
                       SaveAtStep, TypedAfterImport, Settled, WhatWasTypedIsKept, ImportedAgain
  <1>15. QED
    BY <1>1, <1>2, <1>3, <1>4, <1>5, <1>6, <1>7, <1>8, <1>9, <1>10, <1>11, <1>12, <1>13, <1>14 DEF ProfileNext

LEMMA ProfileInvariant == ProfileSpec => []ProfileInv
  BY ProfileInitInv, ProfileNextInv, PTL DEF ProfileSpec

\* db.py, _migrate: wherever commands were killed, a file with this build's
\* version has both tables, and a command that reads or writes has that version.
THEOREM OpenStoresAreWhole == ProfileSpec => []AnOpenStoreIsWhole
  <1>1. ProfileInv => AnOpenStoreIsWhole
    BY DEF ProfileInv, SchemaAtStep, AnOpenStoreIsWhole, Saving
  <1>2. QED
    BY <1>1, ProfileInvariant, PTL

\* profile.py, save and import_legacy_profile: the dots per inch a player typed
\* are in the store with the maker of the last command that saved, and the
\* cut-off is the one typed last, whole, whatever was killed since, but for a
\* profile.json that has a cut-off and no mouse.
THEOREM TypedIsKept == ProfileSpec => []WhatWasTypedIsKept
  <1>1. ProfileInv => WhatWasTypedIsKept
    BY DEF ProfileInv
  <1>2. QED
    BY <1>1, ProfileInvariant, PTL
=============================================================================
