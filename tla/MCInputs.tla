------------------------------ MODULE MCInputs ------------------------------
(* What the commands take in before they compute anything: osu!.cfg and what  *)
(* Windows says (Doctor), the store and the older profile.json (Profile), and *)
(* osu!.db (OsuDb). The three share no variable, so no property of one can    *)
(* depend on what another does meanwhile, and one of them moves at a time:    *)
(* first forge doctor; behind its second report on a machine where nothing    *)
(* can be read its state is put away, and the store or the index goes on from *)
(* any of the initial states it has.                                          *)
EXTENDS MCDoctor, MCProfile, MCOsuDb

VARIABLE input  \* the one that moves

MachineRests == DoctorInit /\ scenario = SilentMachine
StoreRests == ProfileInit /\ db = Fresh /\ legacy = NoFile

\* The game has begun to write an index, and nobody reads it.
IndexRests ==
  /\ layout = [floats |-> TRUE, tag |-> TagSingle, extra |-> 0, swapped |-> 0, number |-> 0]
  /\ index = [m \in Maps |-> [hash |-> 0, offset |-> 0]]
  /\ library = [m \in Maps |-> 0]
  /\ disk = <<>>
  /\ saved = [of |-> index, whole |-> FALSE]
  /\ reader = Start
  /\ events = 1

InputsInit ==
  /\ input = "machine"
  /\ \/ DoctorInit /\ StoreRests /\ IndexRests
     \/ MachineRests /\ ProfileInit /\ IndexRests
     \/ MachineRests /\ StoreRests /\ OsuDbInit

TheOthersMove ==
  /\ input = "machine"
  /\ scenario = SilentMachine /\ step = "done" /\ followed # {}
  /\ input' = IF IndexRests THEN "store" ELSE "index"
  /\ step' = "start" /\ read' = <<>> /\ probes' = <<>> /\ report' = {} /\ code' = 0 /\ followed' = {}
  /\ AudioRestart
  /\ UNCHANGED <<scenario, machine, files, osu, moves, raced, profileVars, osuDbVars>>

InputsNext ==
  \/ input = "machine" /\ Next /\ UNCHANGED <<input, profileVars, osuDbVars>>
  \/ TheOthersMove
  \/ input = "store" /\ ProfileNext /\ UNCHANGED <<input, vars, osuDbVars>>
  \/ input = "index" /\ OsuDbNext /\ UNCHANGED <<input, vars, profileVars>>

InputsSpec == InputsInit /\ [][InputsNext]_<<input, vars, profileVars, osuDbVars>>
=============================================================================
