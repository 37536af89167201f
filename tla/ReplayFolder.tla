---------------------------- MODULE ReplayFolder ----------------------------
(***************************************************************************)
(* osu!'s Data/r folder, which this tool reads and never writes.  osu!     *)
(* creates a replay file, writes it and leaves it alone; the player may    *)
(* delete it.  What a file holds is abstracted to what replay/source.judge *)
(* says of it.                                                             *)
(***************************************************************************)
CONSTANT Replays

VARIABLE file

Contents ==
  {"absent",    \* not created yet
   "partial",   \* being written: the parser refuses it
   "foreign",   \* complete, but not a usable play, or its beatmap is missing
   "whole",     \* judge returns a Judged
   "deleted"}

OnDisk(p) == file[p] \in {"partial", "foreign", "whole"}

\* judge: a reason, for every file but a whole one.
Judged(p) == file[p] = "whole"

Create(p) ==
  /\ file[p] = "absent"
  /\ file' = [file EXCEPT ![p] = "partial"]

FinishWriting(p) ==
  /\ file[p] = "partial"
  /\ \E c \in {"foreign", "whole"} : file' = [file EXCEPT ![p] = c]

\* The beatmap is downloaded: BeatmapIndex.get looks again on every miss.
InstallBeatmap(p) ==
  /\ file[p] = "foreign"
  /\ file' = [file EXCEPT ![p] = "whole"]

Delete(p) ==
  /\ OnDisk(p)
  /\ file' = [file EXCEPT ![p] = "deleted"]

Game(p) == Create(p) \/ FinishWriting(p) \/ InstallBeatmap(p) \/ Delete(p)
=============================================================================
