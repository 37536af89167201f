------------------------------- MODULE Probes -------------------------------
(***************************************************************************)
(* The hardware probes: what each makes of the machine. A result is a      *)
(* value, a reading that is not to be had, or one that failed. No probe    *)
(* raises. `m' is the machine: what the registry and the system calls do,  *)
(* which is to answer, to raise OSError or to answer that they failed.     *)
(***************************************************************************)
EXTENDS Config

Ok(v) == <<"ok", v>>
Unavailable == <<"unavailable">>
Error == <<"error">>
IsOk(p) == p[1] = "ok"
Value(p) == p[2]

Answers(v) == <<"answers", v>>
RaisesOSError == <<"raises">>
Fails == <<"fails">>
Outcome(raw) == CASE raw = RaisesOSError -> Error
                  [] raw = Fails -> Unavailable
                  [] raw \notin {RaisesOSError, Fails} -> Ok(raw[2])

\* Attached adapters whose current settings can be read.
ProbeDisplays(m) ==
    IF m.adapters = RaisesOSError THEN Error
    ELSE LET list == m.adapters[2]
             monitors == {i \in DOMAIN list : list[i].attached /\ list[i].settings}
         IN  IF monitors = {} THEN Unavailable ELSE Ok([i \in monitors |-> list[i]])

ProbeOsuProcess(m, osu) ==
    CASE m.psutil = "missing" -> Unavailable
      [] m.psutil = "raises" -> Error
      [] OTHER -> Ok([running |-> osu.running])

\* An absent value and one that is no number both read as the default.
ReadInt(raw, default) == IF raw[1] = "num" THEN raw[2] ELSE default

ProbeMouse(m) ==
    IF m.mouse = RaisesOSError THEN Error
    ELSE LET key == m.mouse[2] IN
         Ok([sensitivity |-> ReadInt(key.sensitivity, 10),
             precision   |-> ReadInt(key.speed, 0),
             thresholds  |-> <<ReadInt(key.threshold1, 0), ReadInt(key.threshold2, 0)>>])
AccelerationOn(s) == s.precision # 0 \/ s.thresholds[1] # 0 \/ s.thresholds[2] # 0

\* Each feature is a set of flags: it may be on, its shortcut may be armed.
ProbeAccessibility(m) ==
    LET queried == m.a11y[2] IN
    CASE m.a11y = RaisesOSError -> Error
      [] m.a11y # RaisesOSError /\ (\E s \in DOMAIN queried : queried[s] = Fails) -> Unavailable
      [] OTHER -> Ok([s \in DOMAIN queried |-> queried[s][2]])
HotkeyArmed(shortcuts, s) == "hotkey" \in shortcuts[s]

\* In units of 100 ns, as the system call answers.
ProbeTimerResolution(m) == Outcome(m.timer)

ProbePowerScheme(m) == Outcome(m.power)
MayThrottle(scheme) == scheme \in {"balanced", "power_saver"}

\* Whatever cannot be read is nothing, and the probe is still ok.
ProbeGameBar(m) ==
    Ok([mode |-> IF m.gameMode[1] = "num" THEN {m.gameMode[2] # 0} ELSE {}])

\* Window and monitors are matched by position.
ProbeOsuWindow(process, displays, osu) ==
    LET pid == IsOk(process) /\ Value(process).running
        on == {i \in DOMAIN Value(displays) : Value(displays)[i].x = osu.window[2]}
    IN  CASE ~pid \/ ~IsOk(displays) -> Unavailable
          [] pid /\ IsOk(displays) /\ osu.window = RaisesOSError -> Error
          [] pid /\ IsOk(displays) /\ (osu.window = Fails \/ ~osu.running) -> Unavailable
          [] OTHER -> IF on = {} THEN Unavailable
                      ELSE Ok(Value(displays)[CHOOSE i \in on : \A j \in on : i <= j])

\* The compatibility layers of one executable; no entry is nothing.
ProbeFullscreenOptimizations(m, exe) ==
    IF m.layers = RaisesOSError THEN Error
    ELSE Ok(IF exe \in DOMAIN m.layers[2] THEN {m.layers[2][exe]} ELSE {})
FsoDisabled(flags) == \E f \in flags : "DISABLEDXMAXIMIZEDWINDOWEDMODE" \in f
=============================================================================
