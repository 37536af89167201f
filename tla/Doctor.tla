------------------------------- MODULE Doctor -------------------------------
(***************************************************************************)
(* forge doctor between osu! and the player: it reads the configuration,   *)
(* then runs one probe after the other, then the rules, and reports. osu!  *)
(* holds its configuration in memory and writes it when it exits, the      *)
(* player follows a piece of advice and runs doctor again.                 *)
(***************************************************************************)
EXTENDS Rules, AudioProbe

CONSTANT Scenarios      \* the machines, files and arguments to start from

\* osu! has a configuration of the user's own, and psutil is there or not.
ASSUME ScenariosAssumption ==
    \A s \in Scenarios :
        /\ "mine" \in DOMAIN s.files
        /\ "psutil" \in DOMAIN s.machine /\ s.machine.psutil \in {"installed", "missing", "raises"}

\* What is found is there, and a configuration is a file of lines.
ASSUME FilesAssumption ==
    \A s \in Scenarios :
        /\ FindConfig(s.places) \subseteq DOMAIN s.files
        /\ \A path \in DOMAIN s.files :
               s.files[path] \in Seq({s.files[path][i] : i \in DOMAIN s.files[path]})

\* Windows numbers its adapters, and has three accessibility features to ask for.
ASSUME MachinesAssumption ==
    \A s \in Scenarios :
        /\ {"adapters", "mouse", "a11y", "power", "layers"} \subseteq DOMAIN s.machine
        /\ LET listed == s.machine.adapters[2] IN
           s.machine.adapters # RaisesOSError =>
               /\ listed \in Seq({listed[i] : i \in DOMAIN listed})
               /\ \A i \in DOMAIN listed : listed[i].hz \in Int
        /\ s.machine.a11y # RaisesOSError =>
               {"sticky", "filter", "toggle"} \subseteq DOMAIN s.machine.a11y[2]

VARIABLES
    scenario,   \* arguments and places, and what never changes
    machine,    \* what the probes read
    files,      \* path -> the lines of a configuration
    osu,        \* whether it runs, its configuration, its window
    moves,      \* how often osu! may still start or exit (bound)
    step,       \* where forge doctor is
    read,       \* the configuration as parsed
    probes,     \* the results so far
    report,     \* all findings, before any filter
    code,       \* exit code
    raced,      \* osu! exited after the file was read, before it was looked for
    followed    \* the advice the player took, and the report it was in

doctorVars == <<scenario, machine, files, osu, moves, step, read, probes, report, code,
                raced, followed>>
vars == <<doctorVars, audioVars>>

Order == <<"displays", "process", "mouse", "a11y", "timer", "power", "gamebar", "audio",
           "window", "fso">>

DoctorInit ==
    /\ scenario \in Scenarios
    /\ machine = scenario.machine
    /\ files = scenario.files
    /\ osu = [running |-> scenario.running, window |-> scenario.window,
              memory |-> scenario.files["mine"]]
    /\ moves = scenario.moves
    /\ step = "start"
    /\ read = <<>> /\ probes = <<>> /\ report = {} /\ code = 0
    /\ raced = FALSE
    /\ followed = {}
    /\ AudioInit

-----------------------------------------------------------------------------
(* osu!                                                                    *)

OsuStarts ==
    /\ moves > 0 /\ ~osu.running
    /\ moves' = moves - 1
    /\ osu' = [osu EXCEPT !.running = TRUE, !.memory = files["mine"]]
    /\ UNCHANGED <<scenario, machine, files, step, read, probes, report, code, raced, followed>>
    /\ UNCHANGED audioVars

OsuExits ==
    /\ moves > 0 /\ osu.running
    /\ moves' = moves - 1
    /\ osu' = [osu EXCEPT !.running = FALSE]
    /\ files' = [files EXCEPT !["mine"] = osu.memory]
    /\ raced' = (raced \/ (step = "probing" /\ "process" \notin DOMAIN probes))
    /\ UNCHANGED <<scenario, machine, step, read, probes, report, code, followed, audioVars>>

-----------------------------------------------------------------------------
(* forge doctor                                                            *)

\* Neither the configuration found nor the place it is in is asked again.
ReadConfig ==
    LET found == FindConfig(scenario.places)
        path == CHOOSE p \in found : TRUE
    IN  /\ step = "start"
        /\ IF found = {} THEN step' = "done" /\ code' = 2 /\ UNCHANGED read
           ELSE /\ read' = Parse(files[path])
                /\ step' = IF scenario.args.noProbes THEN "rules" ELSE "probing"
                /\ UNCHANGED code
        /\ probes' = <<>> /\ report' = {} /\ raced' = FALSE
        /\ AudioRestart
        /\ UNCHANGED <<scenario, machine, files, osu, moves, followed>>

\* The executable is looked for beside the configuration that was read.
ExeBeside(path) == IF path = "copy" THEN "elsewhere" ELSE "install"

ResultOf(probe) ==
    CASE probe = "displays" -> ProbeDisplays(machine)
      [] probe = "process" -> ProbeOsuProcess(machine, osu)
      [] probe = "mouse" -> ProbeMouse(machine)
      [] probe = "a11y" -> ProbeAccessibility(machine)
      [] probe = "timer" -> ProbeTimerResolution(machine)
      [] probe = "power" -> ProbePowerScheme(machine)
      [] probe = "gamebar" -> ProbeGameBar(machine)
      [] probe = "audio" -> IF outcome = "ok" THEN Ok(endpoint @@ machine.audio) ELSE <<outcome>>
      [] probe = "window" -> ProbeOsuWindow(probes["process"], probes["displays"], osu)
      [] probe = "fso" -> ProbeFullscreenOptimizations(machine,
                              ExeBeside(CHOOSE p \in FindConfig(scenario.places) : TRUE))

NextProbe == Order[Cardinality(DOMAIN probes) + 1]

\* The tables know how the audio probe may fail on this machine.
AudioStep ==
    /\ step = "probing" /\ NextProbe = "audio" /\ ~AudioDone
    /\ \/ \E answer \in machine.com : CoInitializeEx(answer)
       \/ Succeed
       \/ machine.comCallsFail /\ Fail
       \/ Unwinds
    /\ UNCHANGED doctorVars

CollectProbe ==
    /\ step = "probing"
    /\ NextProbe = "audio" => AudioDone
    /\ probes' = [p \in DOMAIN probes \cup {NextProbe} |->
                      IF p = NextProbe THEN ResultOf(p) ELSE probes[p]]
    /\ step' = IF NextProbe = Order[Len(Order)] THEN "rules" ELSE step
    /\ UNCHANGED <<scenario, machine, files, osu, moves, read, report, code, raced, followed>>
    /\ UNCHANGED audioVars

Rules == IF scenario.args.noProbes THEN ConfigOnlyRules ELSE AllRules

\* What the filters leave is printed, and is what the exit code is made of.
Printed(findings) ==
    {f \in findings : /\ scenario.args.onlyFacts => f.finding.fact
                      /\ f.finding.severity <= scenario.args.severity}

Report ==
    /\ step = "rules"
    /\ report' = RunRules(Rules, read, probes)
    /\ code' = IF \E f \in Printed(report') : f.finding.severity <= scenario.args.failOn
               THEN 1 ELSE 0
    /\ step' = "done"
    /\ UNCHANGED <<scenario, machine, files, osu, moves, read, probes, raced, followed, audioVars>>

-----------------------------------------------------------------------------
(* The player follows one piece of advice and runs forge doctor again.     *)

SetEntry(lines, key, v) ==
    LET old == {i \in DOMAIN lines : ~lines[i].hash /\ lines[i].sep /\ lines[i].key = key} IN
    IF old = {} THEN Append(lines, RawEntry(key, v))
    ELSE [lines EXCEPT ![CHOOSE i \in old : \A j \in old : j <= i] = RawEntry(key, v)]

InFile(lines, advice) ==
    LET settings == {s \in advice : s[1] = "osu!.cfg"} IN
    IF settings = {} THEN lines
    ELSE LET s == CHOOSE s \in settings : TRUE IN SetEntry(lines, s[2], s[3])

InWindows(m, advice) ==
    LET Zero(raw, what) == IF Windows(what, Num(0)) \in advice THEN Num(0) ELSE raw
        Disarm(raw, what) == IF Windows(what, Text("disarmed")) \in advice
                             THEN Answers(raw[2] \ {"hotkey"}) ELSE raw
        Flags == {s[3][2] : s \in {t \in advice : t[2] = "layers"}}
    IN  [m EXCEPT
            !.mouse = IF @ = RaisesOSError THEN @
                      ELSE Answers([sensitivity |-> IF Windows("sensitivity", Num(10)) \in advice
                                                    THEN Num(10) ELSE @[2].sensitivity,
                                    speed |-> Zero(@[2].speed, "speed"),
                                    threshold1 |-> Zero(@[2].threshold1, "threshold1"),
                                    threshold2 |-> Zero(@[2].threshold2, "threshold2")]),
            !.a11y = IF @ = RaisesOSError THEN @
                     ELSE Answers([s \in DOMAIN @[2] |-> Disarm(@[2][s], s)]),
            !.power = IF Windows("power", Text("high_performance")) \in advice
                      THEN Answers("high_performance") ELSE @,
            !.layers = IF Flags = {} THEN @
                       ELSE Answers([exe \in DOMAIN @[2] \cup {"install"} |->
                                        IF exe = "install" THEN CHOOSE f \in Flags : TRUE ELSE @[2][exe]])]

\* In the game when it runs, which remembers, or in the file, which it will
\* overwrite.
Follow(f) ==
    /\ step = "done" /\ followed = {} /\ f.finding.advice # {}
    /\ machine' = InWindows(machine, f.finding.advice)
    /\ \/ /\ osu.running
          /\ osu' = [osu EXCEPT !.memory = InFile(@, f.finding.advice)]
          /\ UNCHANGED files
       \/ /\ files' = [files EXCEPT !["mine"] = InFile(@, f.finding.advice)]
          /\ UNCHANGED osu
    /\ followed' = {[advice |-> f, before |-> report]}
    /\ step' = "start"
    /\ UNCHANGED <<scenario, moves, read, probes, report, code, raced, audioVars>>

Player == \E f \in report : Follow(f)

Next == OsuStarts \/ OsuExits \/ ReadConfig \/ AudioStep \/ CollectProbe \/ Report \/ Player

DoctorSpec == DoctorInit /\ [][Next]_vars

-----------------------------------------------------------------------------
(* Properties.                                                             *)

Of(findings, r) == {f \in findings : f.rule = r}
HasFailed(r) == \E f \in Of(report, r) : f.finding.id \in {"skipped", "error"}

\* Advice that was followed, and that is in what the second run read, has
\* settled the matter: the rule finds nothing any more that it had not
\* found beside it before. Two kinds of advice do not settle: the stock
\* binding when another live key has it (or it is the conflict itself), and
\* the compatibility flag when the configuration read is a copy kept
\* somewhere else than beside osu!.exe.
IsRead(setting) == setting[1] = "osu!.cfg" => Get(read, setting[2]) = setting[3]
TakenBefore(old) ==
    \E f \in old : f.rule = "cfg.keybind.duplicate_live" /\
        \E s \in f.finding.advice, k \in Bindings(read) \cap KnownKeys :
            k # s[2] /\ Get(read, k) = s[3] /\ Overlap(k, s[2]) # {}

\* Of three keys in conflict two may still be, without the advised one.
Settled(a) ==
    \A f \in Of(report, a.advice.rule) :
        \/ f \in a.before \ {a.advice}
        \/ f.rule = "cfg.keybind.duplicate_live" /\ f.finding.advice = {}

FollowedAdviceSettles ==
    step = "done" =>
    \A a \in followed :
        \/ \E s \in a.advice.finding.advice : ~IsRead(s)
        \/ a.advice.rule = "cfg.keybind.duplicate_live" /\ TakenBefore(a.before)
        \/ a.advice.rule = "sys.win.fso_not_disabled" /\ FindConfig(scenario.places) = {"copy"}
        \/ Settled(a)

\* Probes that fail as a whole, by raising or with a reason.
CannotBeRead(probe) ==
    CASE probe = "displays" -> \/ machine.adapters = RaisesOSError
                               \/ \A i \in DOMAIN machine.adapters[2] :
                                      LET a == machine.adapters[2][i] IN ~a.attached \/ ~a.settings
      [] probe = "process" -> machine.psutil # "installed"
      [] probe = "mouse" -> machine.mouse = RaisesOSError
      [] probe = "a11y" -> \/ machine.a11y = RaisesOSError
                           \/ \E s \in DOMAIN machine.a11y[2] : machine.a11y[2][s] = Fails
      [] probe = "timer" -> machine.timer \in {RaisesOSError, Fails}
      [] probe = "power" -> machine.power \in {RaisesOSError, Fails}
      [] probe = "gamebar" -> FALSE
      [] probe = "audio" -> outcome # "ok"
      [] probe = "fso" -> machine.layers = RaisesOSError

HasProbed == step = "done" /\ code # 2 /\ ~scenario.args.noProbes
NotChecked(r) == By(r, {Skipped})

\* engine.py: "a check that could not run must not look the same as a check that
\* passed". A probe that fails costs the rules that hang on it, each of which
\* is reported as not checked and says nothing else, and costs no other rule.
\* This is about probes that fail as a whole. One that is ok with a part of its
\* reading missing says nothing of that part, and its rules judge what is left:
\* the Game Mode value that Windows refuses (system.py:207), a pointer value that
\* is no number (mouse.py:58), one monitor of several (display.py:137), the engine
\* periods or the name of the endpoint (audio.py:390, 450, 475).
AFailedProbeCostsItsRulesOnly ==
    HasProbed =>
    \A r \in DOMAIN AllRules :
        IF \E p \in AllRules[r] : CannotBeRead(p)
        THEN Of(report, r) = NotChecked(r)
        ELSE NotChecked(r) \cap report = {}

\* A rule fails only where a value it reads is not of the kind it asks for. No
\* rule stumbles over a reading that is missing or that another probe would have
\* had to guard, and none makes a finding that advises without saying what is.
KeysRead ==
    [r \in DOMAIN AllRules |->
        CASE r = "cfg.mouse.raw_input_off" -> {"RawInput"}
          [] r = "cfg.mouse.speed_not_unity" -> {"MouseSpeed"}
          [] r = "cfg.frame.custom_limit_inert" -> {"CustomFrameLimit"}
          [] r = "cfg.audio.compatibility_mode" -> {"AudioCompatibility"}
          [] r = "sys.display.refreshrate" -> {"RefreshRate", "OverrideRefreshRate"}
          [] r = "sys.display.fullscreen_resolution" -> {"Fullscreen", "WidthFullscreen", "HeightFullscreen"}
          [] r = "sys.audio.device_missing" -> {"AudioDevice"}
          [] OTHER -> {}]

Switches == {"RawInput", "AudioCompatibility", "OverrideRefreshRate", "Fullscreen"}
IsOfItsKind(key) ==
    LET v == Get(read, key) IN
    CASE key \in Switches -> v \in {Absent, Num(0), Num(1)}
      [] key = "AudioDevice" -> v # Hidden
      [] key = "MouseSpeed" -> v \in {Absent, Text("")} \/ v[1] \in {"num", "dec"}
      [] OTHER -> v \in {Absent, Text("")} \/ v[1] = "num"

ARuleFailsOnlyOnABadValue ==
    \A f \in report :
        f.finding.id = "error" => \E key \in KeysRead[f.rule] : ~IsOfItsKind(key)

\* A report made from a file that is not what osu! will keep says that osu!
\* runs, or that this could not be checked. Only an exit between the reading
\* of the file and the look for the process leaves a stale report unmarked.
AStaleReportSaysSo ==
    /\ step = "done" /\ code # 2 /\ ~scenario.args.noProbes
    /\ FindConfig(scenario.places) = {"mine"}
    /\ read # Parse(IF osu.running THEN osu.memory ELSE files["mine"])
    => Of(report, "sys.process.osu_running") # {} \/ raced
=============================================================================
