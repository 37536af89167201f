-------------------------------- MODULE Rules --------------------------------
(***************************************************************************)
(* The rules of forge doctor and the engine that runs them.                *)
(*                                                                         *)
(* A rule reads the configuration `c' and the results of the probes `p'    *)
(* and reports findings, or raises. A finding keeps what the properties    *)
(* tell apart: its id, how severe it is (0 critical, 1 warning, 2 info),   *)
(* whether it is a hard fact, which settings it says are the case now and  *)
(* which it advises.                                                       *)
(***************************************************************************)
EXTENDS Probes, TLC

Raises == [raises |-> TRUE, found |-> {}]
Quiet == [raises |-> FALSE, found |-> {}]

\* A finding that advises must say what is the case now; making one that
\* does not raises.
ReportFinding(id, severity, fact, current, advice) ==
    IF advice # {} /\ current = {} THEN Raises
    ELSE [raises |-> FALSE,
          found  |-> {[id |-> id, severity |-> severity, fact |-> fact,
                       current |-> current, advice |-> advice]}]
All(results) == [raises |-> \E r \in results : r.raises,
                 found  |-> UNION {r.found : r \in results}]

\* A setting: where, which, and to what.
Cfg(key, v) == <<"osu!.cfg", key, v>>
Windows(what, v) == <<"windows", what, v>>
AsIs(c, keys) == {Cfg(k, Get(c, k)) : k \in keys}

-----------------------------------------------------------------------------
(* Rules that read the configuration only.                                 *)

StockDefaults == [keyQuickRetry |-> Text("OemTilde")]

DuplicateLiveBindings(c) ==
    All({LET known == conflict.keys \cap DOMAIN StockDefaults IN
         IF known # {}
         THEN LET k == FirstInFile(c, known) IN
              ReportFinding("cfg.keybind.duplicate_live", 0, TRUE,
                  AsIs(c, {FirstInFile(c, conflict.keys)}), {Cfg(k, StockDefaults[k])})
         ELSE ReportFinding("cfg.keybind.duplicate_live", 0, TRUE, AsIs(c, conflict.keys), {})
         : conflict \in Conflicts(c)})

RawInputDisabled(c) ==
    CASE BoolFails(c, "RawInput") -> Raises
      [] Get(c, "RawInput") = Num(0) ->
             ReportFinding("cfg.mouse.raw_input_off", 0, FALSE, AsIs(c, {"RawInput"}), {Cfg("RawInput", Num(1))})
      [] OTHER -> Quiet

\* Mutant: for a value out of range the limit is advised, not 1.
MouseSpeedClamped(c) ==
    IF FloatFails(c, "MouseSpeed") THEN Raises
    ELSE IF ~Given(c, "MouseSpeed") \/ TenthsOf(c, "MouseSpeed") = 10 THEN Quiet
    ELSE LET out == TenthsOf(c, "MouseSpeed") \notin 4..60 IN
         ReportFinding("cfg.mouse.speed_not_unity", IF out THEN 1 ELSE 2, FALSE,
             AsIs(c, {"MouseSpeed"}), IF out THEN {Cfg("MouseSpeed", Num(6))} ELSE {})

MouseSpeedNotUnity(c) ==
    IF FloatFails(c, "MouseSpeed") THEN Raises
    ELSE IF ~Given(c, "MouseSpeed") \/ TenthsOf(c, "MouseSpeed") = 10 THEN Quiet
    ELSE LET out == TenthsOf(c, "MouseSpeed") \notin 4..60 IN
         ReportFinding("cfg.mouse.speed_not_unity", IF out THEN 1 ELSE 2, FALSE,
             AsIs(c, {"MouseSpeed"}), IF out THEN {Cfg("MouseSpeed", Num(1))} ELSE {})

CustomFrameLimitInert(c) ==
    CASE IntFails(c, "CustomFrameLimit") -> Raises
      [] ~IntFails(c, "CustomFrameLimit") /\ Given(c, "CustomFrameLimit")
            /\ Get(c, "FrameSync") \notin {Absent, Text("Custom")} ->
             ReportFinding("cfg.frame.custom_limit_inert", 1, TRUE, AsIs(c, {"FrameSync", "CustomFrameLimit"}), {})
      [] OTHER -> Quiet

VsyncLatency(c) ==
    IF Get(c, "FrameSync") = Text("VSync")
    THEN ReportFinding("cfg.frame.vsync_latency", 2, FALSE, AsIs(c, {"FrameSync"}), {}) ELSE Quiet

CompatibilityMode(c) ==
    CASE BoolFails(c, "AudioCompatibility") -> Raises
      [] On(c, "AudioCompatibility") ->
             ReportFinding("cfg.audio.compatibility_mode", 2, TRUE, AsIs(c, {"AudioCompatibility"}), {})
      [] OTHER -> Quiet

-----------------------------------------------------------------------------
(* Rules about the displays.                                               *)

Monitors(p) == LET list == Value(p.displays) IN {list[i] : i \in DOMAIN list}

Near(a, b) == a - b \in -2..2

\* The value is acted on only under the override.
RefreshRate(c, p) ==
    LET measured == {monitor.hz : monitor \in Monitors(p)}
        configured == IntOf(c, "RefreshRate")
        fastest == CHOOSE hz \in measured : \A other \in measured : other <= hz
    IN  CASE IntFails(c, "RefreshRate") -> Raises
          [] ~IntFails(c, "RefreshRate")
                /\ (~Given(c, "RefreshRate") \/ \E hz \in measured : Near(configured, hz)) -> Quiet
          [] OTHER ->
                IF BoolFails(c, "OverrideRefreshRate") THEN Raises
                ELSE IF On(c, "OverrideRefreshRate")
                THEN ReportFinding("sys.display.refreshrate_override_wrong", 1, TRUE,
                         AsIs(c, {"RefreshRate"}), {Cfg("RefreshRate", Num(fastest))})
                ELSE ReportFinding("sys.display.refreshrate_stale", 2, TRUE, AsIs(c, {"RefreshRate"}), {})

Mode == {"WidthFullscreen", "HeightFullscreen"}

FullscreenKnownMonitor(c, monitor, width, height) ==
    IF width = monitor.width /\ height = monitor.height THEN Quiet
    ELSE ReportFinding("sys.display.fullscreen_not_native", 2, TRUE, AsIs(c, Mode), {})

\* Nothing is said when the fastest monitor is one the mode is native on.
FullscreenUnknownMonitor(c, monitors, width, height) ==
    LET native == {n \in monitors : n.width = width /\ n.height = height} IN
    CASE native = {} ->
             ReportFinding("sys.display.fullscreen_not_native", 2, TRUE, AsIs(c, Mode), {})
      [] native # {} /\ (\E o \in monitors : \A n \in native : n.hz < o.hz) ->
             ReportFinding("sys.display.fullscreen_monitor_ambiguous", 2, TRUE, AsIs(c, Mode), {})
      [] OTHER -> Quiet

FullscreenResolution(c, p) ==
    LET width == IntOf(c, "WidthFullscreen")
        height == IntOf(c, "HeightFullscreen")
    IN  CASE BoolFails(c, "Fullscreen") -> Raises
          [] ~BoolFails(c, "Fullscreen") /\ ~On(c, "Fullscreen") -> Quiet
          [] OTHER ->
                IF IntFails(c, "WidthFullscreen") \/ IntFails(c, "HeightFullscreen") THEN Raises
                ELSE IF ~Given(c, "WidthFullscreen") \/ ~Given(c, "HeightFullscreen") THEN Quiet
                ELSE IF IsOk(p.window) THEN FullscreenKnownMonitor(c, Value(p.window), width, height)
                ELSE FullscreenUnknownMonitor(c, Monitors(p), width, height)

-----------------------------------------------------------------------------
(* Rules about the system.                                                 *)

EnhancePointerPrecision(p) ==
    IF ~AccelerationOn(Value(p.mouse)) THEN Quiet
    ELSE ReportFinding("sys.mouse.enhance_pointer_precision", 0, TRUE,
             {Windows("speed", Num(Value(p.mouse).precision)),
              Windows("threshold1", Num(Value(p.mouse).thresholds[1])),
              Windows("threshold2", Num(Value(p.mouse).thresholds[2]))},
             {Windows(value, Num(0)) : value \in {"speed", "threshold1", "threshold2"}})

SensitivityNotch(p) ==
    IF Value(p.mouse).sensitivity = 10 THEN Quiet
    ELSE ReportFinding("sys.mouse.sensitivity_not_one_to_one", 1, FALSE,
             {Windows("sensitivity", Num(Value(p.mouse).sensitivity))}, {Windows("sensitivity", Num(10))})

ShiftKeys == {Text("LeftShift"), Text("RightShift"), Text("Shift"), Text("ShiftKey")}

\* Whether the feature is off is written down and never looked at.
SmokeKeyTriggersStickyKeys(c, p) ==
    IF ~HotkeyArmed(Value(p.a11y), "sticky") \/ ~(\E k \in Bindings(c) : Get(c, k) \in ShiftKeys)
    THEN Quiet
    ELSE ReportFinding("sys.a11y.shift_binding_triggers_sticky_keys", 1, TRUE,
             {Windows("sticky", Text("armed"))}, {Windows("sticky", Text("disarmed"))})

OtherAccessibilityHotkeys(p) ==
    All({IF HotkeyArmed(Value(p.a11y), row[1])
         THEN ReportFinding(row[2], 2, TRUE, {Windows(row[1], Text("armed"))}, {Windows(row[1], Text("disarmed"))})
         ELSE Quiet
         : row \in {<<"filter", "sys.a11y.filterkeys_hotkey">>, <<"toggle", "sys.a11y.togglekeys_hotkey">>}})

PowerPlan(p) ==
    IF ~MayThrottle(Value(p.power)) THEN Quiet
    ELSE ReportFinding("sys.power.throttling_scheme", 1, FALSE, {Windows("power", Text(Value(p.power)))},
             {Windows("power", Text("high_performance"))})

\* One millisecond is 10 000 units.
CoarseTimer(p) ==
    IF Value(p.timer) <= 10000 THEN Quiet
    ELSE ReportFinding("sys.timer.resolution_coarse", 2, TRUE, {Windows("timer", Num(Value(p.timer)))}, {})

GameMode(p) ==
    IF TRUE \notin Value(p.gamebar).mode THEN Quiet
    ELSE ReportFinding("sys.win.game_mode_on", 2, FALSE, {Windows("game mode", Text("on"))}, {})

\* The flag is added to what is there.
FullscreenOptimizations(p) ==
    LET raw == UNION Value(p.fso) IN
    IF FsoDisabled(Value(p.fso)) THEN Quiet
    ELSE ReportFinding("sys.win.fso_not_disabled", 1, FALSE, {Windows("layers", <<"flags", raw>>)},
             {Windows("layers", <<"flags", raw \cup {"DISABLEDXMAXIMIZEDWINDOWEDMODE"}>>)})

\* Mutant: the note is left out while the window is somewhere to be seen.
OsuRunningUnseen(p) ==
    IF ~Value(p.process).running \/ IsOk(p.window) THEN Quiet
    ELSE ReportFinding("sys.process.osu_running", 2, TRUE, {Windows("osu!", Text("running"))}, {})

OsuRunning(p) ==
    IF ~Value(p.process).running THEN Quiet
    ELSE ReportFinding("sys.process.osu_running", 2, TRUE, {Windows("osu!", Text("running"))}, {})

-----------------------------------------------------------------------------
(* Rules about the audio endpoint. The names are compared by whether one   *)
(* contains the other: `names' tells which do.                             *)

DeviceMismatch(c, p) ==
    LET configured == Get(c, "AudioDevice")
        endpoint == Value(p.audio)
    IN  CASE StrFails(c, "AudioDevice") -> Raises
          [] ~StrFails(c, "AudioDevice") /\ (~Given(c, "AudioDevice") \/ ~endpoint.named) -> Quiet
          [] OTHER -> IF configured = endpoint.name THEN Quiet
                      ELSE ReportFinding("sys.audio.device_missing", 2, TRUE, AsIs(c, {"AudioDevice"}), {})

NoLowLatencyShared(p) ==
    IF ~Value(p.audio).period \/ Value(p.audio).minimum < Value(p.audio).default THEN Quiet
    ELSE ReportFinding("sys.audio.no_low_latency_shared", 2, TRUE, {Windows("period", Num(Value(p.audio).default))}, {})

-----------------------------------------------------------------------------
(* The registry.                                                           *)

ConfigOnlyRules ==
    [r \in {"cfg.keybind.duplicate_live", "cfg.frame.custom_limit_inert", "cfg.frame.vsync_latency",
            "cfg.mouse.raw_input_off", "cfg.mouse.speed_not_unity", "cfg.audio.compatibility_mode"}
     |-> {}]
DisplayRules ==
    [r \in {"sys.display.refreshrate", "sys.display.fullscreen_resolution"} |-> {"displays"}]
SystemRules ==
    [r \in {"sys.mouse.enhance_pointer_precision", "sys.mouse.sensitivity_not_one_to_one",
            "sys.a11y.shift_binding_triggers_sticky_keys", "sys.a11y.other_hotkeys",
            "sys.power.throttling_scheme", "sys.timer.resolution_coarse", "sys.win.game_mode_on",
            "sys.win.fso_not_disabled", "sys.process.osu_running"}
     |-> CASE r = "sys.power.throttling_scheme" -> {"power"}
           [] r = "sys.timer.resolution_coarse" -> {"timer"}
           [] r = "sys.win.game_mode_on" -> {"gamebar"}
           [] r = "sys.win.fso_not_disabled" -> {"fso"}
           [] r = "sys.process.osu_running" -> {"process"}
           [] r \in {"sys.mouse.enhance_pointer_precision", "sys.mouse.sensitivity_not_one_to_one"}
                -> {"mouse"}
           [] OTHER -> {"a11y"}]
AudioRules ==
    [r \in {"sys.audio.device_missing", "sys.audio.no_low_latency_shared"} |-> {"audio"}]

AllRules ==
    [r \in DOMAIN ConfigOnlyRules \cup DOMAIN DisplayRules \cup DOMAIN SystemRules \cup DOMAIN AudioRules
     |-> CASE r \in DOMAIN ConfigOnlyRules -> ConfigOnlyRules[r]
           [] r \in DOMAIN DisplayRules -> DisplayRules[r]
           [] r \in DOMAIN SystemRules -> SystemRules[r]
           [] r \in DOMAIN AudioRules -> AudioRules[r]]

\* A rule that asks for a value the probe does not have raises.
Require(r, p) == \A probe \in AllRules[r] : probe \in DOMAIN p /\ IsOk(p[probe])

Evaluate(r, c, p) ==
    IF ~Require(r, p) THEN Raises ELSE
    CASE r = "cfg.keybind.duplicate_live" -> DuplicateLiveBindings(c)
      [] r = "cfg.frame.custom_limit_inert" -> CustomFrameLimitInert(c)
      [] r = "cfg.frame.vsync_latency" -> VsyncLatency(c)
      [] r = "cfg.mouse.raw_input_off" -> RawInputDisabled(c)
      [] r = "cfg.mouse.speed_not_unity" -> MouseSpeedNotUnity(c)
      [] r = "cfg.audio.compatibility_mode" -> CompatibilityMode(c)
      [] r = "sys.display.refreshrate" -> RefreshRate(c, p)
      [] r = "sys.display.fullscreen_resolution" -> FullscreenResolution(c, p)
      [] r = "sys.mouse.enhance_pointer_precision" -> EnhancePointerPrecision(p)
      [] r = "sys.mouse.sensitivity_not_one_to_one" -> SensitivityNotch(p)
      [] r = "sys.a11y.shift_binding_triggers_sticky_keys" -> SmokeKeyTriggersStickyKeys(c, p)
      [] r = "sys.a11y.other_hotkeys" -> OtherAccessibilityHotkeys(p)
      [] r = "sys.power.throttling_scheme" -> PowerPlan(p)
      [] r = "sys.timer.resolution_coarse" -> CoarseTimer(p)
      [] r = "sys.win.game_mode_on" -> GameMode(p)
      [] r = "sys.win.fso_not_disabled" -> FullscreenOptimizations(p)
      [] r = "sys.process.osu_running" -> OsuRunning(p)
      [] r = "sys.audio.device_missing" -> DeviceMismatch(c, p)
      [] r = "sys.audio.no_low_latency_shared" -> NoLowLatencyShared(p)

-----------------------------------------------------------------------------
(* The engine. Every finding is reported with the rule it came from.       *)

\* Mutant: only a probe that did not run is missing.
MissingNotRun(needed, p) == {probe \in needed : probe \notin DOMAIN p}

Missing(needed, p) == {probe \in needed : probe \notin DOMAIN p \/ ~IsOk(p[probe])}

By(r, found) == {[rule |-> r, finding |-> f] : f \in found}
Skipped == [id |-> "skipped", severity |-> 2, fact |-> TRUE, current |-> {}, advice |-> {}]
Crashed == [id |-> "error", severity |-> 1, fact |-> TRUE, current |-> {}, advice |-> {}]

\* Mutant: a rule that could not run is passed over.
RunRulesSilently(rules, c, p) ==
    UNION {CASE Missing(rules[r], p) # {} -> {}
             [] Missing(rules[r], p) = {} /\ Evaluate(r, c, p).raises -> By(r, {Crashed})
             [] OTHER -> By(r, Evaluate(r, c, p).found)
           : r \in DOMAIN rules}

RunRules(rules, c, p) ==
    UNION {CASE Missing(rules[r], p) # {} -> By(r, {Skipped})
             [] Missing(rules[r], p) = {} /\ Evaluate(r, c, p).raises -> By(r, {Crashed})
             [] OTHER -> By(r, Evaluate(r, c, p).found)
           : r \in DOMAIN rules}
=============================================================================
