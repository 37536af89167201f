------------------------------ MODULE MCDoctor ------------------------------
(* Scenarios for forge doctor: a machine with nothing to report, and the     *)
(* ways in which one group of its settings at a time differs.                *)
EXTENDS Doctor

Lines(settings) == [i \in DOMAIN settings |-> RawEntry(settings[i][1], settings[i][2])]
Comment(k, v) == [RawEntry(k, v) EXCEPT !.hash = TRUE]

Here == [explicit |-> "none", env |-> "none", override |-> "none", usual |-> <<"local", "games">>,
         cfgs |-> [games |-> {"mine", "other"}], files |-> {"copy"}]

Small == [name |-> "1", attached |-> TRUE, settings |-> TRUE, width |-> 1080, height |-> 720,
          hz |-> 144, x |-> 0]
Large == [name |-> "2", attached |-> TRUE, settings |-> TRUE, width |-> 1440, height |-> 960,
          hz |-> 240, x |-> 1080]

PlainMouse == [sensitivity |-> Num(10), speed |-> Num(0), threshold1 |-> Absent, threshold2 |-> Num(0)]
Quiescent ==
    [adapters |-> Answers(<<Small, Large>>), psutil |-> "installed", mouse |-> Answers(PlainMouse),
     a11y |-> Answers([s \in {"sticky", "filter", "toggle"} |-> Answers({})]),
     timer |-> Answers(5000), power |-> Answers("other"), gameMode |-> Num(0),
     layers |-> Answers([install |-> {"DISABLEDXMAXIMIZEDWINDOWEDMODE"}]),
     com |-> {"other"}, comCallsFail |-> FALSE,
     audio |-> [minimum |-> 128, default |-> 480, name |-> Text("headset")]]

AllArgs == [noProbes |-> FALSE, onlyFacts |-> FALSE, severity |-> 2, failOn |-> 0]
Base == [args |-> AllArgs, places |-> Here, machine |-> Quiescent, files |-> [mine |-> <<>>, copy |-> <<>>],
         running |-> FALSE, window |-> Fails, moves |-> 0]

With(settings) == [Base EXCEPT !.files["mine"] = Lines(settings)]

\* One value of the configuration at a time.
ConfigOnly ==
    {[With(<<<<k, v>>>>) EXCEPT !.args.noProbes = TRUE] :
        k \in {"RawInput", "AudioCompatibility"}, v \in {Num(0), Num(1), Num(2), Text("true"), Text("")}}
    \cup {[With(<<<<"MouseSpeed", v>>>>) EXCEPT !.args.noProbes = TRUE] :
        v \in {Num(1), Tenths(13), Tenths(3), Tenths(64), Text("fast")}}
    \cup {[With(<<<<"FrameSync", s>>, <<"CustomFrameLimit", n>>>>) EXCEPT !.args.noProbes = TRUE] :
        s \in {Text("Custom"), Text("VSync"), Text("Optimal")}, n \in {Num(240), Tenths(2405), Text("none"), Text("")}}
    \cup {[Base EXCEPT !.files["mine"] = <<Comment("RawInput", Num(0))>> \o Lines(<<<<"RawInput", Num(1)>>>>)],
          With(<<<<"RawInput", Num(0)>>, <<"RawInput", Num(1)>>, <<"Password", Text("secret")>>>>)}

Keys4 == <<"keyQuickRetry", "keyPause", "keyOsuSmoke", "keyFruitsDash">>
BindingValues == {Text("OemTilde"), Text("F1"), Text("LeftShift"), Text("None")}
Bindings4 ==
    {[With([i \in 1..4 |-> <<Keys4[i], b[i]>>]) EXCEPT !.args.noProbes = TRUE] :
        b \in [1..4 -> BindingValues]}

Refresh ==
    {With(<<<<"RefreshRate", r>>, <<"OverrideRefreshRate", o>>>>) :
        r \in {Num(60), Num(142), Num(141), Tenths(1439), Text("144 Hz")}, o \in {Num(0), Num(1), Text("")}}

\* With every monitor attached, detached or failing, and osu! somewhere.
PlacesOfTheWindow == {Fails, RaisesOSError, Answers(0), Answers(1080), Answers(500)}
Fullscreen ==
    {[With(<<<<"Fullscreen", f>>, <<"WidthFullscreen", s[1]>>, <<"HeightFullscreen", s[2]>>>>)
        EXCEPT !.running = TRUE, !.window = w] :
        f \in {Num(0), Num(1), Text("yes")}, w \in PlacesOfTheWindow,
        s \in {<<Num(1080), Num(720)>>, <<Num(1440), Num(960)>>, <<Num(640), Num(480)>>,
               <<Num(640), Text("")>>, <<Text("wide"), Num(480)>>}}
Screens ==
    {[With(<<<<"Fullscreen", Num(1)>>, <<"WidthFullscreen", Num(1080)>>, <<"HeightFullscreen", Num(720)>>,
             <<"RefreshRate", Num(60)>>>>) EXCEPT !.machine.adapters = a] :
        a \in {RaisesOSError, Answers(<<>>), Answers(<<Small>>), Answers(<<Small, Large>>),
               Answers(<<[Small EXCEPT !.attached = FALSE], Large>>),
               Answers(<<[Small EXCEPT !.settings = FALSE]>>),
               Answers(<<Small, [Large EXCEPT !.settings = FALSE]>>)}}

\* Nothing is to be read but the file, and that has one thing to change.
Silent ==
    [adapters |-> RaisesOSError, psutil |-> "missing", mouse |-> RaisesOSError, a11y |-> RaisesOSError,
     timer |-> Fails, power |-> Fails, gameMode |-> <<"denied">>, layers |-> RaisesOSError,
     com |-> {"other"}, comCallsFail |-> TRUE,
     audio |-> [minimum |-> 128, default |-> 480, name |-> Text("headset")]]
SilentMachine == [With(<<<<"RawInput", Num(0)>>>>) EXCEPT !.machine = Silent]

\* The registry and the system calls.
Systems ==
    {[Base EXCEPT !.machine.mouse = m] :
        m \in {RaisesOSError} \cup
              {Answers(k) : k \in {[PlainMouse EXCEPT !.speed = Num(1)], [PlainMouse EXCEPT !.threshold1 = Num(6)],
                                  [PlainMouse EXCEPT !.sensitivity = Num(9)], [PlainMouse EXCEPT !.speed = Text("?")]}}}
    \cup {[With(<<<<"keyOsuSmoke", b>>>>) EXCEPT !.machine.a11y = a] :
        b \in {Text("LeftShift"), Text("C")},
        a \in {RaisesOSError} \cup
              {Answers(f) : f \in [{"sticky", "filter", "toggle"} ->
                                     {Answers({"hotkey"}), Answers({"on", "hotkey"}), Fails}]}}
    \cup {[Base EXCEPT !.machine.timer = t] :
        t \in {RaisesOSError, Fails, Answers(10000), Answers(10001)}}
    \cup {[Base EXCEPT !.machine.power = w] :
        w \in {RaisesOSError, Fails, Answers("balanced"), Answers("power_saver")}}
    \cup {[Base EXCEPT !.machine.gameMode = g] : g \in {Num(1), Absent, <<"denied">>}}
    \cup {[Base EXCEPT !.machine.layers = f, !.places.explicit = e] :
        e \in {"none", "copy"},
        f \in {RaisesOSError, Answers(<<>>), Answers([install |-> {}]), Answers([install |-> {"~"}])}}
    \cup {[Base EXCEPT !.machine.psutil = u] : u \in {"missing", "raises"}}

Audio ==
    {[With(<<<<"AudioDevice", d>>>>)
        EXCEPT !.machine.com = {"S_OK", "S_FALSE", "RPC_E_CHANGED_MODE", "other"},
               !.machine.comCallsFail = TRUE, !.machine.audio.minimum = m] :
        d \in {Text("headset"), Text("speakers"), Text("")}, m \in {128, 480}}

\* osu! starts and exits in between, with its settings in memory.
Racing ==
    {[With(<<<<"RawInput", Num(0)>>>>) EXCEPT !.running = r, !.moves = 3, !.window = Answers(0),
                                             !.machine.psutil = u, !.places.explicit = e] :
        r \in BOOLEAN, u \in {"installed", "missing"}, e \in {"none", "copy"}}

\* Filters, and configurations that are not there.
Arguments ==
    {[With(<<<<"RawInput", Num(0)>>, <<"MouseSpeed", Num(9)>>, <<"FrameSync", Text("VSync")>>>>)
        EXCEPT !.args = [noProbes |-> TRUE, onlyFacts |-> f, severity |-> s, failOn |-> n]] :
        f \in BOOLEAN, s \in 0..2, n \in 0..2}
    \cup {[Base EXCEPT !.places = p] :
        p \in {[Here EXCEPT !.explicit = "gone"], [Here EXCEPT !.env = "copy"],
               [Here EXCEPT !.override = "empty"], [Here EXCEPT !.usual = <<>>]}}

MCScenarios ==
    {Base, SilentMachine} \cup ConfigOnly \cup Bindings4 \cup Refresh \cup Fullscreen \cup Screens \cup Systems \cup Audio
    \cup Racing \cup Arguments
=============================================================================
