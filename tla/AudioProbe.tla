----------------------------- MODULE AudioProbe -----------------------------
(***************************************************************************)
(* probe_audio_endpoint: a sequence of COM calls. Some failures raise,     *)
(* some are an answer, and every interface or buffer that was handed out   *)
(* has to be given back on each of the ways out, in the reverse order.     *)
(*                                                                         *)
(* A call is a step. A step that fails by raising, or with an answer that  *)
(* ends the probe, unwinds through the `finally' clauses that cover it; an *)
(* answer that only leaves something out skips a stretch of calls.         *)
(***************************************************************************)
EXTENDS Integers, Sequences, FiniteSets, TLC

VARIABLES at, held, com, unwinding, outcome, endpoint

audioVars == <<at, held, com, unwinding, outcome, endpoint>>

\* What a failing call does: raise, give up with a reason, or skip to the
\* step that is named.
Raise == "raise"
GiveUp == "unavailable"
Skips == "skip"
Nothing == "nothing"

Call(name, gets, fails, skipTo) ==
    [call |-> name, gets |-> gets, fails |-> fails, skipTo |-> skipTo]
Release(what) == [call |-> "release", gets |-> what, fails |-> "never", skipTo |-> Nothing]

\* The calls in their order. An identifier is a text that has to be freed.
DefaultEndpoint(name, gets, fails, otherwise) == <<Call(name, gets, fails, otherwise)>>
DeviceId(name) == <<Call(name, "id_text", Raise, Nothing), Release("id_text")>>

Property(guid, name, otherwise) ==
    <<Call(guid, Nothing, Raise, Nothing), Call(name, "variant", Skips, otherwise), Release("variant")>>

EndpointProperties ==
    <<Call("OpenPropertyStore", "store", Skips, "client_guid")>>
    \o Property("first_guid", "friendly_name", "second_guid")
    \o Property("second_guid", "enumerator_name", "third_guid")
    \o Property("third_guid", "form_factor", "properties")
    \o <<Call("properties", Nothing, "never", Nothing), Release("store")>>

ReadEndpoint ==
    <<Call("CoCreateInstance", "enumerator", Raise, Nothing)>>
    \o DefaultEndpoint("console_endpoint", "device", GiveUp, Nothing)
    \o DeviceId("device_id")
    \o DefaultEndpoint("multimedia_endpoint", "multimedia", Skips, "OpenPropertyStore")
    \o DeviceId("multimedia_id")
    \o <<Release("multimedia")>>
    \o EndpointProperties

Measure ==
    <<Call("client_guid", Nothing, Raise, Nothing),
      Call("Activate", "client", GiveUp, Nothing),
      Call("GetDevicePeriod", Nothing, Raise, Nothing),
      Call("GetMixFormat", "mix", Raise, Nothing)>>
DeviceState == <<Call("GetState", Nothing, Raise, Nothing)>>

CurrentEngineFrames ==
    <<Call("GetCurrentSharedModeEnginePeriod", "format", Skips, "period"), Release("format")>>

EnginePeriod ==
    <<Call("client3_guid", Nothing, Raise, Nothing),
      Call("QueryInterface_client3", "client3", Skips, "endpoint"),
      Call("GetSharedModeEnginePeriod", Nothing, Skips, "no_period")>>
    \o CurrentEngineFrames
    \o <<Call("period", Nothing, "never", Nothing), Call("no_period", Nothing, "never", Nothing), Release("client3")>>

GivenBackAtTheEnd ==
    <<Call("endpoint", Nothing, "never", Nothing), Release("mix"), Release("client"), Release("device"),
      Release("enumerator")>>

Program == ReadEndpoint \o Measure \o DeviceState \o EnginePeriod \o GivenBackAtTheEnd
StepNamed(name) == CHOOSE i \in DOMAIN Program : Program[i].call = name

\* Mutant: the audio client is given back only when nothing raises.
FinallyButClient ==
    [r \in {"enumerator", "device", "mix", "client3", "multimedia", "store"} |->
        CASE r = "multimedia" -> "multimedia_id"
          [] r = "store" -> "properties"
          [] OTHER -> "GetCurrentSharedModeEnginePeriod"]

\* The `finally' clauses: what each gives back, and the last call it covers.
Finally ==
    [r \in {"enumerator", "device", "client", "mix", "client3", "multimedia", "store"} |->
        CASE r = "multimedia" -> "multimedia_id"
          [] r = "store" -> "properties"
          [] OTHER -> "GetCurrentSharedModeEnginePeriod"]

Covered(r) == r \in DOMAIN Finally /\ at <= StepNamed(Finally[r])

-----------------------------------------------------------------------------
Unread == [period |-> FALSE, current |-> FALSE, sameDevice |-> FALSE, named |-> FALSE]

AudioInit ==
    /\ at = 0
    /\ held = <<>>
    /\ com = "none"
    /\ unwinding = FALSE
    /\ outcome = "none"
    /\ endpoint = Unread

\* Another run of the tool.
AudioRestart ==
    /\ at' = 0
    /\ held' = <<>>
    /\ com' = "none"
    /\ unwinding' = FALSE
    /\ outcome' = "none"
    /\ endpoint' = Unread

\* Three of its answers leave the thread with usable COM, two of them ours
\* to undo.
CoInitializeEx(answer) ==
    /\ at = 0 /\ outcome = "none"
    /\ \/ answer \in {"S_OK", "S_FALSE"} /\ com' = "ours" /\ at' = 1 /\ UNCHANGED outcome
       \/ answer = "RPC_E_CHANGED_MODE" /\ com' = "theirs" /\ at' = 1 /\ UNCHANGED outcome
       \/ answer = "other" /\ outcome' = "error" /\ UNCHANGED <<com, at>>
    /\ UNCHANGED <<held, unwinding, endpoint>>

Running == at \in DOMAIN Program /\ ~unwinding
Now == Program[at]

\* What the endpoint says once the step has succeeded.
Describe ==
    endpoint' = CASE Now.call = "multimedia_id" -> [endpoint EXCEPT !.sameDevice = TRUE]
                  [] Now.call = "friendly_name" -> [endpoint EXCEPT !.named = TRUE]
                  [] Now.call = "GetSharedModeEnginePeriod" -> [endpoint EXCEPT !.period = TRUE]
                  [] Now.call = "GetCurrentSharedModeEnginePeriod" -> [endpoint EXCEPT !.current = TRUE]
                  [] OTHER -> endpoint

GivenBack(i) == SubSeq(held, 1, i - 1) \o SubSeq(held, i + 1, Len(held))

Succeed ==
    /\ Running
    /\ held' = IF Now.call = "release"
               THEN GivenBack(CHOOSE i \in DOMAIN held : held[i] = Now.gets)
               ELSE IF Now.gets # Nothing THEN Append(held, Now.gets) ELSE held
    /\ at' = at + 1
    /\ Describe
    /\ UNCHANGED <<com, unwinding, outcome>>

Fail ==
    /\ Running /\ Now.fails # "never"
    /\ \/ /\ Now.fails = Skips
          /\ at' = StepNamed(Now.skipTo)
          /\ UNCHANGED <<unwinding, outcome>>
       \/ /\ Now.fails = Raise
          /\ unwinding' = TRUE /\ outcome' = "error"
          /\ UNCHANGED at
       \/ /\ Now.fails = GiveUp
          /\ unwinding' = TRUE /\ outcome' = "unavailable"
          /\ UNCHANGED at
    /\ UNCHANGED <<held, com, endpoint>>

\* The innermost clause that covers the call runs first.
Unwind ==
    /\ unwinding
    /\ \E i \in DOMAIN held :
          /\ Covered(held[i])
          /\ \A j \in DOMAIN held : j > i => ~Covered(held[j])
          /\ held' = GivenBack(i)
    /\ UNCHANGED <<at, com, unwinding, outcome, endpoint>>

\* The outermost clause, and the result that is returned behind it.
Leave ==
    /\ \/ unwinding /\ (\A i \in DOMAIN held : ~Covered(held[i]))
       \/ at = Len(Program) + 1
    /\ com \in {"ours", "theirs"}
    /\ com' = IF com = "ours" THEN "none" ELSE com
    /\ outcome' = IF outcome = "none" THEN "ok" ELSE outcome
    /\ at' = 0
    /\ unwinding' = FALSE
    /\ UNCHANGED <<held, endpoint>>

AudioDone == outcome # "none" /\ ~unwinding /\ at = 0

Unwinds == Unwind \/ Leave

-----------------------------------------------------------------------------
\* However the probe ends, every interface and buffer it was handed has been
\* given back, and COM is uninitialised exactly when this probe entered it.
\* While COM is being left nothing is held any more.
EverythingIsGivenBack ==
    /\ AudioDone => held = <<>> /\ com # "ours"
    /\ com = "none" => held = <<>>
=============================================================================
