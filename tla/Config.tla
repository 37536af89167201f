------------------------------- MODULE Config -------------------------------
(***************************************************************************)
(* osu!'s configuration file: where it is found, how it is parsed, what    *)
(* the typed readers make of a value, and which key bindings conflict.     *)
(*                                                                         *)
(* A value is a tagged tuple: a whole number, a number of tenths, a text,  *)
(* a credential that was replaced, or nothing.                             *)
(***************************************************************************)
EXTENDS Integers, Sequences, FiniteSets

Absent == <<"absent">>
Hidden == <<"hidden">>
Num(n) == <<"num", n>>
Tenths(n) == <<"dec", n>>
Text(s) == <<"text", s>>

\* Names of credentials: the exact ones, and two the pattern matches.
Credentials ==
    {"Password", "Token", "RefreshToken", "AccessToken", "CredentialEndpoint",
     "api_key", "SessionCookie"}

Redact(key, value) == IF key \in Credentials THEN Hidden ELSE value

\* A raw line is what the parser looks at: its first character, whether it
\* is blank, whether it has a separator, and what is on either side of it.
RawEntry(k, v) == [hash |-> FALSE, blank |-> FALSE, sep |-> TRUE, key |-> k, value |-> v]

Parse(lines) ==
    [i \in DOMAIN lines |->
        LET l == lines[i] IN
        CASE l.hash  -> [kind |-> "comment"]
          [] ~l.hash /\ l.blank -> [kind |-> "blank"]
          [] ~l.hash /\ ~l.blank /\ ~l.sep -> [kind |-> "unknown"]
          [] OTHER -> [kind |-> "entry", key |-> l.key, value |-> Redact(l.key, l.value)]]

-----------------------------------------------------------------------------
(* Reading. The last entry of a key wins.                                  *)

LinesOf(c, k) == {i \in DOMAIN c : c[i].kind = "entry" /\ c[i].key = k}
Keys(c) == {c[i].key : i \in {j \in DOMAIN c : c[j].kind = "entry"}}
LastLine(c, k) == CHOOSE i \in LinesOf(c, k) : \A j \in LinesOf(c, k) : j <= i
Get(c, k) == IF k \in Keys(c) THEN c[LastLine(c, k)].value ELSE Absent

Given(c, k) == Get(c, k) \notin {Absent, Text("")}
BoolFails(c, k) == Get(c, k) \notin {Absent, Num(0), Num(1)}
IntFails(c, k) == Given(c, k) /\ Get(c, k)[1] # "num"
FloatFails(c, k) == Given(c, k) /\ Get(c, k)[1] \notin {"num", "dec"}
StrFails(c, k) == Get(c, k) = Hidden

On(c, k) == Get(c, k) = Num(1)
IntOf(c, k) == Get(c, k)[2]
TenthsOf(c, k) == IF Get(c, k)[1] = "num" THEN 10 * Get(c, k)[2] ELSE Get(c, k)[2]

-----------------------------------------------------------------------------
(* Key bindings and where they are live.                                   *)

AllPlay == {"play:osu", "play:taiko", "play:fruits", "play:mania"}
Everywhere == AllPlay \cup {"editor", "modselect"}

\* The table by groups. The families of the patterns have a few members each.
KeysLiveIn ==
    {<<Everywhere, {"keyScreenshot", "keyBossKey", "keyToggleFrameLimiter",
                    "keyIncreaseVolume", "keyDecreaseVolume"}>>,
     <<AllPlay, {"keySkip", "keyQuickRetry", "keyPause", "keyToggleChat",
                 "keyToggleScoreboard", "keyIncreaseAudioOffset",
                 "keyDecreaseAudioOffset", "keyDisableMouseButtons"}>>,
     <<{"play:osu"}, {"keyOsuLeft", "keyOsuRight", "keyOsuSmoke"}>>,
     <<{"play:taiko"}, {"keyTaikoInnerLeft", "keyTaikoInnerRight",
                        "keyTaikoOuterLeft", "keyTaikoOuterRight"}>>,
     <<{"play:fruits"}, {"keyFruitsLeft", "keyFruitsRight", "keyFruitsDash"}>>}

FamiliesLiveIn ==
    {<<{"play:mania"}, {"keyMania4K1", "keyMania7K3"}>>,
     <<{"modselect"}, {"keyEasy", "keyNoFail", "keyHardRock", "keySuddenDeath", "keyHidden"}>>,
     <<{"editor"}, {"keyNudgeLeft", "keyJumpToBegin", "keyClone", "keyReverse"}>>}

ScopeTable == KeysLiveIn \cup FamiliesLiveIn
KnownKeys == UNION {row[2] : row \in ScopeTable}
ScopesFor == [k \in KnownKeys |-> (CHOOSE row \in ScopeTable : k \in row[2])[1]]

\* Keys that look like bindings but are in no table are left out.
UnknownBindings == {"keyNotInTheTable"}
Bindings(c) ==
    {k \in Keys(c) \cap (KnownKeys \cup UnknownBindings) : Get(c, k) # Hidden}
Bound(c, k) == Get(c, k) \notin {Text("None"), Text("")}

Overlap(j, k) == ScopesFor[j] \cap ScopesFor[k]

Conflicts(c) ==
    LET candidates == {k \in Bindings(c) \cap KnownKeys : Bound(c, k)}
        Group(v) == {k \in candidates : Get(c, k) = v}
        Clash(v) == {k \in Group(v) : \E j \in Group(v) \ {k} : Overlap(j, k) # {}}
    IN  {[value |-> v, keys |-> Clash(v)] :
            v \in {w \in {Get(c, k) : k \in candidates} : Clash(w) # {}}}

\* The first of the keys as the file has them.
FirstInFile(c, keys) ==
    CHOOSE k \in keys : \A j \in keys : LastLine(c, k) <= LastLine(c, j)

-----------------------------------------------------------------------------
(* Discovery. `places' says what --config and the environment name, and    *)
(* which directories exist with which configurations in them.              *)

InstallDirs(places) == IF places.override # "none" THEN <<places.override>> ELSE places.usual

FindInstall(places) ==
    LET dirs == InstallDirs(places)
        real == {i \in DOMAIN dirs : dirs[i] \in DOMAIN places.cfgs /\ places.cfgs[dirs[i]] # {}}
    IN  IF real = {} THEN "none" ELSE dirs[CHOOSE i \in real : \A j \in real : i <= j]

\* The user's own file first, then any other of the directory.
FindConfig(places) ==
    LET install == FindInstall(places) IN
    CASE places.explicit # "none" -> IF places.explicit \in places.files
                                     THEN {places.explicit} ELSE {}
      [] places.explicit = "none" /\ places.env # "none" ->
             IF places.env \in places.files THEN {places.env} ELSE {}
      [] OTHER -> IF install = "none" THEN {}
                  ELSE IF "mine" \in places.cfgs[install] THEN {"mine"}
                  ELSE {CHOOSE f \in places.cfgs[install] : TRUE}
=============================================================================
