---------------------------- MODULE DoctorProofs ----------------------------
(***************************************************************************)
(* forge doctor, for any machines, files and arguments to start from.      *)
(***************************************************************************)
EXTENDS Doctor, TLAPS, FiniteSetTheorems, SequenceTheorems, WellFoundedInduction

-----------------------------------------------------------------------------
(* The audio probe.                                                        *)

\* The calls of the program, one by one.
LEMMA FirstCalls ==
    /\ Program[1] = Call("CoCreateInstance", "enumerator", Raise, Nothing)
    /\ Program[2] = Call("console_endpoint", "device", GiveUp, Nothing)
    /\ Program[3] = Call("device_id", "id_text", Raise, Nothing)
    /\ Program[4] = Release("id_text")
    /\ Program[5] = Call("multimedia_endpoint", "multimedia", Skips, "OpenPropertyStore")
    /\ Program[6] = Call("multimedia_id", "id_text", Raise, Nothing)
    /\ Program[7] = Release("id_text")
    /\ Program[8] = Release("multimedia")
  BY DEF Program, ReadEndpoint, DefaultEndpoint, DeviceId, EndpointProperties, Property,
         Measure, DeviceState, EnginePeriod, CurrentEngineFrames, GivenBackAtTheEnd

LEMMA PropertyCalls ==
    /\ Program[9] = Call("OpenPropertyStore", "store", Skips, "client_guid")
    /\ Program[10] = Call("first_guid", Nothing, Raise, Nothing)
    /\ Program[11] = Call("friendly_name", "variant", Skips, "second_guid")
    /\ Program[12] = Release("variant")
    /\ Program[13] = Call("second_guid", Nothing, Raise, Nothing)
    /\ Program[14] = Call("enumerator_name", "variant", Skips, "third_guid")
    /\ Program[15] = Release("variant")
    /\ Program[16] = Call("third_guid", Nothing, Raise, Nothing)
    /\ Program[17] = Call("form_factor", "variant", Skips, "properties")
    /\ Program[18] = Release("variant")
    /\ Program[19] = Call("properties", Nothing, "never", Nothing)
    /\ Program[20] = Release("store")
  BY DEF Program, ReadEndpoint, DefaultEndpoint, DeviceId, EndpointProperties, Property,
         Measure, DeviceState, EnginePeriod, CurrentEngineFrames, GivenBackAtTheEnd

LEMMA LastCalls ==
    /\ Len(Program) = 38 /\ DOMAIN Program = 1..38
    /\ Program[21] = Call("client_guid", Nothing, Raise, Nothing)
    /\ Program[22] = Call("Activate", "client", GiveUp, Nothing)
    /\ Program[23] = Call("GetDevicePeriod", Nothing, Raise, Nothing)
    /\ Program[24] = Call("GetMixFormat", "mix", Raise, Nothing)
    /\ Program[25] = Call("GetState", Nothing, Raise, Nothing)
    /\ Program[26] = Call("client3_guid", Nothing, Raise, Nothing)
    /\ Program[27] = Call("QueryInterface_client3", "client3", Skips, "endpoint")
    /\ Program[28] = Call("GetSharedModeEnginePeriod", Nothing, Skips, "no_period")
    /\ Program[29] = Call("GetCurrentSharedModeEnginePeriod", "format", Skips, "period")
    /\ Program[30] = Release("format")
    /\ Program[31] = Call("period", Nothing, "never", Nothing)
    /\ Program[32] = Call("no_period", Nothing, "never", Nothing)
    /\ Program[33] = Release("client3")
    /\ Program[34] = Call("endpoint", Nothing, "never", Nothing)
    /\ Program[35] = Release("mix")
    /\ Program[36] = Release("client")
    /\ Program[37] = Release("device")
    /\ Program[38] = Release("enumerator")
  BY DEF Program, ReadEndpoint, DefaultEndpoint, DeviceId, EndpointProperties, Property,
         Measure, DeviceState, EnginePeriod, CurrentEngineFrames, GivenBackAtTheEnd

LEMMA Calls == \A k \in 1..38 :
    \/ k = 1 \/ k = 2 \/ k = 3 \/ k = 4 \/ k = 5 \/ k = 6 \/ k = 7 \/ k = 8 \/ k = 9 \/ k = 10
    \/ k = 11 \/ k = 12 \/ k = 13 \/ k = 14 \/ k = 15 \/ k = 16 \/ k = 17 \/ k = 18 \/ k = 19
    \/ k = 20 \/ k = 21 \/ k = 22 \/ k = 23 \/ k = 24 \/ k = 25 \/ k = 26 \/ k = 27 \/ k = 28
    \/ k = 29 \/ k = 30 \/ k = 31 \/ k = 32 \/ k = 33 \/ k = 34 \/ k = 35 \/ k = 36 \/ k = 37
    \/ k = 38
  OBVIOUS

\* The steps that a failure skips to or a clause covers are told by their names.
IsOnly(name, n) == \A k \in 1..38 : Program[k].call = name <=> k = n

LEMMA TheNamedStep ==
    ASSUME NEW name, NEW n \in 1..38, IsOnly(name, n)
    PROVE  StepNamed(name) = n
  BY LastCalls DEF StepNamed, IsOnly

LEMMA StepsAreNamed ==
    /\ StepNamed("multimedia_id") = 6
    /\ StepNamed("OpenPropertyStore") = 9
    /\ StepNamed("second_guid") = 13
    /\ StepNamed("third_guid") = 16
    /\ StepNamed("properties") = 19
    /\ StepNamed("client_guid") = 21
    /\ StepNamed("GetCurrentSharedModeEnginePeriod") = 29
    /\ StepNamed("period") = 31
    /\ StepNamed("no_period") = 32
    /\ StepNamed("endpoint") = 34
  <1> USE Calls, FirstCalls, PropertyCalls, LastCalls DEF Call, Release, IsOnly
  <1>1. IsOnly("multimedia_id", 6)
    OBVIOUS
  <1>2. IsOnly("OpenPropertyStore", 9)
    OBVIOUS
  <1>3. IsOnly("second_guid", 13)
    OBVIOUS
  <1>4. IsOnly("third_guid", 16)
    OBVIOUS
  <1>5. IsOnly("properties", 19)
    OBVIOUS
  <1>6. IsOnly("client_guid", 21)
    OBVIOUS
  <1>7. IsOnly("GetCurrentSharedModeEnginePeriod", 29)
    OBVIOUS
  <1>8. IsOnly("period", 31)
    OBVIOUS
  <1>9. IsOnly("no_period", 32)
    OBVIOUS
  <1>10. IsOnly("endpoint", 34)
    OBVIOUS
  <1> HIDE Calls, FirstCalls, PropertyCalls, LastCalls DEF IsOnly
  <1>11. QED
    BY <1>1, <1>2, <1>3, <1>4, <1>5, <1>6, <1>7, <1>8, <1>9, <1>10, TheNamedStep

\* The steps before which a thing is held, when all has gone well.
HeldBefore ==
    [enumerator |-> 2..38, device |-> 3..37, id_text |-> {4, 7}, multimedia |-> 6..8,
     store |-> 10..20, variant |-> {12, 15, 18}, client |-> 23..36, mix |-> 25..35,
     client3 |-> 28..33, format |-> {30}]
Things == DOMAIN HeldBefore
HeldAt(k) == {r \in Things : k \in HeldBefore[r]}

\* What the steps do to what is held.  A step that fails leaves what is held at
\* the step it skips to, or what the clauses that cover it give back.
Acquires(k) == /\ Program[k].call # "release"
               /\ Program[k].gets # Nothing => /\ Program[k].gets \in Things \ HeldAt(k)
                                               /\ HeldAt(k + 1) = HeldAt(k) \union {Program[k].gets}
               /\ Program[k].gets = Nothing => HeldAt(k + 1) = HeldAt(k)
GivesBack(k) == /\ Program[k].call = "release"
                /\ Program[k].gets \in HeldAt(k)
                /\ HeldAt(k + 1) = HeldAt(k) \ {Program[k].gets}
FailsWell(k) ==
    /\ Program[k].fails = Skips =>
         /\ StepNamed(Program[k].skipTo) \in 1..38
         /\ HeldAt(StepNamed(Program[k].skipTo)) = HeldAt(k)
    /\ Program[k].fails \in {Raise, GiveUp} =>
         \A r \in HeldAt(k) : r \in DOMAIN Finally /\ k <= StepNamed(Finally[r])

LEMMA ClausesAre ==
    /\ DOMAIN Finally = {"enumerator", "device", "client", "mix", "client3", "multimedia", "store"}
    /\ \A r \in {"enumerator", "device", "client", "mix", "client3"} : StepNamed(Finally[r]) = 29
    /\ StepNamed(Finally["multimedia"]) = 6
    /\ StepNamed(Finally["store"]) = 19
  BY StepsAreNamed DEF Finally

LEMMA LifetimesAre ==
    /\ Things = {"enumerator", "device", "id_text", "multimedia", "store", "variant", "client",
                 "mix", "client3", "format"}
    /\ HeldBefore["enumerator"] = 2..38 /\ HeldBefore["device"] = 3..37
    /\ HeldBefore["id_text"] = {4, 7} /\ HeldBefore["multimedia"] = 6..8
    /\ HeldBefore["store"] = 10..20 /\ HeldBefore["variant"] = {12, 15, 18}
    /\ HeldBefore["client"] = 23..36 /\ HeldBefore["mix"] = 25..35
    /\ HeldBefore["client3"] = 28..33 /\ HeldBefore["format"] = {30}
  BY DEF Things, HeldBefore

LEMMA EveryStepMoves ==
    \A k \in 1..38 : Acquires(k) \/ GivesBack(k)
  <1> USE LifetimesAre DEF Call, Release, Acquires, GivesBack, HeldAt, Nothing
  <1>1. Acquires(1)
    BY FirstCalls, SMTT(40)
  <1>2. Acquires(2)
    BY FirstCalls, SMTT(40)
  <1>3. Acquires(3)
    BY FirstCalls, SMTT(40)
  <1>4. GivesBack(4)
    BY FirstCalls, SMTT(40)
  <1>5. Acquires(5)
    BY FirstCalls, SMTT(40)
  <1>6. Acquires(6)
    BY FirstCalls, SMTT(40)
  <1>7. GivesBack(7)
    BY FirstCalls, SMTT(40)
  <1>8. GivesBack(8)
    BY FirstCalls, SMTT(40)
  <1>9. Acquires(9)
    BY PropertyCalls, SMTT(40)
  <1>10. Acquires(10)
    BY PropertyCalls, SMTT(40)
  <1>11. Acquires(11)
    BY PropertyCalls, SMTT(40)
  <1>12. GivesBack(12)
    BY PropertyCalls, SMTT(40)
  <1>13. Acquires(13)
    BY PropertyCalls, SMTT(40)
  <1>14. Acquires(14)
    BY PropertyCalls, SMTT(40)
  <1>15. GivesBack(15)
    BY PropertyCalls, SMTT(40)
  <1>16. Acquires(16)
    BY PropertyCalls, SMTT(40)
  <1>17. Acquires(17)
    BY PropertyCalls, SMTT(40)
  <1>18. GivesBack(18)
    BY PropertyCalls, SMTT(40)
  <1>19. Acquires(19)
    BY PropertyCalls, SMTT(40)
  <1>20. GivesBack(20)
    BY PropertyCalls, SMTT(40)
  <1>21. Acquires(21)
    BY LastCalls, SMTT(40)
  <1>22. Acquires(22)
    BY LastCalls, SMTT(40)
  <1>23. Acquires(23)
    BY LastCalls, SMTT(40)
  <1>24. Acquires(24)
    BY LastCalls, SMTT(40)
  <1>25. Acquires(25)
    BY LastCalls, SMTT(40)
  <1>26. Acquires(26)
    BY LastCalls, SMTT(40)
  <1>27. Acquires(27)
    BY LastCalls, SMTT(40)
  <1>28. Acquires(28)
    BY LastCalls, SMTT(40)
  <1>29. Acquires(29)
    BY LastCalls, SMTT(40)
  <1>30. GivesBack(30)
    BY LastCalls, SMTT(40)
  <1>31. Acquires(31)
    BY LastCalls, SMTT(40)
  <1>32. Acquires(32)
    BY LastCalls, SMTT(40)
  <1>33. GivesBack(33)
    BY LastCalls, SMTT(40)
  <1>34. Acquires(34)
    BY LastCalls, SMTT(40)
  <1>35. GivesBack(35)
    BY LastCalls, SMTT(40)
  <1>36. GivesBack(36)
    BY LastCalls, SMTT(40)
  <1>37. GivesBack(37)
    BY LastCalls, SMTT(40)
  <1>38. GivesBack(38)
    BY LastCalls, SMTT(40)
  <1> HIDE LifetimesAre DEF Acquires, GivesBack
  <1>39. QED
    BY Calls, <1>1, <1>2, <1>3, <1>4, <1>5, <1>6, <1>7, <1>8, <1>9, <1>10, <1>11, <1>12, <1>13, <1>14, <1>15, <1>16, <1>17, <1>18, <1>19, <1>20, <1>21, <1>22, <1>23, <1>24, <1>25, <1>26, <1>27, <1>28, <1>29, <1>30, <1>31, <1>32, <1>33, <1>34, <1>35, <1>36, <1>37, <1>38

LEMMA EveryFailureIsCovered ==
    \A k \in 1..38 : FailsWell(k)
  <1> USE LifetimesAre DEF Call, Release, FailsWell, HeldAt, Raise, GiveUp, Skips
  <1>1. FailsWell(1)
    BY FirstCalls, ClausesAre, SMTT(40)
  <1>2. FailsWell(2)
    BY FirstCalls, ClausesAre, SMTT(40)
  <1>3. FailsWell(3)
    BY FirstCalls, ClausesAre, SMTT(40)
  <1>4. FailsWell(4)
    BY FirstCalls, SMTT(40)
  <1>5. FailsWell(5)
    BY FirstCalls, StepsAreNamed, SMTT(40)
  <1>6. FailsWell(6)
    BY FirstCalls, ClausesAre, SMTT(40)
  <1>7. FailsWell(7)
    BY FirstCalls, SMTT(40)
  <1>8. FailsWell(8)
    BY FirstCalls, SMTT(40)
  <1>9. FailsWell(9)
    BY PropertyCalls, StepsAreNamed, SMTT(40)
  <1>10. FailsWell(10)
    BY PropertyCalls, ClausesAre, SMTT(40)
  <1>11. FailsWell(11)
    BY PropertyCalls, StepsAreNamed, SMTT(40)
  <1>12. FailsWell(12)
    BY PropertyCalls, SMTT(40)
  <1>13. FailsWell(13)
    BY PropertyCalls, ClausesAre, SMTT(40)
  <1>14. FailsWell(14)
    BY PropertyCalls, StepsAreNamed, SMTT(40)
  <1>15. FailsWell(15)
    BY PropertyCalls, SMTT(40)
  <1>16. FailsWell(16)
    BY PropertyCalls, ClausesAre, SMTT(40)
  <1>17. FailsWell(17)
    BY PropertyCalls, StepsAreNamed, SMTT(40)
  <1>18. FailsWell(18)
    BY PropertyCalls, SMTT(40)
  <1>19. FailsWell(19)
    BY PropertyCalls, SMTT(40)
  <1>20. FailsWell(20)
    BY PropertyCalls, SMTT(40)
  <1>21. FailsWell(21)
    BY LastCalls, ClausesAre, SMTT(40)
  <1>22. FailsWell(22)
    BY LastCalls, ClausesAre, SMTT(40)
  <1>23. FailsWell(23)
    BY LastCalls, ClausesAre, SMTT(40)
  <1>24. FailsWell(24)
    BY LastCalls, ClausesAre, SMTT(40)
  <1>25. FailsWell(25)
    BY LastCalls, ClausesAre, SMTT(40)
  <1>26. FailsWell(26)
    BY LastCalls, ClausesAre, SMTT(40)
  <1>27. FailsWell(27)
    BY LastCalls, StepsAreNamed, SMTT(40)
  <1>28. FailsWell(28)
    BY LastCalls, StepsAreNamed, SMTT(40)
  <1>29. FailsWell(29)
    BY LastCalls, StepsAreNamed, SMTT(40)
  <1>30. FailsWell(30)
    BY LastCalls, SMTT(40)
  <1>31. FailsWell(31)
    BY LastCalls, SMTT(40)
  <1>32. FailsWell(32)
    BY LastCalls, SMTT(40)
  <1>33. FailsWell(33)
    BY LastCalls, SMTT(40)
  <1>34. FailsWell(34)
    BY LastCalls, SMTT(40)
  <1>35. FailsWell(35)
    BY LastCalls, SMTT(40)
  <1>36. FailsWell(36)
    BY LastCalls, SMTT(40)
  <1>37. FailsWell(37)
    BY LastCalls, SMTT(40)
  <1>38. FailsWell(38)
    BY LastCalls, SMTT(40)
  <1> HIDE LifetimesAre DEF FailsWell
  <1>39. QED
    BY Calls, <1>1, <1>2, <1>3, <1>4, <1>5, <1>6, <1>7, <1>8, <1>9, <1>10, <1>11, <1>12, <1>13, <1>14, <1>15, <1>16, <1>17, <1>18, <1>19, <1>20, <1>21, <1>22, <1>23, <1>24, <1>25, <1>26, <1>27, <1>28, <1>29, <1>30, <1>31, <1>32, <1>33, <1>34, <1>35, <1>36, <1>37, <1>38

LEMMA NothingIsHeldAtEitherEnd ==
    HeldAt(1) = {} /\ HeldAt(39) = {}
  BY LifetimesAre DEF HeldAt

-----------------------------------------------------------------------------
(* What is held is a function of the step reached, until a call raises.    *)

Distinct(s) == \A i, j \in DOMAIN s : s[i] = s[j] => i = j
ElementsOf(s) == {s[i] : i \in DOMAIN s}

AudioTypeOK ==
    /\ at \in 0..39
    /\ held \in Seq(Things)
    /\ com \in {"none", "ours", "theirs"}
    /\ unwinding \in BOOLEAN

AudioInv ==
    /\ AudioTypeOK
    /\ Distinct(held)
    /\ at = 0 => held = <<>> /\ ~unwinding /\ com # "ours"
    /\ at # 0 => com # "none"
    /\ at # 0 /\ ~unwinding => ElementsOf(held) = HeldAt(at)
    /\ unwinding => \A i \in DOMAIN held : Covered(held[i])

LEMMA OneMore ==
    ASSUME NEW S, NEW s \in Seq(S), Distinct(s), NEW e \in S, e \notin ElementsOf(s)
    PROVE  /\ Append(s, e) \in Seq(S)
           /\ Distinct(Append(s, e))
           /\ ElementsOf(Append(s, e)) = ElementsOf(s) \union {e}
  <1>1. /\ Append(s, e) \in Seq(S) /\ Len(Append(s, e)) = Len(s) + 1 /\ Len(s) \in Nat
        /\ \A i \in 1..Len(s) : Append(s, e)[i] = s[i]
        /\ Append(s, e)[Len(s) + 1] = e
        /\ DOMAIN s = 1..Len(s) /\ DOMAIN Append(s, e) = 1..(Len(s) + 1)
    OBVIOUS
  <1> DEFINE t == Append(s, e)
             n == Len(s)
  <1>0. /\ n \in Nat /\ DOMAIN s = 1..n /\ DOMAIN t = 1..(n + 1)
        /\ \A i \in 1..n : t[i] = s[i]
        /\ t[n + 1] = e
    BY <1>1
  <1> HIDE DEF t, n
  <1>2. \A i \in DOMAIN t : (i \in DOMAIN s /\ t[i] = s[i]) \/ (i = n + 1 /\ t[i] = e)
    <2>1. \A i \in 1..(n + 1) : i \in 1..n \/ i = n + 1
      BY <1>0
    <2>2. QED
      BY <1>0, <2>1
  <1>3. \A i \in DOMAIN s : s[i] # e /\ i \in DOMAIN t /\ t[i] = s[i]
    BY <1>0 DEF ElementsOf
  <1>4. n + 1 \in DOMAIN t /\ t[n + 1] = e
    BY <1>0
  <1>5. Distinct(t)
    BY <1>2, <1>3 DEF Distinct
  <1>6. ElementsOf(t) = ElementsOf(s) \union {e}
    BY <1>2, <1>3, <1>4 DEF ElementsOf
  <1>7. QED
    BY <1>1, <1>5, <1>6 DEF t

LEMMA Joined ==
    ASSUME NEW S, NEW s \in Seq(S), NEW t \in Seq(S)
    PROVE  /\ s \o t \in Seq(S) /\ Len(s \o t) = Len(s) + Len(t)
           /\ \A i \in 1..Len(s) : (s \o t)[i] = s[i]
           /\ \A i \in 1..Len(t) : (s \o t)[Len(s) + i] = t[i]
  OBVIOUS

LEMMA OneLess ==
    ASSUME NEW S, held \in Seq(S), Distinct(held), NEW i \in DOMAIN held
    PROVE  /\ GivenBack(i) \in Seq(S)
           /\ Distinct(GivenBack(i))
           /\ ElementsOf(GivenBack(i)) = ElementsOf(held) \ {held[i]}
  <1> DEFINE t == GivenBack(i)
             n == Len(held)
  <1>1. n \in Nat /\ DOMAIN held = 1..n /\ i \in 1..n
    OBVIOUS
  <1>2. /\ SubSeq(held, 1, i - 1) \in Seq(S) /\ Len(SubSeq(held, 1, i - 1)) = i - 1
        /\ \A j \in 1..(i - 1) : SubSeq(held, 1, i - 1)[j] = held[j]
    BY <1>1
  <1>3. /\ SubSeq(held, i + 1, n) \in Seq(S) /\ Len(SubSeq(held, i + 1, n)) = n - i
        /\ \A j \in 1..(n - i) : SubSeq(held, i + 1, n)[j] = held[i + j]
    BY <1>1
  <1>4. /\ t \in Seq(S) /\ Len(t) = n - 1 /\ DOMAIN t = 1..(n - 1)
        /\ \A j \in 1..(n - 1) : t[j] = IF j < i THEN held[j] ELSE held[j + 1]
    <2> DEFINE a == SubSeq(held, 1, i - 1)
               b == SubSeq(held, i + 1, n)
    <2>1. t = a \o b
      BY DEF GivenBack
    <2>2. /\ a \in Seq(S) /\ b \in Seq(S) /\ Len(a) = i - 1 /\ Len(b) = n - i
          /\ \A j \in 1..(i - 1) : a[j] = held[j]
          /\ \A j \in 1..(n - i) : b[j] = held[i + j]
      BY <1>2, <1>3
    <2> HIDE DEF a, b, t, n
    <2>3. /\ a \o b \in Seq(S) /\ Len(a \o b) = Len(a) + Len(b)
          /\ \A j \in 1..Len(a) : (a \o b)[j] = a[j]
          /\ \A j \in 1..Len(b) : (a \o b)[Len(a) + j] = b[j]
      <3>1. a \in Seq(S)
        BY <2>2
      <3>2. b \in Seq(S)
        BY <2>2
      <3>3. QED
        BY ONLY <3>1, <3>2, Joined
    <2>4. /\ t \in Seq(S) /\ Len(t) = n - 1
          /\ \A j \in 1..(i - 1) : t[j] = held[j]
          /\ \A j \in 1..(n - i) : t[(i - 1) + j] = held[i + j]
      <3>1. \A j \in 1..(i - 1) : t[j] = held[j]
        BY <2>1, <2>2, <2>3
      <3>2. \A j \in 1..(n - i) : t[(i - 1) + j] = held[i + j]
        BY <2>1, <2>2, <2>3
      <3>3. t \in Seq(S) /\ Len(t) = Len(a) + Len(b)
        BY <2>1, <2>3
      <3>4. Len(t) = n - 1
        BY <1>1, <2>2, <3>3
      <3>5. QED
        BY <3>1, <3>2, <3>3, <3>4
    <2>5. \A j \in 1..(n - 1) : j >= i => t[j] = held[j + 1]
      <3> SUFFICES ASSUME NEW j \in 1..(n - 1), j >= i PROVE t[j] = held[j + 1]
        OBVIOUS
      <3>1. j - (i - 1) \in 1..(n - i)
        BY <1>1
      <3>2. (i - 1) + (j - (i - 1)) = j /\ i + (j - (i - 1)) = j + 1
        BY <1>1
      <3>3. QED
        BY <2>4, <3>1, <3>2
    <2>6. QED
      BY <1>1, <2>4, <2>5
  <1> DEFINE from(j) == IF j < i THEN j ELSE j + 1
  <1> HIDE DEF t, n
  <1>8. \A j \in DOMAIN t : from(j) \in DOMAIN held /\ t[j] = held[from(j)]
    BY <1>1, <1>4
  <1>9. \A j, k \in DOMAIN t : from(j) = from(k) => j = k
    BY <1>1, <1>4
  <1>5. Distinct(t)
    BY <1>8, <1>9 DEF Distinct
  <1>6. ElementsOf(t) = ElementsOf(held) \ {held[i]}
    <2>1. \A j \in DOMAIN t : t[j] \in ElementsOf(held) /\ t[j] # held[i]
      <3> SUFFICES ASSUME NEW j \in DOMAIN t
                   PROVE  t[j] \in ElementsOf(held) /\ t[j] # held[i]
        OBVIOUS
      <3>1. from(j) # i
        BY <1>1, <1>4
      <3> HIDE DEF from
      <3>2. from(j) \in DOMAIN held /\ t[j] = held[from(j)]
        BY <1>8
      <3>3. QED
        BY ONLY <3>1, <3>2, i \in DOMAIN held, Distinct(held) DEF Distinct, ElementsOf
    <2>2. \A j \in DOMAIN held : j # i => held[j] \in ElementsOf(t)
      <3> SUFFICES ASSUME NEW j \in DOMAIN held, j # i PROVE held[j] \in ElementsOf(t)
        OBVIOUS
      <3>1. CASE j < i
        BY <3>1, <1>1, <1>4 DEF ElementsOf
      <3>2. CASE j > i
        <4>1. j - 1 \in DOMAIN t /\ t[j - 1] = held[j]
          BY <3>2, <1>1, <1>4
        <4>2. QED
          BY <4>1 DEF ElementsOf
      <3>3. QED
        BY <3>1, <3>2, <1>1
    <2>3. QED
      BY <2>1, <2>2 DEF ElementsOf
  <1>7. QED
    BY <1>4, <1>5, <1>6 DEF t

LEMMA ProgramSize == DOMAIN Program = 1..38 /\ Len(Program) = 38
  BY LastCalls

LEMMA CoInitializeKeeps ==
    ASSUME AudioInv, NEW answer, CoInitializeEx(answer)
    PROVE  AudioInv'
  <1> USE DEF AudioInv, AudioTypeOK, CoInitializeEx
  <1>1. held = <<>> /\ held' = <<>> /\ ~unwinding /\ unwinding' = unwinding
    OBVIOUS
  <1>2. AudioTypeOK'
    BY <1>1
  <1>3. Distinct(held)'
    BY <1>1 DEF Distinct
  <1>4. ElementsOf(held') = {} /\ HeldAt(1) = {}
    BY <1>1, NothingIsHeldAtEitherEnd DEF ElementsOf
  <1>5. \/ at' = 1 /\ com' \in {"ours", "theirs"}
        \/ at' = 0 /\ com' # "ours"
    OBVIOUS
  <1>6. QED
    BY <1>1, <1>2, <1>3, <1>4, <1>5 DEF ElementsOf

LEMMA SucceedKeeps ==
    ASSUME AudioInv, Succeed
    PROVE  AudioInv'
  <1> USE DEF AudioInv, AudioTypeOK
  <1>1. /\ at \in 1..38 /\ ~unwinding /\ at' = at + 1 /\ at' \in 0..39 /\ at' # 0
        /\ com' = com /\ unwinding' = unwinding
        /\ ElementsOf(held) = HeldAt(at)
        /\ \/ Program[at].call = "release"
                /\ held' = GivenBack(CHOOSE i \in DOMAIN held : held[i] = Program[at].gets)
           \/ Program[at].call # "release" /\ Program[at].gets # Nothing
                /\ held' = Append(held, Program[at].gets)
           \/ Program[at].call # "release" /\ Program[at].gets = Nothing /\ held' = held
    BY ProgramSize DEF Succeed, Running, Now
  <1>2. /\ held' \in Seq(Things)
        /\ Distinct(held')
        /\ ElementsOf(held') = HeldAt(at + 1)
    <2> HIDE DEF AudioInv, AudioTypeOK
    <2>0. held \in Seq(Things) /\ Distinct(held)
      BY DEF AudioInv, AudioTypeOK
    <2>1. CASE Acquires(at)
      <3> DEFINE r == Program[at].gets
      <3>1. CASE r = Nothing
        BY <1>1, <2>0, <2>1, <3>1 DEF Acquires
      <3>2. CASE r # Nothing
        <4>1. /\ held' = Append(held, r) /\ r \in Things /\ r \notin ElementsOf(held)
              /\ HeldAt(at + 1) = ElementsOf(held) \union {r}
          BY <1>1, <2>1, <3>2 DEF Acquires
        <4> HIDE DEF r
        <4>2. /\ Append(held, r) \in Seq(Things) /\ Distinct(Append(held, r))
              /\ ElementsOf(Append(held, r)) = ElementsOf(held) \union {r}
          BY ONLY <2>0, <4>1, OneMore
        <4>3. QED
          BY <4>1, <4>2
      <3>3. QED
        BY <3>1, <3>2
    <2>2. CASE GivesBack(at)
      <3> DEFINE i == CHOOSE j \in DOMAIN held : held[j] = Program[at].gets
      <3>1. \E j \in DOMAIN held : held[j] = Program[at].gets
        BY <1>1, <2>2 DEF GivesBack, ElementsOf
      <3>2. i \in DOMAIN held /\ held[i] = Program[at].gets
        BY <3>1
      <3>3. held' = GivenBack(i)
        BY <1>1, <2>2 DEF GivesBack
      <3> HIDE DEF i
      <3>4. /\ GivenBack(i) \in Seq(Things) /\ Distinct(GivenBack(i))
            /\ ElementsOf(GivenBack(i)) = ElementsOf(held) \ {held[i]}
        BY ONLY <2>0, <3>2, OneLess
      <3>5. HeldAt(at + 1) = ElementsOf(held) \ {held[i]}
        BY ONLY <1>1, <2>2, <3>2 DEF GivesBack
      <3>6. QED
        BY ONLY <3>3, <3>4, <3>5
    <2>3. QED
      BY <1>1, <2>1, <2>2, EveryStepMoves
  <1>3. Distinct(held)' /\ ElementsOf(held)' = HeldAt(at')
    <2>1. at' = at + 1
      BY <1>1
    <2>2. QED
      BY ONLY <1>2, <2>1 DEF Distinct, ElementsOf
  <1>4. AudioTypeOK'
    <2>1. com \in {"none", "ours", "theirs"} /\ unwinding \in BOOLEAN
      OBVIOUS
    <2>2. QED
      BY ONLY <1>1, <1>2, <2>1 DEF AudioTypeOK
  <1>5. com' # "none"
    <2>1. at # 0 /\ com' = com
      <3>1. at \in 1..38 /\ com' = com
        BY ONLY <1>1, Zenon
      <3>2. QED
        BY ONLY <3>1
    <2>2. com # "none"
      BY ONLY AudioInv, <2>1, Zenon DEF AudioInv
    <2>3. QED
      BY ONLY <2>1, <2>2
  <1>6. ~unwinding'
    BY ONLY <1>1, Zenon
  <1>7. at' # 0
    BY ONLY <1>1, Zenon
  <1>8. QED
    BY ONLY <1>3, <1>4, <1>5, <1>6, <1>7 DEF AudioInv

LEMMA FailKeeps ==
    ASSUME AudioInv, Fail
    PROVE  AudioInv'
  <1> USE DEF AudioInv, AudioTypeOK
  <1>1. at \in 1..38 /\ ~unwinding /\ held' = held /\ com' = com /\ ElementsOf(held) = HeldAt(at)
    BY ProgramSize DEF Fail, Running
  <1>2. FailsWell(at)
    BY <1>1, EveryFailureIsCovered
  <1>3. CASE Program[at].fails = Skips /\ at' = StepNamed(Program[at].skipTo) /\ unwinding' = unwinding
    <2>1. at' \in 1..38 /\ HeldAt(at') = HeldAt(at)
      BY <1>2, <1>3 DEF FailsWell
    <2>2. Distinct(held') /\ ElementsOf(held') = HeldAt(at')
      BY <1>1, <2>1
    <2>3. AudioTypeOK'
      BY <1>1, <1>3, <2>1
    <2>4. Distinct(held)' /\ ElementsOf(held)' = HeldAt(at')
      BY <2>2 DEF Distinct, ElementsOf
    <2>5. at' # 0 /\ com' # "none" /\ ~unwinding'
      <3>1. at' # 0 /\ com' # "none"
        BY <1>1, <2>1
      <3>2. ~unwinding'
        BY <1>1, <1>3, Zenon
      <3>3. QED
        BY <3>1, <3>2
    <2> HIDE DEF AudioTypeOK
    <2>6. QED
      BY <2>3, <2>4, <2>5
  <1>4. CASE Program[at].fails \in {Raise, GiveUp} /\ at' = at /\ unwinding' = TRUE
    <2>1. \A i \in DOMAIN held : held[i] \in HeldAt(at)
      BY <1>1 DEF ElementsOf
    <2>2. \A i \in DOMAIN held : Covered(held[i])
      BY <1>2, <1>4, <2>1 DEF FailsWell, Covered
    <2>3. \A i \in DOMAIN held' : Covered(held[i])'
      BY <1>1, <1>4, <2>2 DEF Covered
    <2>4. QED
      BY <1>1, <1>4, <2>3
  <1>5. QED
    BY <1>3, <1>4 DEF Fail, Now

LEMMA UnwindKeeps ==
    ASSUME AudioInv, Unwind
    PROVE  AudioInv'
  <1>1. PICK i \in DOMAIN held : held' = GivenBack(i)
    BY DEF Unwind
  <1>2. /\ unwinding /\ at' = at /\ com' = com /\ unwinding' = unwinding /\ at # 0
        /\ held \in Seq(Things) /\ Distinct(held)
    BY DEF Unwind, AudioInv, AudioTypeOK
  <1>3. held' \in Seq(Things) /\ Distinct(held') /\ ElementsOf(held') = ElementsOf(held) \ {held[i]}
    BY <1>1, <1>2, OneLess
  <1>4. \A j \in DOMAIN held' : Covered(held[j])'
    <2>1. \A r \in ElementsOf(held) : Covered(r)
      BY <1>2 DEF AudioInv, ElementsOf
    <2>2. \A j \in DOMAIN held' : held'[j] \in ElementsOf(held')
      BY DEF ElementsOf
    <2>3. \A j \in DOMAIN held' : Covered(held'[j])
      BY <1>3, <2>1, <2>2
    <2>4. QED
      BY <1>2, <2>3 DEF Covered
  <1>5. QED
    BY <1>2, <1>3, <1>4 DEF AudioInv, AudioTypeOK

LEMMA NothingInside ==
    ASSUME held \in Seq(Things), DOMAIN held = {}
    PROVE  held = <<>>
  <1>1. Len(held) \in Nat /\ DOMAIN held = 1..Len(held)
    OBVIOUS
  <1>2. Len(held) = 0
    BY <1>1
  <1>3. QED
    BY <1>2, EmptySeq

LEMMA LeaveKeeps ==
    ASSUME AudioInv, Leave
    PROVE  AudioInv' /\ held = <<>>
  <1> USE DEF AudioInv, AudioTypeOK, Leave
  <1>1. held = <<>>
    <2>1. CASE unwinding /\ \A i \in DOMAIN held : ~Covered(held[i])
      BY <2>1
    <2>2. CASE ~unwinding /\ at = 39
      <3>1. ElementsOf(held) = {}
        BY <2>2, NothingIsHeldAtEitherEnd
      <3>2. DOMAIN held = {}
        BY <3>1 DEF ElementsOf
      <3>3. QED
        BY <3>2, NothingInside
    <2>3. CASE unwinding /\ at = 39
      <3>1. \A r \in DOMAIN Finally : StepNamed(Finally[r]) < 39
        BY ClausesAre
      <3>2. \A i \in DOMAIN held : FALSE
        BY <2>3, <3>1, ClausesAre DEF Covered
      <3>3. QED
        BY <3>2, NothingInside
    <2>4. QED
      BY <2>1, <2>2, <2>3, ProgramSize
  <1>2. held' = <<>> /\ at' = 0 /\ ~unwinding' /\ com' \in {"none", "theirs"}
    BY <1>1
  <1>3. Distinct(held)'
    BY <1>2 DEF Distinct
  <1>4. AudioTypeOK'
    <2>1. at' \in 0..39 /\ com' \in {"none", "ours", "theirs"}
      BY <1>2
    <2>2. unwinding' \in BOOLEAN
      OBVIOUS
    <2>3. held' \in Seq(Things)
      OBVIOUS
    <2>4. QED
      BY <2>1, <2>2, <2>3
  <1>5. QED
    BY <1>1, <1>2, <1>3, <1>4

LEMMA AudioInitially ==
    ASSUME AudioInit
    PROVE  AudioInv
  <1>1. held = <<>> /\ at = 0 /\ ~unwinding /\ com = "none"
    BY DEF AudioInit
  <1>2. Distinct(held) /\ held \in Seq(Things)
    BY <1>1, EmptySeq DEF Distinct
  <1>0. unwinding \in BOOLEAN
    BY DEF AudioInit
  <1>3. QED
    BY <1>0, <1>1, <1>2 DEF AudioInv, AudioTypeOK

LEMMA AudioAgain ==
    ASSUME AudioRestart
    PROVE  AudioInv'
  <1>1. held' = <<>> /\ at' = 0 /\ ~unwinding' /\ com' = "none"
    BY DEF AudioRestart
  <1>2. Distinct(held)' /\ held' \in Seq(Things)
    BY <1>1, EmptySeq DEF Distinct
  <1>0. unwinding' \in BOOLEAN
    BY DEF AudioRestart
  <1>3. QED
    BY <1>0, <1>1, <1>2 DEF AudioInv, AudioTypeOK

LEMMA AudioUnchanged ==
    ASSUME AudioInv, UNCHANGED audioVars
    PROVE  AudioInv'
  <1>1. /\ at' = at /\ held' = held /\ com' = com /\ unwinding' = unwinding
    BY DEF audioVars
  <1>2. QED
    BY <1>1 DEF AudioInv, AudioTypeOK, Distinct, ElementsOf, Covered

\* However the audio probe ends, in whatever step it fails and whatever the
\* machine answered, every interface and buffer it was handed has been given
\* back and COM has been left: the way out of every step of
\* probe_audio_endpoint covers what is held there.
THEOREM WhatIsAcquiredIsGivenBack == DoctorSpec => []EverythingIsGivenBack
  <1>1. DoctorInit => AudioInv
    BY AudioInitially DEF DoctorInit
  <1>2. AudioInv /\ [Next]_vars => AudioInv'
    <2> SUFFICES ASSUME AudioInv, [Next]_vars PROVE AudioInv'
      OBVIOUS
    <2>1. CASE ReadConfig
      BY <2>1, AudioAgain DEF ReadConfig
    <2>2. CASE AudioStep
      BY <2>2, CoInitializeKeeps, SucceedKeeps, FailKeeps, UnwindKeeps, LeaveKeeps
         DEF AudioStep, Unwinds
    <2>3. CASE OsuStarts \/ OsuExits \/ CollectProbe \/ Report \/ Player \/ UNCHANGED vars
      <3>1. UNCHANGED audioVars
        BY <2>3 DEF OsuStarts, OsuExits, CollectProbe, Report, Player, Follow, vars, audioVars
      <3>2. QED
        BY <3>1, AudioUnchanged
    <2>4. QED
      BY <2>1, <2>2, <2>3 DEF Next
  <1>3. AudioInv => EverythingIsGivenBack
    BY DEF AudioInv, EverythingIsGivenBack, AudioDone
  <1>4. QED
    BY <1>1, <1>2, <1>3, PTL DEF DoctorSpec

-----------------------------------------------------------------------------
(* A report about a file that osu! will overwrite.                         *)

\* The results so far are those of the first probes.
InOrder ==
    LET done == DOMAIN probes IN
    /\ IsFiniteSet(done)
    /\ done = {Order[i] : i \in 1..Cardinality(done)}
    /\ step = "probing" => Cardinality(done) < 10

LEMMA TheNextIsNew ==
    ASSUME InOrder, step = "probing"
    PROVE  /\ NextProbe \notin DOMAIN probes
           /\ Cardinality(DOMAIN probes) \in 0..9
           /\ NextProbe = Order[Cardinality(DOMAIN probes) + 1]
  <1> DEFINE n == Cardinality(DOMAIN probes)
  <1>1. n \in 0..9
    BY FS_CardinalityType DEF InOrder
  <1>2. \A i \in 1..10, j \in 1..10 : Order[i] = Order[j] => i = j
    BY DEF Order
  <1>3. DOMAIN probes = {Order[i] : i \in 1..n}
    BY DEF InOrder
  <1> HIDE DEF n
  <1>4. Order[n + 1] \notin DOMAIN probes
    BY <1>1, <1>2, <1>3
  <1>5. QED
    BY <1>1, <1>4 DEF NextProbe, n

LEMMA TheNextIsCollected ==
    ASSUME InOrder, CollectProbe
    PROVE  InOrder'
  <1> DEFINE n == Cardinality(DOMAIN probes)
             m == Cardinality(DOMAIN probes')
  <1>1. /\ step = "probing" /\ DOMAIN probes' = DOMAIN probes \cup {NextProbe}
        /\ step' = IF NextProbe = Order[Len(Order)] THEN "rules" ELSE step
    BY DEF CollectProbe
  <1>2. n \in 0..9 /\ NextProbe = Order[n + 1] /\ NextProbe \notin DOMAIN probes
    BY <1>1, TheNextIsNew
  <1>3. IsFiniteSet(DOMAIN probes') /\ m = n + 1
    <2>1. IsFiniteSet(DOMAIN probes)
      BY DEF InOrder
    <2>2. /\ IsFiniteSet(DOMAIN probes \cup {NextProbe})
          /\ Cardinality(DOMAIN probes \cup {NextProbe}) = n + 1
      BY ONLY <1>2, <2>1, FS_AddElement
    <2>3. QED
      BY ONLY <1>1, <2>2
  <1>4. DOMAIN probes = {Order[i] : i \in 1..n}
    BY DEF InOrder
  <1> HIDE DEF n, m
  <1>5. DOMAIN probes' = {Order[i] : i \in 1..m}
    <2>1. \A i \in 1..m : i \in 1..n \/ i = n + 1
      BY <1>2, <1>3
    <2>2. \A i \in 1..n : i \in 1..m
      BY <1>2, <1>3
    <2>3. n + 1 \in 1..m
      BY <1>2, <1>3
    <2>4. QED
      BY <1>1, <1>2, <1>4, <2>1, <2>2, <2>3
  <1>6. step' = "probing" => m < 10
    BY <1>1, <1>2, <1>3 DEF Order
  <1>7. QED
    BY <1>3, <1>5, <1>6 DEF InOrder, m

\* What osu! will have in its file when it has exited, as doctor would read it.
Kept == Parse(IF osu.running THEN osu.memory ELSE files["mine"])
ReadsTheUsersFile == ~scenario.args.noProbes /\ FindConfig(scenario.places) = {"mine"}

\* The look for the process has seen osu! or failed.
Marked(p) == ~IsOk(p["process"]) \/ Value(p["process"]).running

Fresh ==
    /\ step = "probing" /\ "process" \notin DOMAIN probes => read = Parse(files["mine"]) \/ raced
    /\ step \in {"probing", "rules"} /\ "process" \in DOMAIN probes =>
           read = Kept \/ raced \/ Marked(probes)
    /\ step = "done" /\ code # 2 =>
           read = Kept \/ raced \/ Of(report, "sys.process.osu_running") # {}

Shapes == "mine" \in DOMAIN files /\ DOMAIN osu = {"running", "window", "memory"}

FreshInv ==
    /\ Shapes
    /\ InOrder
    /\ step \in {"start", "probing", "rules", "done"}
    /\ ReadsTheUsersFile => Fresh

LEMMA TheProcessRule ==
    /\ "sys.process.osu_running" \in DOMAIN AllRules
    /\ AllRules["sys.process.osu_running"] = {"process"}
  <1> DEFINE r == "sys.process.osu_running"
  <1>1. /\ r \in DOMAIN SystemRules /\ SystemRules[r] = {"process"}
        /\ r \notin DOMAIN ConfigOnlyRules /\ r \notin DOMAIN DisplayRules
        /\ r \notin DOMAIN AudioRules
    BY DEF SystemRules, ConfigOnlyRules, DisplayRules, AudioRules
  <1>2. QED
    BY <1>1 DEF AllRules

LEMMA Attributed ==
    ASSUME NEW r, NEW found, found # {}
    PROVE  \E f \in By(r, found) : f.rule = r
  <1>1. PICK f \in found : TRUE
    OBVIOUS
  <1>2. [rule |-> r, finding |-> f] \in By(r, found)
    BY DEF By
  <1>3. QED
    BY <1>2

LEMMA AnOpenGameIsReported ==
    ASSUME NEW c, NEW p, "process" \in DOMAIN p => Marked(p)
    PROVE  Of(RunRules(AllRules, c, p), "sys.process.osu_running") # {}
  <1> DEFINE r == "sys.process.osu_running"
             F == CASE Missing(AllRules[r], p) # {} -> By(r, {Skipped})
                    [] Missing(AllRules[r], p) = {} /\ Evaluate(r, c, p).raises -> By(r, {Crashed})
                    [] OTHER -> By(r, Evaluate(r, c, p).found)
  <1>1. \A f \in F : f \in RunRules(AllRules, c, p)
    BY TheProcessRule DEF RunRules
  <1>2. \E f \in F : f.rule = r
    <2>1. CASE Missing(AllRules[r], p) # {}
      <3>1. F = By(r, {Skipped})
        BY <2>1
      <3> HIDE DEF F
      <3>2. QED
        BY <3>1, Attributed
    <2>2. CASE Missing(AllRules[r], p) = {}
      <3>1. "process" \in DOMAIN p /\ IsOk(p["process"]) /\ Value(p["process"]).running
        BY <2>2, TheProcessRule DEF Missing, Marked
      <3>2. Require(r, p)
        BY <3>1, TheProcessRule DEF Require
      <3>3. Evaluate(r, c, p) = OsuRunning(p)
        BY <3>2 DEF Evaluate
      <3>4. OsuRunning(p) = ReportFinding(r, 2, TRUE, {Windows("osu!", Text("running"))}, {})
        BY <3>1, Zenon DEF OsuRunning
      <3>5. ~OsuRunning(p).raises /\ OsuRunning(p).found # {}
        <4> DEFINE now == {Windows("osu!", Text("running"))}
                   f == [id |-> r, severity |-> 2, fact |-> TRUE, current |-> now, advice |-> {}]
        <4>1. OsuRunning(p) = [raises |-> FALSE, found |-> {f}]
          BY <3>4, Zenon DEF ReportFinding
        <4> HIDE DEF f
        <4>2. OsuRunning(p).raises = FALSE /\ OsuRunning(p).found # {}
          BY <4>1
        <4>3. QED
          BY <4>2, Zenon
      <3>6. F = By(r, OsuRunning(p).found)
        BY <2>2, <3>3, <3>5
      <3> HIDE DEF F
      <3>7. QED
        BY <3>5, <3>6, Attributed
    <2>3. QED
      BY <2>1, <2>2
  <1>3. QED
    BY <1>1, <1>2 DEF Of

LEMMA TheGameKeepsWhatItHas ==
    ASSUME Shapes, OsuStarts \/ OsuExits
    PROVE  Shapes' /\ Kept' = Kept
  <1>1. CASE OsuStarts
    <2>1. /\ ~osu.running /\ osu'.running = TRUE /\ osu'.memory = files["mine"] /\ files' = files
          /\ DOMAIN osu' = DOMAIN osu
      BY <1>1 DEF OsuStarts, Shapes
    <2>2. (IF osu'.running THEN osu'.memory ELSE files'["mine"]) = files["mine"]
      BY <2>1, Zenon
    <2>3. (IF osu.running THEN osu.memory ELSE files["mine"]) = files["mine"]
      BY <2>1, Zenon
    <2>4. QED
      BY <2>1, <2>2, <2>3 DEF Kept, Shapes
  <1>2. CASE OsuExits
    <2>1. /\ osu.running /\ osu'.running = FALSE /\ files'["mine"] = osu.memory
          /\ DOMAIN osu' = DOMAIN osu /\ DOMAIN files' = DOMAIN files
      BY <1>2 DEF OsuExits, Shapes
    <2>2. (IF osu'.running THEN osu'.memory ELSE files'["mine"]) = osu.memory
      BY <2>1, Zenon
    <2>3. (IF osu.running THEN osu.memory ELSE files["mine"]) = osu.memory
      BY <2>1, Zenon
    <2>4. QED
      BY <2>1, <2>2, <2>3 DEF Kept, Shapes
  <1>3. QED
    BY <1>1, <1>2

LEMMA TheGameKeepsReportsFresh ==
    ASSUME FreshInv, OsuStarts \/ OsuExits
    PROVE  FreshInv'
  <1>1. Shapes' /\ Kept' = Kept
    BY TheGameKeepsWhatItHas DEF FreshInv
  <1>2. /\ step' = step /\ probes' = probes /\ read' = read /\ code' = code /\ report' = report
        /\ scenario' = scenario
    BY DEF OsuStarts, OsuExits
  <1>0. raced => raced'
    BY Zenon DEF OsuStarts, OsuExits
  <1>3. step = "probing" /\ "process" \notin DOMAIN probes =>
            files' = files \/ raced'
    BY DEF OsuStarts, OsuExits
  <1>4. ReadsTheUsersFile' = ReadsTheUsersFile
    BY <1>2 DEF ReadsTheUsersFile
  <1>5. ReadsTheUsersFile => Fresh'
    <2> SUFFICES ASSUME ReadsTheUsersFile PROVE Fresh'
      OBVIOUS
    <2>1. Fresh
      BY DEF FreshInv
    <2>2. QED
      BY <1>0, <1>1, <1>2, <1>3, <2>1 DEF Fresh, Marked, Of
  <1>6. QED
    BY <1>1, <1>2, <1>4, <1>5 DEF FreshInv, InOrder

LEMMA DoctorKeepsReportsFresh ==
    ASSUME FreshInv, ReadConfig \/ AudioStep \/ CollectProbe \/ Report
    PROVE  FreshInv'
  <1>1. /\ files' = files /\ osu' = osu /\ scenario' = scenario
        /\ Kept' = Kept /\ ReadsTheUsersFile' = ReadsTheUsersFile /\ Shapes'
    BY DEF ReadConfig, AudioStep, CollectProbe, Report, doctorVars, Kept, ReadsTheUsersFile, Shapes,
           FreshInv
  <1>2. step' \in {"start", "probing", "rules", "done"}
    BY DEF ReadConfig, AudioStep, CollectProbe, Report, doctorVars, FreshInv
  <1>0. InOrder'
    <2>1. CASE ReadConfig
      <3>1. DOMAIN probes' = {}
        BY <2>1 DEF ReadConfig
      <3>2. QED
        BY <3>1, FS_EmptySet DEF InOrder
    <2>2. CASE CollectProbe
      BY <2>2, TheNextIsCollected DEF FreshInv
    <2>3. CASE AudioStep \/ Report
      BY <2>3 DEF AudioStep, Report, doctorVars, InOrder, FreshInv
    <2>4. QED
      BY <2>1, <2>2, <2>3
  <1>3. ASSUME ReadsTheUsersFile PROVE Fresh'
    <2>0. Fresh
      BY <1>3 DEF FreshInv
    <2>1. CASE ReadConfig
      <3>1. step' = "probing" /\ read' = Parse(files["mine"]) /\ DOMAIN probes' = {}
        BY <1>3, <2>1 DEF ReadConfig, ReadsTheUsersFile
      <3>2. QED
        BY <1>1, <3>1 DEF Fresh
    <2>2. CASE AudioStep
      BY <1>1, <2>0, <2>2 DEF AudioStep, doctorVars, Fresh, Marked, Of
    <2>3. CASE CollectProbe
      <3>1. /\ step = "probing" /\ step' \in {"probing", "rules"}
            /\ read' = read /\ raced' = raced
            /\ DOMAIN probes' = DOMAIN probes \cup {NextProbe}
            /\ \A p \in DOMAIN probes' :
                   probes'[p] = IF p = NextProbe THEN ResultOf(p) ELSE probes[p]
        BY <2>3 DEF CollectProbe
      <3>2. CASE NextProbe = "process"
        <4>1. probes'["process"] = ProbeOsuProcess(machine, osu) /\ "process" \in DOMAIN probes'
          BY <3>1, <3>2 DEF ResultOf
        <4>2. read = Parse(files["mine"]) \/ raced
          BY <2>0, <2>3, <3>1, <3>2, TheNextIsNew DEF FreshInv, Fresh
        <4>3. CASE osu.running \/ machine.psutil \in {"missing", "raises"}
          <5>1. Marked(probes')
            BY <4>1, <4>3 DEF ProbeOsuProcess, Marked, IsOk, Value, Ok, Unavailable, Error
          <5>2. QED
            BY <3>1, <4>1, <5>1 DEF Fresh
        <4>4. CASE ~osu.running
          <5>1. Kept = Parse(files["mine"])
            BY <4>4 DEF Kept
          <5>2. QED
            BY <1>1, <3>1, <4>1, <4>2, <5>1 DEF Fresh
        <4>5. QED
          BY <4>3, <4>4
      <3>3. CASE NextProbe # "process"
        <4>1. /\ "process" \in DOMAIN probes' <=> "process" \in DOMAIN probes
              /\ "process" \in DOMAIN probes => probes'["process"] = probes["process"]
          BY <3>1, <3>3
        <4>2. "process" \in DOMAIN probes => Marked(probes') = Marked(probes)
          BY <4>1 DEF Marked
        <4>3. QED
          BY <1>1, <2>0, <3>1, <4>1, <4>2 DEF Fresh
      <3>4. QED
        BY <3>2, <3>3
    <2>4. CASE Report
      <3>1. /\ step = "rules" /\ step' = "done" /\ read' = read /\ raced' = raced
            /\ report' = RunRules(AllRules, read, probes)
        BY <1>3, <2>4 DEF Report, Rules, ReadsTheUsersFile
      <3>2. read = Kept \/ raced \/ ("process" \in DOMAIN probes => Marked(probes))
        BY <2>0, <3>1 DEF Fresh
      <3>3. CASE "process" \in DOMAIN probes => Marked(probes)
        <4>1. Of(report', "sys.process.osu_running") # {}
          BY <3>1, <3>3, AnOpenGameIsReported
        <4>2. QED
          BY <3>1, <4>1 DEF Fresh, Of
      <3>4. CASE read = Kept \/ raced
        BY <1>1, <3>1, <3>4 DEF Fresh
      <3>5. QED
        BY <3>2, <3>3, <3>4
    <2>5. QED
      BY <2>1, <2>2, <2>3, <2>4
  <1>4. QED
    BY <1>0, <1>1, <1>2, <1>3 DEF FreshInv

LEMMA AdviceKeepsReportsFresh ==
    ASSUME FreshInv, Player
    PROVE  FreshInv'
  <1>1. PICK f : Follow(f)
    BY DEF Player
  <1>2. /\ step' = "start" /\ probes' = probes
        /\ DOMAIN osu' = DOMAIN osu /\ DOMAIN files' = DOMAIN files
    BY <1>1 DEF Follow
  <1>3. QED
    BY <1>2 DEF FreshInv, Fresh, Shapes, InOrder

LEMMA FreshInitially ==
    ASSUME DoctorInit
    PROVE  FreshInv
  <1>1. step = "start" /\ DOMAIN probes = {} /\ DOMAIN osu = {"running", "window", "memory"}
    BY DEF DoctorInit
  <1>2. "mine" \in DOMAIN files
    BY ScenariosAssumption DEF DoctorInit
  <1>3. InOrder
    BY <1>1, FS_EmptySet DEF InOrder
  <1>4. QED
    BY <1>1, <1>2, <1>3 DEF FreshInv, Fresh, Shapes

LEMMA FreshStays ==
    ASSUME FreshInv, [Next]_vars
    PROVE  FreshInv'
  <1>1. CASE UNCHANGED vars
    BY <1>1 DEF vars, doctorVars, FreshInv, Fresh, Shapes, InOrder, Kept, ReadsTheUsersFile,
                Marked, Of
  <1>2. QED
    BY <1>1, TheGameKeepsReportsFresh, DoctorKeepsReportsFresh, AdviceKeepsReportsFresh DEF Next

\* A report made from a file that is not what osu! will keep says that osu!
\* runs, or that this could not be checked, whenever osu! starts or exits
\* between the steps of collect_probes: only an exit between the reading of
\* the file and the look for the process leaves it unmarked.
THEOREM AStaleReportIsMarked == DoctorSpec => []AStaleReportSaysSo
  <1>1. DoctorInit => FreshInv
    BY FreshInitially
  <1>2. FreshInv /\ [Next]_vars => FreshInv'
    BY FreshStays
  <1>3. FreshInv => AStaleReportSaysSo
    BY DEF FreshInv, Fresh, AStaleReportSaysSo, ReadsTheUsersFile, Kept
  <1>4. QED
    BY <1>1, <1>2, <1>3, PTL DEF DoctorSpec

-----------------------------------------------------------------------------
(* No rule says of itself that it was not checked.                          *)

Speaks(result) == \A f \in result.found : f.id # "skipped"

LEMMA NothingSpeaks == Speaks(Quiet) /\ Speaks(Raises)
  BY DEF Speaks, Quiet, Raises

LEMMA AFindingSpeaks ==
    ASSUME NEW id, id # "skipped", NEW severity, NEW fact, NEW current, NEW advice
    PROVE  Speaks(ReportFinding(id, severity, fact, current, advice))
  <1> DEFINE finding == [id |-> id, severity |-> severity, fact |-> fact, current |-> current,
                         advice |-> advice]
  <1>1. CASE advice # {} /\ current = {}
    <2>1. ReportFinding(id, severity, fact, current, advice) = Raises
      BY <1>1, Zenon DEF ReportFinding
    <2>2. QED
      BY <2>1, NothingSpeaks
  <1>2. CASE ~(advice # {} /\ current = {})
    <2>1. ReportFinding(id, severity, fact, current, advice) = [raises |-> FALSE, found |-> {finding}]
      BY <1>2, Zenon DEF ReportFinding
    <2>2. finding.id = id
      OBVIOUS
    <2> HIDE DEF finding
    <2>3. QED
      BY <2>1, <2>2 DEF Speaks
  <1>3. QED
    BY <1>1, <1>2

LEMMA AllSpeak ==
    ASSUME NEW results, \A result \in results : Speaks(result)
    PROVE  Speaks(All(results))
  <1>1. All(results).found = UNION {result.found : result \in results}
    BY DEF All
  <1>2. QED
    BY <1>1 DEF Speaks

LEMMA ConfigRulesSpeak ==
    ASSUME NEW c
    PROVE  /\ Speaks(DuplicateLiveBindings(c)) /\ Speaks(CustomFrameLimitInert(c))
           /\ Speaks(VsyncLatency(c)) /\ Speaks(RawInputDisabled(c))
           /\ Speaks(MouseSpeedNotUnity(c)) /\ Speaks(CompatibilityMode(c))
  <1> USE NothingSpeaks, AFindingSpeaks
  <1>1. Speaks(DuplicateLiveBindings(c))
    <2> DEFINE One(conflict) ==
                 LET known == conflict.keys \cap DOMAIN StockDefaults IN
                 IF known # {}
                 THEN LET k == FirstInFile(c, known) IN
                      ReportFinding("cfg.keybind.duplicate_live", 0, TRUE,
                          AsIs(c, {FirstInFile(c, conflict.keys)}), {Cfg(k, StockDefaults[k])})
                 ELSE ReportFinding("cfg.keybind.duplicate_live", 0, TRUE, AsIs(c, conflict.keys), {})
    <2>1. \A conflict : Speaks(One(conflict))
      OBVIOUS
    <2>2. DuplicateLiveBindings(c) = All({One(conflict) : conflict \in Conflicts(c)})
      BY DEF DuplicateLiveBindings
    <2> HIDE DEF One
    <2>3. QED
      BY <2>1, <2>2, AllSpeak
  <1>2. Speaks(CustomFrameLimitInert(c))
    BY DEF CustomFrameLimitInert
  <1>3. Speaks(VsyncLatency(c))
    BY DEF VsyncLatency
  <1>4. Speaks(RawInputDisabled(c))
    BY DEF RawInputDisabled
  <1>5. Speaks(MouseSpeedNotUnity(c))
    BY DEF MouseSpeedNotUnity
  <1>6. Speaks(CompatibilityMode(c))
    BY DEF CompatibilityMode
  <1>7. QED
    BY <1>1, <1>2, <1>3, <1>4, <1>5, <1>6

LEMMA DisplayRulesSpeak ==
    ASSUME NEW c, NEW p
    PROVE  Speaks(RefreshRate(c, p)) /\ Speaks(FullscreenResolution(c, p))
  <1> USE NothingSpeaks, AFindingSpeaks
  <1>1. Speaks(RefreshRate(c, p))
    BY DEF RefreshRate
  <1>2. \A monitor, width, height : Speaks(FullscreenKnownMonitor(c, monitor, width, height))
    BY DEF FullscreenKnownMonitor
  <1>3. ASSUME NEW monitors, NEW width, NEW height
        PROVE  Speaks(FullscreenUnknownMonitor(c, monitors, width, height))
    <2> DEFINE native == {n \in monitors : n.width = width /\ n.height = height}
               slower == \E o \in monitors : \A n \in native : n.hz < o.hz
    <2> HIDE DEF native, slower
    <2>1. CASE native = {}
      BY <2>1 DEF FullscreenUnknownMonitor, native
    <2>2. CASE native # {} /\ slower
      BY <2>2 DEF FullscreenUnknownMonitor, native, slower
    <2>3. CASE native # {} /\ ~slower
      BY <2>3 DEF FullscreenUnknownMonitor, native, slower
    <2>4. QED
      BY <2>1, <2>2, <2>3
  <1>4. Speaks(FullscreenResolution(c, p))
    BY <1>2, <1>3 DEF FullscreenResolution
  <1>5. QED
    BY <1>1, <1>4

LEMMA SystemRulesSpeak ==
    ASSUME NEW c, NEW p
    PROVE  /\ Speaks(EnhancePointerPrecision(p)) /\ Speaks(SensitivityNotch(p))
           /\ Speaks(SmokeKeyTriggersStickyKeys(c, p)) /\ Speaks(OtherAccessibilityHotkeys(p))
           /\ Speaks(PowerPlan(p)) /\ Speaks(CoarseTimer(p)) /\ Speaks(GameMode(p))
           /\ Speaks(FullscreenOptimizations(p)) /\ Speaks(OsuRunning(p))
  <1> USE NothingSpeaks, AFindingSpeaks
  <1>1. Speaks(EnhancePointerPrecision(p))
    BY DEF EnhancePointerPrecision
  <1>2. Speaks(SensitivityNotch(p))
    BY DEF SensitivityNotch
  <1>3. Speaks(SmokeKeyTriggersStickyKeys(c, p))
    BY Zenon DEF SmokeKeyTriggersStickyKeys
  <1>4. Speaks(OtherAccessibilityHotkeys(p))
    <2> DEFINE rows == {<<"filter", "sys.a11y.filterkeys_hotkey">>, <<"toggle", "sys.a11y.togglekeys_hotkey">>}
               One(row) == IF HotkeyArmed(Value(p.a11y), row[1])
                           THEN ReportFinding(row[2], 2, TRUE, {Windows(row[1], Text("armed"))},
                                    {Windows(row[1], Text("disarmed"))})
                           ELSE Quiet
    <2>1. \A row \in rows : row[2] # "skipped"
      OBVIOUS
    <2>2. \A row \in rows : Speaks(One(row))
      BY <2>1
    <2>3. OtherAccessibilityHotkeys(p) = All({One(row) : row \in rows})
      BY DEF OtherAccessibilityHotkeys
    <2> HIDE DEF One, rows
    <2>4. QED
      BY <2>2, <2>3, AllSpeak
  <1>5. Speaks(PowerPlan(p))
    BY DEF PowerPlan
  <1>6. Speaks(CoarseTimer(p))
    <2> DEFINE coarse == ReportFinding("sys.timer.resolution_coarse", 2, TRUE,
                             {Windows("timer", Num(Value(p.timer)))}, {})
               fine == Value(p.timer) <= 10000
    <2>1. CoarseTimer(p) = IF fine THEN Quiet ELSE coarse
      BY DEF CoarseTimer
    <2>2. Speaks(coarse)
      OBVIOUS
    <2> HIDE DEF fine, coarse
    <2>3. CoarseTimer(p) = Quiet \/ CoarseTimer(p) = coarse
      BY ONLY <2>1
    <2>4. QED
      BY ONLY <2>2, <2>3, NothingSpeaks
  <1>7. Speaks(GameMode(p))
    BY DEF GameMode
  <1>8. Speaks(FullscreenOptimizations(p))
    BY Zenon DEF FullscreenOptimizations
  <1>9. Speaks(OsuRunning(p))
    BY DEF OsuRunning
  <1>10. QED
    BY <1>1, <1>2, <1>3, <1>4, <1>5, <1>6, <1>7, <1>8, <1>9

LEMMA AudioRulesSpeak ==
    ASSUME NEW c, NEW p
    PROVE  Speaks(DeviceMismatch(c, p)) /\ Speaks(NoLowLatencyShared(p))
  <1> USE NothingSpeaks, AFindingSpeaks
  <1>1. Speaks(DeviceMismatch(c, p))
    BY DEF DeviceMismatch
  <1>2. Speaks(NoLowLatencyShared(p))
    BY DEF NoLowLatencyShared
  <1>3. QED
    BY <1>1, <1>2

LEMMA TheRegistryIs ==
    DOMAIN AllRules =
        {"cfg.keybind.duplicate_live",
         "cfg.frame.custom_limit_inert",
         "cfg.frame.vsync_latency",
         "cfg.mouse.raw_input_off",
         "cfg.mouse.speed_not_unity",
         "cfg.audio.compatibility_mode",
         "sys.display.refreshrate",
         "sys.display.fullscreen_resolution",
         "sys.mouse.enhance_pointer_precision",
         "sys.mouse.sensitivity_not_one_to_one",
         "sys.a11y.shift_binding_triggers_sticky_keys",
         "sys.a11y.other_hotkeys",
         "sys.power.throttling_scheme",
         "sys.timer.resolution_coarse",
         "sys.win.game_mode_on",
         "sys.win.fso_not_disabled",
         "sys.process.osu_running",
         "sys.audio.device_missing",
         "sys.audio.no_low_latency_shared"}
  BY DEF AllRules, ConfigOnlyRules, DisplayRules, SystemRules, AudioRules

LEMMA EveryRuleSpeaks ==
    ASSUME NEW r \in DOMAIN AllRules, NEW c, NEW p
    PROVE  Speaks(Evaluate(r, c, p))
  <1>1. CASE ~Require(r, p)
    <2>1. Evaluate(r, c, p) = Raises
      BY <1>1, Zenon DEF Evaluate
    <2>2. QED
      BY <2>1, NothingSpeaks
  <1>2. CASE Require(r, p)
    <2>1. Evaluate(r, c, p) \in
              {DuplicateLiveBindings(c), CustomFrameLimitInert(c), VsyncLatency(c), RawInputDisabled(c),
               MouseSpeedNotUnity(c), CompatibilityMode(c), RefreshRate(c, p), FullscreenResolution(c, p),
               EnhancePointerPrecision(p), SensitivityNotch(p), SmokeKeyTriggersStickyKeys(c, p),
               OtherAccessibilityHotkeys(p), PowerPlan(p), CoarseTimer(p), GameMode(p),
               FullscreenOptimizations(p), OsuRunning(p), DeviceMismatch(c, p), NoLowLatencyShared(p)}
      BY <1>2, TheRegistryIs DEF Evaluate
    <2>2. QED
      BY ONLY <2>1, ConfigRulesSpeak, DisplayRulesSpeak, SystemRulesSpeak, AudioRulesSpeak
  <1>3. QED
    BY <1>1, <1>2

\* What a report has of one rule.
PartOf(r, c, p) ==
    CASE Missing(AllRules[r], p) # {} -> By(r, {Skipped})
      [] Missing(AllRules[r], p) = {} /\ Evaluate(r, c, p).raises -> By(r, {Crashed})
      [] OTHER -> By(r, Evaluate(r, c, p).found)

LEMMA WhatIsReportedOfARule ==
    ASSUME NEW c, NEW p, NEW r \in DOMAIN AllRules
    PROVE  Of(RunRules(AllRules, c, p), r) = PartOf(r, c, p)
  <1>1. RunRules(AllRules, c, p) = UNION {PartOf(s, c, p) : s \in DOMAIN AllRules}
    BY DEF RunRules, PartOf
  <1>2. \A s : \A f \in PartOf(s, c, p) : f.rule = s
    BY DEF PartOf, By
  <1> HIDE DEF PartOf
  <1>3. QED
    BY <1>1, <1>2 DEF Of

\* run_rules says that a rule was not checked, and nothing else of it, exactly
\* when a probe it needs is missing.
LEMMA MissingIsNotChecked ==
    ASSUME NEW c, NEW p, NEW r \in DOMAIN AllRules
    PROVE  /\ Missing(AllRules[r], p) # {} => Of(RunRules(AllRules, c, p), r) = NotChecked(r)
           /\ Missing(AllRules[r], p) = {} => NotChecked(r) \cap RunRules(AllRules, c, p) = {}
  <1>1. Of(RunRules(AllRules, c, p), r) = PartOf(r, c, p)
    BY WhatIsReportedOfARule
  <1>2. Missing(AllRules[r], p) # {} => PartOf(r, c, p) = NotChecked(r)
    BY DEF PartOf, NotChecked
  <1>3. ASSUME Missing(AllRules[r], p) = {}
        PROVE  NotChecked(r) \cap RunRules(AllRules, c, p) = {}
    <2> SUFFICES ASSUME NEW f \in NotChecked(r), f \in RunRules(AllRules, c, p) PROVE FALSE
      OBVIOUS
    <2>1. f.rule = r /\ f.finding.id = "skipped"
      BY DEF NotChecked, By, Skipped
    <2>2. f \in PartOf(r, c, p)
      BY <1>1, <2>1 DEF Of
    <2>3. PartOf(r, c, p) \in {By(r, {Crashed}), By(r, Evaluate(r, c, p).found)}
      BY <1>3 DEF PartOf
    <2>4. f.finding = Crashed \/ f.finding \in Evaluate(r, c, p).found
      BY <2>2, <2>3 DEF By
    <2>5. f.finding.id # "skipped"
      BY <2>4, EveryRuleSpeaks DEF Speaks, Crashed
    <2>6. QED
      BY <2>1, <2>5
  <1>4. QED
    BY <1>1, <1>2, <1>3

-----------------------------------------------------------------------------
(* A reading that could not be taken.                                      *)

Readings == {"displays", "process", "mouse", "a11y", "timer", "power", "gamebar", "audio", "fso"}

PsutilKnown ==
    "psutil" \in DOMAIN machine /\ machine.psutil \in {"installed", "missing", "raises"}

IsReportedRightly(r) ==
    IF \E p \in AllRules[r] : CannotBeRead(p) THEN Of(report, r) = NotChecked(r)
    ELSE NotChecked(r) \cap report = {}

ReadingsInv ==
    /\ InOrder
    /\ PsutilKnown
    /\ step \in {"start", "probing", "rules", "done"}
    /\ step \in {"probing", "rules"} =>
           \A p \in DOMAIN probes \cap Readings : CannotBeRead(p) <=> ~IsOk(probes[p])
    /\ step = "rules" /\ ~scenario.args.noProbes => Readings \subseteq DOMAIN probes
    /\ HasProbed => \A r \in DOMAIN AllRules : IsReportedRightly(r)

LEMMA RulesNeedReadings ==
    \A r \in DOMAIN AllRules : AllRules[r] \subseteq Readings
  <1>1. \A r \in DOMAIN ConfigOnlyRules : ConfigOnlyRules[r] \subseteq Readings
    BY DEF ConfigOnlyRules
  <1>2. \A r \in DOMAIN DisplayRules : DisplayRules[r] \subseteq Readings
    BY DEF DisplayRules, Readings
  <1>3. \A r \in DOMAIN SystemRules : SystemRules[r] \subseteq Readings
    <2> SUFFICES ASSUME NEW r \in DOMAIN SystemRules PROVE SystemRules[r] \subseteq Readings
      OBVIOUS
    <2>1. SystemRules[r] \in {{"power"}, {"timer"}, {"gamebar"}, {"fso"}, {"process"}, {"mouse"}, {"a11y"}}
      BY DEF SystemRules
    <2>2. QED
      BY <2>1 DEF Readings
  <1>4. \A r \in DOMAIN AudioRules : AudioRules[r] \subseteq Readings
    BY DEF AudioRules, Readings
  <1>5. \A r \in DOMAIN AllRules :
            \/ r \in DOMAIN ConfigOnlyRules /\ AllRules[r] = ConfigOnlyRules[r]
            \/ r \in DOMAIN DisplayRules /\ AllRules[r] = DisplayRules[r]
            \/ r \in DOMAIN SystemRules /\ AllRules[r] = SystemRules[r]
            \/ r \in DOMAIN AudioRules /\ AllRules[r] = AudioRules[r]
    BY DEF AllRules
  <1>6. QED
    BY <1>1, <1>2, <1>3, <1>4, <1>5

LEMMA AReadingFailsAsItsProbeDoes ==
    ASSUME PsutilKnown, NEW p \in Readings
    PROVE  CannotBeRead(p) <=> ~IsOk(ResultOf(p))
  <1> USE DEF IsOk, Ok, Unavailable, Error
  <1>0. Unavailable[1] = "unavailable" /\ Error[1] = "error" /\ <<outcome>>[1] = outcome
    OBVIOUS
  <1>1. CASE p = "displays"
    BY <1>1 DEF CannotBeRead, ResultOf, ProbeDisplays
  <1>2. CASE p = "process"
    BY <1>2 DEF CannotBeRead, ResultOf, ProbeOsuProcess, PsutilKnown
  <1>3. CASE p = "mouse"
    BY <1>3 DEF CannotBeRead, ResultOf, ProbeMouse
  <1>4. CASE p = "a11y"
    BY <1>4 DEF CannotBeRead, ResultOf, ProbeAccessibility
  <1>5. CASE p = "timer"
    BY <1>5 DEF CannotBeRead, ResultOf, ProbeTimerResolution, Outcome, RaisesOSError, Fails
  <1>6. CASE p = "power"
    BY <1>6 DEF CannotBeRead, ResultOf, ProbePowerScheme, Outcome, RaisesOSError, Fails
  <1>7. CASE p = "gamebar"
    BY <1>7 DEF CannotBeRead, ResultOf, ProbeGameBar
  <1>8. CASE p = "audio"
    BY <1>8 DEF CannotBeRead, ResultOf
  <1>9. CASE p = "fso"
    BY <1>9 DEF CannotBeRead, ResultOf, ProbeFullscreenOptimizations
  <1>10. QED
    BY <1>1, <1>2, <1>3, <1>4, <1>5, <1>6, <1>7, <1>8, <1>9 DEF Readings

LEMMA TheGameChangesNoReading ==
    ASSUME ReadingsInv,
           OsuStarts \/ OsuExits \/ UNCHANGED vars
    PROVE  ReadingsInv'
  <1>1. /\ machine' = machine /\ outcome' = outcome /\ step' = step /\ probes' = probes
        /\ report' = report /\ code' = code /\ scenario' = scenario
    BY DEF OsuStarts, OsuExits, vars, doctorVars, audioVars
  <1>2. \A p : CannotBeRead(p)' = CannotBeRead(p)
    BY <1>1 DEF CannotBeRead
  <1>3. HasProbed' = HasProbed /\ \A r : IsReportedRightly(r)' <=> IsReportedRightly(r)
    BY <1>1, <1>2 DEF HasProbed, IsReportedRightly, NotChecked, Of
  <1>4. InOrder' /\ PsutilKnown'
    BY <1>1 DEF ReadingsInv, InOrder, PsutilKnown
  <1>5. QED
    BY <1>1, <1>2, <1>3, <1>4 DEF ReadingsInv

LEMMA AudioChangesNoReading ==
    ASSUME ReadingsInv, AudioStep
    PROVE  ReadingsInv'
  <1>1. /\ machine' = machine /\ step' = step /\ probes' = probes /\ step = "probing"
        /\ NextProbe = "audio"
    BY DEF AudioStep, doctorVars
  <1>2. "audio" \notin DOMAIN probes
    BY <1>1, TheNextIsNew DEF ReadingsInv
  <1>3. \A p \in Readings : p # "audio" => CannotBeRead(p)' = CannotBeRead(p)
    BY <1>1 DEF CannotBeRead, Readings
  <1>4. \A p \in DOMAIN probes' \cap Readings : CannotBeRead(p)' <=> ~IsOk(probes'[p])
    BY <1>1, <1>2, <1>3 DEF ReadingsInv
  <1>5. QED
    BY <1>1, <1>4 DEF ReadingsInv, InOrder, PsutilKnown, HasProbed

LEMMA CollectingKeepsReadings ==
    ASSUME ReadingsInv, CollectProbe
    PROVE  ReadingsInv'
  <1>1. /\ step = "probing" /\ step' \in {"probing", "rules"}
        /\ machine' = machine /\ outcome' = outcome
        /\ DOMAIN probes' = DOMAIN probes \cup {NextProbe}
        /\ \A p \in DOMAIN probes' : probes'[p] = IF p = NextProbe THEN ResultOf(p) ELSE probes[p]
    BY DEF CollectProbe, audioVars
  <1>2. \A p \in Readings : CannotBeRead(p)' = CannotBeRead(p)
    BY <1>1 DEF CannotBeRead
  <1>3. ASSUME NEW p \in DOMAIN probes' \cap Readings
        PROVE  CannotBeRead(p)' <=> ~IsOk(probes'[p])
    <2>1. CASE p = NextProbe
      BY <1>1, <1>2, <2>1, AReadingFailsAsItsProbeDoes DEF ReadingsInv
    <2>2. CASE p # NextProbe
      BY <1>1, <1>2, <2>2 DEF ReadingsInv
    <2>3. QED
      BY <2>1, <2>2
  <1>4. InOrder'
    BY TheNextIsCollected DEF ReadingsInv
  <1>5. step' = "rules" => Readings \subseteq DOMAIN probes'
    <2> SUFFICES ASSUME step' = "rules" PROVE Readings \subseteq DOMAIN probes'
      OBVIOUS
    <2> DEFINE n == Cardinality(DOMAIN probes)
    <2>1. n \in 0..9 /\ NextProbe = Order[n + 1] /\ NextProbe = Order[Len(Order)]
      BY <1>1, TheNextIsNew DEF ReadingsInv, CollectProbe
    <2>2. DOMAIN probes = {Order[i] : i \in 1..n}
      BY DEF ReadingsInv, InOrder
    <2> HIDE DEF n
    <2>3. n = 9
      BY <2>1 DEF Order
    <2>4. \A i \in 1..9 : Order[i] \in DOMAIN probes'
      BY <1>1, <2>2, <2>3
    <2>5. Order[10] \in DOMAIN probes'
      <3>1. n + 1 = 10
        BY ONLY <2>3
      <3>2. QED
        BY ONLY <1>1, <2>1, <3>1
    <2>6. /\ Order[1] = "displays" /\ Order[2] = "process" /\ Order[3] = "mouse"
          /\ Order[4] = "a11y" /\ Order[5] = "timer" /\ Order[6] = "power"
          /\ Order[7] = "gamebar" /\ Order[8] = "audio" /\ Order[10] = "fso"
      BY DEF Order
    <2>7. QED
      BY <2>4, <2>5, <2>6 DEF Readings
  <1>6. QED
    BY <1>1, <1>3, <1>4, <1>5 DEF ReadingsInv, PsutilKnown, HasProbed

LEMMA ReportingTellsWhatFailed ==
    ASSUME ReadingsInv, Report
    PROVE  ReadingsInv'
  <1>1. /\ step = "rules" /\ step' = "done" /\ scenario' = scenario /\ probes' = probes
        /\ machine' = machine /\ outcome' = outcome
        /\ report' = RunRules(Rules, read, probes)
    BY DEF Report, audioVars
  <1>2. \A p \in Readings : CannotBeRead(p)' = CannotBeRead(p)
    BY <1>1 DEF CannotBeRead
  <1>3. ASSUME ~scenario.args.noProbes, NEW r \in DOMAIN AllRules
        PROVE  IsReportedRightly(r)'
    <2>1. report' = RunRules(AllRules, read, probes)
      BY <1>1, <1>3 DEF Rules
    <2>2. \A p \in AllRules[r] :
              p \in DOMAIN probes /\ (CannotBeRead(p)' <=> ~IsOk(probes[p]))
      BY <1>1, <1>2, <1>3, RulesNeedReadings DEF ReadingsInv
    <2>3. (\E p \in AllRules[r] : CannotBeRead(p)') <=> Missing(AllRules[r], probes) # {}
      BY <2>2 DEF Missing
    <2>4. CASE Missing(AllRules[r], probes) # {}
      <3>1. Of(report', r) = NotChecked(r)
        BY <2>1, <2>4, MissingIsNotChecked
      <3>2. QED
        BY <2>3, <2>4, <3>1 DEF IsReportedRightly, Of, NotChecked
    <2>5. CASE Missing(AllRules[r], probes) = {}
      <3>1. NotChecked(r) \cap report' = {}
        BY <2>1, <2>5, MissingIsNotChecked
      <3>2. QED
        BY <2>3, <2>5, <3>1 DEF IsReportedRightly, NotChecked
    <2>6. QED
      BY <2>4, <2>5
  <1>4. QED
    BY <1>1, <1>3 DEF ReadingsInv, InOrder, PsutilKnown, HasProbed

LEMMA ReadingAgain ==
    ASSUME ReadingsInv, ReadConfig
    PROVE  ReadingsInv'
  <1>1. /\ machine' = machine /\ DOMAIN probes' = {}
        /\ \/ step' = "done" /\ code' = 2
           \/ step' = IF scenario'.args.noProbes THEN "rules" ELSE "probing"
    BY DEF ReadConfig
  <1>2. InOrder'
    BY <1>1, FS_EmptySet DEF InOrder
  <1>3. QED
    BY <1>1, <1>2 DEF ReadingsInv, PsutilKnown, HasProbed

LEMMA AdviceKeepsPsutil ==
    ASSUME ReadingsInv, Player
    PROVE  ReadingsInv'
  <1>1. PICK f : Follow(f)
    BY DEF Player
  <1>2. step' = "start" /\ probes' = probes /\ machine' = InWindows(machine, f.finding.advice)
    BY <1>1 DEF Follow
  <1>3. PsutilKnown'
    BY <1>2 DEF InWindows, ReadingsInv, PsutilKnown
  <1>4. QED
    BY <1>2, <1>3 DEF ReadingsInv, InOrder, HasProbed

\* A probe that failed never looks like a check that passed, for any machine:
\* every rule of the registry that needs it is reported by run_rules as not
\* checked and says nothing else, and no other rule is. Nothing is claimed of
\* what is lost from a reading whose probe is ok.
THEOREM WhatCannotBeReadIsReported == DoctorSpec => []AFailedProbeCostsItsRulesOnly
  <1>1. DoctorInit => ReadingsInv
    <2> SUFFICES ASSUME DoctorInit PROVE ReadingsInv
      OBVIOUS
    <2>1. step = "start" /\ DOMAIN probes = {}
      BY DEF DoctorInit
    <2>2. InOrder
      BY <2>1, FS_EmptySet DEF InOrder
    <2>3. PsutilKnown
      BY ScenariosAssumption DEF DoctorInit, PsutilKnown
    <2>4. QED
      BY <2>1, <2>2, <2>3 DEF ReadingsInv, HasProbed
  <1>2. ReadingsInv /\ [Next]_vars => ReadingsInv'
    BY TheGameChangesNoReading, AudioChangesNoReading, CollectingKeepsReadings,
       ReportingTellsWhatFailed, ReadingAgain, AdviceKeepsPsutil DEF Next
  <1>3. ReadingsInv => AFailedProbeCostsItsRulesOnly
    BY DEF ReadingsInv, AFailedProbeCostsItsRulesOnly, IsReportedRightly
  <1>4. QED
    BY <1>1, <1>2, <1>3, PTL DEF DoctorSpec

-----------------------------------------------------------------------------
(* What makes a rule fail.                                                  *)

\* A result that is no failure and has no finding that looks like one.
Harmless(result) == result.raises = FALSE /\ \A f \in result.found : f.id # "error"

LEMMA QuietIsHarmless == Harmless(Quiet)
  BY DEF Harmless, Quiet

LEMMA AFindingIsHarmless ==
    ASSUME NEW id, NEW severity, NEW fact, NEW current, NEW advice,
           id # "error", advice = {} \/ current # {}
    PROVE  Harmless(ReportFinding(id, severity, fact, current, advice))
  BY DEF Harmless, ReportFinding

LEMMA AllAreHarmless ==
    ASSUME NEW results, \A result \in results : Harmless(result)
    PROVE  Harmless(All(results))
  <1>1. All(results).found = UNION {result.found : result \in results}
    BY DEF All
  <1>2. All(results).raises = \E result \in results : result.raises
    BY DEF All
  <1>3. All(results).raises = FALSE
    BY <1>2 DEF Harmless
  <1>4. \A f \in All(results).found : f.id # "error"
    BY <1>1 DEF Harmless
  <1>5. QED
    BY <1>3, <1>4 DEF Harmless

LEMMA WhatIsIsNotEmpty ==
    ASSUME NEW c, NEW keys, NEW k \in keys
    PROVE  AsIs(c, keys) # {}
  BY DEF AsIs

LEMMA ASwitchReads ==
    ASSUME NEW key \in Switches, IsOfItsKind(key)
    PROVE  ~BoolFails(read, key)
  <1> DEFINE v == Get(read, key)
  <1>1. v \in {Absent, Num(0), Num(1)}
    BY DEF IsOfItsKind, Switches
  <1>2. QED
    BY <1>1 DEF BoolFails

LEMMA AWholeNumberReads ==
    ASSUME NEW key, key \notin Switches, key # "AudioDevice", key # "MouseSpeed", IsOfItsKind(key)
    PROVE  ~IntFails(read, key)
  BY DEF IsOfItsKind, IntFails, Given

LEMMA ASpeedReads ==
    ASSUME IsOfItsKind("MouseSpeed")
    PROVE  ~FloatFails(read, "MouseSpeed")
  BY DEF IsOfItsKind, FloatFails, Given, Switches

LEMMA ADeviceReads ==
    ASSUME IsOfItsKind("AudioDevice")
    PROVE  ~StrFails(read, "AudioDevice")
  BY DEF IsOfItsKind, StrFails, Switches

\* The rules over the configuration.
LEMMA ConflictsAreHarmless ==
    ASSUME NEW c
    PROVE  Harmless(DuplicateLiveBindings(c))
  <1> DEFINE id == "cfg.keybind.duplicate_live"
             known(conflict) == conflict.keys \cap DOMAIN StockDefaults
             first(conflict) == {FirstInFile(c, conflict.keys)}
             k(conflict) == FirstInFile(c, known(conflict))
             one(conflict) == IF known(conflict) # {}
                              THEN ReportFinding(id, 0, TRUE, AsIs(c, first(conflict)),
                                                 {Cfg(k(conflict), StockDefaults[k(conflict)])})
                              ELSE ReportFinding(id, 0, TRUE, AsIs(c, conflict.keys), {})
  <1>1. DuplicateLiveBindings(c) = All({one(conflict) : conflict \in Conflicts(c)})
    BY DEF DuplicateLiveBindings
  <1>2. ASSUME NEW conflict PROVE Harmless(one(conflict))
    <2>1. AsIs(c, first(conflict)) # {}
      BY WhatIsIsNotEmpty
    <2>2. QED
      BY <2>1, AFindingIsHarmless
  <1> HIDE DEF one
  <1>3. \A result \in {one(conflict) : conflict \in Conflicts(c)} : Harmless(result)
    BY <1>2
  <1>4. QED
    BY ONLY <1>1, <1>3, AllAreHarmless

LEMMA MouseRulesAreHarmless ==
    /\ IsOfItsKind("RawInput") => Harmless(RawInputDisabled(read))
    /\ IsOfItsKind("MouseSpeed") => Harmless(MouseSpeedNotUnity(read))
  <1>1. ASSUME IsOfItsKind("RawInput") PROVE Harmless(RawInputDisabled(read))
    <2>1. ~BoolFails(read, "RawInput")
      BY <1>1, ASwitchReads DEF Switches
    <2>2. AsIs(read, {"RawInput"}) # {}
      BY WhatIsIsNotEmpty
    <2>3. QED
      BY <2>1, <2>2, AFindingIsHarmless, QuietIsHarmless DEF RawInputDisabled
  <1>2. ASSUME IsOfItsKind("MouseSpeed") PROVE Harmless(MouseSpeedNotUnity(read))
    <2>1. ~FloatFails(read, "MouseSpeed")
      BY <1>2, ASpeedReads
    <2>2. AsIs(read, {"MouseSpeed"}) # {}
      BY WhatIsIsNotEmpty
    <2>3. QED
      BY <2>1, <2>2, AFindingIsHarmless, QuietIsHarmless DEF MouseSpeedNotUnity
  <1>3. QED
    BY <1>1, <1>2

LEMMA FrameAndAudioRulesAreHarmless ==
    /\ IsOfItsKind("CustomFrameLimit") => Harmless(CustomFrameLimitInert(read))
    /\ Harmless(VsyncLatency(read))
    /\ IsOfItsKind("AudioCompatibility") => Harmless(CompatibilityMode(read))
  <1>1. ASSUME IsOfItsKind("CustomFrameLimit") PROVE Harmless(CustomFrameLimitInert(read))
    <2>1. ~IntFails(read, "CustomFrameLimit")
      BY <1>1, AWholeNumberReads DEF Switches
    <2>2. QED
      BY <2>1, AFindingIsHarmless, QuietIsHarmless DEF CustomFrameLimitInert
  <1>2. Harmless(VsyncLatency(read))
    BY AFindingIsHarmless, QuietIsHarmless DEF VsyncLatency
  <1>3. ASSUME IsOfItsKind("AudioCompatibility") PROVE Harmless(CompatibilityMode(read))
    <2>1. ~BoolFails(read, "AudioCompatibility")
      BY <1>3, ASwitchReads DEF Switches
    <2>2. QED
      BY <2>1, AFindingIsHarmless, QuietIsHarmless DEF CompatibilityMode
  <1>4. QED
    BY <1>1, <1>2, <1>3

\* The rules over the displays.
LEMMA RefreshRateIsHarmless ==
    ASSUME NEW p, IsOfItsKind("RefreshRate"), IsOfItsKind("OverrideRefreshRate")
    PROVE  Harmless(RefreshRate(read, p))
  <1>1. ~IntFails(read, "RefreshRate")
    BY AWholeNumberReads DEF Switches
  <1>2. ~BoolFails(read, "OverrideRefreshRate")
    BY ASwitchReads DEF Switches
  <1>3. AsIs(read, {"RefreshRate"}) # {}
    BY WhatIsIsNotEmpty
  <1>4. QED
    BY <1>1, <1>2, <1>3, AFindingIsHarmless, QuietIsHarmless DEF RefreshRate

LEMMA FullscreenIsHarmless ==
    ASSUME NEW p, IsOfItsKind("Fullscreen"), IsOfItsKind("WidthFullscreen"),
           IsOfItsKind("HeightFullscreen")
    PROVE  Harmless(FullscreenResolution(read, p))
  <1>1. ~BoolFails(read, "Fullscreen")
    BY ASwitchReads DEF Switches
  <1>2. ~IntFails(read, "WidthFullscreen") /\ ~IntFails(read, "HeightFullscreen")
    BY AWholeNumberReads DEF Switches
  <1>3. \A monitor, width, height : Harmless(FullscreenKnownMonitor(read, monitor, width, height))
    BY AFindingIsHarmless, QuietIsHarmless DEF FullscreenKnownMonitor
  <1>4. ASSUME NEW monitors, NEW width, NEW height
        PROVE  Harmless(FullscreenUnknownMonitor(read, monitors, width, height))
    <2> DEFINE native == {n \in monitors : n.width = width /\ n.height = height}
               slower == \E o \in monitors : \A n \in native : n.hz < o.hz
    <2> HIDE DEF native, slower
    <2>1. CASE native = {}
      BY <2>1, AFindingIsHarmless DEF FullscreenUnknownMonitor, native
    <2>2. CASE native # {} /\ slower
      BY <2>2, AFindingIsHarmless DEF FullscreenUnknownMonitor, native, slower
    <2>3. CASE native # {} /\ ~slower
      BY <2>3, QuietIsHarmless DEF FullscreenUnknownMonitor, native, slower
    <2>4. QED
      BY <2>1, <2>2, <2>3
  <1>5. QED
    BY <1>1, <1>2, <1>3, <1>4, QuietIsHarmless DEF FullscreenResolution

\* The rules over the system and the audio endpoint.
LEMMA SystemRulesAreHarmless ==
    ASSUME NEW p
    PROVE  /\ Harmless(EnhancePointerPrecision(p))
           /\ Harmless(SensitivityNotch(p))
           /\ Harmless(SmokeKeyTriggersStickyKeys(read, p))
           /\ Harmless(OtherAccessibilityHotkeys(p))
           /\ Harmless(PowerPlan(p))
           /\ Harmless(CoarseTimer(p))
           /\ Harmless(GameMode(p))
           /\ Harmless(FullscreenOptimizations(p))
           /\ Harmless(OsuRunning(p))
  <1> USE AFindingIsHarmless, QuietIsHarmless
  <1>1. Harmless(EnhancePointerPrecision(p))
    BY DEF EnhancePointerPrecision
  <1>2. Harmless(SensitivityNotch(p))
    BY DEF SensitivityNotch
  <1>3. Harmless(SmokeKeyTriggersStickyKeys(read, p))
    BY DEF SmokeKeyTriggersStickyKeys
  <1>4. Harmless(OtherAccessibilityHotkeys(p))
    <2> DEFINE rows == {<<"filter", "sys.a11y.filterkeys_hotkey">>, <<"toggle", "sys.a11y.togglekeys_hotkey">>}
               one(row) == IF HotkeyArmed(Value(p.a11y), row[1])
                           THEN ReportFinding(row[2], 2, TRUE, {Windows(row[1], Text("armed"))},
                                              {Windows(row[1], Text("disarmed"))})
                           ELSE Quiet
    <2>1. OtherAccessibilityHotkeys(p) = All({one(row) : row \in rows})
      BY DEF OtherAccessibilityHotkeys
    <2>2. ASSUME NEW row \in rows PROVE Harmless(one(row))
      <3>1. row[2] # "error"
        OBVIOUS
      <3>2. QED
        BY <3>1
    <2> HIDE DEF one, rows
    <2>3. \A result \in {one(row) : row \in rows} : Harmless(result)
      BY <2>2
    <2>4. QED
      BY ONLY <2>1, <2>3, AllAreHarmless
  <1>5. Harmless(PowerPlan(p))
    BY DEF PowerPlan
  <1>6. Harmless(CoarseTimer(p))
    <2> DEFINE coarse == ReportFinding("sys.timer.resolution_coarse", 2, TRUE,
                             {Windows("timer", Num(Value(p.timer)))}, {})
               fine == Value(p.timer) <= 10000
    <2>1. CoarseTimer(p) = IF fine THEN Quiet ELSE coarse
      BY DEF CoarseTimer
    <2>2. Harmless(coarse)
      OBVIOUS
    <2> HIDE DEF fine, coarse
    <2>3. CoarseTimer(p) = Quiet \/ CoarseTimer(p) = coarse
      BY ONLY <2>1
    <2>4. QED
      BY ONLY <2>2, <2>3, QuietIsHarmless
  <1>7. Harmless(GameMode(p))
    BY DEF GameMode
  <1>8. Harmless(FullscreenOptimizations(p))
    BY DEF FullscreenOptimizations
  <1>9. Harmless(OsuRunning(p))
    BY DEF OsuRunning
  <1>10. QED
    BY ONLY <1>1, <1>2, <1>3, <1>4, <1>5, <1>6, <1>7, <1>8, <1>9

LEMMA AudioRulesAreHarmless ==
    ASSUME NEW p
    PROVE  /\ IsOfItsKind("AudioDevice") => Harmless(DeviceMismatch(read, p))
           /\ Harmless(NoLowLatencyShared(p))
  <1>1. ASSUME IsOfItsKind("AudioDevice") PROVE Harmless(DeviceMismatch(read, p))
    <2>1. ~StrFails(read, "AudioDevice")
      BY <1>1, ADeviceReads
    <2>2. QED
      BY <2>1, AFindingIsHarmless, QuietIsHarmless DEF DeviceMismatch
  <1>2. Harmless(NoLowLatencyShared(p))
    BY AFindingIsHarmless, QuietIsHarmless DEF NoLowLatencyShared
  <1>3. QED
    BY <1>1, <1>2

LEMMA TheKeysAre ==
    /\ KeysRead["cfg.frame.custom_limit_inert"] = {"CustomFrameLimit"}
    /\ KeysRead["cfg.mouse.raw_input_off"] = {"RawInput"}
    /\ KeysRead["cfg.mouse.speed_not_unity"] = {"MouseSpeed"}
    /\ KeysRead["cfg.audio.compatibility_mode"] = {"AudioCompatibility"}
    /\ KeysRead["sys.display.refreshrate"] = {"RefreshRate", "OverrideRefreshRate"}
    /\ KeysRead["sys.display.fullscreen_resolution"] = {"Fullscreen", "WidthFullscreen", "HeightFullscreen"}
    /\ KeysRead["sys.audio.device_missing"] = {"AudioDevice"}
  BY TheRegistryIs DEF KeysRead

LEMMA ARuleThatCanReadIsHarmless ==
    ASSUME NEW r \in DOMAIN AllRules, NEW p, Require(r, p),
           \A key \in KeysRead[r] : IsOfItsKind(key)
    PROVE  Harmless(Evaluate(r, read, p))
  <1>1. CASE r = "cfg.keybind.duplicate_live"
    <2>1. Evaluate(r, read, p) = DuplicateLiveBindings(read)
      BY <1>1 DEF Evaluate
    <2>2. QED
      BY ONLY <2>1, ConflictsAreHarmless
  <1>2. CASE r = "cfg.frame.custom_limit_inert"
    <2>1. Evaluate(r, read, p) = CustomFrameLimitInert(read)
      BY <1>2 DEF Evaluate
    <2>2. IsOfItsKind("CustomFrameLimit")
      BY <1>2, TheKeysAre
    <2>3. QED
      BY ONLY <2>1, <2>2, FrameAndAudioRulesAreHarmless
  <1>3. CASE r = "cfg.frame.vsync_latency"
    <2>1. Evaluate(r, read, p) = VsyncLatency(read)
      BY <1>3 DEF Evaluate
    <2>2. QED
      BY ONLY <2>1, FrameAndAudioRulesAreHarmless
  <1>4. CASE r = "cfg.mouse.raw_input_off"
    <2>1. Evaluate(r, read, p) = RawInputDisabled(read)
      BY <1>4 DEF Evaluate
    <2>2. IsOfItsKind("RawInput")
      BY <1>4, TheKeysAre
    <2>3. QED
      BY ONLY <2>1, <2>2, MouseRulesAreHarmless
  <1>5. CASE r = "cfg.mouse.speed_not_unity"
    <2>1. Evaluate(r, read, p) = MouseSpeedNotUnity(read)
      BY <1>5 DEF Evaluate
    <2>2. IsOfItsKind("MouseSpeed")
      BY <1>5, TheKeysAre
    <2>3. QED
      BY ONLY <2>1, <2>2, MouseRulesAreHarmless
  <1>6. CASE r = "cfg.audio.compatibility_mode"
    <2>1. Evaluate(r, read, p) = CompatibilityMode(read)
      BY <1>6 DEF Evaluate
    <2>2. IsOfItsKind("AudioCompatibility")
      BY <1>6, TheKeysAre
    <2>3. QED
      BY ONLY <2>1, <2>2, FrameAndAudioRulesAreHarmless
  <1>7. CASE r = "sys.display.refreshrate"
    <2>1. Evaluate(r, read, p) = RefreshRate(read, p)
      BY <1>7 DEF Evaluate
    <2>2. IsOfItsKind("RefreshRate") /\ IsOfItsKind("OverrideRefreshRate")
      BY <1>7, TheKeysAre
    <2>3. QED
      BY ONLY <2>1, <2>2, RefreshRateIsHarmless
  <1>8. CASE r = "sys.display.fullscreen_resolution"
    <2>1. Evaluate(r, read, p) = FullscreenResolution(read, p)
      BY <1>8 DEF Evaluate
    <2>2. IsOfItsKind("Fullscreen") /\ IsOfItsKind("WidthFullscreen") /\ IsOfItsKind("HeightFullscreen")
      BY <1>8, TheKeysAre
    <2>3. QED
      BY ONLY <2>1, <2>2, FullscreenIsHarmless
  <1>9. CASE r = "sys.mouse.enhance_pointer_precision"
    <2>1. Evaluate(r, read, p) = EnhancePointerPrecision(p)
      BY <1>9 DEF Evaluate
    <2>2. QED
      BY ONLY <2>1, SystemRulesAreHarmless
  <1>10. CASE r = "sys.mouse.sensitivity_not_one_to_one"
    <2>1. Evaluate(r, read, p) = SensitivityNotch(p)
      BY <1>10 DEF Evaluate
    <2>2. QED
      BY ONLY <2>1, SystemRulesAreHarmless
  <1>11. CASE r = "sys.a11y.shift_binding_triggers_sticky_keys"
    <2>1. Evaluate(r, read, p) = SmokeKeyTriggersStickyKeys(read, p)
      BY <1>11 DEF Evaluate
    <2>2. QED
      BY ONLY <2>1, SystemRulesAreHarmless
  <1>12. CASE r = "sys.a11y.other_hotkeys"
    <2>1. Evaluate(r, read, p) = OtherAccessibilityHotkeys(p)
      BY <1>12 DEF Evaluate
    <2>2. QED
      BY ONLY <2>1, SystemRulesAreHarmless
  <1>13. CASE r = "sys.power.throttling_scheme"
    <2>1. Evaluate(r, read, p) = PowerPlan(p)
      BY <1>13 DEF Evaluate
    <2>2. QED
      BY ONLY <2>1, SystemRulesAreHarmless
  <1>14. CASE r = "sys.timer.resolution_coarse"
    <2>1. Evaluate(r, read, p) = CoarseTimer(p)
      BY <1>14 DEF Evaluate
    <2>2. QED
      BY ONLY <2>1, SystemRulesAreHarmless
  <1>15. CASE r = "sys.win.game_mode_on"
    <2>1. Evaluate(r, read, p) = GameMode(p)
      BY <1>15 DEF Evaluate
    <2>2. QED
      BY ONLY <2>1, SystemRulesAreHarmless
  <1>16. CASE r = "sys.win.fso_not_disabled"
    <2>1. Evaluate(r, read, p) = FullscreenOptimizations(p)
      BY <1>16 DEF Evaluate
    <2>2. QED
      BY ONLY <2>1, SystemRulesAreHarmless
  <1>17. CASE r = "sys.process.osu_running"
    <2>1. Evaluate(r, read, p) = OsuRunning(p)
      BY <1>17 DEF Evaluate
    <2>2. QED
      BY ONLY <2>1, SystemRulesAreHarmless
  <1>18. CASE r = "sys.audio.device_missing"
    <2>1. Evaluate(r, read, p) = DeviceMismatch(read, p)
      BY <1>18 DEF Evaluate
    <2>2. IsOfItsKind("AudioDevice")
      BY <1>18, TheKeysAre
    <2>3. QED
      BY ONLY <2>1, <2>2, AudioRulesAreHarmless
  <1>19. CASE r = "sys.audio.no_low_latency_shared"
    <2>1. Evaluate(r, read, p) = NoLowLatencyShared(p)
      BY <1>19 DEF Evaluate
    <2>2. QED
      BY ONLY <2>1, AudioRulesAreHarmless
  <1>20. QED
    BY ONLY r \in DOMAIN AllRules, TheRegistryIs, <1>1, <1>2, <1>3, <1>4, <1>5, <1>6, <1>7, <1>8, <1>9, <1>10, <1>11, <1>12, <1>13, <1>14, <1>15, <1>16, <1>17, <1>18, <1>19

\* run_rules adds a failure to what the rules found only for one that raised.
LEMMA OnlyARuleThatRaisesFails ==
    ASSUME NEW rules, DOMAIN rules \subseteq DOMAIN AllRules,
           \A r \in DOMAIN rules : rules[r] = AllRules[r],
           NEW p, NEW f \in RunRules(rules, read, p), f.finding.id = "error"
    PROVE  \E key \in KeysRead[f.rule] : ~IsOfItsKind(key)
  <1> DEFINE part(r) == CASE Missing(rules[r], p) # {} -> By(r, {Skipped})
                          [] Missing(rules[r], p) = {} /\ Evaluate(r, read, p).raises -> By(r, {Crashed})
                          [] OTHER -> By(r, Evaluate(r, read, p).found)
  <1>1. PICK r \in DOMAIN rules : f \in part(r)
    BY DEF RunRules
  <1>2. f.rule = r
    BY <1>1 DEF By
  <1>3. CASE Missing(rules[r], p) # {}
    <2>1. f.finding = Skipped
      BY <1>1, <1>3 DEF By
    <2>2. QED
      BY <2>1 DEF Skipped
  <1>4. CASE Missing(rules[r], p) = {}
    <2>1. Require(r, p)
      BY <1>4 DEF Missing, Require
    <2>2. ASSUME \A key \in KeysRead[r] : IsOfItsKind(key)
          PROVE  FALSE
      <3>1. Evaluate(r, read, p).raises = FALSE /\ \A g \in Evaluate(r, read, p).found : g.id # "error"
        BY <2>1, <2>2, ARuleThatCanReadIsHarmless DEF Harmless
      <3>2. f \in By(r, Evaluate(r, read, p).found)
        BY <1>1, <1>4, <3>1
      <3>3. f.finding \in Evaluate(r, read, p).found
        BY <3>2 DEF By
      <3>4. QED
        BY <3>1, <3>3
    <2>3. QED
      BY <1>2, <2>2
  <1>5. QED
    BY <1>3, <1>4

LEMMA TheRulesAre ==
    DOMAIN Rules \subseteq DOMAIN AllRules /\ \A r \in DOMAIN Rules : Rules[r] = AllRules[r]
  <1>1. \A r \in DOMAIN ConfigOnlyRules :
          r \notin DOMAIN DisplayRules \union DOMAIN SystemRules \union DOMAIN AudioRules
    BY DEF ConfigOnlyRules, DisplayRules, SystemRules, AudioRules
  <1>2. \A r \in DOMAIN ConfigOnlyRules : r \in DOMAIN AllRules /\ AllRules[r] = ConfigOnlyRules[r]
    BY <1>1 DEF AllRules
  <1>3. Rules = ConfigOnlyRules \/ Rules = AllRules
    BY DEF Rules
  <1>4. QED
    BY ONLY <1>2, <1>3

LEMMA ReportingFailsWell ==
    ASSUME Report
    PROVE  ARuleFailsOnlyOnABadValue'
  <1>1. report' = RunRules(Rules, read, probes) /\ read' = read
    BY DEF Report
  <1>2. \A key : IsOfItsKind(key)' = IsOfItsKind(key)
    BY <1>1 DEF IsOfItsKind
  <1>3. \A f \in RunRules(Rules, read, probes) :
          f.finding.id = "error" => \E key \in KeysRead[f.rule] : ~IsOfItsKind(key)
    BY TheRulesAre, OnlyARuleThatRaisesFails
  <1>4. QED
    BY <1>1, <1>2, <1>3 DEF ARuleFailsOnlyOnABadValue

\* For any configuration and whatever the probes gave, run_rules reports a rule
\* as failed only where the configuration has a value of another kind than the
\* rule asks for: its requirements guard every reading it takes.
THEOREM FailuresAreBadValues == DoctorSpec => []ARuleFailsOnlyOnABadValue
  <1>1. DoctorInit => ARuleFailsOnlyOnABadValue
    BY DEF DoctorInit, ARuleFailsOnlyOnABadValue
  <1>2. ARuleFailsOnlyOnABadValue /\ [Next]_vars => ARuleFailsOnlyOnABadValue'
    <2> SUFFICES ASSUME ARuleFailsOnlyOnABadValue, [Next]_vars
                 PROVE  ARuleFailsOnlyOnABadValue'
      OBVIOUS
    <2>1. CASE report' = report /\ read' = read
      <3>1. \A key : IsOfItsKind(key)' = IsOfItsKind(key)
        BY <2>1 DEF IsOfItsKind
      <3>2. QED
        BY <2>1, <3>1 DEF ARuleFailsOnlyOnABadValue
    <2>2. CASE Report
      BY <2>2, ReportingFailsWell
    <2>3. CASE ReadConfig
      <3>1. report' = {}
        BY <2>3 DEF ReadConfig
      <3>2. QED
        BY <3>1 DEF ARuleFailsOnlyOnABadValue
    <2>4. CASE OsuStarts \/ OsuExits \/ AudioStep \/ CollectProbe \/ Player \/ UNCHANGED vars
      <3>1. report' = report /\ read' = read
        BY <2>4 DEF OsuStarts, OsuExits, AudioStep, CollectProbe, Player, Follow, vars, doctorVars
      <3>2. QED
        BY <2>1, <3>1
    <2>5. QED
      BY <2>2, <2>3, <2>4 DEF Next
  <1>3. QED
    BY <1>1, <1>2, PTL DEF DoctorSpec

-----------------------------------------------------------------------------
(* Advice that was followed.                                                *)

\* A result of which every finding has the advice.
Advises(result, advice) == \A f \in result.found : f.advice = advice

LEMMA NothingIsAdvised == \A advice : Advises(Quiet, advice) /\ Advises(Raises, advice)
  BY DEF Advises, Quiet, Raises

LEMMA AFindingAdvises ==
    ASSUME NEW id, NEW severity, NEW fact, NEW current, NEW advice
    PROVE  Advises(ReportFinding(id, severity, fact, current, advice), advice)
  <1> DEFINE finding == [id |-> id, severity |-> severity, fact |-> fact, current |-> current,
                         advice |-> advice]
  <1>1. CASE advice # {} /\ current = {}
    <2>1. ReportFinding(id, severity, fact, current, advice) = Raises
      BY <1>1, Zenon DEF ReportFinding
    <2>2. QED
      BY <2>1 DEF Advises, Raises
  <1>2. CASE ~(advice # {} /\ current = {})
    <2>1. ReportFinding(id, severity, fact, current, advice) = [raises |-> FALSE, found |-> {finding}]
      BY <1>2, Zenon DEF ReportFinding
    <2>2. finding.advice = advice
      OBVIOUS
    <2> HIDE DEF finding
    <2>3. QED
      BY <2>1, <2>2 DEF Advises
  <1>3. QED
    BY <1>1, <1>2

Advising ==
    {"cfg.keybind.duplicate_live", "cfg.mouse.raw_input_off", "cfg.mouse.speed_not_unity",
     "sys.display.refreshrate", "sys.mouse.enhance_pointer_precision",
     "sys.mouse.sensitivity_not_one_to_one", "sys.a11y.shift_binding_triggers_sticky_keys",
     "sys.a11y.other_hotkeys", "sys.power.throttling_scheme", "sys.win.fso_not_disabled"}

LEMMA TheOthersAdviseNothing ==
    ASSUME NEW r \in DOMAIN AllRules \ Advising, NEW c, NEW p
    PROVE  Advises(Evaluate(r, c, p), {})
  <1> USE NothingIsAdvised, AFindingAdvises
  <1>1. CASE ~Require(r, p)
    <2>1. Evaluate(r, c, p) = Raises
      BY <1>1, Zenon DEF Evaluate
    <2>2. QED
      BY <2>1
  <1>2. CASE Require(r, p)
    <2>1. Advises(CustomFrameLimitInert(c), {})
      BY DEF CustomFrameLimitInert
    <2>2. Advises(VsyncLatency(c), {})
      BY DEF VsyncLatency
    <2>3. Advises(CompatibilityMode(c), {})
      BY DEF CompatibilityMode
    <2>4. Advises(FullscreenResolution(c, p), {})
      <3>1. \A monitor, width, height : Advises(FullscreenKnownMonitor(c, monitor, width, height), {})
        BY DEF FullscreenKnownMonitor
      <3>2. ASSUME NEW monitors, NEW width, NEW height
            PROVE  Advises(FullscreenUnknownMonitor(c, monitors, width, height), {})
        <4> DEFINE native == {n \in monitors : n.width = width /\ n.height = height}
                   slower == \E o \in monitors : \A n \in native : n.hz < o.hz
        <4> HIDE DEF native, slower
        <4>1. CASE native = {}
          BY <4>1 DEF FullscreenUnknownMonitor, native
        <4>2. CASE native # {} /\ slower
          BY <4>2 DEF FullscreenUnknownMonitor, native, slower
        <4>3. CASE native # {} /\ ~slower
          BY <4>3 DEF FullscreenUnknownMonitor, native, slower
        <4>4. QED
          BY <4>1, <4>2, <4>3
      <3>3. QED
        BY <3>1, <3>2 DEF FullscreenResolution
    <2>5. Advises(CoarseTimer(p), {})
      <3> DEFINE coarse == ReportFinding("sys.timer.resolution_coarse", 2, TRUE,
                               {Windows("timer", Num(Value(p.timer)))}, {})
                 fine == Value(p.timer) <= 10000
      <3>1. CoarseTimer(p) = IF fine THEN Quiet ELSE coarse
        BY DEF CoarseTimer
      <3>2. Advises(coarse, {})
        OBVIOUS
      <3> HIDE DEF fine, coarse
      <3>3. CoarseTimer(p) = Quiet \/ CoarseTimer(p) = coarse
        BY ONLY <3>1
      <3>4. QED
        BY ONLY <3>2, <3>3, NothingIsAdvised
    <2>6. Advises(GameMode(p), {})
      BY DEF GameMode
    <2>7. Advises(OsuRunning(p), {})
      BY DEF OsuRunning
    <2>8. Advises(DeviceMismatch(c, p), {})
      BY DEF DeviceMismatch
    <2>9. Advises(NoLowLatencyShared(p), {})
      BY DEF NoLowLatencyShared
    <2>10. r \in {"cfg.frame.custom_limit_inert", "cfg.frame.vsync_latency",
                  "cfg.audio.compatibility_mode", "sys.display.fullscreen_resolution",
                  "sys.timer.resolution_coarse", "sys.win.game_mode_on", "sys.process.osu_running",
                  "sys.audio.device_missing", "sys.audio.no_low_latency_shared"}
      BY TheRegistryIs DEF Advising
    <2>11. Evaluate(r, c, p) \in
              {CustomFrameLimitInert(c), VsyncLatency(c), CompatibilityMode(c), FullscreenResolution(c, p),
               CoarseTimer(p), GameMode(p), OsuRunning(p), DeviceMismatch(c, p), NoLowLatencyShared(p)}
      BY <1>2, <2>10 DEF Evaluate
    <2>12. QED
      BY ONLY <2>1, <2>2, <2>3, <2>4, <2>5, <2>6, <2>7, <2>8, <2>9, <2>11
  <1>3. QED
    BY <1>1, <1>2

LEMMA AReportHasParts ==
    ASSUME NEW c, NEW p
    PROVE  /\ \A f \in RunRules(Rules, c, p) : f.rule \in DOMAIN Rules /\ f \in PartOf(f.rule, c, p)
           /\ \A r \in DOMAIN Rules : PartOf(r, c, p) \subseteq RunRules(Rules, c, p)
  <1>1. RunRules(Rules, c, p) = UNION {PartOf(r, c, p) : r \in DOMAIN Rules}
    BY TheRulesAre DEF RunRules, PartOf
  <1>2. \A r : \A f \in PartOf(r, c, p) : f.rule = r
    BY DEF PartOf, By
  <1> HIDE DEF PartOf
  <1>3. ASSUME NEW f \in RunRules(Rules, c, p) PROVE f.rule \in DOMAIN Rules /\ f \in PartOf(f.rule, c, p)
    <2>1. PICK r \in DOMAIN Rules : f \in PartOf(r, c, p)
      BY <1>1
    <2>2. QED
      BY <1>2, <2>1
  <1>4. QED
    BY <1>1, <1>3

LEMMA NothingIsMissing ==
    ASSUME NEW r \in DOMAIN AllRules, NEW p
    PROVE  Missing(AllRules[r], p) = {} <=> Require(r, p)
  BY DEF Missing, Require

\* Advice comes from a rule that could be evaluated and did not fail.
LEMMA AdviceIsFound ==
    ASSUME NEW c, NEW p, NEW f \in RunRules(Rules, c, p), f.finding.advice # {}
    PROVE  /\ f.rule \in DOMAIN Rules \cap Advising /\ Require(f.rule, p)
           /\ f.finding \in Evaluate(f.rule, c, p).found
           /\ f = [rule |-> f.rule, finding |-> f.finding]
           /\ By(f.rule, Evaluate(f.rule, c, p).found) \subseteq RunRules(Rules, c, p)
  <1> DEFINE r == f.rule
  <1>1. r \in DOMAIN Rules /\ r \in DOMAIN AllRules /\ f \in PartOf(r, c, p)
    BY AReportHasParts, TheRulesAre
  <1>2. PartOf(r, c, p) \subseteq RunRules(Rules, c, p)
    BY <1>1, AReportHasParts
  <1> HIDE DEF r
  <1>3. f \notin By(r, {Skipped}) /\ f \notin By(r, {Crashed})
    BY DEF By, Skipped, Crashed
  <1>4. Missing(AllRules[r], p) = {} /\ PartOf(r, c, p) = By(r, Evaluate(r, c, p).found)
    BY <1>1, <1>3, Zenon DEF PartOf
  <1>5. f.finding \in Evaluate(r, c, p).found /\ f = [rule |-> r, finding |-> f.finding]
    BY <1>1, <1>4 DEF By
  <1>6. r \in Advising
    BY <1>1, <1>5, TheOthersAdviseNothing DEF Advises
  <1>7. Require(r, p)
    BY <1>1, <1>4, NothingIsMissing
  <1>8. QED
    BY <1>1, <1>2, <1>4, <1>5, <1>6, <1>7 DEF r

\* A rule that is quiet is not in the report.
LEMMA AQuietRuleIsLeftOut ==
    ASSUME NEW c, NEW p, NEW r \in DOMAIN AllRules, Evaluate(r, c, p) = Quiet
    PROVE  Of(RunRules(Rules, c, p), r) = {}
  <1>1. Evaluate(r, c, p).raises = FALSE /\ Evaluate(r, c, p).found = {}
    BY DEF Quiet
  <1>2. Require(r, p)
    <2>1. Raises.raises = TRUE
      BY DEF Raises
    <2>2. ~Require(r, p) => Evaluate(r, c, p) = Raises
      BY Zenon DEF Evaluate
    <2>3. QED
      BY <1>1, <2>1, <2>2
  <1>3. Missing(AllRules[r], p) = {}
    BY <1>2, NothingIsMissing
  <1>4. PartOf(r, c, p) = By(r, {})
    BY <1>1, <1>3, Zenon DEF PartOf
  <1>5. PartOf(r, c, p) = {}
    BY <1>4 DEF By
  <1>6. QED
    BY <1>5, AReportHasParts DEF Of

\* What the advice of each rule is, and what it was found on.
LEMMA WhatConfigRulesAdvise ==
    ASSUME NEW c
    PROVE  /\ Advises(RawInputDisabled(c), {Cfg("RawInput", Num(1))})
           /\ \A f \in MouseSpeedNotUnity(c).found : f.advice # {} => f.advice = {Cfg("MouseSpeed", Num(1))}
  <1> USE NothingIsAdvised, AFindingAdvises
  <1>1. Advises(RawInputDisabled(c), {Cfg("RawInput", Num(1))})
    <2> DEFINE off == Get(c, "RawInput") = Num(0)
               one == ReportFinding("cfg.mouse.raw_input_off", 0, FALSE, AsIs(c, {"RawInput"}),
                          {Cfg("RawInput", Num(1))})
    <2>1. RawInputDisabled(c) = CASE BoolFails(c, "RawInput") -> Raises [] off -> one [] OTHER -> Quiet
      BY DEF RawInputDisabled
    <2>2. Advises(one, {Cfg("RawInput", Num(1))})
      OBVIOUS
    <2> HIDE DEF one, off
    <2>3. RawInputDisabled(c) \in {Raises, one, Quiet}
      BY <2>1
    <2>4. QED
      BY <2>2, <2>3
  <1>2. \A f \in MouseSpeedNotUnity(c).found : f.advice # {} => f.advice = {Cfg("MouseSpeed", Num(1))}
    <2> DEFINE out == TenthsOf(c, "MouseSpeed") \notin 4..60
               one == ReportFinding("cfg.mouse.speed_not_unity", IF out THEN 1 ELSE 2, FALSE,
                          AsIs(c, {"MouseSpeed"}), IF out THEN {Cfg("MouseSpeed", Num(1))} ELSE {})
    <2>1. MouseSpeedNotUnity(c) \in {Raises, Quiet, one}
      BY DEF MouseSpeedNotUnity
    <2>2. Advises(one, IF out THEN {Cfg("MouseSpeed", Num(1))} ELSE {})
      OBVIOUS
    <2>3. \A advice : Advises(one, advice) => \A f \in one.found : f.advice = advice
      BY DEF Advises
    <2>4. \A f \in Quiet.found \cup Raises.found : FALSE
      BY DEF Quiet, Raises
    <2> HIDE DEF one, out
    <2>5. QED
      BY <2>1, <2>2, <2>3, <2>4
  <1>3. QED
    BY <1>1, <1>2

\* When the second reading has what was advised the rule is quiet.
LEMMA ConfigRulesAreQuiet ==
    ASSUME NEW c
    PROVE  /\ Get(c, "RawInput") = Num(1) => RawInputDisabled(c) = Quiet
           /\ Get(c, "MouseSpeed") = Num(1) => MouseSpeedNotUnity(c) = Quiet
  <1>1. ASSUME Get(c, "RawInput") = Num(1) PROVE RawInputDisabled(c) = Quiet
    <2>1. Num(1) # Num(0)
      BY DEF Num
    <2>2. ~BoolFails(c, "RawInput") /\ Get(c, "RawInput") # Num(0)
      BY <1>1, <2>1 DEF BoolFails
    <2>3. QED
      BY <2>2, Zenon DEF RawInputDisabled
  <1>2. ASSUME Get(c, "MouseSpeed") = Num(1) PROVE MouseSpeedNotUnity(c) = Quiet
    <2>1. Num(1)[1] = "num" /\ Num(1)[2] = 1
      BY DEF Num
    <2>2. ~FloatFails(c, "MouseSpeed")
      BY <1>2, <2>1 DEF FloatFails
    <2>3. TenthsOf(c, "MouseSpeed") = 10
      BY <1>2, <2>1 DEF TenthsOf
    <2>4. QED
      BY <2>2, <2>3, Zenon DEF MouseSpeedNotUnity
  <1>3. QED
    BY <1>1, <1>2

\* The machine as it is after the advice.
LEMMA AfterTheAdvice ==
    ASSUME NEW m, {"adapters", "mouse", "a11y", "power", "layers"} \subseteq DOMAIN m, NEW advice
    PROVE  LET after == InWindows(m, advice) IN
           /\ after.adapters = m.adapters
           /\ after.mouse = IF m.mouse = RaisesOSError THEN m.mouse
                ELSE Answers([sensitivity |-> IF Windows("sensitivity", Num(10)) \in advice
                                              THEN Num(10) ELSE m.mouse[2].sensitivity,
                              speed |-> IF Windows("speed", Num(0)) \in advice
                                        THEN Num(0) ELSE m.mouse[2].speed,
                              threshold1 |-> IF Windows("threshold1", Num(0)) \in advice
                                             THEN Num(0) ELSE m.mouse[2].threshold1,
                              threshold2 |-> IF Windows("threshold2", Num(0)) \in advice
                                             THEN Num(0) ELSE m.mouse[2].threshold2])
           /\ after.a11y = IF m.a11y = RaisesOSError THEN m.a11y
                ELSE Answers([s \in DOMAIN m.a11y[2] |->
                                 IF Windows(s, Text("disarmed")) \in advice
                                 THEN Answers(m.a11y[2][s][2] \ {"hotkey"}) ELSE m.a11y[2][s]])
           /\ Windows("power", Text("high_performance")) \in advice =>
                 after.power = Answers("high_performance")
  BY DEF InWindows

LEMMA TheFlagIsSet ==
    ASSUME NEW m, {"adapters", "mouse", "a11y", "power", "layers"} \subseteq DOMAIN m, NEW flags
    PROVE  InWindows(m, {Windows("layers", <<"flags", flags>>)}).layers
             = Answers([exe \in DOMAIN m.layers[2] \cup {"install"} |->
                           IF exe = "install" THEN flags ELSE m.layers[2][exe]])
  <1> DEFINE advice == {Windows("layers", <<"flags", flags>>)}
             F == {s[3][2] : s \in {t \in advice : t[2] = "layers"}}
             one == CHOOSE f \in F : TRUE
  <1>1. {t \in advice : t[2] = "layers"} = {Windows("layers", <<"flags", flags>>)}
    BY DEF Windows
  <1>2. Windows("layers", <<"flags", flags>>)[3][2] = flags
    BY DEF Windows
  <1>3. F = {flags}
    BY <1>1, <1>2
  <1>4. one = flags
    BY <1>3
  <1>5. InWindows(m, advice).layers =
          IF F = {} THEN m.layers
          ELSE Answers([exe \in DOMAIN m.layers[2] \cup {"install"} |->
                           IF exe = "install" THEN one ELSE m.layers[2][exe]])
    BY DEF InWindows
  <1>6. QED
    BY <1>3, <1>4, <1>5

\* The machine has what the advice is about.
Present(m) == {"adapters", "mouse", "a11y", "power", "layers"} \subseteq DOMAIN m

LEMMA AnAnswerIsNoFailure ==
    ASSUME NEW v
    PROVE  Answers(v) # RaisesOSError /\ Answers(v) # Fails /\ Answers(v)[2] = v /\ IsOk(Ok(v))
           /\ Value(Ok(v)) = v
  BY DEF Answers, RaisesOSError, Fails, IsOk, Ok, Value

LEMMA OnlyOkIsOk == ~IsOk(Error) /\ ~IsOk(Unavailable)
  BY DEF IsOk, Error, Unavailable

LEMMA TheMouseIsReset ==
    ASSUME NEW m, Present(m), IsOk(ProbeMouse(m)), NEW advice
    PROVE  LET now == ProbeMouse(InWindows(m, advice)) IN
           /\ IsOk(now)
           /\ {Windows(v, Num(0)) : v \in {"speed", "threshold1", "threshold2"}} \subseteq advice =>
                 ~AccelerationOn(Value(now))
           /\ Windows("sensitivity", Num(10)) \in advice => Value(now).sensitivity = 10
  <1> DEFINE after == InWindows(m, advice)
             key == [sensitivity |-> IF Windows("sensitivity", Num(10)) \in advice
                                     THEN Num(10) ELSE m.mouse[2].sensitivity,
                     speed |-> IF Windows("speed", Num(0)) \in advice
                               THEN Num(0) ELSE m.mouse[2].speed,
                     threshold1 |-> IF Windows("threshold1", Num(0)) \in advice
                                    THEN Num(0) ELSE m.mouse[2].threshold1,
                     threshold2 |-> IF Windows("threshold2", Num(0)) \in advice
                                    THEN Num(0) ELSE m.mouse[2].threshold2]
             value == [sensitivity |-> ReadInt(key.sensitivity, 10),
                       precision   |-> ReadInt(key.speed, 0),
                       thresholds  |-> <<ReadInt(key.threshold1, 0), ReadInt(key.threshold2, 0)>>]
  <1>1. m.mouse # RaisesOSError
    BY OnlyOkIsOk DEF ProbeMouse
  <1>2. after.mouse = Answers(key)
    BY <1>1, AfterTheAdvice, Zenon DEF Present
  <1>3. \A n : ReadInt(Num(0), n) = 0 /\ ReadInt(Num(10), n) = 10
    BY DEF ReadInt, Num
  <1>4. \A v \in {"speed", "threshold1", "threshold2"} : key[v] = 
            IF Windows(v, Num(0)) \in advice THEN Num(0) ELSE m.mouse[2][v]
    OBVIOUS
  <1>5. Windows("sensitivity", Num(10)) \in advice => key.sensitivity = Num(10)
    OBVIOUS
  <1> HIDE DEF after, key
  <1>6. ProbeMouse(after) = Ok(value)
    BY <1>2, AnAnswerIsNoFailure DEF ProbeMouse
  <1>7. IsOk(ProbeMouse(after)) /\ Value(ProbeMouse(after)) = value
    BY <1>6, AnAnswerIsNoFailure
  <1>8. ASSUME {Windows(v, Num(0)) : v \in {"speed", "threshold1", "threshold2"}} \subseteq advice
        PROVE  ~AccelerationOn(value)
    <2>1. \A v \in {"speed", "threshold1", "threshold2"} : key[v] = Num(0)
      BY <1>4, <1>8
    <2>2. value.precision = 0 /\ value.thresholds[1] = 0 /\ value.thresholds[2] = 0
      BY <1>3, <2>1
    <2> HIDE DEF value
    <2>3. QED
      BY <2>2 DEF AccelerationOn
  <1>9. Windows("sensitivity", Num(10)) \in advice => value.sensitivity = 10
    BY <1>3, <1>5
  <1> HIDE DEF value
  <1>10. QED
    BY <1>7, <1>8, <1>9 DEF after

LEMMA TheShortcutIsDisarmed ==
    ASSUME NEW m, Present(m), IsOk(ProbeAccessibility(m)), NEW advice, NEW key \in DOMAIN m.a11y[2]
    PROVE  LET now == ProbeAccessibility(InWindows(m, advice))
               before == ProbeAccessibility(m) IN
           /\ IsOk(now)
           /\ Windows(key, Text("disarmed")) \in advice => ~HotkeyArmed(Value(now), key)
           /\ Windows(key, Text("disarmed")) \notin advice =>
                 Value(now)[key] = Value(before)[key]
  <1> DEFINE after == InWindows(m, advice)
             asked == m.a11y[2]
             new == [s \in DOMAIN asked |-> IF Windows(s, Text("disarmed")) \in advice
                                            THEN Answers(asked[s][2] \ {"hotkey"}) ELSE asked[s]]
             value == [t \in DOMAIN new |-> new[t][2]]
             old == [t \in DOMAIN asked |-> asked[t][2]]
  <1>1. m.a11y # RaisesOSError
    BY OnlyOkIsOk DEF ProbeAccessibility
  <1>2. after.a11y = Answers(new)
    <2>1. after.a11y = IF m.a11y = RaisesOSError THEN m.a11y ELSE Answers(new)
      BY DEF Present, InWindows
    <2>2. QED
      BY <1>1, <2>1
  <1>3. \A t \in DOMAIN asked : asked[t] # Fails
    BY <1>1, OnlyOkIsOk DEF ProbeAccessibility
  <1>4. ProbeAccessibility(m) = Ok(old)
    BY <1>1, <1>3 DEF ProbeAccessibility
  <1>5. DOMAIN new = DOMAIN asked /\ \A t \in DOMAIN asked :
            new[t] = IF Windows(t, Text("disarmed")) \in advice
                     THEN Answers(asked[t][2] \ {"hotkey"}) ELSE asked[t]
    OBVIOUS
  <1> HIDE DEF new, after
  <1>6. \A t \in DOMAIN new : new[t] # Fails
    BY <1>3, <1>5, AnAnswerIsNoFailure
  <1>7. ProbeAccessibility(after) = Ok(value)
    BY <1>2, <1>6, AnAnswerIsNoFailure DEF ProbeAccessibility
  <1>8. value[key] = new[key][2] /\ old[key] = asked[key][2]
    BY <1>5
  <1>9. Windows(key, Text("disarmed")) \in advice => "hotkey" \notin value[key]
    BY <1>5, <1>8, AnAnswerIsNoFailure
  <1>10. Windows(key, Text("disarmed")) \notin advice => value[key] = old[key]
    BY <1>5, <1>8
  <1> HIDE DEF value, old
  <1>11. /\ IsOk(ProbeAccessibility(after)) /\ Value(ProbeAccessibility(after)) = value
         /\ Value(ProbeAccessibility(m)) = old
    BY <1>4, <1>7, AnAnswerIsNoFailure
  <1>12. QED
    BY <1>9, <1>10, <1>11 DEF after, HotkeyArmed

LEMMA ThePlanIsSet ==
    ASSUME NEW m, Present(m), NEW advice, Windows("power", Text("high_performance")) \in advice
    PROVE  LET now == ProbePowerScheme(InWindows(m, advice)) IN
           IsOk(now) /\ ~MayThrottle(Value(now))
  <1>1. InWindows(m, advice).power = Answers("high_performance")
    BY AfterTheAdvice DEF Present
  <1>2. ProbePowerScheme(InWindows(m, advice)) = Ok("high_performance")
    BY <1>1, AnAnswerIsNoFailure DEF ProbePowerScheme, Outcome
  <1>3. QED
    BY <1>2, AnAnswerIsNoFailure DEF MayThrottle

LEMMA TheGameIsExempt ==
    ASSUME NEW m, Present(m), NEW flags, "DISABLEDXMAXIMIZEDWINDOWEDMODE" \in flags
    PROVE  LET now == ProbeFullscreenOptimizations(
                          InWindows(m, {Windows("layers", <<"flags", flags>>)}), "install") IN
           IsOk(now) /\ FsoDisabled(Value(now))
  <1> DEFINE after == InWindows(m, {Windows("layers", <<"flags", flags>>)})
             entries == [exe \in DOMAIN m.layers[2] \cup {"install"} |->
                            IF exe = "install" THEN flags ELSE m.layers[2][exe]]
  <1>1. after.layers = Answers(entries)
    BY TheFlagIsSet DEF Present
  <1>2. "install" \in DOMAIN entries /\ entries["install"] = flags
    OBVIOUS
  <1> HIDE DEF after, entries
  <1>3. ProbeFullscreenOptimizations(after, "install") = Ok({flags})
    BY <1>1, <1>2, AnAnswerIsNoFailure DEF ProbeFullscreenOptimizations
  <1>4. \A v : IsOk(Ok(v)) /\ Value(Ok(v)) = v
    BY AnAnswerIsNoFailure
  <1>5. FsoDisabled({flags})
    BY DEF FsoDisabled
  <1>6. QED
    BY <1>3, <1>4, <1>5 DEF after

\* The probes whose answers do not hang on osu!, and what they answer.
Static == {"displays", "mouse", "a11y", "power", "fso"}
Reading(probe, m) ==
    CASE probe = "displays" -> ProbeDisplays(m)
      [] probe = "mouse" -> ProbeMouse(m)
      [] probe = "a11y" -> ProbeAccessibility(m)
      [] probe = "power" -> ProbePowerScheme(m)
      [] probe = "fso" -> ProbeFullscreenOptimizations(m,
                              ExeBeside(CHOOSE p \in FindConfig(scenario.places) : TRUE))

TakenFrom(p, m) == \A probe \in Static \cap DOMAIN p : p[probe] = Reading(probe, m)

LEMMA TheReadingsAre ==
    ASSUME NEW p, NEW m, TakenFrom(p, m)
    PROVE  /\ "displays" \in DOMAIN p => p.displays = ProbeDisplays(m)
           /\ "mouse" \in DOMAIN p => p.mouse = ProbeMouse(m)
           /\ "a11y" \in DOMAIN p => p.a11y = ProbeAccessibility(m)
           /\ "power" \in DOMAIN p => p.power = ProbePowerScheme(m)
           /\ "fso" \in DOMAIN p =>
                 p.fso = ProbeFullscreenOptimizations(m,
                             ExeBeside(CHOOSE path \in FindConfig(scenario.places) : TRUE))
  <1>1. \A probe \in Static : probe \in DOMAIN p => p[probe] = Reading(probe, m)
    BY DEF TakenFrom
  <1>2. /\ Reading("displays", m) = ProbeDisplays(m) /\ Reading("mouse", m) = ProbeMouse(m)
        /\ Reading("a11y", m) = ProbeAccessibility(m) /\ Reading("power", m) = ProbePowerScheme(m)
        /\ Reading("fso", m) = ProbeFullscreenOptimizations(m,
               ExeBeside(CHOOSE path \in FindConfig(scenario.places) : TRUE))
    BY DEF Reading
  <1>3. QED
    BY <1>1, <1>2 DEF Static

LEMMA WhatTheRulesNeed ==
    /\ AllRules["cfg.keybind.duplicate_live"] = {}
    /\ AllRules["cfg.mouse.raw_input_off"] = {}
    /\ AllRules["cfg.mouse.speed_not_unity"] = {}
    /\ AllRules["sys.display.refreshrate"] = {"displays"}
    /\ AllRules["sys.mouse.enhance_pointer_precision"] = {"mouse"}
    /\ AllRules["sys.mouse.sensitivity_not_one_to_one"] = {"mouse"}
    /\ AllRules["sys.a11y.shift_binding_triggers_sticky_keys"] = {"a11y"}
    /\ AllRules["sys.a11y.other_hotkeys"] = {"a11y"}
    /\ AllRules["sys.power.throttling_scheme"] = {"power"}
    /\ AllRules["sys.win.fso_not_disabled"] = {"fso"}
  BY DEF AllRules, ConfigOnlyRules, DisplayRules, SystemRules, AudioRules

LEMMA WhatSystemRulesAdvise ==
    ASSUME NEW c, NEW p
    PROVE  /\ Advises(EnhancePointerPrecision(p),
                      {Windows(value, Num(0)) : value \in {"speed", "threshold1", "threshold2"}})
           /\ Advises(SensitivityNotch(p), {Windows("sensitivity", Num(10))})
           /\ Advises(SmokeKeyTriggersStickyKeys(c, p), {Windows("sticky", Text("disarmed"))})
           /\ Advises(PowerPlan(p), {Windows("power", Text("high_performance"))})
           /\ Advises(FullscreenOptimizations(p),
                      {Windows("layers", <<"flags", (UNION Value(p.fso)) \cup
                                                       {"DISABLEDXMAXIMIZEDWINDOWEDMODE"}>>)})
  <1> USE NothingIsAdvised, AFindingAdvises
  <1>1. Advises(EnhancePointerPrecision(p),
                {Windows(value, Num(0)) : value \in {"speed", "threshold1", "threshold2"}})
    BY DEF EnhancePointerPrecision
  <1>2. Advises(SensitivityNotch(p), {Windows("sensitivity", Num(10))})
    BY DEF SensitivityNotch
  <1>3. Advises(SmokeKeyTriggersStickyKeys(c, p), {Windows("sticky", Text("disarmed"))})
    BY Zenon DEF SmokeKeyTriggersStickyKeys
  <1>4. Advises(PowerPlan(p), {Windows("power", Text("high_performance"))})
    BY DEF PowerPlan
  <1>5. Advises(FullscreenOptimizations(p),
                {Windows("layers", <<"flags", (UNION Value(p.fso)) \cup
                                                 {"DISABLEDXMAXIMIZEDWINDOWEDMODE"}>>)})
    <2> DEFINE raw == UNION Value(p.fso)
               flagged == {Windows("layers", <<"flags", raw \cup {"DISABLEDXMAXIMIZEDWINDOWEDMODE"}>>)}
               one == ReportFinding("sys.win.fso_not_disabled", 1, FALSE,
                          {Windows("layers", <<"flags", raw>>)}, flagged)
    <2>1. FullscreenOptimizations(p) = IF FsoDisabled(Value(p.fso)) THEN Quiet ELSE one
      BY DEF FullscreenOptimizations
    <2>2. Advises(one, flagged)
      OBVIOUS
    <2> HIDE DEF one
    <2>3. FullscreenOptimizations(p) = Quiet \/ FullscreenOptimizations(p) = one
      BY ONLY <2>1
    <2>4. Advises(FullscreenOptimizations(p), flagged)
      BY ONLY <2>2, <2>3, NothingIsAdvised
    <2>5. QED
      BY <2>4
  <1>6. QED
    BY <1>1, <1>2, <1>3, <1>4, <1>5

LEMMA SystemRulesAreQuiet ==
    ASSUME NEW c, NEW p
    PROVE  /\ ~AccelerationOn(Value(p.mouse)) => EnhancePointerPrecision(p) = Quiet
           /\ Value(p.mouse).sensitivity = 10 => SensitivityNotch(p) = Quiet
           /\ ~HotkeyArmed(Value(p.a11y), "sticky") => SmokeKeyTriggersStickyKeys(c, p) = Quiet
           /\ ~MayThrottle(Value(p.power)) => PowerPlan(p) = Quiet
           /\ FsoDisabled(Value(p.fso)) => FullscreenOptimizations(p) = Quiet
  BY Zenon DEF EnhancePointerPrecision, SensitivityNotch, SmokeKeyTriggersStickyKeys, PowerPlan,
               FullscreenOptimizations

\* The second run, on the machine as the advice has left it.
LEMMA TheMouseSettles ==
    ASSUME NEW m, Present(m), NEW c, NEW p, TakenFrom(p, m),
           NEW r \in {"sys.mouse.enhance_pointer_precision", "sys.mouse.sensitivity_not_one_to_one"},
           Require(r, p), NEW f \in Evaluate(r, c, p).found,
           NEW d, NEW q, TakenFrom(q, InWindows(m, f.advice)), "mouse" \in DOMAIN q
    PROVE  Evaluate(r, d, q) = Quiet
  <1>1. AllRules[r] = {"mouse"}
    BY WhatTheRulesNeed
  <1>2. IsOk(ProbeMouse(m))
    BY <1>1, TheReadingsAre DEF Require
  <1>3. q.mouse = ProbeMouse(InWindows(m, f.advice))
    BY TheReadingsAre
  <1>4. IsOk(q.mouse)
    BY <1>2, <1>3, TheMouseIsReset
  <1>5. Require(r, q)
    BY <1>1, <1>4 DEF Require
  <1>6. CASE r = "sys.mouse.enhance_pointer_precision"
    <2>1. f \in EnhancePointerPrecision(p).found
      BY <1>6 DEF Evaluate
    <2>2. f.advice = {Windows(value, Num(0)) : value \in {"speed", "threshold1", "threshold2"}}
      BY <2>1, WhatSystemRulesAdvise DEF Advises
    <2>3. ~AccelerationOn(Value(q.mouse))
      BY <1>2, <1>3, <2>2, TheMouseIsReset
    <2>4. EnhancePointerPrecision(q) = Quiet
      BY <2>3, SystemRulesAreQuiet
    <2>5. QED
      BY <1>5, <1>6, <2>4 DEF Evaluate
  <1>7. CASE r = "sys.mouse.sensitivity_not_one_to_one"
    <2>1. f \in SensitivityNotch(p).found
      BY <1>7 DEF Evaluate
    <2>2. f.advice = {Windows("sensitivity", Num(10))}
      BY <2>1, WhatSystemRulesAdvise DEF Advises
    <2>3. Value(q.mouse).sensitivity = 10
      BY <1>2, <1>3, <2>2, TheMouseIsReset
    <2>4. SensitivityNotch(q) = Quiet
      BY <2>3, SystemRulesAreQuiet
    <2>5. QED
      BY <1>5, <1>7, <2>4 DEF Evaluate
  <1>8. QED
    BY <1>6, <1>7

LEMMA StickyKeysSettle ==
    ASSUME NEW m, Present(m), "sticky" \in DOMAIN m.a11y[2], NEW c, NEW p, TakenFrom(p, m),
           Require("sys.a11y.shift_binding_triggers_sticky_keys", p),
           NEW f \in Evaluate("sys.a11y.shift_binding_triggers_sticky_keys", c, p).found,
           NEW d, NEW q, TakenFrom(q, InWindows(m, f.advice)), "a11y" \in DOMAIN q
    PROVE  Evaluate("sys.a11y.shift_binding_triggers_sticky_keys", d, q) = Quiet
  <1> DEFINE r == "sys.a11y.shift_binding_triggers_sticky_keys"
  <1>1. AllRules[r] = {"a11y"}
    BY WhatTheRulesNeed
  <1>2. IsOk(ProbeAccessibility(m))
    BY <1>1, TheReadingsAre DEF Require
  <1>3. q.a11y = ProbeAccessibility(InWindows(m, f.advice))
    BY TheReadingsAre
  <1>4. f \in SmokeKeyTriggersStickyKeys(c, p).found
    BY DEF Evaluate
  <1>5. f.advice = {Windows("sticky", Text("disarmed"))}
    <2>1. Advises(SmokeKeyTriggersStickyKeys(c, p), {Windows("sticky", Text("disarmed"))})
      BY ONLY WhatSystemRulesAdvise
    <2>2. QED
      BY <1>4, <2>1 DEF Advises
  <1>6. IsOk(q.a11y) /\ ~HotkeyArmed(Value(q.a11y), "sticky")
    BY <1>2, <1>3, <1>5, TheShortcutIsDisarmed
  <1>7. Require(r, q)
    BY <1>1, <1>6 DEF Require
  <1>8. SmokeKeyTriggersStickyKeys(d, q) = Quiet
    BY <1>6, SystemRulesAreQuiet
  <1>9. QED
    BY <1>7, <1>8 DEF Evaluate

LEMMA ThePlanSettles ==
    ASSUME NEW m, Present(m), NEW c, NEW p,
           Require("sys.power.throttling_scheme", p),
           NEW f \in Evaluate("sys.power.throttling_scheme", c, p).found,
           NEW d, NEW q, TakenFrom(q, InWindows(m, f.advice)), "power" \in DOMAIN q
    PROVE  Evaluate("sys.power.throttling_scheme", d, q) = Quiet
  <1> DEFINE r == "sys.power.throttling_scheme"
  <1>1. AllRules[r] = {"power"}
    BY WhatTheRulesNeed
  <1>2. q.power = ProbePowerScheme(InWindows(m, f.advice))
    BY TheReadingsAre
  <1>3. f \in PowerPlan(p).found
    BY DEF Evaluate
  <1>4. f.advice = {Windows("power", Text("high_performance"))}
    BY <1>3, WhatSystemRulesAdvise DEF Advises
  <1>5. IsOk(q.power) /\ ~MayThrottle(Value(q.power))
    BY <1>2, <1>4, ThePlanIsSet
  <1>6. Require(r, q)
    BY <1>1, <1>5 DEF Require
  <1>7. PowerPlan(q) = Quiet
    BY <1>5, SystemRulesAreQuiet
  <1>8. QED
    BY <1>6, <1>7 DEF Evaluate

LEMMA TheFlagSettles ==
    ASSUME NEW m, Present(m), NEW c, NEW p,
           Require("sys.win.fso_not_disabled", p),
           NEW f \in Evaluate("sys.win.fso_not_disabled", c, p).found,
           NEW d, NEW q, TakenFrom(q, InWindows(m, f.advice)), "fso" \in DOMAIN q,
           ExeBeside(CHOOSE path \in FindConfig(scenario.places) : TRUE) = "install"
    PROVE  Evaluate("sys.win.fso_not_disabled", d, q) = Quiet
  <1> DEFINE r == "sys.win.fso_not_disabled"
             flags == (UNION Value(p.fso)) \cup {"DISABLEDXMAXIMIZEDWINDOWEDMODE"}
  <1>1. AllRules[r] = {"fso"}
    BY WhatTheRulesNeed
  <1>2. q.fso = ProbeFullscreenOptimizations(InWindows(m, f.advice), "install")
    BY TheReadingsAre
  <1>3. f \in FullscreenOptimizations(p).found
    BY DEF Evaluate
  <1>4. f.advice = {Windows("layers", <<"flags", flags>>)}
    BY <1>3, WhatSystemRulesAdvise DEF Advises
  <1>5. "DISABLEDXMAXIMIZEDWINDOWEDMODE" \in flags
    OBVIOUS
  <1> HIDE DEF flags
  <1>6. IsOk(q.fso) /\ FsoDisabled(Value(q.fso))
    BY <1>2, <1>4, <1>5, TheGameIsExempt
  <1>7. Require(r, q)
    BY <1>1, <1>6 DEF Require
  <1>8. FullscreenOptimizations(q) = Quiet
    BY <1>6, SystemRulesAreQuiet
  <1>9. QED
    BY <1>7, <1>8 DEF Evaluate

\* Of the other two shortcuts the one that was disarmed is not armed any more,
\* and the other is reported as it was before.
Shortcuts == {<<"filter", "sys.a11y.filterkeys_hotkey">>, <<"toggle", "sys.a11y.togglekeys_hotkey">>}
Armed(row) == [id |-> row[2], severity |-> 2, fact |-> TRUE,
               current |-> {Windows(row[1], Text("armed"))},
               advice |-> {Windows(row[1], Text("disarmed"))}]

LEMMA WhatIsArmed ==
    ASSUME NEW p
    PROVE  /\ OtherAccessibilityHotkeys(p).raises = FALSE
           /\ \A g : g \in OtherAccessibilityHotkeys(p).found <=>
                  \E row \in Shortcuts : HotkeyArmed(Value(p.a11y), row[1]) /\ g = Armed(row)
  <1> DEFINE one(row) == IF HotkeyArmed(Value(p.a11y), row[1])
                         THEN ReportFinding(row[2], 2, TRUE, {Windows(row[1], Text("armed"))},
                                            {Windows(row[1], Text("disarmed"))})
                         ELSE Quiet
  <1>1. OtherAccessibilityHotkeys(p) = All({one(row) : row \in Shortcuts})
    BY DEF OtherAccessibilityHotkeys, Shortcuts
  <1>2. OtherAccessibilityHotkeys(p).raises = FALSE
    BY SystemRulesAreHarmless DEF Harmless
  <1>3. ASSUME NEW row, NEW g
        PROVE  g \in one(row).found <=> HotkeyArmed(Value(p.a11y), row[1]) /\ g = Armed(row)
    <2>1. CASE HotkeyArmed(Value(p.a11y), row[1])
      <3>1. ReportFinding(row[2], 2, TRUE, {Windows(row[1], Text("armed"))},
                          {Windows(row[1], Text("disarmed"))})
            = [raises |-> FALSE, found |-> {Armed(row)}]
        BY Zenon DEF ReportFinding, Armed
      <3>2. one(row) = [raises |-> FALSE, found |-> {Armed(row)}]
        BY <2>1, <3>1
      <3> HIDE DEF one
      <3>3. QED
        BY <2>1, <3>2
    <2>2. CASE ~HotkeyArmed(Value(p.a11y), row[1])
      BY <2>2 DEF Quiet
    <2>3. QED
      BY <2>1, <2>2
  <1> HIDE DEF one
  <1>4. OtherAccessibilityHotkeys(p).found = UNION {one(row).found : row \in Shortcuts}
    BY <1>1 DEF All
  <1>5. ASSUME NEW g
        PROVE  g \in OtherAccessibilityHotkeys(p).found <=>
                  \E row \in Shortcuts : HotkeyArmed(Value(p.a11y), row[1]) /\ g = Armed(row)
    <2>1. g \in OtherAccessibilityHotkeys(p).found <=> \E row \in Shortcuts : g \in one(row).found
      BY <1>4
    <2>2. QED
      BY ONLY <1>3, <2>1
  <1>6. QED
    BY ONLY <1>2, <1>5

LEMMA TheOtherShortcutStays ==
    ASSUME NEW m, Present(m), {"filter", "toggle"} \subseteq DOMAIN m.a11y[2],
           NEW c, NEW p, TakenFrom(p, m), Require("sys.a11y.other_hotkeys", p),
           NEW f \in Evaluate("sys.a11y.other_hotkeys", c, p).found,
           NEW d, NEW q, TakenFrom(q, InWindows(m, f.advice)), "a11y" \in DOMAIN q
    PROVE  /\ Require("sys.a11y.other_hotkeys", q)
           /\ Harmless(Evaluate("sys.a11y.other_hotkeys", d, q))
           /\ Evaluate("sys.a11y.other_hotkeys", d, q).found
              \subseteq Evaluate("sys.a11y.other_hotkeys", c, p).found \ {f}
  <1> DEFINE r == "sys.a11y.other_hotkeys"
  <1>1. AllRules[r] = {"a11y"}
    BY WhatTheRulesNeed
  <1>2. IsOk(ProbeAccessibility(m)) /\ p.a11y = ProbeAccessibility(m)
    BY <1>1, TheReadingsAre DEF Require
  <1>3. q.a11y = ProbeAccessibility(InWindows(m, f.advice))
    BY TheReadingsAre
  <1>4. IsOk(q.a11y)
    BY <1>2, <1>3, TheShortcutIsDisarmed
  <1>5. Require(r, q)
    BY <1>1, <1>4 DEF Require
  <1>6. Evaluate(r, c, p) = OtherAccessibilityHotkeys(p) /\ Evaluate(r, d, q) = OtherAccessibilityHotkeys(q)
    BY <1>5 DEF Evaluate
  <1>7. PICK row \in Shortcuts : HotkeyArmed(Value(p.a11y), row[1]) /\ f = Armed(row)
    BY <1>6, WhatIsArmed
  <1>8. f.advice = {Windows(row[1], Text("disarmed"))} /\ f.id = row[2]
    BY <1>7 DEF Armed
  <1>9. ASSUME NEW g \in OtherAccessibilityHotkeys(q).found
        PROVE  g \in OtherAccessibilityHotkeys(p).found /\ g # f
    <2>1. PICK other \in Shortcuts : HotkeyArmed(Value(q.a11y), other[1]) /\ g = Armed(other)
      BY WhatIsArmed
    <2>2. other[1] \in {"filter", "toggle"} /\ other[1] \in DOMAIN m.a11y[2]
      BY DEF Shortcuts
    <2>3. Windows(other[1], Text("disarmed")) \notin f.advice
      BY <1>2, <1>3, <2>1, <2>2, TheShortcutIsDisarmed
    <2>4. Value(q.a11y)[other[1]] = Value(p.a11y)[other[1]]
      BY <1>2, <1>3, <2>2, <2>3, TheShortcutIsDisarmed
    <2>5. HotkeyArmed(Value(p.a11y), other[1])
      BY <2>1, <2>4 DEF HotkeyArmed
    <2>6. other # row
      BY <1>8, <2>3
    <2>7. other[2] # row[2]
      BY <2>6 DEF Shortcuts
    <2>8. g.id = other[2]
      BY <2>1 DEF Armed
    <2>9. QED
      BY <1>8, <2>1, <2>5, <2>7, <2>8, WhatIsArmed
  <1>10. QED
    BY <1>5, <1>6, <1>9, SystemRulesAreHarmless

\* Of finitely many numbers one is the greatest.
LEMMA LeastNatural ==
    ASSUME NEW T \in SUBSET Nat, T # {}
    PROVE  \E m \in T : \A n \in T : m <= n
  <1>1. IsWellFoundedOn(OpToRel(<, Nat), Nat)
    BY NatLessThanWellFounded
  <1>2. PICK m \in T : \A n \in T : ~(<<n, m>> \in OpToRel(<, Nat))
    BY <1>1, WFMin
  <1>3. \A n \in T : ~(n < m)
    BY <1>2 DEF OpToRel
  <1>4. QED
    BY <1>3

LEMMA OneIsTheGreatest ==
    ASSUME NEW n \in Nat, NEW T, T \subseteq 1..n, T # {}, NEW h, \A i \in T : h[i] \in Int
    PROVE  \E i \in T : \A j \in T : h[j] <= h[i]
  <1> DEFINE Upto(k) == {i \in T : i <= k}
             HasOne(k) == \E i \in Upto(k) : \A j \in Upto(k) : h[j] <= h[i]
             Bad == {k \in 0..n : Upto(k) # {} /\ ~HasOne(k)}
  <1>1. Upto(n) = T
    <2>1. \A i \in T : i \in 1..n /\ i <= n
      OBVIOUS
    <2>2. QED
      BY ONLY <2>1
  <1>2. Bad = {}
    <2> SUFFICES ASSUME Bad # {} PROVE FALSE
      OBVIOUS
    <2>1. Bad \in SUBSET Nat
      OBVIOUS
    <2>2. PICK k \in Bad : \A other \in Bad : k <= other
      <3> HIDE DEF Bad
      <3>1. QED
        BY <2>1, LeastNatural
    <2>3. k \in 0..n /\ Upto(k) # {} /\ ~HasOne(k)
      OBVIOUS
    <2>4. k # 0
      <3>1. \A i \in T : i \in Nat /\ ~(i <= 0)
        OBVIOUS
      <3>2. Upto(0) = {}
        BY <3>1
      <3>3. QED
        BY <2>3, <3>2
    <2>5. k - 1 \in 0..n /\ k - 1 \notin Bad
      BY <2>2, <2>3, <2>4
    <2>6. Upto(k - 1) = {} \/ HasOne(k - 1)
      BY <2>5
    <2>7. \A i \in Upto(k) : i \in Upto(k - 1) \/ i = k
      BY <2>3
    <2>8. \A i \in Upto(k - 1) : i \in Upto(k)
      BY <2>3
    <2>9. \A i \in Upto(k) : h[i] \in Int
      OBVIOUS
    <2> HIDE DEF Upto, Bad
    <2>10. CASE Upto(k - 1) = {}
      BY <2>3, <2>7, <2>9, <2>10
    <2>11. CASE HasOne(k - 1)
      <3>1. PICK i \in Upto(k - 1) : \A j \in Upto(k - 1) : h[j] <= h[i]
        BY <2>11
      <3>2. i \in Upto(k)
        BY <2>8
      <3>3. CASE k \in Upto(k) /\ h[i] <= h[k]
        <4>1. \A j \in Upto(k) : h[j] <= h[k]
          BY <2>7, <2>8, <2>9, <3>1, <3>2, <3>3
        <4>2. QED
          BY <2>3, <3>3, <4>1
      <3>4. CASE k \notin Upto(k) \/ ~(h[i] <= h[k])
        <4>1. \A j \in Upto(k) : h[j] <= h[i]
          BY <2>7, <2>9, <3>1, <3>2, <3>4
        <4>2. QED
          BY <2>3, <3>2, <4>1
      <3>5. QED
        BY <3>3, <3>4
    <2>12. QED
      BY <2>6, <2>10, <2>11
  <1>3. HasOne(n)
    <2>1. n \in 0..n
      OBVIOUS
    <2>2. QED
      BY <1>1, <1>2, <2>1
  <1>4. QED
    BY <1>1, <1>3

\* The adapters are listed, each with a whole number of Hertz.
Numbered(m) ==
    LET listed == m.adapters[2] IN
    m.adapters # RaisesOSError =>
        /\ listed \in Seq({listed[i] : i \in DOMAIN listed})
        /\ \A i \in DOMAIN listed : listed[i].hz \in Int

Measured(p) == {monitor.hz : monitor \in Monitors(p)}
Fastest(p) == CHOOSE hz \in Measured(p) : \A other \in Measured(p) : other <= hz

LEMMA OneMonitorIsFastest ==
    ASSUME NEW m, Numbered(m), IsOk(ProbeDisplays(m)), NEW p, p.displays = ProbeDisplays(m)
    PROVE  Fastest(p) \in Measured(p) /\ Fastest(p) \in Int
  <1> DEFINE listed == m.adapters[2]
             monitors == {i \in DOMAIN listed : listed[i].attached /\ listed[i].settings}
             list == [i \in monitors |-> listed[i]]
             h == [i \in monitors |-> listed[i].hz]
  <1>1. m.adapters # RaisesOSError
    BY OnlyOkIsOk DEF ProbeDisplays
  <1>2. monitors # {} /\ ProbeDisplays(m) = Ok(list)
    BY <1>1, OnlyOkIsOk DEF ProbeDisplays
  <1>3. /\ listed \in Seq({listed[i] : i \in DOMAIN listed})
        /\ \A i \in DOMAIN listed : listed[i].hz \in Int
    BY <1>1 DEF Numbered
  <1>4. PICK n \in Nat : DOMAIN listed = 1..n
    BY ONLY <1>3
  <1>5. monitors \subseteq 1..n /\ \A i \in monitors : h[i] \in Int /\ h[i] = listed[i].hz
    BY <1>3, <1>4
  <1>6. Measured(p) = {h[i] : i \in monitors}
    <2>1. Value(p.displays) = list
      BY <1>2, AnAnswerIsNoFailure
    <2>2. Monitors(p) = {listed[i] : i \in monitors}
      BY <2>1 DEF Monitors
    <2>3. \A i \in monitors : h[i] = listed[i].hz
      BY <1>5
    <2> HIDE DEF monitors, h, listed
    <2>4. QED
      BY <2>2, <2>3 DEF Measured
  <1> HIDE DEF monitors, h, listed
  <1>7. PICK i \in monitors : \A j \in monitors : h[j] <= h[i]
    BY <1>2, <1>5, OneIsTheGreatest
  <1>8. h[i] \in Measured(p) /\ \A other \in Measured(p) : other <= h[i]
    BY <1>6, <1>7
  <1>9. Fastest(p) \in Measured(p)
    BY <1>8 DEF Fastest
  <1>10. QED
    BY <1>5, <1>6, <1>9

LEMMA WhatTheRateRuleAdvises ==
    ASSUME NEW c, NEW p, NEW f \in RefreshRate(c, p).found, f.advice # {}
    PROVE  f.advice = {Cfg("RefreshRate", Num(Fastest(p)))}
  <1> DEFINE wrong == ReportFinding("sys.display.refreshrate_override_wrong", 1, TRUE,
                          AsIs(c, {"RefreshRate"}), {Cfg("RefreshRate", Num(Fastest(p)))})
             stale == ReportFinding("sys.display.refreshrate_stale", 2, TRUE, AsIs(c, {"RefreshRate"}), {})
             near == \E hz \in Measured(p) : Near(IntOf(c, "RefreshRate"), hz)
  <1>1. RefreshRate(c, p) =
            CASE IntFails(c, "RefreshRate") -> Raises
              [] ~IntFails(c, "RefreshRate") /\ (~Given(c, "RefreshRate") \/ near) -> Quiet
              [] OTHER -> IF BoolFails(c, "OverrideRefreshRate") THEN Raises
                          ELSE IF On(c, "OverrideRefreshRate") THEN wrong ELSE stale
    BY DEF RefreshRate, Measured, Fastest
  <1>2. Advises(wrong, {Cfg("RefreshRate", Num(Fastest(p)))}) /\ Advises(stale, {})
    BY AFindingAdvises
  <1> HIDE DEF wrong, stale, near
  <1>3. RefreshRate(c, p) \in {Raises, Quiet, wrong, stale}
    BY <1>1
  <1>4. QED
    BY <1>2, <1>3, NothingIsAdvised DEF Advises

LEMMA TheRateIsQuiet ==
    ASSUME NEW d, NEW q, Get(d, "RefreshRate") = Num(Fastest(q)),
           Fastest(q) \in Measured(q), Fastest(q) \in Int
    PROVE  RefreshRate(d, q) = Quiet
  <1> DEFINE near == \E hz \in Measured(q) : Near(IntOf(d, "RefreshRate"), hz)
  <1>1. Num(Fastest(q))[1] = "num" /\ Num(Fastest(q))[2] = Fastest(q)
    BY DEF Num
  <1>2. ~IntFails(d, "RefreshRate") /\ IntOf(d, "RefreshRate") = Fastest(q)
    BY <1>1 DEF IntFails, IntOf
  <1>3. Near(Fastest(q), Fastest(q))
    BY DEF Near
  <1>4. near
    BY <1>2, <1>3
  <1> HIDE DEF near
  <1>5. QED
    BY <1>2, <1>4, Zenon DEF RefreshRate, near, Measured

LEMMA TheRateSettles ==
    ASSUME NEW m, Present(m), Numbered(m), NEW c, NEW p, TakenFrom(p, m),
           Require("sys.display.refreshrate", p),
           NEW f \in Evaluate("sys.display.refreshrate", c, p).found, f.advice # {},
           NEW d, NEW q, TakenFrom(q, InWindows(m, f.advice)), "displays" \in DOMAIN q,
           \A s \in f.advice : s[1] = "osu!.cfg" => Get(d, s[2]) = s[3]
    PROVE  Evaluate("sys.display.refreshrate", d, q) = Quiet
  <1> DEFINE r == "sys.display.refreshrate"
  <1>1. AllRules[r] = {"displays"}
    BY WhatTheRulesNeed
  <1>2. IsOk(p.displays) /\ p.displays = ProbeDisplays(m)
    BY <1>1, TheReadingsAre DEF Require
  <1>3. q.displays = p.displays
    <2>1. InWindows(m, f.advice).adapters = m.adapters
      BY AfterTheAdvice DEF Present
    <2>2. q.displays = ProbeDisplays(InWindows(m, f.advice))
      BY TheReadingsAre
    <2>3. QED
      BY <1>2, <2>1, <2>2 DEF ProbeDisplays
  <1>4. Fastest(q) = Fastest(p)
    BY <1>3 DEF Fastest, Measured, Monitors
  <1>5. f.advice = {Cfg("RefreshRate", Num(Fastest(p)))}
    BY WhatTheRateRuleAdvises DEF Evaluate
  <1>6. Get(d, "RefreshRate") = Num(Fastest(q))
    BY <1>4, <1>5 DEF Cfg
  <1>7. RefreshRate(d, q) = Quiet
    BY <1>2, <1>3, <1>6, OneMonitorIsFastest, TheRateIsQuiet
  <1>8. Require(r, q)
    BY <1>1, <1>2, <1>3 DEF Require
  <1>9. QED
    BY <1>7, <1>8 DEF Evaluate

\* A configuration is a file of lines.
Lined(c) == \E n \in Nat : DOMAIN c = 1..n

LEMMA TheLastLineIsOne ==
    ASSUME NEW c, Lined(c), NEW k \in Keys(c)
    PROVE  LastLine(c, k) \in Int
  <1>1. PICK n \in Nat : DOMAIN c = 1..n
    BY DEF Lined
  <1>2. LinesOf(c, k) \subseteq 1..n /\ LinesOf(c, k) # {}
    BY <1>1 DEF LinesOf, Keys
  <1> DEFINE h == [i \in 1..n |-> i]
  <1>3. PICK i \in LinesOf(c, k) : \A j \in LinesOf(c, k) : h[j] <= h[i]
    <2>1. \A j \in LinesOf(c, k) : h[j] \in Int
      BY <1>2
    <2> HIDE DEF h
    <2>2. QED
      BY <1>2, <2>1, OneIsTheGreatest
  <1>4. \A j \in LinesOf(c, k) : j <= i
    BY <1>2, <1>3
  <1>5. LastLine(c, k) \in LinesOf(c, k)
    BY <1>4 DEF LastLine
  <1>6. QED
    BY <1>2, <1>5

LEMMA ConflictsAreAmongBindings ==
    ASSUME NEW c, NEW conflict \in Conflicts(c), NEW key \in conflict.keys
    PROVE  /\ key \in Bindings(c) \cap KnownKeys /\ key \in Keys(c)
           /\ \E j \in Bindings(c) \cap KnownKeys :
                  j # key /\ Get(c, j) = Get(c, key) /\ Overlap(key, j) # {}
  <1> DEFINE candidates == {k \in Bindings(c) \cap KnownKeys : Bound(c, k)}
             Group(v) == {k \in candidates : Get(c, k) = v}
             Clash(v) == {k \in Group(v) : \E j \in Group(v) \ {k} : Overlap(j, k) # {}}
             Values == {w \in {Get(c, k) : k \in candidates} : Clash(w) # {}}
  <1>1. Conflicts(c) = {[value |-> v, keys |-> Clash(v)] : v \in Values}
    BY Zenon DEF Conflicts
  <1>2. PICK v : conflict = [value |-> v, keys |-> Clash(v)]
    <2> HIDE DEF Values, Clash
    <2>1. QED
      BY <1>1
  <1>3. key \in Clash(v)
    <2> HIDE DEF Clash
    <2>1. conflict.keys = Clash(v)
      BY <1>2
    <2>2. QED
      BY <2>1
  <1>4. key \in candidates /\ Get(c, key) = v
    BY <1>3
  <1>5. PICK j \in candidates : j # key /\ Get(c, j) = v /\ Overlap(j, key) # {}
    BY <1>3
  <1>6. Overlap(key, j) = Overlap(j, key)
    BY DEF Overlap
  <1>7. QED
    BY <1>4, <1>5, <1>6 DEF Bindings

\* What is reported of one conflict.
AboutConflict(c, conflict) ==
    LET known == conflict.keys \cap DOMAIN StockDefaults IN
    IF known # {}
    THEN LET k == FirstInFile(c, known) IN
         ReportFinding("cfg.keybind.duplicate_live", 0, TRUE,
             AsIs(c, {FirstInFile(c, conflict.keys)}), {Cfg(k, StockDefaults[k])})
    ELSE ReportFinding("cfg.keybind.duplicate_live", 0, TRUE, AsIs(c, conflict.keys), {})

LEMMA EachConflictIsReported ==
    ASSUME NEW c
    PROVE  \A f : f \in DuplicateLiveBindings(c).found <=>
               \E conflict \in Conflicts(c) : f \in AboutConflict(c, conflict).found
  <1>1. DuplicateLiveBindings(c) = All({AboutConflict(c, conflict) : conflict \in Conflicts(c)})
    BY DEF DuplicateLiveBindings, AboutConflict
  <1>2. QED
    BY <1>1 DEF All

LEMMA WhatIsAdvisedOfAConflict ==
    ASSUME NEW c, NEW conflict
    PROVE  /\ "keyQuickRetry" \notin conflict.keys => Advises(AboutConflict(c, conflict), {})
           /\ "keyQuickRetry" \in conflict.keys =>
                 LET k == FirstInFile(c, {"keyQuickRetry"}) IN
                 Advises(AboutConflict(c, conflict), {Cfg(k, StockDefaults[k])})
  <1> DEFINE known == conflict.keys \cap DOMAIN StockDefaults
             id == "cfg.keybind.duplicate_live"
             now == AsIs(c, {FirstInFile(c, conflict.keys)})
             k == FirstInFile(c, known)
  <1>1. DOMAIN StockDefaults = {"keyQuickRetry"}
    BY DEF StockDefaults
  <1>2. AboutConflict(c, conflict) =
            IF known # {} THEN ReportFinding(id, 0, TRUE, now, {Cfg(k, StockDefaults[k])})
            ELSE ReportFinding(id, 0, TRUE, AsIs(c, conflict.keys), {})
    BY DEF AboutConflict
  <1>3. ASSUME "keyQuickRetry" \notin conflict.keys
        PROVE  Advises(AboutConflict(c, conflict), {})
    <2>1. known = {}
      BY <1>1, <1>3
    <2> HIDE DEF known, now, k
    <2>2. AboutConflict(c, conflict) = ReportFinding(id, 0, TRUE, AsIs(c, conflict.keys), {})
      BY <1>2, <2>1
    <2>3. QED
      BY <2>2, AFindingAdvises
  <1>4. ASSUME "keyQuickRetry" \in conflict.keys
        PROVE  LET first == FirstInFile(c, {"keyQuickRetry"}) IN
               Advises(AboutConflict(c, conflict), {Cfg(first, StockDefaults[first])})
    <2>1. known = {"keyQuickRetry"}
      BY <1>1, <1>4
    <2>2. k = FirstInFile(c, {"keyQuickRetry"})
      BY <2>1
    <2> HIDE DEF known, now, k
    <2>3. AboutConflict(c, conflict) = ReportFinding(id, 0, TRUE, now, {Cfg(k, StockDefaults[k])})
      BY <1>2, <2>1
    <2>4. Advises(AboutConflict(c, conflict), {Cfg(k, StockDefaults[k])})
      BY <2>3, AFindingAdvises
    <2>5. QED
      BY <2>2, <2>4
  <1>5. QED
    BY <1>3, <1>4

LEMMA TheBindingSettles ==
    ASSUME NEW c, Lined(c), NEW f \in DuplicateLiveBindings(c).found, f.advice # {},
           NEW d, \A s \in f.advice : s[1] = "osu!.cfg" => Get(d, s[2]) = s[3],
           ~\E s \in f.advice, k \in Bindings(d) \cap KnownKeys :
                k # s[2] /\ Get(d, k) = s[3] /\ Overlap(k, s[2]) # {}
    PROVE  \A g \in DuplicateLiveBindings(d).found : g.advice = {}
  <1> DEFINE retry == "keyQuickRetry"
             first == FirstInFile(c, {retry})
  <1>1. PICK conflict \in Conflicts(c) : f \in AboutConflict(c, conflict).found
    BY EachConflictIsReported
  <1>2. retry \in conflict.keys
    BY <1>1, WhatIsAdvisedOfAConflict DEF Advises
  <1>3. f.advice = {Cfg(first, StockDefaults[first])}
    BY <1>1, <1>2, WhatIsAdvisedOfAConflict DEF Advises
  <1>4. first = retry
    <2>1. LastLine(c, retry) \in Int
      BY <1>2, ConflictsAreAmongBindings, TheLastLineIsOne
    <2>2. LastLine(c, retry) <= LastLine(c, retry)
      BY <2>1
    <2>3. first \in {retry}
      BY <2>2 DEF FirstInFile
    <2>4. QED
      BY <2>3
  <1>5. f.advice = {Cfg(retry, Text("OemTilde"))}
    BY <1>3, <1>4 DEF StockDefaults
  <1>6. Get(d, retry) = Text("OemTilde")
    BY <1>5 DEF Cfg
  <1>7. \A k \in Bindings(d) \cap KnownKeys :
            ~(k # retry /\ Get(d, k) = Text("OemTilde") /\ Overlap(k, retry) # {})
    BY <1>5 DEF Cfg
  <1>8. ASSUME NEW other \in Conflicts(d), retry \in other.keys
        PROVE  FALSE
    <2>1. PICK j \in Bindings(d) \cap KnownKeys :
              j # retry /\ Get(d, j) = Get(d, retry) /\ Overlap(retry, j) # {}
      BY <1>8, ConflictsAreAmongBindings
    <2>2. Overlap(j, retry) = Overlap(retry, j)
      BY DEF Overlap
    <2>3. QED
      BY <1>6, <1>7, <2>1, <2>2
  <1>9. \A other \in Conflicts(d) : Advises(AboutConflict(d, other), {})
    BY <1>8, WhatIsAdvisedOfAConflict
  <1>10. QED
    BY <1>9, EachConflictIsReported DEF Advises

\* A report, from what was read and probed.
Complete(p) == ~scenario.args.noProbes => Static \subseteq DOMAIN p
ReportOf(rep, c, p, m) == rep = RunRules(Rules, c, p) /\ Complete(p) /\ TakenFrom(p, m)

LEMMA MachinesAre ==
    ASSUME scenario \in Scenarios
    PROVE  /\ Present(scenario.machine) /\ Numbered(scenario.machine)
           /\ IsOk(ProbeAccessibility(scenario.machine)) =>
                 {"sticky", "filter", "toggle"} \subseteq DOMAIN scenario.machine.a11y[2]
  <1>1. Present(scenario.machine)
    BY MachinesAssumption DEF Present
  <1>2. Numbered(scenario.machine)
    BY MachinesAssumption DEF Numbered
  <1>3. IsOk(ProbeAccessibility(scenario.machine)) => scenario.machine.a11y # RaisesOSError
    BY OnlyOkIsOk DEF ProbeAccessibility
  <1>4. QED
    BY <1>1, <1>2, <1>3, MachinesAssumption

LEMMA OneConfigIsFound ==
    ASSUME NEW places, FindConfig(places) # {}
    PROVE  \E path : FindConfig(places) = {path}
  BY DEF FindConfig

LEMMA WhatTheReportHasOf ==
    ASSUME NEW c, NEW p, NEW r \in DOMAIN Rules, Require(r, p), Harmless(Evaluate(r, c, p))
    PROVE  Of(RunRules(Rules, c, p), r) \subseteq By(r, Evaluate(r, c, p).found)
  <1>1. r \in DOMAIN AllRules
    BY TheRulesAre
  <1>2. Missing(AllRules[r], p) = {}
    BY <1>1, NothingIsMissing
  <1>3. PartOf(r, c, p) = By(r, Evaluate(r, c, p).found)
    BY <1>2, Zenon DEF PartOf, Harmless
  <1>4. QED
    BY <1>3, AReportHasParts DEF Of

\* The advice of rules that hang on probes.
LEMMA SystemAdviceSettles ==
    ASSUME scenario \in Scenarios, FindConfig(scenario.places) # {},
           NEW c, NEW p, TakenFrom(p, scenario.machine),
           NEW r \in {"sys.display.refreshrate", "sys.mouse.enhance_pointer_precision",
                      "sys.mouse.sensitivity_not_one_to_one",
                      "sys.a11y.shift_binding_triggers_sticky_keys",
                      "sys.power.throttling_scheme", "sys.win.fso_not_disabled"},
           Require(r, p), NEW f \in Evaluate(r, c, p).found, f.advice # {},
           NEW d, NEW q, TakenFrom(q, InWindows(scenario.machine, f.advice)), Static \subseteq DOMAIN q,
           \A s \in f.advice : s[1] = "osu!.cfg" => Get(d, s[2]) = s[3],
           ~(r = "sys.win.fso_not_disabled" /\ FindConfig(scenario.places) = {"copy"})
    PROVE  Evaluate(r, d, q) = Quiet
  <1> DEFINE m == scenario.machine
  <1>1. Present(m) /\ Numbered(m)
    BY MachinesAre
  <1>2. {"displays", "mouse", "a11y", "power", "fso"} \subseteq DOMAIN q
    BY DEF Static
  <1>3. CASE r = "sys.display.refreshrate"
    BY <1>1, <1>2, <1>3, TheRateSettles
  <1>4. CASE r \in {"sys.mouse.enhance_pointer_precision", "sys.mouse.sensitivity_not_one_to_one"}
    BY <1>1, <1>2, <1>4, TheMouseSettles
  <1>5. CASE r = "sys.a11y.shift_binding_triggers_sticky_keys"
    <2>1. IsOk(ProbeAccessibility(m))
      BY <1>5, WhatTheRulesNeed, TheReadingsAre DEF Require
    <2>2. "sticky" \in DOMAIN m.a11y[2]
      BY <2>1, MachinesAre
    <2>3. QED
      BY <1>1, <1>2, <1>5, <2>2, StickyKeysSettle
  <1>6. CASE r = "sys.power.throttling_scheme"
    BY <1>1, <1>2, <1>6, ThePlanSettles
  <1>7. CASE r = "sys.win.fso_not_disabled"
    <2>1. PICK path : FindConfig(scenario.places) = {path}
      BY OneConfigIsFound
    <2>2. path # "copy" /\ (CHOOSE x \in FindConfig(scenario.places) : TRUE) = path
      BY <1>7, <2>1
    <2>3. ExeBeside(CHOOSE x \in FindConfig(scenario.places) : TRUE) = "install"
      BY <2>2 DEF ExeBeside
    <2>4. QED
      BY <1>1, <1>2, <1>7, <2>3, TheFlagSettles
  <1>8. QED
    BY <1>3, <1>4, <1>5, <1>6, <1>7

\* What is left of a rule in the report after its advice was followed: in the
\* configuration, of the stock binding, and beside osu!.exe.
IsIn(f, d) == \A s \in f.finding.advice : s[1] = "osu!.cfg" => Get(d, s[2]) = s[3]
IsFree(f, d) ==
    f.rule = "cfg.keybind.duplicate_live" =>
        ~\E s \in f.finding.advice, k \in Bindings(d) \cap KnownKeys :
             k # s[2] /\ Get(d, k) = s[3] /\ Overlap(k, s[2]) # {}
IsBeside(f) == ~(f.rule = "sys.win.fso_not_disabled" /\ FindConfig(scenario.places) = {"copy"})
IsLeftOf(g, f, before) ==
    \/ g \in before \ {f}
    \/ f.rule = "cfg.keybind.duplicate_live" /\ g.finding.advice = {}

LEMMA AdviceSettles ==
    ASSUME scenario \in Scenarios, FindConfig(scenario.places) # {},
           NEW before, NEW c, NEW p, Lined(c), ReportOf(before, c, p, scenario.machine),
           NEW f \in before, f.finding.advice # {},
           NEW d, NEW q, NEW now,
           ReportOf(now, d, q, InWindows(scenario.machine, f.finding.advice)),
           IsIn(f, d), IsFree(f, d), IsBeside(f)
    PROVE  \A g \in Of(now, f.rule) : IsLeftOf(g, f, before)
  <1> USE DEF IsLeftOf
  <1> DEFINE r == f.rule
             found == f.finding
             after == InWindows(scenario.machine, found.advice)
  <1>1. /\ before = RunRules(Rules, c, p) /\ TakenFrom(p, scenario.machine)
        /\ now = RunRules(Rules, d, q) /\ TakenFrom(q, after) /\ Complete(q)
    BY DEF ReportOf
  <1>2. /\ r \in DOMAIN Rules \cap Advising /\ Require(r, p)
        /\ found \in Evaluate(r, c, p).found
        /\ f = [rule |-> r, finding |-> found]
        /\ By(r, Evaluate(r, c, p).found) \subseteq before
    BY <1>1, AdviceIsFound
  <1>3. r \in DOMAIN AllRules
    BY <1>2, TheRulesAre
  <1>4. found.advice # {} /\ \A s \in found.advice : s[1] = "osu!.cfg" => Get(d, s[2]) = s[3]
    BY DEF IsIn
  <1>5. r \notin DOMAIN ConfigOnlyRules => Static \subseteq DOMAIN q
    BY <1>1, <1>2 DEF Rules, Complete
  <1>6. Evaluate(r, d, q) = Quiet => Of(now, r) = {}
    BY <1>1, <1>3, AQuietRuleIsLeftOut
  <1>7. CASE r = "cfg.mouse.raw_input_off"
    <2>1. found \in RawInputDisabled(c).found
      BY <1>2, <1>7 DEF Evaluate
    <2>2. found.advice = {Cfg("RawInput", Num(1))}
      BY <2>1, WhatConfigRulesAdvise DEF Advises
    <2>3. Get(d, "RawInput") = Num(1)
      BY <1>4, <2>2 DEF Cfg
    <2>4. Require(r, q)
      BY <1>7, WhatTheRulesNeed DEF Require
    <2>5. Evaluate(r, d, q) = Quiet
      BY <1>7, <2>3, <2>4, ConfigRulesAreQuiet DEF Evaluate
    <2>6. QED
      BY <1>6, <2>5
  <1>8. CASE r = "cfg.mouse.speed_not_unity"
    <2>1. found \in MouseSpeedNotUnity(c).found
      BY <1>2, <1>8 DEF Evaluate
    <2>2. found.advice = {Cfg("MouseSpeed", Num(1))}
      BY <1>4, <2>1, WhatConfigRulesAdvise
    <2>3. Get(d, "MouseSpeed") = Num(1)
      BY <1>4, <2>2 DEF Cfg
    <2>4. Require(r, q)
      BY <1>8, WhatTheRulesNeed DEF Require
    <2>5. Evaluate(r, d, q) = Quiet
      BY <1>8, <2>3, <2>4, ConfigRulesAreQuiet DEF Evaluate
    <2>6. QED
      BY <1>6, <2>5
  <1>9. CASE r = "cfg.keybind.duplicate_live"
    <2>1. found \in DuplicateLiveBindings(c).found
      BY <1>2, <1>9 DEF Evaluate
    <2>2. \A g \in DuplicateLiveBindings(d).found : g.advice = {}
      BY <1>4, <1>9, <2>1, TheBindingSettles DEF IsFree
    <2>3. Require(r, q)
      BY <1>9, WhatTheRulesNeed DEF Require
    <2>4. Evaluate(r, d, q) = DuplicateLiveBindings(d)
      BY <1>9, <2>3 DEF Evaluate
    <2>5. Harmless(Evaluate(r, d, q))
      BY <2>4, ConflictsAreHarmless
    <2>6. Of(now, r) \subseteq By(r, DuplicateLiveBindings(d).found)
      BY <1>1, <1>2, <2>3, <2>4, <2>5, WhatTheReportHasOf
    <2>7. \A g \in Of(now, r) : g.finding.advice = {}
      BY <2>2, <2>6 DEF By
    <2>8. QED
      BY <1>9, <2>7
  <1>10. CASE r = "sys.a11y.other_hotkeys"
    <2>1. Static \subseteq DOMAIN q
      BY <1>5, <1>10 DEF ConfigOnlyRules
    <2>2. IsOk(ProbeAccessibility(scenario.machine))
      BY <1>1, <1>2, <1>10, WhatTheRulesNeed, TheReadingsAre DEF Require
    <2>3. {"filter", "toggle"} \subseteq DOMAIN scenario.machine.a11y[2]
      BY <2>2, MachinesAre
    <2>4. Present(scenario.machine) /\ "a11y" \in DOMAIN q
      BY <2>1, MachinesAre DEF Static
    <2> HIDE DEF found, r
    <2>5. /\ Require(r, q) /\ Harmless(Evaluate(r, d, q))
          /\ Evaluate(r, d, q).found \subseteq Evaluate(r, c, p).found \ {found}
      <3> DEFINE hotkeys == "sys.a11y.other_hotkeys"
      <3>1. Require(hotkeys, p) /\ found \in Evaluate(hotkeys, c, p).found
        BY ONLY <1>2, <1>10
      <3>2. /\ Require(hotkeys, q) /\ Harmless(Evaluate(hotkeys, d, q))
            /\ Evaluate(hotkeys, d, q).found \subseteq Evaluate(hotkeys, c, p).found \ {found}
        BY ONLY <1>1, <2>3, <2>4, <3>1, TheOtherShortcutStays
      <3>3. QED
        BY ONLY <1>10, <3>2
    <2>6. Of(now, r) \subseteq By(r, Evaluate(r, d, q).found)
      BY <1>1, <1>2, <2>5, WhatTheReportHasOf
    <2>7. ASSUME NEW g \in Of(now, r) PROVE g \in before \ {f}
      <3>1. g.finding \in Evaluate(r, c, p).found /\ g.finding # found
            /\ g = [rule |-> r, finding |-> g.finding]
        BY <2>5, <2>6 DEF By
      <3>2. g \in before
        BY <1>2, <3>1 DEF By
      <3>3. g # f
        BY <1>2, <3>1
      <3>4. QED
        BY <3>2, <3>3
    <2>8. QED
      BY <2>7 DEF r
  <1>11. CASE r \in {"sys.display.refreshrate", "sys.mouse.enhance_pointer_precision",
                     "sys.mouse.sensitivity_not_one_to_one",
                     "sys.a11y.shift_binding_triggers_sticky_keys",
                     "sys.power.throttling_scheme", "sys.win.fso_not_disabled"}
    <2>1. Static \subseteq DOMAIN q
      BY <1>5, <1>11 DEF ConfigOnlyRules
    <2>2. ~(r = "sys.win.fso_not_disabled" /\ FindConfig(scenario.places) = {"copy"})
      BY DEF IsBeside
    <2> HIDE DEF r, found
    <2>3. Evaluate(r, d, q) = Quiet
      <3>1. scenario \in Scenarios /\ FindConfig(scenario.places) # {}
        OBVIOUS
      <3>2. TakenFrom(q, InWindows(scenario.machine, found.advice)) /\ TakenFrom(p, scenario.machine)
        BY ONLY <1>1
      <3>3. Require(r, p) /\ found \in Evaluate(r, c, p).found
        BY ONLY <1>2
      <3>4. QED
        BY ONLY <1>4, <1>11, <2>1, <2>2, <3>1, <3>2, <3>3, SystemAdviceSettles
    <2>4. QED
      BY <1>6, <2>3 DEF r
  <1>12. QED
    BY <1>2, <1>7, <1>8, <1>9, <1>10, <1>11 DEF Advising

\* What a second report is made of, from the advice that was followed on.
FilesAreLined ==
    followed = {} => Lined(osu.memory) /\ \A path \in DOMAIN files : Lined(files[path])
HasRead == FindConfig(scenario.places) # {} /\ (followed = {} => Lined(read))
WasFollowed(a) ==
    /\ machine = InWindows(scenario.machine, a.advice.finding.advice)
    /\ a.advice \in a.before /\ a.advice.finding.advice # {}
    /\ \E c, p : Lined(c) /\ ReportOf(a.before, c, p, scenario.machine)

SettleInv ==
    /\ scenario \in Scenarios
    /\ InOrder
    /\ step \in {"start", "probing", "rules", "done"}
    /\ Shapes
    /\ DOMAIN files = DOMAIN scenario.files
    /\ FilesAreLined
    /\ step \in {"probing", "rules"} => HasRead /\ TakenFrom(probes, machine)
    /\ step = "rules" => Complete(probes)
    /\ step = "done" => report = {} \/ (HasRead /\ ReportOf(report, read, probes, machine))
    /\ followed = {} => machine = scenario.machine
    /\ \A a \in followed : WasFollowed(a)

LEMMA SettledAdviceStays ==
    ASSUME SettleInv
    PROVE  FollowedAdviceSettles
  <1> SUFFICES ASSUME step = "done", NEW a \in followed,
                      \A s \in a.advice.finding.advice : IsRead(s),
                      ~(a.advice.rule = "cfg.keybind.duplicate_live" /\ TakenBefore(a.before)),
                      ~(a.advice.rule = "sys.win.fso_not_disabled"
                           /\ FindConfig(scenario.places) = {"copy"}),
                      report # {}
               PROVE  Settled(a)
    BY DEF FollowedAdviceSettles, Settled, Of
  <1> DEFINE f == a.advice
  <1>1. /\ scenario \in Scenarios /\ FindConfig(scenario.places) # {}
        /\ ReportOf(report, read, probes, InWindows(scenario.machine, f.finding.advice))
        /\ f \in a.before /\ f.finding.advice # {}
    BY DEF SettleInv, HasRead, WasFollowed
  <1>2. PICK c, p : Lined(c) /\ ReportOf(a.before, c, p, scenario.machine)
    BY DEF SettleInv, WasFollowed
  <1>3. IsIn(f, read)
    BY DEF IsRead, IsIn
  <1>4. IsFree(f, read)
    BY <1>1 DEF TakenBefore, IsFree
  <1>5. IsBeside(f)
    BY DEF IsBeside
  <1> HIDE DEF f
  <1>6. \A g \in Of(report, f.rule) : IsLeftOf(g, f, a.before)
    BY ONLY <1>1, <1>2, <1>3, <1>4, <1>5, AdviceSettles
  <1>7. QED
    BY <1>6 DEF Settled, IsLeftOf, Of, f

LEMMA OneScenario ==
    ASSUME scenario' = scenario
    PROVE  /\ \A p, m : TakenFrom(p, m)' <=> TakenFrom(p, m)
           /\ \A p : Complete(p)' <=> Complete(p)
           /\ \A rep, c, p, m : ReportOf(rep, c, p, m)' <=> ReportOf(rep, c, p, m)
  <1>1. ASSUME NEW p, NEW m PROVE TakenFrom(p, m)' <=> TakenFrom(p, m)
    BY DEF TakenFrom, Reading
  <1>2. ASSUME NEW p PROVE Complete(p)' <=> Complete(p)
    BY DEF Complete
  <1>3. ASSUME NEW rep, NEW c, NEW p, NEW m
        PROVE  ReportOf(rep, c, p, m)' <=> ReportOf(rep, c, p, m)
    BY <1>1, <1>2 DEF ReportOf, Rules
  <1>4. QED
    BY <1>1, <1>2, <1>3

LEMMA SettleInitially ==
    ASSUME DoctorInit
    PROVE  SettleInv
  <1>1. /\ scenario \in Scenarios /\ files = scenario.files /\ osu.memory = scenario.files["mine"]
        /\ DOMAIN osu = {"running", "window", "memory"} /\ machine = scenario.machine
        /\ step = "start" /\ followed = {} /\ DOMAIN probes = {}
    BY DEF DoctorInit
  <1>2. "mine" \in DOMAIN files
    BY <1>1, ScenariosAssumption
  <1>3. \A path \in DOMAIN files : Lined(files[path])
    <2> SUFFICES ASSUME NEW path \in DOMAIN files PROVE Lined(files[path])
      OBVIOUS
    <2> DEFINE lines == files[path]
    <2>1. lines \in Seq({lines[i] : i \in DOMAIN lines})
      BY <1>1, FilesAssumption
    <2> HIDE DEF lines
    <2>2. QED
      BY <2>1 DEF Lined, lines
  <1>4. InOrder
    BY <1>1, FS_EmptySet DEF InOrder
  <1>5. QED
    BY <1>1, <1>2, <1>3, <1>4 DEF SettleInv, Shapes, FilesAreLined

LEMMA TheGameSettlesNothing ==
    ASSUME SettleInv, OsuStarts \/ OsuExits \/ AudioStep \/ UNCHANGED vars
    PROVE  SettleInv'
  <1>1. /\ scenario' = scenario /\ machine' = machine /\ step' = step /\ read' = read
        /\ probes' = probes /\ report' = report /\ followed' = followed
    BY DEF OsuStarts, OsuExits, AudioStep, vars, doctorVars
  <1>2. Shapes' /\ DOMAIN files' = DOMAIN files
    <2>1. CASE OsuStarts \/ OsuExits
      BY <2>1, TheGameKeepsWhatItHas DEF SettleInv, OsuStarts, OsuExits
    <2>2. CASE AudioStep \/ UNCHANGED vars
      BY <2>2 DEF SettleInv, Shapes, AudioStep, vars, doctorVars
    <2>3. QED
      BY <2>1, <2>2
  <1>3. FilesAreLined'
    <2> SUFFICES ASSUME followed = {}
                 PROVE  Lined(osu'.memory) /\ \A path \in DOMAIN files' : Lined(files'[path])
      BY <1>1 DEF FilesAreLined, Lined
    <2>1. Lined(osu.memory) /\ \A path \in DOMAIN files : Lined(files[path])
      BY DEF SettleInv, FilesAreLined
    <2>2. "mine" \in DOMAIN files /\ DOMAIN osu = {"running", "window", "memory"}
      BY DEF SettleInv, Shapes
    <2>3. CASE OsuStarts
      <3>1. osu'.memory = files["mine"] /\ files' = files
        BY <2>2, <2>3 DEF OsuStarts
      <3>2. QED
        BY <2>1, <2>2, <3>1
    <2>4. CASE OsuExits
      <3>1. osu'.memory = osu.memory
        BY <2>2, <2>4 DEF OsuExits
      <3>2. \A path \in DOMAIN files : files'[path] = osu.memory \/ files'[path] = files[path]
        BY <2>4 DEF OsuExits
      <3>3. QED
        BY <1>2, <2>1, <3>1, <3>2
    <2>5. CASE AudioStep \/ UNCHANGED vars
      BY <2>1, <2>5 DEF AudioStep, vars, doctorVars
    <2>6. QED
      BY <2>3, <2>4, <2>5
  <1>4. InOrder'
    BY <1>1 DEF SettleInv, InOrder
  <1>5. HasRead' <=> HasRead
    BY <1>1 DEF HasRead, Lined
  <1>6. \A a : WasFollowed(a)' <=> WasFollowed(a)
    BY <1>1, OneScenario DEF WasFollowed, Lined
  <1>7. QED
    BY <1>1, <1>2, <1>3, <1>4, <1>5, <1>6, OneScenario DEF SettleInv

LEMMA DoctorSettlesNothing ==
    ASSUME SettleInv, ReadConfig \/ CollectProbe \/ Report
    PROVE  SettleInv'
  <1>1. /\ scenario' = scenario /\ machine' = machine /\ followed' = followed /\ files' = files
        /\ osu' = osu
    BY DEF ReadConfig, CollectProbe, Report
  <1>2. Shapes' /\ FilesAreLined'
    BY <1>1 DEF SettleInv, Shapes, FilesAreLined, Lined
  <1>3. \A a : WasFollowed(a)' <=> WasFollowed(a)
    BY <1>1, OneScenario DEF WasFollowed, Lined
  <1>4. /\ scenario' \in Scenarios /\ DOMAIN files' = DOMAIN scenario'.files
        /\ followed' = {} => machine' = scenario'.machine
        /\ \A a \in followed' : WasFollowed(a)'
    BY <1>1, <1>3 DEF SettleInv
  <1>5. CASE ReadConfig
    <2> DEFINE found == FindConfig(scenario.places)
               path == CHOOSE p \in found : TRUE
    <2>1. probes' = <<>> /\ report' = {} /\ DOMAIN probes' = {}
      BY <1>5 DEF ReadConfig
    <2>2. InOrder' /\ TakenFrom(probes, machine)'
      BY <2>1, FS_EmptySet DEF InOrder, TakenFrom
    <2>3. CASE found = {}
      <3>1. step' = "done"
        BY <1>5, <2>3 DEF ReadConfig
      <3>2. QED
        BY <1>2, <1>4, <2>1, <2>2, <3>1 DEF SettleInv
    <2>4. CASE found # {}
      <3>1. read' = Parse(files[path]) /\ step' = IF scenario.args.noProbes THEN "rules" ELSE "probing"
        BY <1>5, <2>4 DEF ReadConfig
      <3>2. path \in DOMAIN files
        BY <2>4, FilesAssumption DEF SettleInv
      <3>3. followed = {} => Lined(files[path])
        BY <3>2 DEF SettleInv, FilesAreLined
      <3>4. followed = {} => Lined(read')
        BY <3>1, <3>3 DEF Lined, Parse
      <3>5. HasRead'
        BY <1>1, <2>4, <3>4 DEF HasRead, Lined
      <3>6. step' = "rules" => Complete(probes)'
        BY <1>1, <3>1 DEF Complete
      <3>7. QED
        BY <1>2, <1>4, <2>1, <2>2, <3>1, <3>5, <3>6 DEF SettleInv
    <2>5. QED
      BY <2>3, <2>4
  <1>6. CASE CollectProbe
    <2>1. /\ step = "probing" /\ read' = read
          /\ DOMAIN probes' = DOMAIN probes \cup {NextProbe}
          /\ \A p \in DOMAIN probes' : probes'[p] = IF p = NextProbe THEN ResultOf(p) ELSE probes[p]
          /\ step' = IF NextProbe = Order[Len(Order)] THEN "rules" ELSE step
      BY <1>6 DEF CollectProbe
    <2>2. HasRead' /\ TakenFrom(probes, machine)
      BY <1>1, <2>1 DEF SettleInv, HasRead, Lined
    <2>3. TakenFrom(probes', machine')
      <3>1. \A p \in Static : ResultOf(p) = Reading(p, machine)
        BY DEF Static, ResultOf, Reading
      <3>2. QED
        BY <1>1, <2>1, <2>2, <3>1 DEF TakenFrom
    <2>4. InOrder'
      BY <1>6, TheNextIsCollected DEF SettleInv
    <2>5. step' = "rules" => Static \subseteq DOMAIN probes'
      <3> SUFFICES ASSUME step' = "rules" PROVE Static \subseteq DOMAIN probes'
        OBVIOUS
      <3> DEFINE n == Cardinality(DOMAIN probes)
      <3>1. n \in 0..9 /\ NextProbe = Order[n + 1] /\ NextProbe = Order[Len(Order)]
        BY <2>1, TheNextIsNew DEF SettleInv
      <3>2. DOMAIN probes = {Order[i] : i \in 1..n}
        BY DEF SettleInv, InOrder
      <3> HIDE DEF n
      <3>3. n = 9
        BY <3>1 DEF Order
      <3>4. \A i \in 1..9 : Order[i] \in DOMAIN probes
        BY <3>2, <3>3
      <3>5. /\ Order[1] = "displays" /\ Order[3] = "mouse" /\ Order[4] = "a11y"
            /\ Order[6] = "power" /\ Order[10] = "fso"
        BY DEF Order
      <3>6. Order[1] \in DOMAIN probes /\ Order[3] \in DOMAIN probes /\ Order[4] \in DOMAIN probes
            /\ Order[6] \in DOMAIN probes /\ NextProbe = Order[10]
        <4>1. 1 \in 1..9 /\ 3 \in 1..9 /\ 4 \in 1..9 /\ 6 \in 1..9
          OBVIOUS
        <4>2. QED
          <5>1. n + 1 = 10
            BY ONLY <3>3
          <5>2. QED
            BY ONLY <3>1, <3>4, <4>1, <5>1
      <3>7. QED
        BY <2>1, <3>5, <3>6 DEF Static
    <2>6. step' = "rules" => Complete(probes)'
      BY <2>5 DEF Complete
    <2>7. TakenFrom(probes, machine)'
      BY <1>1, <2>3, OneScenario DEF TakenFrom, Reading
    <2>8. QED
      BY <1>2, <1>4, <2>1, <2>2, <2>4, <2>6, <2>7 DEF SettleInv
  <1>7. CASE Report
    <2>1. /\ step = "rules" /\ step' = "done" /\ read' = read /\ probes' = probes
          /\ report' = RunRules(Rules, read, probes)
      BY <1>7 DEF Report
    <2>2. HasRead'
      BY <1>1, <2>1 DEF SettleInv, HasRead, Lined
    <2>3. ReportOf(report', read, probes, machine)
      BY <2>1 DEF SettleInv, ReportOf
    <2>4. ReportOf(report, read, probes, machine)'
      BY <1>1, <2>1, <2>3 DEF ReportOf, Rules, Complete, TakenFrom, Reading
    <2>5. InOrder'
      BY <2>1 DEF SettleInv, InOrder
    <2>6. QED
      BY <1>2, <1>4, <2>1, <2>2, <2>4, <2>5 DEF SettleInv
  <1>8. QED
    BY <1>5, <1>6, <1>7

LEMMA FollowingSettlesLater ==
    ASSUME SettleInv, Player
    PROVE  SettleInv'
  <1>1. PICK f \in report : Follow(f)
    BY DEF Player
  <1>2. /\ step = "done" /\ followed = {} /\ f.finding.advice # {}
        /\ machine' = InWindows(machine, f.finding.advice)
        /\ followed' = {[advice |-> f, before |-> report]}
        /\ step' = "start" /\ scenario' = scenario /\ probes' = probes
        /\ DOMAIN osu' = DOMAIN osu /\ DOMAIN files' = DOMAIN files
    BY <1>1 DEF Follow
  <1>3. machine = scenario.machine /\ Lined(read) /\ ReportOf(report, read, probes, machine)
    BY <1>1, <1>2 DEF SettleInv, HasRead
  <1>4. ASSUME NEW a \in followed' PROVE WasFollowed(a)'
    <2>1. a.advice = f /\ a.before = report
      BY <1>2
    <2>2. \E c, p : Lined(c) /\ ReportOf(a.before, c, p, scenario.machine)
      BY <1>3, <2>1
    <2>3. QED
      BY <1>1, <1>2, <1>3, <2>1, <2>2, OneScenario DEF WasFollowed, Lined
  <1>5. followed' # {}
    BY <1>2
  <1>6. InOrder' /\ Shapes'
    BY <1>2 DEF SettleInv, InOrder, Shapes
  <1>7. QED
    BY <1>2, <1>4, <1>5, <1>6 DEF SettleInv, FilesAreLined

\* Advice that was followed, and that is in what the second run read, has
\* settled the matter, for any machine, files and arguments: of the rule that
\* gave it run_rules reports nothing that was not beside it before, but for the
\* stock binding another key has and the flag of an osu!.exe that is not beside
\* the configuration.
THEOREM FollowedAdviceIsSettled == DoctorSpec => []FollowedAdviceSettles
  <1>1. DoctorInit => SettleInv
    BY SettleInitially
  <1>2. SettleInv /\ [Next]_vars => SettleInv'
    BY TheGameSettlesNothing, DoctorSettlesNothing, FollowingSettlesLater DEF Next
  <1>3. SettleInv => FollowedAdviceSettles
    BY SettledAdviceStays
  <1>4. QED
    BY <1>1, <1>2, <1>3, PTL DEF DoctorSpec
=============================================================================
