----------------------------- MODULE PageProofs -----------------------------
(***************************************************************************)
(* Page, for any finite set of plays, any --limit and any number of runs   *)
(* and loads: types, the replay on screen is the selected one, and the     *)
(* object URLs of plays browsed before are revoked.                        *)
(***************************************************************************)
EXTENDS Page, TLAPS, FiniteSetTheorems

Load ==
  [name : Names,
   body : {"header", "body", "ready", "rejected", "rejected late", "shown", "dropped"},
   blob : {"pending", "none", "made", "revoked"},
   cancelled : BOOLEAN]

ListRequest ==
  [state : {"unsent", "sent", "answered", "failed", "done"}, found : Seq(Names)]

ServerTypeOK ==
  /\ finished \in Seq(Names)
  /\ run \in 1..MaxRuns
  /\ up \in BOOLEAN
  /\ served \in Seq(Names)
  /\ token \in 0..run

WatchTypeOK ==
  /\ link \in {"none", "connecting", "open", "dropped", "waiting"}
  /\ delay \in 1..MaxDelay
  /\ drops \in Nat
  /\ inbox \in Seq(Names)

ListTypeOK ==
  /\ lists \in [ListIds -> ListRequest]
  /\ entries \in Seq(Names)
  /\ selected \in Names \union {Nothing}
  /\ arrived \in Names \union {Nothing}
  /\ view \in {"replay", "corpus"}
  /\ hash \in Names \union {Nothing, "#corpus"}

LoadTypeOK ==
  /\ loads \in Seq(Load)
  /\ loaded \in 0..Len(loads)

PageTypeOK == ServerTypeOK /\ WatchTypeOK /\ ListTypeOK /\ LoadTypeOK

\* A server always has something to serve, so a list that is answered has a
\* first play to open on.
SomethingIsServed ==
  /\ finished # <<>> /\ served # <<>>
  /\ \A i \in ListIds : lists[i].state = "answered" => lists[i].found # <<>>

\* Every load but the last was called off when the next one began, and the
\* last one is for what is selected.
OnlyTheLastIsWanted ==
  /\ \A i \in DOMAIN loads : i < Len(loads) => loads[i].cancelled
  /\ loads # <<>> => loads[Len(loads)].name = selected

\* What is on screen was not called off, and only what was is revoked.
TheShownIsWanted ==
  /\ loaded # 0 => ~loads[loaded].cancelled
  /\ \A i \in DOMAIN loads : loads[i].blob = "revoked" => loads[i].cancelled

\* The background is not asked for before the header is there, and is given
\* up together with the load.
InStep(load) ==
  /\ load.body \in {"header", "rejected"} => load.blob = "pending"
  /\ load.body = "dropped" => load.blob # "made"

BlobFollowsBody == \A i \in DOMAIN loads : InStep(loads[i])

\* A URL that is alive belongs to a load that is not over, or to the last one.
LoadingURL(load) == load.blob = "made" => load.body \in {"body", "ready", "rejected late"}

URLsAreWanted == \A i \in DOMAIN loads : i < Len(loads) => LoadingURL(loads[i])

\* TheSelectedPlayIsShown, in its two halves.
TheShownIsSelected == loaded # 0 => loaded = Len(loads) /\ loads[loaded].name = selected
TheAddressFollows == view = "replay" => hash = selected

\* What is said of the loads, beyond their types.
LoadsInv ==
  /\ OnlyTheLastIsWanted
  /\ TheShownIsWanted
  /\ BlobFollowsBody
  /\ TheShownIsSelected
  /\ URLsAreWanted

PageInv == PageTypeOK /\ SomethingIsServed /\ TheAddressFollows /\ LoadsInv

-----------------------------------------------------------------------------
\* A start serves at least one play when there is one.
LEMMA StartupServes ==
  ASSUME NEW q \in Seq(Names), q # <<>>
  PROVE  Startup(q) \in Seq(Names) /\ Startup(q) # <<>>
  <1> DEFINE n == IF Len(q) < Limit THEN Len(q) ELSE Limit
  <1>1. Reverse(q) \in Seq(Names) /\ Len(Reverse(q)) = Len(q)
    <2>1. \A i \in 1..Len(q) : (Len(q) - i) + 1 \in 1..Len(q)
      OBVIOUS
    <2>2. \A i \in 1..Len(q) : q[(Len(q) - i) + 1] \in Names
      BY <2>1
    <2>3. QED
      BY <2>2 DEF Reverse
  <1>2. n \in 1..Len(q)
    BY LimitAssumption
  <1>3. SubSeq(Reverse(q), 1, n) \in Seq(Names) /\ Len(SubSeq(Reverse(q), 1, n)) = n
    BY <1>1, <1>2
  <1>4. Startup(q) = SubSeq(Reverse(q), 1, n)
    BY DEF Startup
  <1> HIDE DEF n
  <1>5. Startup(q) \in Seq(Names) /\ Len(Startup(q)) # 0
    BY <1>2, <1>3, <1>4
  <1>6. QED
    BY <1>5

LEMMA ServerInitServes ==
  ASSUME ServerInit
  PROVE  /\ finished \in Seq(Names) /\ finished # <<>>
         /\ served \in Seq(Names) /\ served # <<>>
         /\ run = 1 /\ up = TRUE
  <1>1. PICK P \in (SUBSET Names) \ {{}} : finished \in SetToSeqs(P)
    BY DEF ServerInit
  <1>2. IsFiniteSet(P) /\ Cardinality(P) \in Nat /\ Cardinality(P) # 0
    BY NamesAreFinite, FS_Subset, FS_CardinalityType, FS_EmptySet
  <1>3. finished \in Seq(Names) /\ finished # <<>>
    BY <1>1, <1>2 DEF SetToSeqs
  <1>4. QED
    BY <1>3, StartupServes DEF ServerInit

\* A load that is called off, with its URL or without.
LEMMA RevokedLoad ==
  ASSUME NEW r \in Load
  PROVE  /\ [r EXCEPT !.blob = "revoked", !.cancelled = TRUE] \in Load
         /\ [r EXCEPT !.blob = "revoked", !.cancelled = TRUE].body = r.body
         /\ [r EXCEPT !.blob = "revoked", !.cancelled = TRUE].blob = "revoked"
         /\ [r EXCEPT !.blob = "revoked", !.cancelled = TRUE].cancelled = TRUE
  BY DEF Load

LEMMA CancelledLoad ==
  ASSUME NEW r \in Load
  PROVE  /\ [r EXCEPT !.cancelled = TRUE] \in Load
         /\ [r EXCEPT !.cancelled = TRUE].body = r.body
         /\ [r EXCEPT !.cancelled = TRUE].blob = r.blob
         /\ [r EXCEPT !.cancelled = TRUE].cancelled = TRUE
  BY DEF Load

\* One load of the page changes; the others stay.
LEMMA OneLoadChanges ==
  ASSUME NEW q \in Seq(Load), NEW i \in DOMAIN q, NEW r \in Load
  PROVE  /\ [q EXCEPT ![i] = r] \in Seq(Load)
         /\ Len([q EXCEPT ![i] = r]) = Len(q)
         /\ [q EXCEPT ![i] = r][i] = r
         /\ \A j \in DOMAIN q : j # i => [q EXCEPT ![i] = r][j] = q[j]
  OBVIOUS

-----------------------------------------------------------------------------
\* A response moves its own load forward: name and cancellation stay, a URL is
\* made only while something is loading, and nothing comes on screen.
LEMMA LoadMoves ==
  ASSUME LoadTypeOK, LoadsInv, NEW i \in DOMAIN loads, NEW r \in Load,
         loads' = [loads EXCEPT ![i] = r],
         r.name = loads[i].name, r.cancelled = loads[i].cancelled,
         r.blob = "revoked" => r.cancelled,
         InStep(r),
         i < Len(loads) => LoadingURL(r),
         \/ loaded' = loaded
         \/ loaded' = i /\ ~r.cancelled /\ i # 0,
         selected' = selected
  PROVE  LoadTypeOK' /\ LoadsInv'
  <1> USE DEF LoadTypeOK, LoadsInv
  <1>1. /\ loads' \in Seq(Load) /\ Len(loads') = Len(loads) /\ Len(loads) \in Nat
        /\ DOMAIN loads' = DOMAIN loads /\ DOMAIN loads = 1..Len(loads)
        /\ loads'[i] = r
        /\ \A j \in DOMAIN loads : j # i => loads'[j] = loads[j]
    <2>1. loads \in Seq(Load)
      OBVIOUS
    <2>2. /\ [loads EXCEPT ![i] = r] \in Seq(Load)
          /\ Len([loads EXCEPT ![i] = r]) = Len(loads)
          /\ [loads EXCEPT ![i] = r][i] = r
          /\ \A j \in DOMAIN loads : j # i => [loads EXCEPT ![i] = r][j] = loads[j]
      BY <2>1, OneLoadChanges
    <2>3. /\ loads' \in Seq(Load) /\ Len(loads') = Len(loads)
          /\ loads'[i] = r
          /\ \A j \in DOMAIN loads : j # i => loads'[j] = loads[j]
      BY <2>2
    <2>4. DOMAIN loads' = 1..Len(loads') /\ DOMAIN loads = 1..Len(loads) /\ Len(loads) \in Nat
      BY <2>1, <2>3
    <2>5. QED
      BY <2>3, <2>4
  <1>2. LoadTypeOK'
    <2>1. loaded \in 0..Len(loads) /\ i \in 0..Len(loads)
      BY <1>1
    <2>2. QED
      BY <1>1, <2>1
  <1>3. OnlyTheLastIsWanted'
    <2>1. \A j \in DOMAIN loads : loads'[j].cancelled = loads[j].cancelled
                                  /\ loads'[j].name = loads[j].name
      BY <1>1
    <2>2. loads' # <<>> => loads # <<>> /\ Len(loads) \in DOMAIN loads
      BY <1>1
    <2>3. QED
      BY <1>1, <2>1, <2>2 DEF OnlyTheLastIsWanted
  <1>4. loaded' # 0 => loaded' \in DOMAIN loads
    BY <1>1
  <1>5. TheShownIsWanted'
    BY <1>1, <1>4 DEF TheShownIsWanted
  <1>6. BlobFollowsBody'
    BY <1>1 DEF BlobFollowsBody
  <1>7. TheShownIsSelected'
    <2>1. \A j \in DOMAIN loads : loads'[j].name = loads[j].name
      BY <1>1
    <2>2. CASE loaded' = loaded
      BY <1>1, <1>4, <2>1, <2>2 DEF TheShownIsSelected
    <2>3. CASE loaded' = i /\ ~r.cancelled
      <3>1. i = Len(loads)
        BY <1>1, <2>3 DEF OnlyTheLastIsWanted
      <3>2. loads # <<>>
        BY <1>1
      <3>3. QED
        BY <1>1, <2>1, <2>3, <3>1, <3>2 DEF TheShownIsSelected, OnlyTheLastIsWanted
    <2>4. QED
      BY <2>2, <2>3
  <1>8. URLsAreWanted'
    BY <1>1 DEF URLsAreWanted
  <1>9. QED
    BY <1>2, <1>3, <1>5, <1>6, <1>7, <1>8

\* The cleanup of the load effect: the last load is called off, and its URL is
\* revoked if it was on screen.
LEMMA CleanupCancels ==
  ASSUME LoadTypeOK, LoadsInv
  PROVE  /\ Cleanup(loads) \in Seq(Load)
         /\ Len(Cleanup(loads)) = Len(loads)
         /\ \A i \in DOMAIN loads :
              LET r == Cleanup(loads)[i]
              IN r.cancelled /\ InStep(r) /\ LoadingURL(r)
  <1> USE DEF LoadTypeOK, LoadsInv
  <1>1. CASE loads = <<>>
    BY <1>1 DEF Cleanup
  <1>2. CASE loads # <<>>
    <2> DEFINE n == Len(loads)
               last == loads[n]
               kept == IF last.body = "shown" /\ last.blob = "made"
                         THEN [last EXCEPT !.blob = "revoked", !.cancelled = TRUE]
                         ELSE [last EXCEPT !.cancelled = TRUE]
    <2>1. n \in DOMAIN loads /\ DOMAIN loads = 1..n /\ last \in Load
      BY <1>2
    <2>2. Cleanup(loads) = [loads EXCEPT ![n] = kept]
      BY <1>2 DEF Cleanup, ReplaceAt
    <2>3. /\ InStep(last)
          /\ last.body \in {"header", "body", "ready", "rejected", "rejected late", "shown", "dropped"}
      BY <2>1 DEF BlobFollowsBody, Load
    <2>4. /\ kept \in Load /\ kept.cancelled /\ kept.body = last.body
          /\ kept.blob = (IF last.body = "shown" /\ last.blob = "made" THEN "revoked" ELSE last.blob)
      <3>1. CASE last.body = "shown" /\ last.blob = "made"
        <4>1. kept = [last EXCEPT !.blob = "revoked", !.cancelled = TRUE]
          BY <3>1
        <4> HIDE DEF kept, last
        <4>2. QED
          BY <2>1, <3>1, <4>1, RevokedLoad
      <3>2. CASE ~(last.body = "shown" /\ last.blob = "made")
        <4>1. kept = [last EXCEPT !.cancelled = TRUE]
          BY <3>2
        <4> HIDE DEF kept, last
        <4>2. QED
          BY <2>1, <3>2, <4>1, CancelledLoad
      <3>3. QED
        BY <3>1, <3>2
    <2> HIDE DEF kept, last
    <2>5. InStep(kept) /\ LoadingURL(kept)
      BY <2>3, <2>4 DEF InStep, LoadingURL
    <2>6. /\ Cleanup(loads) \in Seq(Load) /\ Len(Cleanup(loads)) = n
          /\ Cleanup(loads)[n] = kept
          /\ \A j \in DOMAIN loads : j # n => Cleanup(loads)[j] = loads[j]
      BY <2>1, <2>2, <2>4, OneLoadChanges
    <2>7. ASSUME NEW i \in DOMAIN loads, i # n
          PROVE  loads[i].cancelled /\ InStep(loads[i]) /\ LoadingURL(loads[i])
      BY <2>1, <2>7 DEF OnlyTheLastIsWanted, BlobFollowsBody, URLsAreWanted
    <2>8. QED
      BY <2>4, <2>5, <2>6, <2>7
  <1>3. QED
    BY <1>1, <1>2

\* A selection: of another play it begins a load, with nothing on screen; of
\* the same one it changes nothing.
LEMMA SelectKeepsLoads ==
  ASSUME LoadTypeOK, LoadsInv, NEW p \in Names, Select(p)
  PROVE  LoadTypeOK' /\ LoadsInv'
  <1> USE DEF Select
  <1>1. CASE p = selected
    <2>1. selected' = selected /\ loads' = loads /\ loaded' = loaded
      BY <1>1 DEF loadVars
    <2>2. QED
      BY <2>1 DEF LoadTypeOK, LoadsInv, OnlyTheLastIsWanted, TheShownIsWanted,
                  BlobFollowsBody, TheShownIsSelected, URLsAreWanted
  <1>2. CASE p # selected
    <2> DEFINE c == Cleanup(loads)
               new == NewLoad(p)
    <2>1. /\ c \in Seq(Load) /\ Len(c) = Len(loads) /\ Len(c) \in Nat
          /\ \A i \in 1..Len(c) : c[i].cancelled /\ InStep(c[i]) /\ LoadingURL(c[i])
      BY CleanupCancels DEF LoadTypeOK
    <2>2. /\ new \in Load /\ new.name = p /\ InStep(new)
          /\ new.blob = "pending"
      BY DEF NewLoad, Load, InStep
    <2>3. loads' = Append(c, new) /\ loaded' = 0 /\ selected' = p
      BY <1>2
    <2> HIDE DEF c, new
    <2>4. /\ loads' \in Seq(Load) /\ Len(loads') = Len(c) + 1
          /\ DOMAIN loads' = 1..(Len(c) + 1)
          /\ loads'[Len(c) + 1] = new
          /\ \A i \in 1..Len(c) : loads'[i] = c[i]
      BY <2>1, <2>2, <2>3
    <2>5. LoadTypeOK'
      BY <2>1, <2>3, <2>4 DEF LoadTypeOK
    <2>6. OnlyTheLastIsWanted' /\ TheShownIsSelected'
      BY <2>1, <2>2, <2>3, <2>4 DEF OnlyTheLastIsWanted, TheShownIsSelected
    <2>7. \A i \in DOMAIN loads' : i \in 1..Len(c) \/ i = Len(c) + 1
      BY <2>1, <2>4
    <2>8. TheShownIsWanted' /\ BlobFollowsBody' /\ URLsAreWanted'
      BY <2>1, <2>2, <2>3, <2>4, <2>7 DEF TheShownIsWanted, BlobFollowsBody, URLsAreWanted
    <2>9. QED
      BY <2>5, <2>6, <2>8 DEF LoadsInv
  <1>3. QED
    BY <1>1, <1>2

LEMMA ResponseKeepsLoads ==
  ASSUME LoadTypeOK, LoadsInv, NEW i \in DOMAIN loads,
         Header(i) \/ Background(i) \/ Body(i) \/ Show(i)
  PROVE  LoadTypeOK' /\ LoadsInv'
  <1> DEFINE load == loads[i]
  <1>1. load \in Load /\ i \in 1..Len(loads) /\ i # 0 /\ InStep(load)
        /\ (i < Len(loads) => LoadingURL(load)) /\ (load.blob = "revoked" => load.cancelled)
    BY DEF LoadTypeOK, LoadsInv, BlobFollowsBody, URLsAreWanted, TheShownIsWanted
  <1>2. CASE Header(i)
    <2>1. PICK b \in {"body", "rejected"} : loads' = [loads EXCEPT ![i].body = b]
      BY <1>2 DEF Header
    <2> DEFINE r == [load EXCEPT !.body = b]
    <2>2. load.body = "header" /\ UNCHANGED <<selected, loaded>> /\ loads' = [loads EXCEPT ![i] = r]
      BY <1>2, <2>1 DEF Header, listVars
    <2>3. r \in Load /\ r.name = load.name /\ r.cancelled = load.cancelled
          /\ r.body = b /\ r.blob = load.blob
      <3>1. b \in {"header", "body", "ready", "rejected", "rejected late", "shown", "dropped"}
        OBVIOUS
      <3> HIDE DEF load
      <3>2. QED
        BY <1>1, <3>1 DEF Load
    <2> HIDE DEF r
    <2>4. InStep(r) /\ LoadingURL(r) /\ (r.blob = "revoked" => r.cancelled)
      BY <1>1, <2>2, <2>3 DEF InStep, LoadingURL
    <2>5. QED
      BY <2>2, <2>3, <2>4, LoadMoves
  <1>3. CASE Background(i)
    <2>1. PICK u \in {"none", "made"} : loads' = [loads EXCEPT ![i].blob = u]
      BY <1>3 DEF Background
    <2> DEFINE r == [load EXCEPT !.blob = u]
    <2>2. /\ load.body \in {"body", "ready", "rejected late"}
          /\ UNCHANGED <<selected, loaded>> /\ loads' = [loads EXCEPT ![i] = r]
      BY <1>3, <2>1 DEF Background, listVars
    <2>3. r \in Load /\ r.name = load.name /\ r.cancelled = load.cancelled
          /\ r.body = load.body /\ r.blob = u
      <3>1. u \in {"pending", "none", "made", "revoked"}
        OBVIOUS
      <3> HIDE DEF load
      <3>2. QED
        BY <1>1, <3>1 DEF Load
    <2> HIDE DEF r
    <2>4. InStep(r) /\ LoadingURL(r) /\ (r.blob = "revoked" => r.cancelled)
      BY <2>2, <2>3 DEF InStep, LoadingURL
    <2>5. QED
      BY <2>2, <2>3, <2>4, LoadMoves
  <1>4. CASE Body(i)
    <2>1. PICK b \in {"ready", "rejected late"} : loads' = [loads EXCEPT ![i].body = b]
      BY <1>4 DEF Body
    <2> DEFINE r == [load EXCEPT !.body = b]
    <2>2. load.body = "body" /\ UNCHANGED <<selected, loaded>> /\ loads' = [loads EXCEPT ![i] = r]
      BY <1>4, <2>1 DEF Body, listVars
    <2>3. r \in Load /\ r.name = load.name /\ r.cancelled = load.cancelled
          /\ r.body = b /\ r.blob = load.blob
      <3>1. b \in {"header", "body", "ready", "rejected", "rejected late", "shown", "dropped"}
        OBVIOUS
      <3> HIDE DEF load
      <3>2. QED
        BY <1>1, <3>1 DEF Load
    <2> HIDE DEF r
    <2>4. InStep(r) /\ LoadingURL(r) /\ (r.blob = "revoked" => r.cancelled)
      BY <1>1, <2>2, <2>3 DEF InStep, LoadingURL
    <2>5. QED
      BY <2>2, <2>3, <2>4, LoadMoves
  <1>5. CASE Show(i) /\ load.cancelled
    <2> DEFINE u == IF load.blob = "made" THEN "revoked" ELSE load.blob
               r == [load EXCEPT !.body = "dropped", !.blob = u]
    <2>1. UNCHANGED <<selected, loaded>> /\ loads' = [loads EXCEPT ![i] = r]
      BY <1>5 DEF Show, listVars
    <2>2. u \in {"pending", "none", "made", "revoked"} /\ u # "made"
      BY <1>1 DEF Load
    <2> HIDE DEF u
    <2>3. r \in Load /\ r.name = load.name /\ r.cancelled = load.cancelled
          /\ r.body = "dropped" /\ r.blob = u
      BY <1>1, <2>2 DEF Load
    <2> HIDE DEF r
    <2>4. InStep(r) /\ LoadingURL(r) /\ (r.blob = "revoked" => r.cancelled)
      BY <1>5, <2>2, <2>3 DEF InStep, LoadingURL
    <2>5. QED
      BY <2>1, <2>3, <2>4, LoadMoves
  <1>6. CASE Show(i) /\ ~load.cancelled
    <2> DEFINE r == [load EXCEPT !.body = "shown"]
    <2>1. UNCHANGED selected /\ loaded' = i /\ loads' = [loads EXCEPT ![i] = r]
      BY <1>6 DEF Show, listVars
    <2>2. r \in Load /\ r.name = load.name /\ r.cancelled = load.cancelled
          /\ r.body = "shown" /\ r.blob = load.blob
      BY <1>1 DEF Load
    <2> HIDE DEF r
    <2>3. ~(i < Len(loads))
      BY <1>6 DEF LoadsInv, OnlyTheLastIsWanted
    <2>4. InStep(r) /\ (r.blob = "revoked" => r.cancelled) /\ ~r.cancelled
      BY <1>1, <1>6, <2>2 DEF InStep
    <2>5. QED
      BY <1>1, <2>1, <2>2, <2>3, <2>4, LoadMoves
  <1>7. QED
    BY <1>2, <1>3, <1>4, <1>5, <1>6

-----------------------------------------------------------------------------
LEMMA PageInitInv == PageInit => PageInv
  <1> SUFFICES ASSUME PageInit PROVE PageInv
    OBVIOUS
  <1> USE DEF PageInit
  <1>1. /\ finished \in Seq(Names) /\ finished # <<>> /\ served \in Seq(Names)
        /\ served # <<>> /\ run = 1 /\ up = TRUE
    BY ServerInitServes
  <1>2. ServerTypeOK /\ WatchTypeOK
    BY <1>1, RunsAssumption, DelayAssumption DEF ServerTypeOK, WatchTypeOK
  <1>3. ListTypeOK /\ LoadTypeOK
    BY DEF ListTypeOK, LoadTypeOK, ListRequest
  <1>4. SomethingIsServed /\ TheAddressFollows
    BY <1>1 DEF SomethingIsServed, TheAddressFollows
  <1>5. LoadsInv
    BY DEF LoadsInv, OnlyTheLastIsWanted, TheShownIsWanted, BlobFollowsBody,
           TheShownIsSelected, URLsAreWanted
  <1>6. QED
    BY <1>2, <1>3, <1>4, <1>5 DEF PageInv, PageTypeOK

\* A step that leaves the loads, and what is selected, as they are.
LEMMA LoadsStay ==
  ASSUME LoadTypeOK, LoadsInv, UNCHANGED <<selected, loads, loaded>>
  PROVE  LoadTypeOK' /\ LoadsInv'
  BY DEF LoadTypeOK, LoadsInv, OnlyTheLastIsWanted, TheShownIsWanted, BlobFollowsBody,
         TheShownIsSelected, URLsAreWanted

\* The runs of forge serve: what is finished stays so, and is enough to serve.
LEMMA ServerSteps ==
  ASSUME PageInv, (\E p \in Names : Plays(p)) \/ Stops \/ Restarts
  PROVE  PageInv'
  <1> USE DEF PageInv, PageTypeOK
  <1>1. LoadTypeOK' /\ LoadsInv'
    BY LoadsStay DEF Plays, Stops, Restarts, loadVars, listVars
  <1>2. ServerTypeOK' /\ finished' # <<>> /\ served' # <<>>
    <2>1. ASSUME NEW p \in Names, Finish(p), UNCHANGED token
          PROVE  ServerTypeOK' /\ finished' # <<>> /\ served' # <<>>
      BY <2>1 DEF Finish, ServerTypeOK, SomethingIsServed
    <2>2. ASSUME Stop, UNCHANGED token
          PROVE  ServerTypeOK' /\ finished' # <<>> /\ served' # <<>>
      BY <2>2 DEF Stop, ServerTypeOK, SomethingIsServed
    <2>3. ASSUME Restart, UNCHANGED token
          PROVE  ServerTypeOK' /\ finished' # <<>> /\ served' # <<>>
      <3>1. served' \in Seq(Names) /\ served' # <<>>
        BY <2>3, StartupServes DEF Restart, ServerTypeOK, SomethingIsServed
      <3>2. QED
        BY <2>3, <3>1, RunsAssumption DEF Restart, ServerTypeOK, SomethingIsServed
    <2>4. QED
      BY <2>1, <2>2, <2>3 DEF Plays, Stops, Restarts
  <1>3. WatchTypeOK'
    BY DEF Plays, Stops, Restarts, netVars, WatchTypeOK
  <1>4. ListTypeOK' /\ UNCHANGED <<lists, view, hash>>
    BY DEF Plays, Stops, Restarts, listVars, ListTypeOK
  <1>5. UNCHANGED selected
    BY DEF Plays, Stops, Restarts, listVars
  <1>6. SomethingIsServed' /\ TheAddressFollows'
    BY <1>2, <1>4, <1>5 DEF SomethingIsServed, TheAddressFollows
  <1>7. QED
    BY <1>1, <1>2, <1>3, <1>4, <1>6

\* watch(), and the events it delivers.
LEMMA WatchSteps ==
  ASSUME PageInv, Network \/ Drop
  PROVE  PageInv'
  <1> USE DEF PageInv, PageTypeOK
  <1> USE DEF Network, Drop, Handshake, OnClose, Reconnect, OnReplay, listVars
  <1>1. LoadTypeOK' /\ LoadsInv'
    BY LoadsStay DEF loadVars
  <1>2. UNCHANGED <<finished, run, up, served, token, lists, selected, view, hash>>
    BY DEF serverVars
  <1>3. ServerTypeOK' /\ SomethingIsServed' /\ TheAddressFollows'
    BY <1>2 DEF ServerTypeOK, SomethingIsServed, TheAddressFollows
  <1>4. WatchTypeOK'
    <2>1. CASE OnClose
      <3>1. delay \in Nat /\ MaxDelay \in Nat /\ 1 <= delay /\ 1 <= MaxDelay
        BY DelayAssumption DEF WatchTypeOK
      <3>2. delay' \in 1..MaxDelay
        BY <2>1, <3>1
      <3>3. QED
        BY <2>1, <3>2 DEF WatchTypeOK
    <2>2. CASE OnReplay
      BY <2>2 DEF WatchTypeOK
    <2>3. CASE Handshake \/ Reconnect \/ Drop
      BY <2>3, DelayAssumption DEF WatchTypeOK
    <2>4. QED
      BY <2>1, <2>2, <2>3
  <1>5. ListTypeOK'
    <2>1. CASE OnReplay
      <3>1. Head(inbox) \in Names
        BY <2>1 DEF WatchTypeOK
      <3>2. entries' \in Seq(Names)
        <4>1. <<Head(inbox)>> \o entries \in Seq(Names)
          BY <3>1 DEF ListTypeOK
        <4>2. QED
          BY <2>1, <4>1 DEF Insert, ListTypeOK
      <3>3. QED
        BY <1>2, <2>1, <3>1, <3>2 DEF ListTypeOK
    <2>2. CASE ~OnReplay
      BY <1>2, <2>2 DEF ListTypeOK
    <2>3. QED
      BY <2>1, <2>2
  <1>6. QED
    BY <1>1, <1>3, <1>4, <1>5

\* The page is opened, or its panel changed.
LEMMA PanelSteps ==
  ASSUME PageInv, OpenPage \/ ShowCorpus
  PROVE  PageInv'
  <1> USE DEF PageInv, PageTypeOK
  <1>1. LoadTypeOK' /\ LoadsInv'
    BY LoadsStay DEF OpenPage, ShowCorpus, loadVars
  <1>2. UNCHANGED <<finished, run, up, served, entries, selected, arrived, inbox, delay, drops>>
    BY DEF OpenPage, ShowCorpus, serverVars, netVars
  <1>3. ServerTypeOK'
    BY <1>2 DEF OpenPage, ShowCorpus, ServerTypeOK
  <1>4. WatchTypeOK'
    BY <1>2 DEF OpenPage, ShowCorpus, WatchTypeOK, netVars
  <1>5. view' \in {"replay", "corpus"} /\ hash' = (IF view' = "corpus" THEN "#corpus" ELSE selected)
    BY DEF OpenPage, ShowCorpus, Mirror
  <1>6. /\ lists' \in [ListIds -> ListRequest]
        /\ \A i \in ListIds : lists'[i].state = "answered" => lists'[i].found # <<>>
    <2>1. CASE OpenPage
      <3>1. PICK n \in ListIds :
              lists' = [i \in ListIds |-> IF i <= n THEN [lists[i] EXCEPT !.state = "sent"]
                                                    ELSE lists[i]]
        BY <2>1 DEF OpenPage
      <3>2. ASSUME NEW i \in ListIds
            PROVE  /\ [lists[i] EXCEPT !.state = "sent"] \in ListRequest
                   /\ [lists[i] EXCEPT !.state = "sent"].state = "sent"
                   /\ lists[i] \in ListRequest
        BY DEF ListTypeOK, ListRequest
      <3>3. \A i \in ListIds : lists'[i] \in ListRequest
                               /\ (lists'[i].state = "sent" \/ lists'[i] = lists[i])
        BY <3>1, <3>2
      <3>4. lists' \in [ListIds -> ListRequest]
        BY <3>1, <3>3
      <3>5. QED
        BY <3>3, <3>4 DEF SomethingIsServed
    <2>2. CASE ShowCorpus
      BY <2>2 DEF ShowCorpus, ListTypeOK, SomethingIsServed
    <2>3. QED
      BY <2>1, <2>2
  <1>7. ListTypeOK'
    BY <1>2, <1>5, <1>6 DEF ListTypeOK
  <1>8. SomethingIsServed' /\ TheAddressFollows'
    BY <1>2, <1>5, <1>6 DEF SomethingIsServed, TheAddressFollows
  <1>9. QED
    BY <1>1, <1>3, <1>4, <1>7, <1>8

LEMMA AnswerListStep ==
  ASSUME PageInv, NEW i \in ListIds, AnswerList(i)
  PROVE  PageInv'
  <1> USE DEF PageInv, PageTypeOK, AnswerList
  <1>1. LoadTypeOK' /\ LoadsInv'
    BY LoadsStay DEF loadVars
  <1>2. ServerTypeOK' /\ WatchTypeOK' /\ TheAddressFollows'
    BY DEF ServerTypeOK, WatchTypeOK, TheAddressFollows, serverVars, netVars
  <1>3. PICK r \in ListRequest :
          /\ lists' = [lists EXCEPT ![i] = r]
          /\ r.state = "answered" => r.found # <<>>
    <2>1. [state |-> "answered", found |-> served] \in ListRequest
      BY DEF ServerTypeOK, ListRequest
    <2>2. [state |-> "failed", found |-> <<>>] \in ListRequest
      BY DEF ListRequest
    <2>3. QED
      BY <2>1, <2>2 DEF SomethingIsServed
  <1>4. ListTypeOK'
    BY <1>3 DEF ListTypeOK
  <1>5. SomethingIsServed'
    BY <1>3 DEF SomethingIsServed, ListTypeOK, serverVars
  <1>6. QED
    BY <1>1, <1>2, <1>4, <1>5

\* The list opens on a play that is in it, which the address then names.
LEMMA ListArrivesStep ==
  ASSUME PageInv, NEW i \in ListIds, ListArrives(i)
  PROVE  PageInv'
  <1> USE DEF PageInv, PageTypeOK
  <1> DEFINE found == lists[i].found
             p == IF hash \in ToSet(found) THEN hash ELSE Head(found)
  <1>1. found \in Seq(Names) /\ found # <<>>
    BY DEF ListArrives, ListTypeOK, ListRequest, SomethingIsServed
  <1>2. p \in Names
    <2>1. Head(found) \in Names /\ ToSet(found) \subseteq Names
      BY <1>1 DEF ToSet
    <2>2. QED
      BY <2>1
  <1>3. Select(p) /\ entries' = found /\ Mirror(view, selected')
    BY DEF ListArrives
  <1>4. UNCHANGED <<serverVars, netVars, token, arrived, view>>
    BY DEF ListArrives
  <1>5. lists' = [lists EXCEPT ![i] = [state |-> "done", found |-> <<>>]]
    BY DEF ListArrives
  <1> HIDE DEF found, p
  <1>6. LoadTypeOK' /\ LoadsInv'
    BY <1>2, <1>3, SelectKeepsLoads
  <1>7. ServerTypeOK' /\ WatchTypeOK'
    BY <1>4 DEF ServerTypeOK, WatchTypeOK, serverVars, netVars
  <1>8. selected' = p
    BY <1>3 DEF Select
  <1>9. [state |-> "done", found |-> <<>>] \in ListRequest
    BY DEF ListRequest
  <1>10. ListTypeOK'
    BY <1>1, <1>2, <1>3, <1>4, <1>5, <1>8, <1>9 DEF ListTypeOK, Mirror
  <1>11. SomethingIsServed'
    BY <1>4, <1>5 DEF SomethingIsServed, ListTypeOK, serverVars
  <1>12. TheAddressFollows'
    BY <1>3, <1>4 DEF TheAddressFollows, Mirror
  <1>13. QED
    BY <1>6, <1>7, <1>10, <1>11, <1>12

LEMMA ClickStep ==
  ASSUME PageInv, NEW p \in Names, Click(p)
  PROVE  PageInv'
  <1> USE DEF PageInv, PageTypeOK, Click
  <1>1. LoadTypeOK' /\ LoadsInv'
    BY SelectKeepsLoads
  <1>2. ServerTypeOK' /\ WatchTypeOK' /\ SomethingIsServed'
    BY DEF ServerTypeOK, WatchTypeOK, SomethingIsServed, serverVars, netVars
  <1>3. selected' = p /\ hash' = p
    BY DEF Select, Mirror
  <1>4. ListTypeOK' /\ TheAddressFollows'
    BY <1>3 DEF ListTypeOK, TheAddressFollows
  <1>5. QED
    BY <1>1, <1>2, <1>4

LEMMA ResponseStep ==
  ASSUME PageInv, NEW i \in DOMAIN loads, Header(i) \/ Background(i) \/ Body(i) \/ Show(i)
  PROVE  PageInv'
  <1> USE DEF PageInv, PageTypeOK
  <1>1. LoadTypeOK' /\ LoadsInv'
    BY ResponseKeepsLoads
  <1>2. UNCHANGED <<serverVars, netVars, listVars, token>>
    BY DEF Header, Background, Body, Show
  <1>3. ServerTypeOK' /\ WatchTypeOK' /\ ListTypeOK'
    BY <1>2 DEF ServerTypeOK, WatchTypeOK, ListTypeOK, serverVars, netVars, listVars
  <1>4. SomethingIsServed' /\ TheAddressFollows'
    BY <1>2 DEF SomethingIsServed, TheAddressFollows, serverVars, listVars
  <1>5. QED
    BY <1>1, <1>3, <1>4

LEMMA PageNextInv == PageInv /\ [PageNext]_pageVars => PageInv'
  <1> SUFFICES ASSUME PageInv, [PageNext]_pageVars PROVE PageInv'
    OBVIOUS
  <1>1. CASE Network \/ Drop
    BY <1>1, WatchSteps
  <1>2. CASE Responses
    BY <1>2, AnswerListStep, ListArrivesStep, ResponseStep DEF Responses
  <1>3. CASE User
    BY <1>3, PanelSteps, ClickStep DEF User
  <1>4. CASE Stops \/ Restarts \/ (\E p \in Names : Plays(p))
    BY <1>4, ServerSteps
  <1>5. CASE UNCHANGED pageVars
    <2>1. UNCHANGED <<finished, run, up, served, link, delay, drops, inbox, lists, entries,
                      selected, arrived, view, hash, token, loads, loaded>>
      BY <1>5 DEF pageVars, serverVars, netVars, listVars, loadVars
    <2>2. LoadTypeOK' /\ LoadsInv'
      BY <2>1, LoadsStay DEF PageInv, PageTypeOK
    <2>3. QED
      BY <2>1, <2>2 DEF PageInv, PageTypeOK, ServerTypeOK, WatchTypeOK, ListTypeOK,
                        SomethingIsServed, TheAddressFollows
  <1>6. QED
    BY <1>1, <1>2, <1>3, <1>4, <1>5 DEF PageNext, Environment

LEMMA PageInvariant == PageSpec => []PageInv
  BY PageInitInv, PageNextInv, PTL DEF PageSpec

-----------------------------------------------------------------------------
\* App.tsx, protocol.ts: the state of the page, its socket and its loads keeps
\* its types; the reconnect delay stays within its bounds.
THEOREM PageTypeCorrect == PageSpec => []PageTypeOK
  <1>1. PageInv => PageTypeOK
    BY DEF PageInv
  <1>2. QED
    BY <1>1, PageInvariant, PTL

\* App.tsx, the load effect and its cleanup: however many plays are browsed and
\* in whichever order their responses arrive, the replay on screen is the one
\* that is selected, and the address names it.
THEOREM SelectedPlayIsShown == PageSpec => []TheSelectedPlayIsShown
  <1>1. PageInv => TheSelectedPlayIsShown
    BY DEF PageInv, LoadsInv, TheShownIsSelected, TheAddressFollows, TheSelectedPlayIsShown
  <1>2. QED
    BY <1>1, PageInvariant, PTL

\* App.tsx, the load effect's cleanup, and protocol.ts load(): no object URL of
\* a play browsed before outlives its load, and the one on screen is alive.
THEOREM BrowsedBackgroundsAreRevoked == PageSpec => []BackgroundsAreRevoked
  <1>1. PageInv => BackgroundsAreRevoked
    <2> SUFFICES ASSUME PageInv PROVE BackgroundsAreRevoked
      OBVIOUS
    <2> USE DEF PageInv, LoadsInv, PageTypeOK, LoadTypeOK
    <2>1. \A i \in DOMAIN loads : i < Len(loads) \/ i = Len(loads)
      OBVIOUS
    <2>2. \A i \in DOMAIN loads : LoadingURL(loads[i]) \/ i = Len(loads)
      BY <2>1 DEF URLsAreWanted
    <2>3. loaded # 0 => loaded \in DOMAIN loads
      OBVIOUS
    <2>4. loaded # 0 => loads[loaded].blob # "revoked"
      BY <2>3 DEF TheShownIsWanted
    <2>5. QED
      BY <2>2, <2>4 DEF BackgroundsAreRevoked, LoadingURL
  <1>2. QED
    BY <1>1, PageInvariant, PTL
=============================================================================
