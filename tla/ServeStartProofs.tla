-------------------------- MODULE ServeStartProofs --------------------------
(* Proofs about the start of forge serve: which rows of the cache a run        *)
(* believes, what becomes of the replays it lists and which runtime file may   *)
(* be left behind, for any number of runs, builds, plays and ports.            *)
EXTENDS ServeStart, FiniteSetTheorems, TLAPS

Builds == {BuildOf[r] : r \in Runs} \cup Leftovers.whole \cup Leftovers.malformed \cup {Nobody}
Facts == [of : Nat, by : Builds]
Rows == [stat : Nat, tool : Builds, facts : Facts]
Steps ==
  {"off", "list", "sort", "replays", "statted", "judged", "ready", "checked", "published",
   "serving", "watching", "stopping", "ended", "killed"}
Fates == {"none", "skipped", "vanished", "unanalysed", "prepared", "restored", "backfilled"}
Processes ==
  [pc : Steps, port : Ports \cup {Nobody}, open : BOOLEAN, found : Seq(Plays), at : Nat,
   play : Plays \cup {Nobody}, seen : Nat, payloads : SUBSET Plays, corpus : [Plays -> Facts],
   fate : [Plays -> Fates]]

ServeTypeOK ==
  /\ clock \in Nat
  /\ folder \in [Plays -> Nat]
  /\ cache \in [Plays -> Rows]
  /\ mixed \in BOOLEAN
  /\ runtime \in Runs \cup {Nobody}
  /\ bound \in [Ports -> Runs \cup {Nobody}]
  /\ proc \in [Runs -> Processes]

LEMMA NothingIsTyped ==
  /\ NoFacts \in Facts
  /\ NoRow \in Rows
  /\ AtStart \in Processes
  /\ \A pc \in Steps : Gone(pc) \in Processes
  <1>1. NoFacts \in Facts
    BY DEF NoFacts, Facts, Builds
  <1>2. NoRow \in Rows
    BY <1>1 DEF NoRow, Rows, Builds
  <1>3. AtStart \in Processes
    <2>1. <<>> \in Seq(Plays)
      OBVIOUS
    <2>2. [p \in Plays |-> NoFacts] \in [Plays -> Facts] /\ [p \in Plays |-> "none"] \in [Plays -> Fates]
      BY <1>1 DEF Fates
    <2>3. QED
      BY <2>1, <2>2 DEF AtStart, Processes, Steps
  <1>4. ASSUME NEW pc \in Steps PROVE Gone(pc) \in Processes
    BY <1>3 DEF Gone, Processes
  <1>5. QED
    BY <1>1, <1>2, <1>3, <1>4

LEMMA OrdersAreTyped ==
  ASSUME NEW S \in SUBSET Plays, NEW s \in SetToSeqs(S)
  PROVE  s \in Seq(Plays)
  <1>1. IsFiniteSet(S) /\ Cardinality(S) \in Nat
    BY TheFolderIsFinite, FS_Subset, FS_CardinalityType
  <1>2. s \in [1..Cardinality(S) -> Plays]
    BY DEF SetToSeqs
  <1>3. QED
    BY <1>1, <1>2

LEMMA InitialTypes == ServeInit => ServeTypeOK
  <1>1. SUFFICES ASSUME ServeInit PROVE ServeTypeOK
    OBVIOUS
  <1>2. ASSUME NEW b \in Builds PROVE Malformed(b) \in Rows /\ Whole(b) \in Rows
    <2>1. Malformed(b) \in Rows
      BY NothingIsTyped DEF Malformed, Rows
    <2>2. [of |-> 1, by |-> b] \in Facts
      BY DEF Facts
    <2>3. QED
      BY <2>1, <2>2 DEF Whole, Rows
  <1>3. cache \in [Plays -> Rows]
    BY <1>1, <1>2, NothingIsTyped DEF ServeInit, Builds
  <1>4. proc \in [Runs -> Processes]
    BY <1>1, NothingIsTyped DEF ServeInit
  <1>5. mixed \in BOOLEAN
    BY <1>1 DEF ServeInit
  <1>6. folder \in [Plays -> Nat] /\ bound \in [Ports -> Runs \cup {Nobody}]
    BY <1>1 DEF ServeInit
  <1>7. QED
    BY <1>1, <1>3, <1>4, <1>5, <1>6 DEF ServeInit, ServeTypeOK

LEMMA SettlingIsTyped ==
  ASSUME NEW r \in Runs, ServeTypeOK, NEW p \in Plays, NEW fate \in Fates
  PROVE  /\ Settles(r, p, fate) \in Processes
         /\ Settles(r, p, fate).fate = [proc[r].fate EXCEPT ![p] = fate]
         /\ Settles(r, p, fate).pc = "replays" /\ Settles(r, p, fate).seen = 0
         /\ Settles(r, p, fate).open = proc[r].open
         /\ Settles(r, p, fate).corpus = proc[r].corpus
         /\ Settles(r, p, fate).payloads = proc[r].payloads
  <1>1. proc[r] \in Processes
    BY DEF ServeTypeOK
  <1>2. [proc[r].fate EXCEPT ![p] = fate] \in [Plays -> Fates] /\ proc[r].at + 1 \in Nat
    BY <1>1 DEF Processes
  <1>3. Settles(r, p, fate) =
          [proc[r] EXCEPT !.pc = "replays", !.at = proc[r].at + 1,
                          !.fate = [proc[r].fate EXCEPT ![p] = fate], !.play = Nobody, !.seen = 0]
    BY <1>1 DEF Settles, Processes
  <1>4. "replays" \in Steps /\ Nobody \in Plays \cup {Nobody} /\ 0 \in Nat
    BY DEF Steps
  <1>5. QED
    BY <1>1, <1>2, <1>3, <1>4 DEF Processes

LEMMA HereIsAPlay ==
  ASSUME NEW r \in Runs, ServeTypeOK, Turn(r)
  PROVE  Here(r) \in Plays
  BY DEF ServeTypeOK, Processes, Turn, Here

-----------------------------------------------------------------------------
(* The invariant. *)

\* A row is of the file whose stat it was stored with, unless that was written
\* over while it was read, and was stored by the build it was made by.
RowsAreOfTheirFile ==
  \A p \in Plays : cache[p].facts # NoFacts =>
    /\ cache[p].facts.by = cache[p].tool
    /\ cache[p].facts.of = cache[p].stat \/ p \in rewritten

\* As long as the builds were never mixed, one of them has the cache open.
OneBuild == mixed \/ \A q, r \in Runs : proc[q].open /\ proc[r].open => BuildOf[q] = BuildOf[r]

\* What a run has read was there, and is unless it was written over.
Looked(x) ==
  /\ x.pc \in {"judged", "watching", "statted"} => x.play \in Plays /\ x.seen > 0
  /\ x.pc \in {"judged", "watching"} => x.play \in rewritten \/ folder[x.play] \in {0, x.seen}

\* A run that has the cache open finds no rows of another build in it.
Holds(x, r) ==
  x.open => mixed \/ \A p \in Plays : cache[p].tool = BuildOf[r] \/ cache[p].facts = NoFacts

ServeInv ==
  /\ ServeTypeOK
  /\ RowsAreOfTheirFile
  /\ OneBuild
  /\ \A r \in Runs : Looked(proc[r]) /\ Holds(proc[r], r)
  /\ AFileLeftBehindIsOfAKilledRun

LEMMA ServeInitInv == ServeInit => ServeInv
  <1>1. SUFFICES ASSUME ServeInit PROVE ServeInv
    OBVIOUS
  <1>2. ServeTypeOK
    BY <1>1, InitialTypes
  <1>3. OneBuild
    BY <1>1 DEF ServeInit, AtStart, OneBuild
  <1>4. RowsAreOfTheirFile
    <2>1. ASSUME NEW p \in Plays, cache[p].facts # NoFacts
          PROVE  cache[p].facts.by = cache[p].tool /\ cache[p].facts.of = cache[p].stat
      <3>1. \/ cache[p] = NoRow
            \/ \E b \in Leftovers.malformed : cache[p] = Malformed(b)
            \/ \E b \in Leftovers.whole : cache[p] = Whole(b)
        BY <1>1 DEF ServeInit
      <3>2. NoRow.facts = NoFacts /\ \A b : Malformed(b).facts = NoFacts
        BY DEF NoRow, Malformed
      <3>3. \A b : /\ Whole(b).facts.of = 1 /\ Whole(b).facts.by = b
                  /\ Whole(b).stat = 1 /\ Whole(b).tool = b
        BY DEF Whole, Malformed
      <3>4. QED
        BY <2>1, <3>1, <3>2, <3>3
    <2>2. QED
      BY <2>1 DEF RowsAreOfTheirFile
  <1>5. \A r \in Runs : Looked(proc[r]) /\ Holds(proc[r], r)
    BY <1>1 DEF ServeInit, AtStart, Looked, Holds
  <1>6. AFileLeftBehindIsOfAKilledRun
    BY <1>1 DEF ServeInit, AFileLeftBehindIsOfAKilledRun
  <1>7. QED
    BY <1>2, <1>3, <1>4, <1>5, <1>6 DEF ServeInv

-----------------------------------------------------------------------------
(* What a run may become. *)

Good(x, r) == x \in Processes /\ Looked(x) /\ Holds(x, r) /\ (x.open => proc[r].open)

\* It believes no row it has not believed before.
Doubts(x, r) == \A p \in Plays : x.fate[p] = "restored" => proc[r].fate[p] = "restored"

LEMMA ARunIsGood ==
  ASSUME ServeInv, NEW r \in Runs
  PROVE  Good(proc[r], r) /\ Doubts(proc[r], r)
  BY DEF ServeInv, ServeTypeOK, Good, Doubts

LEMMA GoingIsGood ==
  ASSUME ServeInv, NEW r \in Runs, NEW pc \in Steps \ {"judged", "watching", "statted"}
  PROVE  /\ Good([proc[r] EXCEPT !.pc = pc], r)
         /\ Doubts([proc[r] EXCEPT !.pc = pc], r)
  <1>1. Good(proc[r], r)
    BY ARunIsGood
  <1>2. QED
    BY <1>1 DEF Good, Doubts, Processes, Looked, Holds

LEMMA BeingGoneIsGood ==
  ASSUME ServeInv, NEW r \in Runs, NEW pc \in {"ended", "killed"}
  PROVE  Good(Gone(pc), r) /\ Doubts(Gone(pc), r)
  <1>1. Gone(pc) \in Processes
    BY NothingIsTyped DEF Steps
  <1>2. clock \in Nat
    BY DEF ServeInv, ServeTypeOK
  <1>3. QED
    BY <1>1, <1>2 DEF Good, Doubts, Gone, AtStart, Looked, Holds

LEMMA SettlingIsGood ==
  ASSUME ServeInv, NEW r \in Runs, NEW p \in Plays, NEW fate \in Fates
  PROVE  /\ Good(Settles(r, p, fate), r)
         /\ fate # "restored" => Doubts(Settles(r, p, fate), r)
         /\ \A q \in Plays : q # p => Settles(r, p, fate).fate[q] = proc[r].fate[q]
  <1> DEFINE x == Settles(r, p, fate)
  <1>1. Good(proc[r], r) /\ ServeTypeOK /\ clock \in Nat
    BY ARunIsGood DEF ServeInv, ServeTypeOK
  <1>2. /\ x \in Processes
        /\ x.fate = [proc[r].fate EXCEPT ![p] = fate]
        /\ x.pc = "replays" /\ x.seen = 0
        /\ x.open = proc[r].open
    BY <1>1, SettlingIsTyped
  <1>3. proc[r].fate \in [Plays -> Fates]
    BY <1>1 DEF Good, Processes
  <1> HIDE DEF x
  <1>4. Looked(x)
    BY <1>1, <1>2 DEF Looked
  <1>5. Holds(x, r)
    BY <1>1, <1>2 DEF Good, Holds
  <1>6. \A q \in Plays : q # p => x.fate[q] = proc[r].fate[q]
    BY <1>2, <1>3
  <1>7. fate # "restored" => Doubts(x, r)
    BY <1>2, <1>3 DEF Doubts
  <1>8. QED
    BY <1>2, <1>4, <1>5, <1>6, <1>7 DEF Good, x

\* A step of one run that leaves folder and cache alone.
Moves(r) ==
  /\ UNCHANGED <<clock, folder, cache, mixed, rewritten>>
  /\ proc' = [proc EXCEPT ![r] = proc'[r]]
  /\ Good(proc'[r], r)

LEMMA Becoming ==
  ASSUME ServeInv, NEW r \in Runs, NEW x, Good(x, r), proc' = [proc EXCEPT ![r] = x],
         UNCHANGED <<clock, folder, cache, mixed, rewritten>>
  PROVE  Moves(r) /\ proc'[r] = x
  <1>1. proc'[r] = x
    BY DEF ServeInv, ServeTypeOK
  <1>2. QED
    BY <1>1 DEF Moves

LEMMA GoingOn ==
  ASSUME ServeInv, NEW r \in Runs, NEW pc \in Steps \ {"judged", "watching", "statted"}, Goes(r, pc),
         UNCHANGED <<clock, folder, cache, mixed, rewritten>>
  PROVE  Moves(r) /\ Doubts(proc'[r], r)
  <1>1. Good([proc[r] EXCEPT !.pc = pc], r) /\ Doubts([proc[r] EXCEPT !.pc = pc], r)
    BY GoingIsGood
  <1>2. proc' = [proc EXCEPT ![r] = [proc[r] EXCEPT !.pc = pc]]
    BY DEF Goes
  <1>3. QED
    BY <1>1, <1>2, Becoming

LEMMA BeingGone ==
  ASSUME ServeInv, NEW r \in Runs, NEW pc \in {"ended", "killed"},
         proc' = [proc EXCEPT ![r] = Gone(pc)], UNCHANGED <<clock, folder, cache, mixed, rewritten>>
  PROVE  Moves(r) /\ Doubts(proc'[r], r)
  BY BeingGoneIsGood, Becoming

LEMMA StartingMoves ==
  ASSUME ServeInv, NEW r \in Runs, CacheUnavailable(r) \/ Refuse(r)
  PROVE  Moves(r) /\ Doubts(proc'[r], r)
  <1>1. CASE CacheUnavailable(r)
    BY <1>1, GoingOn DEF CacheUnavailable, Steps
  <1>2. CASE Refuse(r)
    BY <1>2, BeingGone DEF Refuse, Ends
  <1>3. QED
    BY <1>1, <1>2

LEMMA ListingIsGood ==
  ASSUME ServeInv, NEW r \in Runs, NEW s \in Seq(Plays), NEW pc \in {"sort", "replays"}, NEW n \in Nat
  PROVE  /\ Good([proc[r] EXCEPT !.pc = pc, !.found = s], r)
         /\ Good([proc[r] EXCEPT !.pc = pc, !.at = n, !.found = s], r)
         /\ Doubts([proc[r] EXCEPT !.pc = pc, !.found = s], r)
         /\ Doubts([proc[r] EXCEPT !.pc = pc, !.at = n, !.found = s], r)
  <1>1. Good(proc[r], r)
    BY ARunIsGood
  <1>2. pc \in Steps
    BY DEF Steps
  <1>3. QED
    BY <1>1, <1>2 DEF Good, Doubts, Processes, Looked, Holds

LEMMA ListingMoves ==
  ASSUME ServeInv, NEW r \in Runs, Glob(r) \/ Sort(r)
  PROVE  Moves(r) /\ Doubts(proc'[r], r)
  <1>1. CASE Glob(r)
    <2>1. PICK s \in SetToSeqs(There) : proc' = [proc EXCEPT ![r].pc = "sort", ![r].found = s]
      BY <1>1 DEF Glob
    <2>2. s \in Seq(Plays)
      BY <2>1, OrdersAreTyped DEF There
    <2>3. proc' = [proc EXCEPT ![r] = [proc[r] EXCEPT !.pc = "sort", !.found = s]]
      BY <2>1 DEF ServeInv, ServeTypeOK
    <2>4. 1 \in Nat /\ "sort" \in {"sort", "replays"}
      OBVIOUS
    <2>5. /\ Good([proc[r] EXCEPT !.pc = "sort", !.found = s], r)
          /\ Doubts([proc[r] EXCEPT !.pc = "sort", !.found = s], r)
      BY <2>2, <2>4, ListingIsGood
    <2>6. UNCHANGED <<clock, folder, cache, mixed, rewritten>>
      BY <1>1 DEF Glob
    <2>7. QED
      BY <2>3, <2>5, <2>6, Becoming
  <1>2. CASE Sort(r)
    <2>1. CASE Ends(r)
      BY <1>2, <2>1, BeingGone DEF Sort, Ends
    <2>2. CASE ~Ends(r)
      <3>1. PICK s \in NewestFirst(proc[r].found) :
              proc' = [proc EXCEPT ![r].pc = "replays", ![r].at = 1, ![r].found = s]
        BY <1>2, <2>2 DEF Sort
      <3>2. Range(proc[r].found) \subseteq Plays
        BY <1>2, <2>2 DEF Sort, There
      <3>3. s \in SetToSeqs(Range(proc[r].found))
        BY <3>1 DEF NewestFirst
      <3>4. s \in Seq(Plays)
        BY <3>2, <3>3, OrdersAreTyped
      <3>5. proc' = [proc EXCEPT ![r] = [proc[r] EXCEPT !.pc = "replays", !.at = 1, !.found = s]]
        BY <3>1 DEF ServeInv, ServeTypeOK
      <3>6. 1 \in Nat /\ "replays" \in {"sort", "replays"}
        OBVIOUS
      <3>7. /\ Good([proc[r] EXCEPT !.pc = "replays", !.at = 1, !.found = s], r)
            /\ Doubts([proc[r] EXCEPT !.pc = "replays", !.at = 1, !.found = s], r)
        BY <3>4, <3>6, ListingIsGood
      <3>8. UNCHANGED <<clock, folder, cache, mixed, rewritten>>
        BY <1>2 DEF Sort
      <3>9. QED
        BY <3>5, <3>7, <3>8, Becoming
    <2>3. QED
      BY <2>1, <2>2
  <1>3. QED
    BY <1>1, <1>2

\* What a run looks at is there, and not of the future.
LEMMA LookingIsGood ==
  ASSUME ServeInv, NEW r \in Runs, NEW p \in Plays, folder[p] > 0,
         NEW pc \in {"judged", "watching", "statted"}
  PROVE  /\ Good([proc[r] EXCEPT !.pc = pc, !.play = p, !.seen = folder[p]], r)
         /\ Doubts([proc[r] EXCEPT !.pc = pc, !.play = p, !.seen = folder[p]], r)
  <1> DEFINE x == [proc[r] EXCEPT !.pc = pc, !.play = p, !.seen = folder[p]]
  <1>1. Good(proc[r], r)
    BY ARunIsGood
  <1>2. pc \in Steps
    BY DEF Steps
  <1>3. folder[p] \in Nat
    BY DEF ServeInv, ServeTypeOK
  <1>4. /\ x \in Processes
        /\ x.pc = pc /\ x.play = p /\ x.seen = folder[p]
        /\ x.open = proc[r].open /\ x.fate = proc[r].fate
    BY <1>1, <1>2, <1>3 DEF Good, Processes
  <1> HIDE DEF x
  <1>5. Looked(x)
    BY <1>3, <1>4 DEF Looked
  <1>6. Holds(x, r) /\ Doubts(x, r)
    BY <1>1, <1>4 DEF Good, Holds, Doubts
  <1>7. QED
    BY <1>4, <1>5, <1>6 DEF Good, x

LEMMA Looking ==
  ASSUME ServeInv, NEW r \in Runs, NEW p \in Plays, folder[p] > 0,
         NEW pc \in {"judged", "watching", "statted"},
         proc' = [proc EXCEPT ![r].pc = pc, ![r].play = p, ![r].seen = folder[p]],
         UNCHANGED <<clock, folder, cache, mixed, rewritten>>
  PROVE  Moves(r) /\ Doubts(proc'[r], r)
  <1>1. proc' = [proc EXCEPT ![r] = [proc[r] EXCEPT !.pc = pc, !.play = p, !.seen = folder[p]]]
    BY DEF ServeInv, ServeTypeOK
  <1>2. /\ Good([proc[r] EXCEPT !.pc = pc, !.play = p, !.seen = folder[p]], r)
        /\ Doubts([proc[r] EXCEPT !.pc = pc, !.play = p, !.seen = folder[p]], r)
    BY LookingIsGood
  <1>3. QED
    BY <1>1, <1>2, Becoming

LEMMA Settling ==
  ASSUME ServeInv, NEW r \in Runs, NEW p \in Plays, NEW fate \in Fates \ {"restored"},
         proc' = [proc EXCEPT ![r] = Settles(r, p, fate)], UNCHANGED <<clock, folder, cache, mixed, rewritten>>
  PROVE  Moves(r) /\ Doubts(proc'[r], r)
  <1>1. Good(Settles(r, p, fate), r) /\ Doubts(Settles(r, p, fate), r)
    BY SettlingIsGood
  <1>2. QED
    BY <1>1, Becoming

LEMMA JudgeMoves ==
  ASSUME ServeInv, NEW r \in Runs, Judge(r)
  PROVE  Moves(r) /\ Doubts(proc'[r], r)
  <1>1. Here(r) \in Plays /\ UNCHANGED <<clock, folder, cache, mixed, rewritten>>
    BY HereIsAPlay DEF Judge, ServeInv
  <1>2. \/ /\ folder[Here(r)] > 0
           /\ proc' = [proc EXCEPT ![r].pc = "judged", ![r].play = Here(r), ![r].seen = folder[Here(r)]]
        \/ proc' = [proc EXCEPT ![r] = Settles(r, Here(r), "skipped")]
    BY DEF Judge
  <1>3. "skipped" \in Fates \ {"restored"}
    BY DEF Fates
  <1>4. CASE proc' = [proc EXCEPT ![r] = Settles(r, Here(r), "skipped")]
    BY <1>1, <1>3, <1>4, Settling
  <1>5. CASE /\ folder[Here(r)] > 0
             /\ proc' = [proc EXCEPT ![r].pc = "judged", ![r].play = Here(r), ![r].seen = folder[Here(r)]]
    BY <1>1, <1>5, Looking
  <1>6. QED
    BY <1>2, <1>4, <1>5

LEMMA StatTailMoves ==
  ASSUME ServeInv, NEW r \in Runs, StatTail(r)
  PROVE  Moves(r) /\ Doubts(proc'[r], r)
  <1>1. Here(r) \in Plays /\ UNCHANGED <<clock, folder, cache, mixed, rewritten>>
    BY HereIsAPlay DEF StatTail, ServeInv
  <1>2. folder[Here(r)] \in Nat /\ r \in DOMAIN proc
    BY <1>1 DEF ServeInv, ServeTypeOK
  <1>3. CASE folder[Here(r)] = 0
    <2>1. proc' = [proc EXCEPT ![r] = Settles(r, Here(r), "vanished")]
      BY <1>3 DEF StatTail
    <2>2. "vanished" \in Fates \ {"restored"}
      BY DEF Fates
    <2>3. QED
      BY <1>1, <2>1, <2>2, Settling
  <1>4. CASE folder[Here(r)] > 0
    <2> DEFINE x == [proc[r] EXCEPT !.pc = "statted", !.play = Here(r), !.seen = folder[Here(r)]]
    <2>1. proc' = [proc EXCEPT ![r] = IF folder[Here(r)] = 0 THEN Settles(r, Here(r), "vanished") ELSE x]
      BY Zenon DEF StatTail
    <2>2. Good(x, r) /\ Doubts(x, r)
      BY <1>1, <1>4, LookingIsGood
    <2> HIDE DEF x
    <2>3. folder[Here(r)] # 0
      BY <1>2, <1>4
    <2>4. proc' = [proc EXCEPT ![r] = x]
      BY <2>1, <2>3, Zenon
    <2>5. QED
      BY <1>1, <2>2, <2>4, Becoming
  <1>5. QED
    BY <1>2, <1>3, <1>4

LEMMA JudgeTailMoves ==
  ASSUME ServeInv, NEW r \in Runs, JudgeTail(r)
  PROVE  Moves(r) /\ Doubts(proc'[r], r)
  <1> DEFINE p == proc[r].play
  <1>1. p \in Plays /\ UNCHANGED <<clock, folder, cache, mixed, rewritten>>
    BY DEF JudgeTail, ServeInv, Looked
  <1>2. CASE proc' = [proc EXCEPT ![r] = Settles(r, p, "unanalysed")]
    <2>1. "unanalysed" \in Fates \ {"restored"}
      BY DEF Fates
    <2>2. QED
      BY <1>1, <1>2, <2>1, Settling
  <1>3. CASE folder[p] > 0 /\ proc' = [proc EXCEPT ![r].pc = "judged", ![r].seen = folder[p]]
    <2>1. proc[r] \in Processes
      BY DEF ServeInv, ServeTypeOK
    <2>2. [proc[r] EXCEPT !.pc = "judged", !.seen = folder[p]] =
            [proc[r] EXCEPT !.pc = "judged", !.play = p, !.seen = folder[p]]
      BY <2>1 DEF Processes
    <2>3. proc' = [proc EXCEPT ![r] = [proc[r] EXCEPT !.pc = "judged", !.seen = folder[p]]]
      BY <1>3 DEF ServeInv, ServeTypeOK
    <2>4. /\ Good([proc[r] EXCEPT !.pc = "judged", !.seen = folder[p]], r)
          /\ Doubts([proc[r] EXCEPT !.pc = "judged", !.seen = folder[p]], r)
      BY <1>1, <1>3, <2>2, LookingIsGood
    <2>5. QED
      BY <1>1, <2>3, <2>4, Becoming
  <1>4. QED
    BY <1>2, <1>3 DEF JudgeTail

LEMMA PortIsGood ==
  ASSUME ServeInv, NEW r \in Runs, NEW o \in Ports
  PROVE  /\ Good([proc[r] EXCEPT !.pc = "checked", !.port = o], r)
         /\ Doubts([proc[r] EXCEPT !.pc = "checked", !.port = o], r)
  <1>1. Good(proc[r], r)
    BY ARunIsGood
  <1>2. "checked" \in Steps
    BY DEF Steps
  <1>3. QED
    BY <1>1, <1>2 DEF Good, Doubts, Processes, Looked, Holds

LEMMA CheckPortMoves ==
  ASSUME ServeInv, NEW r \in Runs, CheckPort(r)
  PROVE  Moves(r) /\ Doubts(proc'[r], r)
  <1>1. PICK o \in Ports :
          proc' = [proc EXCEPT ![r] = IF o \notin Reserved /\ bound[o] = Nobody
                                      THEN [proc[r] EXCEPT !.pc = "checked", !.port = o]
                                      ELSE Gone("ended")]
    BY Zenon DEF CheckPort
  <1>2. UNCHANGED <<clock, folder, cache, mixed, rewritten>>
    BY DEF CheckPort
  <1> DEFINE x == [proc[r] EXCEPT !.pc = "checked", !.port = o]
  <1>3. Good(x, r) /\ Doubts(x, r)
    BY PortIsGood
  <1> HIDE DEF x
  <1>4. proc' = [proc EXCEPT ![r] = x] \/ proc' = [proc EXCEPT ![r] = Gone("ended")]
    BY <1>1, Zenon DEF x
  <1>5. CASE proc' = [proc EXCEPT ![r] = x]
    BY <1>2, <1>3, <1>5, Becoming
  <1>6. CASE proc' = [proc EXCEPT ![r] = Gone("ended")]
    BY <1>2, <1>6, BeingGone
  <1>7. QED
    BY <1>4, <1>5, <1>6

LEMMA ServingMoves ==
  ASSUME ServeInv, NEW r \in Runs,
         Ready(r) \/ WriteRuntimeFile(r) \/ Bind(r) \/ Interrupt(r) \/ Unlink(r) \/ Kill(r)
  PROVE  Moves(r) /\ Doubts(proc'[r], r)
  <1>1. UNCHANGED <<clock, folder, cache, mixed, rewritten>>
    BY DEF Ready, WriteRuntimeFile, Bind, Interrupt, Unlink, Kill
  <1>2. \/ \E pc \in {"ready", "published", "serving", "stopping"} : Goes(r, pc)
        \/ \E pc \in {"ended", "killed"} : proc' = [proc EXCEPT ![r] = Gone(pc)]
    BY Zenon DEF Ready, WriteRuntimeFile, Bind, Interrupt, Unlink, Kill, Ends
  <1>3. CASE \E pc \in {"ready", "published", "serving", "stopping"} : Goes(r, pc)
    <2>1. PICK pc \in {"ready", "published", "serving", "stopping"} : Goes(r, pc)
      BY <1>3
    <2>2. pc \in Steps \ {"judged", "watching", "statted"}
      BY <2>1 DEF Steps
    <2>3. QED
      BY <1>1, <2>1, <2>2, GoingOn
  <1>4. CASE \E pc \in {"ended", "killed"} : proc' = [proc EXCEPT ![r] = Gone(pc)]
    BY <1>1, <1>4, BeingGone
  <1>5. QED
    BY <1>2, <1>3, <1>4

LEMMA JudgeNewMoves ==
  ASSUME ServeInv, NEW r \in Runs, JudgeNew(r)
  PROVE  Moves(r) /\ Doubts(proc'[r], r)
  <1>1. PICK p \in There \ Range(proc[r].found) :
          proc' = [proc EXCEPT ![r].pc = "watching", ![r].play = p, ![r].seen = folder[p]]
    BY DEF JudgeNew
  <1>2. p \in Plays /\ folder[p] > 0
    BY DEF There
  <1>3. UNCHANGED <<clock, folder, cache, mixed, rewritten>>
    BY DEF JudgeNew
  <1>4. QED
    BY <1>1, <1>2, <1>3, Looking

LEMMA CorpusIsGood ==
  ASSUME ServeInv, NEW r \in Runs, NEW x, Good(x, r), NEW p \in Plays, NEW facts \in Facts
  PROVE  /\ Good([x EXCEPT !.corpus[p] = facts], r)
         /\ [x EXCEPT !.corpus[p] = facts].fate = x.fate
  <1> DEFINE y == [x EXCEPT !.corpus[p] = facts]
  <1>1. [x.corpus EXCEPT ![p] = facts] \in [Plays -> Facts]
    BY DEF Good, Processes
  <1>2. y = [x EXCEPT !.corpus = [x.corpus EXCEPT ![p] = facts]]
    BY DEF Good, Processes
  <1>3. /\ y \in Processes
        /\ y.pc = x.pc /\ y.seen = x.seen /\ y.play = x.play
        /\ y.open = x.open /\ y.fate = x.fate
    BY <1>1, <1>2 DEF Good, Processes
  <1> HIDE DEF y
  <1>4. Looked(y) /\ Holds(y, r)
    BY <1>3 DEF Good, Looked, Holds
  <1>5. QED
    BY <1>3, <1>4 DEF Good, y

\* The one step that makes a run believe a row, of the play it has looked at.
LEMMA RestoreMoves ==
  ASSUME ServeInv, NEW r \in Runs, Restore(r)
  PROVE  /\ Moves(r)
         /\ \A q \in Plays : q # proc[r].play => proc'[r].fate[q] = proc[r].fate[q]
  <1> DEFINE p == proc[r].play
             x == Settles(r, p, "restored")
             y == [x EXCEPT !.corpus[p] = cache[p].facts]
  <1>1. p \in Plays /\ UNCHANGED <<clock, folder, cache, mixed, rewritten>>
    BY DEF Restore, ServeInv, Looked
  <1>2. proc' = [proc EXCEPT ![r] = y]
    BY Zenon DEF Restore, Restored
  <1>3. "restored" \in Fates /\ cache[p].facts \in Facts
    BY <1>1 DEF Fates, ServeInv, ServeTypeOK, Rows
  <1>4. Good(x, r) /\ \A q \in Plays : q # p => x.fate[q] = proc[r].fate[q]
    BY <1>1, <1>3, SettlingIsGood
  <1> HIDE DEF p, x
  <1>5. Good(y, r) /\ y.fate = x.fate
    BY <1>1, <1>3, <1>4, CorpusIsGood
  <1> HIDE DEF y
  <1>6. Moves(r) /\ proc'[r] = y
    BY <1>1, <1>2, <1>5, Becoming
  <1>7. QED
    BY <1>4, <1>5, <1>6 DEF p

-----------------------------------------------------------------------------
(* Every step keeps the invariant. The runtime file and the ports are looked   *)
(* at last: the rest of the state does not depend on them.                     *)

CoreInv ==
  /\ clock \in Nat /\ mixed \in BOOLEAN
  /\ folder \in [Plays -> Nat]
  /\ cache \in [Plays -> Rows]
  /\ proc \in [Runs -> Processes]
  /\ RowsAreOfTheirFile
  /\ OneBuild
  /\ \A r \in Runs : Looked(proc[r]) /\ Holds(proc[r], r)

LEMMA ServeInvHasCore == ServeInv => CoreInv
  BY DEF ServeInv, ServeTypeOK, CoreInv

LEMMA MovingKeepsCore ==
  ASSUME ServeInv, NEW r \in Runs, Moves(r)
  PROVE  CoreInv'
  <1>1. CoreInv
    BY ServeInvHasCore
  <1>2. proc' \in [Runs -> Processes]
    BY <1>1 DEF CoreInv, Moves, Good
  <1>3. ASSUME NEW q \in Runs PROVE Looked(proc[q])' /\ Holds(proc[q], q)'
    <2>1. Looked(proc'[q]) /\ Holds(proc'[q], q)
      BY <1>1 DEF CoreInv, Moves, Good
    <2>2. QED
      BY <2>1 DEF Moves, Looked, Holds
  <1>4. OneBuild'
    <2>1. \A q \in Runs : proc'[q].open => proc[q].open
      BY <1>1 DEF CoreInv, Moves, Good
    <2>2. OneBuild /\ mixed' = mixed
      BY <1>1 DEF CoreInv, Moves
    <2>3. QED
      BY <2>1, <2>2 DEF OneBuild
  <1>5. QED
    BY <1>1, <1>2, <1>3, <1>4 DEF CoreInv, Moves, RowsAreOfTheirFile

\* The sweep leaves rows of the build that opens the cache, and nobody else's.
LEMMA OpenCacheKeepsCore ==
  ASSUME ServeInv, NEW r \in Runs, OpenCache(r)
  PROVE  CoreInv' /\ Doubts(proc'[r], r)
  <1> DEFINE x == [proc[r] EXCEPT !.pc = "list", !.open = TRUE]
  <1>1. CoreInv
    BY ServeInvHasCore
  <1>2. /\ cache' = Swept(r) /\ rewritten' = rewritten
        /\ mixed' = (mixed \/ \E q \in Runs : proc[q].open /\ BuildOf[q] # BuildOf[r])
        /\ proc' = [proc EXCEPT ![r] = x]
        /\ UNCHANGED <<clock, folder>>
    BY DEF OpenCache
  <1>3. proc[r] \in Processes /\ "list" \in Steps
    BY <1>1 DEF CoreInv, Steps
  <1>4. /\ x \in Processes
        /\ x.pc = "list" /\ x.open = TRUE
        /\ x.seen = proc[r].seen /\ x.fate = proc[r].fate
    BY <1>3 DEF Processes
  <1> HIDE DEF x
  <1>5. \A p \in Plays : (cache'[p] = cache[p] /\ cache[p].tool = BuildOf[r]) \/ cache'[p] = NoRow
    BY <1>2 DEF Swept
  <1>6. cache' \in [Plays -> Rows]
    BY <1>1, <1>2, <1>5, NothingIsTyped DEF CoreInv, Swept
  <1>7. NoRow.facts = NoFacts
    BY DEF NoRow
  <1>8. proc' \in [Runs -> Processes] /\ proc'[r] = x
    BY <1>1, <1>2, <1>4 DEF CoreInv
  <1>9. ASSUME NEW q \in Runs PROVE Looked(proc[q])' /\ Holds(proc[q], q)'
    <2>1. CASE q = r
      <3>1. Looked(proc[r])'
        BY <1>4, <1>8 DEF Looked
      <3>2. Holds(proc[r], r)'
        BY <1>5, <1>7 DEF Holds
      <3>3. QED
        BY <2>1, <3>1, <3>2
    <2>2. CASE q # r
      <3>1. proc'[q] = proc[q]
        BY <1>1, <1>2, <2>2 DEF CoreInv
      <3>2. Looked(proc[q])'
        BY <1>1, <1>2, <3>1 DEF CoreInv, Looked
      <3>3. Holds(proc[q], q) /\ (mixed => mixed')
        BY <1>1, <1>2 DEF CoreInv
      <3>4. Holds(proc[q], q)'
        BY <1>5, <1>7, <3>1, <3>3 DEF Holds
      <3>5. QED
        BY <3>2, <3>4
    <2>3. QED
      BY <2>1, <2>2
  <1>10. RowsAreOfTheirFile'
    BY <1>1, <1>2, <1>5, <1>7 DEF CoreInv, RowsAreOfTheirFile
  <1>11. OneBuild'
    <2>1. mixed' \/ \A q \in Runs : proc[q].open => BuildOf[q] = BuildOf[r]
      BY <1>2
    <2>2. \A q \in Runs : q = r \/ proc'[q] = proc[q]
      BY <1>1, <1>2 DEF CoreInv
    <2>3. QED
      BY <2>1, <2>2 DEF OneBuild
  <1>12. mixed' \in BOOLEAN
    BY <1>2
  <1>13. QED
    BY <1>1, <1>2, <1>4, <1>6, <1>8, <1>9, <1>10, <1>11, <1>12 DEF CoreInv, Doubts

\* A row is stored of a play that is there, as it was read or written over.
LEMMA StoringKeepsCore ==
  ASSUME ServeInv, NEW r \in Runs, NEW x, Good(x, r), NEW p \in Plays,
         folder[p] = proc[r].seen \/ p \in rewritten,
         cache' = Stored(r, p), proc' = [proc EXCEPT ![r] = x],
         UNCHANGED <<clock, folder, mixed, rewritten>>
  PROVE  CoreInv' /\ proc'[r] = x
  <1> DEFINE row == [stat |-> folder[p], tool |-> BuildOf[r], facts |-> FactsInHand(r)]
  <1>1. CoreInv
    BY ServeInvHasCore
  <1>2. proc[r].seen \in Nat /\ folder[p] \in Nat
    BY <1>1 DEF CoreInv, Processes
  <1>3. /\ FactsInHand(r) \in Facts
        /\ FactsInHand(r).of = proc[r].seen /\ FactsInHand(r).by = BuildOf[r]
    BY <1>2 DEF FactsInHand, Facts, Builds
  <1>4. /\ row \in Rows /\ row.tool = BuildOf[r] /\ row.facts.by = row.tool
        /\ row.facts.of = row.stat \/ p \in rewritten
    BY <1>2, <1>3 DEF Rows, Builds
  <1>5. cache' = cache \/ (proc[r].open /\ cache' = [cache EXCEPT ![p] = row])
    BY DEF Stored
  <1> HIDE DEF row
  <1>6. cache' \in [Plays -> Rows]
    BY <1>1, <1>4, <1>5 DEF CoreInv
  <1>7. \A q \in Plays : cache'[q] = cache[q] \/ (proc[r].open /\ q = p /\ cache'[q] = row)
    BY <1>1, <1>5 DEF CoreInv
  <1>8. RowsAreOfTheirFile'
    BY <1>1, <1>4, <1>7 DEF CoreInv, RowsAreOfTheirFile
  <1>9. proc' \in [Runs -> Processes] /\ proc'[r] = x
    BY <1>1 DEF CoreInv, Good
  <1>10. \A q \in Runs : (proc'[q].open => proc[q].open)
    BY <1>1 DEF CoreInv, Good
  <1>11. OneBuild /\ OneBuild'
    BY <1>1, <1>10 DEF CoreInv, OneBuild
  <1>12. ASSUME NEW q \in Runs PROVE Looked(proc[q])' /\ Holds(proc[q], q)'
    <2>1. Looked(proc'[q]) /\ Holds(proc'[q], q)
      BY <1>1 DEF CoreInv, Good
    <2>2. Looked(proc[q])'
      BY <2>1 DEF Looked
    <2>3. proc[r].open /\ proc'[q].open => mixed \/ BuildOf[q] = BuildOf[r]
      BY <1>10, <1>11 DEF OneBuild
    <2>4. Holds(proc[q], q)'
      BY <1>4, <1>7, <2>1, <2>3 DEF Holds
    <2>5. QED
      BY <2>2, <2>4
  <1>13. QED
    BY <1>1, <1>6, <1>8, <1>9, <1>11, <1>12 DEF CoreInv

LEMMA JudgedIsThereOrGone ==
  ASSUME ServeInv, NEW r \in Runs, proc[r].pc \in {"judged", "watching"}
  PROVE  /\ proc[r].play \in Plays
         /\ folder[proc[r].play] \in Nat
         /\ folder[proc[r].play] \in {0, proc[r].seen} \/ proc[r].play \in rewritten
  BY DEF ServeInv, ServeTypeOK, Looked

LEMMA FactsAreTyped ==
  ASSUME ServeInv, NEW r \in Runs
  PROVE  FactsInHand(r) \in Facts
  BY DEF ServeInv, ServeTypeOK, Processes, FactsInHand, Facts, Builds

LEMMA PayloadsAreGood ==
  ASSUME NEW r \in Runs, NEW x, Good(x, r), NEW S \in SUBSET Plays
  PROVE  /\ Good([x EXCEPT !.payloads = S], r)
         /\ [x EXCEPT !.payloads = S].fate = x.fate
  <1> DEFINE y == [x EXCEPT !.payloads = S]
  <1>1. /\ y \in Processes
        /\ y.pc = x.pc /\ y.seen = x.seen /\ y.play = x.play
        /\ y.open = x.open /\ y.fate = x.fate
    BY DEF Good, Processes
  <1> HIDE DEF y
  <1>2. Looked(y) /\ Holds(y, r)
    BY <1>1 DEF Good, Looked, Holds
  <1>3. QED
    BY <1>1, <1>2 DEF Good, y

LEMMA RememberKeepsCore ==
  ASSUME ServeInv, NEW r \in Runs, Remember(r)
  PROVE  CoreInv' /\ Doubts(proc'[r], r)
  <1> DEFINE p == proc[r].play
             fate == IF InHead(r) THEN "prepared" ELSE "backfilled"
             x == Settles(r, p, fate)
             y == [x EXCEPT !.corpus[p] = FactsInHand(r)]
             more == IF InHead(r) THEN y.payloads \cup {p} ELSE y.payloads
             z == [y EXCEPT !.payloads = more]
  <1>1. p \in Plays /\ folder[p] \in Nat /\ (folder[p] \in {0, proc[r].seen} \/ p \in rewritten)
    BY JudgedIsThereOrGone DEF Remember
  <1>2. CASE folder[p] = 0
    <2>1. proc' = [proc EXCEPT ![r] = Gone("ended")] /\ UNCHANGED <<clock, folder, cache, mixed, rewritten>>
      BY <1>2 DEF Remember
    <2>2. Moves(r) /\ Doubts(proc'[r], r)
      BY <2>1, BeingGone
    <2>3. QED
      BY <2>2, MovingKeepsCore
  <1>3. CASE folder[p] # 0
    <2>1. /\ proc' = [proc EXCEPT ![r] = [x EXCEPT !.corpus[p] = FactsInHand(r),
                                                   !.payloads = IF InHead(r) THEN @ \cup {p} ELSE @]]
          /\ cache' = Stored(r, p)
          /\ UNCHANGED <<clock, folder, mixed, rewritten>>
      BY <1>3, Zenon DEF Remember
    <2>2. fate \in Fates \ {"restored"}
      BY DEF Fates
    <2> HIDE DEF fate
    <2>3. Good(x, r) /\ Doubts(x, r)
      BY <1>1, <2>2, SettlingIsGood
    <2>4. x.payloads \in SUBSET Plays
      BY <2>3 DEF Good, Processes
    <2> HIDE DEF x, p
    <2>5. FactsInHand(r) \in Facts
      BY FactsAreTyped
    <2>6. Good(y, r) /\ y.fate = x.fate
      BY <1>1, <2>3, <2>5, CorpusIsGood
    <2>7. y.payloads \in SUBSET Plays
      BY <2>6 DEF Good, Processes
    <2>8. z = [x EXCEPT !.corpus[p] = FactsInHand(r),
                        !.payloads = IF InHead(r) THEN @ \cup {p} ELSE @]
      OBVIOUS
    <2> HIDE DEF y
    <2>9. more \in SUBSET Plays
      BY <1>1, <2>7
    <2> HIDE DEF more
    <2>10. Good(z, r) /\ z.fate = y.fate
      BY <2>6, <2>9, PayloadsAreGood
    <2>11. proc' = [proc EXCEPT ![r] = z]
      BY <2>1, <2>8, Zenon
    <2> HIDE DEF z
    <2>12. folder[p] = proc[r].seen \/ p \in rewritten
      BY <1>1, <1>3
    <2>13. CoreInv' /\ proc'[r] = z
      BY <1>1, <2>1, <2>10, <2>11, <2>12, StoringKeepsCore
    <2>14. QED
      BY <2>3, <2>6, <2>10, <2>13 DEF Doubts
  <1>4. QED
    BY <1>2, <1>3

LEMMA RememberNewKeepsCore ==
  ASSUME ServeInv, NEW r \in Runs, RememberNew(r)
  PROVE  CoreInv' /\ Doubts(proc'[r], r)
  <1> DEFINE p == proc[r].play
             y == [proc[r] EXCEPT !.corpus[p] = FactsInHand(r)]
             z == [y EXCEPT !.pc = "serving", !.play = Nobody, !.seen = 0]
  <1>1. p \in Plays /\ folder[p] \in Nat /\ (folder[p] \in {0, proc[r].seen} \/ p \in rewritten)
    BY JudgedIsThereOrGone DEF RememberNew
  <1>2. /\ proc' = [proc EXCEPT ![r] = z]
        /\ cache' = IF folder[p] = 0 THEN cache ELSE Stored(r, p)
        /\ UNCHANGED <<clock, folder, mixed, rewritten>>
    BY Zenon DEF RememberNew, Told
  <1>3. Good(proc[r], r) /\ Doubts(proc[r], r) /\ clock \in Nat
    BY ARunIsGood DEF ServeInv, ServeTypeOK
  <1>4. Good(y, r) /\ y.fate = proc[r].fate
    BY <1>1, <1>3, FactsAreTyped, CorpusIsGood
  <1> HIDE DEF y
  <1>5. /\ z \in Processes
        /\ z.pc = "serving" /\ z.seen = 0
        /\ z.open = y.open /\ z.fate = y.fate
    <2>1. "serving" \in Steps
      BY DEF Steps
    <2>2. QED
      BY <1>4, <2>1 DEF Good, Processes
  <1> HIDE DEF z
  <1>6. Good(z, r)
    BY <1>3, <1>4, <1>5 DEF Good, Looked, Holds
  <1>7. Doubts(z, r)
    BY <1>3, <1>4, <1>5 DEF Doubts
  <1> HIDE DEF p
  <1>8. CASE folder[p] = 0
    <2>1. UNCHANGED <<clock, folder, cache, mixed, rewritten>>
      BY <1>2, <1>8
    <2>2. Moves(r) /\ proc'[r] = z
      BY <1>2, <1>6, <2>1, Becoming
    <2>3. QED
      BY <1>7, <2>2, MovingKeepsCore
  <1>9. CASE folder[p] # 0
    <2>1. cache' = Stored(r, p)
      BY <1>2, <1>9
    <2>2. folder[p] = proc[r].seen \/ p \in rewritten
      BY <1>1, <1>9
    <2>3. CoreInv' /\ proc'[r] = z
      BY <1>1, <1>2, <1>6, <2>1, <2>2, StoringKeepsCore
    <2>4. QED
      BY <1>7, <2>3
  <1>10. QED
    BY <1>8, <1>9

\* osu! and the player: a file that is written over while it is read is marked.
LEMMA FolderKeepsCore ==
  ASSUME ServeInv, NEW p \in Plays, WriteReplay(p) \/ DeleteReplay(p)
  PROVE  CoreInv'
  <1>1. CoreInv
    BY ServeInvHasCore
  <1>2. /\ clock' \in Nat
        /\ folder' \in [Plays -> Nat]
        /\ \A q \in Plays : folder'[q] \in {0, folder[q]} \/ (q = p /\ (BeingRead(p) => p \in rewritten'))
        /\ rewritten \subseteq rewritten'
        /\ UNCHANGED <<cache, mixed, proc>>
    <2>1. CASE WriteReplay(p)
      BY <1>1, <2>1 DEF CoreInv, WriteReplay
    <2>2. CASE DeleteReplay(p)
      BY <1>1, <2>2 DEF CoreInv, DeleteReplay
    <2>3. QED
      BY <2>1, <2>2
  <1>3. ASSUME NEW r \in Runs PROVE Looked(proc[r])' /\ Holds(proc[r], r)'
    <2>1. Looked(proc[r]) /\ Holds(proc[r], r)
      BY <1>1 DEF CoreInv
    <2>2. proc[r].pc \in {"judged", "watching"} => BeingRead(proc[r].play)
      BY DEF BeingRead
    <2>3. Looked(proc[r])'
      BY <1>2, <2>1, <2>2 DEF Looked
    <2>4. QED
      BY <1>2, <2>1, <2>3 DEF Holds
  <1>4. QED
    BY <1>1, <1>2, <1>3 DEF CoreInv, RowsAreOfTheirFile, OneBuild

\* Only the run that steps changes, and only Restore makes it believe a row.
LEMMA RunKeepsCore ==
  ASSUME ServeInv, NEW r \in Runs, Serve(r) \/ Kill(r)
  PROVE  /\ CoreInv'
         /\ Restore(r) \/ Doubts(proc'[r], r)
         /\ \A q \in Runs : q # r => proc'[q] = proc[q]
  <1>1. ASSUME Moves(r) PROVE CoreInv' /\ \A q \in Runs : q # r => proc'[q] = proc[q]
    BY <1>1, MovingKeepsCore DEF Moves, ServeInv, ServeTypeOK
  <1>2. CASE CacheUnavailable(r) \/ Refuse(r)
    BY <1>1, <1>2, StartingMoves
  <1>3. CASE Glob(r) \/ Sort(r)
    BY <1>1, <1>3, ListingMoves
  <1>4. CASE Judge(r)
    BY <1>1, <1>4, JudgeMoves
  <1>5. CASE StatTail(r)
    BY <1>1, <1>5, StatTailMoves
  <1>6. CASE Restore(r)
    BY <1>1, <1>6, RestoreMoves
  <1>7. CASE JudgeTail(r)
    BY <1>1, <1>7, JudgeTailMoves
  <1>8. CASE CheckPort(r)
    BY <1>1, <1>8, CheckPortMoves
  <1>9. CASE Ready(r) \/ WriteRuntimeFile(r) \/ Bind(r) \/ Interrupt(r) \/ Unlink(r) \/ Kill(r)
    BY <1>1, <1>9, ServingMoves
  <1>10. CASE JudgeNew(r)
    BY <1>1, <1>10, JudgeNewMoves
  <1>11. CASE OpenCache(r)
    <2>1. \A q \in Runs : q # r => proc'[q] = proc[q]
      BY <1>11 DEF OpenCache, ServeInv, ServeTypeOK
    <2>2. QED
      BY <1>11, <2>1, OpenCacheKeepsCore
  <1>12. CASE Remember(r)
    <2>1. \E x : proc' = [proc EXCEPT ![r] = x]
      BY <1>12, Zenon DEF Remember
    <2>2. \A q \in Runs : q # r => proc'[q] = proc[q]
      BY <2>1 DEF ServeInv, ServeTypeOK
    <2>3. QED
      BY <1>12, <2>2, RememberKeepsCore
  <1>13. CASE RememberNew(r)
    <2>1. \E x : proc' = [proc EXCEPT ![r] = x]
      BY <1>13, Zenon DEF RememberNew
    <2>2. \A q \in Runs : q # r => proc'[q] = proc[q]
      BY <2>1 DEF ServeInv, ServeTypeOK
    <2>3. QED
      BY <1>13, <2>2, RememberNewKeepsCore
  <1>14. QED
    BY <1>2, <1>3, <1>4, <1>5, <1>6, <1>7, <1>8, <1>9, <1>10, <1>11, <1>12, <1>13 DEF Serve

LEMMA FileAndPortsAreTyped ==
  ASSUME ServeInv, NEW r \in Runs, Serve(r) \/ Kill(r)
  PROVE  runtime' \in Runs \cup {Nobody} /\ bound' \in [Ports -> Runs \cup {Nobody}]
  <1>1. runtime \in Runs \cup {Nobody} /\ bound \in [Ports -> Runs \cup {Nobody}]
    BY DEF ServeInv, ServeTypeOK
  <1>2. runtime' = runtime \/ runtime' = r \/ runtime' = Nobody
    BY Zenon DEF Serve, Kill, OpenCache, CacheUnavailable, Refuse, Glob, Sort, Judge, StatTail, Restore,
                 JudgeTail, Remember, Ready, CheckPort, WriteRuntimeFile, Bind, JudgeNew, RememberNew,
                 Interrupt, Unlink
  <1>3. CASE Bind(r) \/ Interrupt(r) \/ Kill(r)
    BY <1>1, <1>2, <1>3 DEF Bind, Interrupt, Kill
  <1>4. CASE ~(Bind(r) \/ Interrupt(r) \/ Kill(r))
    <2>1. bound' = bound
      BY <1>4, Zenon DEF Serve, Kill, OpenCache, CacheUnavailable, Refuse, Glob, Sort, Judge, StatTail,
                         Restore, JudgeTail, Remember, Ready, CheckPort, WriteRuntimeFile, JudgeNew,
                         RememberNew, Unlink
    <2>2. QED
      BY <1>1, <1>2, <2>1
  <1>5. QED
    BY <1>3, <1>4

Named == {"published", "serving", "watching", "stopping", "killed"}

\* The run the file names leaves the steps where it is named only by a kill or
\* by taking the file with it.
LEMMA TheNamedRunStays ==
  ASSUME ServeInv, NEW r \in Runs, Serve(r) \/ Kill(r)
  PROVE  AFileLeftBehindIsOfAKilledRun'
  <1>1. /\ CoreInv'
        /\ \A q \in Runs : q # r => proc'[q] = proc[q]
        /\ runtime' \in Runs \cup {Nobody} /\ runtime \in Runs \cup {Nobody}
    BY RunKeepsCore, FileAndPortsAreTyped DEF ServeInv, ServeTypeOK
  <1>2. proc[r] \in Processes /\ proc \in [Runs -> Processes]
    BY DEF ServeInv, ServeTypeOK
  <1>3. runtime # Nobody => proc[runtime].pc \in Named
    BY DEF ServeInv, AFileLeftBehindIsOfAKilledRun, Named
  <1>4. CASE WriteRuntimeFile(r)
    <2>1. runtime' = r /\ proc'[r].pc = "published"
      BY <1>2, <1>4 DEF WriteRuntimeFile, Goes, Processes
    <2>2. QED
      BY <2>1 DEF AFileLeftBehindIsOfAKilledRun
  <1>5. CASE Unlink(r)
    BY <1>5 DEF Unlink, AFileLeftBehindIsOfAKilledRun
  <1>6. CASE Bind(r) \/ JudgeNew(r) \/ RememberNew(r) \/ Interrupt(r)
    <2>1. runtime' = runtime
      BY <1>6 DEF Bind, JudgeNew, RememberNew, Interrupt
    <2>2. proc'[r].pc \in Named
      <3>1. CASE Bind(r) \/ Interrupt(r)
        BY <1>2, <3>1 DEF Bind, Interrupt, Goes, Processes, Named
      <3>2. CASE JudgeNew(r)
        BY <1>2, <3>2 DEF JudgeNew, Processes, Named
      <3>3. CASE RememberNew(r)
        <4> DEFINE y == Told(r, proc[r].play)
        <4>1. proc' = [proc EXCEPT ![r] = [y EXCEPT !.pc = "serving", !.play = Nobody, !.seen = 0]]
          BY <3>3, Zenon DEF RememberNew
        <4>2. DOMAIN y = DOMAIN proc[r] /\ "pc" \in DOMAIN proc[r]
          BY <1>2 DEF Told, Processes
        <4> HIDE DEF y
        <4>3. proc'[r].pc = "serving"
          BY <1>2, <4>1, <4>2
        <4>4. QED
          BY <4>3 DEF Named
      <3>4. QED
        BY <1>6, <3>1, <3>2, <3>3
    <2>3. QED
      BY <1>1, <1>3, <2>1, <2>2 DEF AFileLeftBehindIsOfAKilledRun, Named
  <1>7. CASE Kill(r)
    <2>1. runtime' = runtime
      BY <1>7 DEF Kill
    <2>2. proc'[r].pc \in Named
      BY <1>2, <1>7 DEF Kill, Gone, AtStart, Named
    <2>3. QED
      BY <1>1, <1>3, <2>1, <2>2 DEF AFileLeftBehindIsOfAKilledRun, Named
  <1>8. CASE \/ OpenCache(r) \/ CacheUnavailable(r) \/ Refuse(r) \/ Glob(r) \/ Sort(r)
             \/ Judge(r) \/ StatTail(r) \/ Restore(r) \/ JudgeTail(r) \/ Remember(r) \/ Ready(r)
             \/ CheckPort(r)
    <2>1. runtime' = runtime
      BY <1>8, Zenon DEF OpenCache, CacheUnavailable, Refuse, Glob, Sort, Judge, StatTail, Restore,
                         JudgeTail, Remember, Ready, CheckPort
    <2>2. proc[r].pc \in {"off", "list", "sort", "replays", "statted", "judged", "ready"}
      BY <1>8 DEF OpenCache, CacheUnavailable, Refuse, Glob, Sort, Judge, StatTail, Restore,
                  JudgeTail, Remember, Ready, CheckPort, Turn
    <2>3. runtime # r \/ runtime = Nobody
      BY <1>3, <2>2 DEF Named
    <2>4. QED
      BY <1>1, <1>3, <2>1, <2>3 DEF AFileLeftBehindIsOfAKilledRun, Named
  <1>9. QED
    BY <1>4, <1>5, <1>6, <1>7, <1>8 DEF Serve

LEMMA ServeNextInv == ServeInv /\ [ServeNext]_vars => ServeInv'
  <1>1. SUFFICES ASSUME ServeInv, [ServeNext]_vars PROVE ServeInv'
    OBVIOUS
  <1>2. ASSUME CoreInv', runtime' \in Runs \cup {Nobody}, bound' \in [Ports -> Runs \cup {Nobody}],
               AFileLeftBehindIsOfAKilledRun'
        PROVE  ServeInv'
    BY <1>2 DEF CoreInv, ServeInv, ServeTypeOK
  <1>3. ASSUME NEW r \in Runs, Serve(r) \/ Kill(r) PROVE ServeInv'
    BY <1>1, <1>2, <1>3, RunKeepsCore, FileAndPortsAreTyped, TheNamedRunStays
  <1>4. ASSUME NEW p \in Plays, WriteReplay(p) \/ DeleteReplay(p) PROVE ServeInv'
    <2>1. UNCHANGED <<runtime, bound, proc>>
      BY <1>4 DEF WriteReplay, DeleteReplay
    <2>2. CoreInv'
      BY <1>1, <1>4, FolderKeepsCore
    <2>3. AFileLeftBehindIsOfAKilledRun'
      BY <1>1, <2>1 DEF ServeInv, AFileLeftBehindIsOfAKilledRun
    <2>4. QED
      BY <1>1, <1>2, <2>1, <2>2, <2>3 DEF ServeInv, ServeTypeOK
  <1>5. CASE UNCHANGED vars
    BY <1>1, <1>5 DEF vars, ServeInv, ServeTypeOK, RowsAreOfTheirFile, OneBuild, Looked, Holds,
                      AFileLeftBehindIsOfAKilledRun
  <1>6. QED
    BY <1>1, <1>3, <1>4, <1>5 DEF ServeNext

LEMMA ServeInvariant == ServeSpec => []ServeInv
  BY ServeInitInv, ServeNextInv, PTL DEF ServeSpec

\* run.py, prepare and serve: whatever overlaps, fails to bind or is killed, a
\* runtime file names a run that serves or will, or one that was killed.
THEOREM LeftBehindByAKill == ServeSpec => []AFileLeftBehindIsOfAKilledRun
  <1>1. ServeInv => AFileLeftBehindIsOfAKilledRun
    BY DEF ServeInv
  <1>2. QED
    BY <1>1, ServeInvariant, PTL

\* cache.py, lookup and the sweep, with remember in cli.py: as long as no other
\* build has had the cache open beside it, what a run restores of a replay that
\* was not written over while it was read is what it would make of it now.
THEOREM RestoringIsAnalysing == ServeSpec => ARestoredPlayIsAsAnalysed
  <1>1. ServeInv /\ [ServeNext]_vars =>
          [\A r \in Runs, p \in Plays :
             Believes(r, p) /\ ~mixed /\ p \notin rewritten => cache[p].facts = FactsInHand(r)]_vars
    <2> SUFFICES ASSUME ServeInv, ServeNext, NEW r \in Runs, NEW p \in Plays, Believes(r, p),
                        ~mixed, p \notin rewritten
                 PROVE  cache[p].facts = FactsInHand(r)
      OBVIOUS
    <2>1. Restore(r)
      <3>1. CASE \E q \in Runs : Serve(q) \/ Kill(q)
        <4>1. PICK q \in Runs : Serve(q) \/ Kill(q)
          BY <3>1
        <4>2. Restore(q) \/ Doubts(proc'[q], q)
          BY <4>1, RunKeepsCore
        <4>3. q = r
          BY <4>1, RunKeepsCore DEF Believes
        <4>4. QED
          BY <4>2, <4>3 DEF Doubts, Believes
      <3>2. CASE \E q \in Plays : WriteReplay(q) \/ DeleteReplay(q)
        BY <3>2 DEF WriteReplay, DeleteReplay, Believes
      <3>3. QED
        BY <3>1, <3>2 DEF ServeNext
    <2>2. p = proc[r].play
      BY <2>1, RestoreMoves DEF Believes
    <2>3. proc[r].pc = "statted" /\ proc[r].open /\ cache[p].stat = proc[r].seen /\ cache[p].facts # NoFacts
      BY <2>1, <2>2 DEF Restore, Restorable, Lookup
    <2>4. cache[p].tool = BuildOf[r]
      BY <2>3 DEF ServeInv, Holds
    <2>5. cache[p].facts.by = cache[p].tool /\ cache[p].facts.of = cache[p].stat
      BY <2>3 DEF ServeInv, RowsAreOfTheirFile
    <2>6. cache[p].facts \in Facts
      BY DEF ServeInv, ServeTypeOK, Rows
    <2>7. QED
      BY <2>3, <2>4, <2>5, <2>6 DEF Facts, FactsInHand
  <1>2. QED
    BY <1>1, ServeInvariant, PTL DEF ServeSpec, ARestoredPlayIsAsAnalysed

-----------------------------------------------------------------------------
(* Every listed play is accounted for. *)

Early == {"off", "list", "sort", "ended", "killed"}
Scanning == {"replays", "statted", "judged"}
Known == {"prepared", "restored", "backfilled"}

\* What the loops over the listed plays keep: a name is listed once, the plays
\* before the current one are settled and the others are not, and the corpus has
\* what the fates say.
Accounted(x) ==
  /\ \A i, j \in DOMAIN x.found : x.found[i] = x.found[j] => i = j
  /\ x.pc \in Early => \A p \in Plays : x.corpus[p] = NoFacts /\ x.fate[p] = "none"
  /\ x.pc \in Scanning => \A i \in DOMAIN x.found : x.fate[x.found[i]] = "none" <=> x.at <= i
  /\ x.pc \in AfterTheScan => \A i \in DOMAIN x.found : x.fate[x.found[i]] # "none"
  /\ x.pc \in Scanning \cup AfterTheScan =>
       \A i \in DOMAIN x.found : x.corpus[x.found[i]] # NoFacts <=> x.fate[x.found[i]] \in Known
  /\ x.pc \in {"statted", "judged"} => x.at \in DOMAIN x.found /\ x.play = x.found[x.at]
  /\ x.pc = "watching" => \A i \in DOMAIN x.found : x.found[i] # x.play

AccountInv == \A r \in Runs : Accounted(proc[r])

LEMMA BeingOverIsAccounted ==
  ASSUME NEW pc \in Early
  PROVE  Accounted(Gone(pc))
  BY DEF Accounted, Gone, AtStart, Early, Scanning, AfterTheScan

\* The play at hand is settled, and the loop goes on.
IsSettled(x, y, p, fate) ==
  /\ y.pc = "replays" /\ y.at = x.at + 1 /\ y.found = x.found
  /\ y.fate = [x.fate EXCEPT ![p] = fate]
  /\ \A q \in Plays : q # p => y.corpus[q] = x.corpus[q]
  /\ y.corpus[p] # NoFacts <=> fate \in Known

LEMMA SettledIsAccounted ==
  ASSUME NEW x \in Processes, Accounted(x), x.pc \in Scanning, x.at \in DOMAIN x.found,
         NEW p, p = x.found[x.at], NEW fate \in Fates \ {"none"},
         NEW y, IsSettled(x, y, p, fate)
  PROVE  Accounted(y)
  <1> USE DEF IsSettled
  <1>1. /\ x.found \in Seq(Plays) /\ x.fate \in [Plays -> Fates] /\ x.at \in Nat
        /\ \A i \in DOMAIN x.found : x.found[i] \in Plays /\ i \in Nat
    BY DEF Processes
  <1>2. /\ \A i, j \in DOMAIN x.found : x.found[i] = x.found[j] => i = j
        /\ \A i \in DOMAIN x.found : x.fate[x.found[i]] = "none" <=> x.at <= i
        /\ \A i \in DOMAIN x.found : x.corpus[x.found[i]] # NoFacts <=> x.fate[x.found[i]] \in Known
    BY DEF Accounted
  <1>3. ASSUME NEW i \in DOMAIN y.found
        PROVE  /\ y.fate[y.found[i]] = "none" <=> y.at <= i
               /\ y.corpus[y.found[i]] # NoFacts <=> y.fate[y.found[i]] \in Known
    <2>1. CASE i = x.at
      <3>1. y.found[i] = p /\ p \in Plays /\ y.fate[p] = fate /\ fate # "none"
        BY <1>1, <2>1
      <3>2. ~(y.at <= i)
        BY <1>1, <2>1
      <3>3. QED
        BY <3>1, <3>2
    <2>2. CASE i # x.at
      <3>1. i \in DOMAIN x.found /\ x.found[i] \in Plays /\ x.found[i] # p /\ i \in Nat
        BY <1>1, <1>2, <2>2
      <3>2. y.fate[y.found[i]] = x.fate[x.found[i]] /\ y.corpus[y.found[i]] = x.corpus[x.found[i]]
        BY <1>1, <3>1
      <3>3. y.at <= i <=> x.at <= i
        BY <1>1, <2>2, <3>1
      <3>4. QED
        BY <1>2, <3>1, <3>2, <3>3
    <2>3. QED
      BY <2>1, <2>2
  <1>4. QED
    BY <1>2, <1>3 DEF Accounted, Early, Scanning, AfterTheScan

\* The run goes on to a step of the same kind, with what it has.
LEMMA GoingOnIsAccounted ==
  ASSUME NEW x, Accounted(x), NEW y,
         y.found = x.found, y.fate = x.fate, y.corpus = x.corpus, y.at = x.at,
         \/ x.pc \in Early /\ y.pc \in Early
         \/ x.pc \in Scanning /\ y.pc = "replays"
         \/ x.pc \in Scanning /\ y.pc \in {"statted", "judged"}
              /\ y.at \in DOMAIN y.found /\ y.play = y.found[y.at]
         \/ x.pc \in AfterTheScan /\ y.pc \in AfterTheScan \ {"watching"}
         \/ x.pc \in AfterTheScan /\ y.pc = "watching"
              /\ \A i \in DOMAIN y.found : y.found[i] # y.play
  PROVE  Accounted(y)
  BY DEF Accounted, Early, Scanning, AfterTheScan

\* The loop is over: all listed plays are settled.
LEMMA FinishedIsAccounted ==
  ASSUME NEW x \in Processes, Accounted(x), x.pc = "replays", x.at > Len(x.found),
         NEW y, y.found = x.found, y.fate = x.fate, y.corpus = x.corpus, y.pc = "ready"
  PROVE  Accounted(y)
  <1>1. x.found \in Seq(Plays) /\ x.at \in Nat
    BY DEF Processes
  <1>2. \A i \in DOMAIN x.found : ~(x.at <= i)
    BY <1>1
  <1>3. QED
    BY <1>2 DEF Accounted, Early, Scanning, AfterTheScan

\* A new list, with nothing settled yet.
LEMMA ListedIsAccounted ==
  ASSUME NEW x, Accounted(x), x.pc \in Early, NEW S \in SUBSET Plays, NEW s \in SetToSeqs(S),
         NEW y, y.found = s, y.fate = x.fate, y.corpus = x.corpus,
         y.pc = "sort" \/ (y.pc = "replays" /\ y.at = 1)
  PROVE  Accounted(y)
  <1>1. s \in Seq(Plays) /\ \A i, j \in DOMAIN s : s[i] = s[j] => i = j
    BY OrdersAreTyped DEF SetToSeqs, IsInjective
  <1>2. \A i \in DOMAIN s : s[i] \in Plays /\ 1 <= i
    BY <1>1
  <1>3. "none" \notin Known
    BY DEF Known
  <1>4. QED
    BY <1>1, <1>2, <1>3 DEF Accounted, Early, Scanning, AfterTheScan

LEMMA TheRunThatMoves ==
  ASSUME ServeInv, AccountInv, NEW r \in Runs
  PROVE  /\ proc[r] \in Processes /\ Accounted(proc[r]) /\ Looked(proc[r])
         /\ \A x : proc' = [proc EXCEPT ![r] = x] => proc'[r] = x
  BY DEF ServeInv, ServeTypeOK, AccountInv

LEMMA GoesIsAccounted ==
  ASSUME ServeInv, AccountInv, NEW r \in Runs, NEW pc, Goes(r, pc),
         \/ proc[r].pc \in Early /\ pc \in Early
         \/ proc[r].pc \in AfterTheScan /\ pc \in AfterTheScan \ {"watching"}
  PROVE  Accounted(proc'[r])
  <1> DEFINE y == [proc[r] EXCEPT !.pc = pc]
  <1>1. proc[r] \in Processes /\ Accounted(proc[r])
    BY TheRunThatMoves
  <1>2. proc' = [proc EXCEPT ![r] = y]
    BY DEF Goes
  <1>3. /\ y.pc = pc /\ y.found = proc[r].found /\ y.fate = proc[r].fate
        /\ y.corpus = proc[r].corpus /\ y.at = proc[r].at
    BY <1>1 DEF Processes
  <1> HIDE DEF y
  <1>4. Accounted(y)
    BY <1>1, <1>3, GoingOnIsAccounted
  <1>5. QED
    BY <1>2, <1>4, TheRunThatMoves

LEMMA EndingIsAccounted ==
  ASSUME ServeInv, AccountInv, NEW r \in Runs, NEW pc \in {"ended", "killed"},
         proc' = [proc EXCEPT ![r] = Gone(pc)]
  PROVE  Accounted(proc'[r])
  <1>1. Accounted(Gone(pc))
    BY BeingOverIsAccounted DEF Early
  <1>2. QED
    BY <1>1, TheRunThatMoves

LEMMA OpenCacheIsAccounted ==
  ASSUME ServeInv, AccountInv, NEW r \in Runs, OpenCache(r)
  PROVE  Accounted(proc'[r])
  <1> DEFINE y == [proc[r] EXCEPT !.pc = "list", !.open = TRUE]
  <1>1. proc[r] \in Processes /\ Accounted(proc[r]) /\ proc[r].pc = "off"
    BY TheRunThatMoves DEF OpenCache
  <1>2. proc' = [proc EXCEPT ![r] = y]
    BY DEF OpenCache, ServeInv, ServeTypeOK
  <1>3. /\ y.pc = "list" /\ y.found = proc[r].found /\ y.fate = proc[r].fate
        /\ y.corpus = proc[r].corpus /\ y.at = proc[r].at
    BY <1>1 DEF Processes
  <1> HIDE DEF y
  <1>4. Accounted(y)
    BY <1>1, <1>3, GoingOnIsAccounted DEF Early
  <1>5. QED
    BY <1>2, <1>4, TheRunThatMoves

LEMMA ListingIsAccounted ==
  ASSUME ServeInv, AccountInv, NEW r \in Runs, Glob(r) \/ Sort(r)
  PROVE  Accounted(proc'[r])
  <1>1. proc[r] \in Processes /\ Accounted(proc[r]) /\ proc[r].pc \in Early
    BY TheRunThatMoves DEF Glob, Sort, Early
  <1>2. CASE Glob(r)
    <2>1. PICK s \in SetToSeqs(There) : proc' = [proc EXCEPT ![r].pc = "sort", ![r].found = s]
      BY <1>2 DEF Glob
    <2> DEFINE y == [proc[r] EXCEPT !.pc = "sort", !.found = s]
    <2>2. proc' = [proc EXCEPT ![r] = y]
      BY <2>1 DEF ServeInv, ServeTypeOK
    <2>3. y.pc = "sort" /\ y.found = s /\ y.fate = proc[r].fate /\ y.corpus = proc[r].corpus
      BY <1>1 DEF Processes
    <2>4. There \in SUBSET Plays
      BY DEF There
    <2> HIDE DEF y
    <2>5. Accounted(y)
      BY <1>1, <2>1, <2>3, <2>4, ListedIsAccounted
    <2>6. QED
      BY <2>2, <2>5, TheRunThatMoves
  <1>3. CASE Sort(r) /\ ~Ends(r)
    <2>1. PICK s \in NewestFirst(proc[r].found) :
            proc' = [proc EXCEPT ![r].pc = "replays", ![r].at = 1, ![r].found = s]
      BY <1>3 DEF Sort
    <2> DEFINE y == [proc[r] EXCEPT !.pc = "replays", !.at = 1, !.found = s]
    <2>2. proc' = [proc EXCEPT ![r] = y]
      BY <2>1 DEF ServeInv, ServeTypeOK
    <2>3. y.pc = "replays" /\ y.at = 1 /\ y.found = s /\ y.fate = proc[r].fate
          /\ y.corpus = proc[r].corpus
      BY <1>1 DEF Processes
    <2>4. Range(proc[r].found) \in SUBSET Plays /\ s \in SetToSeqs(Range(proc[r].found))
      BY <1>3, <2>1 DEF Sort, There, NewestFirst
    <2> HIDE DEF y
    <2>5. Accounted(y)
      BY <1>1, <2>3, <2>4, ListedIsAccounted
    <2>6. QED
      BY <2>2, <2>5, TheRunThatMoves
  <1>4. CASE Sort(r) /\ Ends(r)
    BY <1>4, EndingIsAccounted DEF Ends
  <1>5. QED
    BY <1>2, <1>3, <1>4

\* Settling the play at hand without its facts.
LEMMA PassingIsAccounted ==
  ASSUME ServeInv, AccountInv, NEW r \in Runs, proc[r].pc \in Scanning,
         proc[r].at \in DOMAIN proc[r].found, NEW p, p = proc[r].found[proc[r].at],
         NEW fate \in {"skipped", "vanished", "unanalysed"},
         proc' = [proc EXCEPT ![r] = Settles(r, p, fate)]
  PROVE  Accounted(proc'[r])
  <1> DEFINE x == proc[r]
             y == Settles(r, p, fate)
  <1>1. x \in Processes /\ Accounted(x) /\ ServeTypeOK
    BY TheRunThatMoves DEF ServeInv
  <1>2. fate \in Fates \ {"none"} /\ fate \notin Known
    BY DEF Fates, Known
  <1>3. p \in Plays
    BY <1>1 DEF Processes
  <1>4. /\ y.pc = "replays" /\ y.fate = [x.fate EXCEPT ![p] = fate] /\ y.corpus = x.corpus
    BY <1>1, <1>2, <1>3, SettlingIsTyped
  <1>5. y.at = x.at + 1 /\ y.found = x.found
    BY <1>1 DEF Settles, Processes
  <1>6. x.corpus[p] = NoFacts
    <2>1. x.at \in Nat
      BY <1>1 DEF Processes
    <2>2. x.fate[p] = "none"
      BY <1>1, <2>1 DEF Accounted
    <2>3. "none" \notin Known
      BY DEF Known
    <2>4. QED
      BY <1>1, <2>2, <2>3 DEF Accounted
  <1> HIDE DEF y
  <1>7. Accounted(y)
    BY <1>1, <1>2, <1>4, <1>5, <1>6, SettledIsAccounted DEF IsSettled
  <1>8. QED
    BY <1>7, TheRunThatMoves DEF y

\* Turning to the play at hand.
LEMMA TurningIsAccounted ==
  ASSUME ServeInv, AccountInv, NEW r \in Runs, proc[r].pc \in Scanning,
         proc[r].at \in DOMAIN proc[r].found, NEW p, p = proc[r].found[proc[r].at],
         NEW pc \in {"statted", "judged"}, NEW seen,
         proc' = [proc EXCEPT ![r] = [proc[r] EXCEPT !.pc = pc, !.play = p, !.seen = seen]]
  PROVE  Accounted(proc'[r])
  <1> DEFINE y == [proc[r] EXCEPT !.pc = pc, !.play = p, !.seen = seen]
  <1>1. proc[r] \in Processes /\ Accounted(proc[r])
    BY TheRunThatMoves
  <1>2. /\ y.pc = pc /\ y.play = p /\ y.found = proc[r].found /\ y.fate = proc[r].fate
        /\ y.corpus = proc[r].corpus /\ y.at = proc[r].at
    BY <1>1 DEF Processes
  <1> HIDE DEF y
  <1>3. Accounted(y)
    BY <1>1, <1>2, GoingOnIsAccounted
  <1>4. QED
    BY <1>3, TheRunThatMoves DEF y

LEMMA LookingAtIsAccounted ==
  ASSUME ServeInv, AccountInv, NEW r \in Runs, Judge(r) \/ StatTail(r) \/ JudgeTail(r)
  PROVE  Accounted(proc'[r])
  <1>1. proc[r] \in Processes /\ Accounted(proc[r]) /\ Looked(proc[r]) /\ r \in DOMAIN proc
    BY TheRunThatMoves DEF ServeInv, ServeTypeOK
  <1>2. CASE Judge(r) \/ StatTail(r)
    <2>1. /\ proc[r].pc \in Scanning /\ proc[r].at \in DOMAIN proc[r].found
          /\ Here(r) = proc[r].found[proc[r].at]
      BY <1>2 DEF Judge, StatTail, Turn, Here, Scanning
    <2>2. \/ \E fate \in {"skipped", "vanished"} : proc' = [proc EXCEPT ![r] = Settles(r, Here(r), fate)]
          \/ \E pc \in {"judged", "statted"} :
               proc' = [proc EXCEPT ![r] =
                          [proc[r] EXCEPT !.pc = pc, !.play = Here(r), !.seen = folder[Here(r)]]]
      <3>1. CASE Judge(r)
        <4>1. \/ proc' = [proc EXCEPT ![r] = Settles(r, Here(r), "skipped")]
              \/ proc' = [proc EXCEPT ![r].pc = "judged", ![r].play = Here(r), ![r].seen = folder[Here(r)]]
          BY <3>1, Zenon DEF Judge
        <4>2. [proc EXCEPT ![r].pc = "judged", ![r].play = Here(r), ![r].seen = folder[Here(r)]]
                = [proc EXCEPT ![r] =
                     [proc[r] EXCEPT !.pc = "judged", !.play = Here(r), !.seen = folder[Here(r)]]]
          BY <1>1
        <4>3. QED
          BY <4>1, <4>2, Zenon
      <3>2. CASE StatTail(r)
        <4>1. \/ proc' = [proc EXCEPT ![r] = Settles(r, Here(r), "vanished")]
              \/ proc' = [proc EXCEPT ![r] =
                            [proc[r] EXCEPT !.pc = "statted", !.play = Here(r), !.seen = folder[Here(r)]]]
          BY <3>2, Zenon DEF StatTail
        <4>2. QED
          BY <4>1, Zenon
      <3>3. QED
        BY <1>2, <3>1, <3>2
    <2>3. CASE \E fate \in {"skipped", "vanished"} : proc' = [proc EXCEPT ![r] = Settles(r, Here(r), fate)]
      BY <2>1, <2>3, PassingIsAccounted
    <2>4. CASE \E pc \in {"judged", "statted"} :
                 proc' = [proc EXCEPT ![r] =
                            [proc[r] EXCEPT !.pc = pc, !.play = Here(r), !.seen = folder[Here(r)]]]
      BY <2>1, <2>4, TurningIsAccounted
    <2>5. QED
      BY <2>2, <2>3, <2>4
  <1>3. CASE JudgeTail(r)
    <2> DEFINE p == proc[r].play
               y == [proc[r] EXCEPT !.pc = "judged", !.play = p, !.seen = folder[p]]
    <2>1. /\ proc[r].pc \in Scanning /\ proc[r].at \in DOMAIN proc[r].found
          /\ p = proc[r].found[proc[r].at]
      BY <1>1, <1>3 DEF JudgeTail, Accounted, Scanning
    <2>2. \/ proc' = [proc EXCEPT ![r] = Settles(r, p, "unanalysed")]
          \/ proc' = [proc EXCEPT ![r].pc = "judged", ![r].seen = folder[p]]
      BY <1>3, Zenon DEF JudgeTail
    <2>3. [proc EXCEPT ![r].pc = "judged", ![r].seen = folder[p]] = [proc EXCEPT ![r] = y]
      <3>1. [proc[r] EXCEPT !.pc = "judged", !.seen = folder[p]] = y
        BY <1>1 DEF Processes
      <3>2. [proc EXCEPT ![r].pc = "judged", ![r].seen = folder[p]]
              = [proc EXCEPT ![r] = [proc[r] EXCEPT !.pc = "judged", !.seen = folder[p]]]
        BY <1>1
      <3>3. QED
        BY <3>1, <3>2, Zenon
    <2>4. CASE proc' = [proc EXCEPT ![r] = Settles(r, p, "unanalysed")]
      BY <2>1, <2>4, PassingIsAccounted
    <2>5. CASE proc' = [proc EXCEPT ![r] = y]
      BY <2>1, <2>5, TurningIsAccounted
    <2>6. QED
      BY <2>2, <2>3, <2>4, <2>5, Zenon
  <1>4. QED
    BY <1>2, <1>3

\* Settling the play at hand with its facts: they are some.
LEMMA KnowingIsAccounted ==
  ASSUME ServeInv, AccountInv, NEW r \in Runs, proc[r].pc \in {"statted", "judged"},
         NEW fate \in Known, NEW facts \in Facts, facts # NoFacts, NEW y,
         LET x == Settles(r, proc[r].play, fate)
         IN /\ y.pc = x.pc /\ y.at = x.at /\ y.found = x.found /\ y.fate = x.fate
            /\ y.corpus = [x.corpus EXCEPT ![proc[r].play] = facts],
         proc' = [proc EXCEPT ![r] = y]
  PROVE  Accounted(proc'[r])
  <1> DEFINE x == proc[r]
             p == x.play
             z == Settles(r, p, fate)
  <1>1. x \in Processes /\ Accounted(x) /\ ServeTypeOK
    BY TheRunThatMoves DEF ServeInv
  <1>2. fate \in Fates \ {"none"} /\ x.pc \in Scanning
    BY DEF Fates, Known, Scanning
  <1>3. x.at \in DOMAIN x.found /\ p = x.found[x.at]
    BY <1>1 DEF Accounted
  <1>4. p \in Plays /\ x.corpus \in [Plays -> Facts]
    BY <1>1, <1>3 DEF Processes
  <1>5. /\ z.pc = "replays" /\ z.fate = [x.fate EXCEPT ![p] = fate] /\ z.corpus = x.corpus
    BY <1>1, <1>2, <1>4, SettlingIsTyped
  <1>6. z.at = x.at + 1 /\ z.found = x.found
    BY <1>1 DEF Settles, Processes
  <1>7. /\ y.pc = z.pc /\ y.at = z.at /\ y.found = z.found /\ y.fate = z.fate
        /\ y.corpus = [z.corpus EXCEPT ![p] = facts]
    OBVIOUS
  <1> HIDE DEF z
  <1>8. y.corpus[p] = facts /\ \A q \in Plays : q # p => y.corpus[q] = x.corpus[q]
    BY <1>4, <1>5, <1>7
  <1>9. IsSettled(x, y, p, fate)
    BY <1>5, <1>6, <1>7, <1>8 DEF IsSettled
  <1> HIDE DEF x, p
  <1>10. Accounted(y)
    BY <1>1, <1>2, <1>3, <1>9, SettledIsAccounted, Zenon
  <1>11. QED
    BY <1>10, TheRunThatMoves

LEMMA RestoreIsAccounted ==
  ASSUME ServeInv, AccountInv, NEW r \in Runs, Restore(r)
  PROVE  Accounted(proc'[r])
  <1> DEFINE p == proc[r].play
             x == Settles(r, p, "restored")
             y == [x EXCEPT !.corpus[p] = cache[p].facts]
  <1>1. p \in Plays /\ proc[r].pc = "statted" /\ cache[p].facts # NoFacts
    BY DEF Restore, Restorable, ServeInv, Looked
  <1>2. cache[p].facts \in Facts /\ "restored" \in Known /\ "restored" \in Fates
    BY <1>1 DEF ServeInv, ServeTypeOK, Rows, Known, Fates
  <1>3. proc' = [proc EXCEPT ![r] = y]
    BY Zenon DEF Restore, Restored
  <1>4. x \in Processes
    BY <1>1, <1>2, SettlingIsTyped DEF ServeInv
  <1>5. /\ y.pc = x.pc /\ y.at = x.at /\ y.found = x.found /\ y.fate = x.fate
        /\ y.corpus = [x.corpus EXCEPT ![p] = cache[p].facts]
    <2> HIDE DEF x, p
    <2>1. QED
      BY <1>4 DEF Processes
  <1> HIDE DEF y
  <1>6. QED
    BY <1>1, <1>2, <1>3, <1>5, KnowingIsAccounted

LEMMA RememberIsAccounted ==
  ASSUME ServeInv, AccountInv, NEW r \in Runs, Remember(r)
  PROVE  Accounted(proc'[r])
  <1> DEFINE p == proc[r].play
             fate == IF InHead(r) THEN "prepared" ELSE "backfilled"
             x == Settles(r, p, fate)
             y == [x EXCEPT !.corpus[p] = FactsInHand(r),
                            !.payloads = IF InHead(r) THEN @ \cup {p} ELSE @]
  <1>1. p \in Plays /\ proc[r].pc = "judged" /\ proc[r].seen > 0
    BY DEF Remember, ServeInv, Looked
  <1>2. CASE folder[p] = 0
    <2>1. proc' = [proc EXCEPT ![r] = Gone("ended")]
      BY <1>2, Zenon DEF Remember
    <2>2. QED
      BY <2>1, EndingIsAccounted
  <1>3. CASE folder[p] # 0
    <2>1. proc' = [proc EXCEPT ![r] = y]
      BY <1>3, Zenon DEF Remember
    <2>2. FactsInHand(r) \in Facts /\ FactsInHand(r) # NoFacts
      <3>1. FactsInHand(r).of = proc[r].seen /\ NoFacts.of = 0
        BY DEF FactsInHand, NoFacts
      <3>2. FactsInHand(r).of # NoFacts.of
        BY <1>1, <3>1
      <3>3. QED
        BY <3>2, FactsAreTyped
    <2>3. fate \in Known /\ fate \in Fates
      BY DEF Known, Fates
    <2> HIDE DEF fate
    <2>4. x \in Processes
      BY <1>1, <2>3, SettlingIsTyped DEF ServeInv
    <2>5. /\ y.pc = x.pc /\ y.at = x.at /\ y.found = x.found /\ y.fate = x.fate
          /\ y.corpus = [x.corpus EXCEPT ![p] = FactsInHand(r)]
      <3> HIDE DEF x, p
      <3>1. QED
        BY <2>4 DEF Processes
    <2> HIDE DEF y
    <2>6. QED
      BY <1>1, <2>1, <2>2, <2>3, <2>5, KnowingIsAccounted
  <1>4. QED
    BY <1>2, <1>3

LEMMA PortIsAccounted ==
  ASSUME ServeInv, AccountInv, NEW r \in Runs, CheckPort(r)
  PROVE  Accounted(proc'[r])
  <1>1. PICK o \in Ports :
          proc' = [proc EXCEPT ![r] = IF o \notin Reserved /\ bound[o] = Nobody
                                      THEN [proc[r] EXCEPT !.pc = "checked", !.port = o]
                                      ELSE Gone("ended")]
    BY Zenon DEF CheckPort
  <1> DEFINE y == [proc[r] EXCEPT !.pc = "checked", !.port = o]
  <1>2. proc[r] \in Processes /\ Accounted(proc[r]) /\ proc[r].pc = "ready"
    BY TheRunThatMoves DEF CheckPort
  <1>3. /\ y.pc = "checked" /\ y.found = proc[r].found /\ y.fate = proc[r].fate
        /\ y.corpus = proc[r].corpus /\ y.at = proc[r].at
    BY <1>2 DEF Processes
  <1>4. proc' = [proc EXCEPT ![r] = y] \/ proc' = [proc EXCEPT ![r] = Gone("ended")]
    BY <1>1, Zenon
  <1> HIDE DEF y
  <1>5. Accounted(y)
    BY <1>2, <1>3, GoingOnIsAccounted DEF AfterTheScan
  <1>6. CASE proc' = [proc EXCEPT ![r] = y]
    BY <1>5, <1>6, TheRunThatMoves
  <1>7. CASE proc' = [proc EXCEPT ![r] = Gone("ended")]
    BY <1>7, EndingIsAccounted
  <1>8. QED
    BY <1>4, <1>6, <1>7

LEMMA ServingIsAccounted ==
  ASSUME ServeInv, AccountInv, NEW r \in Runs,
         CacheUnavailable(r) \/ Refuse(r) \/ Ready(r) \/ WriteRuntimeFile(r) \/ Bind(r)
           \/ Interrupt(r) \/ Unlink(r) \/ Kill(r)
  PROVE  Accounted(proc'[r])
  <1>1. CASE \E pc \in {"ended", "killed"} : proc' = [proc EXCEPT ![r] = Gone(pc)]
    BY <1>1, EndingIsAccounted
  <1>2. CASE Ready(r) /\ Goes(r, "ready")
    <2> DEFINE y == [proc[r] EXCEPT !.pc = "ready"]
    <2>1. /\ proc[r] \in Processes /\ Accounted(proc[r])
          /\ proc[r].pc = "replays" /\ proc[r].at > Len(proc[r].found)
      BY <1>2, TheRunThatMoves DEF Ready
    <2>2. proc' = [proc EXCEPT ![r] = y]
      BY <1>2 DEF Goes
    <2>3. /\ y.pc = "ready" /\ y.found = proc[r].found /\ y.fate = proc[r].fate
          /\ y.corpus = proc[r].corpus
      BY <2>1 DEF Processes
    <2> HIDE DEF y
    <2>4. Accounted(y)
      BY <2>1, <2>3, FinishedIsAccounted
    <2>5. QED
      BY <2>2, <2>4, TheRunThatMoves
  <1>3. CASE CacheUnavailable(r)
    <2>1. proc[r].pc \in Early /\ "list" \in Early /\ Goes(r, "list")
      BY <1>3 DEF CacheUnavailable, Early
    <2>2. QED
      BY <2>1, GoesIsAccounted
  <1>4. CASE \E pc \in {"published", "serving", "stopping"} :
               Goes(r, pc) /\ proc[r].pc \in {"checked", "published", "serving"}
    <2>1. PICK pc \in {"published", "serving", "stopping"} :
            Goes(r, pc) /\ proc[r].pc \in {"checked", "published", "serving"}
      BY <1>4
    <2>2. proc[r].pc \in AfterTheScan /\ pc \in AfterTheScan \ {"watching"}
      BY <2>1 DEF AfterTheScan
    <2>3. QED
      BY <2>1, <2>2, GoesIsAccounted
  <1>5. \/ \E pc \in {"ended", "killed"} : proc' = [proc EXCEPT ![r] = Gone(pc)]
        \/ Ready(r) /\ Goes(r, "ready")
        \/ CacheUnavailable(r)
        \/ \E pc \in {"published", "serving", "stopping"} :
             Goes(r, pc) /\ proc[r].pc \in {"checked", "published", "serving"}
    BY Zenon DEF Refuse, Ready, WriteRuntimeFile, Bind, Interrupt, Unlink, Kill, Ends
  <1>6. QED
    BY <1>1, <1>2, <1>3, <1>4, <1>5

\* A play that finished later is not one that was listed.
LEMMA WatchingIsAccounted ==
  ASSUME ServeInv, AccountInv, NEW r \in Runs, JudgeNew(r) \/ RememberNew(r)
  PROVE  Accounted(proc'[r])
  <1>1. proc[r] \in Processes /\ Accounted(proc[r]) /\ Looked(proc[r]) /\ r \in DOMAIN proc
    BY TheRunThatMoves DEF ServeInv, ServeTypeOK
  <1>2. CASE JudgeNew(r)
    <2>1. PICK p \in There \ Range(proc[r].found) :
            proc' = [proc EXCEPT ![r].pc = "watching", ![r].play = p, ![r].seen = folder[p]]
      BY <1>2 DEF JudgeNew
    <2> DEFINE y == [proc[r] EXCEPT !.pc = "watching", !.play = p, !.seen = folder[p]]
    <2>2. proc' = [proc EXCEPT ![r] = y]
      BY <1>1, <2>1
    <2>3. /\ y.pc = "watching" /\ y.play = p /\ y.found = proc[r].found /\ y.fate = proc[r].fate
          /\ y.corpus = proc[r].corpus /\ y.at = proc[r].at
      BY <1>1 DEF Processes
    <2>4. \A i \in DOMAIN proc[r].found : proc[r].found[i] # p
      BY <2>1 DEF Range
    <2> HIDE DEF y
    <2>5. proc[r].pc \in AfterTheScan /\ y.pc \in AfterTheScan
      BY <1>2, <2>3 DEF JudgeNew, AfterTheScan
    <2>6. Accounted(y)
      BY <1>1, <2>3, <2>4, <2>5, GoingOnIsAccounted
    <2>7. QED
      BY <2>2, <2>6, TheRunThatMoves
  <1>3. CASE RememberNew(r)
    <2> DEFINE p == proc[r].play
               x == proc[r]
               corpus == [x.corpus EXCEPT ![p] = FactsInHand(r)]
               y == [x EXCEPT !.corpus[p] = FactsInHand(r)]
               z == [y EXCEPT !.pc = "serving", !.play = Nobody, !.seen = 0]
    <2>1. proc' = [proc EXCEPT ![r] = z]
      BY <1>3, Zenon DEF RememberNew, Told
    <2>2. /\ z.pc = "serving" /\ z.found = x.found /\ z.fate = x.fate
          /\ z.corpus = corpus /\ z.at = x.at
      BY <1>1 DEF Processes
    <2>3. x.pc = "watching" /\ x.corpus \in [Plays -> Facts]
      BY <1>1, <1>3 DEF RememberNew, Processes
    <2>4. \A i \in DOMAIN x.found : x.found[i] \in Plays /\ x.found[i] # p
      BY <1>1, <2>3 DEF Accounted, Processes
    <2>5. \A i \in DOMAIN x.found : corpus[x.found[i]] = x.corpus[x.found[i]]
      BY <2>3, <2>4
    <2> HIDE DEF z, corpus, x
    <2>6. Accounted(z)
      BY <1>1, <2>2, <2>3, <2>5 DEF Accounted, Early, Scanning, AfterTheScan, x
    <2>7. QED
      BY <2>1, <2>6, TheRunThatMoves
  <1>4. QED
    BY <1>2, <1>3

LEMMA AccountIsKept == ServeInv /\ AccountInv /\ [ServeNext]_vars => AccountInv'
  <1>1. SUFFICES ASSUME ServeInv, AccountInv, [ServeNext]_vars PROVE AccountInv'
    OBVIOUS
  <1>2. ASSUME NEW r \in Runs, Serve(r) \/ Kill(r) PROVE AccountInv'
    <2>1. Accounted(proc'[r])
      BY <1>1, <1>2, OpenCacheIsAccounted, ListingIsAccounted, LookingAtIsAccounted,
         RestoreIsAccounted, RememberIsAccounted, PortIsAccounted, ServingIsAccounted,
         WatchingIsAccounted DEF Serve
    <2>2. \A q \in Runs : q # r => proc'[q] = proc[q]
      BY <1>1, <1>2, RunKeepsCore
    <2>3. \A q \in Runs : Accounted(proc'[q])
      BY <1>1, <2>1, <2>2 DEF AccountInv
    <2>4. QED
      BY <2>3 DEF AccountInv, Accounted
  <1>3. ASSUME UNCHANGED proc PROVE AccountInv'
    BY <1>1, <1>3 DEF AccountInv, Accounted
  <1>4. ASSUME NEW p \in Plays, WriteReplay(p) \/ DeleteReplay(p) PROVE AccountInv'
    BY <1>3, <1>4 DEF WriteReplay, DeleteReplay
  <1>5. CASE UNCHANGED vars
    BY <1>3, <1>5 DEF vars
  <1>6. QED
    BY <1>1, <1>2, <1>4, <1>5 DEF ServeNext

\* cli.py, the loops of serve and its "history:" line: for any folder, limit and
\* backfill, whichever files vanish, rows are malformed and runs overlap, every
\* replay a start listed has met one fate, and is in the corpus when it says so.
THEOREM ListedPlaysAreAccountedFor == ServeSpec => []EveryListedPlayIsAccountedFor
  <1>1. ServeInit => AccountInv
    <2>1. Accounted(AtStart)
      BY DEF Accounted, AtStart, Early, Scanning, AfterTheScan
    <2>2. QED
      BY <2>1 DEF ServeInit, AccountInv
  <1>2. ServeInv /\ AccountInv => EveryListedPlayIsAccountedFor
    BY DEF AccountInv, Accounted, EveryListedPlayIsAccountedFor, Known, Range
  <1>3. QED
    BY <1>1, <1>2, AccountIsKept, ServeInvariant, PTL DEF ServeSpec
=============================================================================
