-------------------------------- MODULE Page --------------------------------
(***************************************************************************)
(* The page: the effects of App.tsx over the client of protocol.ts.        *)
(*                                                                         *)
(* A page carries the token of the run it was loaded from.  It fetches the *)
(* list, keeps a WebSocket open and reopens it after a growing delay, and  *)
(* loads the play that is selected.  Every response is a step of its own,  *)
(* so it may arrive after the page has moved on.  The corpus panel and     *)
(* the playback clock are left out.                                        *)
(***************************************************************************)
EXTENDS PageServer

CONSTANTS
  Nothing,     \* null
  MaxDelay,    \* the longest wait before a reconnect, in seconds
  MaxDrops,    \* bound: connections that drop under a running server
  MaxLoads     \* bound: replays loaded over the life of the page

ASSUME NothingAssumption == Nothing \notin Names
ASSUME DelayAssumption == MaxDelay \in Nat \ {0}

VARIABLES
  token,      \* the run the page was loaded from, 0 before that
  link,       \* the WebSocket: none, connecting, open, dropped, waiting
  delay,      \* seconds until the next attempt
  drops,      \* connections dropped so far
  inbox,      \* replay events on their way to the page
  lists,      \* the list requests: how far each is, and the names it brought
  entries, selected, arrived,   \* the state of App
  view,       \* which panel is shown: "replay" or "corpus"
  hash,       \* location.hash: Nothing, "#corpus" or a play's name
  loads,      \* every load of this page, the last one for what is selected
  loaded      \* which of them is shown, 0 for none

netVars == <<link, delay, drops, inbox>>
loadVars == <<loads, loaded>>
listVars == <<lists, entries, selected, arrived, view, hash>>
pageVars == <<serverVars, netVars, listVars, token, loadVars>>

ListIds == 1..2

PageInit ==
  /\ ServerInit
  /\ token = 0
  /\ link = "none" /\ delay = 1 /\ drops = 0 /\ inbox = <<>>
  /\ lists = [i \in ListIds |-> [state |-> "unsent", found |-> <<>>]]
  /\ entries = <<>> /\ selected = Nothing /\ arrived = Nothing
  /\ view = "replay" /\ hash = Nothing
  /\ loads = <<>> /\ loaded = 0

\* The server answers this page: it is the run whose token the page has.
Authorised == up /\ token = run

\* The hash effect: the address mirrors the view.
Mirror(v, sel) == hash' = IF v = "corpus" THEN "#corpus" ELSE sel

\* The page is opened, perhaps on a link to the corpus or to a play.  All
\* effects of the first render run: the list is fetched, the address mirrored,
\* which takes the name of a play off it, the socket opened.
OpenPage ==
  /\ token = 0
  /\ up
  /\ token' = run
  /\ view' \in {"replay", "corpus"}
  /\ Mirror(view', selected)
  \* A browser locale other than the default changes `t`, and with it the
  \* list effect runs a second time.
  /\ \E n \in ListIds :
       lists' = [i \in ListIds |-> IF i <= n THEN [lists[i] EXCEPT !.state = "sent"]
                                            ELSE lists[i]]
  /\ link' = "connecting"
  /\ UNCHANGED <<serverVars, delay, drops, inbox, entries, selected, arrived, loadVars>>

-----------------------------------------------------------------------------
\* protocol.ts watch().

\* The handshake: refused by a server that is gone or has another token.
Handshake ==
  /\ link = "connecting"
  /\ IF Authorised THEN link' = "open" /\ delay' = 1
                   ELSE link' = "dropped" /\ UNCHANGED delay
  /\ UNCHANGED <<serverVars, drops, inbox, listVars, token, loadVars>>

\* The connection, or the attempt at one, fails with the server still there.
Drop ==
  /\ link \in {"connecting", "open"}
  /\ drops < MaxDrops
  /\ drops' = drops + 1
  /\ link' = "dropped"
  /\ UNCHANGED <<serverVars, delay, inbox, listVars, token, loadVars>>

\* Mutant: only a connection that had been open is opened again.
OnCloseGivesUp ==
  /\ link = "dropped"
  /\ inbox = <<>>
  /\ link' = IF delay = 1 THEN "waiting" ELSE "none"
  /\ delay' = IF 2 * delay < MaxDelay THEN 2 * delay ELSE MaxDelay
  /\ UNCHANGED <<serverVars, drops, inbox, listVars, token, loadVars>>

\* The close event, after the messages that had arrived.
OnClose ==
  /\ link = "dropped"
  /\ inbox = <<>>
  /\ link' = "waiting"
  /\ delay' = IF 2 * delay < MaxDelay THEN 2 * delay ELSE MaxDelay
  /\ UNCHANGED <<serverVars, drops, inbox, listVars, token, loadVars>>

Reconnect ==
  /\ link = "waiting"
  /\ link' = "connecting"
  /\ UNCHANGED <<serverVars, delay, drops, inbox, listVars, token, loadVars>>

\* `if (existing.some((item) => item.name === entry.name)) return existing;`
Insert(p) ==
  entries' = IF p \in ToSet(entries) THEN entries ELSE <<p>> \o entries

OnReplay ==
  /\ inbox # <<>>
  /\ inbox' = Tail(inbox)
  /\ Insert(Head(inbox))
  /\ arrived' = Head(inbox)
  /\ UNCHANGED <<serverVars, link, delay, drops, lists, selected, view, hash,
                 token, loadVars>>

-----------------------------------------------------------------------------
\* The load effect and protocol.ts load(): a header, then frames and paths
\* beside the background image.

NewLoad(p) ==
  [name |-> p, body |-> "header", blob |-> "pending", cancelled |-> FALSE]

\* Mutant: what is still loading is cancelled, but a URL is never revoked.
CancelsOnly(all) ==
  IF all = <<>> THEN all
  ELSE ReplaceAt(all, Len(all), [all[Len(all)] EXCEPT !.cancelled = TRUE])

\* The effect's cleanup: what is still loading is cancelled, and the object
\* URL is revoked if the load had got as far as handing it over.
Cleanup(all) ==
  IF all = <<>> THEN all
  ELSE LET last == all[Len(all)]
           kept == IF last.body = "shown" /\ last.blob = "made"
                     THEN [last EXCEPT !.blob = "revoked", !.cancelled = TRUE]
                     ELSE [last EXCEPT !.cancelled = TRUE]
       IN ReplaceAt(all, Len(all), kept)

\* setSelected: the effect runs again when the value is another one.
Select(p) ==
  /\ selected' = p
  /\ IF p = selected THEN UNCHANGED loadVars
     ELSE /\ Len(loads) < MaxLoads
          /\ loads' = Append(Cleanup(loads), NewLoad(p))
          /\ loaded' = 0

Header(i) ==
  /\ loads[i].body = "header"
  /\ loads' = [loads EXCEPT ![i].body = IF Authorised THEN "body" ELSE "rejected"]
  /\ UNCHANGED <<serverVars, netVars, listVars, token, loaded>>

\* fetch().then(createObjectURL).catch(null): never fatal, and not called off
\* when frames or paths reject the load.
Background(i) ==
  /\ loads[i].body \in {"body", "ready", "rejected late"}
  /\ loads[i].blob = "pending"
  /\ \E b \in IF Authorised THEN {"none", "made"} ELSE {"none"} :
       loads' = [loads EXCEPT ![i].blob = b]
  /\ UNCHANGED <<serverVars, netVars, listVars, token, loaded>>

Body(i) ==
  /\ loads[i].body = "body"
  /\ loads' = [loads EXCEPT ![i].body = IF Authorised THEN "ready" ELSE "rejected late"]
  /\ UNCHANGED <<serverVars, netVars, listVars, token, loaded>>

\* Mutant: a load that was cancelled is shown all the same.
ShowsWhateverArrives(i) ==
  /\ loads[i].body = "ready"
  /\ loads[i].blob # "pending"
  /\ loads' = [loads EXCEPT ![i].body = "shown"]
  /\ loaded' = i
  /\ UNCHANGED <<serverVars, netVars, listVars, token>>

\* Promise.all is fulfilled: shown, or revoked when the page has moved on.
Show(i) ==
  /\ loads[i].body = "ready"
  /\ loads[i].blob # "pending"
  /\ IF loads[i].cancelled
       THEN /\ loads' = [loads EXCEPT ![i].body = "dropped",
                                      ![i].blob = IF @ = "made" THEN "revoked" ELSE @]
            /\ UNCHANGED loaded
       ELSE /\ loads' = [loads EXCEPT ![i].body = "shown"]
            /\ loaded' = i
  /\ UNCHANGED <<serverVars, netVars, listVars, token>>

-----------------------------------------------------------------------------
\* The list effect.

\* The server reads `payloads`, or refuses the token.
AnswerList(i) ==
  /\ lists[i].state = "sent"
  /\ lists' = [lists EXCEPT ![i] = IF Authorised THEN [state |-> "answered", found |-> served]
                                                 ELSE [state |-> "failed", found |-> <<>>]]
  /\ UNCHANGED <<serverVars, netVars, token, entries, selected, arrived, view,
                 hash, loadVars>>

\* What to open on: the play the address names, else the first of the list.
ListArrives(i) ==
  /\ lists[i].state = "answered"
  /\ LET found == lists[i].found
     IN /\ entries' = found
        /\ Select(IF hash \in ToSet(found) THEN hash ELSE Head(found))
        /\ Mirror(view, selected')
  /\ lists' = [lists EXCEPT ![i] = [state |-> "done", found |-> <<>>]]
  /\ UNCHANGED <<serverVars, netVars, token, arrived, view>>

\* A click on a play of the list.
Click(p) ==
  /\ p \in ToSet(entries)
  /\ Select(p)
  /\ view' = "replay"
  /\ Mirror("replay", p)
  /\ UNCHANGED <<serverVars, netVars, token, lists, entries, arrived>>

\* The two panels.
ShowCorpus ==
  /\ token # 0
  /\ view = "replay"
  /\ view' = "corpus"
  /\ Mirror("corpus", selected)
  /\ UNCHANGED <<serverVars, netVars, token, lists, entries, selected, arrived,
                 loadVars>>

-----------------------------------------------------------------------------
\* The server's runs and the plays of the player, as they reach the page: a
\* new play is broadcast to an open connection, and a server that stops takes
\* the connection with it.
Plays(p) ==
  /\ Finish(p)
  /\ inbox' = IF up /\ link = "open" THEN Append(inbox, p) ELSE inbox
  /\ UNCHANGED <<link, delay, drops, listVars, token, loadVars>>

Stops ==
  /\ Stop
  /\ link' = IF link = "open" THEN "dropped" ELSE link
  /\ UNCHANGED <<delay, drops, inbox, listVars, token, loadVars>>

Restarts ==
  /\ Restart
  /\ UNCHANGED <<netVars, listVars, token, loadVars>>

Network == Handshake \/ OnClose \/ Reconnect \/ OnReplay

Responses ==
  \/ \E i \in ListIds : AnswerList(i) \/ ListArrives(i)
  \/ \E i \in DOMAIN loads : Header(i) \/ Background(i) \/ Body(i) \/ Show(i)

User == OpenPage \/ ShowCorpus \/ (\E p \in Names : Click(p))

Environment == Drop \/ Stops \/ Restarts \/ (\E p \in Names : Plays(p))

PageNext == Network \/ Responses \/ User \/ Environment

PageSpec == PageInit /\ [][PageNext]_pageVars
\* The browser delivers events and runs timers; a request has some outcome.
\* Nothing obliges the user, the player or whoever runs the server.
PageFairness == WF_pageVars(Network) /\ WF_pageVars(Responses)
PageFairSpec == PageSpec /\ PageFairness

-----------------------------------------------------------------------------
\* However late its answer comes, the replay on screen is the selected one,
\* and the address names what is shown.
TheSelectedPlayIsShown ==
  /\ loaded # 0 => loaded = Len(loads) /\ loads[loaded].name = selected
  /\ view = "replay" => hash = selected

\* App.tsx: the object URLs of plays browsed before are revoked.  Only the one
\* of the load in progress or on screen is alive, and those of loads that were
\* rejected, which the page never hears of; the one on screen is never revoked.
BackgroundsAreRevoked ==
  /\ \A i \in DOMAIN loads :
       loads[i].blob = "made" => i = Len(loads) \/ loads[i].body \in {"body", "ready", "rejected late"}
  /\ loaded # 0 => loads[loaded].blob # "revoked"

\* protocol.ts: a connection that drops is opened again, for as long as the
\* server the page came from is there.
ComesBackToItsServer ==
  <>[](up /\ token = run) => <>[](link = "open")

\* protocol.ts: "the server restarting is the ordinary reason this drops, and a
\* page that silently stops updating after that is the failure this whole
\* feature exists to remove".
ComesBackAfterARestart ==
  <>[](up /\ token # 0) => <>[](link = "open")

=============================================================================
