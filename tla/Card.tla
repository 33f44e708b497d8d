-------------------------------- MODULE Card --------------------------------
(***************************************************************************)
(* The Lovelace cards of one browser window (JablotronAccountCard): each   *)
(* shows whether its account has saved a code for its entity, lets the     *)
(* account save, forget or use it, and tells the others with a window      *)
(* event.  Requests are answered late or not at all, while Home Assistant  *)
(* may attach and detach a card, hand it another user or another entity;   *)
(* the _revision a request was sent under tells a late answer.             *)
(*                                                                         *)
(* The server commits a write in one step here (CodeStore has its steps)   *)
(* and is the only thing that knows: another window's writes are left out. *)
(* Home Assistant hands a card its user before it attaches it or after.    *)
(***************************************************************************)
EXTENDS FiniteSets, Naturals

CONSTANTS
  Cards,
  Manager,      \* the cards that manage the code; the others use it to disarm
  Account, Entity,
  MaxResets,    \* bound: how often cards are attached anew, reassigned or detached
  MaxRequests,  \* bound: requests of one card under way
  None

ASSUME CardAssumption ==
  /\ Manager \subseteq Cards
  /\ MaxResets \in Nat /\ MaxRequests \in Nat \ {0}

VARIABLES
  stored,    \* the server: the <<account, entity>> with a saved code
  card,      \* the state of each card
  requests,  \* requests on their way, and answers
  resets,    \* counts for the bound
  unheard    \* history: where a write succeeded and its card could not tell

vars == <<stored, card, requests, resets, unheard>>

Pair == Account \X Entity
Shown == [saved : BOOLEAN, personal : BOOLEAN, of : Pair]  \* of: history, whose data this is
Reply == {"error", "saved", "missing", "done", None}

ASSUME NoneAssumption ==
  None \notin Account \cup Shown \cup {"error", "saved", "missing", "done"}

CardState ==
  [account : Account \cup {None}, entity : Entity, connected : BOOLEAN,
   loaded : BOOLEAN, loadFailed : BOOLEAN, busy : BOOLEAN, refreshPending : BOOLEAN,
   shown : Shown \cup {None}]   \* None: _saved is null

\* "current": it was sent under the card's present _revision.
Request ==
  [card : Cards, id : 1 .. MaxRequests, op : {"status", "save", "remove", "disarm"},
   of : Pair, current : BOOLEAN, reply : Reply]

TypeOK ==
  /\ stored \subseteq Pair /\ unheard \subseteq Pair
  /\ card \in [Cards -> CardState]
  /\ \A c \in Cards : card[c].refreshPending => card[c].busy
  /\ requests \subseteq Request
  /\ resets \in 0 .. MaxResets

Init ==
  /\ stored \in SUBSET Pair
  /\ \E a \in Account, e \in Entity :
       card = [c \in Cards |->
                 [account |-> a, entity |-> e, connected |-> FALSE, loaded |-> FALSE,
                  loadFailed |-> FALSE, busy |-> FALSE, refreshPending |-> FALSE,
                  shown |-> None]]
  /\ requests = {} /\ resets = 0 /\ unheard = {}

PairOf(s) == <<s.account, s.entity>>

Sent(c) == {r \in requests : r.card = c}

\* The ids that are free, given the requests under way, and a request with one of them.
FreeIds(c, others) == (1 .. MaxRequests) \ {r.id : r \in {q \in others : q.card = c}}
NewRequest(c, op, s, others) ==
  [card |-> c, id |-> CHOOSE i \in FreeIds(c, others) : TRUE,
   op |-> op, of |-> PairOf(s), current |-> TRUE, reply |-> None]

-----------------------------------------------------------------------------
(* _load and _reset *)

MayLoad(s) == s.account # None /\ ~s.busy

\* (mutant) a load leaves the card free to do something else
LoadingFree(s) == [s EXCEPT !.loadFailed = FALSE]

Loading(s) == [s EXCEPT !.busy = TRUE, !.loadFailed = FALSE]

\* (mutant) a refresh that waits survives the reset
ResetKeepsPending(s) ==
  [s EXCEPT !.loaded = FALSE, !.loadFailed = FALSE, !.busy = FALSE, !.shown = None]

\* (mutant) a card that was loaded once is not loaded again
ResetKeepsLoaded(s) ==
  [s EXCEPT !.loadFailed = FALSE, !.busy = FALSE, !.refreshPending = FALSE, !.shown = None]

Reset(s) ==
  [s EXCEPT !.loaded = FALSE, !.loadFailed = FALSE, !.busy = FALSE,
            !.refreshPending = FALSE, !.shown = None]

\* (mutant) the reset keeps the _revision
OrphanedNot(c) == requests

\* The reset's _revision++.
Orphaned(c) ==
  {IF r.card = c THEN [r EXCEPT !.current = FALSE] ELSE r : r \in requests}

\* What setConfig, the setter of hass and connectedCallback end with.
LoadFirst(c, s, others) ==
  IF s.account # None /\ ~s.loaded
  THEN /\ FreeIds(c, others) # {}
       /\ card' = [card EXCEPT ![c] = Loading([s EXCEPT !.loaded = TRUE])]
       /\ requests' = others \cup {NewRequest(c, "status", s, others)}
  ELSE card' = [card EXCEPT ![c] = s] /\ requests' = others

\* bound
Resets == resets < MaxResets /\ resets' = resets + 1

ServerUnchanged == UNCHANGED <<stored, unheard>>

\* setConfig with another entity.
SetConfig(c) ==
  /\ card[c].connected
  /\ \E e \in Entity \ {card[c].entity} :
       LoadFirst(c, [Reset(card[c]) EXCEPT !.entity = e], Orphaned(c))
  /\ Resets /\ ServerUnchanged

\* The setter of hass with another user, or another connection of the same one.
SetHass(c) ==
  /\ card[c].connected
  /\ \E a \in Account \cup {None} :
       LoadFirst(c, [Reset(card[c]) EXCEPT !.account = a], Orphaned(c))
  /\ Resets /\ ServerUnchanged

ConnectedCallback(c) ==
  /\ ~card[c].connected
  /\ LoadFirst(c, [card[c] EXCEPT !.connected = TRUE], requests)
  /\ UNCHANGED resets /\ ServerUnchanged

DisconnectedCallback(c) ==
  /\ card[c].connected
  /\ card' = [card EXCEPT ![c] = [Reset(card[c]) EXCEPT !.connected = FALSE]]
  /\ requests' = Orphaned(c)
  /\ Resets /\ ServerUnchanged

-----------------------------------------------------------------------------
(* What the user presses *)

Ready(s) == s.shown # None /\ s.account # None

\* A request of a card that is not busy.
Send(c, op) ==
  /\ ~card[c].busy /\ FreeIds(c, requests) # {}
  /\ card' = [card EXCEPT ![c].busy = TRUE]
  /\ requests' = requests \cup {NewRequest(c, op, card[c], requests)}
  /\ UNCHANGED resets /\ ServerUnchanged

\* _save of four digits, and _remove.
Write(c) ==
  /\ c \in Manager
  /\ Ready(card[c]) /\ card[c].shown.personal
  /\ Send(c, "save") \/ (card[c].shown.saved /\ Send(c, "remove"))

\* _disarm (what the request does is SavedDisarm's subject); without a code to use, the
\* button opens a dialog.
Disarm(c) ==
  /\ c \notin Manager
  /\ Ready(card[c]) /\ (card[c].shown.personal => card[c].shown.saved)
  /\ Send(c, "disarm")

\* The retry button.
Retry(c) ==
  /\ card[c].loadFailed
  /\ MayLoad(card[c]) /\ FreeIds(c, requests) # {}
  /\ card' = [card EXCEPT ![c] = Loading(card[c])]
  /\ requests' = requests \cup {NewRequest(c, "status", card[c], requests)}
  /\ UNCHANGED resets /\ ServerUnchanged

-----------------------------------------------------------------------------
(* The server *)

Answered(r, reply) ==
  requests' = (requests \ {r}) \cup {[r EXCEPT !.reply = reply]}

\* The request fails: it is refused, or the connection is lost before it arrives.
Refuse(r) ==
  /\ r.reply = None
  /\ Answered(r, "error")
  /\ UNCHANGED <<card, resets>> /\ ServerUnchanged

\* UserCodeManager.status
Status(r) ==
  /\ r.reply = None /\ r.op = "status"
  /\ Answered(r, IF r.of \in stored THEN "saved" ELSE "missing")
  /\ UNCHANGED <<card, resets>> /\ ServerUnchanged

\* UserCodeView.post; the answer may be lost.
Post(r) ==
  /\ r.reply = None /\ r.op \in {"save", "remove"}
  /\ stored' = IF r.op = "save" THEN stored \cup {r.of} ELSE stored \ {r.of}
  /\ \/ Answered(r, "done") /\ UNCHANGED unheard
     \/ Answered(r, "error") /\ unheard' = unheard \cup {r.of}
  /\ UNCHANGED <<card, resets>>

\* ws_disarm
WsDisarm(r) ==
  /\ r.reply = None /\ r.op = "disarm"
  /\ Answered(r, "done")
  /\ UNCHANGED <<card, resets>> /\ ServerUnchanged

Serve(r) == Refuse(r) \/ Status(r) \/ Post(r) \/ WsDisarm(r)

-----------------------------------------------------------------------------
(* Answers *)

\* The data of an answer; the mode is whatever the options say by then.
Shows(r) ==
  CASE r.op = "status" ->
         IF r.reply = "error" THEN {None}
         ELSE {[saved |-> r.reply = "saved", personal |-> p, of |-> r.of] : p \in BOOLEAN}
    [] r.op = "disarm" -> {card[r.card].shown}
    [] r.op \in {"save", "remove"} ->
         IF r.reply = "error" THEN {card[r.card].shown}
         ELSE {[card[r.card].shown EXCEPT !.saved = (r.op = "save"), !.of = r.of]}

\* The card after the answer, before _finish looks at _refreshPending.
AfterAnswer(r, shown) ==
  [card[r.card] EXCEPT !.shown = shown, !.busy = FALSE,
                       !.loadFailed = r.op = "status" /\ r.reply = "error"]

\* (mutant) a card that is busy misses the event
HearsNot(s) == IF s.busy THEN s ELSE Loading(s)

\* _onCodeChanged of another card with the same account and entity.
Hears(s) == IF s.busy THEN [s EXCEPT !.refreshPending = TRUE] ELSE Loading(s)

\* The cards that hear the event an answered write dispatches.
Listeners(r) ==
  IF r.op \in {"save", "remove"} /\ r.reply = "done"
  THEN {c \in Cards \ {r.card} : card[c].connected /\ PairOf(card[c]) = r.of}
  ELSE {}

\* The answer to a request of the present revision.
Receive(r) ==
  /\ r.reply # None /\ r.current
  /\ \E shown \in Shows(r) :
       LET done == AfterAnswer(r, shown)
           again == card[r.card].refreshPending /\ MayLoad(done)
           heard == [c \in Listeners(r) |-> Hears(card[c])]
           loads == {c \in Listeners(r) : heard[c].busy /\ ~card[c].busy}
                    \cup (IF again THEN {r.card} ELSE {})
           others == requests \ {r}
       IN  /\ \A c \in loads : FreeIds(c, others) # {}
           /\ card' = [c \in Cards |->
                 CASE c = r.card /\ again -> Loading([done EXCEPT !.refreshPending = FALSE])
                   [] c = r.card /\ ~again -> [done EXCEPT !.refreshPending = FALSE]
                   [] c \in Listeners(r) -> heard[c]
                   [] OTHER -> card[c]]
           /\ requests' = others \cup {NewRequest(c, "status", card[c], others) : c \in loads}
  /\ UNCHANGED resets /\ ServerUnchanged

\* The answer to an older one: nobody hears of it.
ReceiveLate(r) ==
  /\ r.reply # None /\ ~r.current
  /\ requests' = requests \ {r}
  /\ unheard' = IF r.op \in {"save", "remove"} /\ r.reply = "done"
                THEN unheard \cup {r.of} ELSE unheard
  /\ UNCHANGED <<stored, card, resets>>

Answer(r) == Serve(r) \/ Receive(r) \/ ReceiveLate(r)

-----------------------------------------------------------------------------
Next ==
  \/ \E c \in Cards :
       \/ SetConfig(c) \/ SetHass(c) \/ ConnectedCallback(c) \/ DisconnectedCallback(c)
       \/ Write(c) \/ Disarm(c) \/ Retry(c)
  \/ \E r \in requests : Answer(r)

Spec == Init /\ [][Next]_vars

-----------------------------------------------------------------------------
(* Properties *)

\* A card shows only what the server said of the account and the entity it has now,
\* whatever answers arrive late (jablotron-user-code-card.js:163-168, 232, 247).
ShownIsOwn ==
  \A c \in Cards : card[c].shown # None => card[c].shown.of = PairOf(card[c])

\* A card has one request under way that counts while it is busy and none otherwise,
\* so no write overlaps a load (jablotron-user-code-card.js:226-239, 257-261).
OneRequest ==
  \A c \in Cards :
    Cardinality({r \in Sent(c) : r.current}) = IF card[c].busy THEN 1 ELSE 0

\* Attached cards that are not busy show what is stored, also of what another card
\* changed while they were busy, unless a write is under way or nobody was told of it
\* (jablotron-user-code-card.js:125-131, 249, 257-261).
CardsAgree ==
  \A c \in Cards :
    LET s == card[c] IN
    s.shown # None /\ s.connected /\ ~s.busy /\ PairOf(s) \notin unheard
      /\ (\A r \in requests : r.op \in {"save", "remove"} => r.of # PairOf(s))
    => s.shown.saved = (PairOf(s) \in stored)

\* An attached card of a known user shows something, is waiting for an answer, or offers
\* to try again: no order of attaching, logging in and failing leaves it checking for ever
\* (jablotron-user-code-card.js:140-168).
NeverStuck ==
  \A c \in Cards :
    card[c].connected /\ card[c].account # None =>
      card[c].shown # None \/ card[c].busy \/ card[c].loadFailed
=============================================================================
