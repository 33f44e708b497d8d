----------------------------- MODULE Card_proofs -----------------------------
(***************************************************************************)
(* Proofs about Card, for any cards, accounts and panels.  A card fits the *)
(* requests of its present revision: there is one while it is busy and     *)
(* none otherwise, and that one is about the account and the entity the    *)
(* card has now.  On top of that, what a card shows or is about to show    *)
(* agrees with the server, unless it has still to be told of a write.      *)
(***************************************************************************)
EXTENDS Card, FiniteSetTheorems, TLAPS

\* The requests of a card's present revision.
Mine(c) == {r \in Sent(c) : r.current}

\* A card in state s fits the requests of its present revision.
Fits(s, mine) ==
  /\ s.busy => \E r \in mine : mine = {r}
  /\ ~s.busy => mine = {} /\ ~s.refreshPending
  /\ \A r \in mine : r.of = PairOf(s) /\ (r.op # "status" => s.shown # None)
  /\ s.shown # None => s.shown.of = PairOf(s)
  /\ ~s.connected => ~s.loaded /\ ~s.loadFailed /\ ~s.busy /\ s.shown = None
  /\ s.connected /\ s.account # None => s.shown # None \/ s.busy \/ s.loadFailed

CardsFit == \A c \in Cards : Fits(card[c], Mine(c))

IInv == TypeOK /\ CardsFit

\* An answer is one that is given to such a request.
RepliesFit ==
  \A r \in requests :
    r.reply \in IF r.op = "status" THEN {"saved", "missing", "error", None}
                ELSE {"done", "error", None}

\* A write of pair p that was carried out, and whose answer is on its way.
Done(r, p) == r.op \in {"save", "remove"} /\ r.reply = "done" /\ r.of = p

\* A card that has nothing to be told agrees with the server: what it shows, unless it is
\* asking, what its question was answered, and what it is about to show after a write.
Agrees(c) ==
  LET s == card[c]
      p == PairOf(s)
  IN  s.connected /\ ~s.refreshPending /\ p \notin unheard =>
        /\ (\A q \in requests : ~Done(q, p)) =>
             /\ s.shown # None /\ (\A r \in Mine(c) : r.op # "status") =>
                  s.shown.saved = (p \in stored)
             /\ \A r \in Mine(c) :
                  r.op = "status" /\ r.reply \in {"saved", "missing"} =>
                    (r.reply = "saved") = (p \in stored)
        /\ \A r \in Mine(c) :
             Done(r, p) /\ (\A q \in requests : Done(q, p) => q = r) =>
               (r.op = "save") = (p \in stored)

AInv == RepliesFit /\ \A c \in Cards : Agrees(c)

-----------------------------------------------------------------------------
(* A card and its requests *)

LEMMA Untouched ==
  ASSUME NEW c \in Cards, Fits(card[c], Mine(c)), card'[c] = card[c], Mine(c)' = Mine(c)
  PROVE  Fits(card[c], Mine(c))'
BY DEF Fits, PairOf

\* A new request is one of the card's, about what the card is for, and was not there.
LEMMA NewRequestFacts ==
  ASSUME NEW c \in Cards, NEW s \in CardState, PairOf(s) \in Pair,
         NEW others \in SUBSET Request, FreeIds(c, others) # {},
         NEW op \in {"status", "save", "remove", "disarm"}
  PROVE  LET n == NewRequest(c, op, s, others)
         IN  /\ n \in Request
             /\ n.card = c /\ n.current /\ n.op = op /\ n.of = PairOf(s) /\ n.reply = None
<1> DEFINE i == CHOOSE k \in FreeIds(c, others) : TRUE
<1>1. i \in 1 .. MaxRequests
  <2>1. PICK k \in FreeIds(c, others) : TRUE
    OBVIOUS
  <2>2. i \in FreeIds(c, others)
    BY <2>1
  <2> QED
    BY <2>2 DEF FreeIds
<1>2. NewRequest(c, op, s, others) =
        [card |-> c, id |-> i, op |-> op, of |-> PairOf(s), current |-> TRUE, reply |-> None]
  BY DEF NewRequest
<1> HIDE DEF i
<1> QED
  BY <1>1, <1>2 DEF Request, Reply

LEMMA KnownPair ==
  ASSUME NEW s \in CardState, s.account # None
  PROVE  PairOf(s) \in Pair
BY DEF PairOf, Pair, CardState

\* What is left of the requests when card c starts anew or sends something: none of its
\* own are of its revision, and nothing else about them has changed.
SameTask(q, r) == q.card = r.card /\ q.op = r.op /\ q.of = r.of /\ q.reply = r.reply
Left(c, others) ==
  /\ others \subseteq Request
  /\ \A r \in others : r.card = c => ~r.current
  /\ {r \in others : r.card # c} = {r \in requests : r.card # c}
  /\ \A r \in others : \E q \in requests : SameTask(q, r)
  /\ \A q \in requests : \E r \in others : SameTask(q, r)

\* A card goes to state s by itself, with the requests new of its revision: it asks anew,
\* or shows nothing, or keeps what it shows.
GoesTo(c, s, new) ==
  /\ card' = [card EXCEPT ![c] = s]
  /\ \E others : Left(c, others) /\ requests' = others \cup new
  /\ \A n \in new : n.card = c /\ n.current /\ n.reply = None
  /\ Fits(s, new)
  /\ \/ s.shown = None
     \/ \E n \in new : n.op = "status"
     \/ ~card[c].busy /\ \E b \in BOOLEAN : s = [card[c] EXCEPT !.busy = b]

OwnStep(c) == \E s \in CardState, new \in SUBSET Request : GoesTo(c, s, new)

LEMMA OwnStepKeeps ==
  ASSUME IInv, NEW c \in Cards, OwnStep(c)
  PROVE  /\ card' \in [Cards -> CardState] /\ requests' \subseteq Request
         /\ \A d \in Cards : card'[d].refreshPending => card'[d].busy
         /\ CardsFit'
<1>1. PICK s \in CardState, new \in SUBSET Request : GoesTo(c, s, new)
  BY DEF OwnStep
<1>2. PICK others : Left(c, others) /\ requests' = others \cup new
  BY <1>1 DEF GoesTo
<1>3. /\ card' = [card EXCEPT ![c] = s] /\ Fits(s, new)
      /\ \A n \in new : n.card = c /\ n.current
      /\ card \in [Cards -> CardState] /\ CardsFit
  BY <1>1 DEF GoesTo, IInv, TypeOK
<1>4. card' \in [Cards -> CardState] /\ requests' \subseteq Request
  BY <1>2, <1>3 DEF Left
<1>5. ASSUME NEW d \in Cards
      PROVE  Fits(card[d], Mine(d))'
  <2>1. CASE d = c
    <3>1. Mine(d)' = new /\ card'[d] = s
      BY <1>2, <1>3, <2>1 DEF Mine, Sent, Left
    <3> QED
      BY <1>3, <3>1 DEF Fits, PairOf
  <2>2. CASE d # c
    <3>1. Mine(d)' = Mine(d)
      BY <1>2, <1>3, <2>2 DEF Mine, Sent, Left
    <3>2. card'[d] = card[d] /\ Fits(card[d], Mine(d))
      BY <1>3, <2>2 DEF CardsFit
    <3> QED
      BY <3>1, <3>2, Untouched
  <2> QED
    BY <2>1, <2>2
<1>6. \A d \in Cards : card'[d].refreshPending => card'[d].busy
  BY <1>5 DEF Fits
<1> QED
  BY <1>4, <1>5, <1>6 DEF CardsFit

\* A card that has just been attached, reset or reassigned.
LEMMA LoadFirstIsOwn ==
  ASSUME NEW c \in Cards, NEW s \in CardState, NEW others, Left(c, others),
         s.connected, ~s.busy, ~s.refreshPending, ~s.loaded, s.shown = None,
         LoadFirst(c, s, others)
  PROVE  OwnStep(c)
<1>1. CASE s.account # None
  <2> DEFINE n == NewRequest(c, "status", s, others)
             t == Loading([s EXCEPT !.loaded = TRUE])
  <2>1. /\ FreeIds(c, others) # {}
        /\ card' = [card EXCEPT ![c] = t]
        /\ requests' = others \cup {n}
    BY <1>1 DEF LoadFirst
  <2>2. /\ n \in Request /\ n.card = c /\ n.current /\ n.op = "status" /\ n.of = PairOf(s)
        /\ n.reply = None
    BY <1>1, <2>1, KnownPair, NewRequestFacts DEF Left
  <2>3. t \in CardState /\ t.busy /\ t.connected /\ t.shown = None /\ PairOf(t) = PairOf(s)
    BY DEF Loading, CardState, PairOf
  <2> HIDE DEF n, t
  <2>4. Fits(t, {n})
    BY <2>2, <2>3 DEF Fits
  <2>5. GoesTo(c, t, {n})
    BY <2>1, <2>2, <2>3, <2>4 DEF GoesTo
  <2> QED
    BY <2>2, <2>3, <2>5 DEF OwnStep
<1>2. CASE s.account = None
  <2>1. card' = [card EXCEPT ![c] = s] /\ requests' = others \cup {}
    BY <1>2 DEF LoadFirst
  <2>2. Fits(s, {})
    BY <1>2 DEF Fits
  <2>3. GoesTo(c, s, {})
    BY <2>1, <2>2 DEF GoesTo
  <2> QED
    BY <2>3 DEF OwnStep
<1> QED
  BY <1>1, <1>2

LEMMA OrphanedIsLeft ==
  ASSUME IInv, NEW c \in Cards
  PROVE  Left(c, Orphaned(c))
<1> DEFINE o(r) == IF r.card = c THEN [r EXCEPT !.current = FALSE] ELSE r
<1>1. requests \subseteq Request
  BY DEF IInv, TypeOK
<1>2. \A r \in requests : /\ o(r) \in Request
                          /\ SameTask(r, o(r))
                          /\ r.card = c => ~o(r).current
                          /\ r.card # c => o(r) = r
  BY <1>1 DEF Request, SameTask
<1>3. Orphaned(c) = {o(r) : r \in requests}
  BY DEF Orphaned
<1> HIDE DEF o
<1>4. \A r \in requests : o(r).card = r.card
  BY <1>2 DEF SameTask
<1>5. {r \in Orphaned(c) : r.card # c} = {r \in requests : r.card # c}
  BY <1>2, <1>3, <1>4
<1> QED
  BY <1>2, <1>3, <1>4, <1>5 DEF Left

\* A card that is not busy has no request of its revision.
LEMMA IdleLeft ==
  ASSUME IInv, NEW c \in Cards, ~card[c].busy
  PROVE  Left(c, requests) /\ ~card[c].refreshPending
<1>1. \A r \in requests : r.card = c => ~r.current
  BY DEF IInv, CardsFit, Fits, Mine, Sent
<1> QED
  BY <1>1 DEF IInv, TypeOK, CardsFit, Fits, Left, SameTask

LEMMA ResetFacts ==
  ASSUME NEW s \in CardState
  PROVE  /\ Reset(s) \in CardState
         /\ ~Reset(s).busy /\ ~Reset(s).loadFailed /\ ~Reset(s).refreshPending /\ ~Reset(s).loaded
         /\ Reset(s).shown = None /\ Reset(s).connected = s.connected
BY DEF Reset, CardState

-----------------------------------------------------------------------------
(* What a card does by itself *)

LEMMA SetConfigIsOwn ==
  ASSUME IInv, NEW c \in Cards, SetConfig(c)
  PROVE  OwnStep(c)
<1>1. card[c] \in CardState /\ card[c].connected
  BY DEF IInv, TypeOK, SetConfig
<1>2. PICK e \in Entity : LoadFirst(c, [Reset(card[c]) EXCEPT !.entity = e], Orphaned(c))
  BY DEF SetConfig
<1> DEFINE s == [Reset(card[c]) EXCEPT !.entity = e]
<1>3. /\ s \in CardState
      /\ s.connected /\ ~s.busy /\ ~s.refreshPending /\ ~s.loaded /\ s.shown = None
  <2>1. \A r \in CardState :
          LET t == [r EXCEPT !.entity = e]
          IN  /\ t \in CardState
              /\ t.connected = r.connected /\ t.busy = r.busy /\ t.loaded = r.loaded
              /\ t.refreshPending = r.refreshPending /\ t.shown = r.shown
    BY DEF CardState
  <2> QED
    BY <1>1, <2>1, ResetFacts
<1> HIDE DEF s
<1>4. LoadFirst(c, s, Orphaned(c))
  BY <1>2 DEF s
<1> QED
  BY <1>3, <1>4, OrphanedIsLeft, LoadFirstIsOwn

LEMMA SetHassIsOwn ==
  ASSUME IInv, NEW c \in Cards, SetHass(c)
  PROVE  OwnStep(c)
<1>1. card[c] \in CardState /\ card[c].connected
  BY DEF IInv, TypeOK, SetHass
<1>2. PICK a \in Account \cup {None} :
        LoadFirst(c, [Reset(card[c]) EXCEPT !.account = a], Orphaned(c))
  BY DEF SetHass
<1> DEFINE s == [Reset(card[c]) EXCEPT !.account = a]
<1>3. /\ s \in CardState
      /\ s.connected /\ ~s.busy /\ ~s.refreshPending /\ ~s.loaded /\ s.shown = None
  <2>1. \A r \in CardState :
          LET t == [r EXCEPT !.account = a]
          IN  /\ t \in CardState
              /\ t.connected = r.connected /\ t.busy = r.busy /\ t.loaded = r.loaded
              /\ t.refreshPending = r.refreshPending /\ t.shown = r.shown
    BY DEF CardState
  <2> QED
    BY <1>1, <2>1, ResetFacts
<1> HIDE DEF s
<1>4. LoadFirst(c, s, Orphaned(c))
  BY <1>2 DEF s
<1> QED
  BY <1>3, <1>4, OrphanedIsLeft, LoadFirstIsOwn

LEMMA ConnectedCallbackIsOwn ==
  ASSUME IInv, NEW c \in Cards, ConnectedCallback(c)
  PROVE  OwnStep(c)
<1>1. card[c] \in CardState /\ Fits(card[c], Mine(c)) /\ ~card[c].connected
  BY DEF IInv, TypeOK, CardsFit, ConnectedCallback
<1> DEFINE s == [card[c] EXCEPT !.connected = TRUE]
<1>2. /\ s \in CardState
      /\ s.connected /\ ~s.busy /\ ~s.refreshPending /\ ~s.loaded /\ s.shown = None
  BY <1>1 DEF CardState, Fits
<1>3. LoadFirst(c, s, requests)
  BY DEF ConnectedCallback
<1> HIDE DEF s
<1>4. ~card[c].busy
  BY <1>1 DEF Fits
<1> QED
  BY <1>2, <1>3, <1>4, IdleLeft, LoadFirstIsOwn

LEMMA DisconnectedCallbackIsOwn ==
  ASSUME IInv, NEW c \in Cards, DisconnectedCallback(c)
  PROVE  OwnStep(c)
<1> DEFINE s == [Reset(card[c]) EXCEPT !.connected = FALSE]
<1>1. card[c] \in CardState
  BY DEF IInv, TypeOK
<1>2. /\ s \in CardState
      /\ ~s.connected /\ ~s.busy /\ ~s.refreshPending /\ ~s.loaded /\ ~s.loadFailed
      /\ s.shown = None
  <2>1. \A r \in CardState :
          LET t == [r EXCEPT !.connected = FALSE]
          IN  /\ t \in CardState
              /\ ~t.connected /\ t.busy = r.busy /\ t.loaded = r.loaded
              /\ t.loadFailed = r.loadFailed
              /\ t.refreshPending = r.refreshPending /\ t.shown = r.shown
    BY DEF CardState
  <2> QED
    BY <1>1, <2>1, ResetFacts
<1>3. card' = [card EXCEPT ![c] = s] /\ requests' = Orphaned(c) \cup {}
  BY DEF DisconnectedCallback
<1> HIDE DEF s
<1>4. Fits(s, {})
  BY <1>2 DEF Fits
<1>5. GoesTo(c, s, {})
  BY <1>2, <1>3, <1>4, OrphanedIsLeft DEF GoesTo
<1> QED
  BY <1>2, <1>5 DEF OwnStep

LEMMA SendIsOwn ==
  ASSUME IInv, NEW c \in Cards, NEW op \in {"save", "remove", "disarm"},
         Ready(card[c]), Send(c, op)
  PROVE  OwnStep(c)
<1> DEFINE s == [card[c] EXCEPT !.busy = TRUE]
           n == NewRequest(c, op, card[c], requests)
<1>1. card[c] \in CardState /\ Fits(card[c], Mine(c)) /\ ~card[c].busy
  BY DEF IInv, TypeOK, CardsFit, Send
<1>2. /\ s \in CardState
      /\ s.busy /\ ~s.refreshPending /\ s.shown = card[c].shown /\ PairOf(s) = PairOf(card[c])
      /\ s.connected = card[c].connected
  BY <1>1 DEF CardState, PairOf, Fits
<1>3. n \in Request /\ n.card = c /\ n.current /\ n.of = PairOf(card[c]) /\ n.reply = None
  BY <1>1, IdleLeft, KnownPair, NewRequestFacts DEF Send, Ready, Left
<1>4. card' = [card EXCEPT ![c] = s] /\ requests' = requests \cup {n}
  BY <1>1 DEF Send, IInv, TypeOK
<1>5. \E b \in BOOLEAN : s = [card[c] EXCEPT !.busy = b]
  OBVIOUS
<1> HIDE DEF s, n
<1>6. Fits(s, {n})
  BY <1>1, <1>2, <1>3 DEF Fits, Ready
<1>7. GoesTo(c, s, {n})
  BY <1>1, <1>3, <1>4, <1>5, <1>6, IdleLeft DEF GoesTo
<1> QED
  BY <1>2, <1>3, <1>7 DEF OwnStep

LEMMA RetryIsOwn ==
  ASSUME IInv, NEW c \in Cards, Retry(c)
  PROVE  OwnStep(c)
<1> DEFINE s == Loading(card[c])
           n == NewRequest(c, "status", card[c], requests)
<1>1. /\ card[c] \in CardState
      /\ Fits(card[c], Mine(c)) /\ ~card[c].busy /\ card[c].account # None
      /\ card[c].loadFailed
  BY DEF IInv, TypeOK, CardsFit, Retry, MayLoad
<1>2. /\ s \in CardState
      /\ s.busy /\ ~s.refreshPending /\ s.shown = card[c].shown /\ PairOf(s) = PairOf(card[c])
      /\ s.connected = card[c].connected
  BY <1>1 DEF CardState, PairOf, Fits, Loading
<1>3. /\ n \in Request /\ n.card = c /\ n.current /\ n.op = "status" /\ n.of = PairOf(card[c])
      /\ n.reply = None
  BY <1>1, IdleLeft, KnownPair, NewRequestFacts DEF Retry, Left
<1>4. card' = [card EXCEPT ![c] = s] /\ requests' = requests \cup {n}
  BY DEF Retry
<1> HIDE DEF s, n
<1>5. Fits(s, {n})
  BY <1>1, <1>2, <1>3 DEF Fits
<1>6. GoesTo(c, s, {n})
  BY <1>1, <1>3, <1>4, <1>5, IdleLeft DEF GoesTo
<1> QED
  BY <1>2, <1>3, <1>6 DEF OwnStep

CardActs(c) ==
  \/ SetConfig(c) \/ SetHass(c) \/ ConnectedCallback(c) \/ DisconnectedCallback(c)
  \/ Write(c) \/ Disarm(c) \/ Retry(c)

LEMMA ActsAlone ==
  ASSUME IInv, NEW c \in Cards, CardActs(c)
  PROVE  OwnStep(c) /\ ServerUnchanged /\ (Resets \/ UNCHANGED resets)
<1>1. CASE Write(c) \/ Disarm(c)
  <2>1. PICK op \in {"save", "remove", "disarm"} : Ready(card[c]) /\ Send(c, op)
    BY <1>1 DEF Write, Disarm
  <2> QED
    BY <2>1, SendIsOwn DEF Send
<1>2. CASE SetConfig(c)
  BY <1>2, SetConfigIsOwn DEF SetConfig
<1>3. CASE SetHass(c)
  BY <1>3, SetHassIsOwn DEF SetHass
<1>4. CASE ConnectedCallback(c)
  BY <1>4, ConnectedCallbackIsOwn DEF ConnectedCallback
<1>5. CASE DisconnectedCallback(c)
  BY <1>5, DisconnectedCallbackIsOwn DEF DisconnectedCallback
<1>6. CASE Retry(c)
  BY <1>6, RetryIsOwn DEF Retry
<1> QED
  BY <1>1, <1>2, <1>3, <1>4, <1>5, <1>6 DEF CardActs

-----------------------------------------------------------------------------
(* The steps *)

LEMMA Together ==
  ASSUME IInv, stored' \subseteq Pair, unheard' \subseteq Pair, resets' \in 0 .. MaxResets,
         card' \in [Cards -> CardState], requests' \subseteq Request,
         \A d \in Cards : card'[d].refreshPending => card'[d].busy,
         CardsFit'
  PROVE  IInv'
BY DEF IInv, TypeOK

LEMMA ResetsTyped ==
  ASSUME IInv, Resets \/ UNCHANGED resets
  PROVE  resets' \in 0 .. MaxResets
BY CardAssumption DEF IInv, TypeOK, Resets

LEMMA ServerTyped ==
  ASSUME IInv, ServerUnchanged
  PROVE  stored' \subseteq Pair /\ unheard' \subseteq Pair
BY DEF IInv, TypeOK, ServerUnchanged

LEMMA CardActsKeeps ==
  ASSUME IInv, NEW c \in Cards, CardActs(c)
  PROVE  IInv'
BY ActsAlone, OwnStepKeeps, ResetsTyped, ServerTyped, Together

LEMMA AnsweredKeeps ==
  ASSUME IInv, NEW r \in requests, NEW reply \in Reply, Answered(r, reply), UNCHANGED card
  PROVE  requests' \subseteq Request /\ CardsFit'
<1> DEFINE a == [r EXCEPT !.reply = reply]
<1>1. r \in Request /\ requests \subseteq Request
  BY DEF IInv, TypeOK
<1>2. /\ a \in Request
      /\ a.card = r.card /\ a.current = r.current /\ a.of = r.of /\ a.op = r.op
  BY <1>1 DEF Request
<1>3. requests' = (requests \ {r}) \cup {a}
  BY DEF Answered
<1> HIDE DEF a
<1>4. ASSUME NEW d \in Cards
      PROVE  Fits(card[d], Mine(d))'
  <2>1. Fits(card[d], Mine(d)) /\ card'[d] = card[d]
    BY DEF IInv, CardsFit
  <2>2. CASE d = r.card /\ r.current
    <3>1. r \in Mine(d)
      BY <2>2 DEF Mine, Sent
    <3>2. Mine(d) = {r}
      BY <2>1, <3>1 DEF Fits
    <3>3. Mine(d)' = {a}
      BY <1>2, <1>3, <2>2, <3>2 DEF Mine, Sent
    <3> QED
      BY <1>2, <2>1, <3>2, <3>3 DEF Fits, PairOf
  <2>3. CASE ~(d = r.card /\ r.current)
    <3>1. Mine(d)' = Mine(d)
      BY <1>2, <1>3, <2>3 DEF Mine, Sent
    <3> QED
      BY <2>1, <3>1, Untouched
  <2> QED
    BY <2>2, <2>3
<1> QED
  BY <1>1, <1>2, <1>3, <1>4 DEF CardsFit

LEMMA ServeKeeps ==
  ASSUME IInv, NEW r \in requests, Serve(r)
  PROVE  IInv'
<1>1. r.of \in Pair
  BY DEF IInv, TypeOK, Request
<1>2. PICK reply \in Reply : Answered(r, reply)
  BY DEF Serve, Refuse, Status, Post, WsDisarm, Reply
<1>3. UNCHANGED <<card, resets>> /\ stored' \subseteq Pair /\ unheard' \subseteq Pair
  BY <1>1 DEF Serve, Refuse, Status, Post, WsDisarm, ServerUnchanged, IInv, TypeOK
<1> QED
  BY <1>2, <1>3, AnsweredKeeps DEF IInv, TypeOK

\* Data that is shown is the card's own, and an answer leaves nothing to show only if the
\* load failed.
LEMMA ShowsFacts ==
  ASSUME IInv, NEW r \in requests, r.current, r.reply # None, NEW shown \in Shows(r)
  PROVE  /\ shown \in Shown \cup {None}
         /\ shown # None => shown.of = PairOf(card[r.card])
         /\ shown = None => r.op = "status" /\ r.reply = "error"
<1>1. r \in Request /\ r \in Mine(r.card)
  BY DEF IInv, TypeOK, Mine, Sent
<1>2. card[r.card] \in CardState /\ Fits(card[r.card], Mine(r.card))
  BY <1>1 DEF IInv, TypeOK, CardsFit, Request
<1>3. /\ r.of = PairOf(card[r.card]) /\ r.of \in Pair
      /\ r.op # "status" => card[r.card].shown # None
      /\ card[r.card].shown \in Shown \cup {None}
      /\ card[r.card].shown # None => card[r.card].shown.of = PairOf(card[r.card])
  BY <1>1, <1>2 DEF Fits, Request, CardState
<1>4. CASE r.reply = "error" /\ r.op = "status"
  <2>1. Shows(r) = {None}
    BY <1>4 DEF Shows
  <2> QED
    BY <1>4, <2>1
<1>5. CASE r.reply = "error" /\ r.op # "status"
  <2>1. Shows(r) = {card[r.card].shown}
    BY <1>1, <1>5 DEF Shows, Request
  <2> QED
    BY <1>3, <1>5, <2>1
<1>6. CASE r.reply # "error" /\ r.op = "status"
  <2>1. PICK p \in BOOLEAN : shown = [saved |-> r.reply = "saved", personal |-> p, of |-> r.of]
    BY <1>6 DEF Shows
  <2> QED
    <3>1. shown \in Shown /\ shown.of = r.of
      BY <1>3, <2>1 DEF Shown
    <3> QED
      BY <1>3, <3>1, NoneAssumption
<1>7. CASE r.reply # "error" /\ r.op = "disarm"
  BY <1>3, <1>7 DEF Shows
<1>8. CASE r.reply # "error" /\ r.op \in {"save", "remove"}
  <2>1. shown = [card[r.card].shown EXCEPT !.saved = (r.op = "save"), !.of = r.of]
    BY <1>8 DEF Shows
  <2>2. card[r.card].shown \in Shown
    BY <1>3, <1>8
  <2> QED
    <3>1. shown \in Shown /\ shown.of = r.of
      BY <1>3, <2>1, <2>2 DEF Shown
    <3> QED
      BY <1>3, <3>1, NoneAssumption
<1> QED
  BY <1>1, <1>4, <1>5, <1>6, <1>7, <1>8 DEF Request

\* What an answer to request r does to card d: it asks again; or it shows the answer; or, if
\* it hears of the write, it asks or will ask; or nothing.
Asks(mine) == \E n : mine = {n} /\ n.op = "status" /\ n.reply = None
Hearing(r, shown, d) ==
  \/ d = r.card /\ Asks(Mine(d)')
  \/ /\ d = r.card /\ Mine(d)' = {} /\ ~card[d].refreshPending
     /\ card'[d].shown = shown /\ card'[d].connected = card[d].connected
     /\ PairOf(card'[d]) = PairOf(card[d])
  \/ d \in Listeners(r) /\ (card'[d].refreshPending \/ Asks(Mine(d)'))
  \/ d # r.card /\ d \notin Listeners(r) /\ card'[d] = card[d] /\ Mine(d)' = Mine(d)

LEMMA ReceiveFacts ==
  ASSUME IInv, NEW r \in requests, Receive(r)
  PROVE  \E shown \in Shows(r), new \in SUBSET Request :
           /\ requests' = (requests \ {r}) \cup new
           /\ \A n \in new : n.op = "status" /\ n.reply = None
           /\ card' \in [Cards -> CardState]
           /\ \A d \in Cards : Fits(card[d], Mine(d))' /\ Hearing(r, shown, d)
<1>1. PICK shown \in Shows(r) :
        LET done == AfterAnswer(r, shown)
            again == card[r.card].refreshPending /\ MayLoad(done)
            heard == [c \in Listeners(r) |-> Hears(card[c])]
            loads == {c \in Listeners(r) : heard[c].busy /\ ~card[c].busy}
                     \cup (IF again THEN {r.card} ELSE {})
            others == requests \ {r}
        IN  /\ \A c \in loads : FreeIds(c, others) # {}
            /\ card' = [c \in Cards |->
                  CASE c = r.card /\ again -> Loading([done EXCEPT !.refreshPending = FALSE])
                    [] c = r.card /\ ~again -> [done EXCEPT !.refreshPending = FALSE]
                    [] c \in Listeners(r) -> heard[c]
                    [] OTHER -> card[c]]
            /\ requests' = others \cup {NewRequest(c, "status", card[c], others) : c \in loads}
  BY DEF Receive
<1> DEFINE done == AfterAnswer(r, shown)
           free == [done EXCEPT !.refreshPending = FALSE]
           again == card[r.card].refreshPending /\ MayLoad(done)
           heard == [c \in Listeners(r) |-> Hears(card[c])]
           loads == {c \in Listeners(r) : heard[c].busy /\ ~card[c].busy}
                    \cup (IF again THEN {r.card} ELSE {})
           others == requests \ {r}
           new(c) == NewRequest(c, "status", card[c], others)
<1>2. /\ r \in Request /\ r.card \in Cards /\ r.of \in Pair
      /\ requests \subseteq Request /\ others \in SUBSET Request
      /\ r.current /\ r.reply # None
      /\ card \in [Cards -> CardState]
      /\ \A c \in Cards : card[c] \in CardState /\ Fits(card[c], Mine(c))
  BY DEF IInv, TypeOK, CardsFit, Request, Receive
<1>3. /\ \A c \in loads : FreeIds(c, others) # {}
      /\ card' = [c \in Cards |->
            CASE c = r.card /\ again -> Loading(free)
              [] c = r.card /\ ~again -> free
              [] c \in Listeners(r) -> heard[c]
              [] OTHER -> card[c]]
      /\ requests' = others \cup {new(c) : c \in loads}
  BY <1>1
<1>4. \A c \in Listeners(r) : heard[c] = Hears(card[c])
  OBVIOUS
<1>5. /\ Listeners(r) \subseteq Cards \ {r.card}
      /\ \A c \in Listeners(r) : card[c].connected /\ PairOf(card[c]) = r.of
  BY DEF Listeners
<1>6. /\ \A c \in Cards \ {r.card} : c \in loads <=> c \in Listeners(r) /\ ~card[c].busy
      /\ r.card \in loads <=> again
  <2>1. \A c \in Listeners(r) : ~card[c].busy => Hears(card[c]).busy
    BY <1>2, <1>5 DEF Hears, Loading, CardState
  <2> QED
    BY <1>5, <2>1
<1>7. Mine(r.card) = {r} /\ card[r.card].busy /\ r.of = PairOf(card[r.card])
      /\ card[r.card].connected
  BY <1>2 DEF Fits, Mine, Sent
<1>8. ASSUME NEW d \in Cards
      PROVE  Mine(d)' = (Mine(d) \ {r}) \cup (IF d \in loads THEN {new(d)} ELSE {})
  <2>1. {q \in others : q.card = d /\ q.current} = Mine(d) \ {r}
    BY DEF Mine, Sent
  <2>2. \A c : new(c).card = c /\ new(c).current
    BY DEF NewRequest
  <2> HIDE DEF loads, others, new
  <2> QED
    BY <1>3, <2>1, <2>2 DEF Mine, Sent
<1>9. \A c \in loads : PairOf(card[c]) \in Pair
  BY <1>2, <1>5, <1>6, <1>7
<1>10. \A c \in loads : /\ new(c) \in Request /\ new(c).card = c /\ new(c).current
                       /\ new(c).op = "status" /\ new(c).of = PairOf(card[c])
                       /\ new(c).reply = None
  <2> TAKE c \in loads
  <2>1. c \in Cards
    BY <1>2, <1>5
  <2> HIDE DEF loads, others
  <2> QED
    BY <1>2, <1>3, <1>9, <2>1, NewRequestFacts
<1>11. /\ shown \in Shown \cup {None}
       /\ shown # None => shown.of = PairOf(card[r.card])
       /\ shown = None => r.op = "status" /\ r.reply = "error"
  BY <1>2, ShowsFacts
<1>12. /\ free \in CardState
       /\ free.shown = shown /\ ~free.busy /\ ~free.refreshPending
       /\ free.connected /\ PairOf(free) = PairOf(card[r.card])
       /\ free.loadFailed = (r.op = "status" /\ r.reply = "error")
  BY <1>2, <1>7, <1>11 DEF AfterAnswer, CardState, PairOf
<1>13. ~again => ~card[r.card].refreshPending
  BY <1>2, <1>7, NoneAssumption DEF MayLoad, AfterAnswer, CardState, PairOf, Pair
<1> HIDE DEF done, again, loads, others, new, free
<1>14. ASSUME NEW d \in Cards
       PROVE  card'[d] \in CardState /\ Fits(card[d], Mine(d))' /\ Hearing(r, shown, d)
  <2>1. CASE d = r.card /\ again
    <3>1. card'[d] = Loading(free) /\ Mine(d)' = {new(d)}
      <4>1. card'[d] = Loading(free)
        BY <1>3, <1>5, <2>1
      <4>2. Mine(d)' = {new(d)}
        BY <1>6, <1>7, <1>8, <2>1
      <4> QED
        BY <4>1, <4>2
    <3>2. /\ Loading(free) \in CardState
          /\ Loading(free).busy /\ ~Loading(free).refreshPending
          /\ Loading(free).connected /\ Loading(free).shown = shown
          /\ PairOf(Loading(free)) = PairOf(free)
      BY <1>12 DEF Loading, CardState, PairOf
    <3>3. new(d).of = PairOf(free) /\ new(d).op = "status"
      BY <1>6, <1>10, <1>12, <2>1
    <3>4. Fits(Loading(free), {new(d)})
      BY <1>11, <1>12, <3>2, <3>3 DEF Fits
    <3>5. Hearing(r, shown, d)
      BY <1>6, <1>10, <2>1, <3>1 DEF Hearing, Asks
    <3> QED
      BY <3>1, <3>2, <3>4, <3>5 DEF Fits, PairOf
  <2>2. CASE d = r.card /\ ~again
    <3>1. card'[d] = free /\ Mine(d)' = {}
      <4>1. card'[d] = free
        BY <1>3, <1>5, <2>2
      <4>2. Mine(d)' = {}
        BY <1>6, <1>7, <1>8, <2>2
      <4> QED
        BY <4>1, <4>2
    <3>2. Fits(free, {})
      BY <1>11, <1>12 DEF Fits
    <3>3. Hearing(r, shown, d)
      BY <1>7, <1>12, <1>13, <2>2, <3>1 DEF Hearing
    <3> QED
      BY <1>12, <3>1, <3>2, <3>3 DEF Fits, PairOf
  <2>3. CASE d \in Listeners(r) /\ card[d].busy
    <3> DEFINE s == [card[d] EXCEPT !.refreshPending = TRUE]
    <3>1. card'[d] = s
      BY <1>3, <1>4, <1>5, <2>3 DEF Hears
    <3>2. Mine(d)' = Mine(d)
      BY <1>2, <1>5, <1>6, <1>8, <2>3 DEF Mine, Sent
    <3>3. /\ s \in CardState
          /\ s.refreshPending
          /\ s.busy = card[d].busy /\ s.connected = card[d].connected /\ s.shown = card[d].shown
          /\ s.loaded = card[d].loaded /\ s.loadFailed = card[d].loadFailed
          /\ s.account = card[d].account /\ PairOf(s) = PairOf(card[d])
      BY <1>2 DEF CardState, PairOf
    <3> HIDE DEF s
    <3>4. Fits(s, Mine(d))
      BY <1>2, <2>3, <3>3 DEF Fits
    <3>5. Hearing(r, shown, d)
      BY <2>3, <3>1, <3>3 DEF Hearing
    <3> QED
      BY <3>1, <3>2, <3>3, <3>4, <3>5 DEF Fits, PairOf
  <2>4. CASE d \in Listeners(r) /\ ~card[d].busy
    <3> DEFINE s == Loading(card[d])
    <3>1. card'[d] = s
      BY <1>3, <1>4, <1>5, <2>4 DEF Hears
    <3>2. Mine(d)' = {new(d)}
      BY <1>2, <1>5, <1>6, <1>8, <2>4 DEF Fits
    <3>3. /\ s \in CardState
          /\ s.busy /\ s.connected /\ s.refreshPending = card[d].refreshPending
          /\ s.shown = card[d].shown /\ PairOf(s) = PairOf(card[d])
      BY <1>2, <1>5, <2>4 DEF Loading, CardState, PairOf
    <3>4. new(d).of = PairOf(card[d]) /\ new(d).op = "status"
      BY <1>5, <1>6, <1>10, <2>4
    <3> HIDE DEF s
    <3>5. Fits(s, {new(d)})
      BY <1>2, <3>3, <3>4 DEF Fits
    <3>6. Hearing(r, shown, d)
      BY <1>5, <1>6, <1>10, <2>4, <3>2 DEF Hearing, Asks
    <3> QED
      BY <3>1, <3>2, <3>3, <3>5, <3>6 DEF Fits, PairOf
  <2>5. CASE d # r.card /\ d \notin Listeners(r)
    <3>1. card'[d] = card[d]
      BY <1>3, <2>5
    <3>2. Mine(d)' = Mine(d)
      BY <1>2, <1>6, <1>8, <2>5 DEF Mine, Sent
    <3>3. Hearing(r, shown, d)
      BY <2>5, <3>1, <3>2 DEF Hearing
    <3> QED
      BY <1>2, <3>1, <3>2, Untouched, <3>3
  <2> QED
    BY <1>5, <2>1, <2>2, <2>3, <2>4, <2>5
<1>15. card' \in [Cards -> CardState]
  BY <1>3, <1>14
<1> DEFINE sent == {new(c) : c \in loads}
<1>16. /\ sent \in SUBSET Request
       /\ \A n \in sent : n.op = "status" /\ n.reply = None
       /\ requests' = (requests \ {r}) \cup sent
  BY <1>3, <1>10 DEF others
<1> HIDE DEF sent
<1> QED
  BY <1>14, <1>15, <1>16

LEMMA ReceiveKeeps ==
  ASSUME IInv, NEW r \in requests, Receive(r)
  PROVE  IInv'
<1>1. /\ requests' \subseteq Request
      /\ card' \in [Cards -> CardState] /\ CardsFit'
  BY ReceiveFacts DEF CardsFit, IInv, TypeOK
<1>2. \A d \in Cards : card'[d].refreshPending => card'[d].busy
  BY <1>1 DEF CardsFit, Fits
<1> QED
  BY <1>1, <1>2, ResetsTyped, ServerTyped, Together DEF Receive

LEMMA ReceiveLateKeeps ==
  ASSUME IInv, NEW r \in requests, ReceiveLate(r)
  PROVE  IInv'
<1>1. r \in Request /\ requests \subseteq Request /\ ~r.current
  BY DEF IInv, TypeOK, ReceiveLate
<1>2. requests' = requests \ {r} /\ UNCHANGED <<stored, card, resets>>
  BY DEF ReceiveLate
<1>3. unheard' \subseteq Pair
  BY <1>1 DEF ReceiveLate, IInv, TypeOK, Request
<1>4. ASSUME NEW d \in Cards
      PROVE  Fits(card[d], Mine(d))'
  <2>1. Mine(d)' = Mine(d)
    BY <1>1, <1>2 DEF Mine, Sent
  <2> QED
    BY <1>2, <2>1, Untouched DEF IInv, CardsFit
<1> QED
  BY <1>2, <1>3, <1>4 DEF IInv, TypeOK, CardsFit

-----------------------------------------------------------------------------
(* The theorems *)

LEMMA InitFits ==
  ASSUME Init
  PROVE  IInv
<1>1. PICK a \in Account, e \in Entity :
        card = [c \in Cards |->
                  [account |-> a, entity |-> e, connected |-> FALSE, loaded |-> FALSE,
                   loadFailed |-> FALSE, busy |-> FALSE, refreshPending |-> FALSE,
                   shown |-> None]]
  BY DEF Init
<1>2. TypeOK
  BY <1>1, CardAssumption DEF Init, TypeOK, CardState
<1>3. \A c \in Cards : Mine(c) = {}
  BY DEF Init, Mine, Sent
<1>4. CardsFit
  BY <1>1, <1>3 DEF CardsFit, Fits
<1> QED
  BY <1>2, <1>4 DEF IInv

\* Every card fits its requests, whatever answers come late and whatever Home Assistant
\* does with the cards.
THEOREM Invariance == Spec => []IInv
<1>1. Init => IInv
  BY InitFits
<1>2. IInv /\ [Next]_vars => IInv'
  <2> SUFFICES ASSUME IInv, [Next]_vars PROVE IInv'
    OBVIOUS
  <2>1. CASE UNCHANGED vars
    BY <2>1 DEF vars, IInv, TypeOK, CardsFit, Fits, Mine, Sent, PairOf
  <2>2. ASSUME NEW c \in Cards, CardActs(c)
        PROVE  IInv'
    BY <2>2, CardActsKeeps
  <2>3. ASSUME NEW r \in requests, Answer(r)
        PROVE  IInv'
    BY <2>3, ServeKeeps, ReceiveKeeps, ReceiveLateKeeps DEF Answer
  <2> QED
    BY <2>1, <2>2, <2>3 DEF Next, CardActs
<1> QED
  BY <1>1, <1>2, PTL DEF Spec

\* The cards and the requests are well typed; a card that waits to refresh is busy.
THEOREM TypeCorrect == Spec => []TypeOK
<1>1. IInv => TypeOK
  BY DEF IInv
<1> QED
  BY <1>1, Invariance, PTL

\* For any cards, accounts and panels, what a card shows is what the server said of the
\* account and the entity it has now (jablotron-user-code-card.js:163-168, 232, 247).
THEOREM ShowsOwn == Spec => []ShownIsOwn
<1>1. IInv => ShownIsOwn
  BY DEF IInv, CardsFit, Fits, ShownIsOwn
<1> QED
  BY <1>1, Invariance, PTL

\* A card has one request of its revision under way while it is busy and none otherwise,
\* whatever requests of earlier revisions there are (jablotron-user-code-card.js:226-239).
THEOREM OneRequestAtATime == Spec => []OneRequest
<1>1. IInv => OneRequest
  <2> SUFFICES ASSUME IInv, NEW c \in Cards
               PROVE  Cardinality(Mine(c)) = IF card[c].busy THEN 1 ELSE 0
    BY DEF OneRequest, Mine
  <2>1. Fits(card[c], Mine(c))
    BY DEF IInv, CardsFit
  <2> QED
    BY <2>1, FS_Singleton, FS_EmptySet DEF Fits
<1> QED
  BY <1>1, Invariance, PTL

\* An attached card of a known user shows something, waits for an answer or offers to try
\* again (jablotron-user-code-card.js:140-168).
THEOREM NoCardStuck == Spec => []NeverStuck
<1>1. IInv => NeverStuck
  BY DEF IInv, CardsFit, Fits, NeverStuck
<1> QED
  BY <1>1, Invariance, PTL

-----------------------------------------------------------------------------
(* The cards agree with the server *)

\* A card that a step leaves alone goes on agreeing, if the step tells of what it does.
LEMMA StillAgrees ==
  ASSUME NEW d \in Cards, Agrees(d), card'[d] = card[d], Mine(d)' = Mine(d),
         unheard \subseteq unheard',
         card[d].connected /\ PairOf(card[d]) \notin unheard' =>
           /\ PairOf(card[d]) \in stored' <=> PairOf(card[d]) \in stored
           /\ (\A q \in requests' : ~Done(q, PairOf(card[d]))) =>
                \A q \in requests : ~Done(q, PairOf(card[d]))
           /\ \A r \in Mine(d) :
                (\A q \in requests' : Done(q, PairOf(card[d])) => q = r) =>
                  \A q \in requests : Done(q, PairOf(card[d])) => q = r
  PROVE  Agrees(d)'
<1> DEFINE p == PairOf(card[d])
<1>1. PairOf(card[d])' = p
  BY DEF PairOf
<1> HIDE DEF p
<1> SUFFICES ASSUME card[d].connected, ~card[d].refreshPending, p \notin unheard'
             PROVE
        /\ (\A q \in requests' : ~Done(q, p)) =>
             /\ card[d].shown # None /\ (\A r \in Mine(d) : r.op # "status") =>
                  card[d].shown.saved = (p \in stored')
             /\ \A r \in Mine(d) :
                  r.op = "status" /\ r.reply \in {"saved", "missing"} =>
                    (r.reply = "saved") = (p \in stored')
        /\ \A r \in Mine(d) :
             Done(r, p) /\ (\A q \in requests' : Done(q, p) => q = r) =>
               (r.op = "save") = (p \in stored')
  BY <1>1 DEF Agrees, Done
<1>2. /\ p \notin unheard
      /\ (p \in stored') = (p \in stored)
      /\ (\A q \in requests' : ~Done(q, p)) => \A q \in requests : ~Done(q, p)
      /\ \A r \in Mine(d) :
           (\A q \in requests' : Done(q, p) => q = r) => \A q \in requests : Done(q, p) => q = r
  BY DEF p
<1>3. /\ (\A q \in requests : ~Done(q, p)) =>
           /\ card[d].shown # None /\ (\A r \in Mine(d) : r.op # "status") =>
                card[d].shown.saved = (p \in stored)
           /\ \A r \in Mine(d) :
                r.op = "status" /\ r.reply \in {"saved", "missing"} =>
                  (r.reply = "saved") = (p \in stored)
      /\ \A r \in Mine(d) :
           Done(r, p) /\ (\A q \in requests : Done(q, p) => q = r) =>
             (r.op = "save") = (p \in stored)
  BY <1>2 DEF Agrees, p
<1> QED
  BY <1>2, <1>3

\* A card that is asking has nothing to agree on until the answer is given.
LEMMA AskingAgrees ==
  ASSUME NEW d \in Cards, Asks(Mine(d)')
  PROVE  Agrees(d)'
<1>1. PICK n : Mine(d)' = {n} /\ n.op = "status" /\ n.reply = None
  BY DEF Asks
<1> QED
  BY <1>1, NoneAssumption DEF Agrees, Done

LEMMA OwnStepAgrees ==
  ASSUME IInv, AInv, NEW c \in Cards, OwnStep(c), ServerUnchanged
  PROVE  AInv'
<1>1. PICK s \in CardState, new \in SUBSET Request : GoesTo(c, s, new)
  BY DEF OwnStep
<1>2. PICK others : Left(c, others) /\ requests' = others \cup new
  BY <1>1 DEF GoesTo
<1>3. /\ card' = [card EXCEPT ![c] = s] /\ Fits(s, new)
      /\ \A n \in new : n.card = c /\ n.current /\ n.reply = None
      /\ card \in [Cards -> CardState] /\ CardsFit
  BY <1>1 DEF GoesTo, IInv, TypeOK
<1>4. \A p : \A q \in requests : Done(q, p) => \E r \in others : SameTask(q, r) /\ Done(r, p)
  BY <1>2 DEF Left, SameTask, Done
<1>5. \A p : (\A q \in requests' : ~Done(q, p)) => \A q \in requests : ~Done(q, p)
  BY <1>2, <1>4
<1>6. RepliesFit'
  BY <1>2, <1>3 DEF AInv, RepliesFit, Left, SameTask, Request
<1>7. ASSUME NEW d \in Cards
      PROVE  Agrees(d)'
  <2>1. CASE d # c
    <3>1. card'[d] = card[d] /\ Mine(d)' = Mine(d)
      BY <1>2, <1>3, <2>1 DEF Mine, Sent, Left
    <3>2. ASSUME NEW r \in Mine(d), NEW p, \A q \in requests' : Done(q, p) => q = r,
                 NEW q \in requests, Done(q, p)
          PROVE  q = r
      <4>1. PICK t \in others : SameTask(q, t) /\ Done(t, p)
        BY <1>4, <3>2
      <4>2. t = r /\ r.card = d
        BY <1>2, <3>2, <4>1 DEF Mine, Sent
      <4>3. q.card # c
        BY <2>1, <4>1, <4>2 DEF SameTask
      <4>4. q \in requests'
        BY <1>2, <4>3 DEF Left
      <4> QED
        BY <3>2, <4>4
    <3> QED
      BY <1>5, <3>1, <3>2, StillAgrees DEF AInv, ServerUnchanged
  <2>2. CASE d = c
    <3>1. card'[d] = s /\ Mine(d)' = new
      BY <1>2, <1>3, <2>2 DEF Mine, Sent, Left
    <3>2. CASE s.shown = None
      BY <1>3, <3>1, <3>2, NoneAssumption DEF Agrees, Done
    <3>3. CASE \E n \in new : n.op = "status"
      BY <1>3, <3>1, <3>3, NoneAssumption DEF Agrees, Done
    <3>4. CASE ~card[c].busy /\ \E b \in BOOLEAN : s = [card[c] EXCEPT !.busy = b]
      <4>1. /\ s.shown = card[d].shown /\ PairOf(s) = PairOf(card[d])
            /\ s.connected = card[d].connected /\ s.refreshPending = card[d].refreshPending
        BY <1>3, <2>2, <3>4 DEF CardState, PairOf
      <4>2. Mine(d) = {}
        BY <1>3, <2>2, <3>4 DEF CardsFit, Fits
      <4>3. PairOf(card[d])' = PairOf(card[d])
        BY <3>1, <4>1 DEF PairOf
      <4> QED
        BY <1>3, <1>5, <3>1, <4>1, <4>2, <4>3, NoneAssumption
           DEF Agrees, Done, AInv, ServerUnchanged
    <3> QED
      BY <1>1, <3>2, <3>3, <3>4 DEF GoesTo
  <2> QED
    BY <2>1, <2>2
<1> QED
  BY <1>6, <1>7 DEF AInv

\* An answer is put in the place of the request.
LEMMA AnsweredFacts ==
  ASSUME IInv, NEW r \in requests, NEW reply \in Reply, Answered(r, reply), UNCHANGED card
  PROVE  \E a \in Request :
           /\ requests' = (requests \ {r}) \cup {a}
           /\ a.card = r.card /\ a.current = r.current /\ a.of = r.of /\ a.op = r.op
           /\ a.reply = reply
           /\ \A d \in Cards :
                \/ d = r.card /\ r.current /\ Mine(d) = {r} /\ Mine(d)' = {a}
                \/ Mine(d)' = Mine(d) /\ r \notin Mine(d)
<1> DEFINE a == [r EXCEPT !.reply = reply]
<1>1. r \in Request /\ requests \subseteq Request
  BY DEF IInv, TypeOK
<1>2. /\ a \in Request
      /\ a.card = r.card /\ a.current = r.current /\ a.of = r.of /\ a.op = r.op
      /\ a.reply = reply
  BY <1>1 DEF Request
<1>3. requests' = (requests \ {r}) \cup {a}
  BY DEF Answered
<1> HIDE DEF a
<1>4. ASSUME NEW d \in Cards
      PROVE  \/ d = r.card /\ r.current /\ Mine(d) = {r} /\ Mine(d)' = {a}
             \/ Mine(d)' = Mine(d) /\ r \notin Mine(d)
  <2>1. Fits(card[d], Mine(d))
    BY DEF IInv, CardsFit
  <2>2. CASE d = r.card /\ r.current
    <3>1. r \in Mine(d)
      BY <2>2 DEF Mine, Sent
    <3>2. Mine(d) = {r}
      BY <2>1, <3>1 DEF Fits
    <3>3. Mine(d)' = {a}
      BY <1>2, <1>3, <2>2, <3>2 DEF Mine, Sent
    <3> QED
      BY <2>2, <3>2, <3>3
  <2>3. CASE ~(d = r.card /\ r.current)
    BY <1>2, <1>3, <2>3 DEF Mine, Sent
  <2> QED
    BY <2>2, <2>3
<1> QED
  BY <1>2, <1>3, <1>4

LEMMA ServeAgrees ==
  ASSUME IInv, AInv, NEW r \in requests, Serve(r)
  PROVE  AInv'
<1>1. PICK reply \in Reply \ {None} : Answered(r, reply) /\ r.reply = None /\ UNCHANGED card
        /\ \/ reply = "error" /\ UNCHANGED stored /\ unheard \subseteq unheard'
           \/ /\ reply = "error" /\ r.of \in unheard' /\ unheard \subseteq unheard'
              /\ \A p : p # r.of => (p \in stored' <=> p \in stored)
           \/ /\ r.op = "status" /\ ServerUnchanged
              /\ reply = IF r.of \in stored THEN "saved" ELSE "missing"
           \/ /\ r.op \in {"save", "remove"} /\ reply = "done" /\ unheard' = unheard
              /\ (r.of \in stored') = (r.op = "save")
              /\ \A p : p # r.of => (p \in stored' <=> p \in stored)
           \/ r.op = "disarm" /\ reply = "done" /\ ServerUnchanged
  <2>1. CASE Refuse(r)
    BY <2>1, NoneAssumption DEF Refuse, ServerUnchanged, Reply
  <2>2. CASE Status(r)
    BY <2>2, NoneAssumption DEF Status, Reply
  <2>3. CASE Post(r)
    BY <2>3, NoneAssumption DEF Post, Reply
  <2>4. CASE WsDisarm(r)
    BY <2>4, NoneAssumption DEF WsDisarm, Reply
  <2> QED
    BY <2>1, <2>2, <2>3, <2>4 DEF Serve
<1>2. PICK a \in Request :
        /\ requests' = (requests \ {r}) \cup {a}
        /\ a.card = r.card /\ a.current = r.current /\ a.of = r.of /\ a.op = r.op
        /\ a.reply = reply
        /\ \A d \in Cards :
             \/ d = r.card /\ r.current /\ Mine(d) = {r} /\ Mine(d)' = {a}
             \/ Mine(d)' = Mine(d) /\ r \notin Mine(d)
  BY <1>1, AnsweredFacts
<1>3. r \in Request /\ requests \subseteq Request
  BY DEF IInv, TypeOK
<1>4. RepliesFit'
  BY <1>1, <1>2, <1>3 DEF RepliesFit, AInv, Request
<1>5. \A p : ~Done(r, p)
  BY <1>1, NoneAssumption DEF Done
<1>6. \A p : (\A q \in requests' : ~Done(q, p)) => \A q \in requests : ~Done(q, p)
  BY <1>2, <1>5
<1>7. \A p, x : (\A q \in requests' : Done(q, p) => q = x) =>
                \A q \in requests : Done(q, p) => q = x
  BY <1>2, <1>5
<1>8. ASSUME NEW d \in Cards
      PROVE  Agrees(d)'
  <2>1. Agrees(d) /\ card'[d] = card[d] /\ PairOf(card[d])' = PairOf(card[d])
    BY <1>1 DEF AInv, PairOf
  <2>2. CASE reply = "done" /\ r.op \in {"save", "remove"} /\ PairOf(card[d]) = r.of
    <3>1. (r.of \in stored') = (r.op = "save") /\ Done(a, r.of) /\ a \in requests'
      BY <1>1, <1>2, <2>2 DEF Done
    <3> QED
      BY <1>2, <2>1, <2>2, <3>1 DEF Agrees
  <2>3. CASE /\ ~(reply = "done" /\ r.op \in {"save", "remove"} /\ PairOf(card[d]) = r.of)
             /\ Mine(d)' = Mine(d)
    <3>1. unheard \subseteq unheard'
      BY <1>1 DEF ServerUnchanged
    <3>2. PairOf(card[d]) \notin unheard' =>
            (PairOf(card[d]) \in stored' <=> PairOf(card[d]) \in stored)
      BY <1>1, <2>3 DEF ServerUnchanged
    <3> QED
      BY <1>6, <1>7, <2>1, <2>3, <3>1, <3>2, StillAgrees
  <2>4. CASE /\ ~(reply = "done" /\ r.op \in {"save", "remove"} /\ PairOf(card[d]) = r.of)
             /\ d = r.card /\ r.current /\ Mine(d) = {r} /\ Mine(d)' = {a}
    <3>1. r.of = PairOf(card[d])
      BY <2>4 DEF IInv, CardsFit, Fits
    <3>2. unheard \subseteq unheard'
      BY <1>1 DEF ServerUnchanged
    <3>3. r.of \notin unheard' => (r.of \in stored' <=> r.of \in stored)
      BY <1>1, <2>4, <3>1 DEF ServerUnchanged
    <3>4. \A p : ~Done(a, p)
      BY <1>1, <1>2, <2>4, <3>1 DEF Done
    <3>5. a.op = "status" /\ a.reply \in {"saved", "missing"} =>
            (a.reply = "saved") = (r.of \in stored')
      BY <1>1, <1>2, <1>3 DEF ServerUnchanged
    <3> QED
      BY <1>2, <1>6, <2>1, <2>4, <3>1, <3>2, <3>3, <3>4, <3>5 DEF Agrees
  <2> QED
    BY <1>2, <2>2, <2>3, <2>4
<1> QED
  BY <1>4, <1>8 DEF AInv

LEMMA ReceiveAgrees ==
  ASSUME IInv, AInv, NEW r \in requests, Receive(r)
  PROVE  AInv'
<1>1. PICK shown \in Shows(r), new \in SUBSET Request :
        /\ requests' = (requests \ {r}) \cup new
        /\ \A n \in new : n.op = "status" /\ n.reply = None
        /\ \A d \in Cards : Hearing(r, shown, d)
  BY ReceiveFacts
<1>2. r \in Request /\ r.reply # None /\ r.current /\ ServerUnchanged
  BY DEF IInv, TypeOK, Receive
<1>3. RepliesFit'
  BY <1>1 DEF AInv, RepliesFit
<1>4. \A p : \A q \in requests' : Done(q, p) => q \in requests \ {r}
  BY <1>1, NoneAssumption DEF Done
<1>5. ASSUME NEW d \in Cards
      PROVE  Agrees(d)'
  <2>1. Agrees(d)
    BY DEF AInv
  <2>2. CASE Asks(Mine(d)')
    BY <2>2, AskingAgrees
  <2>3. CASE card'[d].refreshPending
    BY <2>3 DEF Agrees
  <2>4. CASE /\ d = r.card /\ Mine(d)' = {} /\ ~card[d].refreshPending
             /\ card'[d].shown = shown /\ card'[d].connected = card[d].connected
             /\ PairOf(card'[d]) = PairOf(card[d])
    <3> DEFINE p == PairOf(card[d])
    <3>1. r \in Mine(d) /\ Mine(d) = {r} /\ r.of = p
      BY <1>2, <2>4 DEF IInv, CardsFit, Fits, Mine, Sent
    <3>2. r.op # "status" => card[d].shown # None
      BY <3>1 DEF IInv, CardsFit, Fits
    <3> SUFFICES ASSUME card[d].connected, p \notin unheard, \A q \in requests' : ~Done(q, p),
                        shown # None
                 PROVE  shown.saved = (p \in stored)
      BY <1>2, <2>4 DEF Agrees, ServerUnchanged, PairOf
    <3>3. \A q \in requests : Done(q, p) => q = r
      BY <1>1
    <3>4. CASE r.op = "status"
      <4>1. r.reply \in {"saved", "missing"}
        BY <1>2, <3>4 DEF AInv, RepliesFit, Shows
      <4>2. shown.saved = (r.reply = "saved")
        BY <3>4, <4>1 DEF Shows
      <4>3. \A q \in requests : ~Done(q, p)
        BY <3>3, <3>4 DEF Done
      <4> QED
        BY <2>1, <2>4, <3>1, <3>4, <4>1, <4>2, <4>3 DEF Agrees
    <3>5. CASE r.op # "status" /\ ~Done(r, p)
      <4>1. shown = card[d].shown
        BY <1>2, <2>4, <3>1, <3>5 DEF AInv, RepliesFit, Shows, Done, Request
      <4>2. \A q \in requests : ~Done(q, p)
        BY <3>3, <3>5
      <4> QED
        BY <2>1, <2>4, <3>1, <3>2, <3>5, <4>1, <4>2 DEF Agrees
    <3>6. CASE Done(r, p)
      <4>1. shown.saved = (r.op = "save")
        BY <2>4, <3>2, <3>6 DEF Shows, Done, IInv, TypeOK, CardState, Shown
      <4> QED
        BY <2>1, <2>4, <3>1, <3>3, <3>6, <4>1 DEF Agrees
    <3> QED
      BY <3>4, <3>5, <3>6 DEF Done
  <2>5. CASE d # r.card /\ d \notin Listeners(r) /\ card'[d] = card[d] /\ Mine(d)' = Mine(d)
    <3> DEFINE p == PairOf(card[d])
    <3>1. card[d].connected => ~Done(r, p)
      BY <2>5 DEF Listeners, Done
    <3>2. ASSUME card[d].connected
          PROVE  /\ (\A q \in requests' : ~Done(q, p)) => \A q \in requests : ~Done(q, p)
                 /\ \A x : (\A q \in requests' : Done(q, p) => q = x) =>
                             \A q \in requests : Done(q, p) => q = x
      BY <1>1, <3>1, <3>2
    <3> QED
      BY <1>2, <2>1, <2>5, <3>2, StillAgrees DEF ServerUnchanged
  <2> QED
    BY <1>1, <2>2, <2>3, <2>4, <2>5 DEF Hearing
<1> QED
  BY <1>3, <1>5 DEF AInv

LEMMA ReceiveLateAgrees ==
  ASSUME IInv, AInv, NEW r \in requests, ReceiveLate(r)
  PROVE  AInv'
<1>1. /\ ~r.current /\ requests' = requests \ {r} /\ UNCHANGED <<stored, card>>
      /\ unheard' = IF r.op \in {"save", "remove"} /\ r.reply = "done"
                    THEN unheard \cup {r.of} ELSE unheard
  BY DEF ReceiveLate
<1>2. \A p : Done(r, p) => p \in unheard'
  BY <1>1 DEF Done
<1>3. RepliesFit'
  BY <1>1 DEF AInv, RepliesFit
<1>4. ASSUME NEW d \in Cards
      PROVE  Agrees(d)'
  <2> DEFINE p == PairOf(card[d])
  <2>1. Agrees(d) /\ card'[d] = card[d] /\ unheard \subseteq unheard'
    BY <1>1 DEF AInv
  <2>2. Mine(d)' = Mine(d)
    BY <1>1 DEF Mine, Sent
  <2>3. ASSUME p \notin unheard'
        PROVE  /\ (\A q \in requests' : ~Done(q, p)) => \A q \in requests : ~Done(q, p)
               /\ \A x : (\A q \in requests' : Done(q, p) => q = x) =>
                           \A q \in requests : Done(q, p) => q = x
    BY <1>1, <1>2, <2>3
  <2> QED
    BY <1>1, <2>1, <2>2, <2>3, StillAgrees
<1> QED
  BY <1>3, <1>4 DEF AInv

LEMMA InitAgrees ==
  ASSUME Init
  PROVE  AInv
<1>1. RepliesFit
  BY DEF Init, RepliesFit
<1>2. \A c \in Cards : ~card[c].connected
  BY DEF Init
<1> QED
  BY <1>1, <1>2 DEF AInv, Agrees

LEMMA Agreement == Spec => []AInv
<1>1. Init => AInv
  BY InitAgrees
<1>2. IInv /\ AInv /\ [Next]_vars => AInv'
  <2> SUFFICES ASSUME IInv, AInv, [Next]_vars PROVE AInv'
    OBVIOUS
  <2>1. CASE UNCHANGED vars
    <3>1. UNCHANGED <<stored, card, requests, unheard>>
      BY <2>1 DEF vars
    <3>2. \A d \in Cards : Mine(d)' = Mine(d)
      BY <3>1 DEF Mine, Sent
    <3>3. \A d \in Cards : Agrees(d)'
      BY <3>1, <3>2, StillAgrees DEF AInv
    <3> QED
      BY <3>1, <3>3 DEF AInv, RepliesFit
  <2>2. ASSUME NEW c \in Cards, CardActs(c)
        PROVE  AInv'
    BY <2>2, ActsAlone, OwnStepAgrees
  <2>3. ASSUME NEW r \in requests, Answer(r)
        PROVE  AInv'
    BY <2>3, ServeAgrees, ReceiveAgrees, ReceiveLateAgrees DEF Answer
  <2> QED
    BY <2>1, <2>2, <2>3 DEF Next, CardActs
<1> QED
  BY <1>1, <1>2, Invariance, PTL DEF Spec

\* For any cards, accounts and panels: a card that is attached and not busy shows what is
\* stored, unless a write is under way or nobody could be told of it
\* (jablotron-user-code-card.js:125-131, 249, 257-261).
THEOREM AgreeWithServer == Spec => []CardsAgree
<1>1. IInv /\ AInv => CardsAgree
  <2> SUFFICES ASSUME IInv, AInv, NEW c \in Cards,
                      card[c].shown # None, card[c].connected, ~card[c].busy,
                      PairOf(card[c]) \notin unheard,
                      \A r \in requests : r.op \in {"save", "remove"} => r.of # PairOf(card[c])
               PROVE  card[c].shown.saved = (PairOf(card[c]) \in stored)
    BY DEF CardsAgree
  <2>1. Mine(c) = {} /\ ~card[c].refreshPending
    BY DEF IInv, CardsFit, Fits
  <2>2. \A q \in requests : ~Done(q, PairOf(card[c]))
    BY DEF Done
  <2> QED
    BY <2>1, <2>2 DEF AInv, Agrees
<1> QED
  BY <1>1, Invariance, Agreement, PTL
=============================================================================
