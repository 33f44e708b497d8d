----------------------------- MODULE Zones_proofs -----------------------------
(***************************************************************************)
(* Proofs about Zones, for every mode, any bounds, with or without lost    *)
(* reports.  Between two reports that all is unset the panel speaks of one *)
(* part only, so the inbox is cut by such reports into stretches that each *)
(* speak of one part (StreamInv); when a state of a part reaches the head  *)
(* of the inbox, the zones of the other parts are therefore at rest, and   *)
(* after it has been processed the zones fit it (ZonesInv).  What the      *)
(* entity makes of zones that fit is then a question of get_active_zone    *)
(* alone (the last section).  A lost report breaks a stretch: gap says     *)
(* from where on the records count again.                                  *)
(***************************************************************************)
EXTENDS Zones, TLAPS

\* The states the panel can be in, and the events it sends.
RealState == {Disarmed, Service, AlarmWithoutArming}
               \cup [phase : {"arming", "armed", "entry", "alarm"}, part : Parts]
RealEvent == {Occurs("unset")} \cup {Occurs(SetEvent(p)) : p \in Parts}

\* Records that say something of a part being set, and those after which all is unset.
About(p) == {s \in RealState : s.part = p} \cup {Occurs(SetEvent(p))}
Reset == {Disarmed, Occurs("unset")}

\* The zones that belong to a part.
ZonesOfPart(p) ==
  IF p = "A" THEN {1}
  ELSE IF p = "B" THEN (IF mode = "split" THEN {2} ELSE {1, 2})
  ELSE (IF mode = "split" THEN {3} ELSE ZoneId)

\* The zones of the other parts are at rest.  (The event of the whole split system being
\* set reaches zones 1 and 2, too.)
Apart(p) ==
  \A z \in ZoneId \ ZonesOfPart(p) :
    zone[z] \in {"unknown", "disarmed"} \cup (IF mode = "split" /\ p = "C" THEN {"arming"} ELSE {})

\* Of the records in the inbox, those before a loss do not count any more.
Counts(i) == gap = None \/ i > gap

NoReset(i, j) == \A k \in i .. j : inbox[k] \notin Reset

\* Before the j-th record nothing but part p is set.
OnlyPart(p, j) ==
  /\ \A i \in 1 .. j - 1 : Counts(i) /\ NoReset(i, j - 1) => inbox[i] \in About(p) \cup {Other}
  /\ gap = None /\ NoReset(1, j - 1) => Apart(p)

\* The panel reports part p, or may be the next to do so.
MayReport(p) == panel.part = p \/ (panel = Disarmed /\ reported)

AllUnset == \A z \in Enabled : zone[z] = "disarmed"

RealInv ==
  /\ panel \in RealState
  /\ \A i \in 1 .. Len(inbox) : inbox[i] \in RealState \cup RealEvent \cup {Other}
  /\ last \in RealState \cup {None}
  /\ event \in {None, Occurs("unset")} \/ (panel.part \in Parts /\ event = Occurs(SetEvent(panel.part)))
  /\ mode # "unsplit" => \A z \in ZoneId : zone[z] # "disarming"

StreamInv ==
  \A p \in Parts :
    /\ \A j \in 1 .. Len(inbox) : inbox[j] \in About(p) => OnlyPart(p, j)
    /\ MayReport(p) => OnlyPart(p, Len(inbox) + 1)

\* What the zones are after state s.
Fits(s) ==
  IF mode = "unsplit" THEN zone[3] = s.phase \/ (s.phase = "entry" /\ zone[3] = "disarming")
  ELSE /\ s \in {Disarmed, Service} => \A z \in ZoneId : zone[z] = s.phase
       /\ s = AlarmWithoutArming /\ mode = "partial" => \A z \in ZoneId : zone[z] = "alarm"
       /\ s.part \in Parts =>
            /\ gap = None => Apart(s.part)
            /\ \A z \in ZonesOfPart(s.part) :
                 zone[z] = s.phase \/ (mode = "partial" /\ s.phase = "alarm" /\ s.part = "B" /\ z = 1)

ZonesInv ==
  /\ previous \in Reset /\ mode # "unsplit" => AllUnset
  /\ previous = Disarmed => last \in {Disarmed, None}
  /\ last = Disarmed => AllUnset
  /\ last # None => Fits(last)

-----------------------------------------------------------------------------
(* Records *)

\* What the mode makes of the parts and the zones.
LEMMA PartsFacts ==
  /\ Parts \subseteq {"A", "B", "C"} /\ (mode = "unsplit" => Parts = {"C"})
  /\ Enabled \subseteq ZoneId /\ (mode # "unsplit" => Enabled = ZoneId)
  /\ (mode = "unsplit" => Enabled = {3})
BY DEF Parts, Enabled, ZoneId

LEMMA NoneApart ==
  /\ None \notin Nat /\ None # Disarmed /\ None # Occurs("unset")
  /\ None \notin State /\ None \notin Event
<1>1. Disarmed \in State /\ Occurs("unset") \in Event
  BY DEF Disarmed, Occurs, State, Event, Phase
<1> QED
  BY <1>1, NoneAssumption DEF Record

\* The states that occur are a panel's, and of the whole or of a part.
LEMMA RealStateFacts ==
  ASSUME mode \in Modes, NEW s \in RealState
  PROVE  /\ s \in State /\ s \notin Event /\ s # Other
         /\ s.part \in Parts \cup {"none"}
         /\ s.part = "none" => s \in {Disarmed, Service, AlarmWithoutArming}
         /\ s.part # "none" => s.phase \in {"arming", "armed", "entry", "alarm"}
<1>1. CASE s \in {Disarmed, Service, AlarmWithoutArming}
  BY <1>1 DEF State, Event, Other, Disarmed, Service, AlarmWithoutArming, Phase
<1>2. CASE s \in [phase : {"arming", "armed", "entry", "alarm"}, part : Parts]
  <2>1. s.phase \in {"arming", "armed", "entry", "alarm"} /\ s.part \in {"A", "B", "C"} /\ s.part \in Parts
    BY <1>2, PartsFacts
  <2>2. s \in State
    BY <1>2, PartsFacts DEF State, Phase
  <2>3. s \notin Event /\ s # Other
    BY <2>1 DEF Event, Other
  <2> QED
    BY <2>1, <2>2, <2>3
<1> QED
  BY <1>1, <1>2 DEF RealState

LEMMA RealEventFacts ==
  ASSUME mode \in Modes, NEW e \in RealEvent
  PROVE  /\ e \in Event /\ e \notin State /\ e # Other
         /\ e = Occurs("unset") \/ \E p \in Parts : e = Occurs(SetEvent(p))
<1>1. \A p \in Parts : SetEvent(p) \in {"set", "setA", "setB", "setAB"}
  BY PartsFacts, ZonesAssumption DEF SetEvent, Parts
<1> QED
  BY <1>1 DEF RealEvent, Occurs, State, Event, Other, Phase

LEMMA SetEventFacts ==
  ASSUME mode \in Modes, NEW p \in Parts
  PROVE  /\ p = "A" => SetEvent(p) = "setA" /\ mode # "unsplit"
         /\ p = "B" => SetEvent(p) = (IF mode = "split" THEN "setB" ELSE "setAB") /\ mode # "unsplit"
         /\ p = "C" => SetEvent(p) = "set"
BY PartsFacts, ZonesAssumption DEF SetEvent, Parts

\* A record is about one part only.
LEMMA AboutOne ==
  ASSUME mode \in Modes, NEW p \in Parts, NEW q \in Parts, NEW r, r \in About(p), r \in About(q)
  PROVE  p = q
<1>1. CASE r \in RealState
  <2>1. r \notin Event
    BY <1>1, RealStateFacts
  <2>2. \A x \in Parts : Occurs(SetEvent(x)) \in Event
    BY RealEventFacts DEF RealEvent
  <2> QED
    BY <2>1, <2>2 DEF About
<1>2. CASE r \notin RealState
  BY <1>2, SetEventFacts, PartsFacts DEF About, Occurs
<1> QED
  BY <1>1, <1>2

LEMMA NotReset ==
  ASSUME mode \in Modes, NEW p \in Parts, NEW r \in About(p)
  PROVE  r \notin Reset /\ r # Other /\ r # Service /\ r # AlarmWithoutArming
         /\ r \in RealState \cup RealEvent
BY SetEventFacts, PartsFacts
   DEF About, Reset, Occurs, Disarmed, Service, AlarmWithoutArming, Other, RealState, RealEvent

LEMMA ModeKept ==
  ASSUME UNCHANGED mode
  PROVE  /\ Parts' = Parts /\ Enabled' = Enabled
         /\ RealState' = RealState /\ RealEvent' = RealEvent
         /\ \A p \in Parts : About(p)' = About(p) /\ ZonesOfPart(p)' = ZonesOfPart(p)
                             /\ SetEvent(p)' = SetEvent(p)
BY DEF Parts, Enabled, RealState, RealEvent, About, ZonesOfPart, SetEvent

-----------------------------------------------------------------------------
(* The zones after a record *)

\* What a call of the zones changes.
LEMMA Called ==
  ASSUME NEW zones, NEW status, CallZones(zones, status)
  PROVE  /\ DOMAIN zone' = ZoneId
         /\ \A z \in ZoneId :
              /\ z \in zones /\ z \in Enabled /\ ~(status = "entry" /\ zone[z] = "disarming")
                   => zone'[z] = status
              /\ ~(z \in zones /\ z \in Enabled) => zone'[z] = zone[z]
              /\ zone'[z] = status \/ zone'[z] = zone[z]
BY DEF CallZones

LEMMA CalledTyped ==
  ASSUME TypeOK, NEW zones, NEW status \in ZoneStatus, CallZones(zones, status)
  PROVE  zone' \in [ZoneId -> ZoneStatus]
BY DEF CallZones, TypeOK

\* After a report or an event that all is unset, it is.
LEMMA UnsetAll ==
  ASSUME UNCHANGED mode, NEW r \in Reset,
         (r \in State /\ ProcessState(r)) \/ (r \in Event /\ ProcessEvent(r))
  PROVE  AllUnset'
<1>1. CallZones(ZoneId, "disarmed")
  <2>1. CASE r = Disarmed
    <3>1. r \notin Event /\ r # Service /\ r.part = "none" /\ r.phase = "disarmed"
      BY <2>1 DEF Disarmed, Service, Event
    <3>2. ZonesOf(r) = ZoneId
      BY <3>1 DEF ZonesOf
    <3> QED
      BY <3>1, <3>2 DEF ProcessState
  <2>2. CASE r = Occurs("unset")
    <3>1. r \notin State /\ r.part = "unset"
      BY <2>2 DEF Occurs, State, Phase
    <3> QED
      BY <3>1 DEF ProcessEvent
  <2> QED
    BY <2>1, <2>2 DEF Reset
<1> QED
  BY <1>1, Called, ModeKept, PartsFacts DEF AllUnset

\* A record about a part reaches the zones of that part.
LEMMA StaysApart ==
  ASSUME mode \in Modes, UNCHANGED mode, NEW p \in Parts, NEW r \in About(p), Apart(p),
         (r \in State /\ ProcessState(r)) \/ (r \in Event /\ ProcessEvent(r))
  PROVE  Apart(p)'
<1>1. CASE r \in State
  <2>1. r \in RealState /\ r.part = p /\ r # Service
    BY <1>1, RealEventFacts, NotReset DEF About, Occurs, State, Phase
  <2>2. CallZones(ZonesOf(r), r.phase)
    BY <1>1, <2>1 DEF ProcessState, State, Event, Phase
  <2>3. ZonesOf(r) \subseteq ZonesOfPart(p)
    BY <2>1, PartsFacts DEF ZonesOf, ZonesOfPart, Disarmed, ZoneId
  <2>4. \A z \in ZoneId \ ZonesOfPart(p) : zone'[z] = zone[z]
    BY <2>2, <2>3, Called
  <2> QED
    BY <2>4, ModeKept DEF Apart
<1>2. CASE r \in Event
  <2>1. r = Occurs(SetEvent(p))
    BY <1>2, RealStateFacts DEF About
  <2>2. r.part = SetEvent(p) /\ ProcessEvent(r)
    BY <1>2, <2>1 DEF Occurs, State, Event, Phase
  <2>3. CASE p = "A"
    <3>1. CallZones({1}, "arming")
      BY <2>2, <2>3, SetEventFacts DEF ProcessEvent
    <3> QED
      BY <2>3, <3>1, Called, ModeKept DEF Apart, ZonesOfPart
  <2>4. CASE p = "B"
    <3>1. CallZones(IF mode = "split" THEN {2} ELSE {1, 2}, "arming")
      BY <2>2, <2>4, SetEventFacts DEF ProcessEvent
    <3> QED
      BY <2>4, <3>1, Called, ModeKept DEF Apart, ZonesOfPart
  <2>5. CASE p = "C"
    <3>1. CallZones(ZoneId, "arming")
      BY <2>2, <2>5, SetEventFacts DEF ProcessEvent
    <3> QED
      BY <2>5, <3>1, Called, ModeKept DEF Apart, ZonesOfPart
  <2> QED
    BY <2>3, <2>4, <2>5, PartsFacts
<1> QED
  BY <1>1, <1>2

-----------------------------------------------------------------------------
(* The inbox *)

LEMMA Grows ==
  ASSUME inbox \in Seq(Record), NEW r \in Record, inbox' = Append(inbox, r)
  PROVE  /\ inbox' \in Seq(Record)
         /\ Len(inbox) \in Nat /\ Len(inbox') = Len(inbox) + 1
         /\ inbox'[Len(inbox) + 1] = r
         /\ \A i \in 1 .. Len(inbox) : inbox'[i] = inbox[i]
OBVIOUS

LEMMA Shrinks ==
  ASSUME inbox \in Seq(Record), inbox # << >>, inbox' = Tail(inbox)
  PROVE  /\ inbox' \in Seq(Record) /\ Head(inbox) \in Record
         /\ Len(inbox) \in Nat \ {0} /\ Len(inbox') = Len(inbox) - 1
         /\ 1 \in 1 .. Len(inbox) /\ Head(inbox) = inbox[1]
         /\ \A i \in 1 .. Len(inbox) - 1 : inbox'[i] = inbox[i + 1]
OBVIOUS

\* What Send does to the inbox and to the mark of a loss.
LEMMA Sent ==
  ASSUME TypeOK, NEW r \in Record, Send(r)
  PROVE  /\ UNCHANGED <<mode, panel, previous, zone, keys, last, ready>>
         /\ Len(inbox) \in Nat /\ Len(inbox) < MaxInbox
         /\ \/ inbox' = Append(inbox, r) /\ gap' = gap
            \/ inbox' = inbox /\ gap = None /\ r = Other /\ gap' = gap
            \/ inbox' = inbox /\ gap = None /\ gap' = Len(inbox)
<1>1. Len(inbox) \in Nat
  BY DEF TypeOK
<1> QED
  BY <1>1 DEF Send

-----------------------------------------------------------------------------
(* Types *)

LEMMA InitTyped == Init => TypeOK
<1> SUFFICES ASSUME Init PROVE TypeOK
  OBVIOUS
<1>1. panel \in State
  <2>1. \A part \in Parts : part \in {"A", "B", "C", "none"}
    BY PartsFacts
  <2>2. \/ panel = Disarmed \/ panel = Service
        \/ panel \in [phase : Phase \ {"disarmed", "service"}, part : Parts]
    BY DEF Init
  <2>3. Disarmed \in State /\ Service \in State
    BY DEF State, Phase, Disarmed, Service
  <2>4. [phase : Phase \ {"disarmed", "service"}, part : Parts] \subseteq State
    BY <2>1 DEF State
  <2> QED
    BY <2>2, <2>3, <2>4
<1>2. mode \in Modes /\ event = None /\ reported \in BOOLEAN /\ ready \in BOOLEAN
        /\ previous = None /\ last = None /\ gap = None
  BY DEF Init
<1>3. inbox \in Seq(Record) /\ keys \in Seq({"disarm", "arm", "set"})
  BY DEF Init
<1>4. zone \in [ZoneId -> ZoneStatus] /\ \A z \in ZoneId : zone[z] = "unknown"
  BY DEF Init, ZoneStatus
<1> QED
  BY <1>1, <1>2, <1>3, <1>4 DEF TypeOK

LEMMA EventOfType ==
  ASSUME TypeOK, NEW t \in State, t.phase = "arming" => t.part \in Parts
  PROVE  EventOf(panel, t) \in Event \cup {None}
<1>1. Occurs("unset") \in Event
  BY DEF Occurs, Event
<1>2. \A p \in Parts : Occurs(SetEvent(p)) \in Event
  BY RealEventFacts DEF RealEvent, TypeOK
<1> QED
  BY <1>1, <1>2 DEF EventOf, TypeOK

LEMMA FollowsArming ==
  ASSUME NEW s, NEW t, Follows(s, t), t.phase = "arming"
  PROVE  s = Disarmed /\ t.part \in Parts
BY DEF Follows, Disarmed, Service, AlarmWithoutArming

LEMMA ArmingState ==
  ASSUME NEW p \in Parts
  PROVE  [phase |-> "arming", part |-> p] \in State
BY PartsFacts DEF State, Phase

LEMMA PanelMovesTyped ==
  ASSUME TypeOK, NEW t \in State, MovesTo(t)
  PROVE  panel' \in State /\ event' \in Event \cup {None} /\ reported' \in BOOLEAN
BY EventOfType, FollowsArming DEF MovesTo

LEMMA KeysTaken ==
  ASSUME TypeOK, keys # << >>
  PROVE  Tail(keys) \in Seq({"disarm", "arm", "set"})
BY DEF TypeOK

LEMMA NotEnabled ==
  ASSUME TypeOK, NEW zones, NEW status, CallZones(zones, status)
  PROVE  \A z \in ZoneId \ Enabled : zone'[z] = zone[z]
BY Called

LEMMA ProcessStateTyped ==
  ASSUME TypeOK, UNCHANGED mode, NEW s \in State, ProcessState(s)
  PROVE  /\ zone' \in [ZoneId -> ZoneStatus]
         /\ \A z \in ZoneId \ Enabled : zone'[z] \in {zone[z], "service"}
<1>1. CASE s = Service
  BY <1>1 DEF ProcessState, NotifyService, ZoneStatus
<1>2. CASE s # Service
  <2>1. CallZones(ZonesOf(s), s.phase) /\ s.phase \in ZoneStatus
    BY <1>2 DEF ProcessState, State, Phase, ZoneStatus
  <2> QED
    BY <2>1, CalledTyped, NotEnabled
<1> QED
  BY <1>1, <1>2

\* Every event is one call of some zones.
LEMMA EventCalls ==
  ASSUME NEW e \in Event, ProcessEvent(e)
  PROVE  \E zones \in SUBSET ZoneId, status \in {"arming", "disarmed"} : CallZones(zones, status)
<1>1. e.part \in {"set", "setA", "setB", "setAB", "unset"}
  BY DEF Event
<1>2. /\ e.part = "set" => CallZones(ZoneId, "arming")
      /\ e.part = "unset" => CallZones(ZoneId, "disarmed")
  BY DEF ProcessEvent
<1>3. /\ e.part = "setA" => CallZones({1}, "arming")
      /\ e.part = "setB" => CallZones({2}, "arming")
      /\ e.part = "setAB" => CallZones({1, 2}, "arming")
  BY DEF ProcessEvent
<1>4. {1} \in SUBSET ZoneId /\ {2} \in SUBSET ZoneId /\ {1, 2} \in SUBSET ZoneId
  BY DEF ZoneId
<1> QED
  BY <1>1, <1>2, <1>3, <1>4

LEMMA ProcessEventTyped ==
  ASSUME TypeOK, UNCHANGED mode, NEW e \in Event, ProcessEvent(e)
  PROVE  /\ zone' \in [ZoneId -> ZoneStatus]
         /\ \A z \in ZoneId \ Enabled : zone'[z] = zone[z]
<1>1. \E zones \in SUBSET ZoneId, status \in {"arming", "disarmed"} : CallZones(zones, status)
  BY EventCalls
<1>2. \A status \in {"arming", "disarmed"} : status \in ZoneStatus
  BY DEF ZoneStatus
<1> QED
  BY <1>1, <1>2, CalledTyped, NotEnabled

LEMMA TypesStep ==
  ASSUME TypeOK, Next
  PROVE  TypeOK'
<1> USE DEF panelVars, link
<1>1. CASE PanelMoves
  BY <1>1, PanelMovesTyped DEF PanelMoves, TypeOK, Enabled
<1>2. ASSUME NEW r \in Record, Send(r), event' \in Event \cup {None}, reported' \in BOOLEAN
      PROVE  TypeOK'
  <2>1. inbox' \in Seq(Record)
    BY <1>2, Sent, Grows DEF TypeOK
  <2>2. gap' \in 0 .. MaxInbox \cup {None}
    BY <1>2, Sent, ZonesAssumption DEF TypeOK
  <2> QED
    BY <1>2, <2>1, <2>2, Sent DEF TypeOK, Enabled
<1>3. CASE ReportState
  BY <1>2, <1>3 DEF ReportState, TypeOK, Record
<1>4. CASE ReportEvent
  BY <1>2, <1>4 DEF ReportEvent, TypeOK, Record
<1>5. CASE ReportOther
  BY <1>2, <1>5 DEF ReportOther, TypeOK, Record
<1>6. CASE KeysIgnored
  BY <1>6, KeysTaken DEF KeysIgnored, TypeOK, Enabled
<1>7. CASE PanelTakesKeys
  <2>1. keys' \in Seq({"disarm", "arm", "set"})
    BY <1>7, KeysTaken DEF PanelTakesKeys
  <2>2. \E t \in State : MovesTo(t)
    <3>1. CASE panel = Disarmed
      <4>1. "C" \in Parts
        BY DEF Parts
      <4>2. \E p \in Parts : MovesTo([phase |-> "arming", part |-> p])
        BY <1>7, <3>1, <4>1 DEF PanelTakesKeys
      <4> QED
        BY <4>2, ArmingState
    <3>2. CASE panel # Disarmed
      BY <1>7, <3>2 DEF PanelTakesKeys, State, Disarmed, Phase
    <3> QED
      BY <3>1, <3>2
  <2> QED
    BY <1>7, <2>1, <2>2, PanelMovesTyped DEF PanelTakesKeys, TypeOK, Enabled
<1>8. CASE Process
  <2> DEFINE r == Head(inbox)
  <2>1. inbox' \in Seq(Record) /\ r \in Record
    BY <1>8, Shrinks DEF Process, TypeOK
  <2>2. UNCHANGED <<mode, panelVars, keys>> /\ previous' = r
    BY <1>8 DEF Process
  <2>3. /\ zone' \in [ZoneId -> ZoneStatus]
        /\ \A z \in ZoneId \ Enabled : zone'[z] \in {zone[z], "service"}
        /\ last' \in State \cup {None} /\ ready' \in BOOLEAN
    <3>1. CASE r = previous \/ r = Other
      <4>1. zone' = zone /\ last' = last /\ ready' = ready
        BY <1>8, <3>1 DEF Process, State, Event, Other, Phase
      <4> QED
        BY <4>1 DEF TypeOK
    <3> QED
      BY <1>8, <2>2, ProcessStateTyped, ProcessEventTyped DEF Process, TypeOK
  <2>4. gap' \in 0 .. MaxInbox \cup {None}
    BY <1>8, ZonesAssumption DEF Process, TypeOK
  <2> QED
    BY <2>1, <2>2, <2>3, <2>4 DEF TypeOK, Enabled
<1>9. ASSUME NEW e \in Entity, AlarmDisarm(e)
      PROVE  TypeOK'
  <2>1. keys' \in Seq({"disarm", "arm", "set"})
    BY <1>9 DEF AlarmDisarm, TypeOK
  <2>2. zone' \in [ZoneId -> ZoneStatus] /\ \A z \in ZoneId \ Enabled : zone'[z] = zone[z]
    BY <1>9 DEF AlarmDisarm, TypeOK, Enabled, ZoneId, ZoneStatus
  <2> QED
    BY <1>9, <2>1, <2>2 DEF AlarmDisarm, TypeOK, Enabled
<1>10. ASSUME NEW e \in Entity, AlarmArm(e)
       PROVE  TypeOK'
  <2>1. keys' \in Seq({"disarm", "arm", "set"})
    BY <1>10 DEF AlarmArm, TypeOK
  <2> QED
    BY <1>10, <2>1 DEF AlarmArm, TypeOK, Enabled
<1> QED
  BY <1>1, <1>3, <1>4, <1>5, <1>6, <1>7, <1>8, <1>9, <1>10 DEF Next

-----------------------------------------------------------------------------
(* What can be sent *)

LEMMA InitReal == Init => RealInv
<1> SUFFICES ASSUME Init PROVE RealInv
  OBVIOUS
<1>1. panel \in RealState
  <2>1. [phase : Phase \ {"disarmed", "service"}, part : Parts] \subseteq RealState
    BY DEF RealState, Phase
  <2> QED
    BY <2>1 DEF Init, RealState
<1>2. Len(inbox) = 0 /\ event = None /\ last = None /\ \A z \in ZoneId : zone[z] = "unknown"
  BY DEF Init
<1> QED
  BY <1>1, <1>2 DEF RealInv

\* However the panel moves, it is in one of its states, and what it has still to report of a
\* part being set is of the part it is in.
LEMMA MovesReal ==
  ASSUME TypeOK, RealInv, NEW t \in State, MovesTo(t), UNCHANGED mode
  PROVE  /\ panel' \in RealState
         /\ \/ event' \in {None, Occurs("unset")}
            \/ panel'.part \in Parts /\ event' = Occurs(SetEvent(panel'.part))
<1>1. panel' = t /\ Follows(panel, t) /\ event' = EventOf(panel, t) /\ panel \in RealState
  BY DEF MovesTo, RealInv
<1>2. mode \in Modes
  BY DEF TypeOK
<1>3. CASE t.part = panel.part /\ panel.part # "none"
           /\ t.phase \in {"armed", "entry", "alarm"}
  <2>1. panel.part \in Parts
    BY <1>1, <1>2, <1>3, RealStateFacts
  <2>2. t \in RealState
    BY <1>3, <2>1 DEF State, RealState
  <2>3. event' = event
    BY <1>1, <1>3 DEF EventOf, Disarmed
  <2> QED
    BY <1>1, <1>3, <2>1, <2>2, <2>3 DEF RealInv
<1>4. CASE panel = Disarmed /\ t.phase = "arming" /\ t.part \in Parts
  <2>1. t \in RealState
    BY <1>4 DEF State, RealState
  <2>2. event' = Occurs(SetEvent(t.part))
    BY <1>1, <1>4 DEF EventOf
  <2> QED
    BY <1>1, <1>4, <2>1, <2>2
<1>5. CASE panel = Disarmed /\ t \in {Service, AlarmWithoutArming}
  <2>1. event' = event
    BY <1>1, <1>5 DEF EventOf, Disarmed, Service, AlarmWithoutArming
  <2>2. panel.part \notin Parts
    BY <1>5, PartsFacts DEF Disarmed
  <2> QED
    BY <1>1, <1>5, <2>1, <2>2 DEF RealInv, RealState
<1>6. CASE panel # Disarmed /\ t = Disarmed
  <2>1. panel # Service => event' = Occurs("unset")
    BY <1>1, <1>6 DEF EventOf, Disarmed
  <2>2. panel = Service => event' = event /\ panel.part \notin Parts
    BY <1>1, <1>6, PartsFacts DEF EventOf, Disarmed, Service
  <2> QED
    BY <1>1, <1>6, <2>1, <2>2 DEF RealInv, RealState
<1>7. \/ t.part = panel.part /\ panel.part # "none" /\ t.phase \in {"armed", "entry", "alarm"}
      \/ panel = Disarmed /\ t.phase = "arming" /\ t.part \in Parts
      \/ panel = Disarmed /\ t \in {Service, AlarmWithoutArming}
      \/ panel # Disarmed /\ t = Disarmed
  BY <1>1 DEF Follows
<1> QED
  BY <1>3, <1>4, <1>5, <1>6, <1>7

\* Who moves the panel, a user at it or keys that Home Assistant has sent.
PanelStep == \E t \in State : MovesTo(t)

LEMMA KeysMovePanel ==
  ASSUME TypeOK, PanelTakesKeys
  PROVE  PanelStep
<1>1. CASE panel = Disarmed
  <2>1. "C" \in Parts
    BY DEF Parts
  <2>2. \E p \in Parts : MovesTo([phase |-> "arming", part |-> p])
    BY <1>1, <2>1 DEF PanelTakesKeys
  <2> QED
    BY <2>2, ArmingState DEF PanelStep
<1>2. CASE panel # Disarmed
  BY <1>2 DEF PanelTakesKeys, State, Disarmed, Phase, PanelStep
<1> QED
  BY <1>1, <1>2

\* The record that is processed is skipped, or it is a state or an event.
Skipped(r) == (r = previous \/ r = Other) /\ UNCHANGED <<zone, last>>
StateTaken(r) == r # previous /\ r \in RealState /\ ProcessState(r) /\ last' = r
EventTaken(r) == r # previous /\ r \in RealEvent /\ ProcessEvent(r) /\ last' = None

\* Process, over the records that occur.
LEMMA Processed ==
  ASSUME TypeOK, RealInv, Process
  PROVE  /\ inbox[1] \in RealState \cup RealEvent \cup {Other}
         /\ previous' = inbox[1] /\ UNCHANGED <<mode, panel, event, reported>>
         /\ Skipped(inbox[1]) \/ StateTaken(inbox[1]) \/ EventTaken(inbox[1])
         /\ Len(inbox) \in Nat \ {0} /\ Len(inbox') = Len(inbox) - 1
         /\ \A i \in 1 .. Len(inbox) - 1 : inbox'[i] = inbox[i + 1]
         /\ gap' = IF gap = None \/ (gap = 0 /\ inbox[1] = Disarmed) THEN None
                   ELSE IF gap = 0 THEN 0 ELSE gap - 1
<1> DEFINE r == inbox[1]
<1>1. /\ Len(inbox) \in Nat \ {0} /\ Len(inbox') = Len(inbox) - 1
      /\ 1 \in 1 .. Len(inbox) /\ Head(inbox) = r
      /\ \A i \in 1 .. Len(inbox) - 1 : inbox'[i] = inbox[i + 1]
  BY Shrinks DEF Process, TypeOK
<1>2. r \in RealState \cup RealEvent \cup {Other} /\ mode \in Modes
  BY <1>1 DEF RealInv, TypeOK
<1>3. /\ previous' = r /\ UNCHANGED <<mode, panel, event, reported>>
      /\ gap' = IF gap = None \/ (gap = 0 /\ r = Disarmed) THEN None
                ELSE IF gap = 0 THEN 0 ELSE gap - 1
      /\ \/ (r = previous \/ r = Other) /\ zone' = zone /\ last' = last
         \/ r # previous /\ r \in State /\ ProcessState(r) /\ last' = r
         \/ r # previous /\ r \in Event /\ ProcessEvent(r) /\ last' = None
  BY <1>1 DEF Process, panelVars
<1> HIDE DEF r
<1>4. Other \notin State /\ Other \notin Event
  BY DEF Other, State, Event, Phase
<1>5. (r \in State => r \in RealState) /\ (r \in Event => r \in RealEvent)
  BY <1>2, <1>4, RealStateFacts, RealEventFacts
<1>6. Skipped(r) \/ StateTaken(r) \/ EventTaken(r)
  BY <1>3, <1>5 DEF Skipped, StateTaken, EventTaken
<1> QED
  BY <1>1, <1>2, <1>3, <1>6 DEF r

\* Only a request makes a zone disarming, and only in an unsplit system.
LEMMA NeverDisarming ==
  ASSUME TypeOK, RealInv, Process
  PROVE  mode' # "unsplit" => \A z \in ZoneId : zone'[z] # "disarming"
<1> DEFINE r == inbox[1]
<1>1. mode' = mode /\ (mode # "unsplit" => \A z \in ZoneId : zone[z] # "disarming")
        /\ (Skipped(r) \/ StateTaken(r) \/ EventTaken(r)) /\ mode \in Modes
  BY Processed DEF RealInv, TypeOK
<1>2. CASE Skipped(r)
  BY <1>1, <1>2 DEF Skipped
<1>3. CASE StateTaken(r)
  <2>1. r.phase # "disarming"
    BY <1>1, <1>3, RealStateFacts DEF StateTaken, State, Phase
  <2>2. CASE r = Service
    BY <1>1, <1>3, <2>2 DEF StateTaken, ProcessState, NotifyService
  <2>3. CASE r # Service
    <3>1. CallZones(ZonesOf(r), r.phase)
      BY <1>3, <2>3 DEF StateTaken, ProcessState
    <3> QED
      BY <1>1, <2>1, <3>1, Called
  <2> QED
    BY <2>2, <2>3
<1>4. CASE EventTaken(r)
  <2>1. r \in Event /\ ProcessEvent(r)
    BY <1>1, <1>4, RealEventFacts DEF EventTaken
  <2>2. \E zones \in SUBSET ZoneId, status \in {"arming", "disarmed"} : CallZones(zones, status)
    BY <2>1, EventCalls
  <2> QED
    BY <1>1, <2>2, Called
<1> QED
  BY <1>1, <1>2, <1>3, <1>4

LEMMA RealStep ==
  ASSUME TypeOK, RealInv, Next
  PROVE  RealInv'
<1> USE DEF panelVars, link
<1>0. UNCHANGED mode
  BY DEF Next, PanelMoves, ReportState, ReportEvent, ReportOther, Send, KeysIgnored,
         PanelTakesKeys, Process, AlarmDisarm, AlarmArm
<1>1. CASE PanelMoves \/ PanelTakesKeys
  <2>1. PanelStep /\ UNCHANGED <<inbox, last, zone>>
    BY <1>1, KeysMovePanel DEF PanelMoves, PanelTakesKeys, PanelStep
  <2>2. PICK t \in State : MovesTo(t)
    BY <2>1 DEF PanelStep
  <2>3. /\ panel' \in RealState
        /\ \/ event' \in {None, Occurs("unset")}
           \/ panel'.part \in Parts /\ event' = Occurs(SetEvent(panel'.part))
    BY <1>0, <2>2, MovesReal
  <2> QED
    BY <1>0, <2>1, <2>3, ModeKept DEF RealInv
<1>2. CASE ReportState \/ ReportEvent \/ ReportOther
  <2>1. \E r \in RealState \cup RealEvent \cup {Other} : Send(r)
    BY <1>2 DEF ReportState, ReportEvent, ReportOther, RealInv, RealEvent
  <2>2. PICK r \in RealState \cup RealEvent \cup {Other} : Send(r)
    BY <2>1
  <2>3. r \in Record /\ mode \in Modes
    BY RealStateFacts, RealEventFacts DEF Record, TypeOK
  <2>4. UNCHANGED <<panel, last, zone>> /\ (inbox' = inbox \/ inbox' = Append(inbox, r))
    BY <2>2, <2>3, Sent
  <2>5. \A i \in 1 .. Len(inbox') : inbox'[i] \in RealState \cup RealEvent \cup {Other}
    <3>1. CASE inbox' = inbox
      BY <3>1 DEF RealInv
    <3>2. CASE inbox' = Append(inbox, r)
      <4>1. /\ Len(inbox) \in Nat /\ Len(inbox') = Len(inbox) + 1
            /\ inbox'[Len(inbox) + 1] = r
            /\ \A i \in 1 .. Len(inbox) : inbox'[i] = inbox[i]
        BY <2>3, <3>2, Grows DEF TypeOK
      <4>2. \A i \in 1 .. Len(inbox') : i \in 1 .. Len(inbox) \/ i = Len(inbox) + 1
        BY <4>1
      <4> QED
        BY <4>1, <4>2 DEF RealInv
    <3> QED
      BY <2>4, <3>1, <3>2
  <2>6. event' \in {None, event}
    BY <1>2 DEF ReportState, ReportEvent, ReportOther
  <2> QED
    BY <1>0, <2>4, <2>5, <2>6, ModeKept DEF RealInv
<1>3. CASE Process
  <2>1. /\ Len(inbox) \in Nat \ {0} /\ Len(inbox') = Len(inbox) - 1
        /\ \A i \in 1 .. Len(inbox) - 1 : inbox'[i] = inbox[i + 1]
        /\ UNCHANGED <<panel, event>> /\ last' \in RealState \cup {None}
    BY <1>3, Processed DEF Skipped, StateTaken, EventTaken, RealInv
  <2>2. \A i \in 1 .. Len(inbox') : i + 1 \in 1 .. Len(inbox) /\ inbox'[i] = inbox[i + 1]
    BY <2>1
  <2> QED
    BY <1>0, <1>3, <2>1, <2>2, ModeKept, NeverDisarming DEF RealInv
<1>4. ASSUME NEW e \in Entity, AlarmDisarm(e)
      PROVE  RealInv'
  <2>1. UNCHANGED <<panel, event, inbox>> /\ last' = None /\ (mode # "unsplit" => zone' = zone)
    BY <1>4 DEF AlarmDisarm
  <2> QED
    BY <1>0, <2>1, ModeKept DEF RealInv
<1>5. CASE KeysIgnored \/ \E e \in Entity : AlarmArm(e)
  <2>1. UNCHANGED <<panel, event, inbox, last, zone>>
    BY <1>5 DEF KeysIgnored, AlarmArm
  <2> QED
    BY <1>0, <2>1, ModeKept DEF RealInv
<1> QED
  BY <1>1, <1>2, <1>3, <1>4, <1>5 DEF Next

-----------------------------------------------------------------------------
(* What is in the inbox, and what the panel may send next *)

\* A step that changes neither the zones nor what precedes a record.
LEMMA OnlyPartSame ==
  ASSUME NEW p \in Parts, NEW j \in Nat, OnlyPart(p, j), UNCHANGED <<mode, zone, gap>>,
         \A i \in 1 .. j - 1 : inbox'[i] = inbox[i]
  PROVE  OnlyPart(p, j)'
<1>1. \A i \in 1 .. j - 1 : (Counts(i) <=> Counts(i)')
  BY DEF Counts
<1>2. \A i \in 1 .. j - 1 : NoReset(i, j - 1)' => NoReset(i, j - 1)
  BY DEF NoReset, Reset
<1>3. NoReset(1, j - 1)' => NoReset(1, j - 1)
  BY DEF NoReset, Reset
<1>4. \A i \in 1 .. j - 1 : (Counts(i) /\ NoReset(i, j - 1))' => inbox'[i] \in About(p) \cup {Other}
  BY <1>1, <1>2 DEF OnlyPart
<1>5. (gap = None /\ NoReset(1, j - 1))' => Apart(p)'
  BY <1>3, ModeKept DEF OnlyPart, Apart
<1> QED
  BY <1>4, <1>5, ModeKept DEF OnlyPart

LEMMA Beyond ==
  ASSUME NEW j \in Nat, NEW g \in Nat, j <= g + 1, NEW i \in 1 .. j - 1
  PROVE  ~(i > g)
OBVIOUS

\* After a loss nothing is said of what was sent before it.
LEMMA OnlyPartLost ==
  ASSUME NEW p \in Parts, NEW j \in Nat, UNCHANGED mode, gap' \in Nat, j <= gap' + 1
  PROVE  OnlyPart(p, j)'
<1>1. gap' # None
  BY NoneApart
<1>2. ASSUME NEW i \in 1 .. j - 1 PROVE ~(i > gap')
  BY Beyond
<1> QED
  BY <1>1, <1>2 DEF OnlyPart, Counts

\* A record is sent: one of the part the panel is in, or one that unsets all.
LEMMA OnlyPartGrows ==
  ASSUME TypeOK, UNCHANGED <<mode, zone, gap>>,
         NEW r \in Record, inbox' = Append(inbox, r), NEW p \in Parts,
         r \in Reset \/ (r \in About(p) \cup {Other} /\ OnlyPart(p, Len(inbox) + 1))
  PROVE  OnlyPart(p, Len(inbox) + 1)'
<1> PICK n : n = Len(inbox)
  OBVIOUS
<1>1. /\ n \in Nat /\ Len(inbox') = n + 1 /\ inbox'[n + 1] = r
      /\ \A i \in 1 .. n : inbox'[i] = inbox[i]
  BY Grows DEF TypeOK
<1>2. CASE r \in Reset
  <2>1. \A i \in 1 .. n + 1 : n + 1 \in i .. n + 1
    BY <1>1
  <2>2. \A i \in 1 .. n + 1 : ~NoReset(i, n + 1)'
    BY <1>1, <1>2, <2>1 DEF NoReset, Reset
  <2>3. 1 \in 1 .. n + 1 /\ (n + 2) - 1 = n + 1 /\ (n + 1) + 1 = n + 2
    BY <1>1
  <2>4. OnlyPart(p, n + 2)'
    BY <2>2, <2>3 DEF OnlyPart
  <2> QED
    BY <1>1, <2>3, <2>4
<1>3. CASE r \notin Reset /\ r \in About(p) \cup {Other} /\ OnlyPart(p, n + 1)
  <2>1. \A i \in 1 .. n : NoReset(i, n + 1)' => NoReset(i, n)
    BY <1>1 DEF NoReset, Reset
  <2>2. NoReset(1, n + 1)' => NoReset(1, n)
    BY <1>1 DEF NoReset, Reset
  <2>3. (n + 1) - 1 = n /\ (n + 2) - 1 = n + 1 /\ (n + 1) + 1 = n + 2
    BY <1>1
  <2>4. ASSUME NEW i \in 1 .. n + 1, (Counts(i) /\ NoReset(i, n + 1))'
        PROVE  inbox'[i] \in About(p) \cup {Other}
    <3>1. CASE i = n + 1
      BY <1>1, <1>3, <3>1
    <3>2. CASE i \in 1 .. n
      BY <1>1, <1>3, <2>1, <2>3, <2>4, <3>2 DEF OnlyPart, Counts
    <3> QED
      BY <1>1, <3>1, <3>2
  <2>5. (gap = None /\ NoReset(1, n + 1))' => Apart(p)'
    BY <1>3, <2>2, <2>3, ModeKept DEF OnlyPart, Apart
  <2>6. OnlyPart(p, n + 2)'
    BY <2>3, <2>4, <2>5, ModeKept DEF OnlyPart
  <2> QED
    BY <1>1, <2>3, <2>6
<1> QED
  BY <1>2, <1>3

LEMMA UnsetApart ==
  ASSUME AllUnset, NEW p \in Parts
  PROVE  Apart(p)
<1>1. CASE mode = "unsplit"
  BY <1>1, PartsFacts DEF Apart, ZonesOfPart
<1>2. CASE mode # "unsplit"
  BY <1>2, PartsFacts DEF Apart, AllUnset
<1> QED
  BY <1>1, <1>2

\* What is processed brings the zones in line.
LEMMA ProcessedApart ==
  ASSUME TypeOK, RealInv, ZonesInv, Process, NEW p \in Parts,
         \/ inbox[1] \in Reset
         \/ inbox[1] \in About(p) \cup {Other} /\ Apart(p)
  PROVE  Apart(p)'
<1> DEFINE r == inbox[1]
<1>1. mode' = mode /\ (Skipped(r) \/ StateTaken(r) \/ EventTaken(r)) /\ mode \in Modes /\ Parts' = Parts
  BY Processed, ModeKept DEF TypeOK
<1>2. \/ Skipped(r)
      \/ /\ r # previous
         /\ (r \in State /\ ProcessState(r)) \/ (r \in Event /\ ProcessEvent(r))
  BY <1>1, RealStateFacts, RealEventFacts DEF StateTaken, EventTaken
<1>3. CASE r \in Reset
  <2>1. CASE Skipped(r)
    <3>1. r = previous
      BY <1>3, <2>1 DEF Skipped, Reset, Other, Disarmed, Occurs
    <3>2. Apart(p)
      <4>1. mode = "unsplit" => Apart(p)
        BY PartsFacts DEF Apart, ZonesOfPart
      <4>2. mode # "unsplit" => Apart(p)
        BY <1>3, <3>1, UnsetApart DEF ZonesInv
      <4> QED
        BY <4>1, <4>2
    <3> QED
      BY <1>1, <2>1, <3>2, ModeKept DEF Skipped, Apart
  <2>2. CASE ~Skipped(r)
    <3>1. AllUnset'
      BY <1>1, <1>2, <1>3, <2>2, UnsetAll
    <3>2. AllUnset' /\ p \in Parts' => Apart(p)'
      <4>1. CASE mode = "unsplit"
        BY <1>1, <4>1, PartsFacts DEF Apart, ZonesOfPart
      <4>2. CASE mode # "unsplit"
        BY <1>1, <4>2, PartsFacts, ModeKept DEF Apart, AllUnset
      <4> QED
        BY <4>1, <4>2
    <3> QED
      BY <1>1, <3>1, <3>2
  <2> QED
    BY <2>1, <2>2
<1>4. CASE r \notin Reset /\ r \in About(p) \cup {Other} /\ Apart(p)
  <2>1. CASE Skipped(r)
    BY <1>1, <1>4, <2>1, ModeKept DEF Skipped, Apart
  <2>2. CASE ~Skipped(r)
    <3>1. r # Other
      BY <1>2, <2>2 DEF Other, State, Event, Phase
    <3> QED
      BY <1>1, <1>2, <1>4, <2>2, <3>1, StaysApart
  <2> QED
    BY <2>1, <2>2
<1> QED
  BY <1>3, <1>4

\* Processing the first record moves everything up.
LEMMA OnlyPartShrinks ==
  ASSUME TypeOK, RealInv, ZonesInv, Process, NEW p \in Parts, NEW j \in 1 .. Len(inbox),
         OnlyPart(p, j + 1)
  PROVE  OnlyPart(p, j)'
<1> PICK n : n = Len(inbox)
  OBVIOUS
<1>0. gap \in Nat \/ gap = None
  BY ZonesAssumption DEF TypeOK
<1>1. /\ n \in Nat \ {0} /\ j \in 1 .. n
      /\ \A i \in 1 .. n - 1 : inbox'[i] = inbox[i + 1]
      /\ mode' = mode
      /\ gap' = IF gap = None \/ (gap = 0 /\ inbox[1] = Disarmed) THEN None
                ELSE IF gap = 0 THEN 0 ELSE gap - 1
      /\ gap \in Nat \/ gap = None
  BY <1>0, Processed
<1>2. \A i \in 1 .. j - 1 : i + 1 \in 1 .. j /\ i \in 1 .. n - 1 /\ (j + 1) - 1 = j
  BY <1>1
<1>3. (j + 1) - 1 = j /\ 1 \in 1 .. j
  BY <1>1
<1>4. \A i \in 1 .. j - 1 : Counts(i)' => Counts(i + 1)
  <2>1. CASE gap = None
    BY <2>1 DEF Counts
  <2>2. CASE gap # None /\ gap = 0
    BY <1>1, <2>2 DEF Counts
  <2>3. CASE gap # None /\ gap # 0
    <3>1. gap' = gap - 1 /\ gap \in Nat /\ gap' \in Nat /\ gap' # None
      BY <1>1, <2>3, NoneApart
    <3> QED
      BY <1>1, <3>1 DEF Counts
  <2> QED
    BY <2>1, <2>2, <2>3
<1>5. \A i \in 1 .. j - 1 : NoReset(i, j - 1)' => NoReset(i + 1, j)
  <2> SUFFICES ASSUME NEW i \in 1 .. j - 1, NoReset(i, j - 1)', NEW k \in i + 1 .. j
               PROVE  inbox[k] \notin Reset
    BY DEF NoReset
  <2>1. k - 1 \in i .. j - 1 /\ k - 1 \in 1 .. n - 1 /\ (k - 1) + 1 = k
    BY <1>1
  <2> QED
    BY <1>1, <2>1 DEF NoReset, Reset
<1>6. ASSUME NEW i \in 1 .. j - 1, (Counts(i) /\ NoReset(i, j - 1))'
      PROVE  inbox'[i] \in About(p) \cup {Other}
  BY <1>1, <1>2, <1>4, <1>5, <1>6 DEF OnlyPart
<1>7. ASSUME (gap = None /\ NoReset(1, j - 1))'
      PROVE  Apart(p)'
  <2>1. CASE inbox[1] \in Reset
    BY <2>1, ProcessedApart
  <2>2. CASE inbox[1] \notin Reset
    <3>1. gap = None
      <4>1. inbox[1] # Disarmed
        BY <2>2 DEF Reset
      <4>2. gap \in Nat => gap' \in Nat
        BY <1>1, <4>1, NoneApart
      <4> QED
        BY <1>1, <1>7, <4>2, NoneApart
    <3>2. NoReset(1, j)
      <4> SUFFICES ASSUME NEW k \in 1 .. j PROVE inbox[k] \notin Reset
        BY DEF NoReset
      <4>1. CASE k = 1
        BY <2>2, <4>1
      <4>2. CASE k # 1
        <5>1. k - 1 \in 1 .. j - 1 /\ k - 1 \in 1 .. n - 1 /\ (k - 1) + 1 = k
          BY <1>1, <4>2
        <5> QED
          BY <1>1, <1>7, <5>1 DEF NoReset, Reset
      <4> QED
        BY <4>1, <4>2
    <3>3. Apart(p) /\ inbox[1] \in About(p) \cup {Other}
      BY <1>3, <3>1, <3>2 DEF OnlyPart, Counts
    <3> QED
      BY <3>3, ProcessedApart
  <2> QED
    BY <2>1, <2>2
<1> QED
  BY <1>1, <1>6, <1>7, ModeKept DEF OnlyPart

LEMMA InitStream == Init => StreamInv
<1>0. Init => Len(inbox) = 0
  BY DEF Init
<1> SUFFICES ASSUME Init, NEW p \in Parts PROVE OnlyPart(p, 1)
  BY <1>0 DEF StreamInv
<1>1. \A z \in ZoneId : zone[z] = "unknown"
  BY DEF Init
<1> QED
  BY <1>1 DEF OnlyPart, Apart

\* What is sent fits what was sent before: the panel is in one part until it is unset.
LEMMA StreamSent ==
  ASSUME TypeOK, StreamInv, NEW r \in Record, Send(r),
         \A p \in Parts : r \in About(p) => MayReport(p),
         \A p \in Parts : MayReport(p)' => r \in Reset \/ (r \in About(p) \cup {Other} /\ MayReport(p))
  PROVE  StreamInv'
<1>1. UNCHANGED <<mode, zone>> /\ Parts' = Parts /\ \A p \in Parts : About(p)' = About(p)
  BY Sent, ModeKept
<1>2. CASE inbox' = Append(inbox, r) /\ gap' = gap
  <2> PICK n : n = Len(inbox)
    OBVIOUS
  <2>1. /\ n \in Nat /\ Len(inbox') = n + 1 /\ inbox'[n + 1] = r
        /\ \A i \in 1 .. n : inbox'[i] = inbox[i]
    BY <1>2, Grows DEF TypeOK
  <2>2. \A p \in Parts : MayReport(p)' => OnlyPart(p, Len(inbox) + 1)'
    BY <1>1, <1>2, OnlyPartGrows DEF StreamInv
  <2>3. ASSUME NEW p \in Parts, NEW j \in 1 .. n + 1, inbox'[j] \in About(p)
        PROVE  OnlyPart(p, j)'
    <3>1. OnlyPart(p, j)
      <4>1. CASE j = n + 1
        BY <2>1, <2>3, <4>1 DEF StreamInv
      <4>2. CASE j \in 1 .. n
        BY <2>1, <2>3, <4>2 DEF StreamInv
      <4> QED
        BY <2>1, <4>1, <4>2
    <3>2. j \in Nat /\ \A i \in 1 .. j - 1 : inbox'[i] = inbox[i]
      BY <2>1
    <3> QED
      BY <1>1, <1>2, <3>1, <3>2, OnlyPartSame
  <2> QED
    BY <1>1, <2>1, <2>2, <2>3 DEF StreamInv
<1>3. CASE inbox' = inbox /\ r = Other /\ gap' = gap
  <2>1. \A p \in Parts : MayReport(p)' => MayReport(p)
    BY <1>3 DEF Reset, Disarmed, Occurs, Other
  <2>2. ASSUME NEW p \in Parts, NEW j \in Nat, OnlyPart(p, j) PROVE OnlyPart(p, j)'
    BY <1>1, <1>3, <2>2, OnlyPartSame
  <2>3. Len(inbox) + 1 \in Nat /\ \A j \in 1 .. Len(inbox) : j \in Nat
    BY DEF TypeOK
  <2> QED
    BY <1>1, <1>3, <2>1, <2>2, <2>3 DEF StreamInv
<1>4. CASE inbox' = inbox /\ gap' = Len(inbox)
  <2> PICK n \in Nat : n = Len(inbox)
    BY DEF TypeOK
  <2>1. ASSUME NEW p \in Parts, NEW j \in 1 .. n + 1 PROVE OnlyPart(p, j)'
    BY <1>1, <1>4, OnlyPartLost
  <2> QED
    BY <1>1, <1>4, <2>1 DEF StreamInv
<1> QED
  BY <1>2, <1>3, <1>4, Sent

\* Processing takes the head away, and what it said is in the zones now.
LEMMA StreamProcessed ==
  ASSUME TypeOK, RealInv, ZonesInv, StreamInv, Process
  PROVE  StreamInv'
<1> PICK n : n = Len(inbox)
  OBVIOUS
<1>1. /\ n \in Nat \ {0} /\ Len(inbox') = n - 1
      /\ \A i \in 1 .. n - 1 : inbox'[i] = inbox[i + 1]
      /\ UNCHANGED <<mode, panel, reported>>
      /\ Parts' = Parts /\ \A p \in Parts : About(p)' = About(p)
  BY Processed, ModeKept
<1>2. ASSUME NEW p \in Parts, NEW j \in 1 .. n - 1, inbox'[j] \in About(p)
      PROVE  OnlyPart(p, j)'
  <2>1. j + 1 \in 1 .. n /\ j \in 1 .. n /\ inbox[j + 1] \in About(p)
    BY <1>1, <1>2
  <2> QED
    BY <2>1, OnlyPartShrinks DEF StreamInv
<1>3. ASSUME NEW p \in Parts, MayReport(p)'
      PROVE  OnlyPart(p, Len(inbox) + 1)'
  <2>1. OnlyPart(p, n + 1)
    BY <1>1, <1>3 DEF StreamInv, MayReport
  <2>2. OnlyPart(p, n)'
    BY <1>1, <2>1, OnlyPartShrinks
  <2>3. Len(inbox') + 1 = n
    BY <1>1
  <2> QED
    BY <2>2, <2>3
<1> QED
  BY <1>1, <1>2, <1>3 DEF StreamInv

LEMMA StreamStep ==
  ASSUME TypeOK, RealInv, ZonesInv, StreamInv, Next
  PROVE  StreamInv'
<1> USE DEF panelVars, link
<1>0. mode \in Modes
  BY DEF TypeOK
<1>1. CASE PanelMoves \/ PanelTakesKeys
  <2>1. PanelStep /\ UNCHANGED <<mode, inbox, zone, gap>>
    BY <1>1, KeysMovePanel DEF PanelMoves, PanelTakesKeys, PanelStep
  <2>2. PICK t \in State : MovesTo(t)
    BY <2>1 DEF PanelStep
  <2>3. ASSUME NEW p \in Parts, MayReport(p)' PROVE MayReport(p)
    <3>1. panel'.part = p /\ p # "none"
      BY <2>2, <2>3, <2>1, PartsFacts, ModeKept DEF MayReport, MovesTo
    <3>2. panel.part = p \/ panel = Disarmed
      BY <2>2, <3>1 DEF MovesTo, Follows, Disarmed, Service, AlarmWithoutArming
    <3> QED
      BY <2>2, <3>2 DEF MayReport, MovesTo
  <2>4. ASSUME NEW p \in Parts, NEW j \in Nat, OnlyPart(p, j) PROVE OnlyPart(p, j)'
    BY <2>1, <2>4, OnlyPartSame
  <2>5. Len(inbox) + 1 \in Nat /\ \A j \in 1 .. Len(inbox) : j \in Nat
    BY DEF TypeOK
  <2> QED
    BY <2>1, <2>3, <2>4, <2>5, ModeKept DEF StreamInv
<1>2. CASE ReportState
  <2>1. Send(panel) /\ reported' /\ panel \in RealState /\ panel' = panel /\ panel \in Record
    BY <1>2 DEF ReportState, Send, RealInv, TypeOK, Record
  <2>2. \A p \in Parts : panel \in About(p) => panel.part = p
    BY <2>1, <1>0, RealEventFacts, RealStateFacts DEF About, RealEvent
  <2>3. \A p \in Parts : panel.part = p => panel \in About(p)
    BY <2>1 DEF About
  <2>4. \A p \in Parts : MayReport(p)' => panel = Disarmed \/ panel.part = p
    BY <2>1 DEF MayReport, Disarmed
  <2> QED
    BY <2>1, <2>2, <2>3, <2>4, StreamSent DEF MayReport, Reset
<1>3. CASE ReportEvent
  <2>1. Send(event) /\ event # None /\ UNCHANGED <<panel, reported>> /\ event \in Record
    BY <1>3 DEF ReportEvent, Send, TypeOK, Record
  <2>2. \/ event = Occurs("unset")
        \/ panel.part \in Parts /\ event = Occurs(SetEvent(panel.part))
    BY <2>1 DEF RealInv
  <2>3. CASE event = Occurs("unset")
    <3>1. event \in Reset
      BY <2>3 DEF Reset
    <3> QED
      BY <1>0, <2>1, <3>1, NotReset, StreamSent
  <2>4. CASE panel.part \in Parts /\ event = Occurs(SetEvent(panel.part))
    <3>1. event \in About(panel.part)
      BY <2>4 DEF About
    <3>2. \A p \in Parts : event \in About(p) => panel.part = p
      BY <1>0, <2>4, <3>1, AboutOne
    <3>3. panel # Disarmed
      BY <2>4, PartsFacts DEF Disarmed
    <3>4. \A p \in Parts : MayReport(p)' => panel.part = p
      BY <2>1, <3>3 DEF MayReport, Disarmed
    <3> QED
      BY <2>1, <3>1, <3>2, <3>4, StreamSent DEF MayReport
  <2> QED
    BY <2>2, <2>3, <2>4
<1>4. CASE ReportOther
  <2>1. Send(Other) /\ UNCHANGED <<panel, reported>> /\ Other \in Record
    BY <1>4 DEF ReportOther, Send, Record
  <2>2. \A p \in Parts : Other \notin About(p)
    BY <1>0, NotReset
  <2>3. \A p \in Parts : MayReport(p)' => MayReport(p)
    BY <2>1 DEF MayReport, Disarmed
  <2> QED
    BY <2>1, <2>2, <2>3, StreamSent
<1>5. CASE Process
  BY <1>5, StreamProcessed
<1>6. ASSUME NEW e \in Entity, AlarmDisarm(e)
      PROVE  StreamInv'
  <2>1. UNCHANGED <<mode, panel, reported, inbox, gap>> /\ (mode # "unsplit" => zone' = zone)
    BY <1>6 DEF AlarmDisarm
  <2>2. ASSUME NEW p \in Parts, NEW j \in Nat, OnlyPart(p, j) PROVE OnlyPart(p, j)'
    <3>1. Apart(p) => Apart(p)'
      <4>1. CASE mode = "unsplit"
        BY <2>1, <4>1, PartsFacts DEF Apart, ZonesOfPart
      <4>2. CASE mode # "unsplit"
        BY <2>1, <4>2, ModeKept DEF Apart
      <4> QED
        BY <4>1, <4>2
    <3>2. \A i \in 1 .. j - 1 : (Counts(i) <=> Counts(i)') /\ (NoReset(i, j - 1) <=> NoReset(i, j - 1)')
      BY <2>1 DEF Counts, NoReset, Reset
    <3>3. NoReset(1, j - 1) <=> NoReset(1, j - 1)'
      BY <2>1 DEF NoReset, Reset
    <3> QED
      BY <2>1, <2>2, <3>1, <3>2, <3>3, ModeKept DEF OnlyPart
  <2>3. Len(inbox) + 1 \in Nat /\ \A j \in 1 .. Len(inbox) : j \in Nat
    BY DEF TypeOK
  <2> QED
    BY <2>1, <2>2, <2>3, ModeKept DEF StreamInv, MayReport, Disarmed
<1>7. CASE KeysIgnored \/ \E e \in Entity : AlarmArm(e)
  <2>1. UNCHANGED <<mode, panel, reported, inbox, gap, zone>>
    BY <1>7 DEF KeysIgnored, AlarmArm
  <2>2. ASSUME NEW p \in Parts, NEW j \in Nat, OnlyPart(p, j) PROVE OnlyPart(p, j)'
    BY <2>1, <2>2, OnlyPartSame
  <2>3. Len(inbox) + 1 \in Nat /\ \A j \in 1 .. Len(inbox) : j \in Nat
    BY DEF TypeOK
  <2> QED
    BY <2>1, <2>2, <2>3, ModeKept DEF StreamInv, MayReport, Disarmed
<1> QED
  BY <1>1, <1>2, <1>3, <1>4, <1>5, <1>6, <1>7 DEF Next

-----------------------------------------------------------------------------
(* The zones, the record processed last and its state *)

LEMMA InitZones == Init => ZonesInv
<1>1. None # Disarmed /\ None # Occurs("unset")
  BY NoneApart
<1> QED
  BY <1>1 DEF Init, ZonesInv, Reset

\* A step that leaves the zones alone and finds no lost report again.
LEMMA ZonesSame ==
  ASSUME RealInv, ZonesInv, UNCHANGED <<mode, zone, previous, last>>, gap' = None => gap = None
  PROVE  ZonesInv'
<1>1. AllUnset' = AllUnset /\ Parts' = Parts
  BY ModeKept DEF AllUnset
<1>2. \A p \in Parts : Apart(p)' = Apart(p) /\ ZonesOfPart(p)' = ZonesOfPart(p)
  BY ModeKept DEF Apart
<1>3. last # None => Fits(last)'
  BY <1>1, <1>2 DEF Fits, ZonesInv
<1> QED
  BY <1>1, <1>3 DEF ZonesInv, Reset

\* The zones a taken state leaves behind.
LEMMA TakenUnsplit ==
  ASSUME TypeOK, UNCHANGED mode, mode = "unsplit", NEW s \in RealState, ProcessState(s)
  PROVE  Fits(s)'
<1>1. s.part \in {"C", "none"} /\ (s.part = "none" => s \in {Disarmed, Service, AlarmWithoutArming})
  BY RealStateFacts, PartsFacts DEF TypeOK
<1>2. CASE s = Service
  BY <1>2 DEF Fits, ProcessState, NotifyService, Service, ZoneId
<1>3. CASE s # Service
  <2>1. CallZones(ZonesOf(s), s.phase)
    BY <1>3 DEF ProcessState
  <2>2. ZonesOf(s) = ZoneId
    BY <1>1 DEF ZonesOf
  <2>3. 3 \in ZoneId /\ 3 \in Enabled
    BY DEF ZoneId, Enabled
  <2>4. /\ ~(s.phase = "entry" /\ zone[3] = "disarming") => zone'[3] = s.phase
        /\ zone'[3] = s.phase \/ zone'[3] = zone[3]
    BY <2>1, <2>2, <2>3, Called
  <2> QED
    BY <2>4 DEF Fits
<1> QED
  BY <1>2, <1>3

\* The same for a divided system; the parts other than the state's are at rest by what came
\* before it.
LEMMA TakenSplit ==
  ASSUME TypeOK, RealInv, UNCHANGED mode, mode # "unsplit", NEW s \in RealState, ProcessState(s),
         s.part \in Parts /\ gap' = None => Apart(s.part)'
  PROVE  Fits(s)'
<1>0. mode \in {"partial", "split"} /\ mode' = mode /\ Enabled = ZoneId /\ Parts' = Parts
        /\ \A z \in ZoneId : zone[z] # "disarming"
  BY ZonesAssumption, PartsFacts, ModeKept DEF TypeOK, RealInv
<1>1. CASE s = Service
  <2>1. \A z \in ZoneId : zone'[z] = "service"
    BY <1>1 DEF ProcessState, NotifyService
  <2>2. s # Disarmed /\ s # AlarmWithoutArming /\ s.part \notin Parts /\ s.phase = "service"
    BY <1>1, PartsFacts DEF Service, Disarmed, AlarmWithoutArming
  <2> QED
    BY <1>0, <1>1, <2>1, <2>2 DEF Fits
<1>2. CASE s # Service
  <2>1. \A z \in ZonesOf(s) \cap ZoneId : zone'[z] = s.phase
    <3>1. CallZones(ZonesOf(s), s.phase)
      BY <1>2 DEF ProcessState
    <3> QED
      BY <1>0, <3>1, Called
  <2>2. CASE s.part = "none"
    <3>1. s.part \notin Parts /\ s \in {Disarmed, AlarmWithoutArming}
      BY <1>0, <1>2, <2>2, PartsFacts, RealStateFacts DEF TypeOK
    <3>2. s = Disarmed => s # AlarmWithoutArming /\ s.phase = "disarmed" /\ ZonesOf(s) = ZoneId
      BY <2>2 DEF Disarmed, AlarmWithoutArming, ZonesOf
    <3>3. s = AlarmWithoutArming => s # Disarmed /\ s.phase = "alarm"
                                    /\ (mode = "partial" => ZonesOf(s) = ZoneId)
      BY <2>2 DEF Disarmed, AlarmWithoutArming, ZonesOf
    <3> QED
      BY <1>0, <1>2, <2>1, <3>1, <3>2, <3>3 DEF Fits
  <2>3. CASE s.part # "none"
    <3>1. s.part \in Parts /\ s.part \in {"A", "B", "C"}
      BY <1>0, <2>3, PartsFacts, RealStateFacts DEF TypeOK
    <3>2. s # Disarmed /\ s # AlarmWithoutArming
      BY <2>3 DEF Disarmed, AlarmWithoutArming
    <3>3. \A z \in ZonesOfPart(s.part) :
            \/ z \in ZonesOf(s) \cap ZoneId
            \/ mode = "partial" /\ s.phase = "alarm" /\ s.part = "B" /\ z = 1
      BY <1>0, <3>1 DEF ZonesOfPart, ZonesOf, ZoneId
    <3>4. ZonesOfPart(s.part)' = ZonesOfPart(s.part)
      BY <3>1, ModeKept
    <3>5. \A z \in ZonesOfPart(s.part)' :
            zone'[z] = s.phase \/ (mode' = "partial" /\ s.phase = "alarm" /\ s.part = "B" /\ z = 1)
      BY <1>0, <2>1, <3>3, <3>4
    <3> QED
      BY <1>0, <1>2, <3>1, <3>2, <3>5 DEF Fits
  <2> QED
    BY <2>2, <2>3
<1> QED
  BY <1>1, <1>2

\* The step that matters: a record is processed.
LEMMA ZonesProcessed ==
  ASSUME TypeOK, RealInv, StreamInv, ZonesInv, Process
  PROVE  ZonesInv'
<1> PICK r : r = inbox[1]
  OBVIOUS
<1>1. /\ r \in RealState \cup RealEvent \cup {Other} /\ previous' = r /\ UNCHANGED mode
      /\ Skipped(r) \/ StateTaken(r) \/ EventTaken(r)
      /\ gap' = None => gap = None \/ r = Disarmed
      /\ mode \in Modes
  <2>1. gap \in Nat \/ gap = None
    BY ZonesAssumption DEF TypeOK
  <2> QED
    BY <2>1, Processed, NoneApart DEF TypeOK
<1>2. r \in Reset /\ ~Skipped(r) => AllUnset'
  BY <1>1, UnsetAll, RealStateFacts, RealEventFacts DEF StateTaken, EventTaken
<1>3. CASE Skipped(r)
  <2>1. r \in Reset => r = previous
    BY <1>3 DEF Skipped, Reset, Other, Disarmed, Occurs
  <2>2. AllUnset' = AllUnset /\ Parts' = Parts /\ UNCHANGED <<zone, last>>
    BY <1>1, <1>3, ModeKept DEF AllUnset, Skipped
  <2>3. \A p \in Parts : Apart(p)' = Apart(p) /\ ZonesOfPart(p)' = ZonesOfPart(p)
    BY <1>1, <2>2, ModeKept DEF Apart
  <2>4. r = Disarmed => last \in {Disarmed, None} /\ Disarmed.part \notin Parts
    BY <2>1, PartsFacts DEF ZonesInv, Reset, Disarmed
  <2>5. last # None => Fits(last)'
    BY <1>1, <2>2, <2>3, <2>4 DEF Fits, ZonesInv
  <2> QED
    BY <1>1, <2>1, <2>2, <2>4, <2>5 DEF ZonesInv, Reset
<1>4. CASE StateTaken(r)
  <2>1. r \in RealState /\ ProcessState(r) /\ last' = r /\ r # Occurs("unset")
    BY <1>1, <1>4, RealStateFacts DEF StateTaken, Occurs, Event
  <2>2. Fits(r)'
    <3>1. ASSUME r.part \in Parts, gap' = None PROVE Apart(r.part)'
      <4>1. r \in About(r.part) /\ r # Disarmed
        BY <2>1, <3>1, PartsFacts DEF About, Disarmed
      <4>2. 1 \in 1 .. Len(inbox)
        BY Processed
      <4>3. OnlyPart(r.part, 1)
        BY <3>1, <4>1, <4>2 DEF StreamInv
      <4>4. Apart(r.part)
        BY <1>1, <3>1, <4>1, <4>3 DEF OnlyPart, NoReset
      <4> QED
        BY <3>1, <4>1, <4>4, ProcessedApart
    <3> QED
      BY <1>1, <2>1, <3>1, TakenUnsplit, TakenSplit
  <2>3. ~Skipped(r) \/ r # Disarmed
    BY <1>4 DEF StateTaken, Skipped, Disarmed, Other
  <2> QED
    BY <1>1, <1>2, <1>4, <2>1, <2>2, <2>3 DEF ZonesInv, Reset
<1>5. CASE EventTaken(r)
  <2>1. r # previous /\ r # Other /\ r # Disarmed /\ last' = None /\ last' # Disarmed
    BY <1>1, <1>5, RealEventFacts, NoneApart DEF EventTaken, Event, Disarmed
  <2>2. ~Skipped(r)
    BY <2>1 DEF Skipped
  <2> QED
    BY <1>1, <1>2, <2>1, <2>2 DEF ZonesInv, Reset, Disarmed
<1> QED
  BY <1>1, <1>3, <1>4, <1>5

LEMMA ZonesStep ==
  ASSUME TypeOK, RealInv, StreamInv, ZonesInv, Next
  PROVE  ZonesInv'
<1> USE DEF panelVars, link
<1>1. CASE PanelMoves \/ PanelTakesKeys \/ KeysIgnored \/ \E e \in Entity : AlarmArm(e)
  <2>1. UNCHANGED <<mode, zone, previous, last, gap>>
    BY <1>1 DEF PanelMoves, PanelTakesKeys, KeysIgnored, AlarmArm
  <2> QED
    BY <2>1, ZonesSame
<1>2. CASE ReportState \/ ReportEvent \/ ReportOther
  <2>1. \E r \in Record : Send(r)
    BY <1>2 DEF ReportState, ReportEvent, ReportOther, TypeOK, Record
  <2>2. UNCHANGED <<mode, zone, previous, last>> /\ (gap' = None => gap = None)
    BY <2>1, Sent
  <2> QED
    BY <2>2, ZonesSame
<1>3. CASE Process
  BY <1>3, ZonesProcessed
<1>4. ASSUME NEW e \in Entity, AlarmDisarm(e)
      PROVE  ZonesInv'
  <2>1. UNCHANGED <<mode, previous>> /\ last' = None /\ (mode # "unsplit" => zone' = zone)
    BY <1>4 DEF AlarmDisarm
  <2> QED
    BY <2>1, NoneApart, ModeKept DEF ZonesInv, AllUnset, Reset
<1> QED
  BY <1>1, <1>2, <1>3, <1>4 DEF Next

-----------------------------------------------------------------------------
(* What an entity shows *)

\* The zones an entity of a divided system shows, and whether one has a status.
ShownZones(e) == IF mode = "partial" THEN {1, 2, 3} ELSE {e, 3}
Shows(e, status) == \E z \in ShownZones(e) : zone[z] = status

LEMMA CoveredFacts ==
  ASSUME mode \in {"partial", "split"}, NEW e \in Entity
  PROVE  /\ e \in {1, 2} /\ (mode = "partial" => e = 1)
         /\ Len(Covered(e)) \in {2, 3}
         /\ \A i \in 1 .. Len(Covered(e)) : Covered(e)[i] \in ShownZones(e)
         /\ \A z \in ShownZones(e) : \E i \in 1 .. Len(Covered(e)) : Covered(e)[i] = z
         /\ ShownZones(e) \subseteq ZoneId
<1>1. e \in {1, 2} /\ (mode = "partial" => e = 1)
  BY DEF Entity
<1>2. CASE mode = "partial"
  <2>1. Covered(e) = <<1, 2, 3>>
    BY <1>2 DEF Covered
  <2> QED
    BY <1>1, <1>2, <2>1 DEF ShownZones, ZoneId
<1>3. CASE mode = "split"
  <2>1. Covered(e) = <<e, 3>>
    BY <1>3 DEF Covered
  <2> QED
    BY <1>1, <1>3, <2>1 DEF ShownZones, ZoneId
<1> QED
  BY <1>1, <1>2, <1>3

\* The lists are short enough to look for the first and the last by hand.
LEMMA FirstFound ==
  ASSUME NEW list, Len(list) \in {2, 3}, NEW status
  PROVE  IF \E i \in 1 .. Len(list) : zone[list[i]] = status
         THEN \E i \in 1 .. Len(list) : zone[list[i]] = status /\ FirstWith(list, status) = list[i]
         ELSE FirstWith(list, status) = 0
<1> DEFINE at == {i \in 1 .. Len(list) : zone[list[i]] = status}
<1>1. ASSUME at # {} PROVE \E i \in at : \A j \in at : i <= j
  <2>1. at \subseteq {1, 2, 3}
    OBVIOUS
  <2> HIDE DEF at
  <2>2. CASE 1 \in at
    BY <2>1, <2>2
  <2>3. CASE 1 \notin at /\ 2 \in at
    BY <2>1, <2>3
  <2>4. CASE 1 \notin at /\ 2 \notin at
    <3>1. 3 \in at /\ \A j \in at : j = 3
      BY <1>1, <2>1, <2>4
    <3> QED
      BY <3>1
  <2> QED
    BY <2>2, <2>3, <2>4
<1>2. ASSUME at # {} PROVE (CHOOSE i \in at : \A j \in at : i <= j) \in at
  BY <1>1, <1>2
<1>3. FirstWith(list, status) = IF at = {} THEN 0 ELSE list[CHOOSE i \in at : \A j \in at : i <= j]
  BY DEF FirstWith
<1> QED
  BY <1>2, <1>3

LEMMA LastFound ==
  ASSUME NEW list, Len(list) \in {2, 3}, NEW status
  PROVE  IF \E i \in 1 .. Len(list) : zone[list[i]] = status
         THEN \E i \in 1 .. Len(list) :
                /\ zone[list[i]] = status /\ LastWith(list, status) = list[i]
                /\ \A j \in 1 .. Len(list) : zone[list[j]] = status => j <= i
         ELSE LastWith(list, status) = 0
<1> DEFINE at == {i \in 1 .. Len(list) : zone[list[i]] = status}
<1>1. ASSUME at # {} PROVE \E i \in at : \A j \in at : i >= j
  <2>1. at \subseteq {1, 2, 3}
    OBVIOUS
  <2> HIDE DEF at
  <2>2. CASE 3 \in at
    BY <2>1, <2>2
  <2>3. CASE 3 \notin at /\ 2 \in at
    BY <2>1, <2>3
  <2>4. CASE 3 \notin at /\ 2 \notin at
    <3>1. 1 \in at /\ \A j \in at : j = 1
      BY <1>1, <2>1, <2>4
    <3> QED
      BY <3>1
  <2> QED
    BY <2>2, <2>3, <2>4
<1> DEFINE m == CHOOSE i \in at : \A j \in at : i >= j
<1>2. ASSUME at # {} PROVE m \in at /\ \A j \in at : m >= j
  BY <1>1, <1>2
<1>3. LastWith(list, status) = IF at = {} THEN 0 ELSE list[m]
  BY DEF LastWith
<1>4. \A i, j \in 1 .. Len(list) : i >= j => j <= i
  OBVIOUS
<1> HIDE DEF m
<1> QED
  BY <1>2, <1>3, <1>4

\* The first entry of the priorities that is not 0.
LEMMA FirstOfSix ==
  ASSUME NEW f, NEW k \in 1 .. 6, f[k] # 0, \A j \in 1 .. 6 : j < k => f[j] = 0
  PROVE  LET found == {i \in 1 .. 6 : f[i] # 0}
         IN  (CHOOSE i \in found : \A j \in found : i <= j) = k
<1> DEFINE found == {i \in 1 .. 6 : f[i] # 0}
           m == CHOOSE i \in found : \A j \in found : i <= j
<1>1. k \in found /\ \A j \in found : k <= j
  OBVIOUS
<1>2. m \in found /\ \A j \in found : m <= j
  BY <1>1
<1>3. m <= k /\ k <= m /\ m \in 1 .. 6
  BY <1>1, <1>2
<1> HIDE DEF m
<1>4. m = k
  BY <1>3
<1> QED
  BY <1>4 DEF m

\* The zone that decides: alarm before entry delay before the last armed zone before arming
\* before disarmed.
LEMMA ActiveFound ==
  ASSUME mode \in {"partial", "split"}, NEW e \in Entity
  PROVE  LET a == ActiveZone(e) IN
         /\ Shows(e, "alarm") => zone[a] = "alarm"
         /\ ~Shows(e, "alarm") /\ Shows(e, "entry") => zone[a] = "entry"
         /\ ~Shows(e, "alarm") /\ ~Shows(e, "entry") /\ Shows(e, "armed")
              => /\ zone[a] = "armed" /\ a \in ShownZones(e)
                 /\ \A z \in ShownZones(e) : zone[z] = "armed" => z <= a
         /\ ~Shows(e, "alarm") /\ ~Shows(e, "entry") /\ ~Shows(e, "armed")
              => /\ Shows(e, "arming") => zone[a] = "arming"
                 /\ ~Shows(e, "arming") /\ Shows(e, "disarmed") => zone[a] = "disarmed"
                 /\ ~Shows(e, "arming") /\ ~Shows(e, "disarmed") => a = 1
<1> DEFINE list == Covered(e)
           f == << FirstWith(list, "alarm"), FirstWith(list, "entry"),
                   LastWith(list, "armed"), FirstWith(list, "arming"),
                   FirstWith(list, "disarmed"), 1 >>
           a == ActiveZone(e)
<1>1. /\ Len(list) \in {2, 3} /\ \A i \in 1 .. Len(list) : list[i] \in ShownZones(e)
      /\ \A z \in ShownZones(e) : \E i \in 1 .. Len(list) : list[i] = z
      /\ ShownZones(e) \subseteq ZoneId
  BY CoveredFacts
<1>2. \A status : (\E i \in 1 .. Len(list) : zone[list[i]] = status) <=> Shows(e, status)
  BY <1>1 DEF Shows
<1>3. \A i, j \in 1 .. Len(list) : i <= j => list[i] <= list[j]
  <2>1. e \in {1, 2} /\ (list = <<1, 2, 3>> \/ list = <<e, 3>>)
    BY CoveredFacts DEF Covered
  <2> QED
    BY <2>1
<1>4. f[1] = FirstWith(list, "alarm") /\ f[2] = FirstWith(list, "entry")
        /\ f[3] = LastWith(list, "armed") /\ f[4] = FirstWith(list, "arming")
        /\ f[5] = FirstWith(list, "disarmed") /\ f[6] = 1
  OBVIOUS
<1>5. ASSUME NEW k \in 1 .. 6, f[k] # 0, \A j \in 1 .. 6 : j < k => f[j] = 0
      PROVE  a = f[k]
  <2> HIDE DEF f
  <2>1. (CHOOSE i \in {x \in 1 .. 6 : f[x] # 0} : \A j \in {x \in 1 .. 6 : f[x] # 0} : i <= j) = k
    BY <1>5, FirstOfSix
  <2>2. a = f[CHOOSE i \in {x \in 1 .. 6 : f[x] # 0} : \A j \in {x \in 1 .. 6 : f[x] # 0} : i <= j]
    BY DEF ActiveZone, f
  <2> QED
    BY <2>1, <2>2
<1> HIDE DEF list, f, a
<1>6. \A status : IF Shows(e, status)
                  THEN FirstWith(list, status) # 0 /\ zone[FirstWith(list, status)] = status
                  ELSE FirstWith(list, status) = 0
  <2> SUFFICES ASSUME NEW status
               PROVE  IF Shows(e, status)
                      THEN FirstWith(list, status) # 0 /\ zone[FirstWith(list, status)] = status
                      ELSE FirstWith(list, status) = 0
    OBVIOUS
  <2>1. \A z \in ShownZones(e) : z # 0
    BY <1>1 DEF ZoneId
  <2>2. IF Shows(e, status)
        THEN \E i \in 1 .. Len(list) : zone[list[i]] = status /\ FirstWith(list, status) = list[i]
        ELSE FirstWith(list, status) = 0
    BY <1>1, <1>2, FirstFound
  <2> QED
    BY <1>1, <2>1, <2>2
<1>7. IF Shows(e, "armed")
      THEN /\ LastWith(list, "armed") \in ShownZones(e) /\ LastWith(list, "armed") # 0
           /\ zone[LastWith(list, "armed")] = "armed"
           /\ \A z \in ShownZones(e) : zone[z] = "armed" => z <= LastWith(list, "armed")
      ELSE LastWith(list, "armed") = 0
  <2>1. CASE ~Shows(e, "armed")
    BY <1>1, <1>2, <2>1, LastFound
  <2>2. CASE Shows(e, "armed")
    <3>1. PICK i \in 1 .. Len(list) :
            /\ zone[list[i]] = "armed" /\ LastWith(list, "armed") = list[i]
            /\ \A j \in 1 .. Len(list) : zone[list[j]] = "armed" => j <= i
      BY <1>1, <1>2, <2>2, LastFound
    <3>2. list[i] \in ShownZones(e) /\ list[i] # 0
      BY <1>1 DEF ZoneId
    <3>3. ASSUME NEW z \in ShownZones(e), zone[z] = "armed" PROVE z <= list[i]
      BY <1>1, <1>3, <3>1, <3>3
    <3> QED
      BY <2>2, <3>1, <3>2, <3>3
  <2> QED
    BY <2>1, <2>2
<1>8. \A j \in 1 .. 6 : j = 1 \/ j = 2 \/ j = 3 \/ j = 4 \/ j = 5 \/ j = 6
  OBVIOUS
<1>9. /\ f[1] # 0 => a = f[1]
      /\ f[1] = 0 /\ f[2] # 0 => a = f[2]
      /\ f[1] = 0 /\ f[2] = 0 /\ f[3] # 0 => a = f[3]
      /\ f[1] = 0 /\ f[2] = 0 /\ f[3] = 0 /\ f[4] # 0 => a = f[4]
      /\ f[1] = 0 /\ f[2] = 0 /\ f[3] = 0 /\ f[4] = 0 /\ f[5] # 0 => a = f[5]
      /\ f[1] = 0 /\ f[2] = 0 /\ f[3] = 0 /\ f[4] = 0 /\ f[5] = 0 => a = f[6]
  BY <1>4, <1>5, <1>8
<1> QED
  BY <1>4, <1>6, <1>7, <1>9 DEF a

\* What the entity shows of the zone that decides.
LEMMA Showing ==
  ASSUME NEW e \in Entity
  PROVE  LET z == ActiveZone(e) IN
         /\ zone[z] = "entry" => AlarmState(e) = "pending"
         /\ zone[z] = "alarm" => AlarmState(e) = "triggered"
         /\ zone[z] = "armed" => AlarmState(e) = ArmedAs(e, z)
         /\ zone[z] \in {"arming", "disarmed", "disarming"} => AlarmState(e) = zone[z]
         /\ zone[z] = "service" => AlarmState(e) = None
BY DEF AlarmState

LEMMA KnownShown ==
  ASSUME mode \in {"partial", "split"}, NEW e \in Entity, Known(e)
  PROVE  \E z \in ShownZones(e) : zone[z] # "unknown"
BY CoveredFacts DEF Known

\* An unsplit system shows zone 3.
LEMMA UnsplitShows ==
  ASSUME mode = "unsplit", NEW e \in Entity, NEW s \in RealState, Fits(s)
  PROVE  AlarmState(e) \in Expected(e, s)
<1>1. ActiveZone(e) = 3
  BY DEF ActiveZone
<1>2. zone[3] = s.phase \/ (s.phase = "entry" /\ zone[3] = "disarming")
  BY DEF Fits
<1>3. ArmedAs(e, 3) = "armed_away" /\ ArmedName(e, s) = "armed_away" /\ Concerns(e, s)
  BY DEF ArmedAs, ArmedName, Concerns
<1>4. s.phase \in Phase
  BY DEF RealState, Phase, Disarmed, Service, AlarmWithoutArming
<1>5. CASE s.phase = "service"
  BY <1>1, <1>2, <1>5, Showing DEF Expected
<1>6. CASE s.phase = "entry"
  BY <1>1, <1>2, <1>3, <1>6, Showing DEF Expected
<1>7. CASE s.phase = "alarm"
  BY <1>1, <1>2, <1>3, <1>7, Showing DEF Expected
<1>8. CASE s.phase = "armed"
  BY <1>1, <1>2, <1>3, <1>8, Showing DEF Expected
<1>9. CASE s.phase \in {"arming", "disarmed"}
  BY <1>1, <1>2, <1>3, <1>9, Showing DEF Expected
<1> QED
  BY <1>4, <1>5, <1>6, <1>7, <1>8, <1>9 DEF Phase

\* A state of the whole system.
LEMMA WholeShows ==
  ASSUME mode \in {"partial", "split"}, NEW e \in Entity,
         NEW s \in {Disarmed, Service, AlarmWithoutArming}, Fits(s),
         ~(mode = "split" /\ s = AlarmWithoutArming)
  PROVE  AlarmState(e) \in Expected(e, s)
<1>1. s.part = "none" /\ Concerns(e, s) /\ s.phase \in {"disarmed", "service", "alarm"}
  BY DEF Disarmed, Service, AlarmWithoutArming, Concerns
<1>2. \A z \in ZoneId : zone[z] = s.phase
  BY DEF Fits, Disarmed, Service, AlarmWithoutArming
<1>3. \A z \in ShownZones(e) : zone[z] = s.phase
  BY <1>2, CoveredFacts
<1>4. 3 \in ShownZones(e) /\ 1 \in ZoneId
  BY DEF ShownZones, ZoneId
<1>5. CASE s.phase = "disarmed"
  BY <1>1, <1>3, <1>4, <1>5, ActiveFound, Showing DEF Shows, Expected
<1>6. CASE s.phase = "service"
  BY <1>1, <1>2, <1>3, <1>4, <1>6, ActiveFound, Showing DEF Shows, Expected
<1>7. CASE s.phase = "alarm"
  BY <1>1, <1>3, <1>4, <1>7, ActiveFound, Showing DEF Shows, Expected
<1> QED
  BY <1>1, <1>5, <1>6, <1>7

\* A state of a part that concerns the entity: at least one zone shown is in that phase, and
\* nothing that decides more is shown.
LEMMA PhaseShows ==
  ASSUME mode \in {"partial", "split"}, NEW e \in Entity, NEW s \in RealState, Concerns(e, s),
         NEW y \in ShownZones(e), zone[y] = s.phase,
         s.phase \in {"arming", "armed", "entry", "alarm"},
         s.phase # "alarm" =>
           \A z \in ShownZones(e) : zone[z] \in {s.phase, "unknown", "disarmed", "arming"},
         s.phase = "armed" => \A z \in ShownZones(e) : zone[z] = "armed" => z <= y,
         s.phase = "armed" => ArmedAs(e, y) = ArmedName(e, s)
  PROVE  AlarmState(e) \in Expected(e, s)
<1>0. ShownZones(e) \subseteq {1, 2, 3}
  BY CoveredFacts DEF ZoneId
<1>1. CASE s.phase = "alarm"
  BY <1>1, ActiveFound, Showing DEF Shows, Expected
<1>2. CASE s.phase = "entry"
  <2>1. ~Shows(e, "alarm") /\ Shows(e, "entry")
    BY <1>2 DEF Shows
  <2> QED
    BY <1>2, <2>1, ActiveFound, Showing DEF Expected
<1>3. CASE s.phase = "armed"
  <2>1. ~Shows(e, "alarm") /\ ~Shows(e, "entry") /\ Shows(e, "armed")
    BY <1>3 DEF Shows
  <2>2. /\ zone[ActiveZone(e)] = "armed" /\ ActiveZone(e) \in ShownZones(e)
        /\ \A z \in ShownZones(e) : zone[z] = "armed" => z <= ActiveZone(e)
    BY <2>1, ActiveFound
  <2>3. y <= ActiveZone(e) /\ ActiveZone(e) <= y
    BY <1>3, <2>2
  <2>4. ActiveZone(e) = y
    BY <1>0, <2>2, <2>3
  <2> QED
    BY <1>3, <2>2, <2>4, Showing DEF Expected
<1>4. CASE s.phase = "arming"
  <2>1. ~Shows(e, "alarm") /\ ~Shows(e, "entry") /\ ~Shows(e, "armed") /\ Shows(e, "arming")
    BY <1>4 DEF Shows
  <2>2. zone[ActiveZone(e)] = "arming"
    BY <2>1, ActiveFound
  <2> QED
    BY <1>4, <2>2, Showing DEF Expected
<1> QED
  BY <1>1, <1>2, <1>3, <1>4

LEMMA PartPhase ==
  ASSUME NEW s \in RealState, s.part \in Parts
  PROVE  s.part \in {"A", "B", "C"} /\ s.phase \in {"arming", "armed", "entry", "alarm"}
<1>1. s.part \in {"A", "B", "C"}
  BY PartsFacts
<1>2. s \notin {Disarmed, Service, AlarmWithoutArming}
  BY <1>1 DEF Disarmed, Service, AlarmWithoutArming
<1> QED
  BY <1>1, <1>2 DEF RealState

\* In a partial system the parts are nested: A, A and B, everything.
LEMMA PartialShows ==
  ASSUME mode = "partial", NEW e \in Entity, NEW s \in RealState, s.part \in Parts,
         Fits(s), gap = None
  PROVE  AlarmState(e) \in Expected(e, s)
<1>1. /\ s.part \in {"A", "B", "C"} /\ s.phase \in {"arming", "armed", "entry", "alarm"}
      /\ Concerns(e, s) /\ ShownZones(e) = {1, 2, 3}
  BY PartPhase DEF Concerns, ShownZones
<1>2. /\ Apart(s.part)
      /\ \A z \in ZonesOfPart(s.part) : zone[z] = s.phase \/ (s.phase = "alarm" /\ s.part = "B" /\ z = 1)
  BY DEF Fits
<1>3. \A z \in {1, 2, 3} \ ZonesOfPart(s.part) : zone[z] \in {"unknown", "disarmed"}
  BY <1>2 DEF Apart, ZoneId
<1>4. CASE s.part = "A"
  <2>1. ZonesOfPart(s.part) = {1} /\ ArmedAs(e, 1) = ArmedName(e, s)
    BY <1>4 DEF ZonesOfPart, ArmedAs, ArmedName
  <2>2. zone[1] = s.phase /\ \A z \in {2, 3} : zone[z] \in {"unknown", "disarmed"}
    BY <1>2, <1>3, <1>4, <2>1
  <2>3. s.phase = "armed" => \A z \in ShownZones(e) : zone[z] = "armed" => z <= 1
    BY <1>1, <2>2
  <2>4. s.phase # "alarm" =>
          \A z \in ShownZones(e) : zone[z] \in {s.phase, "unknown", "disarmed", "arming"}
    BY <1>1, <2>2
  <2> QED
    BY <1>1, <2>1, <2>2, <2>3, <2>4, PhaseShows
<1>5. CASE s.part = "B"
  <2>1. ZonesOfPart(s.part) = {1, 2} /\ ArmedAs(e, 2) = ArmedName(e, s)
    BY <1>5 DEF ZonesOfPart, ArmedAs, ArmedName
  <2>2. zone[2] = s.phase /\ zone[3] \in {"unknown", "disarmed"} /\ (s.phase # "alarm" => zone[1] = s.phase)
    BY <1>2, <1>3, <1>5, <2>1
  <2>3. s.phase = "armed" => \A z \in ShownZones(e) : zone[z] = "armed" => z <= 2
    BY <1>1, <2>2
  <2>4. s.phase # "alarm" =>
          \A z \in ShownZones(e) : zone[z] \in {s.phase, "unknown", "disarmed", "arming"}
    BY <1>1, <2>2
  <2> QED
    BY <1>1, <2>1, <2>2, <2>3, <2>4, PhaseShows
<1>6. CASE s.part = "C"
  <2>1. ZonesOfPart(s.part) = {1, 2, 3} /\ ArmedAs(e, 3) = ArmedName(e, s)
    BY <1>6 DEF ZonesOfPart, ArmedAs, ArmedName, ZoneId
  <2>2. \A z \in {1, 2, 3} : zone[z] = s.phase
    BY <1>2, <1>6, <2>1
  <2>3. s.phase = "armed" => \A z \in ShownZones(e) : zone[z] = "armed" => z <= 3
    BY <1>1
  <2>4. s.phase # "alarm" =>
          \A z \in ShownZones(e) : zone[z] \in {s.phase, "unknown", "disarmed", "arming"}
    BY <1>1, <2>2
  <2> QED
    BY <1>1, <2>1, <2>2, <2>3, <2>4, PhaseShows
<1> QED
  BY <1>1, <1>4, <1>5, <1>6

\* In a split system A and B stand side by side, each with the whole.
LEMMA SplitShows ==
  ASSUME mode = "split", NEW e \in Entity, NEW s \in RealState, s.part \in Parts,
         Fits(s), gap = None, Known(e)
  PROVE  AlarmState(e) \in Expected(e, s)
<1>1. /\ s.part \in {"A", "B", "C"} /\ s.phase \in {"arming", "armed", "entry", "alarm"}
      /\ ShownZones(e) = {e, 3} /\ e \in {1, 2}
  BY PartPhase DEF ShownZones, Entity
<1>2. Apart(s.part) /\ \A z \in ZonesOfPart(s.part) : zone[z] = s.phase
  BY DEF Fits
<1>3. \A z \in {1, 2, 3} \ ZonesOfPart(s.part) :
        zone[z] \in {"unknown", "disarmed"} \cup (IF s.part = "C" THEN {"arming"} ELSE {})
  BY <1>2 DEF Apart, ZoneId
<1>4. CASE s.part = "C"
  <2>1. ZonesOfPart(s.part) = {3} /\ ArmedAs(e, 3) = ArmedName(e, s) /\ Concerns(e, s)
    BY <1>1, <1>4 DEF ZonesOfPart, ArmedAs, ArmedName, Concerns
  <2>2. zone[3] = s.phase /\ zone[e] \in {"unknown", "disarmed", "arming"}
    BY <1>1, <1>2, <1>3, <1>4, <2>1
  <2>3. s.phase = "armed" => \A z \in ShownZones(e) : zone[z] = "armed" => z <= 3
    BY <1>1
  <2>4. s.phase # "alarm" =>
          \A z \in ShownZones(e) : zone[z] \in {s.phase, "unknown", "disarmed", "arming"}
    BY <1>1, <2>2
  <2> QED
    BY <1>1, <2>1, <2>2, <2>3, <2>4, PhaseShows
<1>5. CASE <<"A", "B">>[e] = s.part
  <2>1. ZonesOfPart(s.part) = {e} /\ ArmedAs(e, e) = ArmedName(e, s) /\ Concerns(e, s) /\ s.part # "C"
    BY <1>1, <1>5 DEF ZonesOfPart, ArmedAs, ArmedName, Concerns
  <2>2. zone[e] = s.phase /\ zone[3] \in {"unknown", "disarmed"}
    BY <1>1, <1>2, <1>3, <2>1
  <2>3. s.phase = "armed" => \A z \in ShownZones(e) : zone[z] = "armed" => z <= e
    BY <1>1, <2>2
  <2>4. s.phase # "alarm" =>
          \A z \in ShownZones(e) : zone[z] \in {s.phase, "unknown", "disarmed", "arming"}
    BY <1>1, <2>2
  <2> QED
    BY <1>1, <2>1, <2>2, <2>3, <2>4, PhaseShows
<1>6. CASE s.part # "C" /\ <<"A", "B">>[e] # s.part
  <2>1. e \notin ZonesOfPart(s.part) /\ 3 \notin ZonesOfPart(s.part) /\ ~Concerns(e, s)
    BY <1>1, <1>6 DEF ZonesOfPart, Concerns
  <2>2. zone[e] \in {"unknown", "disarmed"} /\ zone[3] \in {"unknown", "disarmed"}
    BY <1>1, <1>3, <1>6, <2>1
  <2>3. Shows(e, "disarmed")
    BY <1>1, <2>2, KnownShown DEF Shows
  <2>4. ~Shows(e, "alarm") /\ ~Shows(e, "entry") /\ ~Shows(e, "armed") /\ ~Shows(e, "arming")
    BY <1>1, <2>2 DEF Shows
  <2>5. zone[ActiveZone(e)] = "disarmed"
    BY <2>3, <2>4, ActiveFound
  <2> QED
    BY <1>1, <2>1, <2>5, Showing DEF Expected
<1> QED
  BY <1>4, <1>5, <1>6

-----------------------------------------------------------------------------
(* The theorems *)

\* The inductive invariant.
IInv == TypeOK /\ RealInv /\ StreamInv /\ ZonesInv

\* The inductive invariant: what can be in the inbox, how it relates to the panel and the zones, and
\* what the zones are after the state processed last.
THEOREM Invariance == Spec => []IInv
<1>1. Init => IInv
  BY InitTyped, InitReal, InitStream, InitZones DEF IInv
<1>2. IInv /\ [Next]_vars => IInv'
  <2>1. ASSUME IInv, Next PROVE IInv'
    BY <2>1, TypesStep, RealStep, StreamStep, ZonesStep DEF IInv
  <2>2. ASSUME IInv, UNCHANGED vars PROVE IInv'
    <3>1. UNCHANGED <<mode, panel, event, reported, inbox, previous, zone, keys, last, gap, ready>>
      BY <2>2 DEF vars, panelVars, link
    <3>2. TypeOK' /\ RealInv'
      BY <2>2, <3>1, ModeKept DEF IInv, TypeOK, RealInv, Enabled
    <3>3. ASSUME NEW p \in Parts, NEW j \in Nat, OnlyPart(p, j) PROVE OnlyPart(p, j)'
      BY <3>1, <3>3, OnlyPartSame
    <3>4. Len(inbox) + 1 \in Nat /\ \A j \in 1 .. Len(inbox) : j \in Nat
      BY <2>2 DEF IInv, TypeOK
    <3>5. StreamInv'
      BY <2>2, <3>1, <3>3, <3>4, ModeKept DEF IInv, StreamInv, MayReport, Disarmed
    <3>6. ZonesInv'
      BY <2>2, <3>1, ZonesSame DEF IInv
    <3> QED
      BY <3>2, <3>5, <3>6 DEF IInv
  <2> QED
    BY <2>1, <2>2
<1> QED
  BY <1>1, <1>2, PTL DEF Spec

\* The zones' _status and everything else keeps its type, and a zone that the mode does not enable is
\* never given a status by a record or a request, only the service notice (_call_zone).
THEOREM TypeCorrect == Spec => []TypeOK
<1>1. IInv => TypeOK
  BY DEF IInv
<1> QED
  BY <1>1, Invariance, PTL

\* After a disarmed report no enabled zone is left in service: _process_state gives it to every zone.
THEOREM ServiceEnds == Spec => []ElevatedEnds
<1>1. IInv => ElevatedEnds
  BY DEF IInv, ZonesInv, AllUnset, ElevatedEnds
<1> QED
  BY <1>1, Invariance, PTL

\* What get_active_zone and alarm_state make of the zones after a state report has been processed
\* (_process_state, _process_event, processing_loop's filter of repeated records) is what the panel
\* said, for every mode, inbox bound, number of requests, and whether or not reports can be lost.
THEOREM ShownAsReported == Spec => []EntityShowsPanel
<1>1. IInv => EntityShowsPanel
  <2> SUFFICES ASSUME IInv, last # None, gap = None, ~(mode = "split" /\ last = AlarmWithoutArming),
                      NEW e \in Entity, Known(e)
               PROVE  AlarmState(e) \in Expected(e, last)
    BY DEF EntityShowsPanel
  <2>1. last \in RealState /\ Fits(last) /\ mode \in {"unsplit", "partial", "split"}
    BY ZonesAssumption DEF IInv, TypeOK, RealInv, ZonesInv
  <2>2. CASE mode = "unsplit"
    BY <2>1, <2>2, UnsplitShows
  <2>3. CASE mode # "unsplit" /\ last.part \notin Parts
    <3>1. last \in {Disarmed, Service, AlarmWithoutArming}
      BY <2>1, <2>3, RealStateFacts DEF IInv, TypeOK
    <3> QED
      BY <2>1, <2>3, <3>1, WholeShows
  <2>4. CASE mode # "unsplit" /\ last.part \in Parts
    BY <2>1, <2>4, PartialShows, SplitShows
  <2> QED
    BY <2>2, <2>3, <2>4
<1> QED
  BY <1>1, Invariance, PTL

=============================================================================
