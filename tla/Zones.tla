-------------------------------- MODULE Zones --------------------------------
(***************************************************************************)
(* From the panel's reports to what Home Assistant shows and back: the     *)
(* status of the three zones (JablotronZone and the zone calls of          *)
(* _process_state and _process_event in jablotron.py), the alarm entities  *)
(* (alarm_control_panel.py), and the arm and disarm requests that make the *)
(* unit enter a code.                                                      *)
(*                                                                         *)
(* The panel is external.  It runs through the chains of states listed at  *)
(* the head of JablotronState, and takes an entered code as the comments   *)
(* say: the master code toggles between set and unset.                     *)
(***************************************************************************)
EXTENDS Naturals, Sequences

CONSTANTS
  Modes,        \* the system modes to consider: "unsplit", "partial", "split"
  LinkFaults,   \* may a report get lost (bound: one before the next disarmed one)?
  MaxInbox,     \* bound: records forwarded and not yet processed
  MaxRequests,  \* bound, by mode: requests whose keys the panel has not taken yet
  None

ASSUME ZonesAssumption ==
  /\ Modes \subseteq {"unsplit", "partial", "split"}
  /\ LinkFaults \in BOOLEAN
  /\ MaxInbox \in Nat \ {0}
  /\ MaxRequests \in [Modes -> Nat]

VARIABLES
  mode,      \* _mode
  panel,     \* external: the panel's state
  event,     \* external: the event the panel has still to report
  reported,  \* external: has the panel sent its present state?
  inbox,     \* _records of the connection
  previous,  \* previous_record of processing_loop
  zone,      \* the zones' _status
  keys,      \* key sequences on their way to the panel
  last,      \* history: the state in the record processed last, if it was a state and
             \* no request has been made since
  gap,       \* history: None, or a report was lost after which no disarmed one has been
             \* processed, and how many records sent before the loss are in the inbox
  ready      \* _havestate: a state has been processed, so the entities are set up

link == <<inbox, previous>>
panelVars == <<panel, event, reported>>
vars == <<mode, panelVars, link, zone, keys, last, gap, ready>>

ZoneId == 1 .. 3
ZoneStatus == {"unknown", "disarmed", "arming", "armed", "entry", "alarm", "disarming",
               "service"}

\* A state byte: what the panel does, and how much of the system is set.  Part "B" is
\* A and B together in a partial system, "C" is everything.
Phase == {"disarmed", "arming", "armed", "entry", "alarm", "service"}
State == [phase : Phase, part : {"A", "B", "C", "none"}]

\* An event, by what it says, and a record that says nothing of zones: a beep, a key,
\* a ping.
Event == [phase : {"event"}, part : {"set", "setA", "setB", "setAB", "unset"}]
Other == [phase |-> "other", part |-> "none"]
Record == State \cup Event \cup {Other}

ASSUME NoneAssumption == None \notin Nat \cup Record

Disarmed == [phase |-> "disarmed", part |-> "none"]
Service == [phase |-> "service", part |-> "none"]
AlarmWithoutArming == [phase |-> "alarm", part |-> "none"]

Parts == IF mode = "unsplit" THEN {"C"} ELSE {"A", "B", "C"}

\* The mode setter: an unsplit system has only zone 3 (ZONE_UNSPLIT).
Enabled == IF mode = "unsplit" THEN {3} ELSE ZoneId

TypeOK ==
  /\ mode \in Modes
  /\ panel \in State
  /\ event \in Event \cup {None}
  /\ reported \in BOOLEAN
  /\ inbox \in Seq(Record)
  /\ previous \in Record \cup {None}
  /\ zone \in [ZoneId -> ZoneStatus]
  /\ keys \in Seq({"disarm", "arm", "set"})
  /\ last \in State \cup {None}
  /\ gap \in 0 .. MaxInbox \cup {None}
  /\ ready \in BOOLEAN
  /\ \A z \in ZoneId \ Enabled : zone[z] \in {"unknown", "service"}

\* The unit may be started while the panel is set.
Init ==
  /\ mode \in Modes
  /\ panel \in {Disarmed, Service} \cup [phase : Phase \ {"disarmed", "service"}, part : Parts]
  /\ event = None /\ reported = FALSE
  /\ inbox = << >> /\ previous = None
  /\ zone = [z \in ZoneId |-> "unknown"]
  /\ keys = << >>
  /\ last = None /\ gap = None /\ ready = FALSE

-----------------------------------------------------------------------------
(* The panel (external) *)

Occurs(what) == [phase |-> "event", part |-> what]

SetEvent(part) ==
  CASE mode = "unsplit" \/ part = "C" -> "set"
    [] mode # "unsplit" /\ part = "A" -> "setA"
    [] mode = "partial" /\ part = "B" -> "setAB"
    [] mode = "split" /\ part = "B" -> "setB"

\* The chains 40->51->41->45 and so on; from every state back to unset.
Follows(s, t) ==
  \/ /\ t.part = s.part
     /\ <<s.phase, t.phase>> \in
          {<<"arming", "armed">>, <<"armed", "entry">>, <<"armed", "alarm">>,
           <<"entry", "alarm">>, <<"alarm", "armed">>}
     /\ s.part # "none"
  \/ s = Disarmed /\ t = [phase |-> "arming", part |-> t.part] /\ t.part \in Parts
  \/ s = Disarmed /\ t \in {Service, AlarmWithoutArming}
  \/ s # Disarmed /\ t = Disarmed

EventOf(s, t) ==
  IF t.phase = "arming" THEN Occurs(SetEvent(t.part))
  ELSE IF t = Disarmed /\ s # Service THEN Occurs("unset") ELSE event

\* The panel sends its state many times a second: each state it is in is sent.
MovesTo(t) ==
  /\ Follows(panel, t)
  /\ reported
  /\ panel' = t
  /\ event' = EventOf(panel, t)
  /\ reported' = FALSE

PanelMoves ==
  /\ \E t \in State : MovesTo(t)
  /\ UNCHANGED <<mode, link, zone, keys, last, gap, ready>>

\* A record is sent; it is lost while the link is down.
Send(r) ==
  /\ Len(inbox) < MaxInbox
  /\ \/ inbox' = Append(inbox, r) /\ UNCHANGED gap
     \/ LinkFaults /\ gap = None /\ gap' = (IF r = Other THEN gap ELSE Len(inbox)) /\ UNCHANGED inbox
  /\ UNCHANGED <<mode, panel, previous, zone, keys, last, ready>>

ReportState == Send(panel) /\ reported' = TRUE /\ UNCHANGED event
ReportEvent == event # None /\ Send(event) /\ event' = None /\ UNCHANGED reported

ReportOther == Send(Other) /\ UNCHANGED <<event, reported>>

\* The keys get lost, or mean nothing to a panel in this state.
KeysIgnored ==
  /\ keys # << >>
  /\ keys' = Tail(keys)
  /\ UNCHANGED <<mode, panelVars, link, zone, last, gap, ready>>

\* The panel takes the keys.  The code alone unsets a set panel and sets an unset
\* one; with a function key before it, it sets an unset panel.
PanelTakesKeys ==
  /\ keys # << >>
  /\ keys' = Tail(keys)
  /\ IF panel = Disarmed
     THEN \E p \in IF Head(keys) = "set" THEN Parts ELSE {"C"} :
            MovesTo([phase |-> "arming", part |-> p])
     ELSE Head(keys) # "set" /\ panel # Service /\ MovesTo(Disarmed)
  /\ UNCHANGED <<mode, link, zone, last, gap, ready>>

-----------------------------------------------------------------------------
(* Processing a record *)

\* (mutant) the guard against a stray entry delay covers arming reports too
CallsKeepDisarming(zones, status) ==
  zone' = [z \in ZoneId |->
    IF z \in zones \cap Enabled
         /\ ~(status \in {"entry", "armed"} /\ zone[z] = "disarming")
    THEN status ELSE zone[z]]

\* (mutant) zones that are not enabled are called too
CallAllZones(zones, status) ==
  zone' = [z \in ZoneId |->
    IF z \in zones /\ ~(status = "entry" /\ zone[z] = "disarming")
    THEN status ELSE zone[z]]

\* _call_zone and _call_zones: the zone's method of that name, which does nothing to
\* a zone that is not enabled.  entering() spares a zone that is being disarmed.
CallZones(zones, status) ==
  zone' = [z \in ZoneId |->
    IF z \in zones \cap Enabled /\ ~(status = "entry" /\ zone[z] = "disarming")
    THEN status ELSE zone[z]]

\* (mutant) a disarmed state is given to zone A only
ZonesOfDisarmToA(s) ==
  CASE s.part = "A" \/ s = Disarmed -> {1}
    [] s.part = "B" -> IF mode = "split" \/ s.phase = "alarm" THEN {2} ELSE {1, 2}
    [] s.part = "C" -> IF mode = "split" THEN {3} ELSE ZoneId
    [] OTHER -> {}

\* The zones a state report is about.  The split alarm without arming is in no branch.
ZonesOf(s) ==
  CASE s.part = "A" -> {1}
    [] s.part = "B" -> IF mode = "split" \/ s.phase = "alarm" THEN {2} ELSE {1, 2}
    [] s.part = "C" -> IF mode = "split" THEN {3} ELSE ZoneId
    [] OTHER -> IF s.phase = "alarm" /\ mode = "split" THEN {} ELSE ZoneId

\* notify_service sets the status itself, whether the zone is enabled or not.
NotifyService == zone' = [z \in ZoneId |-> "service"]

ProcessState(s) ==
  IF s = Service THEN NotifyService ELSE CallZones(ZonesOf(s), s.phase)

ProcessEvent(e) ==
  CASE e.part = "set" -> CallZones(ZoneId, "arming")
    [] e.part = "setA" -> CallZones({1}, "arming")
    [] e.part = "setB" -> CallZones({2}, "arming")
    [] e.part = "setAB" -> CallZones({1, 2}, "arming")
    [] e.part = "unset" -> CallZones(ZoneId, "disarmed")

Process ==
  /\ inbox # << >>
  /\ inbox' = Tail(inbox)
  /\ previous' = Head(inbox)
  /\ LET r == Head(inbox) IN
       \/ /\ r = previous \/ r = Other
          /\ UNCHANGED <<zone, last, ready>>
       \/ /\ r # previous /\ r \in State
          /\ ProcessState(r)
          /\ last' = r
          /\ ready' = TRUE
       \/ /\ r # previous /\ r \in Event
          /\ ProcessEvent(r)
          /\ last' = None
          /\ UNCHANGED ready
  /\ gap' = IF gap = None \/ (gap = 0 /\ Head(inbox) = Disarmed) THEN None
            ELSE IF gap = 0 THEN 0 ELSE gap - 1
  /\ UNCHANGED <<mode, panelVars, keys>>

-----------------------------------------------------------------------------
(* The alarm entities: one, or two for a split system; none before the first state *)

Entity == IF ~ready THEN {} ELSE IF mode = "split" THEN {1, 2} ELSE {1}

\* The zones an entity shows, home first and away last.
Covered(e) ==
  CASE mode = "unsplit" -> <<3>>
    [] mode = "partial" -> <<1, 2, 3>>
    [] mode = "split" -> <<e, 3>>

\* The first zone of the list with the status, 0 if there is none.
FirstWith(list, status) ==
  LET at == {i \in 1 .. Len(list) : zone[list[i]] = status}
  IN  IF at = {} THEN 0 ELSE list[CHOOSE i \in at : \A j \in at : i <= j]

LastWith(list, status) ==
  LET at == {i \in 1 .. Len(list) : zone[list[i]] = status}
  IN  IF at = {} THEN 0 ELSE list[CHOOSE i \in at : \A j \in at : i >= j]

\* (mutant) an armed zone comes before one in alarm
ActiveZoneArmedFirst(e) ==
  LET list == Covered(e)
      byPriority == << LastWith(list, "armed"), FirstWith(list, "alarm"),
                       FirstWith(list, "entry"), FirstWith(list, "arming"),
                       FirstWith(list, "disarmed"), 1 >>
      found == {i \in 1 .. 6 : byPriority[i] # 0}
  IN  IF mode = "unsplit" THEN 3
      ELSE byPriority[CHOOSE i \in found : \A j \in found : i <= j]

\* get_active_zone: the zone that decides.  The highest armed zone counts.
ActiveZone(e) ==
  LET list == Covered(e)
      byPriority == << FirstWith(list, "alarm"), FirstWith(list, "entry"),
                       LastWith(list, "armed"), FirstWith(list, "arming"),
                       FirstWith(list, "disarmed"), 1 >>
      found == {i \in 1 .. 6 : byPriority[i] # 0}
  IN  IF mode = "unsplit" THEN 3
      ELSE byPriority[CHOOSE i \in found : \A j \in found : i <= j]

\* What an armed zone is called.
ArmedAs(e, z) ==
  CASE mode = "unsplit" -> "armed_away"
    [] mode = "partial" -> <<"armed_home", "armed_night", "armed_away">>[z]
    [] mode = "split" -> IF z = e THEN "armed_home" ELSE "armed_away"

\* The alarm_state property; None for a status it does not map.
AlarmState(e) ==
  LET z == ActiveZone(e)
  IN  CASE zone[z] = "entry" -> "pending"
        [] zone[z] = "alarm" -> "triggered"
        [] zone[z] = "armed" -> ArmedAs(e, z)
        [] zone[z] \in {"arming", "disarmed", "disarming"} -> zone[z]
        [] OTHER -> None

\* async_alarm_disarm, with a code (typed in or configured).
AlarmDisarm(e) ==
  /\ Len(keys) < MaxRequests[mode]
  /\ AlarmState(e) \notin {"disarmed", "disarming"}
  /\ keys' = Append(keys, "disarm")
  /\ IF mode = "unsplit" THEN zone' = [zone EXCEPT ![3] = "disarming"] ELSE UNCHANGED zone
  /\ last' = None
  /\ UNCHANGED <<mode, panelVars, link, gap, ready>>

\* async_alarm_arm_home, _away and _night.  In an unsplit system a code is entered
\* alone; otherwise, and without a code, a function key comes first.
AlarmArm(e) ==
  /\ Len(keys) < MaxRequests[mode]
  /\ \E k \in IF mode = "unsplit" THEN {"arm", "set"} ELSE {"set"} : keys' = Append(keys, k)
  /\ UNCHANGED <<mode, panelVars, link, zone, last, gap, ready>>

-----------------------------------------------------------------------------
Next ==
  \/ PanelMoves \/ ReportState \/ ReportEvent \/ ReportOther
  \/ KeysIgnored \/ PanelTakesKeys
  \/ Process
  \/ \E e \in Entity : AlarmDisarm(e) \/ AlarmArm(e)

Spec == Init /\ [][Next]_vars

\* The processing task runs; the panel goes on sending its state and other records, some
\* of which arrive, and an entry delay ends.
EntryEnds == panel.phase = "entry" /\ PanelMoves

FairSpec ==
  /\ Spec
  /\ WF_vars(Process)
  /\ SF_vars(ReportState /\ inbox' # inbox) /\ SF_vars(ReportOther /\ inbox' # inbox)
  /\ SF_vars(EntryEnds)

-----------------------------------------------------------------------------
(* Properties *)

Concerns(e, s) == mode # "split" \/ s.part \in {"C", "none"} \/ <<"A", "B">>[e] = s.part

ArmedName(e, s) ==
  CASE mode = "unsplit" -> "armed_away"
    [] mode = "partial" -> CASE s.part = "A" -> "armed_home" [] s.part = "B" -> "armed_night"
                             [] OTHER -> "armed_away"
    [] mode = "split" -> IF s.part = "C" THEN "armed_away" ELSE "armed_home"

\* What Home Assistant is to show for a state of the panel.
Expected(e, s) ==
  IF s.phase = "service" THEN {None}
  ELSE IF ~Concerns(e, s) THEN {"disarmed"}
  ELSE CASE s.phase = "entry" -> IF mode = "unsplit" THEN {"pending", "disarming"} ELSE {"pending"}
         [] s.phase = "alarm" -> {"triggered"}
         [] s.phase = "armed" -> {ArmedName(e, s)}
         [] OTHER -> {s.phase}

Known(e) == \E i \in 1 .. Len(Covered(e)) : zone[Covered(e)[i]] # "unknown"

\* After a state report has been processed, every alarm entity that knows any of its
\* zones shows what the panel is doing in that state, whatever states, events and
\* requests came before, and even if reports were lost, once a disarmed one has arrived
\* since.  (The split alarm without arming is in no branch of the code.)
EntityShowsPanel ==
  last # None /\ gap = None /\ ~(mode = "split" /\ last = AlarmWithoutArming)
    => \A e \in Entity : Known(e) => AlarmState(e) \in Expected(e, last)

\* A zone that is enabled is in service only between a service report and the next
\* disarmed one.
ElevatedEnds == last = Disarmed => \A z \in Enabled : zone[z] # "service"

\* The guard against a second disarm does not lock the user out: a zone does not stay
\* in "disarming" for good, even if the panel never takes the code.
DisarmingEnds == zone[3] = "disarming" ~> zone[3] # "disarming"
=============================================================================
