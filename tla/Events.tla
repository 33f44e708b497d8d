------------------------------- MODULE Events -------------------------------
(***************************************************************************)
(* From the batches of records that the packet loop forwards to what they  *)
(* make of the codes and of the device's flags: processing_loop with its   *)
(* wake-up event, _process_message with its two filters against repeated   *)
(* records, and the part of _process_event and _process_state that records *)
(* who used a code and which devices are in trouble.  (Zones and detectors *)
(* have modules of their own.)                                             *)
(*                                                                         *)
(* The panel is external: it sends the last thing that happened again and  *)
(* again, between reports of its state and records that say nothing here.  *)
(* (What happens again within its minute looks like a repetition to the    *)
(* panel's readers, and is left out.  A discharged battery is told of by   *)
(* an event before the state reports show it.)                             *)
(***************************************************************************)
EXTENDS Integers, Sequences

CONSTANTS
  Code,
  Device,
  Registered,  \* the devices among self.devices; the control panel is never one
  Flag,        \* what can be wrong with a device: "tampered", "fault", "battery"
  MaxBacklog,  \* bound: records forwarded and not handled
  MaxOwed,     \* bound: uses of a code that were sent and not recorded
  None

ASSUME EventsAssumption ==
  /\ Registered \subseteq Device
  /\ Flag \subseteq {"tampered", "fault", "battery"}
  /\ MaxBacklog \in Nat \ {0} /\ MaxOwed \in Nat \ {0}

VARIABLES
  sections,   \* external: is the system set, in part or as a whole?
  trouble,    \* external: what is wrong with which device
  event,      \* external: what happened last, None at first
  fresh,      \* external: it has not been sent yet
  outputQ,    \* _output_q, its batches joined as get_record joins them
  messages,   \* _messages is set
  pc,         \* where processing_loop is: "waiting", "between" two records, "ended"
  batch,      \* records taken over and not reached yet
  previous,   \* previous_record
  lastEvent,  \* _last_event_data
  stop,       \* _stop is set
  active,     \* the codes that are active
  known,      \* the keys of _active_codes
  flags,      \* the flags that are set, as <<flag, device>>
  owed,       \* history, per code: disarms that were sent and not recorded
  owedSet,    \* history, per code: settings that were sent and not recorded
  lost        \* history: records were dropped behind one that failed

panelVars == <<sections, trouble, event, fresh>>
queueVars == <<outputQ, messages>>
taskVars == <<pc, batch, previous>>
unitVars == <<lastEvent, active, known, flags>>
history == <<owed, owedSet, lost>>
vars == <<panelVars, queueVars, taskVars, stop, unitVars, history>>

\* Setting and Unsetting, the settings of a part, Alarm cancelled by a user; an alarm
\* whose source is a code.
UseEvent == [what : {"set", "unset", "setPart", "cancel", "alarm"}, by : Code]

\* Something is wrong with a device; nothing is any more with any device; and, of
\* faults only, with one device.
TroubleEvent == [what : Flag, by : Device] \cup [what : {"ok"}, by : Flag]
                \cup [what : {"over"}, by : IF "fault" \in Flag THEN Registered ELSE {}]
Event == UseEvent \cup TroubleEvent

\* A state report: disarmed with nothing going on; with a device whose battery is
\* discharged; with a code as the source of what is going on.  And any other record.
Idle == [what |-> "idle", by |-> "none"]
LowState == [what : {"low"}, by : IF "battery" \in Flag THEN Device ELSE {}]
CodeState == [what |-> "code", by |-> "none"]
Other == [what |-> "other", by |-> "none"]
Record == Event \cup LowState \cup {Idle, CodeState, Other}

Faulty == {r \in UseEvent : r.what = "alarm"} \cup {CodeState}

Pending == batch \o outputQ

TypeOK ==
  /\ sections \in {"unset", "part", "all"} /\ trouble \subseteq Flag \X Device
  /\ event \in Event \cup {None} /\ fresh \in BOOLEAN
  /\ outputQ \in Seq(Record) /\ batch \in Seq(Record)
  /\ messages \in BOOLEAN /\ stop \in BOOLEAN /\ lost \in BOOLEAN
  /\ pc \in {"waiting", "between", "ended"}
  /\ pc = "waiting" => batch = << >>
  /\ previous \in Record \cup {None}
  /\ lastEvent \in Event \cup {None}
  /\ active \subseteq known /\ known \subseteq Code
  /\ flags \subseteq Flag \X Device
  /\ owed \in [Code -> Int] /\ owedSet \in [Code -> Int]

Init ==
  /\ sections = "unset" /\ trouble = {} /\ event = None /\ fresh = FALSE
  /\ outputQ = << >> /\ messages = FALSE
  /\ pc = "waiting" /\ batch = << >> /\ previous = None
  /\ stop = FALSE
  /\ lastEvent = None /\ active = {} /\ known = {} /\ flags = {}
  /\ owed = [c \in Code |-> 0] /\ owedSet = [c \in Code |-> 0] /\ lost = FALSE

-----------------------------------------------------------------------------
(* The panel and the packet loop (external) *)

\* bound: what is sent when the task has ended is of no interest
Running == pc # "ended"

\* The flag that an "ok" or an "over" ends, and for whom it ends.
Ended(e) == IF e.what = "ok" THEN {e.by} \X Device ELSE {<<"fault", e.by>>}

\* What can happen at the panel, and what it is like then.
MayHappen(e) ==
  \/ e.what = "set" /\ sections = "unset" /\ sections' = "all" /\ UNCHANGED trouble
  \/ e.what = "setPart" /\ sections # "all" /\ sections' \in {"part", "all"} /\ UNCHANGED trouble
  \/ e.what = "unset" /\ sections # "unset" /\ sections' = "unset" /\ UNCHANGED trouble
  \/ e.what \in {"cancel", "alarm"} /\ UNCHANGED <<sections, trouble>>
  \/ /\ e.what \in Flag /\ <<e.what, e.by>> \notin trouble
     /\ trouble' = trouble \cup {<<e.what, e.by>>}
     /\ UNCHANGED sections
  \/ /\ e.what \in {"ok", "over"} /\ trouble \cap Ended(e) # {}
     /\ trouble' = trouble \ Ended(e)
     /\ UNCHANGED sections

\* What happens is sent once at least before something else does.
Happens ==
  /\ ~fresh /\ Running
  /\ \E e \in Event \ {event} : MayHappen(e) /\ event' = e
  /\ fresh' = TRUE
  /\ UNCHANGED <<queueVars, taskVars, stop, unitVars, history>>

\* The use of a code that a record is about is owed from when it is sent first.
Owes(r) ==
  /\ owed' = IF fresh /\ r = event /\ r.what \in {"unset", "cancel"}
             THEN [owed EXCEPT ![r.by] = @ + 1] ELSE owed
  /\ owedSet' = IF fresh /\ r = event /\ r.what \in {"set", "setPart"}
                THEN [owedSet EXCEPT ![r.by] = @ + 1] ELSE owedSet

\* _forward_records, record by record.
Forward(r) ==
  /\ Running /\ Len(Pending) < MaxBacklog
  /\ outputQ' = Append(outputQ, r) /\ messages' = TRUE
  /\ Owes(r)
  /\ fresh' = (fresh /\ r # event)
  /\ UNCHANGED <<sections, trouble, event, taskVars, stop, unitVars, lost>>

Sendable == {Other, CodeState} \cup (IF sections = "unset" THEN {Idle} ELSE {})
            \cup (IF event = None THEN {} ELSE {event})
            \cup {r \in LowState : ~fresh /\ <<"battery", r.by>> \in trouble}

WithinBound == \A c \in Code : fresh => owed[c] < MaxOwed /\ owedSet[c] < MaxOwed

\* A read without records forwards an empty batch.
ForwardNothing ==
  /\ Running
  /\ messages' = TRUE
  /\ UNCHANGED <<panelVars, outputQ, taskVars, stop, unitVars, history>>

Shutdown ==
  /\ ~stop
  /\ stop' = TRUE
  /\ UNCHANGED <<panelVars, queueVars, taskVars, unitVars, history>>

-----------------------------------------------------------------------------
(* Handling a record *)

NothingRecorded == UNCHANGED <<owed, owedSet>>

\* _activate_code: a code that is active already is not recorded again.
ActivateCode(c) ==
  /\ known' = known \cup {c}
  /\ owedSet' = IF c \in active THEN owedSet ELSE [owedSet EXCEPT ![c] = @ - 1]
  /\ UNCHANGED owed

\* _clear_triggers: every code that was ever activated is turned off.
Cleared(codes) == codes \ known'

\* _record_code_use: a disarm is recorded, the code is not activated.
RecordCodeUse(c) == owed' = [owed EXCEPT ![c] = @ - 1] /\ UNCHANGED owedSet

\* _process_event of an event about a code
CodeUsed(e) ==
  /\ UNCHANGED flags
  /\ \/ e.what = "set" /\ ActivateCode(e.by) /\ active' = Cleared(active \cup {e.by})
     \/ e.what = "setPart" /\ ActivateCode(e.by) /\ active' = active \cup {e.by}
     \/ e.what = "unset" /\ RecordCodeUse(e.by) /\ active' = active \ {e.by} /\ UNCHANGED known
     \/ e.what = "cancel" /\ UNCHANGED known /\ RecordCodeUse(e.by) /\ active' = Cleared(active)

\* _process_event of an event about trouble: "OK" clears the flag of self.devices.
FlagsAfter(e) ==
  CASE e.what \in Flag -> flags \cup {<<e.what, e.by>>}
    [] e.what = "ok" -> {f \in flags : f[1] # e.by \/ f[2] \notin Registered}
    [] e.what = "over" -> flags \ {<<"fault", e.by>>}

ProcessEvent(e) ==
  \/ e \in UseEvent /\ CodeUsed(e)
  \/ /\ e \in TroubleEvent
     /\ flags' = FlagsAfter(e)
     /\ UNCHANGED <<active, known>> /\ NothingRecorded

\* (mutant) a report with nothing going on ends what was wrong
ProcessStateEnds(r) ==
  /\ UNCHANGED <<lastEvent, known>> /\ NothingRecorded
  /\ active' = IF r = Idle THEN Cleared(active) ELSE active
  /\ flags' = CASE r \in LowState -> flags \cup {<<"battery", r.by>>}
                 [] r = Idle -> {f \in flags : f[1] # "battery"}
                 [] OTHER -> flags

\* _process_state
ProcessState(r) ==
  /\ UNCHANGED <<lastEvent, known>> /\ NothingRecorded
  /\ active' = IF r = Idle THEN Cleared(active) ELSE active
  /\ flags' = IF r \in LowState THEN flags \cup {<<"battery", r.by>>} ELSE flags

\* (mutant) events are only compared with the record before
ProcessRepeated(r) ==
  IF r \in Event THEN lastEvent' = r /\ ProcessEvent(r)
  ELSE ProcessState(r)

\* _process_message of a record that does not fail: an event is processed only once.
ProcessMessage(r) ==
  \/ r \in Event /\ r # lastEvent /\ lastEvent' = r /\ ProcessEvent(r)
  \/ r = lastEvent /\ UNCHANGED unitVars /\ NothingRecorded
  \/ r \notin Event /\ ProcessState(r)

-----------------------------------------------------------------------------
(* processing_loop *)

\* (mutant) all repetitions of the record before are left out at once
UnrepeatedAll(records) == SelectSeq(records, LAMBDA r : r # previous)

\* The records from the first that differs from the one before.
Unrepeated(records) ==
  LET differ == {i \in 1 .. Len(records) : records[i] # previous}
  IN  IF differ = {} THEN << >>
      ELSE SubSeq(records, CHOOSE i \in differ : \A j \in differ : i <= j, Len(records))

\* An event is remembered before its handling fails, a state report is not.
LastAfter(r) == IF r \in Event THEN r ELSE lastEvent

\* (mutant) a failure clears the wake-up event, too
FailedClears(records) ==
  /\ Head(records) \in Faulty /\ Head(records) # lastEvent
  /\ lastEvent' = LastAfter(Head(records))
  /\ batch' = << >> /\ messages' = FALSE
  /\ pc' = IF stop THEN "ended" ELSE "waiting"
  /\ lost' = (lost \/ Tail(records) # << >>)
  /\ UNCHANGED <<active, known, flags, owed, owedSet>>

\* (mutant) the rest of the batch is kept for the next wake-up
FailedKeeps(records) ==
  /\ Head(records) \in Faulty /\ Head(records) # lastEvent
  /\ lastEvent' = LastAfter(Head(records))
  /\ batch' = Tail(records)
  /\ pc' = IF stop THEN "ended" ELSE "waiting"
  /\ UNCHANGED <<messages, lost, active, known, flags, owed, owedSet>>

\* The handling raises (the code object is taken for a code's number): the rest of the
\* batch is gone and the loop starts again.
Failed(records) ==
  /\ Head(records) \in Faulty /\ Head(records) # lastEvent
  /\ lastEvent' = LastAfter(Head(records))
  /\ batch' = << >>
  /\ pc' = IF stop THEN "ended" ELSE "waiting"
  /\ lost' = (lost \/ Tail(records) # << >>)
  /\ UNCHANGED <<messages, active, known, flags, owed, owedSet>>

\* A record is handled, and the task yields.
Handled(records) ==
  /\ Head(records) \notin Faulty \/ Head(records) = lastEvent
  /\ ProcessMessage(Head(records))
  /\ batch' = Tail(records) /\ pc' = "between"
  /\ UNCHANGED <<messages, lost>>

HandleNext(records) ==
  /\ previous' = Head(records)
  /\ Handled(records) \/ Failed(records)

\* All is handled: clear the event, look at _stop and wait again.
WaitAgain ==
  /\ messages' = FALSE
  /\ batch' = << >> /\ pc' = (IF stop THEN "ended" ELSE "waiting")
  /\ UNCHANGED <<previous, unitVars, history>>

\* From one suspension of the loop to the next.
Work ==
  /\ pc = "between" \/ (pc = "waiting" /\ messages)
  /\ LET rest == Unrepeated(batch)
         taken == Unrepeated(outputQ)
     IN  \/ rest # << >> /\ HandleNext(rest) /\ UNCHANGED outputQ
         \/ rest = << >> /\ outputQ' = << >> /\ taken # << >> /\ HandleNext(taken)
         \/ rest = << >> /\ outputQ' = << >> /\ taken = << >> /\ WaitAgain
  /\ UNCHANGED <<panelVars, stop>>

Next ==
  \/ Happens
  \/ WithinBound /\ \E r \in Sendable : Forward(r)
  \/ ForwardNothing
  \/ Work
  \/ Shutdown

Spec == Init /\ [][Next]_vars

\* The processing task runs whenever it can.
FairSpec == Spec /\ WF_vars(Work)

-----------------------------------------------------------------------------
(* Properties *)

Stream == INSTANCE RecordStream WITH pending <- Pending, current <- previous

\* Nothing is handled twice or out of order, and nothing is passed over but repetitions
\* and what waits behind a record that fails, however batches, wake-ups and failures
\* fall together (jablotron.py:3122-3138).
InOrder == Stream!Spec

\* What is recorded is what happened: no use of a code is recorded that did not happen,
\* however often the panel repeats the event and whatever it sends in between; and when
\* all that was sent is handled, every disarm with a code is recorded, also one by a code
\* that is still active, unless it was dropped behind a record that failed
\* (jablotron.py:2095-2109, 2955-2960).
UsesAreTrue ==
  /\ \A c \in Code : owed[c] >= 0 /\ owedSet[c] >= 0
  /\ Pending = << >> /\ ~lost => \A c \in Code : owed[c] = 0

\* When all that was sent is handled, a registered device shows what is wrong with it
\* and nothing else: no repetition brings back what is over, and nothing that came in
\* between is left out (jablotron.py:2021-2029, 2213-2231, 2565-2568).
FlagsAreTrue ==
  Pending = << >> /\ ~fresh /\ ~lost =>
    \A t \in Flag \X Registered : t \in flags <=> t \in trouble

\* Forwarded records are taken up: no wake-up is lost between the last look at the queue
\* and the wait, and a failure does not end the task (jablotron.py:3133-3138).
TakenUp == outputQ # << >> ~> (outputQ = << >> \/ pc = "ended")
=============================================================================
