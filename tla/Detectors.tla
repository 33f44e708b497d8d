------------------------------ MODULE Detectors ------------------------------
(***************************************************************************)
(* Which detectors the central unit shows as active (JA80CentralUnit in    *)
(* jablotron.py).  Three mechanisms work on the same registry:             *)
(*   - a report that names a detector turns it on; a quiet report turns    *)
(*     all of them off;                                                    *)
(*   - a "Details" query asks the panel to name the open ones; its         *)
(*     acknowledgement, seen by the packet loop, asks for a reconciliation *)
(*     at the next state report;                                           *)
(*   - a periodic sweep turns off what has not been reported for a while.  *)
(*                                                                         *)
(* The packet loop (module PacketLoop) is abstracted to "a query is        *)
(* outstanding, and is acknowledged or lost".  The panel may send any      *)
(* record at any time; the record is taken up when it is processed, since  *)
(* nothing else touches the queue it waits in.  One tick of the clock is   *)
(* one STALE_SWEEP_INTERVAL_SECONDS.                                       *)
(***************************************************************************)
EXTENDS Naturals

CONSTANTS
  Device,         \* detectors
  Signal,         \* RF strengths, and the other bytes that tell two reports apart
  StaleTimeout,   \* DEVICE_STALE_TIMEOUT_SECONDS, in ticks
  QueryActivity,  \* the option CONFIGURATION_QUERY_DETECTOR_ACTIVITY
  None

ASSUME DetectorsAssumption ==
  /\ None \notin Device
  /\ StaleTimeout \in Nat
  /\ QueryActivity \in BOOLEAN

VARIABLES
  previous,       \* previous_record of processing_loop
  lastEvent,      \* _last_event_data
  lastDisarmed,   \* is_disarmed_state(_last_state)
  text,           \* what statustext says of triggered detectors
  forceQuery,     \* _force_query
  query,          \* is a "Details" command queued or in flight?
  updateDevices,  \* update_devices of the connection
  active,         \* the devices with active = True
  registry,       \* keys of _active_devices and of _device_last_active
  round,          \* _active_devices_tmp
  age,            \* ticks since _device_last_active
  sweepDue,       \* the sweep loop's sleep has ended
  missed          \* history: reconciliations since a report last named the device

records == <<previous, lastEvent>>
display == <<lastDisarmed, text, forceQuery>>
detection == <<active, registry, round, age>>
vars == <<records, display, query, updateDevices, detection, sweepDue, missed>>

StateKind == {"quiet", "triggered", "multiple", "alarm", "other"}
EventKind == {"clearing", "alarmEvent", "restored"}

\* A state report, with the detector its detail byte names if it names one, or an
\* event.  "quiet" is a disarmed state without activity and without the alarm LED;
\* "clearing" is Setting or Alarm cancelled, "restored" is Control panel power O.K.
Record ==
  [kind : {"quiet"}, dev : {None}, disarmed : {TRUE}, signal : Signal]
    \cup [kind : {"triggered", "multiple"}, dev : Device \cup {None}, disarmed : BOOLEAN, signal : Signal]
    \cup [kind : {"alarm"}, dev : Device, disarmed : BOOLEAN, signal : Signal]
    \cup [kind : {"other"}, dev : {None}, disarmed : BOOLEAN, signal : Signal]
    \cup [kind : {"clearing"}, dev : {None}, disarmed : {FALSE}, signal : Signal]
    \cup [kind : {"alarmEvent", "restored"}, dev : Device, disarmed : {FALSE}, signal : Signal]

RecordType == previous \in Record \cup {None} /\ lastEvent \in Record \cup {None}

FlagType ==
  /\ lastDisarmed \in BOOLEAN
  /\ forceQuery \in BOOLEAN
  /\ query \in BOOLEAN
  /\ updateDevices \in BOOLEAN
  /\ sweepDue \in BOOLEAN

SetType ==
  /\ text \in {"other", "bare", "named"}
  /\ active \subseteq Device
  /\ registry \subseteq Device
  /\ round \subseteq Device

CountType == age \in [Device -> Nat] /\ missed \in [Device -> Nat]

TypeOK == RecordType /\ FlagType /\ SetType /\ CountType

Init ==
  /\ previous = None /\ lastEvent = None
  /\ lastDisarmed = FALSE        \* _last_state is None
  /\ text = "other" /\ forceQuery = FALSE
  /\ query = FALSE /\ updateDevices = FALSE
  /\ active = {} /\ registry = {} /\ round = {}
  /\ age = [d \in Device |-> 0]
  /\ sweepDue = FALSE
  /\ missed = [d \in Device |-> 2]

-----------------------------------------------------------------------------
(* Queries *)

\* send_detail_command called by hand (a button), or by disarm() during an alarm;
\* add_command drops a "Details" while another is queued or in flight.
ManualQuery ==
  /\ query' = TRUE
  /\ UNCHANGED <<records, display, updateDevices, detection, sweepDue, missed>>

\* The packet loop reads the acknowledgement ...
QueryAcknowledged ==
  /\ query
  /\ query' = FALSE
  /\ updateDevices' = TRUE
  /\ UNCHANGED <<records, display, detection, sweepDue, missed>>

\* ... or spends its budget on the command.
QueryLost ==
  /\ query
  /\ query' = FALSE
  /\ UNCHANGED <<records, display, updateDevices, detection, sweepDue, missed>>

-----------------------------------------------------------------------------
(* Processing a record *)

\* The devices a record makes _activate_source or _activate_device turn on.
Named(r) ==
  IF r.kind \in {"triggered", "multiple", "alarm", "alarmEvent"} /\ r.dev # None
  THEN {r.dev} ELSE {}

\* _clear_triggers walks the registry.
Clears(r) == r.kind = "clearing" \/ (r.kind = "quiet" /\ r.disarmed)

Cleared(r) == IF Clears(r) THEN active \ registry ELSE active

\* The query of a single triggered detector is suppressed while the display already
\* says more than the bare "Triggered detector".
Suppressed(r) ==
  /\ r.kind = "triggered" /\ r.dev = None
  /\ text = "named"
  /\ ~forceQuery

\* (mutant) a forced query is not made for several detectors
AsksOnce(r) ==
  /\ r.kind \in {"triggered", "multiple"}
  /\ r.dev = None
  /\ text # "named"

Asks(r) ==
  /\ r.kind \in {"triggered", "multiple"}
  /\ r.dev = None
  /\ ~Suppressed(r)

\* _send_device_query, and the flag that lifts the suppression once.
SendDeviceQuery(r) ==
  /\ IF Asks(r) /\ QueryActivity THEN query' = TRUE ELSE UNCHANGED query
  /\ IF r.kind = "multiple" THEN forceQuery' = TRUE
     ELSE IF Asks(r) THEN forceQuery' = FALSE
     ELSE UNCHANGED forceQuery

\* In the exit delay and in service mode the state's own text comes first.
TextsAfter(r) ==
  CASE Suppressed(r) -> {text}
    [] r.kind = "triggered" /\ ~Suppressed(r) ->
         IF r.dev # None THEN {"named"}
         ELSE IF r.disarmed THEN {"bare"} ELSE {"bare", "named"}
    [] r.kind = "multiple" -> {"named"}
    [] OTHER -> {"other"}

\* _update_device: what the round has named is on, the rest of the registry off.
Reconciled(on, reg, rnd) == (on \ reg) \cup (rnd \cap reg)

\* (mutant) the round is kept
ReconcileKeepsRound(on, reg, rnd) ==
  IF updateDevices
  THEN /\ active' = Reconciled(on, reg, rnd)
       /\ round' = rnd
       /\ updateDevices' = FALSE
  ELSE /\ active' = on
       /\ round' = rnd
       /\ UNCHANGED updateDevices

\* The end of _process_state.
UpdateDevice(on, reg, rnd) ==
  IF updateDevices
  THEN /\ active' = Reconciled(on, reg, rnd)
       /\ round' = {}
       /\ updateDevices' = FALSE
  ELSE /\ active' = on
       /\ round' = rnd
       /\ UNCHANGED updateDevices

Counted(r) ==
  missed' = [d \in Device |-> IF d \in Named(r) THEN 0 ELSE missed[d]]

CountedRound(r) ==
  missed' = [d \in Device |-> IF d \in Named(r) THEN 1
                              ELSE IF missed[d] < 2 THEN missed[d] + 1 ELSE missed[d]]

\* (mutant) the source is not checked to be a device
ActivateUnchecked(r) ==
  /\ registry' = registry \cup {r.dev}
  /\ age' = [d \in Device |-> IF d = r.dev THEN 0 ELSE age[d]]

\* (mutant) the device is put into the round only
ActivateInRoundOnly(r) ==
  /\ UNCHANGED registry
  /\ age' = [d \in Device |-> IF d \in Named(r) THEN 0 ELSE age[d]]

\* _activate_device, and the refresh of what is shown while the query is suppressed.
Activate(r) ==
  /\ registry' = registry \cup Named(r)
  /\ age' = [d \in Device |->
       IF d \in Named(r) \/ (Suppressed(r) /\ d \in active \cap registry)
       THEN 0 ELSE age[d]]

\* _process_state
ProcessState(r) ==
  /\ r.kind \in StateKind
  /\ lastDisarmed' = r.disarmed
  /\ Activate(r)
  /\ UpdateDevice(Cleared(r) \cup Named(r), registry \cup Named(r), round \cup Named(r))
  /\ SendDeviceQuery(r)
  /\ text' \in TextsAfter(r)
  /\ IF updateDevices THEN CountedRound(r) ELSE Counted(r)
  /\ UNCHANGED lastEvent

\* _process_event
ProcessEvent(r) ==
  /\ r.kind \in EventKind
  /\ lastEvent' = r
  /\ IF lastEvent = r
     THEN UNCHANGED <<detection, missed>>
     ELSE /\ registry' = registry \cup Named(r)
          /\ age' = [d \in Device |-> IF d \in Named(r) THEN 0 ELSE age[d]]
          /\ active' = IF r.kind = "restored" THEN active \ {r.dev}
                       ELSE Cleared(r) \cup Named(r)
          /\ round' = round \cup Named(r)
          /\ Counted(r)
  /\ UNCHANGED <<query, updateDevices, display>>

\* An iteration of processing_loop: a record equal to the one before is skipped.
Process(r) ==
  /\ previous' = r
  /\ IF r = previous
     THEN UNCHANGED <<display, query, updateDevices, detection, lastEvent, missed>>
     ELSE ProcessState(r) \/ ProcessEvent(r)
  /\ UNCHANGED sweepDue

-----------------------------------------------------------------------------
(* The staleness sweep *)

\* The clock; the sweep loop sleeps one tick and then sweeps.
Tick ==
  /\ ~sweepDue
  /\ sweepDue' = TRUE
  /\ age' = [d \in Device |-> IF age[d] <= StaleTimeout THEN age[d] + 1 ELSE age[d]]
  /\ UNCHANGED <<records, display, query, updateDevices, active, registry, round,
                 missed>>

\* (mutant) the sweep runs while the system is set instead
SweepWhenSet ==
  /\ sweepDue
  /\ sweepDue' = FALSE
  /\ active' = IF lastDisarmed THEN active
               ELSE active \ {d \in registry : age[d] > StaleTimeout}
  /\ UNCHANGED <<records, display, query, updateDevices, registry, round, age,
                 missed>>

\* _sweep_stale_devices
Sweep ==
  /\ sweepDue
  /\ sweepDue' = FALSE
  /\ active' = IF lastDisarmed
               THEN active \ {d \in registry : age[d] > StaleTimeout}
               ELSE active
  /\ UNCHANGED <<records, display, query, updateDevices, registry, round, age,
                 missed>>

-----------------------------------------------------------------------------
Next ==
  \/ \E r \in Record : Process(r)
  \/ Tick \/ Sweep
  \/ ManualQuery \/ QueryAcknowledged \/ QueryLost

Spec == Init /\ [][Next]_vars

\* Time passes, and the event loop runs the sweep task.
FairSpec == Spec /\ WF_vars(Tick) /\ WF_vars(Sweep)

-----------------------------------------------------------------------------
(* Properties *)

\* Whatever is active, or will be turned on by the reconciliation, is known to the
\* registry: the quiet report, the reconciliation and the sweep can turn it off.
TrackedIsRegistered == active \cup round \subseteq registry

\* A detector is shown as active only if a report or an event has named it in the
\* current round or in the one before: one round of silence turns it off, however
\* reports, acknowledgements, clears and sweeps are interleaved.
ActiveWithinARound == \A d \in active : missed[d] <= 1

\* When the panel says nothing of triggered detectors any more and stays unset, every
\* detector ends up inactive, even if no quiet report and no acknowledgement comes.
SilenceEndsInactive ==
  <>[](lastDisarmed /\ previous # None /\ Named(previous) = {} /\ previous.kind # "triggered")
    => <>[](active = {})

\* While the panel goes on reporting several triggered detectors between other
\* records, and of the queries asked again and again some are acknowledged,
\* reconciliations go on: a query is never suppressed for good.
KeepsReconciling ==
  /\ []<>(previous # None /\ previous.kind = "multiple" /\ previous.dev = None)
  /\ []<>(previous # None /\ previous.kind # "multiple")
  /\ SF_vars(QueryAcknowledged)
  => []<>updateDevices /\ []<>~updateDevices

\* (violated) A detector that has closed while another stays open is turned off: from
\* some time on the panel reports a single triggered detector and names, again and
\* again, another one.
ClosedDetectorClears ==
  SF_vars(QueryAcknowledged) => \A d \in Device :
    /\ <>[](lastDisarmed /\ previous # None /\ previous.kind = "triggered" /\ previous.dev # d)
    /\ []<>(previous # None /\ Named(previous) # {})
    => <>[](d \notin active)
=============================================================================
