# A verification project for the Jablotron 80 integration

The repository is a Home Assistant custom integration
(`src/custom_components/jablotron80/`) that talks to a JA-80 alarm panel over a
JA-80T/JA-82T cable (HID) or a serial line. It emulates a keypad: it reads the
panel's broadcast records, turns them into entities, and controls the panel by
"typing" key sequences that carry an access code. A layer on top keeps personal
codes per Home Assistant account, optionally encrypted, and disarms with them.

This directory holds TLA+ models of that program, the TLC configurations that check
them on small instances, and proofs, checked by TLAPS, that the most important
properties hold for every value of the constants.

All paths below are relative to `src/custom_components/jablotron80/`; plain line
numbers are lines of `jablotron.py`.

## 1. Inventory

Everything runs on one asyncio event loop. Two pieces of code interleave only where
one of them awaits something that really suspends: a device read or write
(`asyncio.to_thread`), an executor job, a sleep, a lock, an event, a store write.
`Queue.put` on an unbounded queue does not suspend.

| Component | State | Operations | What makes it correct |
|---|---|---|---|
| **Packet loop and command queue** (689-925, 660-686) | `_cmd_q`, `_cmd_list`, `_send_cmd`, `_connection`, `_stop`, `update_devices`; per command an event and `_confirmed` | `add_command` (any task), `read_send_packet_loop` (one task), `read_until_found`, `confirm`, `wait_for_confirmation`, `reconnect`, `shutdown` | a code is entered no more often than its budget allows and never again once accepted; background queries do not pile up; a caller is told the truth, and is told |
| **Record intake** (718-723, 774-781, 2948-2978, 3122-3138) | `_output_q`, `_messages`, `previous_record`, `_last_event_data` | forward, batch, de-duplicate, classify | no record is lost or applied twice |
| **Detectors** (2009-2014, 2111-2211, 2402-2416, 2582-2679) | `_active_devices`, `_active_devices_tmp`, `_device_last_active`, `_force_query`, `active` | reports, events, query and reconciliation, staleness sweep | a detector shown as active was named recently; a closed one goes off; an open one is not swept |
| **Zones and alarm entities** (520-656, 2418-2580, `alarm_control_panel.py`) | status of three zones, `_mode`, `_last_state` | `_call_zone(s)`, `notify_service`, `alarm_state`, arm and disarm services | an entity shows what the panel last reported; a disarm is not typed twice |
| **Saved-code disarm** (`user_codes.py:105-153`, `user_code_api.py:81-98`) | `_panel_locks`, `_attempts` | `async_disarm` for several accounts | spacing and number of attempts; no refusal without a reason; the lock is released |
| **Code store** (`user_codes.py`) | `_codes`, the private Store, `storage_available`, `_write_lock` | load, save, remove, validate, migrate | no code is lost or comes back; storage follows the options; a crash leaves nothing unreadable |
| **Credentials and key files** (`credentials.py`) | `entry.data`, key files | `read_key`, `create_key`, `encode`, `decode`, `prepare_config` | a key in use is never replaced |
| **Options flow** (`config_flow.py:263-300`) | `entry.options` | `async_step_init` | data, options and codes change together |
| **Entry setup** (`__init__.py`) | `hass.data[DOMAIN]`, the unit, its listener | setup, unload, options listener | the unit works with the options of its entry |
| **Lifecycle and watchdog** (1699-1764, 3105-3108, HID/serial connect) | `_last_data_time`, `_connection_was_alive`, the tasks | `initialize`, watchdog, `shutdown`, `connect`, `disconnect` | silence and return are shown in time; the loop ends and leaves the device closed; a lost link is found again |
| **Events, codes used, faults** (2017-2109, 2213-2400) | `_active_codes`, tampers, batteries, faults, last use | `_process_event` | each use is recorded and none is invented; a flag ends with its trouble |
| **Lovelace card** (`frontend/*.js`) | `_revision`, `_busy`, `_refreshPending`, `_saved` | load, write, disarm, change events | replies of an earlier entity or account are dropped; cards agree |
| **Settings, framing, entity platforms, logbook, config flow, constants** | tables and formatting | | not a matter of behaviour over time |

How they interact: the packet loop puts batches of records into `_output_q` and sets
`_messages`; `processing_loop` takes them up, updates zones, detectors and `_last_state`,
and asks for a "Details" query, which is a command for the packet loop again. The
acknowledgement of that query comes back as `update_devices`, a flag that the next
state report consumes. Entity services and `async_disarm` add commands. The options
flow, the setup and the account API share the store, the key files and the entry. The
packet loop also takes the time of the last data, which the watchdog looks at; the
shutdown disconnects while the packet loop may be suspended in any call. The cards talk
to the account API and, by window events, to each other.

What is hard: the panel acknowledges only some keypresses, and the master code
*toggles*; a report may be lost, be equal to the one before (and be dropped), or come
between a question and its answer; three mechanisms turn detectors off; several
accounts overlap; the store and the config entry are separate files; Home Assistant may
stop at any await. `PROJECT.json` lists these hazards at the lines where they bite.

## 2. Modules

### PacketLoop (proofs: PacketLoop_proofs)
`read_send_packet_loop` is one task. `pc` says where it is suspended: at the `top`
(reading), in a `write`, waiting for an acknowledgement (`ack`) or a completion
(`complete`), or `exited`. One action goes from one suspension to the next: `ReadRecords`
(817-833, with `TakeCommand`), `WriteKey`/`WriteFails`, `KeyAcknowledged` and
`KeyNotAcknowledged`, `CompletionRead`/`CompletionNotRead`, `Abandon` (the `except
Exception` at 899), `Reconnect`, `Exit`. `TopReadRaises` is an iteration that ends in that
handler before it has looked for a command. `PortLost` is the device behind an open serial
port going away: `lost`, and `connected` for good, since `disconnect` flushes the port
before it lets go of it and the flush raises (732). Other tasks act through `AddCommand`,
`CallerResumes`, `ReconcileDevices` (the state report that consumes `update_devices`),
`Shutdown` and `ShutdownDisconnects`. A record is abstracted to whether it starts with the
awaited prefix; a read may bring it or not. Histories: how often a command's keys were
entered, whether an attempt was acknowledged or completed.

### Detectors (proofs: Detectors_proofs)
`Process(r)` is a whole pass of `processing_loop`'s body for one record: it skips a
record equal to `previous`, then does all of `_process_state` or `_process_event` that
touches detectors, the query and, at the end, `_update_device` if `update_devices` is
set. `Sweep` and `Tick` are the sweep loop; `QueryAcknowledged`/`QueryLost` stand for
the packet loop; `ManualQuery` is the button. The panel may send any record at any time.

### Zones (proofs: Zones_proofs)
`ProcessState` and `ProcessEvent` make the zone calls of 2451-2580 and of the events
that set or unset; `CallZones` is what the zones' methods do, including the guard of
`check_active`. `AlarmState` and `ActiveZone` are the entity's properties;
`AlarmDisarm` and `AlarmArm` the services. The panel is external: it runs through the
state chains documented at the head of `JablotronState`, sends each state at least
once, and takes typed codes as the comments say. A report may be lost; the history `gap`
follows such a loss until a disarmed report has been processed after it.

### SavedDisarm over CodeLimit (proofs: SavedDisarm_proofs)
`CodeLimit` is the promise of `USER-CODES.md:200-204`: codes given to a panel are at
least `Gap` apart and no window of `Window` holds more than `Limit`. `SavedDisarm` is
the code: requests line up at the panel's lock (`Request`), `Turn` is the code from the
lock to the executor job, `CodeRead` from the job's result to the answer, both by way of
`Decide` and `Send`. Codes, options, connection and panel state are free at each look.
`KeepsLimits` is `Limits!Spec`: the refinement with `given` (a history of `Send`) as the
abstract state. What becomes of a code that is queued is PacketLoop's subject.

### CodeStore (proofs: CodeStore_proofs)
The write lock is a queue, `line`; `line[1]` has it. `Take`, `Encode`, `WriteStore` and
`Commit` are the stretches between the awaits of `async_save`, `async_remove` and
`async_migrate`, with what the caller of a migration does next (the flow updates the
entry and so, by the listener, the unit; the setup decodes the credentials next). A
record is a code, the key file it names, and the content of the file it was made with, so
that a recreated file does not decode old records. `Flow*` are the steps of the options
flow. `loaded` says how far a setup is: after the migration, or at once when
`async_prepare_entry` skips it (`Migrates`), the executor decodes what was `prepared`,
`SetupMakes` puts it in the entry and makes the unit (`__init__.py:64-71`), and
`initialize` ends (`SetupEnd`) or raises (`SetupFails`). A refused setup is tried again by
Home Assistant (`ConfigEntryNotReady`, 67); one whose `initialize` raised its
`TimeoutError` is not, and `Reload` is its owner asking for another.

`Crash` loads what is on disk; `Persist` is Home Assistant's deferred write of config
entries; `WriteFails` a store write that raises; `CreateKeyFails` and `Torn` a key file
that could not be opened, or was opened and not written, which leaves a file that is no
key (`Broken`) and is never overwritten (`credentials.py:46-55`); `KeyLost` a key file that
disappears; `Damaged` lets the store be unreadable when Home Assistant starts, at first or
after a crash, whatever was in it.

### Unit = Link + Watchdog (proofs: Unit_proofs)
`Link` is the connection, call by call: every flush, close, open, write and read of
`connect`, `disconnect` and `_read_data` suspends its task in a thread, and the other
task, the packet loop or the shutdown, may have replaced `_connection` meanwhile.
`pc`/`hold` and `closing`/`held` say where the two are suspended and with which file;
`within` what a disconnect or connect of the loop is part of (the top of the loop, a
read, a serial silence, the handler of `PortNotOpenError`, the end). `FlushRefused` is
that exception when a flush meets a port that the shutdown has closed (819-820). A command
is only a write and further reads and writes here; PacketLoop has its details. `Watchdog` is
`_connection_watchdog`, `connection_alive` and what Home Assistant was told of each
entity (`shown`), in ticks. `Unit` composes them: a read with records is `DataArrives`,
and a shutdown ends the watchdog.

### Events over RecordStream (proofs: Events_proofs)
`Work` is `processing_loop` from one suspension to the next: the rest of the batch or
what `get_record` finds (`Unrepeated` is the comparison with `previous_record`), one
record handled (`Handled`), one that raises (`Failed`), or the end of the round
(`WaitAgain`: clear the event, look at `_stop`, wait). `ProcessMessage` is
`_process_message` with its second filter, `CodeUsed` and `FlagsAfter` what
`_process_event` does to codes and to a device's flags, `ProcessState` what
`_process_state` does to them: a report with nothing going on clears the codes, one of a
discharged battery (`LowState`, 2565-2568) sets the device's flag. An alarm whose source is
a code raises (2037: the code object is taken for its number; the event `24 hours`, 2323,
raises in the same way), and so does a state report whose source is one (`CodeState`); the
event has been remembered by then, a state report is not (`LastAfter`). `RecordStream` is
what the intake promises: records are handled in order, and passed over only if they equal
the one before or wait behind one that fails. `InOrder` is `Stream!Spec`, with what was
forwarded and not reached yet as the pending records.

### Card (proofs: Card_proofs)
One window with several cards (`JablotronAccountCard`) and the server behind them.
`Reset` is `_reset`, and `current` of a request says whether it was sent under the
card's present `_revision`; `LoadFirst` is the line that `setConfig`, the setter of
`hass` and `connectedCallback` share. `Receive` is an answer with all that follows at
once: `_finish`, the refresh that waits, the window event (`Listeners`, `Hears`).
`ReceiveLate` is an answer that is dropped. A request may be refused, or be carried out
and its answer lost. The history `unheard` names the writes that no card could tell of.

### MC modules
`MCPacketLoop`, `MCDetectors`, `MCZones`, `MCSavedDisarm`, `MCCodeStore`, `MCUnit`,
`MCEvents` and `MCCard` declare model values and the definitions that the `.cfg` files give
to constants. Operators marked `(mutant)` are used by nothing: each is a plausible bug,
named in `PROJECT.json`, that the property next to it is known to catch.

## 3. Runs

| Run | Question | Result |
|---|---|---|
| `packet_loop` | faulty device, shutdown at any time: no duplicate, no entry over budget, nothing re-sent after success, no false failure; on a link that comes back (no serial port lost while open), every command is answered or given up | holds |
| `packet_loop_waits` | does a caller wait for good? | **violated**: `except` at 899 confirms nothing |
| `detectors` | whatever is active can be turned off, and is, after a round that did not name it or after silence; reconciliation goes on | holds |
| `detectors_closes` | a closed detector goes off while another is open | **violated**, 2603 |
| `zones` | after a report the entities show it, in all three modes, with lost reports; service mode and "disarming" end | holds |
| `saved_disarm` | refines `CodeLimit`; refusals are due; every request ends | holds |
| `code_store` | no code lost, stored as configured, recoverable, with failing writes, failing key files, failing setups and a crash anywhere | holds |
| `code_store_again` | set up again (as far as the unit) after any crash, with flows during setup, unless a key file it needs is gone or the store is damaged and the entry is to be encrypted | holds |
| `code_store_setup` | stored as configured if a flow meets a setup | **violated**, `__init__.py:72` |
| `unit` | silence and return of the panel are shown in time; the loop finds a lost device, ends after a shutdown, and the device is closed then | holds |
| `events` | refines `RecordStream`; nothing is left waiting; no use of a code is invented, every disarm is recorded; a battery flag is set as long as the battery is discharged | holds |
| `card` | what a card shows is its own and, when nothing is under way, what is stored; no card is stuck | holds |

The violated properties are statements of the repository's own comments and documents;
`findings` in `PROJECT.json` quotes each of them.

### Known gaps
While the models were written, more statements were checked and found not to hold. They
have no run of their own; the properties above are stated so that they do not hide them.
- A caller of `wait_for_confirmation` is told True by the first accepted attempt, even
  if the loop later reports the command as failed (883).
- After an exception in the middle of a command the in-flight mark `_send_cmd` stays, and
  later "Details" are dropped as its duplicates until another command is taken (899).
- `_clear_triggers` leaves `_active_devices_tmp`: the report that turns every detector
  off may turn those of the unfinished round on again in the same step (2009).
- A record equal to the one before it is dropped and refreshes no time stamp, so the
  sweep may turn off a detector that the panel keeps reporting (3130).
- In an unsplit system zones A and B stay in service for good, and with them
  `is_elevated()` (1974); `ElevatedEnds` is about the enabled zones.
- A report on its way when the user disarms takes the zone out of "disarming", and a
  second press sends a second code (`alarm_control_panel.py:115`).
- The entity of section B falls back to zone A when it knows none of its own zones
  (`alarm_control_panel.py:243`); `EntityShowsPanel` is about entities that know one.
- After lost disarmed reports a smaller set may be shown as the larger one until the next
  disarmed report (2471); `EntityShowsPanel` waits for that report.
- A personal code that is removed, or a mode that is switched, while the executor decodes
  the code does not stop the disarm (`user_codes.py:111`).
- Codes are spaced when they are queued; while the packet loop is held up two of them
  can reach the panel back to back (`user_codes.py:148`).
- A key file that is lost can be created anew by the flow of another entry whose records
  do not need it, although stored records of the first still name the path
  (`credentials.py:46`).
- With a damaged store an entry that is encrypted, or is to be, is not set up at any
  attempt: `async_prepare_entry` migrates all the same (`credentials.py:114`), the migration
  raises `storage_unavailable` (`user_codes.py:156`) and the setup is refused
  (`__init__.py:67`). It is meant so (`ENCRYPTION.md:91-93`), and is the case `Refused` that
  `SetUpAgain` excepts; a plain entry is set up.
- A new key file whose write fails or is cut off by a crash stays behind empty and is no
  key: creating a key at that path is refused until someone removes it
  (`credentials.py:46-55`). An entry names such a file only if it had lost that file before.
- With a damaged store a removal in common mode overwrites the store
  (`user_codes.py:59`).
- The alarm of an unset split system (0x64) reaches no zone: `_process_state` has no
  branch for it (2455), although the comment at 1322-1326 lists it among the states of a
  split system and 1405 among the alarm states. No entity shows that alarm.
- A tamper, a low battery or a fault of the control panel itself never ends: "All tamper
  contacts OK" (2357), "No fault in system" without a device (2364) and "All devices'
  power O.K." (2367) walk through `self.devices`, which are the registered detectors
  (1770-1787). `FlagsAreTrue` is about those.
- A setting with a code that is still active is not recorded again (2058-2062 says "one
  entry per use"): a partial set leaves its code active until something clears it.
  `UsesAreTrue` claims completeness for disarms only, which are recorded whether or not
  the code is active.
- What happens twice within the minute of an event's time stamp looks like a repetition
  (2957).
- A serial port that is lost while it is open is never opened again: `disconnect`
  flushes it first, the flush raises, and the loop starts from the same `_connection`
  (732). Each iteration raises at its first read, before a command is looked for, so that
  what is queued stays queued and is never answered (817-823, 899). `LinkComesBack` and
  `EveryCommandAnswered` (by `DeviceReturns`) except this case.
- A HID read that blocks and a serial read that reconnects do not look at `_stop`: a loop
  that is shut down ends only when the panel talks again (964, 1039; `LoopEnds` has that
  premise). The disconnect of the shutdown may raise when the loop has just closed the
  same file (732).
- An entity that is written during a silence which falls between two looks of the
  watchdog is shown as unavailable until its object changes again (1736); `ReturnIsShown`
  is about objects that change only with records.
- The two sensors of the panel clock are not among those that `_refresh_all_entities`
  writes (1712).
- `processing_loop` waits for records after a shutdown and is never woken (3125); the
  listener for Home Assistant's stop is never removed (1756); an `initialize` that times
  out leaves its four tasks running, and the next setup starts four more (1763).
- A write whose answer is lost, or whose card was reset meanwhile, tells no other card
  (`jablotron-user-code-card.js:247`); writes from another window are not seen at all. A
  detached card that is handed its `hass` loads although it hears no change event.

### Bounds, and why they are enough
- PacketLoop: two "Details" objects (a duplicate needs two), a two-key code with
  budget 2, the others with budget 1, one command with a completion. One read stands for
  the 10 in which an acknowledgement is looked for and two for the 300 of a completion:
  the loop only tells "found" from "not found in the last one".
- Detectors: two detectors (one open, one closed), one signal value. Ages saturate above
  `StaleTimeout`, `missed` at 2; no bound cuts a behaviour off.
- Zones: all states of all modes; two records in flight (one stale and one new), one
  request at a time, one loss at a time. In a split system no request is made: it would
  change no zone, and what its keys do to the panel the panel also does by itself.
- SavedDisarm: `Gap` 2, `Window` 5, `Limit` 2 instead of 15, 300, 3: the same order
  `Gap < Window`, and `Limit` attempts fit into a window with room to spare, so both
  refusals occur. `MaxTime` is the only cut. One panel: nothing is shared between panels,
  and the proofs are for any number.
- CodeStore: two accounts and two key files, or one account, one key file that is made
  up to twice and a flow at any time; two operations at the lock where they contend, one
  where the question is the setup; one crash. One value of a code is enough, since a lost
  code shows as an absent one and the content of the key file tells old records from
  new. `KeyFaults` is on where the question is what a crash or a failure leaves behind. The
  flows of `code_store_again` choose personal mode only (`ChosenModes`): the mode plays no
  part in a setup. What a crash leaves of a damaged store is nothing: what is lost with the
  file is not the code's loss (`acked` starts anew).
- Unit: both cables, two file objects (each task holds at most one, and a loop that opens
  one refers to no other), one command queued at a time. The time-out is two ticks and
  the interval one: what matters is `Interval < Timeout`. Time is followed only while
  the watchdog runs. A detector stands for what changes by itself, a code for what only
  records change.
- Events: one code, one detector and one flag, the battery's, which is the one that events
  and state reports both set; TLC does not follow two flags in its time, so a single fault
  that ends by itself ("over") and what clears several devices at once are the proofs'
  (`FlagsTrue`, for all flags and devices). Two records waiting are enough for a repetition,
  a loss behind a failure and a batch that arrives during another. `MaxOwed` says how far
  the panel may run ahead. A panel that ends what began is part of it, since only then a
  repetition could bring it back; it tells of a discharged battery by an event before its
  state reports show it.
- Card: one card of each kind, one account that logs out and in, two panels, two requests
  of a card under way (one late, one current), two resets: an answer may be late by two
  revisions. The panels are interchangeable; the other runs with symmetric sets have
  liveness properties and use none.

### Fairness
- `PacketLoop!FairSpec`: the loop's task and the resumed callers run (asyncio schedules
  every ready task; reads end by the serial time-out, or with the panel's steady
  broadcast on HID; a read of a port that is not lost does not raise for ever).
  `EveryCommandAnswered` has as its premise `DeviceReturns`: again and again the link is up
  and not a serial port that was lost while open.
- `Detectors!FairSpec`: time passes and the sweep's sleep ends. `KeepsReconciling` and
  `ClosedDetectorClears` have as their premise that a query asked for again and again is
  acknowledged some time (the comment at 914 says one in six).
- `Zones!FairSpec`: the processing task runs, the panel goes on sending and some of it
  arrives, an entry delay ends.
- `SavedDisarm!FairSpec`: an executor job and a free lock make progress.
- `CodeStore!FairSpec`: executor jobs and writes end; `initialize` ends one way or the
  other, by its time limit of 20 s; Home Assistant retries a setup that raised
  `ConfigEntryNotReady`. The lock's bound may keep a setup from lining up
  for a while, which is why its fairness is strong.
- `Unit!FairSpec`: asyncio runs every task whose call has returned, and every call
  returns but a read while the panel is silent, which is why a read needs a talking
  panel. A talking panel sends whole records again and again; a command ends, as its
  retries and reads are bounded (strong, since its steps are shared with the loop's). The
  watchdog's sleep ends and time passes.
- `Events!FairSpec`: the processing task runs whenever it can.
- `Card` has none: an answer may never arrive, and nothing is promised then.

## 4. Proofs

All proofs are for arbitrary constants under the named assumptions of the modules
(`CommandAssumption`, `RecordsAssumption`, `DetectorsAssumption`, `LimitAssumption`,
`ClockAssumption`, `NoneAssumption`, `LinkAssumption`, `WatchdogAssumption`,
`EventsAssumption`, `CardAssumption`, `FaultAssumption`, `ValueAssumption`,
`ZonesAssumption`), which TLC evaluates in every run. Every type invariant, safety invariant
and action property that a passing run checks is a theorem.

- **PacketLoop_proofs.** `IInv` = `TypeOK` and: the list mirrors the queue, queued
  commands differ and none is in flight (without it, taking a command could reset the
  history of another); budget paid for (`BudgetPaid`: entries made plus retries left
  never exceed the budget plus one, which is what makes `EntriesBounded` inductive);
  live commands have neither failed nor, without a completion, been accepted. From it:
  `TypeCorrect`, `ListIsQueue`, `OneDetailsAtATime`, `EntriesWithinBudget`,
  `DoneIsNotResent`, `FailureTruthful`.
- **Detectors_proofs.** `IInv` adds `RoundIsNamed`: what is in the current round was
  named since the last reconciliation. It is needed because the reconciliation turns on
  what is in the round. From it: `TypeCorrect`, `EveryTrackedIsRegistered`,
  `OffAfterAMissedRound`.
- **SavedDisarm_proofs.** `IInv` adds `Serving` (a request that reads its code holds
  the lock) and `Kept` (the attempts in the window are exactly the codes given in it): the
  list is cut at every attempt, so that it determines the window is an invariant and not
  a definition. Cardinalities come from `FiniteSetTheorems`. From it: `TypeCorrect`,
  `RefusalsAreDue` and `ImplementsLimits`, the refinement
  `Spec => CodeLimit!Spec`. `LockInv` (in line at a panel's lock are its requests, each
  once, and no others) gives `LockIsPassedOn`: the first in line can always go on and
  whoever has not ended is in line, so that an early return never keeps the lock. It is
  what `RequestsEnd` adds fairness to.
- **CodeStore_proofs.** `CodesInv`: those who wait for the lock have done nothing; the
  head's copy of `_codes` differs from them in what it was asked to write only; the store is
  `_codes`, or what the head has just written. A crash, a failed write or another operation
  can therefore not take the code of someone else with it: `NothingLost`, and `TypeCorrect`.
  `EntryInv` adds that credentials, unit and codes of a loaded entry are as its options say
  (`Fits`: from the moment its setup has migrated it, with what the setup has prepared,
  `Ready`, until that is in the entry), that only a setup is at work for an entry that is
  not loaded, and only one: `SettledWell`. Its hypothesis `~FlowsMeetSetup` is the
  constant's value in the run that checks the property; without it the property is false,
  which is the violation that `MCCodeStore_setup` shows. `KeyInv` says that whatever is
  encoded - in memory, on disk, in a copy, in an operation that waits or in what a setup has
  prepared - was encoded with the present content of its key file: `Decodable` and
  `KeyFilesKept`, with the hypothesis `~LoseKeys` (a lost key file is exactly when records
  cannot be decoded), and for flows that do and do not meet a setup.
- **Zones_proofs.** The difficulty is that the zones follow the inbox and not the panel,
  and that one record speaks of a part only. `StreamInv` says that between two reports
  that all is unset the records speak of one part, so that when a state of a part is
  processed the zones of the others are at rest (`Apart`), and that the panel keeps to it;
  `ZonesInv` says that the zones fit the state processed last (`Fits`), also when it
  was skipped as a repetition. A lost report ends a stretch, so only records behind `gap`
  count. From it, for all three modes and with or without losses: `TypeCorrect`,
  `ServiceEnds`, `ShownAsReported`.
- **Unit_proofs.** What is shown depends on what the watchdog saw at its last look, so
  the invariant bounds what can have happened since: `SilenceIsNoticed` (a link that fell
  silent after the look is not yet silent for the time-out and an interval at the next
  one), `ReturnIsNoticed` and `ReturnIsYoung` (the same for a link that came back),
  `FlowOnlyAlive`, and `SilentShown`/`AliveShown` (what was seen is what is shown). The
  two properties alone say nothing of the sleep that is left, so they are not inductive.
  The argument rests on `Interval < Timeout` in `WatchdogAssumption`, as in
  lines 1543-1544; `WatchStep` is all that the connection's steps
  can do to the watchdog's state. From it: `TypeCorrect`, `SilenceShown`, `ReturnShown`.
  For the connection, `CloseInv` says that a `_connection` whose file is closed is about
  to be given up by the task that closed it, and that what the ended loop leaves behind
  is a lost serial port or in the shutdown's hands. With it `ClosedInTheEnd`: whichever
  of the two disconnects is overtaken by the other, nothing stays open.
- **Events_proofs.** `ImplementsStream`, the refinement `Spec => RecordStream!Spec`: the
  pending records are those of the batch that are left and those behind it, and the proof
  shows that each round of the loop takes the first of them that `Unrepeated` accepts.
  `Unrepeated` chooses a smallest index, hence `SmallestOne` (well-founded order of Nat);
  `RestInFirst` and `RestInSecond` say what is left of two batches after a place in the
  first or in the second. The only invariant it needs is `QueuesTypeOK`. `NoWakeUpLost`: as
  long as there is something to do the event is set, although the loop clears it at the end
  of a round (the safety half of `TakenUp`). `UsesTrue` and `FlagsTrue` need more than the
  variables: the model counts what is owed, but not which pending record tells of something
  for the first time, and the same event may happen again. `StoryInv` states that there is a
  sequence of events and a place in it for each pending record, for what has been sent and
  for what was handled last, such that what is owed is the tally of those between, and the
  flags are those after the last handled (`Course` follows what was wrong after each event).
  A report of a discharged battery has a place in it, too: the event it was sent after,
  which has been handled or waits before it (`ReportsPlaced`), and at which that battery was
  discharged (`ReportsTrue`), so that when its turn comes the flag is set already. Each step
  is shown to continue the story: the panel appends to it, sending marks another place,
  handling moves the last one on, and a repetition that is passed over tells of the same
  event.
- **Card_proofs.** `IInv` adds `Fits` for every card: one request of its revision while
  it is busy and none otherwise, that one is about the card's present account and entity,
  and a detached card is blank (it could otherwise be busy when it is attached again and
  send a second one). `AInv` adds `Agrees`: a card that need not be told anything shows what
  is stored, unless it is asking; what its question was answered is what is stored; and
  if its own write is the only one whose answer is under way, that is what is stored now.
  The last part is needed for two cards that write at once: the answer that comes second
  need not belong to the write that came second, but then the card waits to refresh.
  Steps of one card are `OwnStep`, so the two invariants are shown once for all of
  them. `CardAssumption` and `NoneAssumption` keep None apart. From them: `TypeCorrect`,
  `ShowsOwn`, `OneRequestAtATime`, `NoCardStuck`, `AgreeWithServer`.

Only model-checked are the liveness properties, which are out of reach of the prover, as
are ENABLED and induction over data: `EveryCommandAnswered`, `KeepsReconciling`,
`SilenceEndsInactive`, `DisarmingEnds`, `RequestsEnd`, `SetUpAgain`, `LinkComesBack`,
`LoopEnds` and `TakenUp`.

## 5. Not modelled, and why

- Entity platforms but for availability and the alarm panel, logbook, constants,
  translations: no state of their own.
- `_process_settings`, framing and checksums: tables and bytes. A record is what it says.
- Config flow of the first setup: three forms in a row, which share no state with anything
  that runs.
- What `initialize` leaves running when it fails, and two units on one device; the texts and
  the layout of the cards; writes from another window.
- Times on the wall clock (last use, last report, the panel's clock): they are shown and
  nothing depends on them.
- Records are taken to arrive whole; who may call what (permissions) is one free
  outcome of `_resolve`.
- Times are ticks.

## 6. Plan

Done: PacketLoop, Detectors, Zones, SavedDisarm/CodeLimit, CodeStore, Unit
(Link/Watchdog), Events/RecordStream, Card; the proofs of section 4.

The project keeps to a dozen runs, one for each question; the statements that were
checked and found not to hold without a run of their own are among the known gaps.
What is left:
1. The safety halves of the other liveness properties, as lemmas that can be proved without
   fairness: a setup that finds its key files raises nothing it would not get over
   (`SetUpAgain`), a command in flight always has a step left or has been answered
   (`EveryCommandAnswered`), the ended loop has let go of its connection (`LoopEnds`).
2. The abstract properties of the hazards that have none yet (PROJECT.json names each with
   its reason), above all the second press during a disarm.
