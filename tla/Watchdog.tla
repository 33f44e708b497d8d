------------------------------ MODULE Watchdog ------------------------------
(***************************************************************************)
(* Availability (#97).  A dead link shows as silence only, so the central  *)
(* unit's _connection_watchdog looks at intervals whether data has arrived *)
(* lately and, when that has changed since its last look, has every entity *)
(* written again.  What Home Assistant shows of an entity is what its      *)
(* "available" was when it was written last.                               *)
(*                                                                         *)
(* Time passes in ticks.  Entities are also written when their objects     *)
(* change: some change only with records of the panel, others at any time  *)
(* (the staleness sweep, the alarm services, new options).                 *)
(***************************************************************************)
EXTENDS Naturals

CONSTANTS
  Entity,
  Refreshed,  \* the entities whose objects _refresh_all_entities publishes
  Quiet,      \* the entities whose objects change only with records of the panel
  Timeout,    \* CONNECTION_DATA_TIMEOUT_SECONDS, in ticks
  Interval    \* CONNECTION_WATCHDOG_INTERVAL_SECONDS, in ticks

ASSUME WatchdogAssumption ==
  /\ Refreshed \subseteq Entity
  /\ Quiet \subseteq Entity
  /\ Timeout \in Nat /\ Interval \in Nat \ {0}
  /\ Interval < Timeout

VARIABLES
  age,       \* seconds_since_last_data, in ticks (saturating)
  wait,      \* ticks until the watchdog's sleep ends
  wasAlive,  \* _connection_was_alive
  watching,  \* is the watchdog's task running?
  shown,     \* per entity: what Home Assistant shows as its availability
  flow       \* history: for how many ticks the link has been alive (saturating)

watchVars == <<age, wait, wasAlive, watching, shown, flow>>

\* bound: the two ages saturate, nothing looks at more; and time and what is shown are
\* followed only while the watchdog runs.
Silence == Timeout + Interval
Flowing == Interval + 1

WatchTypeOK ==
  /\ age \in 0 .. Silence
  /\ wait \in 0 .. Interval
  /\ wasAlive \in BOOLEAN
  /\ watching \in BOOLEAN
  /\ shown \in [Entity -> BOOLEAN]
  /\ flow \in 0 .. Flowing

\* connection_alive, and with it an entity's "available".
Alive(a) == a < Timeout

\* initialize() starts the watchdog; the entities are written when they are added.
WatchInit ==
  /\ age = 0 /\ wait = Interval
  /\ wasAlive = TRUE /\ watching = TRUE
  /\ shown = [e \in Entity |-> TRUE]
  /\ flow = 0

\* _forward_records with records: the link is alive.
DataArrives ==
  /\ age' = 0
  /\ UNCHANGED <<wait, wasAlive, watching, shown, flow>>

\* An object changes, and its entity is written.
Publish(e) ==
  /\ watching
  /\ e \in Quiet => age = 0
  /\ shown' = [shown EXCEPT ![e] = Alive(age)]
  /\ UNCHANGED <<age, wait, wasAlive, watching, flow>>

\* (mutant) the refresh only on a return
RefreshOnReturnOnly ==
  shown' = [e \in Entity |-> IF e \in Refreshed /\ Alive(age) THEN TRUE ELSE shown[e]]

\* _refresh_all_entities
RefreshAll ==
  shown' = [e \in Entity |-> IF e \in Refreshed THEN Alive(age) ELSE shown[e]]

\* (mutant) what was seen is not kept, so a return is no transition
CheckForgets(stopped) ==
  /\ watching /\ wait = 0
  /\ IF Alive(age) # wasAlive THEN RefreshAll ELSE UNCHANGED shown
  /\ wait' = Interval
  /\ watching' = ~stopped
  /\ UNCHANGED <<age, wasAlive, flow>>

\* (mutant) the sleep is as long as the time-out
CheckSleepsLong(stopped) ==
  /\ watching /\ wait = 0
  /\ wasAlive' = Alive(age)
  /\ IF Alive(age) # wasAlive THEN RefreshAll ELSE UNCHANGED shown
  /\ wait' = Timeout
  /\ watching' = ~stopped
  /\ UNCHANGED <<age, flow>>

\* The watchdog's sleep has ended: one round of its loop.
Check(stopped) ==
  /\ watching /\ wait = 0
  /\ wasAlive' = Alive(age)
  /\ IF Alive(age) # wasAlive THEN RefreshAll ELSE UNCHANGED shown
  /\ wait' = Interval
  /\ watching' = ~stopped
  /\ UNCHANGED <<age, flow>>

Tick ==
  /\ watching /\ wait > 0
  /\ age' = IF age < Silence THEN age + 1 ELSE age
  /\ flow' = IF ~Alive(age') THEN 0 ELSE IF flow < Flowing THEN flow + 1 ELSE flow
  /\ wait' = wait - 1
  /\ UNCHANGED <<wasAlive, watching, shown>>

-----------------------------------------------------------------------------
(* Properties *)

\* When nothing has arrived for the time-out and one interval more, every entity that
\* the watchdog refreshes is shown as unavailable, whatever data came and went before
\* and whichever of them were written in between (jablotron.py:1730-1745).
SilenceIsShown ==
  watching /\ age = Silence => \A e \in Refreshed : ~shown[e]

\* When the link has been alive for more than an interval, every entity whose object
\* only records change is shown as available again, also one that none of the new
\* records changed.  (An object that changes during a silence which falls between two
\* looks of the watchdog is written as unavailable and not written again.)
ReturnIsShown ==
  watching /\ flow = Flowing => \A e \in Refreshed \cap Quiet : shown[e]
=============================================================================
