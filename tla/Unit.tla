-------------------------------- MODULE Unit --------------------------------
(***************************************************************************)
(* A running unit: the connection's tasks (Link) and the watchdog that     *)
(* shows what becomes of it (Watchdog).  They meet in _forward_records,    *)
(* which takes the time of the last data, and in the shutdown, which ends  *)
(* the watchdog's loop as well.                                            *)
(***************************************************************************)
EXTENDS Link, Watchdog

vars == <<linkVars, watchVars>>

TypeOK == LinkTypeOK /\ WatchTypeOK

Init == LinkInit /\ WatchInit

\* _forward_records of a read with records.
ForwardRecords == ReadRecords /\ DataArrives

\* A read may bring no complete record: an empty batch is no sign of life.
ForwardNothing == ReadRecords /\ UNCHANGED watchVars

\* Old records are a sign of life, too.
ForwardOldRecords == ForwardsAgain /\ DataArrives

Loop ==
  \/ ForwardRecords \/ ForwardNothing \/ ForwardOldRecords
  \/ LoopSteps /\ UNCHANGED watchVars
ShuttingDown == ShutdownSteps /\ UNCHANGED watchVars
Watching == Check(stop) /\ UNCHANGED linkVars
TimePasses == Tick /\ UNCHANGED linkVars
ObjectChanges == \E e \in Entity : Publish(e) /\ UNCHANGED linkVars

Next ==
  \/ Loop
  \/ ShuttingDown
  \/ Others /\ UNCHANGED watchVars
  \/ Watching \/ TimePasses \/ ObjectChanges

Spec == Init /\ [][Next]_vars

(***************************************************************************)
(* asyncio runs every task whose call has returned, and calls return: only *)
(* a read may block for good, while the panel is silent.  A talking panel  *)
(* sends whole records some time.  A command ends: its keypresses, retries *)
(* and reads are bounded (PacketLoop).                                     *)
(***************************************************************************)
FairSpec ==
  /\ Spec
  /\ WF_vars(Loop) /\ SF_vars(ForwardRecords)
  /\ SF_vars(Loop /\ sending /\ ~sending')
  /\ WF_vars(ShuttingDown)
  /\ WF_vars(Watching) /\ WF_vars(TimePasses)

-----------------------------------------------------------------------------
(* Properties (SilenceIsShown and ReturnIsShown are Watchdog's) *)

\* When the loop has ended and no shutdown is under way, the device is closed, although
\* a read that fails because of the shutdown opens it once more.  (The file of a lost
\* serial port may be left: its flush raises before it is closed.)
ClosedAtEnd ==
  pc = "ended" /\ closing \in {"done", "raised"} =>
    conn = None \/ (cable = "serial" /\ file[conn] = "dead")

\* A panel that is back for good is heard again, and again: whatever failed before, the
\* loop goes on and finds the device, unless the unit is shut down.  (A serial port that
\* is lost while it is open is excepted: it cannot be flushed any more, so the loop never
\* gets to opening it again.)
LinkComesBack ==
  (<>[](device = "talking") /\ []~stop /\ [](cable = "serial" => device # "gone"))
    => []<>(age = 0)

\* A shutdown ends the loop, wherever the loop is suspended then, if the panel is heard
\* in the end (a HID read blocks while it is silent, a serial read reconnects, and
\* neither looks at _stop) and the callers stop queueing commands.
LoopEnds ==
  (<>[](device = "talking") /\ <>[]~queued) => (stop ~> pc = "ended")
=============================================================================
