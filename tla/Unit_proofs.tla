----------------------------- MODULE Unit_proofs -----------------------------
(***************************************************************************)
(* Proofs about Unit, for any entities, file objects and any interval      *)
(* shorter than the time-out.  What the watchdog's properties need is how  *)
(* far the ages can have got since its last look: it looks once in every   *)
(* interval, and remembers what it saw.  For the connection, two tasks may *)
(* disconnect at once, and whoever closes a file also gives it up (the     *)
(* last section).                                                          *)
(***************************************************************************)
EXTENDS Unit, TLAPS

\* The link fell silent after the last look, so the next one is due in time.
SilenceIsNoticed == wasAlive /\ ~Alive(age) => age + wait < Silence

\* The link came back after the last look; it cannot be silent again before the next.
ReturnIsNoticed == ~wasAlive => flow + wait <= Interval
ReturnIsYoung == ~wasAlive /\ Alive(age) => age + wait <= Interval

FlowOnlyAlive == ~Alive(age) => flow = 0

\* What the last look saw is what is shown.
SilentShown == ~wasAlive /\ ~Alive(age) => \A e \in Refreshed : ~shown[e]
AliveShown == wasAlive => \A e \in Refreshed \cap Quiet : shown[e]

WatchInv ==
  watching => /\ SilenceIsNoticed /\ ReturnIsNoticed /\ ReturnIsYoung /\ FlowOnlyAlive
              /\ SilentShown /\ AliveShown

IInv == WatchTypeOK /\ WatchInv

\* What a step of the unit may do to the watchdog's state.
WatchStep ==
  \/ DataArrives
  \/ \E e \in Entity : Publish(e)
  \/ \E stopped \in BOOLEAN : Check(stopped)
  \/ Tick
  \/ UNCHANGED watchVars

LEMMA StepsWatch ==
  ASSUME [Next]_vars, stop \in BOOLEAN
  PROVE  WatchStep
<1>1. CASE Loop
  BY <1>1 DEF Loop, ForwardRecords, ForwardNothing, ForwardOldRecords, WatchStep
<1>2. CASE ShuttingDown
  BY <1>2 DEF ShuttingDown, WatchStep
<1>3. CASE Others /\ UNCHANGED watchVars
  BY <1>3 DEF WatchStep
<1>4. CASE Watching
  BY <1>4 DEF Watching, WatchStep
<1>5. CASE TimePasses
  BY <1>5 DEF TimePasses, WatchStep
<1>6. CASE ObjectChanges
  BY <1>6 DEF ObjectChanges, WatchStep
<1>7. CASE UNCHANGED vars
  BY <1>7 DEF vars, WatchStep
<1> QED
  BY <1>1, <1>2, <1>3, <1>4, <1>5, <1>6, <1>7 DEF Next

-----------------------------------------------------------------------------
(* The watchdog *)

LEMMA DataArrivesKeeps ==
  ASSUME IInv, DataArrives
  PROVE  IInv'
BY WatchdogAssumption DEF IInv, DataArrives, WatchTypeOK, WatchInv, SilenceIsNoticed,
   ReturnIsNoticed, ReturnIsYoung, FlowOnlyAlive, SilentShown, AliveShown, Alive, Silence, Flowing

LEMMA PublishKeeps ==
  ASSUME IInv, NEW e \in Entity, Publish(e)
  PROVE  IInv'
BY WatchdogAssumption DEF IInv, Publish, WatchTypeOK, WatchInv, SilenceIsNoticed,
   ReturnIsNoticed, ReturnIsYoung, FlowOnlyAlive, SilentShown, AliveShown, Alive, Silence, Flowing

LEMMA CheckKeeps ==
  ASSUME IInv, NEW stopped \in BOOLEAN, Check(stopped)
  PROVE  IInv'
<1>1. /\ age \in Nat /\ flow \in Nat /\ wait = 0 /\ watching
      /\ UNCHANGED <<age, flow>> /\ wasAlive' = Alive(age) /\ wait' = Interval
  BY WatchdogAssumption DEF IInv, WatchTypeOK, Check, Silence, Flowing
<1>2. shown' \in [Entity -> BOOLEAN]
  <2>1. shown \in [Entity -> BOOLEAN] /\ Alive(age) \in BOOLEAN
    BY DEF IInv, WatchTypeOK, Alive
  <2>2. CASE RefreshAll
    BY <2>1, <2>2 DEF RefreshAll
  <2>3. CASE UNCHANGED shown
    BY <2>1, <2>3
  <2> QED
    BY <2>2, <2>3 DEF Check
<1>3. WatchTypeOK'
  BY <1>1, <1>2, WatchdogAssumption DEF IInv, WatchTypeOK, Check, Alive, Silence, Flowing
<1>4. (SilenceIsNoticed /\ ReturnIsNoticed /\ ReturnIsYoung /\ FlowOnlyAlive)'
  <2>1. CASE age < Timeout
    <3>1. wasAlive'
      BY <1>1, <2>1 DEF Alive
    <3> QED
      BY <1>1, <2>1, <3>1 DEF FlowOnlyAlive, SilenceIsNoticed, ReturnIsNoticed, ReturnIsYoung, Alive
  <2>2. CASE ~(age < Timeout)
    <3>1. ~wasAlive'
      BY <1>1, <2>2 DEF Alive
    <3>2. flow = 0
      BY <1>1, <2>2 DEF IInv, WatchInv, FlowOnlyAlive, Alive
    <3> QED
      BY <1>1, <2>2, <3>1, <3>2, WatchdogAssumption
      DEF FlowOnlyAlive, SilenceIsNoticed, ReturnIsNoticed, ReturnIsYoung, Alive
  <2> QED
    BY <2>1, <2>2
<1>5. CASE Alive(age) # wasAlive
  <2>1. shown' = [e \in Entity |-> IF e \in Refreshed THEN Alive(age) ELSE shown[e]]
    BY <1>5 DEF Check, RefreshAll
  <2>2. \A e \in Refreshed : shown'[e] = Alive(age)
    BY <2>1, WatchdogAssumption
  <2> QED
    BY <1>1, <1>3, <1>4, <2>2 DEF IInv, WatchInv, SilentShown, AliveShown, Alive
<1>6. CASE Alive(age) = wasAlive
  <2>1. shown' = shown /\ wasAlive' = wasAlive
    BY <1>1, <1>6 DEF Check
  <2> QED
    BY <1>1, <1>3, <1>4, <2>1 DEF IInv, WatchInv, SilentShown, AliveShown, Alive
<1> QED
  BY <1>5, <1>6

LEMMA TickKeeps ==
  ASSUME IInv, Tick
  PROVE  IInv'
BY WatchdogAssumption DEF IInv, Tick, WatchTypeOK, WatchInv, SilenceIsNoticed,
   ReturnIsNoticed, ReturnIsYoung, FlowOnlyAlive, SilentShown, AliveShown, Alive, Silence, Flowing

-----------------------------------------------------------------------------
(* The connection *)

LoopTypeOK ==
  /\ pc \in {"sleep", "flush", "close", "open", "hello", "discard", "backoff",
             "read", "write", "ended"}
  /\ hold \in Handle \cup {None}
  /\ within \in {"none", "top", "read", "silence", "again", "exit"}
  /\ sending \in BOOLEAN

LEMMA SuspendTypes ==
  ASSUME NEW at \in {"sleep", "flush", "close", "open", "hello", "discard", "backoff",
                     "read", "write", "ended"},
         NEW on \in Handle \cup {None},
         NEW part \in {"none", "top", "read", "silence", "again", "exit"},
         NEW command \in BOOLEAN,
         Suspend(at, on, part, command)
  PROVE  LoopTypeOK'
BY DEF Suspend, LoopTypeOK

LEMMA AtTopTypes ==
  ASSUME conn' \in Handle \cup {None}, AtTop
  PROVE  LoopTypeOK'
BY SuspendTypes DEF AtTop, StartDisconnect, End

LEMMA CommandNextTypes ==
  ASSUME conn' \in Handle \cup {None}, NEW at \in {"read", "write"}, CommandNext(at)
  PROVE  LoopTypeOK'
BY SuspendTypes, AtTopTypes DEF CommandNext

LEMMA AfterReadTypes ==
  ASSUME LinkTypeOK, conn' \in Handle \cup {None}, AfterRead
  PROVE  LoopTypeOK' /\ queued' \in BOOLEAN
BY AtTopTypes, CommandNextTypes DEF AfterRead, LinkTypeOK

LEMMA AfterConnectTypes ==
  ASSUME LinkTypeOK, conn' \in Handle \cup {None}, AfterConnect
  PROVE  LoopTypeOK' /\ queued' \in BOOLEAN
BY SuspendTypes, AtTopTypes, AfterReadTypes DEF AfterConnect, LinkTypeOK

\* A file object is free, as a task holds at most one.
LEMMA FreeHandleIsOne ==
  ASSUME held \in Handle \cup {None}
  PROVE  FreeHandle \in Handle
BY LinkAssumption DEF FreeHandle

LEMMA LoopActionTypes ==
  ASSUME LinkTypeOK, LoopUnchanged,
         conn' \in Handle \cup {None}, file' \in [Handle -> {"open", "dead", "closed"}],
         LoopTypeOK', queued' \in BOOLEAN
  PROVE  LinkTypeOK'
BY DEF LinkTypeOK, LoopTypeOK, LoopUnchanged, shutdownState

LEMMA ReadRecordsTypes ==
  ASSUME LinkTypeOK, ReadRecords
  PROVE  LinkTypeOK'
<1>1. conn' \in Handle \cup {None} /\ file' \in [Handle -> {"open", "dead", "closed"}]
  BY DEF ReadRecords, LinkTypeOK
<1> QED
  BY <1>1, AfterReadTypes, LoopActionTypes DEF ReadRecords

LEMMA LoopStepsType ==
  ASSUME LinkTypeOK, LoopSteps
  PROVE  LinkTypeOK'
<1> USE DEF LinkTypeOK
<1>0. LoopUnchanged
  BY DEF LoopSteps, ReadFails, ReadTimesOut, Discarded, Written, Slept, Flushed,
     LoopCloseRuns, Closed, Opened, OpenFails, Greeted, BackedOff
<1>1. CASE ReadFails
  BY <1>0, <1>1, SuspendTypes, LoopActionTypes DEF ReadFails
<1>2. CASE ReadTimesOut
  BY <1>0, <1>2, SuspendTypes, LoopActionTypes DEF ReadTimesOut
<1>3. CASE Discarded
  <2>1. UNCHANGED <<conn, file, queued>>
    BY <1>3 DEF Discarded
  <2>2. LoopTypeOK'
    BY <1>3, <2>1, SuspendTypes, AtTopTypes DEF Discarded
  <2> QED
    BY <1>0, <2>1, <2>2, LoopActionTypes
<1>4. CASE Written
  <2>1. UNCHANGED <<conn, file, queued>>
    BY <1>4 DEF Written
  <2>2. LoopTypeOK'
    BY <1>4, <2>1, AtTopTypes, CommandNextTypes DEF Written
  <2> QED
    BY <1>0, <2>1, <2>2, LoopActionTypes
<1>5. CASE Slept
  <2>1. UNCHANGED <<conn, file, queued>>
    BY <1>5 DEF Slept
  <2>2. LoopTypeOK'
    BY <1>5, <2>1, SuspendTypes DEF Slept, StartDisconnect
  <2> QED
    BY <1>0, <2>1, <2>2, LoopActionTypes
<1>6. CASE Flushed
  <2>1. UNCHANGED <<conn, file, queued>>
    BY <1>6 DEF Flushed
  <2>2. LoopTypeOK'
    BY <1>6, <2>1, SuspendTypes, AtTopTypes DEF Flushed, Raise, End
  <2> QED
    BY <1>0, <2>1, <2>2, LoopActionTypes
<1>7. CASE LoopCloseRuns
  <2>1. UNCHANGED <<conn, loopState, queued>>
    BY <1>7 DEF LoopCloseRuns
  <2>2. LoopTypeOK'
    BY <2>1 DEF LoopTypeOK, loopState
  <2>3. file' \in [Handle -> {"open", "dead", "closed"}]
    BY <1>7 DEF LoopCloseRuns, CloseRuns
  <2> QED
    BY <1>0, <2>1, <2>2, <2>3, LoopActionTypes
<1>8. CASE Closed
  <2>1. UNCHANGED <<file, queued>> /\ conn' = None
    BY <1>8 DEF Closed
  <2>2. LoopTypeOK'
    BY <1>8, SuspendTypes DEF Closed, End
  <2> QED
    BY <1>0, <2>1, <2>2, LoopActionTypes
<1>9. CASE Opened
  <2>1. FreeHandle \in Handle
    BY FreeHandleIsOne
  <2>2. conn' \in Handle \cup {None} /\ file' \in [Handle -> {"open", "dead", "closed"}]
    BY <1>9, <2>1 DEF Opened
  <2>3. LoopTypeOK' /\ queued' \in BOOLEAN
    BY <1>9, <2>1, <2>2, SuspendTypes, AfterConnectTypes DEF Opened
  <2> QED
    BY <1>0, <2>2, <2>3, LoopActionTypes
<1>10. CASE OpenFails
  <2>1. UNCHANGED <<conn, file>>
    BY <1>10 DEF OpenFails
  <2>2. LoopTypeOK' /\ queued' \in BOOLEAN
    BY <1>10, <2>1, AfterConnectTypes DEF OpenFails
  <2> QED
    BY <1>0, <2>1, <2>2, LoopActionTypes
<1>11. CASE Greeted
  <2>1. UNCHANGED file /\ conn' \in Handle \cup {None}
    BY <1>11 DEF Greeted
  <2>2. LoopTypeOK' /\ queued' \in BOOLEAN
    BY <1>11, <2>1, AtTopTypes, AfterConnectTypes DEF Greeted
  <2> QED
    BY <1>0, <2>1, <2>2, LoopActionTypes
<1>12. CASE BackedOff
  <2>1. UNCHANGED <<conn, file, queued>>
    BY <1>12 DEF BackedOff
  <2>2. LoopTypeOK'
    BY <1>12, <2>1, AtTopTypes DEF BackedOff
  <2> QED
    BY <1>0, <2>1, <2>2, LoopActionTypes
<1> QED
  BY <1>1, <1>2, <1>3, <1>4, <1>5, <1>6, <1>7, <1>8, <1>9, <1>10, <1>11, <1>12 DEF LoopSteps

LEMMA OtherStepsType ==
  ASSUME LinkTypeOK, ShutdownSteps \/ Others
  PROVE  LinkTypeOK'
<1> USE DEF LinkTypeOK
<1>1. CASE ShutdownFlushed
  BY <1>1 DEF ShutdownFlushed, ShutdownUnchanged, loopState
<1>2. CASE ShutdownCloseRuns
  <2>1. file' \in [Handle -> {"open", "dead", "closed"}]
    BY <1>2 DEF ShutdownCloseRuns, CloseRuns
  <2> QED
    BY <1>2, <2>1 DEF ShutdownCloseRuns, ShutdownUnchanged, loopState, shutdownState
<1>3. CASE ShutdownClosed
  BY <1>3 DEF ShutdownClosed, ShutdownUnchanged, loopState
<1>4. CASE DeviceChanges
  BY <1>4 DEF DeviceChanges, loopState, shutdownState
<1>5. CASE AddCommand
  BY <1>5 DEF AddCommand, loopState, shutdownState
<1>6. CASE Shutdown
  BY <1>6 DEF Shutdown, ShutdownUnchanged, loopState
<1> QED
  BY <1>1, <1>2, <1>3, <1>4, <1>5, <1>6 DEF ShutdownSteps, Others

-----------------------------------------------------------------------------
(* The unit *)

LEMMA LinkTypeKept ==
  ASSUME LinkTypeOK, [Next]_vars
  PROVE  LinkTypeOK'
<1>1. CASE UNCHANGED linkVars
  BY <1>1 DEF LinkTypeOK, linkVars, loopState, shutdownState
<1>2. CASE ReadRecords
  BY <1>2, ReadRecordsTypes
<1>3. CASE LoopSteps
  BY <1>3, LoopStepsType
<1>4. CASE ShutdownSteps \/ Others
  BY <1>4, OtherStepsType
<1>5. ForwardsAgain => LoopSteps
  BY DEF ForwardsAgain, LoopSteps
<1> QED
  BY <1>1, <1>2, <1>3, <1>4, <1>5
  DEF Next, Loop, ForwardRecords, ForwardNothing, ForwardOldRecords, ShuttingDown, Watching,
      TimePasses, ObjectChanges, vars

LEMMA Initially ==
  ASSUME Init
  PROVE  LinkTypeOK /\ IInv
<1>1. LinkTypeOK
  <2>1. file \in [Handle -> {"open", "dead", "closed"}]
    BY DEF Init, LinkInit
  <2> QED
    BY <2>1 DEF Init, LinkInit, LinkTypeOK
<1>2. WatchTypeOK
  BY WatchdogAssumption DEF Init, WatchInit, WatchTypeOK, Silence, Flowing
<1>3. WatchInv
  BY WatchdogAssumption DEF Init, WatchInit, WatchInv, SilenceIsNoticed, ReturnIsNoticed,
     ReturnIsYoung, FlowOnlyAlive, SilentShown, AliveShown, Alive, Silence
<1> QED
  BY <1>1, <1>2, <1>3 DEF IInv

LEMMA Stutter ==
  ASSUME IInv, UNCHANGED watchVars
  PROVE  IInv'
BY DEF watchVars, IInv, WatchTypeOK, WatchInv, SilenceIsNoticed, ReturnIsNoticed,
   ReturnIsYoung, FlowOnlyAlive, SilentShown, AliveShown, Alive

\* What the watchdog's properties rest on holds in every state, whatever the connection
\* does.
THEOREM Invariance == Spec => [](LinkTypeOK /\ IInv)
<1>1. Init => LinkTypeOK /\ IInv
  BY Initially
<1>2. LinkTypeOK /\ IInv /\ [Next]_vars => (LinkTypeOK /\ IInv)'
  <2> SUFFICES ASSUME LinkTypeOK, IInv, [Next]_vars
               PROVE  LinkTypeOK' /\ IInv'
    OBVIOUS
  <2>1. LinkTypeOK'
    BY LinkTypeKept
  <2>2. WatchStep
    <3>1. stop \in BOOLEAN
      BY DEF LinkTypeOK
    <3> QED
      BY <3>1, StepsWatch
  <2>3. IInv'
    BY <2>2, DataArrivesKeeps, PublishKeeps, CheckKeeps, TickKeeps, Stutter DEF WatchStep
  <2> QED
    BY <2>1, <2>3
<1> QED
  BY <1>1, <1>2, PTL DEF Spec

\* The unit is well typed: the ages never exceed their bounds, the watchdog's sleep is
\* never longer than its interval, and every call is one the code makes.
THEOREM TypeCorrect == Spec => []TypeOK
<1>1. LinkTypeOK /\ IInv => TypeOK
  BY DEF TypeOK, IInv
<1> QED
  BY <1>1, Invariance, PTL

\* A silence of the time-out and one interval is shown on every entity that is refreshed,
\* for any time-out and any shorter interval, whatever the connection and the objects do
\* meanwhile (jablotron.py:1730-1745).
THEOREM SilenceShown == Spec => []SilenceIsShown
<1>1. LinkTypeOK /\ IInv => SilenceIsShown
  <2> SUFFICES ASSUME IInv, watching, age = Silence
               PROVE  \A e \in Refreshed : ~shown[e]
    BY DEF SilenceIsShown
  <2>1. ~(age < Timeout) /\ ~(age + wait < Silence)
    BY WatchdogAssumption DEF IInv, WatchTypeOK, Silence
  <2> QED
    BY <2>1 DEF IInv, WatchInv, SilenceIsNoticed, SilentShown, Alive
<1> QED
  BY <1>1, Invariance, PTL

\* A link that has been alive for more than an interval is shown on every entity that only
\* records change (jablotron.py:1730-1745).
THEOREM ReturnShown == Spec => []ReturnIsShown
<1>1. LinkTypeOK /\ IInv => ReturnIsShown
  <2> SUFFICES ASSUME IInv, watching, flow = Flowing
               PROVE  \A e \in Refreshed \cap Quiet : shown[e]
    BY DEF ReturnIsShown
  <2>1. ~(flow + wait <= Interval)
    BY WatchdogAssumption DEF IInv, WatchTypeOK, Flowing
  <2> QED
    BY <2>1 DEF IInv, WatchInv, ReturnIsNoticed, AliveShown
<1> QED
  BY <1>1, Invariance, PTL

-----------------------------------------------------------------------------
(* Who closes a file *)

\* What a disconnect of the loop suspends for is the connection, unless the shutdown has
\* taken that away meanwhile.
FlushesOwn == pc \in {"flush", "close"} => hold \in Handle /\ conn \in {hold, None}
HeldOwn == closing \in {"flush", "close"} => held \in Handle

\* A connection whose file is closed is about to be given up by whoever closed it.
ClosedByOne ==
  conn # None /\ file[conn] = "closed" => \/ closing = "close" /\ held = conn
                                          \/ pc = "close" /\ hold = conn

\* What the ended loop leaves behind is a lost serial port, or is closed by the shutdown.
LeftAtEnd ==
  pc = "ended" /\ conn # None => \/ cable = "serial" /\ file[conn] = "dead"
                                 \/ closing = "close" /\ held = conn

CloseInv == FlushesOwn /\ HeldOwn /\ ClosedByOne /\ LeftAtEnd

\* The loop goes on: a disconnect starts with the connection there is, and the loop only
\* ends when there is none.
GoesOn ==
  /\ pc' # "close"
  /\ pc' = "flush" => hold' = conn' /\ conn' # None
  /\ pc' = "ended" => conn' = None

LEMMA AtTopGoesOn == AtTop => GoesOn
BY DEF AtTop, StartDisconnect, Suspend, End, GoesOn

LEMMA CommandGoesOn ==
  ASSUME NEW at \in {"read", "write"}, CommandNext(at)
  PROVE  GoesOn
BY AtTopGoesOn DEF CommandNext, Suspend, GoesOn

LEMMA ReadGoesOn == AfterRead => GoesOn
BY AtTopGoesOn, CommandGoesOn DEF AfterRead

LEMMA ConnectGoesOn == AfterConnect => GoesOn
<1> SUFFICES ASSUME AfterConnect PROVE GoesOn
  OBVIOUS
<1>1. \/ AfterRead \/ AtTop \/ Suspend("backoff", None, "none", FALSE)
      \/ Suspend("discard", conn', "none", sending)
  BY DEF AfterConnect
<1>2. \A at, on, part, command :
        Suspend(at, on, part, command) /\ at \in {"backoff", "discard"} => GoesOn
  BY DEF Suspend, GoesOn
<1> QED
  BY <1>1, <1>2, AtTopGoesOn, ReadGoesOn

\* The connection is the one before, outside a disconnect; or there is none; or a new one.
Connected ==
  \/ pc # "close" /\ UNCHANGED <<conn, file>>
  \/ conn' = None
  \/ conn' \in Handle /\ file'[conn'] = "open"

LEMMA GoingOnKeeps ==
  ASSUME LinkTypeOK, CloseInv, GoesOn, Connected, UNCHANGED <<cable, shutdownState>>
  PROVE  CloseInv'
<1>0. UNCHANGED <<closing, held>>
  BY DEF shutdownState
<1>1. conn' \in Handle \cup {None}
  BY DEF Connected, LinkTypeOK
<1>2. FlushesOwn'
  BY <1>1 DEF GoesOn, FlushesOwn
<1>3. ClosedByOne'
  <2>1. CASE pc # "close" /\ UNCHANGED <<conn, file>>
    BY <1>0, <2>1 DEF CloseInv, ClosedByOne
  <2>2. CASE conn' = None
    BY <2>2 DEF ClosedByOne
  <2>3. CASE file'[conn'] = "open"
    BY <2>3 DEF ClosedByOne
  <2> QED
    BY <2>1, <2>2, <2>3 DEF Connected
<1>4. LeftAtEnd' /\ HeldOwn'
  BY <1>0 DEF GoesOn, LeftAtEnd, CloseInv, HeldOwn
<1> QED
  BY <1>2, <1>3, <1>4 DEF CloseInv

LEMMA LoopGoesOn ==
  ASSUME LinkTypeOK,
         \/ ReadRecords \/ ReadFails \/ ReadTimesOut \/ Discarded \/ Written
         \/ Slept \/ Opened \/ OpenFails \/ Greeted \/ BackedOff
  PROVE  GoesOn /\ Connected
<1>0. \A at, on, part, command :
        Suspend(at, on, part, command) /\ at \notin {"flush", "close", "ended"} => GoesOn
  BY DEF Suspend, GoesOn
<1>1. CASE ReadRecords
  BY <1>1, ReadGoesOn DEF ReadRecords, Connected
<1>2. CASE ReadFails \/ ReadTimesOut
  BY <1>0, <1>2 DEF ReadFails, ReadTimesOut, Connected
<1>3. CASE Discarded
  <2>1. GoesOn
    <3>1. \/ AtTop \/ Suspend("sleep", None, "again", FALSE)
          \/ Suspend("sleep", None, "read", sending) \/ Suspend("read", conn, "none", sending)
      BY <1>3 DEF Discarded
    <3> QED
      BY <1>0, <3>1, AtTopGoesOn
  <2> QED
    BY <1>3, <2>1 DEF Discarded, Connected
<1>4. CASE Written
  BY <1>4, AtTopGoesOn, CommandGoesOn DEF Written, Connected
<1>5. CASE Slept
  <2>1. UNCHANGED <<conn, file>> /\ pc = "sleep"
    BY <1>5 DEF Slept
  <2>2. GoesOn
    BY <1>5, <2>1 DEF Slept, StartDisconnect, Suspend, GoesOn
  <2> QED
    BY <2>1, <2>2 DEF Connected
<1>6. CASE Opened
  <2>1. FreeHandle \in Handle
    BY FreeHandleIsOne DEF LinkTypeOK
  <2>2. conn' \in Handle /\ file'[conn'] = "open"
    BY <1>6, <2>1 DEF Opened, LinkTypeOK
  <2>3. GoesOn
    BY <1>0, <1>6, ConnectGoesOn DEF Opened
  <2> QED
    BY <2>2, <2>3 DEF Connected
<1>7. CASE OpenFails
  BY <1>7, ConnectGoesOn DEF OpenFails, Connected
<1>8. CASE Greeted
  BY <1>8, ConnectGoesOn, AtTopGoesOn DEF Greeted, Connected
<1>9. CASE BackedOff
  BY <1>9, AtTopGoesOn DEF BackedOff, Connected
<1> QED
  BY <1>1, <1>2, <1>3, <1>4, <1>5, <1>6, <1>7, <1>8, <1>9

LEMMA DisconnectKeeps ==
  ASSUME LinkTypeOK, CloseInv, Flushed \/ LoopCloseRuns \/ Closed
  PROVE  CloseInv'
<1>0. UNCHANGED <<cable, closing, held>>
  BY DEF Flushed, LoopCloseRuns, Closed, LoopUnchanged, shutdownState
<1>1. CASE Flushed
  <2>1. UNCHANGED <<conn, file>> /\ pc = "flush" /\ UNCHANGED <<cable, shutdownState>>
    BY <1>1 DEF Flushed, LoopUnchanged
  <2>2. CASE FlushReturns(hold) /\ conn # None /\ Suspend("close", conn, within, sending)
    <3>1. pc' = "close" /\ hold' = conn /\ conn \in Handle
      BY <2>2 DEF Suspend, LinkTypeOK
    <3> QED
      BY <1>0, <2>1, <3>1 DEF CloseInv, FlushesOwn, HeldOwn, ClosedByOne, LeftAtEnd
  <2>3. CASE (FlushRaises(hold) \/ conn = None) /\ Raise(within) /\ within = "exit"
    <3>1. pc' = "ended"
      BY <2>3 DEF Raise, End, Suspend
    <3>2. conn # None => hold = conn /\ FlushRaises(conn)
      BY <2>1, <2>3 DEF CloseInv, FlushesOwn
    <3>3. conn # None => \/ cable = "serial" /\ file[conn] = "dead"
                         \/ closing = "close" /\ held = conn
      BY <2>1, <3>2 DEF FlushRaises, CloseInv, ClosedByOne
    <3>4. FlushesOwn' /\ HeldOwn'
      BY <1>0, <3>1 DEF CloseInv, FlushesOwn, HeldOwn
    <3>5. ClosedByOne'
      BY <1>0, <2>1, <3>1 DEF CloseInv, ClosedByOne
    <3>6. LeftAtEnd'
      BY <1>0, <2>1, <3>3 DEF LeftAtEnd
    <3> QED
      BY <3>4, <3>5, <3>6 DEF CloseInv
  <2>4. CASE Raise(within) /\ within # "exit"
    <3>1. GoesOn
      BY <2>4, AtTopGoesOn DEF Raise
    <3> QED
      BY <2>1, <3>1, GoingOnKeeps DEF Connected
  <2>5. CASE Suspend("sleep", None, "again", FALSE)
    <3>1. GoesOn
      BY <2>5 DEF Suspend, GoesOn
    <3> QED
      BY <2>1, <3>1, GoingOnKeeps DEF Connected
  <2> QED
    BY <1>1, <2>2, <2>3, <2>4, <2>5 DEF Flushed
<1>2. CASE LoopCloseRuns
  <2>1. /\ pc = "close" /\ pc' = "close" /\ UNCHANGED <<conn, hold>>
        /\ file' = [file EXCEPT ![hold] = "closed"]
    BY <1>2 DEF LoopCloseRuns, CloseRuns, loopState
  <2> QED
    BY <1>0, <2>1 DEF CloseInv, FlushesOwn, HeldOwn, ClosedByOne, LeftAtEnd
<1>3. CASE Closed
  <2>1. conn' = None /\ pc' \in {"ended", "open"}
    BY <1>3 DEF Closed, Suspend, End
  <2> QED
    BY <1>0, <2>1 DEF CloseInv, FlushesOwn, HeldOwn, ClosedByOne, LeftAtEnd
<1> QED
  BY <1>1, <1>2, <1>3

LEMMA OthersKeep ==
  ASSUME LinkTypeOK, CloseInv, ShutdownSteps \/ Others
  PROVE  CloseInv'
<1> USE DEF CloseInv, FlushesOwn, HeldOwn, ClosedByOne, LeftAtEnd
<1>1. CASE ShutdownFlushed
  BY <1>1 DEF ShutdownFlushed, ShutdownUnchanged, loopState, LinkTypeOK
<1>2. CASE ShutdownCloseRuns
  <2>1. /\ closing = "close" /\ UNCHANGED <<cable, conn, pc, hold, closing, held>>
        /\ file' = [file EXCEPT ![held] = "closed"]
    BY <1>2 DEF ShutdownCloseRuns, ShutdownUnchanged, CloseRuns, loopState, shutdownState
  <2>2. conn # None /\ conn # held => file'[conn] = file[conn]
    BY <2>1 DEF LinkTypeOK
  <2>3. ClosedByOne'
    BY <2>1, <2>2
  <2>4. LeftAtEnd'
    BY <2>1, <2>2
  <2> QED
    BY <2>1, <2>3, <2>4
<1>3. CASE ShutdownClosed
  BY <1>3 DEF ShutdownClosed, ShutdownUnchanged, loopState
<1>4. CASE DeviceChanges
  <2>1. UNCHANGED <<cable, conn, pc, hold, closing, held>>
    BY <1>4 DEF DeviceChanges, loopState, shutdownState
  <2>2. ASSUME conn # None
        PROVE  /\ file'[conn] = "closed" => file[conn] = "closed"
               /\ file[conn] = "dead" => file'[conn] = "dead"
    BY <1>4, <2>2 DEF DeviceChanges, LinkTypeOK
  <2> QED
    BY <2>1, <2>2
<1>5. CASE AddCommand
  BY <1>5 DEF AddCommand, loopState, shutdownState
<1>6. CASE Shutdown
  BY <1>6 DEF Shutdown, ShutdownUnchanged, loopState, LinkTypeOK
<1> QED
  BY <1>1, <1>2, <1>3, <1>4, <1>5, <1>6 DEF ShutdownSteps, Others

LEMMA CloseKept ==
  ASSUME LinkTypeOK, CloseInv, [Next]_vars
  PROVE  CloseInv'
<1>1. CASE UNCHANGED linkVars
  BY <1>1 DEF linkVars, loopState, shutdownState, CloseInv, FlushesOwn, HeldOwn, ClosedByOne,
              LeftAtEnd
<1>2. CASE ReadRecords \/ LoopSteps
  <2>1. CASE Flushed \/ LoopCloseRuns \/ Closed
    BY <2>1, DisconnectKeeps
  <2>2. CASE \/ ReadRecords \/ ReadFails \/ ReadTimesOut \/ Discarded \/ Written
             \/ Slept \/ Opened \/ OpenFails \/ Greeted \/ BackedOff
    <3>1. UNCHANGED <<cable, shutdownState>>
      BY <2>2 DEF ReadRecords, ReadFails, ReadTimesOut, Discarded, Written, Slept, Opened,
                  OpenFails, Greeted, BackedOff, LoopUnchanged
    <3> QED
      BY <2>2, <3>1, LoopGoesOn, GoingOnKeeps
  <2> QED
    BY <1>2, <2>1, <2>2 DEF LoopSteps
<1>3. CASE ShutdownSteps \/ Others
  BY <1>3, OthersKeep
<1>4. ForwardsAgain => LoopSteps
  BY DEF ForwardsAgain, LoopSteps
<1> QED
  BY <1>1, <1>2, <1>3, <1>4
  DEF Next, Loop, ForwardRecords, ForwardNothing, ForwardOldRecords, ShuttingDown, Watching,
      TimePasses, ObjectChanges, vars

\* However the shutdown and the loop's own reconnects fall together, and whatever is lost
\* meanwhile, when both have ended the device is closed (or is a serial port that was
\* lost): what is still open when one of them gives up is closed by the other
\* (jablotron.py:729-742, 800-818, 3105-3108).
THEOREM ClosedInTheEnd == Spec => []ClosedAtEnd
<1>1. Init => LinkTypeOK /\ CloseInv
  BY Initially DEF Init, LinkInit, CloseInv, FlushesOwn, HeldOwn, ClosedByOne, LeftAtEnd
<1>2. LinkTypeOK /\ CloseInv /\ [Next]_vars => (LinkTypeOK /\ CloseInv)'
  BY LinkTypeKept, CloseKept
<1>3. LinkTypeOK /\ CloseInv => ClosedAtEnd
  BY DEF CloseInv, LeftAtEnd, ClosedAtEnd
<1> QED
  BY <1>1, <1>2, <1>3, PTL DEF Spec
=============================================================================
