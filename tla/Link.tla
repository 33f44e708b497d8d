-------------------------------- MODULE Link --------------------------------
(***************************************************************************)
(* The connection itself: how JablotronConnection opens, reads, loses,     *)
(* reopens and closes the device, for both cables.  Two tasks do so at the *)
(* same time: the packet loop, and whoever shuts the unit down.  Every     *)
(* flush, close, open, write and read suspends its task (to_thread), and   *)
(* the other one may have replaced _connection meanwhile.                  *)
(*                                                                         *)
(* A command is abstracted to a write and more reads and writes: how many  *)
(* there are is PacketLoop's subject.  What the records of a read say of   *)
(* the link is Watchdog's; Unit composes the two.                          *)
(***************************************************************************)
CONSTANTS
  Cables,    \* the cables to consider: "HID", "serial"
  Handle,    \* file objects, used again when nothing refers to them
  None

ASSUME LinkAssumption ==
  /\ Cables \subseteq {"HID", "serial"}
  /\ None \notin Handle
  /\ \A h \in Handle \cup {None} : Handle \ {h} # {}  \* two at least, one for each task

VARIABLES
  cable,    \* the class of the connection
  device,   \* external: "talking", "silent" (no panel behind the cable) or "gone"
  conn,     \* _connection
  file,     \* per handle: "open", "dead" (the device was lost since) or "closed"
  pc,       \* where the packet loop is suspended
  hold,     \* the handle its suspended call is for
  within,   \* what a disconnect or connect of the loop is part of
  sending,  \* is a command in flight?
  queued,   \* is a command queued?
  stop,     \* _stop is set
  closing,  \* where the shutdown is suspended
  held      \* the handle its suspended call is for

loopState == <<pc, hold, within, sending>>
shutdownState == <<stop, closing, held>>
linkVars == <<cable, device, conn, file, loopState, queued, shutdownState>>

LinkTypeOK ==
  /\ cable \in Cables
  /\ device \in {"talking", "silent", "gone"}
  /\ conn \in Handle \cup {None}
  /\ file \in [Handle -> {"open", "dead", "closed"}]
  /\ pc \in {"sleep", "flush", "close", "open", "hello", "discard", "backoff",
             "read", "write", "ended"}
  /\ hold \in Handle \cup {None}
  /\ within \in {"none", "top", "read", "silence", "again", "exit"}
  /\ sending \in BOOLEAN
  /\ queued \in BOOLEAN
  /\ stop \in BOOLEAN
  /\ closing \in {"no", "flush", "close", "done", "raised"}
  /\ held \in Handle \cup {None}

\* initialize() has awaited connect(), which may have failed, and the loop starts.
LinkInit ==
  /\ cable \in Cables
  /\ device \in {"talking", "silent", "gone"}
  /\ \/ /\ device # "gone"
        /\ \E h \in Handle :
             /\ conn = h /\ hold = h
             /\ file = [g \in Handle |-> IF g = h THEN "open" ELSE "closed"]
        /\ pc = "read" /\ within = "none"
     \/ /\ conn = None /\ hold = None
        /\ file = [h \in Handle |-> "closed"]
        /\ pc = "sleep" /\ within = "top"
  /\ sending = FALSE /\ queued = FALSE
  /\ stop = FALSE /\ closing = "no" /\ held = None

-----------------------------------------------------------------------------
(* The device (external) *)

\* A lost device takes the open files with it: they stay dead when it returns.
DeviceChanges ==
  /\ device' \in {"talking", "silent", "gone"} \ {device}
  /\ file' = IF device' = "gone"
             THEN [h \in Handle |-> IF file[h] = "open" THEN "dead" ELSE file[h]]
             ELSE file
  /\ UNCHANGED <<cable, conn, loopState, queued, shutdownState>>

\* A raw HID file has nothing to flush; a serial port is drained, which fails when the
\* device is lost.  A file closed before or meanwhile may make the call raise.
FlushRaises(h) == file[h] = "closed" \/ (cable = "serial" /\ file[h] = "dead")
FlushReturns(h) == ~(cable = "serial" /\ file[h] = "dead")

\* A file object that nothing refers to: the loop refers to none while it opens one.
FreeHandle == CHOOSE h \in Handle : h # held

-----------------------------------------------------------------------------
(* The packet loop.  These operators take it from one suspension to the    *)
(* next; they read the new values of conn and queued, so they come last.   *)

Suspend(at, on, part, command) ==
  pc' = at /\ hold' = on /\ within' = part /\ sending' = command

End == Suspend("ended", None, "none", FALSE)

\* disconnect(): "otherwise" is what follows when there is nothing to disconnect.
StartDisconnect(part, command, otherwise) ==
  IF conn' # None THEN Suspend("flush", conn', part, command) ELSE otherwise

\* (mutant) the loop is left without the disconnect
AtTopLeavesOpen ==
  IF stop /\ ~queued' THEN End
  ELSE IF conn' = None THEN Suspend("sleep", None, "top", FALSE)
  ELSE Suspend("read", conn', "none", FALSE)

\* (mutant) a link that is not connected ends the loop
AtTopGivesUp ==
  IF (stop /\ ~queued') \/ conn' = None THEN StartDisconnect("exit", FALSE, End)
  ELSE Suspend("read", conn', "none", FALSE)

\* The while condition, and what the body does first.
AtTop ==
  IF stop /\ ~queued' THEN StartDisconnect("exit", FALSE, End)
  ELSE IF conn' = None THEN Suspend("sleep", None, "top", FALSE)
  ELSE Suspend("read", conn', "none", FALSE)

\* (mutant) a flush that fails after the loop is tried again
RaiseRetries(part) == IF part = "exit" THEN UNCHANGED loopState ELSE AtTop

\* An exception: the handler at the end of the body logs it; the disconnect after the
\* loop has no handler, so there it ends the task.
Raise(part) == IF part = "exit" THEN End ELSE AtTop

\* A command's next write, which raises without a connection, or its next read, which
\* returns nothing then, as do all that follow.
CommandNext(at) == IF conn' = None THEN AtTop ELSE Suspend(at, conn', "none", TRUE)

\* _forward_records, and what follows: the command in flight goes on or is over; or a
\* command is taken; or the loop starts again.
AfterRead ==
  \/ sending /\ UNCHANGED queued /\ (AtTop \/ \E at \in {"read", "write"} : CommandNext(at))
  \/ ~sending /\ queued' = FALSE /\ IF queued THEN CommandNext("write") ELSE AtTop

\* What follows connect(): the loop's own reconnect backs off when it failed, the one in
\* a read gives up the read, and a serial read that timed out discards one record.  The
\* one after a PortNotOpenError goes on with the records of the round before, if any.
AfterConnect ==
  CASE within = "top" ->
         /\ UNCHANGED queued
         /\ IF conn' = None THEN Suspend("backoff", None, "none", FALSE) ELSE AtTop
    [] within = "again" -> AfterRead \/ (UNCHANGED queued /\ AtTop)
    [] within = "read" \/ (within = "silence" /\ conn' = None) -> AfterRead
    [] OTHER -> UNCHANGED queued /\ Suspend("discard", conn', "none", sending)

LoopUnchanged == UNCHANGED <<cable, device, shutdownState>>

\* The read returns records.
ReadRecords ==
  /\ pc = "read"
  /\ device = "talking" /\ file[hold] # "dead"
  /\ UNCHANGED <<conn, file>>
  /\ AfterRead
  /\ LoopUnchanged

\* The read fails: the device is lost, or the file was closed under it.
ReadFails ==
  /\ pc = "read"
  /\ file[hold] # "open"
  /\ Suspend("sleep", None, "read", sending)
  /\ UNCHANGED <<conn, file, queued>>
  /\ LoopUnchanged

\* A serial read returns nothing for a second.
ReadTimesOut ==
  /\ pc = "read"
  /\ cable = "serial" /\ device = "silent" /\ file[hold] = "open"
  /\ Suspend("sleep", None, "silence", sending)
  /\ UNCHANGED <<conn, file, queued>>
  /\ LoopUnchanged

\* The read that discards a record is not guarded; when no command is in flight, the loop
\* takes the error of a closed port for a lost connection.  After the read the data are
\* still empty, so the loop reads on; None.read_until is caught there.
Discarded ==
  /\ pc = "discard"
  /\ UNCHANGED <<conn, file, queued>>
  /\ CASE file[hold] = "closed" /\ ~sending -> AtTop \/ Suspend("sleep", None, "again", FALSE)
       [] file[hold] = "dead" \/ (file[hold] = "closed" /\ sending) -> AtTop
       [] file[hold] = "open" /\ conn = None -> Suspend("sleep", None, "read", sending)
       [] OTHER -> Suspend("read", conn, "none", sending)
  /\ LoopUnchanged

\* A keypress is written, or the write raises.
Written ==
  /\ pc = "write"
  /\ UNCHANGED <<conn, file, queued>>
  /\ IF file[hold] = "open" THEN CommandNext("read") ELSE AtTop
  /\ LoopUnchanged

\* reconnect() has slept; disconnect() comes first.
Slept ==
  /\ pc = "sleep"
  /\ UNCHANGED <<conn, file, queued>>
  /\ StartDisconnect(within, sending, Suspend("open", None, within, sending))
  /\ LoopUnchanged

\* A serial port that was closed refuses the flush with PortNotOpenError.  The loop takes
\* that for a lost connection when it comes out of a read of its own, as no command's.
FlushRefused ==
  /\ cable = "serial" /\ file[hold] = "closed"
  /\ within \in {"read", "silence"} /\ ~sending

\* The flush is done; close is looked up on whatever _connection is then.
Flushed ==
  /\ pc = "flush"
  /\ UNCHANGED <<conn, file, queued>>
  /\ \/ FlushReturns(hold) /\ conn # None /\ Suspend("close", conn, within, sending)
     \/ (FlushRaises(hold) \/ conn = None) /\ Raise(within)
     \/ FlushRefused /\ Suspend("sleep", None, "again", FALSE)
  /\ LoopUnchanged

\* The thread closes the file before the task resumes.
CloseRuns(h) == file' = [file EXCEPT ![h] = "closed"]

LoopCloseRuns ==
  /\ pc = "close" /\ file[hold] # "closed"
  /\ CloseRuns(hold)
  /\ UNCHANGED <<conn, loopState, queued>>
  /\ LoopUnchanged

\* (mutant) the closed connection is kept
ClosedKept ==
  /\ pc = "close" /\ file[hold] = "closed"
  /\ IF within = "exit" THEN End ELSE Suspend("open", None, within, sending)
  /\ UNCHANGED <<conn, file, queued>>
  /\ LoopUnchanged

\* The end of disconnect(): the loop's last one, or connect() comes next.
Closed ==
  /\ pc = "close" /\ file[hold] = "closed"
  /\ conn' = None
  /\ IF within = "exit" THEN End ELSE Suspend("open", None, within, sending)
  /\ UNCHANGED <<file, queued>>
  /\ LoopUnchanged

\* connect(): HID then writes its startup message.
Opened ==
  /\ pc = "open"
  /\ device # "gone"
  /\ conn' = FreeHandle
  /\ file' = [file EXCEPT ![FreeHandle] = "open"]
  /\ IF cable = "HID"
     THEN UNCHANGED queued /\ Suspend("hello", FreeHandle, within, sending)
     ELSE AfterConnect
  /\ LoopUnchanged

\* A failed open leaves no connection.  (A serial connect() may try again at once, which
\* is a step that changes nothing.)
OpenFails ==
  /\ pc = "open"
  /\ device = "gone"
  /\ UNCHANGED <<conn, file>>
  /\ AfterConnect
  /\ LoopUnchanged

\* The startup message: an OSError is handled, the ValueError of a closed file is not.
Greeted ==
  /\ pc = "hello"
  /\ CASE file[hold] = "open" -> UNCHANGED conn /\ AfterConnect
       [] file[hold] = "dead" -> conn' = None /\ AfterConnect
       [] OTHER -> UNCHANGED <<conn, queued>> /\ AtTop
  /\ UNCHANGED file
  /\ LoopUnchanged

BackedOff ==
  /\ pc = "backoff"
  /\ UNCHANGED <<conn, file, queued>>
  /\ AtTop
  /\ LoopUnchanged

LoopSteps ==
  \/ ReadFails \/ ReadTimesOut \/ Discarded \/ Written
  \/ Slept \/ Flushed \/ LoopCloseRuns \/ Closed
  \/ Opened \/ OpenFails \/ Greeted \/ BackedOff

\* The records of the round before are forwarded again.
ForwardsAgain == within = "again" /\ (Opened \/ OpenFails)

-----------------------------------------------------------------------------
(* Other tasks *)

AddCommand ==
  /\ ~queued
  /\ queued' = TRUE
  /\ UNCHANGED <<cable, device, conn, file, loopState, shutdownState>>

ShutdownUnchanged == UNCHANGED <<cable, device, loopState, queued>>

\* JA80CentralUnit.shutdown (an unload, or Home Assistant stopping).
Shutdown ==
  /\ closing = "no"
  /\ stop' = TRUE
  /\ IF conn # None THEN closing' = "flush" /\ held' = conn
     ELSE closing' = "done" /\ held' = None
  /\ UNCHANGED <<conn, file>>
  /\ ShutdownUnchanged

ShutdownFlushed ==
  /\ closing = "flush"
  /\ \/ FlushReturns(held) /\ conn # None /\ closing' = "close" /\ held' = conn
     \/ (FlushRaises(held) \/ conn = None) /\ closing' = "raised" /\ held' = None
  /\ UNCHANGED <<conn, file, stop>>
  /\ ShutdownUnchanged

ShutdownCloseRuns ==
  /\ closing = "close" /\ file[held] # "closed"
  /\ CloseRuns(held)
  /\ UNCHANGED <<conn, shutdownState>>
  /\ ShutdownUnchanged

ShutdownClosed ==
  /\ closing = "close" /\ file[held] = "closed"
  /\ conn' = None
  /\ closing' = "done" /\ held' = None
  /\ UNCHANGED <<file, stop>>
  /\ ShutdownUnchanged

ShutdownSteps == ShutdownFlushed \/ ShutdownCloseRuns \/ ShutdownClosed

Others == DeviceChanges \/ AddCommand \/ Shutdown
=============================================================================
