----------------------------- MODULE PacketLoop -----------------------------
(***************************************************************************)
(* The command side of JablotronConnection (jablotron.py): commands queued *)
(* by callers, the single packet-loop task that writes their keypresses to *)
(* the panel, waits for the panel's records and retries, and the callers   *)
(* that wait for the outcome.                                              *)
(*                                                                         *)
(* A step is the code between two awaits that really suspend.  The queues  *)
(* are unbounded, so their put() and get() do not; a read and the code     *)
(* after it, up to the next write or read, are one step.  What a record    *)
(* holds is abstracted to whether it starts with the prefix the loop is    *)
(* looking for: the panel, and the other keypads on its bus, may produce   *)
(* such a record or not at every read.                                     *)
(***************************************************************************)
EXTENDS Naturals, Sequences

CONSTANTS
  Command,          \* command objects (an object may be built again when it is done)
  Details,          \* the commands named "Details": they all compare equal
  Completion,       \* the commands with a complete_prefix
  Waited,           \* the commands whose caller awaits wait_for_confirmation()
  Keys,             \* number of keypresses of a command (len(code))
  MaxRetries,       \* max_retries of a command
  AckRecords,       \* reads spent on a keypress's acknowledgement (10 in the code)
  CompleteRecords,  \* reads spent on a completion (max_records in the code)
  LinkFaults,       \* may the device fail while it is read, written or opened?
  None              \* Python's None

ASSUME CommandAssumption ==
  /\ Details \subseteq Command
  /\ Completion \subseteq Command
  /\ Waited \subseteq Command
  /\ Keys \in [Command -> Nat \ {0}]
  /\ MaxRetries \in [Command -> Nat]
  /\ None \notin Command

ASSUME RecordsAssumption ==
  /\ AckRecords \in Nat \ {0}
  /\ CompleteRecords \in Nat \ {0}
  /\ LinkFaults \in BOOLEAN

VARIABLES
  cmdQ,           \* _cmd_q
  cmdList,        \* _cmd_list, the copy that can be searched
  sendCmd,        \* _send_cmd, the mark of the command in flight
  pc,             \* where the packet loop is suspended
  key,            \* loop variable i: the keypress being sent
  retries,        \* the budget left after the attempt in progress
  reads,          \* records read so far by read_until_found
  connected,      \* _connection is not None
  lost,           \* external: it is a serial port that was lost while open
  stop,           \* _stop is set
  closing,        \* shutdown() has still to call disconnect()
  updateDevices,  \* update_devices
  answer,         \* per command: "none" until its event is set, then _confirmed
  caller,         \* per command: "idle", "waiting", or what the wait returned
  entries,        \* history: complete key sequences written for the command
  acked,          \* history: was a last keypress of the command acknowledged?
  completed       \* history: was an acknowledged attempt of the command completed?

loopVars == <<key, retries, reads>>
link == <<connected, lost>>
history == <<entries, acked, completed>>
vars == <<cmdQ, cmdList, sendCmd, pc, loopVars, link, stop, closing,
          updateDevices, answer, caller, history>>

Sending == pc \in {"write", "ack", "complete"}
Queued(c) == \E i \in 1 .. Len(cmdQ) : cmdQ[i] = c
InFlight(c) == Sending /\ sendCmd = c
Live(c) == Queued(c) \/ InFlight(c)

QueueType == cmdQ \in Seq(Command) /\ cmdList \in Seq(Command)

LoopType ==
  /\ sendCmd \in Command \cup {None}
  /\ pc \in {"top", "write", "ack", "complete", "exited"}
  /\ Sending => sendCmd \in Command
  /\ key \in Nat \ {0}
  /\ Sending => key <= Keys[sendCmd]
  /\ retries \in Nat
  /\ reads \in Nat

FlagType ==
  /\ connected \in BOOLEAN
  /\ lost \in BOOLEAN
  /\ lost => connected
  /\ stop \in BOOLEAN
  /\ closing \in BOOLEAN
  /\ updateDevices \in BOOLEAN

RecordType ==
  /\ answer \in [Command -> {"none", "true", "false"}]
  /\ caller \in [Command -> {"idle", "waiting", "true", "false"}]
  /\ entries \in [Command -> Nat]
  /\ acked \in [Command -> BOOLEAN]
  /\ completed \in [Command -> BOOLEAN]

TypeOK == QueueType /\ LoopType /\ FlagType /\ RecordType

\* initialize() has awaited connect(), which may have failed, and starts the loop.
Init ==
  /\ cmdQ = << >> /\ cmdList = << >> /\ sendCmd = None
  /\ pc = "top" /\ key = 1 /\ retries = 0 /\ reads = 0
  /\ connected \in BOOLEAN
  /\ ~connected => LinkFaults
  /\ lost = FALSE
  /\ stop = FALSE /\ closing = FALSE
  /\ updateDevices = FALSE
  /\ answer = [c \in Command |-> "none"]
  /\ caller = [c \in Command |-> "idle"]
  /\ entries = [c \in Command |-> 0]
  /\ acked = [c \in Command |-> FALSE]
  /\ completed = [c \in Command |-> FALSE]

-----------------------------------------------------------------------------
(* Callers *)

\* JablotronCommand is a dataclass: any two "Details" commands are equal.
SameCommand(c, d) == {c, d} \subseteq Details

\* (mutant) the command in flight is not looked at
DuplicateQueuedOnly(c) ==
  c \in Details /\ \E i \in 1 .. Len(cmdList) : SameCommand(cmdList[i], c)

DuplicateDetails(c) ==
  /\ c \in Details
  /\ \/ \E i \in 1 .. Len(cmdList) : SameCommand(cmdList[i], c)
     \/ SameCommand(sendCmd, c)

\* A caller builds a new command and hands it over.
AddCommand(c) ==
  /\ ~Live(c)
  /\ caller[c] # "waiting"
  /\ IF DuplicateDetails(c)
     THEN UNCHANGED vars
     ELSE /\ cmdList' = Append(cmdList, c)
          /\ cmdQ' = Append(cmdQ, c)
          /\ answer' = [answer EXCEPT ![c] = "none"]
          /\ caller' = [caller EXCEPT ![c] = IF c \in Waited THEN "waiting" ELSE "idle"]
          /\ entries' = [entries EXCEPT ![c] = 0]
          /\ acked' = [acked EXCEPT ![c] = FALSE]
          /\ completed' = [completed EXCEPT ![c] = FALSE]
          /\ UNCHANGED <<sendCmd, pc, loopVars, link, stop, closing, updateDevices>>

\* The caller resumes after the event is set, with the value _confirmed has then.
CallerResumes(c) ==
  /\ caller[c] = "waiting"
  /\ answer[c] # "none"
  /\ caller' = [caller EXCEPT ![c] = answer[c]]
  /\ UNCHANGED <<cmdQ, cmdList, sendCmd, pc, loopVars, link, stop, closing,
                 updateDevices, answer, history>>

\* _process_state of a state message runs the reconciliation the flag asks for.
ReconcileDevices ==
  /\ updateDevices
  /\ updateDevices' = FALSE
  /\ UNCHANGED <<cmdQ, cmdList, sendCmd, pc, loopVars, link, stop, closing,
                 answer, caller, history>>

\* disconnect(): the flush of a lost serial port raises, and the connection is kept.
Disconnect == connected' = lost /\ UNCHANGED lost

\* JA80CentralUnit.shutdown: stop the loop, then disconnect.
Shutdown ==
  /\ ~stop
  /\ stop' = TRUE
  /\ closing' = TRUE
  /\ UNCHANGED <<cmdQ, cmdList, sendCmd, pc, loopVars, link,
                 updateDevices, answer, caller, history>>

ShutdownDisconnects ==
  /\ closing
  /\ closing' = FALSE
  /\ Disconnect
  /\ UNCHANGED <<cmdQ, cmdList, sendCmd, pc, loopVars, stop,
                 updateDevices, answer, caller, history>>

-----------------------------------------------------------------------------
(* The packet loop *)

\* The while condition fails: leave the loop and disconnect.
Exit ==
  /\ pc = "top"
  /\ stop /\ cmdQ = << >>
  /\ pc' = "exited"
  /\ Disconnect
  /\ UNCHANGED <<cmdQ, cmdList, sendCmd, loopVars, stop, closing,
                 updateDevices, answer, caller, history>>

\* reconnect() and, when it fails, the back-off.
Reconnect ==
  /\ pc = "top"
  /\ ~(stop /\ cmdQ = << >>)
  /\ ~connected
  /\ connected' \in BOOLEAN
  /\ ~connected' => LinkFaults
  /\ UNCHANGED <<cmdQ, cmdList, sendCmd, pc, loopVars, lost, stop, closing,
                 updateDevices, answer, caller, history>>

\* The device behind the serial port in use goes away (external).  Neither a read, a
\* write nor a flush of that port works ever again.
PortLost ==
  /\ LinkFaults
  /\ connected /\ ~lost
  /\ lost' = TRUE
  /\ UNCHANGED <<cmdQ, cmdList, sendCmd, pc, loopVars, connected, stop, closing,
                 updateDevices, answer, caller, history>>

\* What a read that returns leaves behind: the link as it was; or, when the device
\* failed, whatever the reconnect inside _read_data achieved; or an open link again, when
\* shutdown() closed it under the read and _read_data reconnected.
LinkAfterRead ==
  /\ ~lost /\ UNCHANGED lost
  /\ connected' \in BOOLEAN
  /\ connected /\ ~connected' => LinkFaults
  /\ ~connected /\ connected' => stop

\* _get_command, and the start of the first attempt.
TakeCommand ==
  IF cmdQ = << >>
  THEN UNCHANGED <<cmdQ, cmdList, sendCmd, pc, loopVars>>
  ELSE /\ cmdQ' = Tail(cmdQ)
       /\ cmdList' = IF cmdList = << >> THEN cmdList ELSE Tail(cmdList)
       /\ sendCmd' = Head(cmdQ)
       /\ pc' = "write"
       /\ key' = 1
       /\ retries' = MaxRetries[Head(cmdQ)]
       /\ reads' = 0

\* Read and forward records, then look for a command.
ReadRecords ==
  /\ pc = "top"
  /\ ~(stop /\ cmdQ = << >>)
  /\ connected
  /\ LinkAfterRead
  /\ TakeCommand
  /\ UNCHANGED <<stop, closing, updateDevices, answer, caller, history>>

\* A read raises: the reconnect in it flushes a lost port; or the read that discards the
\* first record after a serial reconnect fails; or shutdown() closes under the reconnect.
ReadMayRaise == LinkFaults \/ stop

\* The read at the top raises.  The iteration ends before it looks for a command, and
\* the loop starts again with the same connection.
TopReadRaises ==
  /\ pc = "top"
  /\ ~(stop /\ cmdQ = << >>)
  /\ connected
  /\ ReadMayRaise
  /\ UNCHANGED vars

\* An exception leaves the iteration: it is logged, and nothing else is done.
Abandon ==
  /\ pc' = "top"
  /\ key' = 1 /\ retries' = 0 /\ reads' = 0
  /\ UNCHANGED <<cmdQ, cmdList, sendCmd, lost, stop, closing,
                 updateDevices, answer, caller, history>>

\* One keypress of the sequence reaches the panel.
WriteKey ==
  /\ pc = "write"
  /\ connected /\ ~lost
  /\ pc' = "ack"
  /\ reads' = 0
  /\ entries' = IF key = Keys[sendCmd]
                THEN [entries EXCEPT ![sendCmd] = @ + 1] ELSE entries
  /\ UNCHANGED <<cmdQ, cmdList, sendCmd, key, retries, link, stop, closing,
                 updateDevices, answer, caller, acked, completed>>

\* The write raises: there is no connection (None.write), or the device failed.
WriteFails ==
  /\ pc = "write"
  /\ ~connected \/ LinkFaults
  /\ Abandon
  /\ UNCHANGED connected

\* A read raises out of read_until_found, maybe after it has reconnected under a shutdown.
ReadRaises ==
  /\ pc \in {"ack", "complete"}
  /\ ReadMayRaise
  /\ Abandon
  /\ connected' \in {connected, connected \/ stop}

\* send_cmd.confirm(ok), and the flag for an acknowledged "Details".
Confirm(ok) == answer' = [answer EXCEPT ![sendCmd] = ok]

RequestUpdate ==
  IF sendCmd \in Details THEN updateDevices' = TRUE ELSE UNCHANGED updateDevices

\* task_done(), and nothing is in flight any more.
Finish ==
  /\ pc' = "top"
  /\ sendCmd' = None
  /\ key' = 1 /\ retries' = 0 /\ reads' = 0

\* (mutant) the path back to the next attempt skips the decrement
AttemptFailsForFree(otherwise) ==
  /\ pc' = "write" /\ key' = 1 /\ reads' = 0
  /\ otherwise
  /\ UNCHANGED <<sendCmd, retries>>

\* (mutant) an exhausted budget is not reported
AttemptFailsSilently(otherwise) ==
  IF retries = 0
  THEN Finish /\ otherwise
  ELSE /\ retries' = retries - 1
       /\ pc' = "write" /\ key' = 1 /\ reads' = 0
       /\ otherwise
       /\ UNCHANGED sendCmd

\* An attempt failed: start the next one, or report that the budget is spent.
\* "otherwise" is what the failed attempt itself made of the answer.
AttemptFails(otherwise) ==
  IF retries = 0
  THEN /\ Confirm("false")
       /\ Finish
  ELSE /\ retries' = retries - 1
       /\ pc' = "write" /\ key' = 1 /\ reads' = 0
       /\ otherwise
       /\ UNCHANGED sendCmd

\* (mutant) one keypress too many
KeyAcknowledgedOffByOne ==
  /\ pc = "ack" /\ ~lost /\ key <= Keys[sendCmd]
  /\ pc' = "write" /\ key' = key + 1 /\ reads' = 0
  /\ UNCHANGED <<cmdQ, cmdList, sendCmd, retries, link, stop, closing,
                 updateDevices, answer, caller, history>>

\* (mutant) an accepted command without a completion is not marked confirmed
KeyAcknowledgedNotConfirmed ==
  /\ pc = "ack" /\ ~lost /\ key = Keys[sendCmd] /\ sendCmd \notin Completion
  /\ acked' = [acked EXCEPT ![sendCmd] = TRUE]
  /\ AttemptFails(Confirm("true"))
  /\ UNCHANGED <<cmdQ, cmdList, link, stop, closing, updateDevices, caller,
                 entries, completed>>

\* The acknowledgement of the keypress is read.
KeyAcknowledged ==
  /\ pc = "ack"
  /\ ~lost
  /\ IF key < Keys[sendCmd]
     THEN /\ pc' = "write"
          /\ key' = key + 1
          /\ reads' = 0
          /\ UNCHANGED <<sendCmd, retries, updateDevices, answer, acked, completed>>
     ELSE /\ acked' = [acked EXCEPT ![sendCmd] = TRUE]
          /\ IF sendCmd \in Completion
             THEN /\ pc' = "complete"
                  /\ reads' = 0
                  /\ UNCHANGED <<sendCmd, key, retries, updateDevices, answer, completed>>
             ELSE /\ completed' = [completed EXCEPT ![sendCmd] = TRUE]
                  /\ Confirm("true")
                  /\ RequestUpdate
                  /\ Finish
  /\ UNCHANGED <<cmdQ, cmdList, link, stop, closing, caller, entries>>

\* A read without the acknowledgement; after the last one the attempt failed.
KeyNotAcknowledged ==
  /\ pc = "ack"
  /\ LinkAfterRead
  /\ IF reads + 1 < AckRecords
     THEN /\ reads' = reads + 1
          /\ UNCHANGED <<sendCmd, pc, key, retries, answer>>
     ELSE AttemptFails(UNCHANGED answer)
  /\ UNCHANGED <<cmdQ, cmdList, stop, closing, updateDevices, caller, history>>

\* (mutant) failure is judged by the budget and not by the outcome
CompletionReadTooLate ==
  /\ pc = "complete"
  /\ ~lost
  /\ completed' = [completed EXCEPT ![sendCmd] = TRUE]
  /\ Confirm(IF retries = 0 THEN "false" ELSE "true")
  /\ RequestUpdate
  /\ Finish
  /\ UNCHANGED <<cmdQ, cmdList, link, stop, closing, caller, entries, acked>>

\* The completion is read.
CompletionRead ==
  /\ pc = "complete"
  /\ ~lost
  /\ completed' = [completed EXCEPT ![sendCmd] = TRUE]
  /\ Confirm("true")
  /\ RequestUpdate
  /\ Finish
  /\ UNCHANGED <<cmdQ, cmdList, link, stop, closing, caller, entries, acked>>

\* A read without the completion; after the last one confirm(True) is still
\* called for the accepted attempt before the budget is looked at.
CompletionNotRead ==
  /\ pc = "complete"
  /\ LinkAfterRead
  /\ IF reads + 1 < CompleteRecords
     THEN /\ reads' = reads + 1
          /\ UNCHANGED <<sendCmd, pc, key, retries, answer, updateDevices>>
     ELSE /\ AttemptFails(Confirm("true"))
          /\ RequestUpdate
  /\ UNCHANGED <<cmdQ, cmdList, stop, closing, caller, history>>

Loop ==
  \/ Exit \/ Reconnect \/ ReadRecords \/ TopReadRaises
  \/ WriteKey \/ WriteFails
  \/ KeyAcknowledged \/ KeyNotAcknowledged
  \/ CompletionRead \/ CompletionNotRead \/ ReadRaises

Next ==
  \/ Loop
  \/ \E c \in Command : AddCommand(c) \/ CallerResumes(c)
  \/ ReconcileDevices
  \/ PortLost
  \/ Shutdown \/ ShutdownDisconnects

Spec == Init /\ [][Next]_vars

(***************************************************************************)
(* The event loop runs every task that can run, and a read of a port that  *)
(* is not lost does not raise for ever: the panel sends a record about     *)
(* once a second.                                                          *)
(***************************************************************************)
FairSpec ==
  /\ Spec
  /\ WF_vars(Loop)
  /\ \A c \in Command : WF_vars(CallerResumes(c))

-----------------------------------------------------------------------------
(* Properties *)

\* The searchable list holds exactly the queued commands, in order: _get_command
\* pops one entry for each command it takes (jablotron.py:765-772).
ListMirrorsQueue == cmdList = cmdQ

\* However often the background query is asked for, at most one "Details" is queued
\* or being sent, so that it cannot hold up a disarm (jablotron.py:754-758).
OneDetails == \A c, d \in Details : Live(c) /\ Live(d) => c = d

\* A command enters its complete key sequence at most max_retries + 1 times, whatever
\* is lost: a rejected code stays below the panel's tamper limit, and a command with
\* max_retries = 0 (a saved user code) is entered once (jablotron.py:667-673).
EntriesBounded == \A c \in Command : entries[c] <= MaxRetries[c] + 1

\* Once the panel has acknowledged the last key of a command that awaits no completion,
\* or completed one that does, no key of it is sent again: the master code toggles, so
\* a second entry would flip the state back (jablotron.py:874-881).
DoneNotResent ==
  \A c \in Command :
    Live(c) => ~completed[c] /\ (acked[c] => c \in Completion)

\* A command is reported failed only if no attempt of it succeeded, to the loop's
\* record and to the caller that awaited it (jablotron.py:889-894).
FailureIsTruthful ==
  \A c \in Command : "false" \in {answer[c], caller[c]} => ~completed[c]

\* The device fails and comes back, again and again, but no serial port is lost while it
\* is open: of such a port the loop cannot rid itself, each iteration raises before a
\* command is looked for, and what is queued stays so.
DeviceReturns == []<>(connected /\ ~lost)

\* With a device that returns, every queued command is answered, or is the one abandoned
\* by an exception, whose mark stays behind, or the unit is shut down: a failed iteration
\* does not end the loop, a failed open does not either, and a spent budget is reported
\* (jablotron.py:805-815, 889-901).
EveryCommandAnswered ==
  DeviceReturns => \A c \in Command :
    Queued(c) ~> (answer[c] # "none" \/ stop \/ (pc = "top" /\ sendCmd = c))

\* No caller waits forever while the unit runs and the device returns
\* (jablotron.py:889-892).
NoCallerWaitsForever ==
  (DeviceReturns /\ []~stop) =>
    \A c \in Waited : (caller[c] = "waiting") ~> (caller[c] # "waiting")
=============================================================================
