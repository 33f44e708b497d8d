-------------------------- MODULE PacketLoop_proofs --------------------------
(***************************************************************************)
(* Proofs about PacketLoop for every set of commands, every budget and     *)
(* every number of reads.                                                  *)
(***************************************************************************)
EXTENDS PacketLoop, TLAPS

USE CommandAssumption, RecordsAssumption DEF CommandAssumption, RecordsAssumption

(***************************************************************************)
(* The inductive invariant: what the properties need of the queue (no      *)
(* command twice, none both queued and in flight), of the budget (each     *)
(* attempt that may still be made is paid for by one unit of retries) and  *)
(* of a live command's record (not reported failed, not done).             *)
(***************************************************************************)
QueueDistinct == \A i, j \in 1 .. Len(cmdQ) : cmdQ[i] = cmdQ[j] => i = j

InFlightNotQueued == Sending => ~Queued(sendCmd)

\* No complete sequence has been written yet in the attempt in progress.
LastKeyToCome == pc = "write" \/ (pc = "ack" /\ key < Keys[sendCmd])

BudgetPaid ==
  /\ \A c \in Command : Queued(c) => entries[c] = 0
  /\ Sending => entries[sendCmd] + retries <=
       IF LastKeyToCome THEN MaxRetries[sendCmd] ELSE MaxRetries[sendCmd] + 1

CompletionAwaited == pc = "complete" => sendCmd \in Completion /\ acked[sendCmd]

LiveNotFailed ==
  \A c \in Command : Live(c) => answer[c] # "false" /\ caller[c] # "false"

QueueInv == ListMirrorsQueue /\ QueueDistinct /\ InFlightNotQueued
BudgetInv == EntriesBounded /\ BudgetPaid
OutcomeInv == DoneNotResent /\ CompletionAwaited /\ LiveNotFailed /\ FailureIsTruthful
IInv == TypeOK /\ QueueInv /\ BudgetInv /\ OutcomeInv /\ OneDetails

-----------------------------------------------------------------------------
(* What the steps do to the queue and to the command in flight *)

LEMMA StepShape ==
  ASSUME [Next]_vars
  PROVE  \/ \E c \in Command : AddCommand(c)
         \/ ReadRecords
         \/ /\ UNCHANGED <<cmdQ, cmdList>>
            /\ Sending' => Sending /\ sendCmd' = sendCmd
BY DEF Next, Loop, vars, CallerResumes, ReconcileDevices, Shutdown, ShutdownDisconnects,
       Exit, Reconnect, PortLost, TopReadRaises, WriteKey, WriteFails, ReadRaises, Abandon,
       KeyAcknowledged,
       KeyNotAcknowledged, CompletionRead, CompletionNotRead, AttemptFails, Finish,
       Sending, loopVars

LEMMA AddEffect ==
  ASSUME NEW c \in Command, AddCommand(c)
  PROVE  \/ UNCHANGED vars
         \/ /\ ~DuplicateDetails(c)
            /\ ~Live(c)
            /\ cmdQ' = Append(cmdQ, c)
            /\ cmdList' = Append(cmdList, c)
            /\ answer' = [answer EXCEPT ![c] = "none"]
            /\ caller' = [caller EXCEPT ![c] = IF c \in Waited THEN "waiting" ELSE "idle"]
            /\ entries' = [entries EXCEPT ![c] = 0]
            /\ acked' = [acked EXCEPT ![c] = FALSE]
            /\ completed' = [completed EXCEPT ![c] = FALSE]
            /\ UNCHANGED <<sendCmd, pc, key, retries>>
BY DEF AddCommand, loopVars

LEMMA TakeEffect ==
  ASSUME ReadRecords
  PROVE  \/ /\ ~Sending /\ ~Sending'
            /\ UNCHANGED <<cmdQ, cmdList, sendCmd, pc, key, retries>>
            /\ UNCHANGED <<answer, caller, entries, acked, completed>>
         \/ /\ cmdQ # << >>
            /\ cmdQ' = Tail(cmdQ)
            /\ cmdList # << >> => cmdList' = Tail(cmdList)
            /\ cmdList = << >> => cmdList' = cmdList
            /\ ~Sending
            /\ sendCmd' = Head(cmdQ)
            /\ pc' = "write" /\ key' = 1 /\ retries' = MaxRetries[Head(cmdQ)]
            /\ UNCHANGED <<answer, caller, entries, acked, completed>>
BY DEF ReadRecords, TakeCommand, Sending, loopVars, history

LEMMA QueueAppend ==
  ASSUME cmdQ \in Seq(Command), NEW c \in Command, cmdQ' = Append(cmdQ, c)
  PROVE  /\ cmdQ' \in Seq(Command)
         /\ \A d \in Command : Queued(d)' <=> Queued(d) \/ d = c
         /\ QueueDistinct /\ ~Queued(c) => QueueDistinct'
<1>1. /\ cmdQ' \in Seq(Command)
      /\ Len(cmdQ) \in Nat
      /\ Len(cmdQ') = Len(cmdQ) + 1
      /\ \A i \in 1 .. Len(cmdQ) : cmdQ'[i] = cmdQ[i]
      /\ cmdQ'[Len(cmdQ) + 1] = c
  OBVIOUS
<1>2. \A d \in Command : Queued(d)' <=> Queued(d) \/ d = c
  BY <1>1 DEF Queued
<1>3. QueueDistinct /\ ~Queued(c) => QueueDistinct'
  BY <1>1 DEF QueueDistinct, Queued
<1>. QED BY <1>1, <1>2, <1>3

LEMMA QueueTail ==
  ASSUME cmdQ \in Seq(Command), cmdQ # << >>, cmdQ' = Tail(cmdQ)
  PROVE  /\ cmdQ' \in Seq(Command)
         /\ Head(cmdQ) \in Command
         /\ Queued(Head(cmdQ))
         /\ \A d \in Command : Queued(d)' => Queued(d)
         /\ QueueDistinct =>
              QueueDistinct' /\ \A d \in Command : d = Head(cmdQ) => ~Queued(d)'
<1>1. /\ Head(cmdQ) \in Command
      /\ Head(cmdQ) = cmdQ[1]
      /\ Len(cmdQ) \in Nat
      /\ Len(cmdQ) >= 1
  OBVIOUS
<1>2. /\ cmdQ' \in Seq(Command)
      /\ Len(cmdQ') = Len(cmdQ) - 1
      /\ \A i \in 1 .. Len(cmdQ) - 1 : cmdQ'[i] = cmdQ[i + 1]
  OBVIOUS
<1>3. \A d \in Command : Queued(d)' => Queued(d)
  <2>1. ASSUME NEW d \in Command, NEW i \in 1 .. Len(cmdQ'), cmdQ'[i] = d
        PROVE  i + 1 \in 1 .. Len(cmdQ) /\ cmdQ[i + 1] = d
    BY <1>1, <1>2, <2>1
  <2>. QED BY <2>1 DEF Queued
<1>4. ASSUME QueueDistinct 
      PROVE  QueueDistinct' /\ \A d \in Command : d = Head(cmdQ) => ~Queued(d)'
  <2>1. ASSUME NEW i \in 1 .. Len(cmdQ'), NEW j \in 1 .. Len(cmdQ'), cmdQ'[i] = cmdQ'[j]
        PROVE  i = j
    <3>1. /\ i + 1 \in 1 .. Len(cmdQ) /\ j + 1 \in 1 .. Len(cmdQ)
          /\ cmdQ[i + 1] = cmdQ[j + 1]
      BY <1>1, <1>2, <2>1
    <3>2. i + 1 = j + 1
      BY <1>4, <3>1 DEF QueueDistinct
    <3>. QED BY <1>1, <1>2, <3>2
  <2>2. ASSUME NEW i \in 1 .. Len(cmdQ'), cmdQ'[i] = cmdQ[1] PROVE FALSE
    <3>1. /\ i + 1 \in 1 .. Len(cmdQ) /\ 1 \in 1 .. Len(cmdQ)
          /\ cmdQ[i + 1] = cmdQ[1]
      BY <1>1, <1>2, <2>2
    <3>2. i + 1 = 1
      BY <1>4, <3>1 DEF QueueDistinct
    <3>. QED BY <1>1, <1>2, <3>2
  <2>3. \A d \in Command : d = Head(cmdQ) => ~Queued(d)'
    BY <1>1, <2>2 DEF Queued
  <2>. QED BY <2>1, <2>3 DEF QueueDistinct
<1>5. Queued(Head(cmdQ))
  BY <1>1 DEF Queued
<1>. QED BY <1>1, <1>2, <1>3, <1>4, <1>5

-----------------------------------------------------------------------------
(* Type correctness *)

LEMMA TypeInit == Init => TypeOK
<1> SUFFICES ASSUME Init PROVE TypeOK
  OBVIOUS
<1>1. QueueType
  BY DEF Init, QueueType
<1>2. LoopType /\ RecordType
  BY DEF Init, LoopType, RecordType, Sending
<1>3. FlagType
  BY DEF Init, FlagType
<1>. QED BY <1>1, <1>2, <1>3 DEF TypeOK

LEMMA QueueTypeStep == QueueType /\ [Next]_vars => QueueType'
<1> SUFFICES ASSUME QueueType, [Next]_vars PROVE QueueType'
  OBVIOUS
<1>1. ASSUME NEW c \in Command, AddCommand(c) PROVE QueueType'
  <2>1. CASE UNCHANGED vars
    BY <2>1 DEF QueueType, vars
  <2>2. CASE cmdQ' = Append(cmdQ, c) /\ cmdList' = Append(cmdList, c)
    BY <2>2 DEF QueueType
  <2>. QED BY <1>1, <2>1, <2>2, AddEffect
<1>2. CASE ReadRecords
  <2>1. \/ cmdQ' = cmdQ
        \/ cmdQ # << >> /\ cmdQ' = Tail(cmdQ)
    BY <1>2, TakeEffect
  <2>2. \/ cmdList' = cmdList
        \/ cmdList # << >> /\ cmdList' = Tail(cmdList)
    BY <1>2, TakeEffect
  <2>3. \A q \in Seq(Command) : q # << >> => Tail(q) \in Seq(Command)
    OBVIOUS
  <2>. QED BY <2>1, <2>2, <2>3, Zenon DEF QueueType
<1>3. CASE UNCHANGED <<cmdQ, cmdList>>
  BY <1>3 DEF QueueType
<1>. QED BY <1>1, <1>2, <1>3, StepShape

LEMMA FlagTypeStep == FlagType /\ [Next]_vars => FlagType'
<1> SUFFICES ASSUME FlagType, [Next]_vars PROVE FlagType'
  OBVIOUS
<1>0. FlagType
  OBVIOUS
<1>1. CASE Shutdown \/ ShutdownDisconnects \/ PortLost \/ ReconcileDevices
  <2>1. CASE Shutdown
    BY <1>0, <2>1 DEF FlagType, Shutdown, link
  <2>2. CASE ShutdownDisconnects
    BY <1>0, <2>2 DEF FlagType, ShutdownDisconnects, Disconnect
  <2>3. CASE PortLost
    BY <1>0, <2>3 DEF FlagType, PortLost
  <2>4. CASE ReconcileDevices
    BY <1>0, <2>4 DEF FlagType, ReconcileDevices, link
  <2>. QED BY <1>1, <2>1, <2>2, <2>3, <2>4
<1>2. CASE Exit \/ Reconnect \/ ReadRecords
  BY <1>0, <1>2 DEF FlagType, Exit, Disconnect, Reconnect, ReadRecords, LinkAfterRead
<1>3. CASE TopReadRaises \/ UNCHANGED vars
  BY <1>0, <1>3 DEF FlagType, TopReadRaises, vars, link
<1>4. CASE ReadRaises
  <2>1. connected' = connected \/ connected' = (connected \/ stop)
    BY <1>4 DEF ReadRaises
  <2>2. lost' = lost /\ stop' = stop /\ closing' = closing /\ updateDevices' = updateDevices
    BY <1>4 DEF ReadRaises, Abandon
  <2>. QED BY <1>0, <2>1, <2>2 DEF FlagType
<1>5. CASE WriteKey \/ WriteFails
  BY <1>0, <1>5 DEF FlagType, WriteKey, WriteFails, Abandon, link
<1>6. CASE KeyAcknowledged \/ CompletionRead
  <2>1. stop' = stop /\ closing' = closing /\ connected' = connected /\ lost' = lost
    BY <1>6 DEF KeyAcknowledged, CompletionRead, link
  <2>2. updateDevices' = updateDevices \/ updateDevices' = TRUE
    BY <1>6 DEF KeyAcknowledged, CompletionRead, RequestUpdate
  <2>. QED BY <1>0, <2>1, <2>2, Zenon DEF FlagType
<1>7. CASE KeyNotAcknowledged \/ CompletionNotRead
  <2>1. stop' = stop /\ closing' = closing /\ connected' \in BOOLEAN /\ lost' = lost /\ ~lost
    BY <1>7 DEF KeyNotAcknowledged, CompletionNotRead, LinkAfterRead
  <2>2. updateDevices' = updateDevices \/ updateDevices' = TRUE
    BY <1>7 DEF KeyNotAcknowledged, CompletionNotRead, RequestUpdate
  <2>. QED BY <1>0, <2>1, <2>2, Zenon DEF FlagType
<1>8. ASSUME NEW c \in Command, AddCommand(c) \/ CallerResumes(c) PROVE FlagType'
  BY <1>0, <1>8 DEF FlagType, AddCommand, CallerResumes, vars, link
<1>. QED
  BY <1>1, <1>2, <1>3, <1>4, <1>5, <1>6, <1>7, <1>8 DEF Next, Loop

LEMMA LoopTypeStep == TypeOK /\ [Next]_vars => LoopType'
<1> SUFFICES ASSUME TypeOK, [Next]_vars PROVE LoopType'
  OBVIOUS
<1>0. LoopType /\ cmdQ \in Seq(Command)
  BY DEF TypeOK, QueueType
<1> USE CommandAssumption DEF CommandAssumption, LoopType, Sending, loopVars
<1>1. CASE UNCHANGED <<sendCmd, pc, loopVars>>
  BY <1>0, <1>1
<1>2. CASE ReadRecords
  <2>1. CASE cmdQ = << >>
    BY <1>0, <1>2, <2>1 DEF ReadRecords, TakeCommand
  <2>2. CASE cmdQ # << >>
    <3>1. Head(cmdQ) \in Command
      BY <1>0, <2>2
    <3>2. LoopType
      BY <1>0
    <3>. QED BY <3>2, <1>2, <2>2, <3>1 DEF ReadRecords, TakeCommand
  <2>. QED BY <2>1, <2>2
<1>3. CASE Exit \/ WriteKey \/ WriteFails \/ ReadRaises
  BY <1>0, <1>3 DEF Exit, WriteKey, WriteFails, ReadRaises, Abandon
<1>4. CASE KeyAcknowledged
  BY <1>0, <1>4 DEF KeyAcknowledged, Finish
<1>5. CASE KeyNotAcknowledged
  BY <1>0, <1>5 DEF KeyNotAcknowledged, AttemptFails, Finish
<1>6. CASE CompletionRead
  BY <1>0, <1>6 DEF CompletionRead, Finish
<1>7. CASE CompletionNotRead
  BY <1>0, <1>7 DEF CompletionNotRead, AttemptFails, Finish
<1>8. ASSUME NEW c \in Command, AddCommand(c) \/ CallerResumes(c)
      PROVE  UNCHANGED <<sendCmd, pc, loopVars>>
  BY <1>8 DEF AddCommand, CallerResumes, vars
<1>. QED
  BY <1>1, <1>2, <1>3, <1>4, <1>5, <1>6, <1>7, <1>8
  DEF Next, Loop, ReconcileDevices, Shutdown, ShutdownDisconnects, Reconnect, PortLost,
      TopReadRaises, vars

LEMMA RecordTypeStep == TypeOK /\ [Next]_vars => RecordType'
<1> SUFFICES ASSUME TypeOK, [Next]_vars PROVE RecordType'
  OBVIOUS
<1>0. LoopType /\ RecordType
  BY DEF TypeOK
<1> USE DEF LoopType, RecordType, Sending, history
<1>1. CASE UNCHANGED <<answer, caller, history>>
  BY <1>0, <1>1
<1>2. ASSUME NEW c \in Command, AddCommand(c) PROVE RecordType'
  <2>1. CASE UNCHANGED vars
    BY <1>0, <2>1 DEF vars
  <2>2. CASE ~UNCHANGED vars
    <3>1. /\ answer' = [answer EXCEPT ![c] = "none"]
          /\ caller' = [caller EXCEPT ![c] = IF c \in Waited THEN "waiting" ELSE "idle"]
          /\ entries' = [entries EXCEPT ![c] = 0]
          /\ acked' = [acked EXCEPT ![c] = FALSE]
          /\ completed' = [completed EXCEPT ![c] = FALSE]
      BY <1>2, <2>2, AddEffect
    <3>. QED BY <1>0, <3>1
  <2>. QED BY <2>1, <2>2
<1>3. ASSUME NEW c \in Command, CallerResumes(c) PROVE RecordType'
  BY <1>0, <1>3 DEF CallerResumes
<1>4. CASE WriteKey
  BY <1>0, <1>4 DEF WriteKey
<1>5. CASE KeyAcknowledged
  BY <1>0, <1>5 DEF KeyAcknowledged, Confirm
<1>6. CASE KeyNotAcknowledged
  BY <1>0, <1>6 DEF KeyNotAcknowledged, AttemptFails, Confirm
<1>7. CASE CompletionRead
  BY <1>0, <1>7 DEF CompletionRead, Confirm
<1>8. CASE CompletionNotRead
  BY <1>0, <1>8 DEF CompletionNotRead, AttemptFails, Confirm
<1>. QED
  BY <1>1, <1>2, <1>3, <1>4, <1>5, <1>6, <1>7, <1>8
  DEF Next, Loop, ReconcileDevices, Shutdown, ShutdownDisconnects, Exit, Reconnect,
      PortLost, TopReadRaises, ReadRecords, WriteFails, ReadRaises, Abandon, vars

LEMMA TypeStep == TypeOK /\ [Next]_vars => TypeOK'
BY QueueTypeStep, LoopTypeStep, FlagTypeStep, RecordTypeStep DEF TypeOK

\* Every variable of the packet loop keeps its type; in particular its locals belong to
\* a command whenever one is being sent (jablotron.py:826-897).
THEOREM TypeCorrect == Spec => []TypeOK
BY TypeInit, TypeStep, PTL DEF Spec

-----------------------------------------------------------------------------
(* The queue and the command in flight *)

LEMMA QueueStep == TypeOK /\ QueueInv /\ [Next]_vars => QueueInv'
<1> SUFFICES ASSUME TypeOK, QueueInv, [Next]_vars PROVE QueueInv'
  OBVIOUS
<1>0. cmdQ \in Seq(Command) /\ (Sending => sendCmd \in Command)
  BY DEF TypeOK, QueueType, LoopType
<1> USE DEF QueueInv
<1>1. ASSUME NEW c \in Command, AddCommand(c) PROVE QueueInv'
  <2>1. CASE UNCHANGED vars
    BY <2>1 DEF vars, ListMirrorsQueue, QueueDistinct, InFlightNotQueued, Sending, Queued
  <2>2. CASE ~UNCHANGED vars
    <3>1. /\ ~Live(c)
          /\ cmdQ' = Append(cmdQ, c) /\ cmdList' = Append(cmdList, c)
          /\ UNCHANGED <<sendCmd, pc>>
      BY <1>1, <2>2, AddEffect
    <3>2. ListMirrorsQueue'
      BY <3>1 DEF ListMirrorsQueue
    <3>3. QueueDistinct'
      BY <1>0, <3>1, QueueAppend DEF Live
    <3>4. InFlightNotQueued'
      BY <1>0, <3>1, QueueAppend DEF Live, InFlight, InFlightNotQueued, Sending
    <3>. QED BY <3>2, <3>3, <3>4
  <2>. QED BY <2>1, <2>2
<1>2. CASE ReadRecords
  <2>1. CASE UNCHANGED <<cmdQ, cmdList>> /\ ~Sending'
    BY <2>1 DEF ListMirrorsQueue, QueueDistinct, InFlightNotQueued
  <2>2. CASE ~(UNCHANGED <<cmdQ, cmdList>> /\ ~Sending')
    <3>1. /\ cmdQ # << >> /\ cmdQ' = Tail(cmdQ)
          /\ cmdList # << >> => cmdList' = Tail(cmdList)
          /\ sendCmd' = Head(cmdQ)
      BY <1>2, <2>2, TakeEffect
    <3>2. ListMirrorsQueue'
      BY <3>1 DEF ListMirrorsQueue
    <3>3. QueueDistinct'
      BY <1>0, <3>1, QueueTail
    <3>4. InFlightNotQueued'
      BY <1>0, <3>1, QueueTail DEF InFlightNotQueued, Queued
    <3>. QED BY <3>2, <3>3, <3>4
  <2>. QED BY <2>1, <2>2
<1>3. CASE UNCHANGED <<cmdQ, cmdList>> /\ (Sending' => Sending /\ sendCmd' = sendCmd)
  BY <1>3 DEF ListMirrorsQueue, QueueDistinct, InFlightNotQueued, Queued
<1>. QED BY <1>1, <1>2, <1>3, StepShape

\* A command becomes live only by being added.
LEMMA LiveStep ==
  ASSUME TypeOK, QueueInv, [Next]_vars
  PROVE  \A d \in Command : Live(d)' => Live(d) \/ (AddCommand(d) /\ ~UNCHANGED vars)
<1> SUFFICES ASSUME NEW d \in Command, Live(d)'
             PROVE  Live(d) \/ (AddCommand(d) /\ ~UNCHANGED vars)
  OBVIOUS
<1>0. cmdQ \in Seq(Command)
  BY DEF TypeOK, QueueType
<1>1. ASSUME NEW c \in Command, AddCommand(c) PROVE Live(d) \/ (AddCommand(d) /\ ~UNCHANGED vars)
  <2>1. CASE UNCHANGED vars
    <3>1. UNCHANGED <<cmdQ, sendCmd, pc>>
      BY <2>1 DEF vars
    <3>. QED BY <3>1 DEF Live, Queued, InFlight, Sending
  <2>2. CASE ~UNCHANGED vars
    <3>1. cmdQ' = Append(cmdQ, c) /\ UNCHANGED <<sendCmd, pc>>
      BY <1>1, <2>2, AddEffect
    <3>2. Queued(d)' <=> Queued(d) \/ d = c
      BY <1>0, <3>1, QueueAppend
    <3>. QED BY <1>1, <2>2, <3>1, <3>2 DEF Live, InFlight, Sending
  <2>. QED BY <2>1, <2>2
<1>2. CASE ReadRecords
  <2>1. CASE UNCHANGED cmdQ /\ ~Sending'
    BY <2>1 DEF Live, InFlight, Queued
  <2>2. CASE cmdQ # << >> /\ cmdQ' = Tail(cmdQ) /\ sendCmd' = Head(cmdQ)
    BY <1>0, <2>2, QueueTail DEF Live, InFlight
  <2>. QED BY <1>2, <2>1, <2>2, TakeEffect
<1>3. CASE UNCHANGED <<cmdQ, cmdList>> /\ (Sending' => Sending /\ sendCmd' = sendCmd)
  BY <1>3 DEF Live, Queued, InFlight
<1>. QED BY <1>1, <1>2, <1>3, StepShape

LEMMA OneDetailsStep == TypeOK /\ QueueInv /\ OneDetails /\ [Next]_vars => OneDetails'
<1> SUFFICES ASSUME TypeOK, QueueInv, OneDetails, [Next]_vars,
                    NEW c \in Details, NEW d \in Details, Live(c)', Live(d)', c # d
             PROVE  FALSE
  BY DEF OneDetails
<1>0. c \in Command /\ d \in Command
  BY CommandAssumption DEF CommandAssumption
\* A "Details" that was added found no other one queued or in flight.
<1>1. ASSUME NEW a \in Details, NEW b \in Details, AddCommand(a), ~UNCHANGED vars
      PROVE  ~Live(b)
  <2>1. ~DuplicateDetails(a)
    BY <1>1, AddEffect, CommandAssumption DEF CommandAssumption
  <2>2. \A i \in 1 .. Len(cmdQ) : cmdQ[i] # b
    BY <1>1, <2>1 DEF DuplicateDetails, SameCommand, QueueInv, ListMirrorsQueue
  <2>3. sendCmd # b
    BY <1>1, <2>1 DEF DuplicateDetails, SameCommand
  <2>. QED BY <2>2, <2>3 DEF Live, Queued, InFlight
<1>2. Live(c) \/ (AddCommand(c) /\ ~UNCHANGED vars)
  BY <1>0, LiveStep
<1>3. Live(d) \/ (AddCommand(d) /\ ~UNCHANGED vars)
  BY <1>0, LiveStep
<1>4. ~(Live(c) /\ Live(d))
  BY DEF OneDetails
<1>5. ASSUME AddCommand(c), AddCommand(d), ~UNCHANGED vars PROVE FALSE
  <2>1. cmdQ' = Append(cmdQ, c) /\ cmdQ' = Append(cmdQ, d)
    BY <1>0, <1>5, AddEffect
  <2>2. cmdQ \in Seq(Command)
    BY DEF TypeOK, QueueType
  <2>3. \A q \in Seq(Command), a \in Command : Append(q, a)[Len(q) + 1] = a
    OBVIOUS
  <2>. QED BY <1>0, <2>1, <2>2, <2>3
<1>. QED BY <1>1, <1>2, <1>3, <1>4, <1>5

-----------------------------------------------------------------------------
(* The budget *)

LEMMA BudgetStep == TypeOK /\ QueueInv /\ BudgetInv /\ [Next]_vars => BudgetInv'
<1> SUFFICES ASSUME TypeOK, QueueInv, BudgetInv, [Next]_vars PROVE BudgetInv'
  OBVIOUS
<1>0. /\ cmdQ \in Seq(Command)
      /\ LoopType
      /\ entries \in [Command -> Nat]
      /\ MaxRetries \in [Command -> Nat]
      /\ Keys \in [Command -> Nat \ {0}]
  BY CommandAssumption DEF TypeOK, QueueType, RecordType, CommandAssumption
<1>q. Sending => ~Queued(sendCmd)
  BY DEF QueueInv, InFlightNotQueued
<1> USE DEF BudgetInv, EntriesBounded, BudgetPaid, LastKeyToCome, LoopType, Sending
<1>1. ASSUME NEW c \in Command, AddCommand(c) PROVE BudgetInv'
  <2>1. CASE UNCHANGED vars
    <3>1. UNCHANGED <<cmdQ, sendCmd, pc, key, retries, entries>>
      BY <2>1 DEF vars, loopVars, history
    <3>. QED BY <3>1 DEF Queued
  <2>2. CASE ~UNCHANGED vars
    <3>1. /\ ~Live(c)
          /\ cmdQ' = Append(cmdQ, c)
          /\ entries' = [entries EXCEPT ![c] = 0]
          /\ UNCHANGED <<sendCmd, pc, key, retries>>
      BY <1>1, <2>2, AddEffect
    <3>2. \A d \in Command : Queued(d)' <=> Queued(d) \/ d = c
      BY <1>0, <3>1, QueueAppend
    <3>3. Sending => sendCmd # c
      BY <3>1 DEF Live, InFlight
    <3>. QED BY <1>0, <3>1, <3>2, <3>3
  <2>. QED BY <2>1, <2>2
<1>2. CASE ReadRecords
  <2>1. CASE cmdQ' = cmdQ
    <3>1. ~Sending' /\ entries' = entries
      BY <1>0, <1>2, <2>1, TakeEffect
    <3>. QED BY <2>1, <3>1 DEF Queued
  <2>2. CASE cmdQ' # cmdQ
    <3>1. /\ cmdQ # << >> /\ cmdQ' = Tail(cmdQ)
          /\ sendCmd' = Head(cmdQ) /\ pc' = "write"
          /\ retries' = MaxRetries[Head(cmdQ)]
          /\ entries' = entries
      BY <1>2, <2>2, TakeEffect
    <3>2. /\ Head(cmdQ) \in Command
          /\ Queued(Head(cmdQ))
          /\ \A d \in Command : Queued(d)' => Queued(d)
      BY <1>0, <3>1, QueueTail
    <3>. QED BY <1>0, <3>1, <3>2
  <2>. QED BY <2>1, <2>2
<1>3. CASE UNCHANGED <<cmdQ, entries>> /\ ~Sending'
  BY <1>3 DEF Queued
<1>4. CASE UNCHANGED <<cmdQ, entries, sendCmd, pc, key, retries>>
  BY <1>4 DEF Queued
<1>5. CASE WriteKey
  <2>1. /\ UNCHANGED <<cmdQ, sendCmd, key, retries>>
        /\ pc = "write" /\ pc' = "ack"
        /\ entries' = IF key = Keys[sendCmd]
                      THEN [entries EXCEPT ![sendCmd] = @ + 1] ELSE entries
    BY <1>5 DEF WriteKey
  <2>2. \A d \in Command : Queued(d)' <=> Queued(d)
    BY <2>1 DEF Queued
  <2>. QED BY <1>0, <1>q, <2>1, <2>2
<1>6. CASE KeyAcknowledged
  <2>1. UNCHANGED <<cmdQ, entries>>
    BY <1>6 DEF KeyAcknowledged
  <2>2. \A d \in Command : Queued(d)' <=> Queued(d)
    BY <2>1 DEF Queued
  <2>. QED BY <1>0, <1>6, <2>1, <2>2 DEF KeyAcknowledged, Finish
<1>7. CASE KeyNotAcknowledged
  <2>1. UNCHANGED <<cmdQ, entries>>
    BY <1>7 DEF KeyNotAcknowledged, history
  <2>2. \A d \in Command : Queued(d)' <=> Queued(d)
    BY <2>1 DEF Queued
  <2>. QED BY <1>0, <1>7, <2>1, <2>2 DEF KeyNotAcknowledged, AttemptFails, Finish
<1>8. CASE CompletionNotRead
  <2>1. UNCHANGED <<cmdQ, entries>>
    BY <1>8 DEF CompletionNotRead, history
  <2>2. \A d \in Command : Queued(d)' <=> Queued(d)
    BY <2>1 DEF Queued
  <2>. QED BY <1>0, <1>8, <2>1, <2>2 DEF CompletionNotRead, AttemptFails, Finish
<1>9. Exit \/ WriteFails \/ ReadRaises \/ CompletionRead
         => UNCHANGED <<cmdQ, entries>> /\ ~Sending'
  BY DEF Exit, WriteFails, ReadRaises, Abandon, CompletionRead, Finish, history
<1>10. ASSUME NEW c \in Command, CallerResumes(c)
       PROVE  UNCHANGED <<cmdQ, entries, sendCmd, pc, key, retries>>
  BY <1>10 DEF CallerResumes, loopVars, history
<1>11. (ReconcileDevices \/ Shutdown \/ ShutdownDisconnects \/ Reconnect
          \/ PortLost \/ TopReadRaises \/ UNCHANGED vars)
         => UNCHANGED <<cmdQ, entries, sendCmd, pc, key, retries>>
  BY DEF ReconcileDevices, Shutdown, ShutdownDisconnects, Reconnect, PortLost, TopReadRaises,
         vars, loopVars, history
<1>. QED
  BY <1>1, <1>2, <1>3, <1>4, <1>5, <1>6, <1>7, <1>8, <1>9, <1>10, <1>11 DEF Next, Loop

-----------------------------------------------------------------------------
(* Outcomes *)

\* The command in flight is no longer live once nothing is in flight.
LEMMA FinishedNotLive ==
  ASSUME QueueInv, Sending, UNCHANGED cmdQ, ~Sending'
  PROVE  \A d \in Command : Live(d)' => Live(d) /\ d # sendCmd
BY DEF QueueInv, InFlightNotQueued, Live, Queued, InFlight

LEMMA OutcomeStep == TypeOK /\ QueueInv /\ OutcomeInv /\ [Next]_vars => OutcomeInv'
<1> SUFFICES ASSUME TypeOK, QueueInv, OutcomeInv, [Next]_vars PROVE OutcomeInv'
  OBVIOUS
<1>0. /\ LoopType
      /\ RecordType
      /\ Completion \subseteq Command
  BY CommandAssumption DEF TypeOK, CommandAssumption
<1>l. \A d \in Command : Live(d)' => Live(d) \/ (AddCommand(d) /\ ~UNCHANGED vars)
  BY LiveStep
<1>f. \A d \in Command : InFlight(d) => Live(d)
  BY DEF Live
<1> USE DEF OutcomeInv, DoneNotResent, CompletionAwaited, LiveNotFailed, FailureIsTruthful
<1> USE DEF LoopType, RecordType
<1>1. ASSUME NEW c \in Command, AddCommand(c), ~UNCHANGED vars PROVE OutcomeInv'
  <2>1. /\ answer' = [answer EXCEPT ![c] = "none"]
        /\ caller' = [caller EXCEPT ![c] = IF c \in Waited THEN "waiting" ELSE "idle"]
        /\ acked' = [acked EXCEPT ![c] = FALSE]
        /\ completed' = [completed EXCEPT ![c] = FALSE]
        /\ UNCHANGED <<sendCmd, pc>>
        /\ ~Live(c)
    BY <1>1, AddEffect
  <2>2. \A d \in Command : Live(d)' => Live(d) \/ d = c
    <3>1. cmdQ \in Seq(Command) /\ cmdQ' = Append(cmdQ, c)
      BY <1>1, AddEffect DEF TypeOK, QueueType
    <3>2. \A d \in Command : Queued(d)' <=> Queued(d) \/ d = c
      BY <3>1, QueueAppend
    <3>. QED BY <2>1, <3>2 DEF Live, InFlight, Sending
  <2>3. DoneNotResent' /\ LiveNotFailed' /\ FailureIsTruthful'
    BY <1>0, <2>1, <2>2
  <2>4. CompletionAwaited'
    BY <1>0, <2>1 DEF Live, InFlight, Sending
  <2>. QED BY <2>3, <2>4
<1> DEFINE NoneAdded == \A d \in Command : Live(d)' => Live(d)
<1>2. CASE NoneAdded /\ UNCHANGED <<answer, caller, acked, completed>> /\ pc' # "complete"
  BY <1>0, <1>2
<1>3. CASE NoneAdded /\ UNCHANGED <<answer, caller, acked, completed, sendCmd, pc>>
  BY <1>0, <1>3
<1>4. CASE NoneAdded /\ \E c \in Command : CallerResumes(c)
  <2>1. PICK c \in Command : CallerResumes(c)
    BY <1>4
  <2>2. /\ caller' = [caller EXCEPT ![c] = answer[c]]
        /\ UNCHANGED <<answer, acked, completed, sendCmd, pc>>
    BY <2>1 DEF CallerResumes, history
  <2>. QED BY <1>0, <1>4, <2>2
<1>5. CASE NoneAdded /\ KeyAcknowledged
  <2>1. pc = "ack" /\ UNCHANGED caller
    BY <1>5 DEF KeyAcknowledged
  <2>2. CASE key < Keys[sendCmd]
    <3>1. UNCHANGED <<answer, acked, completed>> /\ pc' = "write"
      BY <1>5, <2>2 DEF KeyAcknowledged
    <3>. QED BY <1>2, <1>5, <2>1, <3>1
  <2>3. CASE ~(key < Keys[sendCmd]) /\ sendCmd \in Completion
    <3>1. /\ UNCHANGED <<answer, completed, sendCmd>>
          /\ acked' = [acked EXCEPT ![sendCmd] = TRUE]
      BY <1>5, <2>3 DEF KeyAcknowledged
    <3>. QED BY <1>0, <1>5, <2>1, <2>3, <3>1
  <2>4. CASE ~(key < Keys[sendCmd]) /\ sendCmd \notin Completion
    <3>1. /\ completed' = [completed EXCEPT ![sendCmd] = TRUE]
          /\ acked' = [acked EXCEPT ![sendCmd] = TRUE]
          /\ answer' = [answer EXCEPT ![sendCmd] = "true"]
          /\ pc' = "top"
      BY <1>5, <2>4 DEF KeyAcknowledged, Confirm, Finish
    <3>2. sendCmd \in Command /\ Live(sendCmd)
      BY <1>0, <2>1 DEF Sending, Live, InFlight
    <3>3. \A d \in Command : Live(d)' => Live(d) /\ d # sendCmd
      BY <1>5, <2>1, <3>1, FinishedNotLive DEF Sending, KeyAcknowledged
    <3>. QED BY <1>0, <2>1, <3>1, <3>2, <3>3
  <2>. QED BY <2>2, <2>3, <2>4
<1>6. CASE NoneAdded /\ CompletionRead
  <2>1. /\ completed' = [completed EXCEPT ![sendCmd] = TRUE]
        /\ answer' = [answer EXCEPT ![sendCmd] = "true"]
        /\ pc = "complete" /\ pc' = "top"
        /\ UNCHANGED <<cmdQ, caller, acked>>
    BY <1>6 DEF CompletionRead, Confirm, Finish
  <2>2. sendCmd \in Command /\ Live(sendCmd)
    BY <1>0, <2>1 DEF Sending, Live, InFlight
  <2>3. \A d \in Command : Live(d)' => Live(d) /\ d # sendCmd
    BY <2>1, FinishedNotLive DEF Sending
  <2>. QED BY <1>0, <2>1, <2>2, <2>3
<1>7. CASE NoneAdded /\ (KeyNotAcknowledged \/ CompletionNotRead)
  <2>1. /\ Sending
        /\ UNCHANGED <<cmdQ, caller, acked, completed>>
        /\ \/ UNCHANGED <<answer, sendCmd, pc>>
           \/ /\ answer' = [answer EXCEPT ![sendCmd] = "false"]
              /\ pc' = "top"
           \/ /\ answer' \in {answer, [answer EXCEPT ![sendCmd] = "true"]}
              /\ pc' = "write" /\ sendCmd' = sendCmd
    BY <1>7 DEF KeyNotAcknowledged, CompletionNotRead, AttemptFails, Confirm, Finish,
                Sending, history
  <2>2. sendCmd \in Command /\ Live(sendCmd)
    BY <1>0, <2>1 DEF Live, InFlight
  <2>3. CASE answer' = [answer EXCEPT ![sendCmd] = "false"] /\ pc' = "top"
    <3>1. \A d \in Command : Live(d)' => Live(d) /\ d # sendCmd
      BY <2>1, <2>3, FinishedNotLive DEF Sending
    <3>. QED BY <1>0, <2>1, <2>2, <2>3, <3>1
  <2>4. CASE UNCHANGED <<answer, sendCmd, pc>>
    BY <1>3, <1>7, <2>1, <2>4
  <2>5. CASE /\ answer' \in {answer, [answer EXCEPT ![sendCmd] = "true"]}
             /\ pc' = "write"
    BY <1>0, <1>7, <2>1, <2>2, <2>5
  <2>. QED BY <2>1, <2>3, <2>4, <2>5
<1>8. Exit \/ WriteKey \/ WriteFails \/ ReadRaises \/ ReadRecords
        => UNCHANGED <<answer, caller, acked, completed>> /\ pc' # "complete"
  BY <1>0 DEF Exit, WriteKey, WriteFails, ReadRaises, Abandon, ReadRecords, TakeCommand, history
<1>9. (ReconcileDevices \/ Shutdown \/ ShutdownDisconnects \/ Reconnect
         \/ PortLost \/ TopReadRaises \/ UNCHANGED vars)
        => UNCHANGED <<answer, caller, acked, completed, sendCmd, pc>>
  BY DEF ReconcileDevices, Shutdown, ShutdownDisconnects, Reconnect, PortLost, TopReadRaises,
         vars, history
<1>10. NoneAdded \/ \E c \in Command : AddCommand(c) /\ ~UNCHANGED vars
  BY <1>l
<1>11. \/ \E c \in Command : AddCommand(c) /\ ~UNCHANGED vars
       \/ NoneAdded /\ Loop
       \/ NoneAdded /\ \E c \in Command : CallerResumes(c)
       \/ NoneAdded /\ (ReconcileDevices \/ PortLost)
       \/ NoneAdded /\ (Shutdown \/ ShutdownDisconnects)
       \/ NoneAdded /\ UNCHANGED vars
  BY <1>10 DEF Next
<1>. QED
  BY <1>1, <1>2, <1>3, <1>4, <1>5, <1>6, <1>7, <1>8, <1>9, <1>11 DEF Loop

-----------------------------------------------------------------------------
(* The theorems *)

LEMMA InvInit == Init => IInv
<1> SUFFICES ASSUME Init PROVE IInv
  OBVIOUS
<1>1. /\ cmdQ = << >> /\ cmdList = << >> /\ pc = "top"
      /\ answer = [c \in Command |-> "none"] /\ caller = [c \in Command |-> "idle"]
      /\ entries = [c \in Command |-> 0]
  BY DEF Init
<1>2. ~Sending /\ \A c \in Command : ~Live(c)
  BY <1>1 DEF Sending, Live, Queued, InFlight
<1>3. QueueInv
  BY <1>1, <1>2 DEF QueueInv, ListMirrorsQueue, QueueDistinct, InFlightNotQueued
<1>4. BudgetInv
  BY <1>1, <1>2, CommandAssumption DEF CommandAssumption, BudgetInv, EntriesBounded, BudgetPaid, Live
<1>5. OutcomeInv
  BY <1>1, <1>2 DEF OutcomeInv, DoneNotResent, CompletionAwaited, LiveNotFailed, FailureIsTruthful
<1>6. OneDetails
  BY <1>2, CommandAssumption DEF CommandAssumption, OneDetails
<1>. QED BY TypeInit, <1>3, <1>4, <1>5, <1>6 DEF IInv

\* The invariant the other theorems rest on: the queue holds no command twice and none
\* that is in flight, every attempt still to be made is paid for by the budget, and a
\* live command is neither done nor reported as failed (jablotron.py:753-772, 824-897).
THEOREM Invariance == Spec => []IInv
BY InvInit, TypeStep, QueueStep, BudgetStep, OutcomeStep, OneDetailsStep, PTL DEF Spec, IInv

\* The list that is searched for duplicates is the queue (jablotron.py:753-772).
THEOREM ListIsQueue == Spec => []ListMirrorsQueue
<1>1. IInv => ListMirrorsQueue
  BY DEF IInv, QueueInv
<1>. QED BY <1>1, Invariance, PTL

\* At most one "Details" is queued or in flight (jablotron.py:753-763).
THEOREM OneDetailsAtATime == Spec => []OneDetails
<1>1. IInv => OneDetails
  BY DEF IInv
<1>. QED BY <1>1, Invariance, PTL

\* No command's key sequence is entered more often than its budget allows, whatever is
\* lost or fails (jablotron.py:824-894).
THEOREM EntriesWithinBudget == Spec => []EntriesBounded
<1>1. IInv => EntriesBounded
  BY DEF IInv, BudgetInv
<1>. QED BY <1>1, Invariance, PTL

\* An accepted sequence without a completion, or a completed one, is not sent again
\* (jablotron.py:856-887).
THEOREM DoneIsNotResent == Spec => []DoneNotResent
<1>1. IInv => DoneNotResent
  BY DEF IInv, OutcomeInv
<1>. QED BY <1>1, Invariance, PTL

\* Failure is never reported for a command that succeeded (jablotron.py:889-894).
THEOREM FailureTruthful == Spec => []FailureIsTruthful
<1>1. IInv => FailureIsTruthful
  BY DEF IInv, OutcomeInv
<1>. QED BY <1>1, Invariance, PTL
=============================================================================
