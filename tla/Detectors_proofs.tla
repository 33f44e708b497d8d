-------------------------- MODULE Detectors_proofs --------------------------
(***************************************************************************)
(* Proofs about Detectors, for any set of detectors and any timeout.  What *)
(* the safety properties need is that the round's set is exactly the       *)
(* devices named since the last reconciliation (RoundIsNamed).             *)
(***************************************************************************)
EXTENDS Detectors, TLAPS

\* The devices put into the current round are those with no reconciliation since
\* they were last named.
RoundIsNamed == \A d \in Device : d \in round <=> missed[d] = 0

IInv == TypeOK /\ TrackedIsRegistered /\ RoundIsNamed /\ ActiveWithinARound

\* What a record names is a device, and the flag it carries is a flag.
LEMMA RecordFacts ==
  ASSUME NEW r \in Record
  PROVE  Named(r) \subseteq Device /\ r.disarmed \in BOOLEAN
BY DEF Record, Named

\* What an unskipped state report does to the detection state, without and with a
\* reconciliation at its end.
LEMMA PlainEffect ==
  ASSUME NEW r \in Record, ProcessState(r), ~updateDevices
  PROVE  /\ registry' = registry \cup Named(r)
         /\ round' = round \cup Named(r)
         /\ active' = Cleared(r) \cup Named(r)
         /\ missed' = [d \in Device |-> IF d \in Named(r) THEN 0 ELSE missed[d]]
BY DEF ProcessState, Activate, UpdateDevice, Counted

LEMMA ReconcilingEffect ==
  ASSUME NEW r \in Record, ProcessState(r), updateDevices
  PROVE  /\ registry' = registry \cup Named(r)
         /\ round' = {}
         /\ active' = (((Cleared(r) \cup Named(r)) \ (registry \cup Named(r)))
                        \cup ((round \cup Named(r)) \cap (registry \cup Named(r))))
         /\ missed' = [d \in Device |-> IF d \in Named(r) THEN 1
                        ELSE IF missed[d] < 2 THEN missed[d] + 1 ELSE missed[d]]
BY DEF ProcessState, Activate, UpdateDevice, Reconciled, CountedRound

\* What an unskipped event does to the detection state.
LEMMA EventEffect ==
  ASSUME NEW r \in Record, ProcessEvent(r), lastEvent # r
  PROVE  /\ registry' = registry \cup Named(r)
         /\ round' = round \cup Named(r)
         /\ active' \subseteq active \cup Named(r)
         /\ missed' = [d \in Device |-> IF d \in Named(r) THEN 0 ELSE missed[d]]
BY DEF ProcessEvent, Counted, Cleared

-----------------------------------------------------------------------------
(* The inductive invariant *)

LEMMA InitIInv == Init => IInv
<1> SUFFICES ASSUME Init PROVE IInv  OBVIOUS
<1>1. RecordType /\ SetType  BY DEF Init, RecordType, SetType
<1>2. FlagType  BY DEF Init, FlagType
<1>3. CountType  BY DEF Init, CountType
<1>4. TrackedIsRegistered /\ RoundIsNamed /\ ActiveWithinARound
  BY DEF Init, TrackedIsRegistered, RoundIsNamed, ActiveWithinARound
<1>5. QED  BY <1>1, <1>2, <1>3, <1>4 DEF IInv, TypeOK

LEMMA RecordTypeStep == TypeOK /\ [Next]_vars => RecordType'
BY DEF TypeOK, RecordType, Next, vars, records, Process, ProcessState, ProcessEvent,
       Tick, Sweep, ManualQuery, QueryAcknowledged, QueryLost

LEMMA FlagTypeStep == TypeOK /\ [Next]_vars => FlagType'
<1>1. CASE \E r \in Record : Process(r)
  <2>1. PICK r \in Record : Process(r)  BY <1>1
  <2>2. r.disarmed \in BOOLEAN  BY RecordFacts
  <2>3. CASE ProcessState(r) /\ UNCHANGED sweepDue
    BY <2>2, <2>3 DEF ProcessState, SendDeviceQuery, UpdateDevice, TypeOK, FlagType
  <2>4. CASE UNCHANGED <<display, query, updateDevices, sweepDue>>
    BY <2>4 DEF display, TypeOK, FlagType
  <2>5. QED  BY <2>1, <2>3, <2>4 DEF Process, ProcessEvent
<1>2. CASE UNCHANGED vars
  BY <1>2 DEF vars, display, TypeOK, FlagType
<1>3. QED
  BY <1>1, <1>2 DEF Next, Tick, Sweep, ManualQuery, QueryAcknowledged, QueryLost,
                    TypeOK, FlagType, display

LEMMA SetTypeStep == TypeOK /\ [Next]_vars => SetType'
<1> SUFFICES ASSUME TypeOK, [Next]_vars PROVE SetType'  OBVIOUS
<1> USE DEF TypeOK, SetType
<1>1. CASE \E r \in Record : Process(r)
  <2>1. PICK r \in Record : Process(r)  BY <1>1
  <2>2. Named(r) \subseteq Device  BY RecordFacts
  <2>3. CASE ProcessState(r)
    <3>1. text' \in {"other", "bare", "named"}
      BY <2>3 DEF ProcessState, TextsAfter
    <3>2. Cleared(r) \subseteq Device  BY DEF Cleared
    <3>3. CASE updateDevices  BY <2>2, <2>3, <3>1, <3>2, <3>3, ReconcilingEffect
    <3>4. CASE ~updateDevices  BY <2>2, <2>3, <3>1, <3>2, <3>4, PlainEffect
    <3>5. QED  BY <3>3, <3>4
  <2>4. CASE ProcessEvent(r) /\ lastEvent # r
    BY <2>2, <2>4, EventEffect DEF ProcessEvent, display
  <2>5. CASE UNCHANGED <<display, detection>>
    BY <2>5 DEF display, detection
  <2>6. QED  BY <2>1, <2>3, <2>4, <2>5 DEF Process, ProcessEvent
<1>2. CASE UNCHANGED vars
  BY <1>2 DEF vars, display, detection
<1>3. CASE Tick \/ Sweep
  BY <1>3 DEF Tick, Sweep, display
<1>4. CASE ManualQuery \/ QueryAcknowledged \/ QueryLost
  BY <1>4 DEF ManualQuery, QueryAcknowledged, QueryLost, display, detection
<1>5. QED  BY <1>1, <1>2, <1>3, <1>4 DEF Next

LEMMA CountTypeStep == TypeOK /\ [Next]_vars => CountType'
<1> SUFFICES ASSUME TypeOK, [Next]_vars PROVE CountType'  OBVIOUS
<1> USE DEF TypeOK, CountType
<1>1. CASE \E r \in Record : Process(r)
  <2>1. PICK r \in Record : Process(r)  BY <1>1
  <2>2. CASE ProcessState(r)
    <3>1. age' \in [Device -> Nat]  BY <2>2 DEF ProcessState, Activate
    <3>2. CASE updateDevices  BY <2>2, <3>1, <3>2, ReconcilingEffect
    <3>3. CASE ~updateDevices  BY <2>2, <3>1, <3>3, PlainEffect
    <3>4. QED  BY <3>2, <3>3
  <2>3. CASE ProcessEvent(r) /\ lastEvent # r
    <3>1. age' \in [Device -> Nat]  BY <2>3 DEF ProcessEvent
    <3>2. missed' \in [Device -> Nat]  BY <2>3, EventEffect
    <3>3. QED  BY <3>1, <3>2
  <2>4. CASE UNCHANGED <<detection, missed>>
    BY <2>4 DEF detection
  <2>5. QED  BY <2>1, <2>2, <2>3, <2>4 DEF Process, ProcessEvent
<1>2. CASE UNCHANGED vars
  BY <1>2 DEF vars, detection
<1>3. CASE Tick
  BY <1>3 DEF Tick
<1>4. CASE Sweep
  BY <1>4 DEF Sweep
<1>5. CASE ManualQuery \/ QueryAcknowledged \/ QueryLost
  BY <1>5 DEF ManualQuery, QueryAcknowledged, QueryLost, detection
<1>6. QED  BY <1>1, <1>2, <1>3, <1>4, <1>5 DEF Next

\* The parts about the round, for a step that processes a state report.
LEMMA StateKeepsRound ==
  ASSUME IInv, NEW r \in Record, ProcessState(r)
  PROVE  TrackedIsRegistered' /\ RoundIsNamed' /\ ActiveWithinARound'
<1> USE DEF IInv, TypeOK, SetType, CountType, TrackedIsRegistered, RoundIsNamed,
            ActiveWithinARound
<1>1. Named(r) \subseteq Device  BY RecordFacts
<1>2. Cleared(r) \subseteq active  BY DEF Cleared
<1>3. CASE updateDevices
  <2>1. active' \subseteq round \cup Named(r)  BY <1>2, <1>3, ReconcilingEffect
  <2>2. \A d \in Device : missed'[d] # 0  BY <1>3, ReconcilingEffect
  <2>3. \A d \in round \cup Named(r) : missed'[d] = 1  BY <1>1, <1>3, ReconcilingEffect
  <2>4. QED  BY <1>1, <1>3, <2>1, <2>2, <2>3, ReconcilingEffect
<1>4. CASE ~updateDevices
  <2>1. missed' = [d \in Device |-> IF d \in Named(r) THEN 0 ELSE missed[d]]
    BY <1>4, PlainEffect
  <2>2. QED  BY <1>1, <1>2, <1>4, <2>1, PlainEffect
<1>5. QED  BY <1>3, <1>4

LEMMA EventKeepsRound ==
  ASSUME IInv, NEW r \in Record, ProcessEvent(r), lastEvent # r
  PROVE  TrackedIsRegistered' /\ RoundIsNamed' /\ ActiveWithinARound'
BY RecordFacts, EventEffect
   DEF IInv, TypeOK, SetType, CountType, TrackedIsRegistered, RoundIsNamed,
       ActiveWithinARound

LEMMA RoundStep ==
  IInv /\ [Next]_vars => TrackedIsRegistered' /\ RoundIsNamed' /\ ActiveWithinARound'
<1> SUFFICES ASSUME IInv, [Next]_vars
             PROVE  TrackedIsRegistered' /\ RoundIsNamed' /\ ActiveWithinARound'
  OBVIOUS
<1>1. CASE UNCHANGED <<active, registry, round, missed>>
  BY <1>1 DEF IInv, TrackedIsRegistered, RoundIsNamed, ActiveWithinARound
<1>2. CASE \E r \in Record : Process(r)
  <2>1. PICK r \in Record : Process(r)  BY <1>2
  <2>2. CASE ProcessState(r)  BY <2>2, StateKeepsRound
  <2>3. CASE ProcessEvent(r) /\ lastEvent # r  BY <2>3, EventKeepsRound
  <2>4. CASE UNCHANGED <<detection, missed>>  BY <1>1, <2>4 DEF detection
  <2>5. QED  BY <2>1, <2>2, <2>3, <2>4 DEF Process, ProcessEvent
<1>3. CASE Sweep
  <2>1. active' \subseteq active /\ UNCHANGED <<registry, round, missed>>
    BY <1>3 DEF Sweep
  <2>2. QED
    BY <2>1 DEF IInv, TrackedIsRegistered, RoundIsNamed, ActiveWithinARound
<1>4. CASE Tick \/ ManualQuery \/ QueryAcknowledged \/ QueryLost \/ UNCHANGED vars
  BY <1>1, <1>4 DEF Tick, ManualQuery, QueryAcknowledged, QueryLost, vars, detection
<1>5. QED  BY <1>2, <1>3, <1>4 DEF Next

\* The inductive invariant holds of every behaviour.
THEOREM Invariance == Spec => []IInv
<1>1. IInv /\ [Next]_vars => IInv'
  BY RecordTypeStep, FlagTypeStep, SetTypeStep, CountTypeStep, RoundStep DEF IInv, TypeOK
<1>2. QED  BY InitIInv, <1>1, PTL DEF Spec

-----------------------------------------------------------------------------
(* The results *)

\* The detection state stays well typed: only devices are ever tracked, whatever
\* records arrive.
THEOREM TypeCorrect == Spec => []TypeOK
<1>1. IInv => TypeOK  BY DEF IInv
<1>2. QED  BY <1>1, Invariance, PTL

\* Every device that is or will be shown as active can be turned off: the clear, the
\* reconciliation and the sweep all walk the registry.
THEOREM EveryTrackedIsRegistered == Spec => []TrackedIsRegistered
<1>1. IInv => TrackedIsRegistered  BY DEF IInv
<1>2. QED  BY <1>1, Invariance, PTL

\* A detector that a whole round has not named is inactive.
THEOREM OffAfterAMissedRound == Spec => []ActiveWithinARound
<1>1. IInv => ActiveWithinARound  BY DEF IInv
<1>2. QED  BY <1>1, Invariance, PTL
=============================================================================
