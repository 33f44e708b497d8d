----------------------------- MODULE SavedDisarm -----------------------------
(***************************************************************************)
(* Disarming with a saved code: UserCodeManager.async_disarm               *)
(* (user_codes.py) and the WebSocket command that calls it                 *)
(* (user_code_api.py).  Requests of several accounts take turns at a       *)
(* panel's lock; the one whose turn it is fetches its code, looks at the   *)
(* panel, is checked against the limits, and queues the code.              *)
(*                                                                         *)
(* The one await inside the lock that suspends is the executor job that    *)
(* decodes the code or reads the key: add_command only puts into an        *)
(* unbounded queue.  What follows the job is one step.                     *)
(*                                                                         *)
(* attempts is a list in the order of a monotonic clock and its members    *)
(* differ, so it is a set here; its last member is its greatest.  The      *)
(* outcome of _resolve (account, permission, entity, integration, store)   *)
(* and what the panel shows are free at each look.                         *)
(***************************************************************************)
EXTENDS Naturals, Sequences, FiniteSets

CONSTANTS
  Panel,     \* the control units (config entries)
  Account,   \* accounts, each with at most one request at a time
  Gap,       \* least time between two attempts (15 s)
  Window,    \* how long an attempt counts (300 s)
  Limit,     \* attempts that may count at a time (3)
  MaxTime,   \* bound: the clock
  None       \* Python's None

ASSUME LimitAssumption ==
  /\ Gap \in Nat \ {0}
  /\ Window \in Nat \ {0}
  /\ Limit \in Nat \ {0}
  /\ Gap <= Window

ASSUME ClockAssumption == MaxTime \in Nat

ASSUME NoneAssumption == None \notin Panel

VARIABLES
  now,       \* time.monotonic()
  options,   \* per panel, what cu._options says of disarming
  saved,     \* per panel, the accounts with a code in _codes
  line,      \* per panel, who holds or waits for the lock (an asyncio.Lock is fair)
  attempts,  \* _attempts
  pc,        \* per account, where its request is suspended
  target,    \* per account, the panel of its request
  code,      \* per account, the code the executor job will return
  answer,    \* per account, the answer to its last request
  given      \* history: per panel, when codes were queued since the start

requests == <<pc, target, code, answer>>
vars == <<now, options, saved, line, attempts, requests, given>>

\* "personal": each account its own code.  In common mode "manual": a code must be
\* entered; "common": the master code, unencrypted; "keyed": the same, encrypted.
Options == {"personal", "manual", "common", "keyed"}
Code == {"own", "master", "none"}
Answer == {"none", "sent", "idle", "error", "pending", "limited"}

TimeType ==
  /\ now \in Nat
  /\ attempts \in [Panel -> SUBSET (0 .. now)]
  /\ given \in [Panel -> SUBSET (0 .. now)]

RequestType ==
  /\ pc \in [Account -> {"idle", "waiting", "reading"}]
  /\ target \in [Account -> Panel \cup {None}]
  /\ \A a \in Account : pc[a] # "idle" => target[a] \in Panel
  /\ code \in [Account -> Code]
  /\ answer \in [Account -> Answer]

PanelType ==
  /\ options \in [Panel -> Options]
  /\ saved \in [Panel -> SUBSET Account]

LineType == line \in [Panel -> Seq(Account)]

TypeOK == TimeType /\ RequestType /\ PanelType /\ LineType

Init ==
  /\ now = 0
  /\ options \in [Panel -> Options]
  /\ saved \in [Panel -> SUBSET Account]
  /\ line = [p \in Panel |-> <<>>]
  /\ attempts = [p \in Panel |-> {}]
  /\ pc = [a \in Account |-> "idle"]
  /\ target = [a \in Account |-> None]
  /\ code = [a \in Account |-> "none"]
  /\ answer = [a \in Account |-> "none"]
  /\ given = [p \in Panel |-> {}]

-----------------------------------------------------------------------------
(* Requests *)

\* A request arrives.  The first _resolve refuses it, or it lines up for the lock.
Request(a, p) ==
  /\ pc[a] = "idle"
  /\ \/ /\ answer' = [answer EXCEPT ![a] = "error"]
        /\ UNCHANGED <<pc, target, line>>
     \/ /\ pc' = [pc EXCEPT ![a] = "waiting"]
        /\ target' = [target EXCEPT ![a] = p]
        /\ line' = [line EXCEPT ![p] = Append(@, a)]
        /\ answer' = [answer EXCEPT ![a] = "none"]
  /\ UNCHANGED <<now, options, saved, attempts, code, given>>

HasTurn(a) == line[target[a]] # <<>> /\ Head(line[target[a]]) = a

\* (mutant) the lock is released by hand, at the end of the handler only: an error skips it.
LeaveByHand(a, reply) ==
  /\ pc' = [pc EXCEPT ![a] = "idle"]
  /\ target' = [target EXCEPT ![a] = None]
  /\ code' = [code EXCEPT ![a] = "none"]
  /\ answer' = [answer EXCEPT ![a] = reply]
  /\ line' = [line EXCEPT ![target[a]] = IF reply = "error" THEN @ ELSE Tail(@)]

\* (mutant) the handler answers and goes on.
LeaveAndGoOn(a, reply) ==
  /\ target' = [target EXCEPT ![a] = None]
  /\ code' = [code EXCEPT ![a] = "none"]
  /\ answer' = [answer EXCEPT ![a] = reply]
  /\ line' = [line EXCEPT ![target[a]] = Tail(@)]
  /\ UNCHANGED pc

\* The handler returns or raises: the lock goes to the next in line.
Leave(a, reply) ==
  /\ pc' = [pc EXCEPT ![a] = "idle"]
  /\ target' = [target EXCEPT ![a] = None]
  /\ code' = [code EXCEPT ![a] = "none"]
  /\ answer' = [answer EXCEPT ![a] = reply]
  /\ line' = [line EXCEPT ![target[a]] = Tail(@)]

\* (mutant) old attempts are never dropped.
RecentKeepsAll(p) == attempts[p]

\* The attempts that still count.
Recent(p) == {t \in attempts[p] : now - t < Window}

\* (mutant) the list is replaced by the new attempt.
SendForgetting(p) ==
  /\ attempts' = [attempts EXCEPT ![p] = {now}]
  /\ given' = [given EXCEPT ![p] = @ \cup {now}]

\* cu.disarm puts the code into the serial queue, after the attempt is noted.
Send(p) ==
  /\ attempts' = [attempts EXCEPT ![p] = Recent(p) \cup {now}]
  /\ given' = [given EXCEPT ![p] = @ \cup {now}]

NothingSent == UNCHANGED <<attempts, given>>

\* From the check of the code to the end of async_disarm.
Decide(a, c) ==
  LET p == target[a]
      tooSoon == \E t \in Recent(p) : now - t < Gap
      tooMany == Cardinality(Recent(p)) >= Limit
  IN \/ c = "none" /\ Leave(a, "error") /\ NothingSent
     \* The panel is unavailable or in service, or its state is not known.
     \/ c # "none" /\ Leave(a, "error") /\ NothingSent
     \* It is disarmed or disarming.
     \/ c # "none" /\ Leave(a, "idle") /\ NothingSent
     \/ c # "none" /\ tooSoon /\ Leave(a, "pending") /\ NothingSent
     \/ c # "none" /\ ~tooSoon /\ tooMany /\ Leave(a, "limited") /\ NothingSent
     \/ c # "none" /\ ~tooSoon /\ ~tooMany /\ Leave(a, "sent") /\ Send(p)

\* The lock is acquired.  The second _resolve may refuse; the options decide where the
\* code comes from.  The personal code is looked up before the job starts.
Turn(a) ==
  /\ pc[a] = "waiting" /\ HasTurn(a)
  /\ LET p == target[a]
         Fetch(c) == /\ pc' = [pc EXCEPT ![a] = "reading"]
                     /\ code' = [code EXCEPT ![a] = c]
                     /\ UNCHANGED <<line, target, answer>> /\ NothingSent
     IN \/ Leave(a, "error") /\ NothingSent
        \/ options[p] = "personal" /\ Fetch(IF a \in saved[p] THEN "own" ELSE "none")
        \/ options[p] = "manual" /\ Leave(a, "error") /\ NothingSent
        \/ options[p] = "keyed" /\ Fetch("master")
        \/ options[p] = "common" /\ Decide(a, "master")
  /\ UNCHANGED <<now, options, saved>>

\* The executor job ends: it raises, or the request goes on with the code.
CodeRead(a) ==
  /\ pc[a] = "reading"
  /\ \/ Leave(a, "error") /\ NothingSent
     \/ Decide(a, code[a])
  /\ UNCHANGED <<now, options, saved>>

-----------------------------------------------------------------------------
(* What happens around them *)

\* The user saves or removes a code: the assignment to _codes at the end of async_save
\* and async_remove.
CodesChange(p) ==
  /\ \E accounts \in SUBSET Account : saved' = [saved EXCEPT ![p] = accounts]
  /\ UNCHANGED <<now, options, line, attempts, requests, given>>

\* update_options, when the options flow has ended.
OptionsChange(p) ==
  /\ \E o \in Options : options' = [options EXCEPT ![p] = o]
  /\ UNCHANGED <<now, saved, line, attempts, requests, given>>

Tick ==
  /\ now < MaxTime
  /\ now' = now + 1
  /\ UNCHANGED <<options, saved, line, attempts, requests, given>>

\* Home Assistant restarts: only what is stored stays.
Restart ==
  /\ line' = [p \in Panel |-> <<>>]
  /\ attempts' = [p \in Panel |-> {}]
  /\ pc' = [a \in Account |-> "idle"]
  /\ target' = [a \in Account |-> None]
  /\ code' = [a \in Account |-> "none"]
  /\ answer' = [a \in Account |-> "none"]
  /\ given' = [p \in Panel |-> {}]
  /\ UNCHANGED <<now, options, saved>>

Next ==
  \/ \E a \in Account : Turn(a) \/ CodeRead(a) \/ \E p \in Panel : Request(a, p)
  \/ \E p \in Panel : CodesChange(p) \/ OptionsChange(p)
  \/ Tick
  \/ Restart

Spec == Init /\ [][Next]_vars

\* The event loop runs what is ready, and an executor job ends.
Fairness == \A a \in Account : WF_vars(Turn(a)) /\ WF_vars(CodeRead(a))

FairSpec == Spec /\ Fairness

-----------------------------------------------------------------------------
(* Properties *)

Limits == INSTANCE CodeLimit

\* The limits of USER-CODES.md hold whatever the accounts do and however their requests
\* overlap: the list that async_disarm keeps, cut at every attempt, is enough to keep
\* them.
KeepsLimits == Limits!Spec

\* A request is refused as pending or rate limited only when the code would have broken
\* the limits: refusals do not count as attempts, and old attempts are forgotten in
\* time.
RefusedForAReason ==
  [][\A a \in Account :
       /\ answer[a] = "none" /\ answer'[a] \in {"pending", "limited"}
       => LET times == given[target[a]] \cup {now}
          IN ~Limits!Apart(times) \/ ~Limits!Few(times) \/ times = given[target[a]]]_vars

\* Every request ends: no account that leaves with an error, at any point, keeps the
\* others of its panel waiting.
RequestsEnd == \A a \in Account : pc[a] # "idle" ~> pc[a] = "idle"

=============================================================================
