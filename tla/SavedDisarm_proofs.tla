------------------------- MODULE SavedDisarm_proofs -------------------------
(***************************************************************************)
(* Proofs about SavedDisarm, for any panels, accounts and limits: the list *)
(* of attempts is cut at every attempt, and yet it holds all that the      *)
(* limits depend on (Kept), so the codes given to the panels keep what     *)
(* CodeLimit promises.  And the lock of a panel is passed on: in line at   *)
(* it are its requests, each once, and no others (LockInv).                *)
(***************************************************************************)
EXTENDS SavedDisarm, FiniteSetTheorems, SequenceTheorems, TLAPS

\* The attempts that count are the codes given in the last Window.
Kept == \A p \in Panel : Recent(p) = {t \in given[p] : now - t < Window}

\* The request that has its code read holds the lock.
Serving == \A a \in Account : pc[a] = "reading" => HasTurn(a)

IInv == TypeOK /\ Serving /\ Kept /\ Limits!Promise

-----------------------------------------------------------------------------
(* One attempt *)

\* CodeLimit counts with its own instance of Cardinality.
LEMMA SameCardinality == \A S : Limits!Cardinality(S) = Cardinality(S)
BY DEF Limits!Cardinality, Cardinality

\* Codes given at most now, with the last Window of them known.
LEMMA RecentFacts ==
  ASSUME IInv, NEW p \in Panel
  PROVE  /\ given[p] \subseteq 0 .. now
         /\ IsFiniteSet(given[p])
         /\ Recent(p) \subseteq given[p]
         /\ IsFiniteSet(Recent(p))
         /\ Cardinality(Recent(p)) \in Nat
         /\ Limits!InWindow(given[p] \cup {now}, now) = Recent(p) \cup {now}
<1>1. now \in Nat /\ given[p] \subseteq 0 .. now  BY DEF IInv, TypeOK, TimeType
<1>2. IsFiniteSet(given[p])
  <2>1. 0 \in Int /\ now \in Int  BY <1>1
  <2>2. IsFiniteSet(0 .. now)  BY <2>1, FS_Interval
  <2>3. QED  BY <1>1, <2>2, FS_Subset
<1>3. Recent(p) = {t \in given[p] : now - t < Window}  BY DEF IInv, Kept
<1>4. Recent(p) \subseteq given[p]  BY <1>3
<1>5. IsFiniteSet(Recent(p)) /\ Cardinality(Recent(p)) \in Nat
  BY <1>2, <1>4, FS_Subset, FS_CardinalityType
<1>6. Limits!InWindow(given[p] \cup {now}, now) = Recent(p) \cup {now}
  <2>1. \A s \in given[p] : (s <= now /\ now < s + Window) <=> now - s < Window
    BY <1>1, LimitAssumption
  <2>2. now <= now /\ now < now + Window  BY <1>1, LimitAssumption
  <2>3. QED  BY <1>3, <2>1, <2>2 DEF Limits!InWindow
<1>7. QED  BY <1>1, <1>2, <1>4, <1>5, <1>6

\* A code that passes the checks of async_disarm leaves the promise standing.
LEMMA CheckedIsAllowed ==
  ASSUME IInv, NEW p \in Panel,
         \A t \in Recent(p) : ~(now - t < Gap),
         ~(Cardinality(Recent(p)) >= Limit)
  PROVE  /\ now \notin given[p]
         /\ Limits!Apart(given[p] \cup {now})
         /\ Limits!Few(given[p] \cup {now})
<1>1. now \in Nat /\ given[p] \subseteq 0 .. now  BY DEF IInv, TypeOK, TimeType
<1>2. Recent(p) = {t \in given[p] : now - t < Window}  BY DEF IInv, Kept
<1>3. now \notin given[p]  BY <1>1, <1>2, LimitAssumption
<1>4. Limits!Apart(given[p]) /\ Limits!Few(given[p])  BY DEF IInv, Limits!Promise
<1>5. Limits!Apart(given[p] \cup {now})
  <2>1. \A s \in given[p] : now - s >= Gap  BY <1>1, <1>2, LimitAssumption
  <2>2. \A t \in given[p] : t < now  BY <1>1, <1>3
  <2>3. QED  BY <1>1, <1>4, <2>1, <2>2 DEF Limits!Apart
<1>6. Limits!Few(given[p] \cup {now})
  <2> SUFFICES ASSUME NEW t \in given[p] \cup {now}
               PROVE  Cardinality(Limits!InWindow(given[p] \cup {now}, t)) <= Limit
    BY SameCardinality DEF Limits!Few
  <2>1. CASE t = now
    <3>1. IsFiniteSet(Recent(p)) /\ now \notin Recent(p) /\ Cardinality(Recent(p)) \in Nat
      BY <1>3, RecentFacts
    <3>2. Cardinality(Recent(p) \cup {now}) = Cardinality(Recent(p)) + 1
      BY <3>1, FS_AddElement
    <3>3. Cardinality(Recent(p) \cup {now}) <= Limit  BY <3>1, <3>2, LimitAssumption
    <3>4. QED  BY <2>1, <3>3, RecentFacts
  <2>2. CASE t \in given[p]
    <3>1. t < now  BY <1>1, <1>3, <2>2
    <3>2. Limits!InWindow(given[p] \cup {now}, t) = Limits!InWindow(given[p], t)
      BY <1>1, <2>2, <3>1 DEF Limits!InWindow
    <3>3. QED  BY <1>4, <2>2, <3>2, SameCardinality DEF Limits!Few
  <2>3. QED  BY <2>1, <2>2
<1>7. QED  BY <1>3, <1>5, <1>6

\* A code that is refused as pending or rate limited would have broken the promise.
LEMMA RefusedIsForbidden ==
  ASSUME IInv, NEW p \in Panel,
         \/ \E t \in Recent(p) : now - t < Gap
         \/ Cardinality(Recent(p)) >= Limit
  PROVE  LET times == given[p] \cup {now}
         IN ~Limits!Apart(times) \/ ~Limits!Few(times) \/ times = given[p]
<1> SUFFICES ASSUME now \notin given[p]
             PROVE  \/ ~Limits!Apart(given[p] \cup {now})
                    \/ ~Limits!Few(given[p] \cup {now})
  OBVIOUS
<1>1. now \in Nat /\ given[p] \subseteq 0 .. now /\ Recent(p) \subseteq given[p]
  BY RecentFacts DEF IInv, TypeOK, TimeType
<1>2. CASE \E t \in Recent(p) : now - t < Gap
  <2>1. PICK t \in Recent(p) : now - t < Gap  BY <1>2
  <2>2. t \in given[p] /\ t < now  BY <1>1, <2>1
  <2>3. ~(now - t >= Gap)  BY <1>1, <2>1, <2>2, LimitAssumption
  <2>4. QED  BY <2>2, <2>3 DEF Limits!Apart
<1>3. CASE Cardinality(Recent(p)) >= Limit
  <2>1. IsFiniteSet(Recent(p)) /\ now \notin Recent(p) /\ Cardinality(Recent(p)) \in Nat
    BY <1>1, RecentFacts
  <2>2. Cardinality(Recent(p) \cup {now}) = Cardinality(Recent(p)) + 1
    BY <2>1, FS_AddElement
  <2>3. ~(Cardinality(Recent(p) \cup {now}) <= Limit)
    BY <1>3, <2>1, <2>2, LimitAssumption
  <2>4. ~(Limits!Cardinality(Limits!InWindow(given[p] \cup {now}, now)) <= Limit)
    BY <2>3, RecentFacts, SameCardinality
  <2>5. QED  BY <2>4 DEF Limits!Few
<1>4. QED  BY <1>2, <1>3

-----------------------------------------------------------------------------
(* Steps *)

\* A code is sent to a panel after the checks.
Sends(p) ==
  /\ \A t \in Recent(p) : ~(now - t < Gap)
  /\ ~(Cardinality(Recent(p)) >= Limit)
  /\ Send(p)

\* What a step does to the times.
LEMMA TimeEffect ==
  ASSUME RequestType, [Next]_vars
  PROVE  \/ UNCHANGED <<now, attempts, given>>
         \/ now' = now /\ \E p \in Panel : Sends(p)
         \/ Tick
         \/ Restart
<1>1. CASE \E a \in Account : Turn(a)
  <2>1. PICK a \in Account : Turn(a)  BY <1>1
  <2>2. target[a] \in Panel  BY <2>1 DEF Turn, RequestType
  <2>3. QED  BY <2>1, <2>2 DEF Turn, Decide, NothingSent, Sends
<1>2. CASE \E a \in Account : CodeRead(a)
  <2>1. PICK a \in Account : CodeRead(a)  BY <1>2
  <2>2. target[a] \in Panel  BY <2>1 DEF CodeRead, RequestType
  <2>3. QED  BY <2>1, <2>2 DEF CodeRead, Decide, NothingSent, Sends
<1>3. CASE UNCHANGED vars  BY <1>3 DEF vars
<1>4. QED
  BY <1>1, <1>2, <1>3 DEF Next, Request, CodesChange, OptionsChange

\* What a code that is sent adds.
LEMMA SendEffect ==
  ASSUME IInv, NEW p \in Panel, Send(p)
  PROVE  /\ attempts' = [attempts EXCEPT ![p] = Recent(p) \cup {now}]
         /\ given' = [given EXCEPT ![p] = given[p] \cup {now}]
         /\ Recent(p) \subseteq 0 .. now
         /\ given[p] \subseteq 0 .. now
BY DEF Send, IInv, TypeOK, TimeType, Recent

LEMMA TimeTypeStep == IInv /\ [Next]_vars => TimeType'
<1> SUFFICES ASSUME IInv, [Next]_vars PROVE TimeType'  OBVIOUS
<1> USE DEF TimeType
<1>1. TimeType /\ RequestType  BY DEF IInv, TypeOK
<1>2. CASE UNCHANGED <<now, attempts, given>>  BY <1>1, <1>2
<1>3. CASE now' = now /\ \E p \in Panel : Sends(p)
  <2>1. PICK p \in Panel : Sends(p)  BY <1>3
  <2>2. now \in 0 .. now  BY <1>1
  <2>3. QED  BY <1>1, <1>3, <2>1, <2>2, SendEffect DEF Sends
<1>4. CASE Tick
  <2>1. now' \in Nat /\ 0 .. now \subseteq 0 .. now'  BY <1>1, <1>4 DEF Tick
  <2>2. UNCHANGED <<attempts, given>>  BY <1>4 DEF Tick
  <2>3. QED  BY <1>1, <2>1, <2>2
<1>5. CASE Restart  BY <1>1, <1>5 DEF Restart
<1>6. QED  BY <1>1, <1>2, <1>3, <1>4, <1>5, TimeEffect

LEMMA KeptStep == IInv /\ [Next]_vars => Kept'
<1> SUFFICES ASSUME IInv, [Next]_vars, NEW q \in Panel
             PROVE  {t \in attempts'[q] : now' - t < Window}
                      = {t \in given'[q] : now' - t < Window}
  BY DEF Kept, Recent
<1>1. RequestType /\ now \in Nat  BY DEF IInv, TypeOK, TimeType
<1>2. Recent(q) = {t \in given[q] : now - t < Window}  BY DEF IInv, Kept
<1>3. attempts[q] \subseteq 0 .. now /\ given[q] \subseteq 0 .. now
  BY DEF IInv, TypeOK, TimeType
<1>4. CASE UNCHANGED <<now, attempts, given>>  BY <1>2, <1>4 DEF Recent
<1>5. CASE now' = now /\ \E p \in Panel : Sends(p)
  <2>1. PICK p \in Panel : Sends(p)  BY <1>5
  <2>2. Send(p)  BY <2>1 DEF Sends
  <2>3. attempts \in [Panel -> SUBSET (0 .. now)] /\ given \in [Panel -> SUBSET (0 .. now)]
    BY DEF IInv, TypeOK, TimeType
  <2>4. CASE p = q
    <3>1. attempts'[q] = Recent(q) \cup {now} /\ given'[q] = given[q] \cup {now}
      BY <2>2, <2>3, <2>4, SendEffect
    <3>2. QED  BY <1>2, <1>5, <3>1
  <2>5. CASE p # q
    <3>1. attempts'[q] = attempts[q] /\ given'[q] = given[q]
      BY <2>2, <2>3, <2>5, SendEffect
    <3>2. QED  BY <1>2, <1>5, <3>1 DEF Recent
  <2>6. QED  BY <2>4, <2>5
<1>6. CASE Tick
  <2>1. now' = now + 1 /\ attempts' = attempts /\ given' = given  BY <1>6 DEF Tick
  <2>2. \A t \in 0 .. now : now + 1 - t < Window => now - t < Window
    BY <1>1, LimitAssumption
  <2>3. \A t \in attempts[q] : now + 1 - t < Window => t \in given[q]
    BY <1>2, <1>3, <2>2 DEF Recent
  <2>4. \A t \in given[q] : now + 1 - t < Window => t \in attempts[q]
    BY <1>2, <1>3, <2>2 DEF Recent
  <2>5. \A t \in attempts'[q] : now' - t < Window => t \in given'[q]
    BY <1>1, <1>3, <2>1, <2>3, LimitAssumption
  <2>6. \A t \in given'[q] : now' - t < Window => t \in attempts'[q]
    BY <1>1, <1>3, <2>1, <2>4, LimitAssumption
  <2>7. QED  BY <2>5, <2>6
<1>7. CASE Restart  BY <1>7 DEF Restart
<1>8. QED  BY <1>1, <1>4, <1>5, <1>6, <1>7, TimeEffect

LEMMA PromiseStep == IInv /\ [Next]_vars => Limits!Promise'
<1> SUFFICES ASSUME IInv, [Next]_vars, NEW q \in Panel
             PROVE  Limits!Apart(given'[q]) /\ Limits!Few(given'[q])
  BY DEF Limits!Promise, Limits!Apart, Limits!Few, Limits!InWindow
<1>1. RequestType /\ given \in [Panel -> SUBSET (0 .. now)]
  BY DEF IInv, TypeOK, TimeType
<1>2. Limits!Apart(given[q]) /\ Limits!Few(given[q])  BY DEF IInv, Limits!Promise
<1>3. CASE given'[q] = given[q]  BY <1>2, <1>3
<1>4. CASE now' = now /\ \E p \in Panel : Sends(p)
  <2>1. PICK p \in Panel : Sends(p)  BY <1>4
  <2>2. given' = [given EXCEPT ![p] = given[p] \cup {now}]
    BY <2>1, SendEffect DEF Sends
  <2>3. CASE p = q
    <3>1. given'[q] = given[q] \cup {now}  BY <1>1, <2>2, <2>3
    <3>2. QED  BY <2>1, <2>3, <3>1, CheckedIsAllowed DEF Sends
  <2>4. CASE p # q
    <3>1. given'[q] = given[q]  BY <1>1, <2>2, <2>4
    <3>2. QED  BY <1>3, <3>1
  <2>5. QED  BY <2>3, <2>4
<1>5. CASE Restart
  <2>1. given'[q] = {}  BY <1>5 DEF Restart
  <2>2. QED  BY <2>1 DEF Limits!Apart, Limits!Few
<1>6. QED  BY <1>1, <1>3, <1>4, <1>5, TimeEffect DEF Tick

-----------------------------------------------------------------------------
(* Types and the lock *)

LEMMA InitIInv == Init => IInv
<1> SUFFICES ASSUME Init PROVE IInv  OBVIOUS
<1>1. TypeOK
  BY DEF Init, TypeOK, TimeType, RequestType, PanelType, LineType, Code, Answer
<1>2. Serving  BY DEF Init, Serving
<1>3. Kept  BY DEF Init, Kept, Recent
<1>4. Limits!Promise
  BY DEF Init, Limits!Promise, Limits!Apart, Limits!Few
<1>5. QED  BY <1>1, <1>2, <1>3, <1>4 DEF IInv

LEMMA RequestTypeStep == RequestType /\ [Next]_vars => RequestType'
<1> SUFFICES ASSUME RequestType, [Next]_vars PROVE RequestType'  OBVIOUS
<1> USE DEF RequestType, Code, Answer
<1>1. ASSUME NEW a \in Account, NEW reply \in Answer, Leave(a, reply)
      PROVE  RequestType'
  BY <1>1, NoneAssumption DEF Leave
<1>2. ASSUME NEW a \in Account, NEW p \in Panel, Request(a, p)
      PROVE  RequestType'
  BY <1>2 DEF Request
<1>3. ASSUME NEW a \in Account, NEW c \in Code, Decide(a, c)
      PROVE  RequestType'
  BY <1>1, <1>3 DEF Decide
<1>4. ASSUME NEW a \in Account, Turn(a)
      PROVE  RequestType'
  <2>1. CASE \E reply \in Answer : Leave(a, reply)  BY <1>1, <2>1
  <2>2. CASE Decide(a, "master")  BY <1>3, <2>2
  <2>3. CASE /\ pc' = [pc EXCEPT ![a] = "reading"]
             /\ \E c \in Code : code' = [code EXCEPT ![a] = c]
             /\ UNCHANGED <<target, answer>>
    BY <1>4, <2>3 DEF Turn
  <2>4. QED  BY <1>4, <2>1, <2>2, <2>3 DEF Turn
<1>5. ASSUME NEW a \in Account, CodeRead(a)
      PROVE  RequestType'
  BY <1>1, <1>3, <1>5 DEF CodeRead
<1>6. CASE UNCHANGED requests  BY <1>6 DEF requests
<1>7. CASE Restart  BY <1>7 DEF Restart
<1>8. QED
  BY <1>2, <1>4, <1>5, <1>6, <1>7
     DEF Next, vars, CodesChange, OptionsChange, Tick

LEMMA PanelTypeStep == PanelType /\ [Next]_vars => PanelType'
BY DEF PanelType, Options, Next, vars, Turn, CodeRead, Request, CodesChange, OptionsChange,
       Tick, Restart

\* At a panel's lock: what leaving does, and what the other steps do.
LEMMA LineEffect ==
  ASSUME RequestType, Serving, LineType, [Next]_vars
  PROVE  \/ UNCHANGED line /\ \A a \in Account :
                pc'[a] = "reading" => target'[a] = target[a] /\ HasTurn(a)
         \/ \E a \in Account, p \in Panel :
              /\ line' = [line EXCEPT ![p] = Append(line[p], a)]
              /\ \A b \in Account :
                   pc'[b] = "reading" => pc[b] = "reading" /\ target'[b] = target[b]
         \/ \E a \in Account :
              /\ HasTurn(a) /\ target[a] \in Panel
              /\ line' = [line EXCEPT ![target[a]] = Tail(line[target[a]])]
              /\ \A b \in Account :
                   pc'[b] = "reading" =>
                     pc[b] = "reading" /\ target'[b] = target[b] /\ b # a
         \/ line' = [p \in Panel |-> <<>>] /\ \A a \in Account : pc'[a] = "idle"
<1> USE DEF RequestType
<1>1. ASSUME NEW a \in Account, NEW reply, Leave(a, reply), HasTurn(a), target[a] \in Panel
      PROVE  /\ line' = [line EXCEPT ![target[a]] = Tail(line[target[a]])]
             /\ \A b \in Account :
                   pc'[b] = "reading" =>
                     pc[b] = "reading" /\ target'[b] = target[b] /\ b # a
  BY <1>1 DEF Leave
<1>2. ASSUME NEW a \in Account, Turn(a)
      PROVE  \/ \E reply : Leave(a, reply)
             \/ /\ UNCHANGED <<line, target>>
                /\ pc' = [pc EXCEPT ![a] = "reading"]
  BY <1>2 DEF Turn, Decide
<1>3. ASSUME NEW a \in Account, CodeRead(a)
      PROVE  \E reply : Leave(a, reply)
  BY <1>3 DEF CodeRead, Decide
<1>4. CASE \E a \in Account : Turn(a)
  <2>1. PICK a \in Account : Turn(a)  BY <1>4
  <2>2. HasTurn(a) /\ target[a] \in Panel  BY <2>1 DEF Turn
  <2>3. CASE \E reply : Leave(a, reply)  BY <1>1, <2>2, <2>3
  <2>4. CASE UNCHANGED <<line, target>> /\ pc' = [pc EXCEPT ![a] = "reading"]
    BY <2>2, <2>4 DEF Serving
  <2>5. QED  BY <1>2, <2>1, <2>3, <2>4
<1>5. CASE \E a \in Account : CodeRead(a)
  <2>1. PICK a \in Account : CodeRead(a)  BY <1>5
  <2>2. HasTurn(a) /\ target[a] \in Panel  BY <2>1 DEF CodeRead, Serving
  <2>3. QED  BY <1>1, <1>3, <2>1, <2>2
<1>6. CASE \E a \in Account, p \in Panel : Request(a, p)
  <2>1. PICK a \in Account, p \in Panel : Request(a, p)  BY <1>6
  <2>2. \A b \in Account :
          pc'[b] = "reading" => pc[b] = "reading" /\ target'[b] = target[b]
    BY <2>1 DEF Request
  <2>3. UNCHANGED line \/ line' = [line EXCEPT ![p] = Append(line[p], a)]
    BY <2>1 DEF Request
  <2>4. QED  BY <2>2, <2>3 DEF Serving
<1>7. CASE UNCHANGED <<line, requests>>  BY <1>7 DEF requests, Serving
<1>8. CASE Restart  BY <1>8 DEF Restart
<1>9. QED
  BY <1>4, <1>5, <1>6, <1>7, <1>8
     DEF Next, vars, CodesChange, OptionsChange, Tick

LEMMA LineTypeStep == RequestType /\ Serving /\ LineType /\ [Next]_vars => LineType'
<1> SUFFICES ASSUME RequestType, Serving, LineType, [Next]_vars PROVE LineType'
  OBVIOUS
<1> USE DEF LineType
<1>1. ASSUME NEW a \in Account, NEW p \in Panel,
             line' = [line EXCEPT ![p] = Append(line[p], a)]
      PROVE  LineType'
  BY <1>1
<1>2. ASSUME NEW a \in Account, HasTurn(a), target[a] \in Panel,
             line' = [line EXCEPT ![target[a]] = Tail(line[target[a]])]
      PROVE  LineType'
  <2>1. line[target[a]] \in Seq(Account) /\ line[target[a]] # <<>>
    BY <1>2 DEF HasTurn
  <2>2. Tail(line[target[a]]) \in Seq(Account)  BY <2>1
  <2>3. QED  BY <1>2, <2>2
<1>3. CASE UNCHANGED line  BY <1>3
<1>4. CASE line' = [p \in Panel |-> <<>>]  BY <1>4
<1>5. QED  BY <1>1, <1>2, <1>3, <1>4, LineEffect

LEMMA ServingStep == RequestType /\ Serving /\ LineType /\ [Next]_vars => Serving'
<1> SUFFICES ASSUME RequestType, Serving, LineType, [Next]_vars,
                    NEW b \in Account, pc'[b] = "reading"
             PROVE  HasTurn(b)'
  BY DEF Serving
<1>1. CASE UNCHANGED line /\ \A a \in Account :
              pc'[a] = "reading" => target'[a] = target[a] /\ HasTurn(a)
  BY <1>1 DEF HasTurn
<1>2. ASSUME NEW a \in Account, NEW p \in Panel,
             line' = [line EXCEPT ![p] = Append(line[p], a)],
             pc[b] = "reading", target'[b] = target[b]
      PROVE  HasTurn(b)'
  <2>1. target[b] \in Panel /\ HasTurn(b)  BY <1>2 DEF Serving, RequestType
  <2>2. line[target[b]] \in Seq(Account) /\ line[target[b]] # <<>>
    BY <2>1 DEF LineType, HasTurn
  <2>3. Append(line[target[b]], a) # <<>>
        /\ Head(Append(line[target[b]], a)) = Head(line[target[b]])
    BY <2>2
  <2>4. line'[target[b]] \in {line[target[b]], Append(line[target[b]], a)}
    BY <1>2, <2>1 DEF LineType
  <2>5. QED  BY <1>2, <2>1, <2>2, <2>3, <2>4 DEF HasTurn
<1>3. ASSUME NEW a \in Account, HasTurn(a), target[a] \in Panel,
             line' = [line EXCEPT ![target[a]] = Tail(line[target[a]])],
             pc[b] = "reading", target'[b] = target[b], b # a
      PROVE  HasTurn(b)'
  <2>1. target[b] \in Panel /\ HasTurn(b)  BY <1>3 DEF Serving, RequestType
  <2>2. target[b] # target[a]  BY <1>3, <2>1 DEF HasTurn
  <2>3. line'[target[b]] = line[target[b]]  BY <1>3, <2>1, <2>2 DEF LineType
  <2>4. QED  BY <1>3, <2>1, <2>3 DEF HasTurn
<1>4. QED  BY <1>1, <1>2, <1>3, LineEffect

-----------------------------------------------------------------------------
(* The lock is passed on *)

Lined(a, p) == \E i \in 1 .. Len(line[p]) : line[p][i] = a

\* In line at a panel's lock are its requests, each once, and no others.
LockInv ==
  /\ \A p \in Panel : \A i \in 1 .. Len(line[p]) :
       pc[line[p][i]] # "idle" /\ target[line[p][i]] = p
  /\ \A p \in Panel : \A i, j \in 1 .. Len(line[p]) : line[p][i] = line[p][j] => i = j
  /\ \A a \in Account : pc[a] # "idle" => Lined(a, target[a])

\* Who is first in line has not ended, and can go on; who has not ended is in line.
LockPassedOn ==
  /\ \A p \in Panel : line[p] # <<>> => pc[Head(line[p])] # "idle" /\ HasTurn(Head(line[p]))
  /\ \A a \in Account : pc[a] # "idle" => Lined(a, target[a])

\* What a step does to the lines and to those in them.
LEMMA LockEffect ==
  ASSUME RequestType, Serving, [Next]_vars
  PROVE  \/ UNCHANGED <<line, target>> /\ \A b \in Account : pc'[b] = "idle" <=> pc[b] = "idle"
         \/ \E a \in Account, p \in Panel :
              /\ pc[a] = "idle"
              /\ pc' = [pc EXCEPT ![a] = "waiting"] /\ target' = [target EXCEPT ![a] = p]
              /\ line' = [line EXCEPT ![p] = Append(line[p], a)]
         \/ \E a \in Account :
              /\ HasTurn(a) /\ target[a] \in Panel
              /\ pc' = [pc EXCEPT ![a] = "idle"] /\ target' = [target EXCEPT ![a] = None]
              /\ line' = [line EXCEPT ![target[a]] = Tail(line[target[a]])]
         \/ line' = [p \in Panel |-> <<>>] /\ \A a \in Account : pc'[a] = "idle"
<1> USE DEF RequestType
<1>1. ASSUME NEW a \in Account, NEW reply, Leave(a, reply), HasTurn(a), target[a] \in Panel
      PROVE  \E b \in Account :
               /\ HasTurn(b) /\ target[b] \in Panel
               /\ pc' = [pc EXCEPT ![b] = "idle"] /\ target' = [target EXCEPT ![b] = None]
               /\ line' = [line EXCEPT ![target[b]] = Tail(line[target[b]])]
  BY <1>1 DEF Leave
<1>2. CASE \E a \in Account : Turn(a)
  <2>1. PICK a \in Account : Turn(a)  BY <1>2
  <2>2. HasTurn(a) /\ target[a] \in Panel /\ pc[a] = "waiting"  BY <2>1 DEF Turn
  <2>3. \/ \E reply : Leave(a, reply)
        \/ UNCHANGED <<line, target>> /\ pc' = [pc EXCEPT ![a] = "reading"]
    BY <2>1 DEF Turn, Decide
  <2>4. QED  BY <1>1, <2>2, <2>3
<1>3. CASE \E a \in Account : CodeRead(a)
  <2>1. PICK a \in Account : CodeRead(a)  BY <1>3
  <2>2. HasTurn(a) /\ target[a] \in Panel  BY <2>1 DEF CodeRead, Serving
  <2>3. \E reply : Leave(a, reply)  BY <2>1 DEF CodeRead, Decide
  <2>4. QED  BY <1>1, <2>2, <2>3
<1>4. CASE \E a \in Account, p \in Panel : Request(a, p)
  BY <1>4 DEF Request
<1>5. CASE UNCHANGED <<line, requests>>  BY <1>5 DEF requests
<1>6. CASE Restart  BY <1>6 DEF Restart
<1>7. QED
  BY <1>2, <1>3, <1>4, <1>5, <1>6 DEF Next, vars, CodesChange, OptionsChange, Tick

LEMMA LineUp ==
  ASSUME RequestType, LineType, LockInv, NEW a \in Account, NEW p \in Panel, pc[a] = "idle",
         pc' = [pc EXCEPT ![a] = "waiting"], target' = [target EXCEPT ![a] = p],
         line' = [line EXCEPT ![p] = Append(line[p], a)]
  PROVE  LockInv'
<1>1. /\ line[p] \in Seq(Account) /\ Len(line[p]) \in Nat
      /\ line'[p] = Append(line[p], a) /\ \A q \in Panel : q # p => line'[q] = line[q]
  BY DEF LineType
<1>2. /\ pc'[a] = "waiting" /\ target'[a] = p
      /\ \A b \in Account : b # a => pc'[b] = pc[b] /\ target'[b] = target[b]
  BY DEF RequestType
<1>3. /\ Len(line'[p]) = Len(line[p]) + 1 /\ line'[p][Len(line[p]) + 1] = a
      /\ \A i \in 1 .. Len(line[p]) : line'[p][i] = line[p][i]
  BY <1>1, AppendProperties
<1>4. \A q \in Panel : \A i \in 1 .. Len(line[q]) : line[q][i] \in Account /\ line[q][i] # a
  <2>1. \A q \in Panel : \A i \in 1 .. Len(line[q]) : line[q][i] \in Account
    BY ElementOfSeq DEF LineType
  <2>2. QED  BY <2>1 DEF LockInv
<1>5. ASSUME NEW q \in Panel, NEW i \in 1 .. Len(line'[q])
      PROVE  pc'[line'[q][i]] # "idle" /\ target'[line'[q][i]] = q
  <2>1. CASE q = p /\ i = Len(line[p]) + 1  BY <1>2, <1>3, <2>1
  <2>2. CASE ~(q = p /\ i = Len(line[p]) + 1)
    <3>1. i \in 1 .. Len(line[q]) /\ line'[q][i] = line[q][i]
      BY <1>1, <1>3, <2>2
    <3>2. pc[line[q][i]] # "idle" /\ target[line[q][i]] = q  BY <3>1 DEF LockInv
    <3>3. QED  BY <1>2, <1>4, <3>1, <3>2
  <2>3. QED  BY <2>1, <2>2
<1>6. ASSUME NEW q \in Panel, NEW i \in 1 .. Len(line'[q]), NEW j \in 1 .. Len(line'[q]),
             line'[q][i] = line'[q][j]
      PROVE  i = j
  <2>1. CASE q # p  BY <1>1, <1>6, <2>1 DEF LockInv
  <2>2. CASE q = p
    <3>1. \A k \in 1 .. Len(line'[q]) : k = Len(line[p]) + 1 \/ k \in 1 .. Len(line[p])
      BY <1>1, <1>3, <2>2
    <3>2. CASE i \in 1 .. Len(line[p]) /\ j \in 1 .. Len(line[p])
      <4>1. line[p][i] = line[p][j]  BY <1>3, <1>6, <2>2, <3>2
      <4>2. QED  BY <3>2, <4>1 DEF LockInv
    <3>3. CASE i = Len(line[p]) + 1 /\ j \in 1 .. Len(line[p])
      BY <1>3, <1>4, <1>6, <2>2, <3>3
    <3>4. CASE j = Len(line[p]) + 1 /\ i \in 1 .. Len(line[p])
      BY <1>3, <1>4, <1>6, <2>2, <3>4
    <3>5. QED  BY <3>1, <3>2, <3>3, <3>4
  <2>3. QED  BY <2>1, <2>2
<1>7. ASSUME NEW b \in Account, pc'[b] # "idle"
      PROVE  \E i \in 1 .. Len(line'[target'[b]]) : line'[target'[b]][i] = b
  <2>1. CASE b = a
    <3>1. Len(line[p]) + 1 \in 1 .. Len(line'[p])  BY <1>1, <1>3
    <3>2. QED  BY <1>2, <1>3, <2>1, <3>1
  <2>2. CASE b # a
    <3>1. pc[b] # "idle" /\ target'[b] = target[b] /\ target[b] \in Panel
      BY <1>2, <1>7, <2>2 DEF RequestType
    <3>2. PICK i \in 1 .. Len(line[target[b]]) : line[target[b]][i] = b
      BY <3>1 DEF LockInv, Lined
    <3>3. i \in 1 .. Len(line'[target[b]]) /\ line'[target[b]][i] = b
      BY <1>1, <1>3, <3>1, <3>2
    <3>4. QED  BY <3>1, <3>3
  <2>3. QED  BY <2>1, <2>2
<1>8. QED  BY <1>5, <1>6, <1>7 DEF LockInv, Lined

LEMMA LineLeft ==
  ASSUME RequestType, LineType, LockInv, NEW a \in Account, HasTurn(a), target[a] \in Panel,
         pc' = [pc EXCEPT ![a] = "idle"], target' = [target EXCEPT ![a] = None],
         line' = [line EXCEPT ![target[a]] = Tail(line[target[a]])]
  PROVE  LockInv'
<1>1. PICK p \in Panel : p = target[a]  OBVIOUS
<1>2. /\ line[p] \in Seq(Account) /\ line[p] # <<>> /\ line[p][1] = a
      /\ line'[p] = Tail(line[p]) /\ \A q \in Panel : q # p => line'[q] = line[q]
  <2>1. line[p] \in Seq(Account) /\ line[p] # <<>> /\ Head(line[p]) = a
    BY <1>1 DEF HasTurn, LineType
  <2>2. line[p][1] = a  BY <2>1, HeadTailProperties
  <2>3. line'[p] = Tail(line[p]) /\ \A q \in Panel : q # p => line'[q] = line[q]
    BY <1>1 DEF LineType
  <2>4. QED  BY <2>1, <2>2, <2>3
<1>3. /\ pc'[a] = "idle"
      /\ \A b \in Account : b # a => pc'[b] = pc[b] /\ target'[b] = target[b]
  BY DEF RequestType
<1>4. /\ Len(line[p]) \in Nat /\ Len(line[p]) # 0 /\ Len(line'[p]) = Len(line[p]) - 1
      /\ \A i \in 1 .. Len(line'[p]) : line'[p][i] = line[p][i + 1]
  <2>1. Len(line[p]) \in Nat /\ Len(line[p]) # 0  BY <1>2, EmptySeq, LenProperties
  <2>2. /\ Len(Tail(line[p])) = Len(line[p]) - 1
        /\ \A i \in 1 .. Len(Tail(line[p])) : Tail(line[p])[i] = line[p][i + 1]
    BY <1>2, HeadTailProperties
  <2>3. QED  BY <1>2, <2>1, <2>2
<1>5. \A q \in Panel : \A i \in 1 .. Len(line[q]) : line[q][i] \in Account
  BY ElementOfSeq DEF LineType
<1>6. 1 \in 1 .. Len(line[p])  BY <1>4
<1>7. ASSUME NEW q \in Panel, NEW i \in 1 .. Len(line[q]), line[q][i] = a
      PROVE  q = p /\ i = 1
  <2>1. q = p  BY <1>1, <1>7 DEF LockInv
  <2>2. QED  BY <1>2, <1>6, <1>7, <2>1 DEF LockInv
<1>8. ASSUME NEW q \in Panel, NEW i \in 1 .. Len(line'[q])
      PROVE  \E j \in 1 .. Len(line[q]) :
               /\ j = (IF q = p THEN i + 1 ELSE i)
               /\ line'[q][i] = line[q][j] /\ line[q][j] # a
  <2>1. CASE q = p
    <3>1. i + 1 \in 1 .. Len(line[p]) /\ i + 1 # 1  BY <1>4, <2>1
    <3>2. QED  BY <1>4, <1>7, <2>1, <3>1
  <2>2. CASE q # p  BY <1>2, <1>7, <2>2
  <2>3. QED  BY <2>1, <2>2
<1>9. ASSUME NEW q \in Panel, NEW i \in 1 .. Len(line'[q])
      PROVE  pc'[line'[q][i]] # "idle" /\ target'[line'[q][i]] = q
  <2>1. PICK j \in 1 .. Len(line[q]) : line'[q][i] = line[q][j] /\ line[q][j] # a
    BY <1>8
  <2>2. pc[line[q][j]] # "idle" /\ target[line[q][j]] = q  BY DEF LockInv
  <2>3. QED  BY <1>3, <1>5, <2>1, <2>2
<1>10. ASSUME NEW q \in Panel, NEW i \in 1 .. Len(line'[q]), NEW j \in 1 .. Len(line'[q]),
              line'[q][i] = line'[q][j]
       PROVE  i = j
  <2>1. PICK k \in 1 .. Len(line[q]) :
          k = (IF q = p THEN i + 1 ELSE i) /\ line'[q][i] = line[q][k]
    BY <1>8
  <2>2. PICK m \in 1 .. Len(line[q]) :
          m = (IF q = p THEN j + 1 ELSE j) /\ line'[q][j] = line[q][m]
    BY <1>8
  <2>3. k = m  BY <1>10, <2>1, <2>2 DEF LockInv
  <2>4. QED  BY <2>1, <2>2, <2>3
<1>11. ASSUME NEW b \in Account, pc'[b] # "idle"
       PROVE  \E i \in 1 .. Len(line'[target'[b]]) : line'[target'[b]][i] = b
  <2>1. b # a  BY <1>3, <1>11
  <2>2. pc[b] # "idle" /\ target'[b] = target[b] /\ target[b] \in Panel
    BY <1>3, <1>11, <2>1 DEF RequestType
  <2>3. PICK i \in 1 .. Len(line[target[b]]) : line[target[b]][i] = b
    BY <2>2 DEF LockInv, Lined
  <2>4. CASE target[b] = p
    <3>1. i # 1  BY <1>2, <2>1, <2>3, <2>4
    <3>2. i - 1 \in 1 .. Len(line'[p]) /\ (i - 1) + 1 = i  BY <1>4, <2>3, <2>4, <3>1
    <3>3. line'[p][i - 1] = b  BY <1>4, <2>3, <2>4, <3>2
    <3>4. QED  BY <2>2, <2>4, <3>2, <3>3
  <2>5. CASE target[b] # p  BY <1>2, <2>2, <2>3, <2>5
  <2>6. QED  BY <2>4, <2>5
<1>12. QED  BY <1>9, <1>10, <1>11 DEF LockInv, Lined

LEMMA LockStep == RequestType /\ Serving /\ LineType /\ LockInv /\ [Next]_vars => LockInv'
<1> SUFFICES ASSUME RequestType, Serving, LineType, LockInv, [Next]_vars PROVE LockInv'
  OBVIOUS
<1>1. CASE UNCHANGED <<line, target>> /\ \A b \in Account : pc'[b] = "idle" <=> pc[b] = "idle"
  <2>1. \A q \in Panel : \A i \in 1 .. Len(line[q]) : line[q][i] \in Account
    BY ElementOfSeq DEF LineType
  <2>2. QED  BY <1>1, <2>1 DEF LockInv, Lined
<1>2. CASE line' = [p \in Panel |-> <<>>] /\ \A a \in Account : pc'[a] = "idle"
  <2>1. \A p \in Panel : line'[p] = <<>> /\ Len(line'[p]) = 0  BY <1>2
  <2>2. QED  BY <1>2, <2>1 DEF LockInv
<1>3. QED  BY <1>1, <1>2, LockEffect, LineUp, LineLeft

-----------------------------------------------------------------------------
(* Theorems *)

LEMMA Inductive == IInv /\ [Next]_vars => IInv'
<1> SUFFICES ASSUME IInv, [Next]_vars PROVE IInv'  OBVIOUS
<1>1. TypeOK'
  BY TimeTypeStep, RequestTypeStep, PanelTypeStep, LineTypeStep DEF IInv, TypeOK
<1>2. Serving' /\ Kept' /\ Limits!Promise'
  BY ServingStep, KeptStep, PromiseStep DEF IInv, TypeOK
<1>3. QED  BY <1>1, <1>2 DEF IInv

THEOREM Invariance == Spec => []IInv
BY InitIInv, Inductive, PTL DEF Spec

\* Every variable keeps its type.
THEOREM TypeCorrect == Spec => []TypeOK
<1>1. IInv => TypeOK  BY DEF IInv
<1>2. QED  BY <1>1, Invariance, PTL

\* A step of async_disarm, as CodeLimit sees it.
LEMMA StepRefines == IInv /\ IInv' /\ [Next]_vars => [Limits!Next]_<<now, given>>
<1> SUFFICES ASSUME IInv, IInv', [Next]_vars
             PROVE  Limits!Next \/ UNCHANGED <<now, given>>
  OBVIOUS
<1>1. RequestType  BY DEF IInv, TypeOK
<1>2. CASE now' = now /\ \E p \in Panel : Sends(p)
  <2>1. PICK p \in Panel : Sends(p)  BY <1>2
  <2>2. now \notin given[p]  BY <2>1, CheckedIsAllowed DEF Sends
  <2>3. given' = [given EXCEPT ![p] = given[p] \cup {now}]
    BY <2>1, SendEffect DEF Sends
  <2>4. Limits!Promise'  BY DEF IInv
  <2>5. Limits!Give(p)  BY <1>2, <2>2, <2>3, <2>4 DEF Limits!Give
  <2>6. QED  BY <2>5 DEF Limits!Next
<1>3. CASE Tick  BY <1>3 DEF Tick, Limits!Next, Limits!Tick
<1>4. CASE Restart  BY <1>4 DEF Restart, Limits!Next, Limits!Restart
<1>5. QED  BY <1>1, <1>2, <1>3, <1>4, TimeEffect

\* async_disarm implements the limits that USER-CODES.md promises: no two codes within
\* 15 s and no more than three in 300 s are given to a panel, for any number of panels
\* and accounts, any limits, and however the requests overlap.
THEOREM ImplementsLimits == Spec => KeepsLimits
<1>1. Init => Limits!Init  BY DEF Init, Limits!Init
<1>2. QED
  BY <1>1, StepRefines, Invariance, PTL DEF Spec, KeepsLimits, Limits!Spec, Limits!vars

\* Who gets the answer "pending" or "limited" was refused by the limits.
LEMMA RefusalEffect ==
  ASSUME RequestType, [Next]_vars, NEW a \in Account,
         answer[a] = "none", answer'[a] \in {"pending", "limited"}
  PROVE  /\ target[a] \in Panel
         /\ \/ \E t \in Recent(target[a]) : now - t < Gap
            \/ Cardinality(Recent(target[a])) >= Limit
<1> USE DEF RequestType
<1>1. ASSUME NEW b \in Account, NEW reply, Leave(b, reply)
      PROVE  b = a /\ reply \in {"pending", "limited"}
  BY <1>1 DEF Leave
<1>2. ASSUME NEW b \in Account, NEW c, Decide(b, c), pc[b] # "idle"
      PROVE  /\ target[a] \in Panel
             /\ \/ \E t \in Recent(target[a]) : now - t < Gap
                \/ Cardinality(Recent(target[a])) >= Limit
  BY <1>1, <1>2 DEF Decide
<1>3. CASE \E b \in Account : Turn(b)
  BY <1>1, <1>2, <1>3 DEF Turn
<1>4. CASE \E b \in Account : CodeRead(b)
  BY <1>1, <1>2, <1>4 DEF CodeRead
<1>5. CASE \E b \in Account, p \in Panel : Request(b, p)
  BY <1>5 DEF Request
<1>6. CASE Restart  BY <1>6 DEF Restart
<1>7. CASE UNCHANGED answer  BY <1>7
<1>8. QED
  BY <1>3, <1>4, <1>5, <1>6, <1>7
     DEF Next, vars, requests, CodesChange, OptionsChange, Tick

\* The limits never refuse more than they must: refused attempts do not count, and old
\* ones are forgotten in time.
THEOREM RefusalsAreDue == Spec => RefusedForAReason
<1>1. IInv /\ [Next]_vars =>
        [\A a \in Account :
           /\ answer[a] = "none" /\ answer'[a] \in {"pending", "limited"}
           => LET times == given[target[a]] \cup {now}
              IN ~Limits!Apart(times) \/ ~Limits!Few(times) \/ times = given[target[a]]]_vars
  <2> SUFFICES ASSUME IInv, [Next]_vars, NEW a \in Account,
                      answer[a] = "none", answer'[a] \in {"pending", "limited"}
               PROVE  LET times == given[target[a]] \cup {now}
                      IN ~Limits!Apart(times) \/ ~Limits!Few(times)
                           \/ times = given[target[a]]
    OBVIOUS
  <2>1. RequestType  BY DEF IInv, TypeOK
  <2>2. /\ target[a] \in Panel
        /\ \/ \E t \in Recent(target[a]) : now - t < Gap
           \/ Cardinality(Recent(target[a])) >= Limit
    BY <2>1, RefusalEffect
  <2>3. QED  BY <2>2, RefusedIsForbidden
<1>2. QED  BY <1>1, Invariance, PTL DEF Spec, RefusedForAReason

\* However requests overlap and end, with a code, with an error or with a restart, a
\* panel's lock is never held by one that has ended, and every request that has not ended
\* is in line for it (user_codes.py, async_disarm).  This is what RequestsEnd rests on
\* besides fairness.
THEOREM LockIsPassedOn == Spec => []LockPassedOn
<1>1. Init => LockInv
  <2> SUFFICES ASSUME Init PROVE LockInv  OBVIOUS
  <2>1. \A p \in Panel : line[p] = <<>> /\ Len(line[p]) = 0  BY DEF Init
  <2>2. \A a \in Account : pc[a] = "idle"  BY DEF Init
  <2>3. QED  BY <2>1, <2>2 DEF LockInv
<1>2. IInv /\ LockInv /\ [Next]_vars => LockInv'  BY LockStep DEF IInv, TypeOK
<1>3. IInv /\ LockInv => LockPassedOn
  <2> SUFFICES ASSUME IInv, LockInv PROVE LockPassedOn  OBVIOUS
  <2>1. ASSUME NEW p \in Panel, line[p] # <<>>
        PROVE  pc[Head(line[p])] # "idle" /\ HasTurn(Head(line[p]))
    <3>1. line[p] \in Seq(Account)  BY DEF IInv, TypeOK, LineType
    <3>2. Head(line[p]) = line[p][1] /\ 1 \in 1 .. Len(line[p])
      BY <2>1, <3>1, HeadTailProperties, EmptySeq, LenProperties
    <3>3. pc[Head(line[p])] # "idle" /\ target[Head(line[p])] = p
      BY <3>2 DEF LockInv
    <3>4. QED  BY <2>1, <3>3 DEF HasTurn
  <2>2. QED  BY <2>1 DEF LockPassedOn, LockInv
<1>4. QED  BY <1>1, <1>2, <1>3, Invariance, PTL DEF Spec
=============================================================================
