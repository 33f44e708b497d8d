---------------------------- MODULE RecordStream ----------------------------
(***************************************************************************)
(* What the intake of records promises to those who process them: records  *)
(* are handled in the order in which they arrive; a record is passed over  *)
(* only if it equals the one handled before it, or if it waits behind one  *)
(* that fails.                                                             *)
(***************************************************************************)
EXTENDS Naturals, Sequences

CONSTANTS Record,  \* what the panel sends
          Faulty,  \* the records whose handling fails
          None

VARIABLES pending,  \* the records that have arrived and have not been handled
          current   \* the record handled last

vars == <<pending, current>>

Init == pending = << >> /\ current = None

After(n) == SubSeq(pending, n + 1, Len(pending))

\* Records arrive behind those that are waiting.
Arrive ==
  /\ pending' \in Seq(Record)
  /\ Len(pending) <= Len(pending')
  /\ SubSeq(pending', 1, Len(pending)) = pending
  /\ UNCHANGED current

\* The n-th record is the first that differs from the one handled last.
Fresh(n) == pending[n] # current /\ \A i \in 1 .. n - 1 : pending[i] = current

Handle ==
  \E n \in 1 .. Len(pending) :
    /\ Fresh(n)
    /\ pending' = After(n)
    /\ current' = pending[n]

Fail ==
  \E n \in 1 .. Len(pending) : \E m \in n .. Len(pending) :
    /\ Fresh(n) /\ pending[n] \in Faulty
    /\ pending' = After(m)
    /\ current' = pending[n]

PassOver ==
  \E n \in 1 .. Len(pending) :
    /\ \A i \in 1 .. n : pending[i] = current
    /\ pending' = After(n)
    /\ UNCHANGED current

Next == Arrive \/ Handle \/ Fail \/ PassOver

Spec == Init /\ [][Next]_vars
=============================================================================
