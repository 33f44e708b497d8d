---------------------------- MODULE Events_proofs ----------------------------
(***************************************************************************)
(* Proofs about Events, for any codes, devices and bounds: that it         *)
(* implements RecordStream - however batches, wake-ups, repetitions and    *)
(* failures fall together, records are handled in the order in which they  *)
(* were forwarded - and that what is recorded is what happened.            *)
(*                                                                         *)
(* The second needs more than the variables say.  The model counts what is *)
(* owed, but which pending record is the first telling of something and    *)
(* which repeats it cannot be read from the records: the same event may    *)
(* happen again after another one.  The inductive invariant therefore      *)
(* states that there is a story: the events that happened, ev[1] to ev[K], *)
(* up to which of them has been sent, which one each pending record tells  *)
(* of, and which was handled last.  What is owed is the tally of those     *)
(* sent and not handled, and the flags are those after the last handled.   *)
(***************************************************************************)
EXTENDS Events, SequenceTheorems, WellFoundedInduction, TLAPS

-----------------------------------------------------------------------------
(* Sequences and what is left of them *)

\* The rest of a concatenation, from a place in its first part and in its second.
LEMMA RestInFirst ==
  ASSUME NEW S, NEW s \in Seq(S), NEW t \in Seq(S), NEW n \in 0 .. Len(s)
  PROVE  SubSeq(s \o t, n + 1, Len(s \o t)) = SubSeq(s, n + 1, Len(s)) \o t
<1> DEFINE whole == s \o t
           rest == SubSeq(s, n + 1, Len(s))
<1>1. /\ Len(s) \in Nat /\ Len(t) \in Nat /\ n \in Nat /\ n <= Len(s)
      /\ whole \in Seq(S) /\ Len(whole) = Len(s) + Len(t)
      /\ \A i \in 1 .. Len(s) + Len(t) : whole[i] = IF i <= Len(s) THEN s[i] ELSE t[i - Len(s)]
  BY ConcatProperties, LenProperties
<1>2. \A i \in 1 .. Len(whole) : whole[i] \in S
  BY <1>1, ElementOfSeq
<1>3. /\ SubSeq(whole, n + 1, Len(whole)) \in Seq(S)
      /\ Len(SubSeq(whole, n + 1, Len(whole))) = Len(whole) - n
      /\ \A i \in 1 .. Len(whole) - n : SubSeq(whole, n + 1, Len(whole))[i] = whole[n + i]
  <2>1. \A i \in n + 1 .. Len(whole) : whole[i] \in S
    BY <1>1, <1>2
  <2> HIDE DEF whole
  <2> QED
    BY <1>1, <2>1, SubSeqProperties
<1>4. /\ rest \in Seq(S) /\ Len(rest) = Len(s) - n
      /\ \A i \in 1 .. Len(s) - n : rest[i] = s[n + i]
  <2>1. \A i \in n + 1 .. Len(s) : s[i] \in S
    BY <1>1, ElementOfSeq
  <2> QED
    BY <1>1, <2>1, SubSeqProperties
<1>5. /\ rest \o t \in Seq(S) /\ Len(rest \o t) = Len(whole) - n
      /\ \A i \in 1 .. Len(rest) + Len(t) :
           (rest \o t)[i] = IF i <= Len(rest) THEN rest[i] ELSE t[i - Len(rest)]
  <2> HIDE DEF whole, rest
  <2>1. /\ rest \o t \in Seq(S) /\ Len(rest \o t) = Len(rest) + Len(t)
        /\ \A i \in 1 .. Len(rest) + Len(t) :
             (rest \o t)[i] = IF i <= Len(rest) THEN rest[i] ELSE t[i - Len(rest)]
    BY <1>4, ConcatProperties
  <2> QED
    BY <1>1, <1>4, <2>1
<1> HIDE DEF whole, rest
<1>6. \A i \in 1 .. Len(whole) - n : SubSeq(whole, n + 1, Len(whole))[i] = (rest \o t)[i]
  <2> TAKE i \in 1 .. Len(whole) - n
  <2>1. /\ i \in Nat /\ n + i \in 1 .. Len(s) + Len(t) /\ i \in 1 .. Len(rest) + Len(t)
        /\ Len(rest) = Len(s) - n
    BY <1>1, <1>4
  <2>2. SubSeq(whole, n + 1, Len(whole))[i] = IF n + i <= Len(s) THEN s[n + i] ELSE t[n + i - Len(s)]
    BY <1>1, <1>3, <2>1
  <2>3. (rest \o t)[i] = IF i <= Len(rest) THEN rest[i] ELSE t[i - Len(rest)]
    BY <1>5, <2>1
  <2>4. i <= Len(rest) => rest[i] = s[n + i]
    BY <1>1, <1>4, <2>1
  <2>5. i - Len(rest) = n + i - Len(s) /\ (i <= Len(rest) <=> n + i <= Len(s))
    BY <1>1, <2>1
  <2> QED
    BY <2>2, <2>3, <2>4, <2>5
<1>7. SubSeq(whole, n + 1, Len(whole)) = rest \o t
  BY <1>1, <1>3, <1>5, <1>6, SeqEqual
<1> QED
  BY <1>7 DEF whole, rest

LEMMA RestInSecond ==
  ASSUME NEW S, NEW s \in Seq(S), NEW t \in Seq(S), NEW n \in 0 .. Len(t)
  PROVE  SubSeq(s \o t, Len(s) + n + 1, Len(s \o t)) = SubSeq(t, n + 1, Len(t))
<1> DEFINE whole == s \o t
           rest == SubSeq(t, n + 1, Len(t))
           m == Len(s) + n
<1>1. /\ Len(s) \in Nat /\ Len(t) \in Nat /\ n \in Nat /\ n <= Len(t)
      /\ whole \in Seq(S) /\ Len(whole) = Len(s) + Len(t)
      /\ \A i \in 1 .. Len(s) + Len(t) : whole[i] = IF i <= Len(s) THEN s[i] ELSE t[i - Len(s)]
  BY ConcatProperties, LenProperties
<1>2. \A i \in 1 .. Len(whole) : whole[i] \in S
  BY <1>1, ElementOfSeq
<1>3. /\ SubSeq(whole, m + 1, Len(whole)) \in Seq(S)
      /\ Len(SubSeq(whole, m + 1, Len(whole))) = Len(t) - n
      /\ \A i \in 1 .. Len(t) - n : SubSeq(whole, m + 1, Len(whole))[i] = whole[m + i]
  <2>1. \A i \in m + 1 .. Len(whole) : whole[i] \in S
    BY <1>1, <1>2
  <2> HIDE DEF whole
  <2> QED
    BY <1>1, <2>1, SubSeqProperties
<1>4. /\ rest \in Seq(S) /\ Len(rest) = Len(t) - n
      /\ \A i \in 1 .. Len(t) - n : rest[i] = t[n + i]
  <2>1. \A i \in n + 1 .. Len(t) : t[i] \in S
    BY <1>1, ElementOfSeq
  <2> QED
    BY <1>1, <2>1, SubSeqProperties
<1> HIDE DEF whole, rest
<1>5. \A i \in 1 .. Len(t) - n : SubSeq(whole, m + 1, Len(whole))[i] = rest[i]
  <2> TAKE i \in 1 .. Len(t) - n
  <2>1. /\ m + i \in 1 .. Len(s) + Len(t) /\ ~(m + i <= Len(s)) /\ m + i - Len(s) = n + i
    BY <1>1
  <2>2. whole[m + i] = t[n + i]
    BY <1>1, <2>1
  <2> QED
    BY <1>3, <1>4, <2>2
<1>6. SubSeq(whole, m + 1, Len(whole)) = rest
  BY <1>1, <1>3, <1>4, <1>5, SeqEqual
<1> QED
  BY <1>6 DEF whole, rest

\* A set of natural numbers has a smallest one.
LEMMA SmallestOne ==
  ASSUME NEW T \in SUBSET Nat, T # {}
  PROVE  \E x \in T : \A y \in T : x <= y
<1>1. PICK x \in T : \A y \in T : ~(<<y, x>> \in OpToRel(<, Nat))
  BY NatLessThanWellFounded, WFMin
<1>2. \A y \in T : ~(y < x)
  <2> TAKE y \in T
  <2>1. <<y, x>> \in Nat \X Nat
    OBVIOUS
  <2> QED
    BY <1>1, <2>1 DEF OpToRel
<1>3. \A y \in T : x <= y
  BY <1>2
<1> QED
  BY <1>3

-----------------------------------------------------------------------------
(* The comparison with the record before *)

\* What is left of some records are those after the first that differs, if there is one.
LEMMA NothingUnrepeated ==
  ASSUME NEW records \in Seq(Record), Unrepeated(records) = << >>
  PROVE  \A i \in 1 .. Len(records) : records[i] = previous
<1> DEFINE differ == {i \in 1 .. Len(records) : records[i] # previous}
<1> SUFFICES ASSUME differ # {} PROVE FALSE
  OBVIOUS
<1>1. Len(records) \in Nat
  BY LenProperties
<1>2. \E i \in differ : \A j \in differ : i <= j
  <2>1. differ \in SUBSET Nat
    BY <1>1
  <2> HIDE DEF differ
  <2> QED
    BY <2>1, SmallestOne
<1> DEFINE n == CHOOSE i \in differ : \A j \in differ : i <= j
<1>3. n \in 1 .. Len(records)
  BY <1>2
<1>4. Unrepeated(records) = SubSeq(records, n, Len(records))
  BY DEF Unrepeated
<1> HIDE DEF n
<1>5. \A i \in n .. Len(records) : records[i] \in Record
  BY <1>1, <1>3, ElementOfSeq
<1>6. Len(SubSeq(records, n, Len(records))) = Len(records) - n + 1
  BY <1>1, <1>3, <1>5, SubSeqProperties
<1>7. Len(SubSeq(records, n, Len(records))) = 0
  BY <1>4, EmptySeq
<1> QED
  BY <1>1, <1>3, <1>6, <1>7

LEMMA SomeUnrepeated ==
  ASSUME NEW records \in Seq(Record), Unrepeated(records) # << >>
  PROVE  \E n \in 1 .. Len(records) :
           /\ records[n] # previous
           /\ \A i \in 1 .. n - 1 : records[i] = previous
           /\ Head(Unrepeated(records)) = records[n]
           /\ Tail(Unrepeated(records)) = SubSeq(records, n + 1, Len(records))
<1> DEFINE differ == {i \in 1 .. Len(records) : records[i] # previous}
<1>0. differ # {}
  BY DEF Unrepeated
<1>1. Len(records) \in Nat
  BY LenProperties
<1>2. \E i \in differ : \A j \in differ : i <= j
  <2>1. differ \in SUBSET Nat
    BY <1>1
  <2> HIDE DEF differ
  <2> QED
    BY <1>0, <2>1, SmallestOne
<1> DEFINE n == CHOOSE i \in differ : \A j \in differ : i <= j
<1>3. n \in differ /\ \A j \in differ : n <= j
  BY <1>2
<1>4. Unrepeated(records) = SubSeq(records, n, Len(records))
  BY <1>0 DEF Unrepeated
<1> HIDE DEF n
<1>5. n \in 1 .. Len(records) /\ Len(records) \in n .. Len(records)
  BY <1>1, <1>3
<1>6. \A i \in 1 .. n - 1 : records[i] = previous
  <2> TAKE i \in 1 .. n - 1
  <2>1. i \in 1 .. Len(records) /\ ~(n <= i)
    BY <1>1, <1>5
  <2> QED
    BY <1>3, <2>1
<1>7. /\ Head(Unrepeated(records)) = records[n]
      /\ Tail(Unrepeated(records)) = SubSeq(records, n + 1, Len(records))
  BY <1>4, <1>5, HeadTailOfSubSeq
<1> QED
  BY <1>3, <1>5, <1>6, <1>7

\* Something is left behind any record but the last.
LEMMA RestNotEmpty ==
  ASSUME NEW records \in Seq(Record), NEW n \in 1 .. Len(records), Len(records) # n
  PROVE  SubSeq(records, n + 1, Len(records)) # << >>
<1>1. Len(records) \in Nat /\ n \in Nat /\ n < Len(records)
  BY LenProperties
<1>2. \A i \in n + 1 .. Len(records) : records[i] \in Record
  BY <1>1, ElementOfSeq
<1>3. Len(SubSeq(records, n + 1, Len(records))) = Len(records) - (n + 1) + 1
  BY <1>1, <1>2, SubSeqProperties
<1>4. Len(SubSeq(records, n + 1, Len(records))) # 0
  BY <1>1, <1>3
<1> QED
  BY <1>4, EmptySeq

-----------------------------------------------------------------------------
(* Every step is one of the stream *)

QueuesTypeOK ==
  /\ outputQ \in Seq(Record) /\ batch \in Seq(Record)
  /\ event \in Event \cup {None}

\* What is pending are the records of the batch and those behind them.
LEMMA PendingFacts ==
  ASSUME QueuesTypeOK
  PROVE  /\ Len(batch) \in Nat /\ Len(outputQ) \in Nat
         /\ Pending \in Seq(Record) /\ Len(Pending) = Len(batch) + Len(outputQ)
         /\ \A i \in 1 .. Len(batch) : Pending[i] = batch[i]
         /\ \A i \in 1 .. Len(outputQ) : Pending[Len(batch) + i] = outputQ[i]
         /\ \A i \in Len(batch) + 1 .. Len(Pending) : Pending[i] = outputQ[i - Len(batch)]
<1>1. Len(batch) \in Nat /\ Len(outputQ) \in Nat
  BY LenProperties DEF QueuesTypeOK
<1>2. /\ Pending \in Seq(Record) /\ Len(Pending) = Len(batch) + Len(outputQ)
      /\ \A i \in 1 .. Len(batch) + Len(outputQ) :
           Pending[i] = IF i <= Len(batch) THEN batch[i] ELSE outputQ[i - Len(batch)]
  BY ConcatProperties DEF QueuesTypeOK, Pending
<1>3. \A i \in 1 .. Len(batch) : Pending[i] = batch[i]
  BY <1>1, <1>2
<1>4. \A i \in 1 .. Len(outputQ) : Pending[Len(batch) + i] = outputQ[i]
  <2> TAKE i \in 1 .. Len(outputQ)
  <2>1. /\ Len(batch) + i \in 1 .. Len(batch) + Len(outputQ)
        /\ ~(Len(batch) + i <= Len(batch)) /\ Len(batch) + i - Len(batch) = i
    BY <1>1
  <2> QED
    BY <1>2, <2>1
<1>5. \A i \in Len(batch) + 1 .. Len(Pending) : Pending[i] = outputQ[i - Len(batch)]
  BY <1>1, <1>2
<1> QED
  BY <1>1, <1>2, <1>3, <1>4, <1>5

\* The n-th pending record is the first that is not a repetition; it is handled, or its
\* handling fails and what is pending up to the m-th is gone.
HandlesAt(n) ==
  /\ n \in 1 .. Len(Pending) /\ Stream!Fresh(n)
  /\ Pending' = Stream!After(n) /\ previous' = Pending[n]
  /\ ProcessMessage(Pending[n]) /\ UNCHANGED lost

FailsAt(n, m) ==
  /\ n \in 1 .. Len(Pending) /\ m \in n .. Len(Pending) /\ Stream!Fresh(n)
  /\ Pending' = Stream!After(m) /\ previous' = Pending[n]
  /\ Pending[n] \in Faulty /\ Pending[n] # lastEvent /\ lastEvent' = LastAfter(Pending[n])
  /\ lost \/ m # n => lost'
  /\ UNCHANGED <<active, known, flags, owed, owedSet>>

HandlesOne == (\E n \in 1 .. Len(Pending) : HandlesAt(n))
              \/ (\E n, m \in 1 .. Len(Pending) : FailsAt(n, m))

\* A record of the batch in hand is handled.
LEMMA HandledInBatch ==
  ASSUME QueuesTypeOK, Unrepeated(batch) # << >>,
         HandleNext(Unrepeated(batch)), UNCHANGED outputQ
  PROVE  HandlesOne
<1>1. PICK n \in 1 .. Len(batch) :
        /\ batch[n] # previous
        /\ \A i \in 1 .. n - 1 : batch[i] = previous
        /\ Head(Unrepeated(batch)) = batch[n]
        /\ Tail(Unrepeated(batch)) = SubSeq(batch, n + 1, Len(batch))
  BY SomeUnrepeated DEF QueuesTypeOK
<1>2. n \in 1 .. Len(Pending) /\ n \in 0 .. Len(batch) /\ Len(batch) \in n .. Len(Pending)
  BY PendingFacts
<1>3. Stream!Fresh(n) /\ Pending[n] = batch[n]
  <2>1. \A i \in 1 .. n - 1 : i \in 1 .. Len(batch)
    BY <1>2, PendingFacts
  <2>2. Pending[n] = batch[n] /\ \A i \in 1 .. n - 1 : Pending[i] = batch[i]
    BY <2>1, PendingFacts
  <2> QED
    BY <1>1, <2>2 DEF Stream!Fresh
<1>4. previous' = Pending[n]
  BY <1>1, <1>3 DEF HandleNext
<1>5. CASE Handled(Unrepeated(batch))
  <2>1. batch' = SubSeq(batch, n + 1, Len(batch))
    BY <1>1, <1>5 DEF Handled
  <2>2. Pending' = SubSeq(batch, n + 1, Len(batch)) \o outputQ
    BY <2>1 DEF Pending
  <2>3. Pending' = Stream!After(n)
    BY <1>2, <2>2, RestInFirst DEF Stream!After, Pending, QueuesTypeOK
  <2>4. ProcessMessage(Pending[n]) /\ UNCHANGED lost
    BY <1>1, <1>3, <1>5 DEF Handled
  <2> QED
    BY <1>2, <1>3, <1>4, <2>3, <2>4 DEF HandlesAt, HandlesOne
<1>6. CASE Failed(Unrepeated(batch))
  <2>1. batch' = << >> /\ Pending[n] \in Faulty
    BY <1>1, <1>3, <1>6 DEF Failed
  <2>2. Pending' = outputQ
    BY <2>1, ConcatEmptySeq DEF Pending, QueuesTypeOK
  <2>3. SubSeq(Pending, Len(batch) + 1, Len(Pending)) = SubSeq(outputQ, 1, Len(outputQ))
    <3>1. SubSeq(Pending, Len(batch) + 0 + 1, Len(Pending)) = SubSeq(outputQ, 0 + 1, Len(outputQ))
      BY PendingFacts, RestInSecond DEF Pending, QueuesTypeOK
    <3>2. Len(batch) + 0 + 1 = Len(batch) + 1 /\ 0 + 1 = 1
      BY PendingFacts
    <3> QED
      BY <3>1, <3>2
  <2>4. SubSeq(outputQ, 1, Len(outputQ)) = outputQ
    BY SubSeqFull DEF QueuesTypeOK
  <2>5. Pending' = Stream!After(Len(batch))
    BY <2>2, <2>3, <2>4 DEF Stream!After
  <2>6. /\ Pending[n] # lastEvent /\ lastEvent' = LastAfter(Pending[n])
        /\ lost' = (lost \/ SubSeq(batch, n + 1, Len(batch)) # << >>)
        /\ UNCHANGED <<active, known, flags, owed, owedSet>>
    BY <1>1, <1>3, <1>6 DEF Failed
  <2>7. Len(batch) # n => SubSeq(batch, n + 1, Len(batch)) # << >>
    BY RestNotEmpty DEF QueuesTypeOK
  <2>8. Len(batch) \in 1 .. Len(Pending)
    BY <1>2, PendingFacts
  <2> QED
    BY <1>2, <1>3, <1>4, <2>1, <2>5, <2>6, <2>7, <2>8 DEF FailsAt, HandlesOne
<1> QED
  BY <1>5, <1>6 DEF HandleNext

\* The batch in hand is done, and a record of the next one is handled.
LEMMA HandledInNextBatch ==
  ASSUME QueuesTypeOK, Unrepeated(batch) = << >>, Unrepeated(outputQ) # << >>,
         HandleNext(Unrepeated(outputQ)), outputQ' = << >>
  PROVE  HandlesOne
<1>1. PICK k \in 1 .. Len(outputQ) :
        /\ outputQ[k] # previous
        /\ \A i \in 1 .. k - 1 : outputQ[i] = previous
        /\ Head(Unrepeated(outputQ)) = outputQ[k]
        /\ Tail(Unrepeated(outputQ)) = SubSeq(outputQ, k + 1, Len(outputQ))
  BY SomeUnrepeated DEF QueuesTypeOK
<1> DEFINE n == Len(batch) + k
<1>2. /\ k \in 0 .. Len(outputQ) /\ n \in 1 .. Len(Pending) /\ Len(Pending) \in n .. Len(Pending)
      /\ n \in Nat /\ Len(Pending) \in Nat
  BY PendingFacts
<1>3. Stream!Fresh(n) /\ Pending[n] = outputQ[k]
  <2>1. Pending[n] = outputQ[k]
    BY PendingFacts
  <2>2. \A i \in 1 .. Len(batch) : batch[i] = previous
    BY NothingUnrepeated DEF QueuesTypeOK
  <2>3. \A i \in 1 .. n - 1 : Pending[i] = previous
    <3> TAKE i \in 1 .. n - 1
    <3>1. CASE i <= Len(batch)
      <4>1. i \in 1 .. Len(batch)
        BY <3>1, PendingFacts
      <4> QED
        BY <2>2, <4>1, PendingFacts
    <3>2. CASE ~(i <= Len(batch))
      <4>1. i \in Len(batch) + 1 .. Len(Pending) /\ i - Len(batch) \in 1 .. k - 1
        BY <3>2, <1>2, PendingFacts
      <4> QED
        BY <1>1, <4>1, PendingFacts
    <3> QED
      BY <3>1, <3>2
  <2> QED
    BY <1>1, <2>1, <2>3 DEF Stream!Fresh
<1>4. previous' = Pending[n]
  BY <1>1, <1>3 DEF HandleNext
<1>5. CASE Handled(Unrepeated(outputQ))
  <2>1. batch' = SubSeq(outputQ, k + 1, Len(outputQ))
    BY <1>1, <1>5 DEF Handled
  <2>2. SubSeq(Pending, Len(batch) + k + 1, Len(Pending)) = SubSeq(outputQ, k + 1, Len(outputQ))
    BY <1>2, RestInSecond DEF Pending, QueuesTypeOK
  <2>3. SubSeq(outputQ, k + 1, Len(outputQ)) \in Seq(Record)
    <3>1. \A i \in k + 1 .. Len(outputQ) : outputQ[i] \in Record
      BY <1>2, PendingFacts, ElementOfSeq DEF QueuesTypeOK
    <3> QED
      BY <3>1, PendingFacts, SubSeqProperties
  <2>4. Pending' = Stream!After(n)
    BY <2>1, <2>2, <2>3, ConcatEmptySeq DEF Stream!After, Pending
  <2>5. ProcessMessage(Pending[n]) /\ UNCHANGED lost
    BY <1>1, <1>3, <1>5 DEF Handled
  <2> QED
    BY <1>2, <1>3, <1>4, <2>4, <2>5 DEF HandlesAt, HandlesOne
<1>6. CASE Failed(Unrepeated(outputQ))
  <2>1. batch' = << >> /\ Pending[n] \in Faulty
    BY <1>1, <1>3, <1>6 DEF Failed
  <2>2. Pending' = << >>
    BY <2>1, EmptySeq, ConcatEmptySeq DEF Pending
  <2>3. Pending' = Stream!After(Len(Pending))
    BY <1>2, <2>2, SubSeqEmpty DEF Stream!After
  <2>4. /\ Pending[n] # lastEvent /\ lastEvent' = LastAfter(Pending[n])
        /\ lost' = (lost \/ SubSeq(outputQ, k + 1, Len(outputQ)) # << >>)
        /\ UNCHANGED <<active, known, flags, owed, owedSet>>
    BY <1>1, <1>3, <1>6 DEF Failed
  <2>5. Len(Pending) # n => SubSeq(outputQ, k + 1, Len(outputQ)) # << >>
    <3>1. Len(Pending) # n => Len(outputQ) # k
      BY PendingFacts
    <3> QED
      BY <3>1, RestNotEmpty DEF QueuesTypeOK
  <2>6. Len(Pending) \in 1 .. Len(Pending)
    BY <1>2
  <2> HIDE DEF n
  <2> QED
    BY <1>2, <1>3, <1>4, <2>1, <2>3, <2>4, <2>5, <2>6 DEF FailsAt, HandlesOne
<1> QED
  BY <1>5, <1>6 DEF HandleNext

\* Nothing is left but repetitions: they are passed over.
LEMMA AllPassedOver ==
  ASSUME QueuesTypeOK, Unrepeated(batch) = << >>, Unrepeated(outputQ) = << >>,
         WaitAgain, outputQ' = << >>
  PROVE  Pending' = << >> /\ \A i \in 1 .. Len(Pending) : Pending[i] = previous
<1>1. Pending' = << >>
  BY EmptySeq, ConcatEmptySeq DEF Pending, WaitAgain
<1>2. \A i \in 1 .. Len(Pending) : Pending[i] = previous
  <2>1. /\ \A i \in 1 .. Len(batch) : batch[i] = previous
        /\ \A i \in 1 .. Len(outputQ) : outputQ[i] = previous
    BY NothingUnrepeated DEF QueuesTypeOK
  <2> TAKE i \in 1 .. Len(Pending)
  <2>2. CASE i <= Len(batch)
    <3>1. i \in 1 .. Len(batch)
      BY <2>2, PendingFacts
    <3> QED
      BY <2>1, <3>1, PendingFacts
  <2>3. CASE ~(i <= Len(batch))
    <3>1. i \in Len(batch) + 1 .. Len(Pending) /\ i - Len(batch) \in 1 .. Len(outputQ)
      BY <2>3, PendingFacts
    <3> QED
      BY <2>1, <3>1, PendingFacts
  <2> QED
    BY <2>2, <2>3
<1> QED
  BY <1>1, <1>2

\* What the task does from one suspension to the next.
LEMMA Worked ==
  ASSUME QueuesTypeOK, Work
  PROVE  \/ HandlesOne
         \/ /\ WaitAgain /\ Pending' = << >>
            /\ \A i \in 1 .. Len(Pending) : Pending[i] = previous
<1>1. CASE /\ Unrepeated(batch) # << >>
           /\ HandleNext(Unrepeated(batch)) /\ UNCHANGED outputQ
  BY <1>1, HandledInBatch
<1>2. CASE /\ Unrepeated(batch) = << >> /\ Unrepeated(outputQ) # << >>
           /\ HandleNext(Unrepeated(outputQ)) /\ outputQ' = << >>
  BY <1>2, HandledInNextBatch
<1>3. CASE /\ Unrepeated(batch) = << >> /\ Unrepeated(outputQ) = << >>
           /\ WaitAgain /\ outputQ' = << >>
  BY <1>3, AllPassedOver
<1> QED
  BY <1>1, <1>2, <1>3 DEF Work

LEMMA WorkIsAStep ==
  ASSUME QueuesTypeOK, Work
  PROVE  [Stream!Next]_(Stream!vars)
<1>1. CASE \E n \in 1 .. Len(Pending) : HandlesAt(n)
  <2>1. Stream!Handle
    BY <1>1 DEF HandlesAt, Stream!Handle
  <2> QED
    BY <2>1 DEF Stream!Next
<1>2. CASE \E n, m \in 1 .. Len(Pending) : FailsAt(n, m)
  <2>1. Stream!Fail
    BY <1>2 DEF FailsAt, Stream!Fail
  <2> QED
    BY <2>1 DEF Stream!Next
<1>3. CASE /\ WaitAgain /\ Pending' = << >>
           /\ \A i \in 1 .. Len(Pending) : Pending[i] = previous
  <2>1. CASE Pending = << >>
    BY <1>3, <2>1 DEF WaitAgain, Stream!vars
  <2>2. CASE Pending # << >>
    <3>1. Len(Pending) \in Nat /\ Len(Pending) \in 1 .. Len(Pending)
      BY <2>2, PendingFacts, EmptySeq
    <3>2. Pending' = Stream!After(Len(Pending))
      BY <1>3, <3>1, SubSeqEmpty DEF Stream!After
    <3>3. Stream!PassOver
      BY <1>3, <3>1, <3>2 DEF Stream!PassOver, WaitAgain
    <3> QED
      BY <3>3 DEF Stream!Next
  <2> QED
    BY <2>1, <2>2
<1> QED
  BY <1>1, <1>2, <1>3, Worked DEF HandlesOne

LEMMA ForwardIsAStep ==
  ASSUME QueuesTypeOK, NEW r \in Record, Forward(r)
  PROVE  Stream!Next
<1>1. outputQ' = Append(outputQ, r) /\ batch' = batch /\ previous' = previous
  BY DEF Forward, taskVars
<1>2. /\ outputQ' \in Seq(Record) /\ Len(outputQ') = Len(outputQ) + 1
      /\ \A i \in 1 .. Len(outputQ) : outputQ'[i] = outputQ[i]
  BY <1>1, AppendProperties DEF QueuesTypeOK
<1>3. /\ Pending' \in Seq(Record) /\ Len(Pending') = Len(batch) + Len(outputQ')
      /\ \A i \in 1 .. Len(batch) + Len(outputQ') :
           Pending'[i] = IF i <= Len(batch) THEN batch[i] ELSE outputQ'[i - Len(batch)]
  BY <1>1, <1>2, ConcatProperties DEF Pending, QueuesTypeOK
<1>4. Len(Pending) <= Len(Pending')
  BY <1>2, <1>3, PendingFacts
<1>5. \A i \in 1 .. Len(Pending) : Pending'[i] = Pending[i]
  <2> TAKE i \in 1 .. Len(Pending)
  <2>1. i \in 1 .. Len(batch) + Len(outputQ')
    BY <1>2, PendingFacts
  <2>2. CASE i <= Len(batch)
    <3>1. i \in 1 .. Len(batch)
      BY <2>2, PendingFacts
    <3> QED
      BY <1>3, <2>1, <2>2, <3>1, PendingFacts
  <2>3. CASE ~(i <= Len(batch))
    <3>1. i \in Len(batch) + 1 .. Len(Pending) /\ i - Len(batch) \in 1 .. Len(outputQ)
      BY <2>3, PendingFacts
    <3> QED
      BY <1>2, <1>3, <2>1, <2>3, <3>1, PendingFacts
  <2> QED
    BY <2>2, <2>3
<1>6. SubSeq(Pending', 1, Len(Pending)) = Pending
  <2>1. Len(Pending) \in Nat /\ Pending \in Seq(Record)
    BY PendingFacts
  <2>2. \A i \in 1 .. Len(Pending) : Pending'[i] \in Record
    BY <1>5, <2>1, ElementOfSeq
  <2>3. /\ SubSeq(Pending', 1, Len(Pending)) \in Seq(Record)
        /\ Len(SubSeq(Pending', 1, Len(Pending))) = Len(Pending)
        /\ \A i \in 1 .. Len(Pending) : SubSeq(Pending', 1, Len(Pending))[i] = Pending'[i]
    <3>1. /\ SubSeq(Pending', 1, Len(Pending)) \in Seq(Record)
          /\ Len(SubSeq(Pending', 1, Len(Pending)))
               = IF 1 <= Len(Pending) THEN Len(Pending) - 1 + 1 ELSE 0
          /\ \A i \in 1 .. Len(Pending) - 1 + 1 :
               SubSeq(Pending', 1, Len(Pending))[i] = Pending'[1 + i - 1]
      BY <2>1, <2>2, SubSeqProperties
    <3>2. Len(Pending) - 1 + 1 = Len(Pending) /\ \A i \in 1 .. Len(Pending) : 1 + i - 1 = i
      BY <2>1
    <3> QED
      BY <2>1, <3>1, <3>2
  <2> QED
    BY <1>5, <2>1, <2>3, SeqEqual
<1> QED
  BY <1>1, <1>3, <1>4, <1>6 DEF Stream!Next, Stream!Arrive

LEMMA StepsAreSteps ==
  ASSUME QueuesTypeOK, [Next]_vars
  PROVE  [Stream!Next]_(Stream!vars)
<1>1. CASE UNCHANGED <<outputQ, batch, previous>>
  BY <1>1 DEF Stream!vars, Pending
<1>2. CASE Happens \/ ForwardNothing \/ Shutdown \/ UNCHANGED vars
  BY <1>1, <1>2 DEF Happens, ForwardNothing, Shutdown, vars, queueVars, taskVars
<1>3. CASE \E r \in Sendable : Forward(r)
  <2>1. Sendable \subseteq Record
    BY DEF Sendable, Record, QueuesTypeOK
  <2> QED
    BY <1>3, <2>1, ForwardIsAStep
<1>4. CASE Work
  BY <1>4, WorkIsAStep
<1> QED
  BY <1>2, <1>3, <1>4 DEF Next

LEMMA QueuesTypeKept ==
  ASSUME QueuesTypeOK, [Next]_vars
  PROVE  QueuesTypeOK'
<1>1. CASE Happens
  BY <1>1 DEF Happens, QueuesTypeOK, queueVars, taskVars
<1>2. CASE ForwardNothing \/ Shutdown \/ UNCHANGED vars
  BY <1>2 DEF ForwardNothing, Shutdown, vars, queueVars, taskVars, panelVars, QueuesTypeOK
<1>3. CASE \E r \in Sendable : Forward(r)
  <2>1. PICK r \in Sendable : Forward(r)
    BY <1>3
  <2>2. r \in Record
    BY DEF Sendable, Record, QueuesTypeOK
  <2>3. outputQ' \in Seq(Record)
    BY <2>1, <2>2, AppendProperties DEF Forward, QueuesTypeOK
  <2> QED
    BY <2>1, <2>3 DEF Forward, taskVars, QueuesTypeOK
<1>4. CASE Work
  <2>1. event' = event
    BY <1>4 DEF Work, panelVars
  <2>2. << >> \in Seq(Record)
    BY EmptySeq
  <2>3. outputQ' \in Seq(Record)
    BY <1>4, <2>2 DEF Work, QueuesTypeOK
  <2>4. ASSUME NEW records \in Seq(Record), Unrepeated(records) # << >>, HandleNext(Unrepeated(records))
        PROVE  batch' \in Seq(Record)
    <3>1. Tail(Unrepeated(records)) \in Seq(Record)
      <4>1. PICK n \in 1 .. Len(records) :
              Tail(Unrepeated(records)) = SubSeq(records, n + 1, Len(records))
        BY <2>4, SomeUnrepeated
      <4>2. Len(records) \in Nat
        BY LenProperties
      <4>3. \A i \in n + 1 .. Len(records) : records[i] \in Record
        BY <4>2, ElementOfSeq
      <4>4. n + 1 \in Int /\ Len(records) \in Int
        BY <4>2
      <4>5. SubSeq(records, n + 1, Len(records)) \in Seq(Record)
        BY <4>3, <4>4, SubSeqProperties
      <4> QED
        BY <4>1, <4>5
    <3> QED
      BY <2>2, <2>4, <3>1 DEF HandleNext, Handled, Failed
  <2>5. batch' \in Seq(Record)
    BY <1>4, <2>2, <2>4 DEF Work, WaitAgain, QueuesTypeOK
  <2> QED
    BY <2>1, <2>3, <2>5 DEF QueuesTypeOK
<1> QED
  BY <1>1, <1>2, <1>3, <1>4 DEF Next

-----------------------------------------------------------------------------
(* Types *)

LEMMA EventKinds ==
  ASSUME NEW e \in Event
  PROVE  \/ /\ e \in UseEvent /\ e.what \in {"set", "unset", "setPart", "cancel", "alarm"}
            /\ e.by \in Code /\ e.what \notin Flag /\ e \notin TroubleEvent
         \/ /\ e \in TroubleEvent /\ e \notin UseEvent
            /\ e.what \in Flag /\ e.what \in {"tampered", "fault", "battery"} /\ e.by \in Device
         \/ /\ e \in TroubleEvent /\ e \notin UseEvent
            /\ e.what = "ok" /\ e.what \notin Flag /\ e.by \in Flag
         \/ /\ e \in TroubleEvent /\ e \notin UseEvent
            /\ e.what = "over" /\ e.what \notin Flag /\ e.by \in Registered /\ "fault" \in Flag
<1>1. CASE e \in UseEvent
  BY <1>1, EventsAssumption DEF UseEvent, TroubleEvent
<1>2. CASE e \in [what : Flag, by : Device]
  BY <1>2, EventsAssumption DEF UseEvent, TroubleEvent
<1>3. CASE e \in [what : {"ok"}, by : Flag]
  BY <1>3, EventsAssumption DEF UseEvent, TroubleEvent
<1>4. CASE e \in [what : {"over"}, by : IF "fault" \in Flag THEN Registered ELSE {}]
  BY <1>4, EventsAssumption DEF UseEvent, TroubleEvent
<1> QED
  BY <1>1, <1>2, <1>3, <1>4 DEF Event, TroubleEvent

LEMMA NotEvents ==
  /\ Idle \notin Event /\ CodeState \notin Event /\ Other \notin Event
  /\ \A r \in LowState : r \notin Event /\ r.by \in Device /\ "battery" \in Flag
<1>1. Idle.what = "idle" /\ CodeState.what = "code" /\ Other.what = "other"
  BY DEF Idle, CodeState, Other
<1>2. \A r \in LowState : r.what = "low" /\ r.by \in Device /\ "battery" \in Flag
  BY DEF LowState
<1> QED
  BY <1>1, <1>2, EventKinds, EventsAssumption

\* Neither is a report of a discharged battery any of the others.
LEMMA LowStates == Idle \notin LowState /\ CodeState \notin LowState /\ Other \notin LowState
BY DEF Idle, CodeState, Other, LowState

\* What the events about trouble do to a set of <<flag, device>>, as the panel sees it.
AfterTrouble(s, e) ==
  IF e.what \in Flag THEN s \cup {<<e.what, e.by>>}
  ELSE IF e.what \in {"ok", "over"} THEN s \ Ended(e) ELSE s

LEMMA HappensTo ==
  ASSUME NEW e \in Event, MayHappen(e), trouble \subseteq Flag \X Device,
         sections \in {"unset", "part", "all"}
  PROVE  /\ trouble' = AfterTrouble(trouble, e) /\ trouble' \subseteq Flag \X Device
         /\ sections' \in {"unset", "part", "all"}
BY EventKinds DEF MayHappen, AfterTrouble

LEMMA OwesTyped ==
  ASSUME owed \in [Code -> Int], owedSet \in [Code -> Int], fresh => event \in Event, NEW r, Owes(r)
  PROVE  owed' \in [Code -> Int] /\ owedSet' \in [Code -> Int]
<1>1. CASE fresh /\ r = event
  <2>1. r \in Event
    BY <1>1
  <2>2. CASE r.what \in {"unset", "cancel"}
    BY <1>1, <2>1, <2>2, EventKinds, EventsAssumption DEF Owes
  <2>3. CASE r.what \in {"set", "setPart"}
    BY <1>1, <2>1, <2>3, EventKinds, EventsAssumption DEF Owes
  <2>4. CASE r.what \notin {"unset", "cancel", "set", "setPart"}
    BY <2>4 DEF Owes
  <2> QED
    BY <2>2, <2>3, <2>4
<1>2. CASE ~(fresh /\ r = event)
  BY <1>2 DEF Owes
<1> QED
  BY <1>1, <1>2

UnitTypeOK ==
  /\ lastEvent \in Event \cup {None}
  /\ active \subseteq known /\ known \subseteq Code
  /\ flags \subseteq Flag \X Device
  /\ owed \in [Code -> Int] /\ owedSet \in [Code -> Int]

\* What a record that is no new event does to the flags.
FlagsKept(r) ==
  \/ UNCHANGED flags
  \/ r \in LowState /\ flags' = flags \cup {<<"battery", r.by>>}

\* What handling a record does, by what it is.
LEMMA MessageProcessed ==
  ASSUME NEW r \in Record, ProcessMessage(r)
  PROVE  \/ r \in UseEvent /\ r # lastEvent /\ lastEvent' = r /\ CodeUsed(r)
         \/ /\ r \in TroubleEvent /\ r # lastEvent /\ lastEvent' = r
            /\ flags' = FlagsAfter(r) /\ UNCHANGED <<active, known, owed, owedSet>>
         \/ /\ r \notin Event \/ r = lastEvent
            /\ UNCHANGED <<lastEvent, known, owed, owedSet>>
            /\ active' = active \/ active' = Cleared(active)
            /\ FlagsKept(r)
<1>1. CASE r \in Event /\ r # lastEvent /\ lastEvent' = r /\ ProcessEvent(r)
  BY <1>1 DEF ProcessEvent, NothingRecorded
<1>2. CASE r = lastEvent /\ UNCHANGED unitVars /\ NothingRecorded
  BY <1>2 DEF NothingRecorded, unitVars, FlagsKept
<1>3. CASE r \notin Event /\ ProcessState(r)
  BY <1>3 DEF ProcessState, NothingRecorded, FlagsKept
<1> QED
  BY <1>1, <1>2, <1>3 DEF ProcessMessage

LEMMA CodeUsedTyped ==
  ASSUME UnitTypeOK, NEW e \in UseEvent, CodeUsed(e)
  PROVE  /\ UNCHANGED flags /\ active' \subseteq known' /\ known' \subseteq Code
         /\ owed' \in [Code -> Int] /\ owedSet' \in [Code -> Int]
<1>1. e.by \in Code /\ e.what \in {"set", "unset", "setPart", "cancel", "alarm"} /\ UNCHANGED flags
  BY DEF UseEvent, CodeUsed
<1>2. CASE e.what \in {"set", "setPart"}
  BY <1>1, <1>2 DEF CodeUsed, ActivateCode, Cleared, UnitTypeOK
<1>3. CASE e.what \in {"unset", "cancel"}
  BY <1>1, <1>3 DEF CodeUsed, RecordCodeUse, Cleared, UnitTypeOK
<1> QED
  BY <1>1, <1>2, <1>3 DEF CodeUsed

LEMMA ProcessTyped ==
  ASSUME UnitTypeOK, NEW r \in Record, ProcessMessage(r)
  PROVE  UnitTypeOK'
<1>1. CASE r \in UseEvent /\ lastEvent' = r /\ CodeUsed(r)
  BY <1>1, CodeUsedTyped DEF UnitTypeOK, Event
<1>2. CASE /\ r \in TroubleEvent /\ lastEvent' = r
           /\ flags' = FlagsAfter(r) /\ UNCHANGED <<active, known, owed, owedSet>>
  <2>1. r \in Event
    BY <1>2 DEF Event
  <2>2. flags' \subseteq Flag \X Device
    BY <1>2, <2>1, EventKinds DEF FlagsAfter, UnitTypeOK
  <2> QED
    BY <1>2, <2>1, <2>2 DEF UnitTypeOK
<1>3. CASE /\ UNCHANGED <<lastEvent, known, owed, owedSet>>
           /\ active' = active \/ active' = Cleared(active)
           /\ FlagsKept(r)
  <2>1. flags' \subseteq Flag \X Device
    BY <1>3, NotEvents DEF FlagsKept, UnitTypeOK
  <2> QED
    BY <1>3, <2>1 DEF UnitTypeOK, Cleared
<1> QED
  BY <1>1, <1>2, <1>3, MessageProcessed

\* What happens is an event; a record handled last that is an event is the event handled last.
LastInv ==
  /\ fresh => event \in Event
  /\ previous \in Event => previous = lastEvent

LEMMA TypesApart == TypeOK => UnitTypeOK /\ QueuesTypeOK
BY DEF TypeOK, UnitTypeOK, QueuesTypeOK

LEMMA ForwardFacts ==
  ASSUME TypeOK, LastInv, NEW r \in Sendable, Forward(r)
  PROVE  /\ r \in Record /\ (r \in Event => r = event)
         /\ r \in LowState => ~fresh /\ <<"battery", r.by>> \in trouble
         /\ outputQ' \in Seq(Record) /\ owed' \in [Code -> Int] /\ owedSet' \in [Code -> Int]
         /\ Owes(r) /\ fresh' = (fresh /\ r # event) /\ messages' = TRUE
         /\ UNCHANGED <<sections, trouble, event, taskVars, stop, unitVars, lost>>
<1>1. r \in Record /\ (r \in Event => r = event)
  BY NotEvents DEF Sendable, Record, TypeOK
<1>1a. r \in LowState => ~fresh /\ <<"battery", r.by>> \in trouble
  <2>1. r \in LowState /\ event # None => event \in Event /\ r # event
    BY NotEvents DEF TypeOK
  <2> QED
    BY <2>1, LowStates DEF Sendable
<1>2. outputQ' \in Seq(Record)
  BY <1>1, AppendProperties DEF Forward, TypeOK
<1>3. owed' \in [Code -> Int] /\ owedSet' \in [Code -> Int]
  BY OwesTyped DEF Forward, TypeOK, LastInv
<1> QED
  BY <1>1, <1>1a, <1>2, <1>3 DEF Forward

LEMMA PendingRecords ==
  ASSUME QueuesTypeOK, NEW n \in 1 .. Len(Pending)
  PROVE  Pending[n] \in Record
BY PendingFacts, ElementOfSeq

LEMMA WorkTyped ==
  ASSUME TypeOK, Work
  PROVE  /\ UnitTypeOK' /\ previous' \in Record \cup {None}
<1>1. ASSUME NEW n \in 1 .. Len(Pending), HandlesAt(n)
      PROVE  UnitTypeOK' /\ previous' \in Record \cup {None}
  <2>1. Pending[n] \in Record /\ UnitTypeOK
    BY TypesApart, PendingRecords
  <2> QED
    BY <1>1, <2>1, ProcessTyped DEF HandlesAt
<1>2. ASSUME NEW n \in 1 .. Len(Pending), NEW m \in 1 .. Len(Pending), FailsAt(n, m)
      PROVE  UnitTypeOK' /\ previous' \in Record \cup {None}
  <2>1. Pending[n] \in Record /\ UnitTypeOK
    BY TypesApart, PendingRecords
  <2>2. lastEvent' \in Event \cup {None}
    BY <1>2, <2>1 DEF FailsAt, LastAfter, UnitTypeOK
  <2> QED
    BY <1>2, <2>1, <2>2 DEF FailsAt, UnitTypeOK
<1>3. CASE WaitAgain
  BY <1>3, TypesApart DEF WaitAgain, UnitTypeOK, TypeOK, unitVars, history
<1> QED
  BY <1>1, <1>2, <1>3, Worked, TypesApart DEF HandlesOne

LEMMA TypesStep ==
  ASSUME TypeOK, LastInv, [Next]_vars
  PROVE  TypeOK'
<1> USE DEF panelVars, queueVars, taskVars, unitVars, history
<1>1. CASE Happens
  <2>1. PICK e \in Event : MayHappen(e) /\ event' = e
    BY <1>1 DEF Happens
  <2>2. trouble' \subseteq Flag \X Device /\ sections' \in {"unset", "part", "all"}
    BY <2>1, HappensTo DEF TypeOK
  <2>3. event' \in Event /\ fresh' = TRUE
        /\ UNCHANGED <<queueVars, taskVars, stop, unitVars, history>>
    BY <1>1, <2>1 DEF Happens
  <2> QED
    BY <2>2, <2>3 DEF TypeOK
<1>2. CASE \E r \in Sendable : Forward(r)
  <2>1. PICK r \in Sendable : Forward(r)
    BY <1>2
  <2>2. /\ outputQ' \in Seq(Record) /\ owed' \in [Code -> Int] /\ owedSet' \in [Code -> Int]
        /\ fresh' \in BOOLEAN /\ messages' = TRUE
        /\ UNCHANGED <<sections, trouble, event, taskVars, stop, unitVars, lost>>
    BY <2>1, ForwardFacts
  <2> QED
    BY <2>2 DEF TypeOK
<1>3. CASE ForwardNothing \/ Shutdown \/ UNCHANGED vars
  BY <1>3 DEF ForwardNothing, Shutdown, vars, TypeOK
<1>4. CASE Work
  <2>1. QueuesTypeOK'
    BY <1>4, QueuesTypeKept, TypesApart DEF Next
  <2>2. UnitTypeOK' /\ previous' \in Record \cup {None} /\ UNCHANGED <<panelVars, stop>>
    BY <1>4, WorkTyped DEF Work
  <2>3. /\ messages' \in BOOLEAN /\ lost' \in BOOLEAN
        /\ pc' \in {"waiting", "between", "ended"} /\ (pc' = "waiting" => batch' = << >>)
    <3>1. ASSUME NEW records, HandleNext(records)
          PROVE  /\ messages' \in BOOLEAN /\ lost' \in BOOLEAN
                 /\ pc' \in {"waiting", "between", "ended"} /\ (pc' = "waiting" => batch' = << >>)
      BY <3>1 DEF HandleNext, Handled, Failed, TypeOK
    <3>2. CASE WaitAgain
      BY <3>2 DEF WaitAgain, TypeOK
    <3> QED
      BY <1>4, <3>1, <3>2 DEF Work
  <2> QED
    BY <2>1, <2>2, <2>3 DEF TypeOK, UnitTypeOK, QueuesTypeOK
<1> QED
  BY <1>1, <1>2, <1>3, <1>4 DEF Next

LEMMA LastStep ==
  ASSUME TypeOK, LastInv, [Next]_vars
  PROVE  LastInv'
<1> USE DEF panelVars, queueVars, taskVars, unitVars, history
<1>1. CASE Happens
  BY <1>1 DEF Happens, LastInv
<1>2. CASE \E r \in Sendable : Forward(r)
  BY <1>2 DEF Forward, LastInv
<1>3. CASE ForwardNothing \/ Shutdown \/ UNCHANGED vars
  BY <1>3 DEF ForwardNothing, Shutdown, vars, LastInv
<1>4. CASE Work
  <2>1. UNCHANGED <<event, fresh>>
    BY <1>4 DEF Work
  <2>2. ASSUME NEW n \in 1 .. Len(Pending), HandlesAt(n), previous' \in Event
        PROVE  previous' = lastEvent'
    BY <2>2, MessageProcessed, TypesApart, PendingRecords DEF HandlesAt
  <2>3. ASSUME NEW n \in 1 .. Len(Pending), NEW m \in 1 .. Len(Pending), FailsAt(n, m),
               previous' \in Event
        PROVE  previous' = lastEvent'
    BY <2>3 DEF FailsAt, LastAfter
  <2>4. CASE WaitAgain
    BY <2>1, <2>4 DEF WaitAgain, LastInv
  <2> QED
    BY <1>4, <2>1, <2>2, <2>3, <2>4, Worked, TypesApart DEF HandlesOne, LastInv
<1> QED
  BY <1>1, <1>2, <1>3, <1>4 DEF Next

-----------------------------------------------------------------------------
(* What happened, and how far it has been told and recorded *)

\* How much of what happened has been sent.
Sent(K) == IF fresh THEN K - 1 ELSE K

\* K things happened, ev[1] to ev[K], no two in a row the same.
Happened(K, ev) ==
  /\ ev[K] = event
  /\ \A k \in 1 .. K : ev[k] \in Event /\ ev[k] # ev[k - 1]
  /\ fresh => K # 0

\* The pending records tell of them in order, the j-th record of ev[occ[j]]; the event
\* handled last is ev[o].
Placed(K, o, ev, occ) ==
  /\ o \in 0 .. Sent(K) /\ lastEvent = ev[o]
  /\ \A j \in 1 .. Len(Pending) :
       Pending[j] \in Event => occ[j] \in o .. Sent(K) /\ ev[occ[j]] = Pending[j]
  /\ \A i, j \in 1 .. Len(Pending) :
       i <= j /\ Pending[i] \in Event /\ Pending[j] \in Event => occ[i] <= occ[j]

\* Whatever was sent and not handled is pending.
AllPending(K, o, occ) ==
  \A k \in o + 1 .. Sent(K) : \E j \in 1 .. Len(Pending) : Pending[j] \in Event /\ occ[j] = k

\* How many of the events after the k-th are about code c.
Disarms == {"unset", "cancel"}
Settings == {"set", "setPart"}
One(e, kinds, c) == IF e.what \in kinds /\ e.by = c THEN 1 ELSE 0
Tally(s, ev, kinds, c, cnt) ==
  /\ cnt \in [Nat -> Nat] /\ cnt[s] = 0
  /\ \A k \in 1 .. s : cnt[k - 1] = cnt[k] + One(ev[k], kinds, c)
  /\ \A j, k \in 0 .. s : j <= k => cnt[k] <= cnt[j]

OwedInv(K, o, ev, c) ==
  /\ \E cnt : /\ Tally(Sent(K), ev, Disarms, c, cnt)
              /\ cnt[o] <= owed[c] /\ (~lost => owed[c] = cnt[o])
  /\ \E cnt : Tally(Sent(K), ev, Settings, c, cnt) /\ cnt[o] <= owedSet[c]

\* The reports of a discharged battery: the j-th record was sent after ev[occ[j]], which has
\* been handled or waits before it, and before the events after that.
ReportsPlaced(o, occ) ==
  \A j \in 1 .. Len(Pending) : Pending[j] \in LowState =>
    /\ \A i \in 1 .. j : Pending[i] \in Event => occ[i] <= occ[j]
    /\ occ[j] = o \/ \E i \in 1 .. j : Pending[i] \in Event /\ occ[i] = occ[j]

\* The battery was discharged then.
ReportsTrue(K, occ, now) ==
  \A j \in 1 .. Len(Pending) : Pending[j] \in LowState =>
    occ[j] \in 0 .. K /\ <<"battery", Pending[j].by>> \in now[occ[j]]

\* The trouble there was after each event; the flags show that after the event handled last.
Course(K, ev, now) ==
  /\ now \in [Nat -> SUBSET (Flag \X Device)]
  /\ now[K] = trouble
  /\ \A k \in 1 .. K : now[k] = AfterTrouble(now[k - 1], ev[k])
Shown(o, now) == \A t \in Flag \X Registered : t \in flags <=> t \in now[o]
FlagInv(K, o, ev, occ) ==
  \E now : Course(K, ev, now) /\ ReportsTrue(K, occ, now) /\ (~lost => Shown(o, now))

Story(K, o, ev, occ) ==
  /\ Happened(K, ev) /\ Placed(K, o, ev, occ)
  /\ ~lost => AllPending(K, o, occ) /\ ReportsPlaced(o, occ)
  /\ \A c \in Code : OwedInv(K, o, ev, c)
  /\ FlagInv(K, o, ev, occ)

StoryInv ==
  \E K, o \in Nat, ev \in [Nat -> Event \cup {None}], occ \in [Nat -> Nat] : Story(K, o, ev, occ)

LEMMA InitStory == Init => StoryInv
<1> SUFFICES ASSUME Init PROVE StoryInv
  OBVIOUS
<1> DEFINE ev == [k \in Nat |-> None]
           zero == [k \in Nat |-> 0]
           none == [k \in Nat |-> {}]
<1>0. /\ event = None /\ fresh = FALSE /\ lastEvent = None /\ lost = FALSE /\ trouble = {}
      /\ flags = {} /\ \A c \in Code : owed[c] = 0 /\ owedSet[c] = 0
  BY DEF Init
<1>1. Len(Pending) = 0
  BY EmptySeq, ConcatEmptySeq DEF Init, Pending
<1>2. /\ Happened(0, ev) /\ Placed(0, 0, ev, zero) /\ AllPending(0, 0, zero)
      /\ ReportsPlaced(0, zero)
  BY <1>0, <1>1 DEF Happened, Placed, AllPending, ReportsPlaced, Sent
<1>3. \A c \in Code : \A kinds : Tally(0, ev, kinds, c, zero)
  BY DEF Tally
<1>4. \A c \in Code : OwedInv(0, 0, ev, c)
  <2> TAKE c \in Code
  <2>1. Sent(0) = 0 /\ zero[0] = 0 /\ owed[c] = 0 /\ owedSet[c] = 0
    BY <1>0 DEF Sent
  <2>2. Tally(0, ev, Disarms, c, zero) /\ Tally(0, ev, Settings, c, zero)
    BY <1>3
  <2> HIDE DEF zero, ev
  <2>3. zero[0] <= owed[c] /\ zero[0] <= owedSet[c]
    BY <2>1
  <2> QED
    BY <2>1, <2>2, <2>3 DEF OwedInv
<1>5. FlagInv(0, 0, ev, zero)
  <2>1. none \in [Nat -> SUBSET (Flag \X Device)] /\ none[0] = {}
    OBVIOUS
  <2> HIDE DEF none, zero, ev
  <2>2. Course(0, ev, none) /\ Shown(0, none) /\ ReportsTrue(0, zero, none)
    BY <1>0, <1>1, <2>1 DEF Course, Shown, ReportsTrue
  <2> QED
    BY <2>2 DEF FlagInv
<1>6. ev \in [Nat -> Event \cup {None}] /\ zero \in [Nat -> Nat]
  OBVIOUS
<1> HIDE DEF ev, zero, none
<1> QED
  BY <1>2, <1>4, <1>5, <1>6 DEF StoryInv, Story

\* Tallies over the same events are the same.
LEMMA TallySame ==
  ASSUME NEW s \in Nat, NEW ev, NEW ev2, NEW kinds, NEW c, NEW cnt, Tally(s, ev, kinds, c, cnt),
         \A k \in 1 .. s : ev2[k] = ev[k]
  PROVE  Tally(s, ev2, kinds, c, cnt)
BY DEF Tally

\* One more event is told of: it counts for everything before it.
LEMMA TallyMore ==
  ASSUME NEW s \in Nat, NEW ev, NEW kinds, NEW c, NEW cnt, Tally(s, ev, kinds, c, cnt)
  PROVE  \E cnt2 : /\ Tally(s + 1, ev, kinds, c, cnt2)
                   /\ \A k \in 0 .. s : cnt2[k] = cnt[k] + One(ev[s + 1], kinds, c)
<1> DEFINE d == One(ev[s + 1], kinds, c)
           cnt2 == [k \in Nat |-> IF k <= s THEN cnt[k] + d ELSE 0]
<1>1. d \in Nat
  BY DEF One
<1> HIDE DEF d
<1>2. cnt \in [Nat -> Nat] /\ cnt[s] = 0
  BY DEF Tally
<1>3. cnt2 \in [Nat -> Nat] /\ cnt2[s + 1] = 0 /\ \A k \in 0 .. s : cnt2[k] = cnt[k] + d
  BY <1>1, <1>2
<1> HIDE DEF cnt2
<1>4. \A k \in 1 .. s + 1 : cnt2[k - 1] = cnt2[k] + One(ev[k], kinds, c)
  <2> TAKE k \in 1 .. s + 1
  <2>1. CASE k = s + 1
    BY <1>1, <1>2, <1>3, <2>1 DEF d
  <2>2. CASE k # s + 1
    <3>1. k \in 1 .. s /\ k \in 0 .. s /\ k - 1 \in 0 .. s /\ k \in Nat /\ k - 1 \in Nat
      BY <2>2
    <3>2. cnt[k - 1] = cnt[k] + One(ev[k], kinds, c) /\ One(ev[k], kinds, c) \in Nat
      BY <3>1 DEF Tally, One
    <3> QED
      BY <1>1, <1>2, <1>3, <3>1, <3>2
  <2> QED
    BY <2>1, <2>2
<1>5. \A j, k \in 0 .. s + 1 : j <= k => cnt2[k] <= cnt2[j]
  <2> TAKE j, k \in 0 .. s + 1
  <2>1. CASE k = s + 1
    BY <1>3, <2>1
  <2>2. CASE k # s + 1 /\ j <= k
    <3>1. j \in 0 .. s /\ k \in 0 .. s /\ j \in Nat /\ k \in Nat
      BY <2>2
    <3>2. cnt[k] <= cnt[j]
      BY <2>2, <3>1 DEF Tally
    <3> QED
      BY <1>1, <1>2, <1>3, <3>1, <3>2
  <2> QED
    BY <2>1, <2>2
<1> QED
  BY <1>3, <1>4, <1>5 DEF Tally, d

-----------------------------------------------------------------------------
(* What happens, and what is sent *)

LEMMA StoryHappens ==
  ASSUME TypeOK, StoryInv, Happens
  PROVE  StoryInv'
<1>1. PICK K \in Nat, o \in Nat, ev \in [Nat -> Event \cup {None}], occ \in [Nat -> Nat] :
        Story(K, o, ev, occ)
  BY DEF StoryInv
<1>2. PICK e \in Event \ {event} : MayHappen(e) /\ event' = e
  BY DEF Happens
<1>3. /\ fresh = FALSE /\ fresh' = TRUE
      /\ UNCHANGED <<Pending, lastEvent, owed, owedSet, lost, flags>>
  BY DEF Happens, queueVars, taskVars, unitVars, history, Pending, TypeOK
<1> DEFINE ev2 == [ev EXCEPT ![K + 1] = e]
<1>4. /\ ev2 \in [Nat -> Event \cup {None}] /\ ev2[K + 1] = e
      /\ \A k \in 0 .. K : ev2[k] = ev[k]
  OBVIOUS
<1> HIDE DEF ev2
<1>5. Sent(K) = K /\ Sent(K + 1)' = K
  BY <1>3 DEF Sent
<1>6. Happened(K + 1, ev2)'
  <2>1. ASSUME NEW k \in 1 .. K + 1 PROVE ev2[k] \in Event /\ ev2[k] # ev2[k - 1]
    <3>1. CASE k = K + 1
      <4>1. ev2[k - 1] = event
        BY <1>1, <1>4, <3>1 DEF Story, Happened
      <4> QED
        BY <1>2, <1>4, <3>1, <4>1
    <3>2. CASE k # K + 1
      <4>1. k \in 1 .. K /\ k \in 0 .. K /\ k - 1 \in 0 .. K
        BY <3>2
      <4> QED
        BY <1>1, <1>4, <4>1 DEF Story, Happened
    <3> QED
      BY <3>1, <3>2
  <2>2. K + 1 # 0
    OBVIOUS
  <2> QED
    BY <1>2, <1>4, <2>1, <2>2 DEF Happened
<1>7. Placed(K + 1, o, ev2, occ)'
  <2>1. o \in 0 .. K /\ lastEvent = ev[o]
    BY <1>1, <1>5 DEF Story, Placed
  <2>2. \A j \in 1 .. Len(Pending) :
          Pending[j] \in Event => occ[j] \in o .. K /\ ev[occ[j]] = Pending[j]
    BY <1>1, <1>5 DEF Story, Placed
  <2>3. \A x \in o .. K : x \in 0 .. K
    BY <2>1
  <2>4. \A j \in 1 .. Len(Pending) :
          Pending[j] \in Event => occ[j] \in o .. K /\ ev2[occ[j]] = Pending[j]
    BY <1>4, <2>2, <2>3
  <2>5. \A i, j \in 1 .. Len(Pending) :
          i <= j /\ Pending[i] \in Event /\ Pending[j] \in Event => occ[i] <= occ[j]
    BY <1>1 DEF Story, Placed
  <2> QED
    BY <1>3, <1>4, <1>5, <2>1, <2>4, <2>5 DEF Placed
<1>8. ~lost' => AllPending(K + 1, o, occ)' /\ ReportsPlaced(o, occ)'
  <2> SUFFICES ASSUME ~lost' PROVE AllPending(K + 1, o, occ)' /\ ReportsPlaced(o, occ)'
    OBVIOUS
  <2>1. AllPending(K, o, occ) /\ ReportsPlaced(o, occ)
    BY <1>1, <1>3 DEF Story
  <2> QED
    BY <1>3, <1>5, <2>1 DEF AllPending, ReportsPlaced
<1>9. \A c \in Code : OwedInv(K + 1, o, ev2, c)'
  <2> TAKE c \in Code
  <2>1. OwedInv(K, o, ev, c) /\ \A k \in 1 .. K : ev2[k] = ev[k]
    BY <1>1, <1>4 DEF Story
  <2>2. ASSUME NEW kinds, NEW cnt, Tally(K, ev, kinds, c, cnt)
        PROVE  Tally(K, ev2, kinds, c, cnt)
    BY <2>1, <2>2, TallySame
  <2> QED
    BY <1>3, <1>5, <2>1, <2>2 DEF OwedInv
<1>10. FlagInv(K + 1, o, ev2, occ)'
  <2>1. PICK now : Course(K, ev, now) /\ ReportsTrue(K, occ, now) /\ (~lost => Shown(o, now))
    BY <1>1 DEF Story, FlagInv
  <2>2. trouble' = AfterTrouble(trouble, e) /\ trouble' \subseteq Flag \X Device
    BY <1>2, HappensTo DEF TypeOK
  <2>3. PICK now2 \in [Nat -> SUBSET (Flag \X Device)] :
          now2[K + 1] = trouble' /\ \A k \in 0 .. K : now2[k] = now[k]
    <3> DEFINE n2 == [now EXCEPT ![K + 1] = trouble']
    <3>1. /\ n2 \in [Nat -> SUBSET (Flag \X Device)] /\ n2[K + 1] = trouble'
          /\ \A k \in 0 .. K : n2[k] = now[k]
      BY <2>1, <2>2 DEF Course
    <3> HIDE DEF n2
    <3> QED
      BY <3>1
  <2>4. ASSUME NEW k \in 1 .. K + 1 PROVE now2[k] = AfterTrouble(now2[k - 1], ev2[k])
    <3>1. CASE k = K + 1
      <4>1. k - 1 = K /\ K \in 0 .. K
        BY <3>1
      <4> QED
        BY <1>4, <2>1, <2>2, <2>3, <3>1, <4>1 DEF Course
    <3>2. CASE k # K + 1
      <4>1. k \in 1 .. K /\ k \in 0 .. K /\ k - 1 \in 0 .. K
        BY <3>2
      <4> QED
        BY <1>4, <2>1, <2>3, <4>1 DEF Course
    <3> QED
      BY <3>1, <3>2
  <2>5. now2[o] = now[o]
    BY <1>1, <1>5, <2>3 DEF Story, Placed
  <2>6. Course(K + 1, ev2, now2)'
    BY <2>3, <2>4 DEF Course
  <2>7. ReportsTrue(K + 1, occ, now2)'
    <3>1. 0 .. K \subseteq 0 .. K + 1
      OBVIOUS
    <3> QED
      BY <1>3, <2>1, <2>3, <3>1 DEF ReportsTrue
  <2>8. ~lost' => Shown(o, now2)'
    BY <1>3, <2>1, <2>5 DEF Shown
  <2> QED
    BY <2>6, <2>7, <2>8 DEF FlagInv
<1> QED
  <2>1. K + 1 \in Nat
    OBVIOUS
  <2>2. Story(K + 1, o, ev2, occ)'
    BY <1>6, <1>7, <1>8, <1>9, <1>10 DEF Story
  <2> QED
    BY <1>4, <2>1, <2>2 DEF StoryInv

LEMMA UpTo ==
  ASSUME NEW n \in Nat
  PROVE  \A i \in 1 .. n + 1 : i \in Nat /\ (i # n + 1 => i \in 1 .. n)
OBVIOUS

\* Sending an event of a code makes one more use of it owed, and its tally one more, too.
LEMMA OwesOne ==
  ASSUME owed \in [Code -> Int], owedSet \in [Code -> Int], fresh, NEW r \in Event, r = event,
         Owes(r), NEW c \in Code
  PROVE  /\ owed'[c] = owed[c] + One(r, Disarms, c)
         /\ owedSet'[c] = owedSet[c] + One(r, Settings, c)
<1>1. r.what \in Disarms \cup Settings => r.by \in Code
  BY EventKinds, EventsAssumption DEF Disarms, Settings
<1>2. owed'[c] = owed[c] + One(r, Disarms, c)
  <2>1. owed' = IF r.what \in Disarms THEN [owed EXCEPT ![r.by] = owed[r.by] + 1] ELSE owed
    BY DEF Owes, Disarms
  <2>2. CASE r.what \in Disarms /\ r.by = c
    BY <2>1, <2>2 DEF One
  <2>3. CASE r.what \in Disarms /\ r.by # c
    BY <2>1, <2>3 DEF One
  <2>4. CASE r.what \notin Disarms
    BY <2>1, <2>4 DEF One
  <2> QED
    BY <2>2, <2>3, <2>4
<1>3. owedSet'[c] = owedSet[c] + One(r, Settings, c)
  <2>1. owedSet' = IF r.what \in Settings THEN [owedSet EXCEPT ![r.by] = owedSet[r.by] + 1] ELSE owedSet
    BY DEF Owes, Settings
  <2>2. CASE r.what \in Settings /\ r.by = c
    BY <2>1, <2>2 DEF One
  <2>3. CASE r.what \in Settings /\ r.by # c
    BY <2>1, <2>3 DEF One
  <2>4. CASE r.what \notin Settings
    BY <2>1, <2>4 DEF One
  <2> QED
    BY <2>2, <2>3, <2>4
<1> QED
  BY <1>2, <1>3

LEMMA TalliedMore ==
  ASSUME NEW s \in Nat, NEW ev, NEW kinds, NEW c, NEW cnt, Tally(s, ev, kinds, c, cnt),
         NEW o \in 0 .. s, NEW a \in Int, cnt[o] <= a
  PROVE  \E cnt2 : /\ Tally(s + 1, ev, kinds, c, cnt2)
                   /\ cnt2[o] <= a + One(ev[s + 1], kinds, c)
                   /\ a = cnt[o] => a + One(ev[s + 1], kinds, c) = cnt2[o]
<1> PICK d : d = One(ev[s + 1], kinds, c)
  OBVIOUS
<1>1. d \in Nat /\ cnt[o] \in Nat
  BY DEF One, Tally
<1>2. PICK cnt2 : Tally(s + 1, ev, kinds, c, cnt2) /\ cnt2[o] = cnt[o] + d
  BY TallyMore
<1>3. cnt2[o] <= a + d /\ (a = cnt[o] => a + d = cnt2[o])
  BY <1>1, <1>2
<1> QED
  BY <1>2, <1>3

LEMMA OwedMore ==
  ASSUME NEW p \in Nat, NEW o \in 0 .. p, NEW ev, NEW c, OwedInv(p + 1, o, ev, c),
         Sent(p + 1) = p, Sent(p + 1)' = p + 1, UNCHANGED lost,
         owed[c] \in Int, owed'[c] = owed[c] + One(ev[p + 1], Disarms, c),
         owedSet[c] \in Int, owedSet'[c] = owedSet[c] + One(ev[p + 1], Settings, c)
  PROVE  OwedInv(p + 1, o, ev, c)'
<1>1. PICK cnt : Tally(p, ev, Disarms, c, cnt) /\ cnt[o] <= owed[c] /\ (~lost => owed[c] = cnt[o])
  BY DEF OwedInv
<1>2. PICK cnt2 : /\ Tally(p + 1, ev, Disarms, c, cnt2)
                  /\ cnt2[o] <= owed[c] + One(ev[p + 1], Disarms, c)
                  /\ owed[c] = cnt[o] => owed[c] + One(ev[p + 1], Disarms, c) = cnt2[o]
  BY <1>1, TalliedMore
<1>3. PICK cntS : Tally(p, ev, Settings, c, cntS) /\ cntS[o] <= owedSet[c]
  BY DEF OwedInv
<1>4. PICK cntS2 : Tally(p + 1, ev, Settings, c, cntS2)
                   /\ cntS2[o] <= owedSet[c] + One(ev[p + 1], Settings, c)
  BY <1>3, TalliedMore
<1>5. cnt2[o] <= owed'[c] /\ (~lost' => owed'[c] = cnt2[o])
  BY <1>1, <1>2
<1> QED
  BY <1>2, <1>4, <1>5 DEF OwedInv

LEMMA PendingGrows ==
  ASSUME QueuesTypeOK, NEW r \in Record, outputQ' = Append(outputQ, r), batch' = batch
  PROVE  /\ Len(Pending) \in Nat /\ Len(Pending') = Len(Pending) + 1
         /\ Pending'[Len(Pending) + 1] = r
         /\ \A i \in 1 .. Len(Pending) : Pending'[i] = Pending[i]
<1>1. /\ outputQ' \in Seq(Record) /\ Len(outputQ') = Len(outputQ) + 1
      /\ outputQ'[Len(outputQ) + 1] = r
      /\ \A i \in 1 .. Len(outputQ) : outputQ'[i] = outputQ[i]
  BY AppendProperties DEF QueuesTypeOK
<1>2. Len(Pending') = Len(batch) + Len(outputQ')
      /\ \A i \in 1 .. Len(batch) + Len(outputQ') :
           Pending'[i] = IF i <= Len(batch) THEN batch[i] ELSE outputQ'[i - Len(batch)]
  BY <1>1, ConcatProperties DEF QueuesTypeOK, Pending
<1> PICK b, q : b = Len(batch) /\ q = Len(outputQ)
  OBVIOUS
<1>3. b \in Nat /\ q \in Nat /\ Len(Pending) = b + q
  BY PendingFacts
<1>4. Pending'[b + q + 1] = r
  <2>1. b + q + 1 \in 1 .. b + (q + 1) /\ ~(b + q + 1 <= b) /\ b + q + 1 - b = q + 1
    BY <1>3
  <2> QED
    BY <1>1, <1>2, <2>1
<1>5. \A i \in 1 .. b + q : Pending'[i] = Pending[i]
  <2> TAKE i \in 1 .. b + q
  <2>1. i \in 1 .. b + (q + 1)
    BY <1>3
  <2>2. CASE i <= b
    <3>1. i \in 1 .. b
      BY <1>3, <2>2
    <3> QED
      BY <1>1, <1>2, <2>1, <2>2, <3>1, PendingFacts
  <2>3. CASE ~(i <= b)
    <3>1. i - b \in 1 .. q /\ i \in b + 1 .. b + q
      BY <1>3, <2>3
    <3> QED
      BY <1>1, <1>2, <1>3, <2>1, <2>3, <3>1, PendingFacts
  <2> QED
    BY <2>2, <2>3
<1> QED
  BY <1>1, <1>2, <1>3, <1>4, <1>5

LEMMA StoryForward ==
  ASSUME TypeOK, LastInv, StoryInv, NEW r \in Sendable, Forward(r)
  PROVE  StoryInv'
<1>1. PICK K \in Nat, o \in Nat, ev \in [Nat -> Event \cup {None}], occ \in [Nat -> Nat] :
        Story(K, o, ev, occ)
  BY DEF StoryInv
<1> PICK n : n = Len(Pending)
  OBVIOUS
<1>2. /\ r \in Record /\ (r \in Event => r = event)
      /\ r \in LowState => ~fresh /\ <<"battery", r.by>> \in trouble
      /\ Owes(r) /\ fresh' = (fresh /\ r # event)
      /\ UNCHANGED <<event, trouble, lastEvent, flags, lost>>
  BY ForwardFacts DEF unitVars
<1>3. /\ n \in Nat /\ Len(Pending') = n + 1 /\ Pending'[n + 1] = r
      /\ \A i \in 1 .. n : Pending'[i] = Pending[i]
  BY <1>2, PendingGrows, TypesApart DEF Forward, taskVars
<1>4. /\ Happened(K, ev) /\ Placed(K, o, ev, occ) /\ (~lost => AllPending(K, o, occ))
      /\ \A c \in Code : OwedInv(K, o, ev, c)
  BY <1>1 DEF Story
<1> PICK s, t : s = Sent(K) /\ t = Sent(K)'
  OBVIOUS
<1>5. /\ s \in Nat /\ t \in Nat /\ s <= t /\ t <= K /\ (r \in Event => t = K)
      /\ fresh /\ r = event => s = K - 1 /\ t = K
      /\ ~(fresh /\ r = event) => s = t
  <2>1. (fresh' <=> fresh /\ r # event) /\ (fresh => K # 0)
    BY <1>2, <1>4 DEF Happened
  <2>2. CASE fresh /\ r = event
    BY <2>1, <2>2 DEF Sent
  <2>3. CASE fresh /\ r # event
    BY <1>2, <2>1, <2>3 DEF Sent
  <2>4. CASE ~fresh
    BY <2>1, <2>4 DEF Sent
  <2> QED
    BY <2>2, <2>3, <2>4
<1> PICK occ2 \in [Nat -> Nat] : occ2[n + 1] = K /\ \A i \in 1 .. n : occ2[i] = occ[i]
  <2> DEFINE f == [occ EXCEPT ![n + 1] = K]
  <2>0. n + 1 \in Nat /\ \A i \in 1 .. n : i \in Nat /\ i # n + 1
    BY <1>3
  <2>1. f \in [Nat -> Nat] /\ f[n + 1] = K /\ \A i \in 1 .. n : f[i] = occ[i]
    BY <2>0
  <2> HIDE DEF f
  <2> QED
    BY <2>1
<1>0. s = Sent(K) /\ t = Sent(K)'
  OBVIOUS
<1>6. Happened(K, ev)'
  BY <1>2, <1>4 DEF Happened
<1>7. /\ o \in Nat /\ o <= s
      /\ \A j \in 1 .. n : Pending[j] \in Event =>
           occ[j] \in Nat /\ o <= occ[j] /\ occ[j] <= s /\ ev[occ[j]] = Pending[j]
  <2>1. o \in 0 .. s
    BY <1>4 DEF Placed
  <2>2. \A j \in 1 .. n : Pending[j] \in Event => occ[j] \in o .. s /\ ev[occ[j]] = Pending[j]
    BY <1>4 DEF Placed
  <2>3. \A x \in o .. s : x \in Nat /\ o <= x /\ x <= s
    BY <1>5, <2>1
  <2> QED
    BY <1>5, <2>1, <2>2, <2>3
<1>8. Placed(K, o, ev, occ2)'
  <2>0. \A i \in 1 .. n + 1 : i \in Nat /\ (i # n + 1 => i \in 1 .. n)
    BY <1>3, UpTo
  <2>1. o \in 0 .. t /\ lastEvent' = ev[o]
    BY <1>2, <1>4, <1>5, <1>7 DEF Placed
  <2>2. ASSUME NEW j \in 1 .. n + 1, Pending'[j] \in Event
        PROVE  occ2[j] \in o .. t /\ ev[occ2[j]] = Pending'[j]
    <3>1. CASE j = n + 1
      <4>1. r \in Event /\ Pending'[j] = r /\ occ2[j] = K /\ ev[K] = event
        BY <1>3, <1>4, <2>2, <3>1 DEF Happened
      <4>2. t = K /\ r = event /\ K \in o .. t
        BY <1>2, <1>5, <1>7, <4>1
      <4> QED
        BY <4>1, <4>2
    <3>2. CASE j # n + 1
      <4>1. j \in 1 .. n
        BY <1>3, <2>0, <3>2
      <4>2. Pending'[j] = Pending[j] /\ occ2[j] = occ[j]
        BY <1>3, <4>1
      <4>3. occ[j] \in Nat /\ o <= occ[j] /\ occ[j] <= s /\ ev[occ[j]] = Pending[j]
        BY <1>7, <2>2, <4>1, <4>2
      <4>4. occ[j] \in o .. t
        <5>1. o \in Nat /\ s \in Nat /\ t \in Nat /\ s <= t
          BY <1>5
        <5> QED
          BY <4>3, <5>1
      <4> QED
        BY <4>2, <4>3, <4>4
    <3> QED
      BY <3>1, <3>2
  <2>3. ASSUME NEW i \in 1 .. n + 1, NEW j \in 1 .. n + 1, i <= j,
               Pending'[i] \in Event, Pending'[j] \in Event
        PROVE  occ2[i] <= occ2[j]
    <3>1. CASE j = n + 1
      <4>1. occ2[j] = t /\ occ2[i] \in o .. t
        BY <1>3, <1>5, <2>2, <2>3, <3>1
      <4> QED
        BY <1>5, <1>7, <4>1
    <3>2. CASE j # n + 1
      <4>1. i \in 1 .. n /\ j \in 1 .. n
        BY <1>3, <2>0, <2>3, <3>2
      <4> QED
        BY <1>3, <1>4, <2>3, <4>1 DEF Placed
    <3> QED
      BY <3>1, <3>2
  <2> QED
    BY <1>3, <2>1, <2>2, <2>3 DEF Placed
<1>9. ~lost' => AllPending(K, o, occ2)'
  <2> SUFFICES ASSUME ~lost', NEW k \in o + 1 .. t
               PROVE  \E j \in 1 .. n + 1 : Pending'[j] \in Event /\ occ2[j] = k
    BY <1>3 DEF AllPending
  <2>1. CASE k \in o + 1 .. s
    <3>1. PICK j \in 1 .. n : Pending[j] \in Event /\ occ[j] = k
      BY <1>2, <1>4, <2>1 DEF AllPending
    <3>2. j \in 1 .. n + 1
      BY <1>3
    <3> QED
      BY <1>3, <3>1, <3>2
  <2>2. CASE k \notin o + 1 .. s
    <3>0. k \in Nat /\ o + 1 <= k /\ k <= t /\ ~(k <= s)
      BY <1>5, <1>7, <2>2
    <3>1. fresh /\ r = event
      BY <1>5, <3>0
    <3>1a. s = K - 1 /\ t = K
      BY <1>5, <3>1
    <3>1b. k = K
      BY <3>0, <3>1a
    <3>2. r \in Event /\ n + 1 \in 1 .. n + 1
      BY <1>3, <3>1 DEF LastInv
    <3> QED
      BY <1>3, <3>1, <3>1b, <3>2
  <2> QED
    BY <2>1, <2>2
<1>10. \A c \in Code : OwedInv(K, o, ev, c)'
  <2> TAKE c \in Code
  <2>1. CASE fresh /\ r = event
    <3>1. r \in Event /\ ev[K] = r /\ K - 1 \in Nat /\ (K - 1) + 1 = K
      BY <1>4, <1>5, <2>1 DEF LastInv, Happened
    <3>2. /\ owed[c] \in Int /\ owedSet[c] \in Int
          /\ owed'[c] = owed[c] + One(r, Disarms, c)
          /\ owedSet'[c] = owedSet[c] + One(r, Settings, c)
      BY <1>2, <2>1, <3>1, OwesOne DEF TypeOK
    <3>3. PICK p \in Nat : s = p /\ t = p + 1 /\ K = p + 1 /\ o \in 0 .. p /\ ev[p + 1] = r
      <4>1. s = K - 1 /\ t = K /\ o \in 0 .. s /\ K = s + 1
        BY <1>5, <1>7, <2>1
      <4> QED
        BY <1>5, <3>1, <4>1
    <3> QED
      BY <1>0, <1>2, <1>4, <3>2, <3>3, OwedMore
  <2>2. CASE ~(fresh /\ r = event)
    <3>1. UNCHANGED <<owed, owedSet>>
      BY <1>2, <2>2 DEF Owes
    <3> QED
      BY <1>2, <1>4, <1>5, <2>2, <3>1 DEF OwedInv
  <2> QED
    BY <2>1, <2>2
<1>11. FlagInv(K, o, ev, occ2)'
  <2>1. PICK now : Course(K, ev, now) /\ ReportsTrue(K, occ, now) /\ (~lost => Shown(o, now))
    BY <1>1 DEF Story, FlagInv
  <2>2. ASSUME NEW j \in 1 .. n + 1, Pending'[j] \in LowState
        PROVE  occ2[j] \in 0 .. K /\ <<"battery", Pending'[j].by>> \in now[occ2[j]]
    <3>1. CASE j = n + 1
      <4>1. now[K] = trouble /\ K \in 0 .. K
        BY <2>1 DEF Course
      <4> QED
        BY <1>2, <1>3, <2>2, <3>1, <4>1
    <3>2. CASE j # n + 1
      <4>1. j \in 1 .. n
        BY <1>3, <3>2, UpTo
      <4> QED
        BY <1>3, <2>1, <2>2, <4>1 DEF ReportsTrue
    <3> QED
      BY <3>1, <3>2
  <2>3. ReportsTrue(K, occ2, now)'
    BY <1>3, <2>2 DEF ReportsTrue
  <2>4. Course(K, ev, now)' /\ (~lost' => Shown(o, now)')
    BY <1>2, <2>1 DEF Course, Shown
  <2> QED
    BY <2>3, <2>4 DEF FlagInv
<1>12. ~lost' => ReportsPlaced(o, occ2)'
  <2> SUFFICES ASSUME ~lost', NEW j \in 1 .. n + 1, Pending'[j] \in LowState
               PROVE  /\ \A i \in 1 .. j : Pending'[i] \in Event => occ2[i] <= occ2[j]
                      /\ \/ occ2[j] = o
                         \/ \E i \in 1 .. j : Pending'[i] \in Event /\ occ2[i] = occ2[j]
    BY <1>3 DEF ReportsPlaced
  <2>0. ReportsPlaced(o, occ) /\ AllPending(K, o, occ)
    BY <1>1, <1>2 DEF Story
  <2>1. CASE j = n + 1
    <3>1. r \in LowState /\ r \notin Event /\ ~fresh /\ s = K /\ occ2[j] = K
      BY <1>2, <1>3, <2>1, NotEvents DEF Sent
    <3>2. ASSUME NEW i \in 1 .. j, Pending'[i] \in Event PROVE occ2[i] <= occ2[j]
      <4>1. i \in 1 .. n
        BY <1>3, <2>1, <3>1, <3>2, UpTo
      <4> QED
        BY <1>3, <1>7, <3>1, <3>2, <4>1
    <3>3. CASE o = K
      <4>1. occ2[j] = o
        BY <3>1, <3>3
      <4> QED
        BY <3>2, <4>1
    <3>4. CASE o # K
      <4>1. K \in o + 1 .. s
        <5>1. o \in Nat /\ o <= K
          BY <1>7, <3>1
        <5>2. K \in o + 1 .. K
          BY <3>4, <5>1
        <5> QED
          BY <3>1, <5>2
      <4>2. PICK i \in 1 .. n : Pending[i] \in Event /\ occ[i] = K
        BY <2>0, <4>1 DEF AllPending
      <4>3. Pending'[i] = Pending[i] /\ occ2[i] = occ[i]
        BY <1>3
      <4>4. i \in 1 .. j
        <5>1. n \in Nat /\ i \in 1 .. n /\ j = n + 1
          BY <1>3, <2>1
        <5> QED
          BY <5>1
      <4>5. i \in 1 .. j /\ Pending'[i] \in Event /\ occ2[i] = K
        BY <4>2, <4>3, <4>4
      <4> QED
        BY <3>1, <3>2, <4>5
    <3> QED
      BY <3>3, <3>4
  <2>2. CASE j # n + 1
    <3>1. j \in 1 .. n /\ \A i \in 1 .. j : i \in 1 .. n
      <4>1. n \in Nat /\ j \in 1 .. n + 1
        BY <1>3
      <4>2. j \in 1 .. n
        BY <2>2, <4>1, UpTo
      <4> QED
        BY <4>1, <4>2
    <3>2. /\ \A i \in 1 .. j : Pending'[i] = Pending[i] /\ occ2[i] = occ[i]
          /\ Pending'[j] = Pending[j] /\ occ2[j] = occ[j]
      BY <1>3, <3>1
    <3> QED
      BY <2>0, <3>1, <3>2 DEF ReportsPlaced
  <2> QED
    BY <2>1, <2>2
<1> QED
  <2>1. Story(K, o, ev, occ2)'
    BY <1>6, <1>8, <1>9, <1>10, <1>11, <1>12 DEF Story
  <2> QED
    BY <2>1 DEF StoryInv

-----------------------------------------------------------------------------
(* What is handled *)

LEMMA AfterFacts ==
  ASSUME QueuesTypeOK, NEW m \in 1 .. Len(Pending), Pending' = Stream!After(m)
  PROVE  /\ Len(Pending) \in Nat /\ Len(Pending') = Len(Pending) - m
         /\ \A i \in 1 .. Len(Pending) - m :
              m + i \in 1 .. Len(Pending) /\ Pending'[i] = Pending[m + i]
<1> PICK n : n = Len(Pending)
  OBVIOUS
<1>1. n \in Nat /\ m \in 1 .. n /\ Pending \in Seq(Record) /\ Pending' = SubSeq(Pending, m + 1, n)
  BY PendingFacts DEF Stream!After
<1>2. m + 1 \in Int /\ n \in Int /\ \A i \in m + 1 .. n : i \in 1 .. n
  BY <1>1
<1>3. \A i \in m + 1 .. n : Pending[i] \in Record
  BY <1>1, <1>2, ElementOfSeq
<1>4. /\ Len(SubSeq(Pending, m + 1, n)) = IF m + 1 <= n THEN n - (m + 1) + 1 ELSE 0
      /\ \A i \in 1 .. n - (m + 1) + 1 : SubSeq(Pending, m + 1, n)[i] = Pending[m + 1 + i - 1]
  BY <1>2, <1>3, SubSeqProperties
<1>5. (IF m + 1 <= n THEN n - (m + 1) + 1 ELSE 0) = n - m /\ n - (m + 1) + 1 = n - m
        /\ \A i \in 1 .. n - m : m + 1 + i - 1 = m + i /\ m + i \in 1 .. n
  BY <1>1
<1> QED
  BY <1>1, <1>4, <1>5

\* The first pending record that is not the event handled last tells of the event after it,
\* and those before it tell nothing new.
LEMMA NotYet ==
  ASSUME QueuesTypeOK, NEW K \in Nat, NEW o \in Nat, NEW ev, NEW occ,
         Happened(K, ev), Placed(K, o, ev, occ), AllPending(K, o, occ), Sent(K) \in 0 .. K,
         NEW n \in 1 .. Len(Pending), Pending[n] \in Event, occ[n] # o,
         \A i \in 1 .. n - 1 : Pending[i] \in Event => Pending[i] = lastEvent
  PROVE  occ[n] = o + 1 /\ Pending[n] # lastEvent
<1> PICK s : s = Sent(K)
  OBVIOUS
<1>1. s \in 0 .. K /\ occ[n] \in o .. s /\ ev[occ[n]] = Pending[n] /\ lastEvent = ev[o] /\ o \in 0 .. s
  BY DEF Placed
<1>2. o + 1 \in o + 1 .. s /\ o + 1 \in 1 .. K /\ (o + 1) - 1 = o /\ occ[n] \in Nat /\ o + 1 <= occ[n]
  BY <1>1
<1>3. PICK j \in 1 .. Len(Pending) : Pending[j] \in Event /\ occ[j] = o + 1
  BY <1>2 DEF AllPending
<1>4. Pending[j] = ev[o + 1] /\ ev[o + 1] # ev[o]
  BY <1>2, <1>3 DEF Placed, Happened
<1>5. Len(Pending) \in Nat
  BY PendingFacts
<1>6. n <= j
  <2>1. j \notin 1 .. n - 1
    BY <1>1, <1>3, <1>4
  <2> QED
    BY <1>5, <2>1
<1>7. occ[n] <= o + 1
  BY <1>3, <1>6 DEF Placed
<1>8. occ[n] = o + 1
  BY <1>2, <1>7
<1> QED
  BY <1>1, <1>4, <1>8

LEMMA SentFacts ==
  ASSUME NEW K \in Nat, NEW ev, Happened(K, ev)
  PROVE  Sent(K) \in 0 .. K
BY DEF Sent, Happened

\* A new event is one after the event handled last; the next one, if nothing was lost.
NewAt(K, o, ev, occ, n) ==
  /\ QueuesTypeOK /\ LastInv /\ K \in Nat /\ o \in Nat
  /\ Happened(K, ev) /\ Placed(K, o, ev, occ)
  /\ n \in 1 .. Len(Pending) /\ Stream!Fresh(n) /\ Pending[n] \in Event /\ Pending[n] # lastEvent

LEMMA NewEvent ==
  ASSUME NEW K, NEW o, NEW ev, NEW occ, NEW n, NewAt(K, o, ev, occ, n)
  PROVE  /\ occ[n] \in o + 1 .. K /\ occ[n] \in o + 1 .. Sent(K) /\ ev[occ[n]] = Pending[n]
         /\ AllPending(K, o, occ) => occ[n] = o + 1
<1>0. /\ QueuesTypeOK /\ LastInv /\ K \in Nat /\ o \in Nat
      /\ Happened(K, ev) /\ Placed(K, o, ev, occ)
      /\ n \in 1 .. Len(Pending) /\ Stream!Fresh(n) /\ Pending[n] \in Event /\ Pending[n] # lastEvent
  BY DEF NewAt
<1>1. Sent(K) \in 0 .. K /\ occ[n] \in o .. Sent(K) /\ ev[occ[n]] = Pending[n] /\ lastEvent = ev[o]
  BY <1>0, SentFacts DEF Placed
<1>2. occ[n] # o
  BY <1>0, <1>1
<1>3. AllPending(K, o, occ) => occ[n] = o + 1
  <2>1. \A i \in 1 .. n - 1 : Pending[i] \in Event => Pending[i] = lastEvent
    BY <1>0 DEF Stream!Fresh, LastInv
  <2> QED
    BY <1>0, <1>1, <1>2, <2>1, NotYet
<1>4. occ[n] \in o + 1 .. Sent(K) /\ occ[n] \in o + 1 .. K
  <2> PICK s : s = Sent(K)
    OBVIOUS
  <2>1. s \in 0 .. K /\ occ[n] \in o .. s
    BY <1>1
  <2>2. occ[n] \in o + 1 .. s /\ occ[n] \in o + 1 .. K
    BY <1>0, <1>2, <2>1
  <2> QED
    BY <2>2
<1> QED
  BY <1>1, <1>3, <1>4

\* What is left after a record, with what has been handled then.
LEMMA PlacedAfter ==
  ASSUME QueuesTypeOK, LastInv, NEW K \in Nat, NEW o \in Nat, NEW ev, NEW occ,
         Happened(K, ev), Placed(K, o, ev, occ),
         NEW n \in 1 .. Len(Pending), NEW m \in n .. Len(Pending), Stream!Fresh(n),
         Pending' = Stream!After(m), UNCHANGED <<event, fresh>>, NEW k \in o .. Sent(K),
         lastEvent' = ev[k],
         k = o \/ (k = occ[n] /\ Pending[n] \in Event)
  PROVE  Placed(K, k, ev, [i \in Nat |-> occ[m + i]])'
<1> PICK s, l : s = Sent(K) /\ l = Len(Pending)
  OBVIOUS
<1> DEFINE occ2 == [i \in Nat |-> occ[m + i]]
<1>1. l \in Nat /\ m \in 1 .. l /\ n \in 1 .. l /\ n <= m /\ s \in 0 .. K /\ k \in o .. s
  BY PendingFacts, SentFacts
<1>2. /\ Len(Pending') = l - m /\ Sent(K)' = s
      /\ \A i \in 1 .. l - m : m + i \in 1 .. l /\ Pending'[i] = Pending[m + i]
  BY <1>1, AfterFacts DEF Sent
<1>3. \A i \in 1 .. l - m : i \in Nat /\ occ2[i] = occ[m + i] /\ n <= m + i
  BY <1>1
<1> HIDE DEF occ2
<1>4. ASSUME NEW i \in 1 .. l - m, Pending'[i] \in Event
      PROVE  occ2[i] \in k .. s /\ ev[occ2[i]] = Pending'[i]
  <2>1. m + i \in 1 .. l /\ Pending[m + i] \in Event /\ occ2[i] = occ[m + i] /\ Pending'[i] = Pending[m + i]
    BY <1>2, <1>3, <1>4
  <2>2. occ[m + i] \in o .. s /\ ev[occ[m + i]] = Pending[m + i]
    BY <2>1 DEF Placed
  <2>3. k <= occ[m + i]
    <3>1. CASE k = o
      BY <1>1, <2>2, <3>1
    <3>2. CASE k = occ[n] /\ Pending[n] \in Event
      BY <1>1, <1>3, <2>1, <3>2 DEF Placed
    <3> QED
      BY <3>1, <3>2
  <2>4. occ[m + i] \in k .. s
    <3> PICK x : x = occ[m + i]
      OBVIOUS
    <3>1. x \in o .. s /\ k <= x /\ k \in o .. s
      BY <1>1, <2>2, <2>3
    <3>2. x \in k .. s
      BY <1>1, <3>1
    <3> QED
      BY <3>2
  <2> QED
    BY <2>1, <2>2, <2>4
<1>5. ASSUME NEW i \in 1 .. l - m, NEW j \in 1 .. l - m, i <= j,
             Pending'[i] \in Event, Pending'[j] \in Event
      PROVE  occ2[i] <= occ2[j]
  <2>1. m + i <= m + j
    BY <1>1, <1>5
  <2> QED
    BY <1>2, <1>3, <1>5, <2>1 DEF Placed
<1>6. k \in 0 .. s
  BY <1>1
<1>7. Placed(K, k, ev, occ2)'
  BY <1>2, <1>4, <1>5, <1>6 DEF Placed
<1> QED
  BY <1>7 DEF occ2

LEMMA Later ==
  ASSUME NEW o \in Nat, NEW s \in Nat, NEW k \in o .. s, NEW x \in k + 1 .. s
  PROVE  x \in o + 1 .. s /\ x # k /\ x # o
OBVIOUS

\* Nothing that was sent and not handled falls out, as long as no record is dropped.
LEMMA AllPendingAfter ==
  ASSUME QueuesTypeOK, LastInv, NEW K \in Nat, NEW o \in Nat, NEW ev, NEW occ,
         Happened(K, ev), Placed(K, o, ev, occ), AllPending(K, o, occ),
         NEW n \in 1 .. Len(Pending), Stream!Fresh(n),
         Pending' = Stream!After(n), UNCHANGED <<event, fresh>>, NEW k \in o .. Sent(K),
         \/ Pending[n] \notin Event \/ Pending[n] = lastEvent
         \/ k = occ[n]
  PROVE  AllPending(K, k, [i \in Nat |-> occ[n + i]])'
<1>0. ASSUME NEW j \in 1 .. Len(Pending), Pending[j] \in Event, occ[j] # o,
             \A i \in 1 .. j - 1 : Pending[i] \in Event => Pending[i] = lastEvent
      PROVE  Pending[j] # lastEvent
  <2>1. Sent(K) \in 0 .. K
    BY SentFacts
  <2> QED
    BY <1>0, <2>1, NotYet
<1> PICK s, l : s = Sent(K) /\ l = Len(Pending)
  OBVIOUS
<1> DEFINE occ2 == [i \in Nat |-> occ[n + i]]
<1>1. l \in Nat /\ n \in 1 .. l /\ s \in 0 .. K /\ k \in o .. s
  BY PendingFacts, SentFacts
<1>1a. s \in Nat
  BY <1>1
<1>2. /\ Len(Pending') = l - n /\ Sent(K)' = s
      /\ \A i \in 1 .. l - n : n + i \in 1 .. l /\ Pending'[i] = Pending[n + i]
  BY <1>1, AfterFacts DEF Sent
<1>3. \A i \in 1 .. l - n : i \in Nat /\ occ2[i] = occ[n + i]
  BY <1>1
<1> HIDE DEF occ2
<1>4. ASSUME NEW x \in k + 1 .. s
      PROVE  \E i \in 1 .. l - n : Pending'[i] \in Event /\ occ2[i] = x
  <2>1. x \in o + 1 .. s /\ x # k /\ x # o
    <3>1. k \in o .. s
      BY <1>1
    <3>2. x \in k + 1 .. s
      OBVIOUS
    <3> QED
      BY <1>1a, <3>1, <3>2, Later
  <2>2. PICK j \in 1 .. l : Pending[j] \in Event /\ occ[j] = x
    BY <2>1 DEF AllPending
  <2>3. \A i \in 1 .. n - 1 : Pending[i] \in Event => Pending[i] = lastEvent
    BY DEF Stream!Fresh, LastInv
  <2>4. j \notin 1 .. n - 1
    <3> SUFFICES ASSUME j \in 1 .. n - 1 PROVE FALSE
      OBVIOUS
    <3>1. Pending[j] = lastEvent /\ occ[j] # o
      BY <2>1, <2>2, <2>3
    <3>2. \A i \in 1 .. j - 1 : i \in 1 .. n - 1
      BY <1>1
    <3>3. \A i \in 1 .. j - 1 : Pending[i] \in Event => Pending[i] = lastEvent
      BY <2>3, <3>2
    <3>4. Pending[j] # lastEvent
      BY <1>0, <2>2, <3>1, <3>3
    <3> QED
      BY <3>1, <3>4
  <2>5. j # n
    <3> SUFFICES ASSUME j = n PROVE FALSE
      OBVIOUS
    <3>1. Pending[n] = lastEvent /\ occ[n] # o /\ Pending[n] \in Event
      BY <2>1, <2>2
    <3>2. Pending[n] # lastEvent
      BY <1>0, <2>3, <3>1
    <3> QED
      BY <3>1, <3>2
  <2>6. j - n \in 1 .. l - n /\ n + (j - n) = j
    BY <1>1, <2>4, <2>5
  <2> QED
    BY <1>2, <1>3, <2>2, <2>6
<1>5. AllPending(K, k, occ2)'
  BY <1>2, <1>4 DEF AllPending
<1> QED
  BY <1>5 DEF occ2

\* Events that are passed over tell of the event handled last.
LEMMA ToldBefore ==
  ASSUME QueuesTypeOK, LastInv, NEW K \in Nat, NEW o \in Nat, NEW ev, NEW occ,
         Happened(K, ev), Placed(K, o, ev, occ), AllPending(K, o, occ),
         NEW n \in 1 .. Len(Pending), Stream!Fresh(n),
         NEW i \in 1 .. n, Pending[i] \in Event, i # n \/ Pending[n] = lastEvent
  PROVE  occ[i] = o
<1> SUFFICES ASSUME occ[i] # o PROVE FALSE
  OBVIOUS
<1> PICK l : l = Len(Pending)
  OBVIOUS
<1>1. l \in Nat /\ n \in 1 .. l
  BY PendingFacts
<1>2. i \in 1 .. l /\ (i # n => i \in 1 .. n - 1) /\ \A j \in 1 .. i - 1 : j \in 1 .. n - 1
  BY <1>1
<1>3. \A j \in 1 .. n - 1 : Pending[j] \in Event => Pending[j] = lastEvent
  BY DEF Stream!Fresh, LastInv
<1>4. Pending[i] = lastEvent
  BY <1>2, <1>3
<1>5. \A j \in 1 .. i - 1 : Pending[j] \in Event => Pending[j] = lastEvent
  BY <1>2, <1>3
<1>6. Sent(K) \in 0 .. K
  BY SentFacts
<1> QED
  BY <1>2, <1>4, <1>5, <1>6, NotYet

\* A report of a discharged battery that is handled was sent after the event handled last.
LEMMA ReportNow ==
  ASSUME QueuesTypeOK, LastInv, NEW K \in Nat, NEW o \in Nat, NEW ev, NEW occ,
         Happened(K, ev), Placed(K, o, ev, occ), AllPending(K, o, occ), ReportsPlaced(o, occ),
         NEW n \in 1 .. Len(Pending), Stream!Fresh(n), Pending[n] \in LowState
  PROVE  occ[n] = o
<1> SUFFICES ASSUME occ[n] # o PROVE FALSE
  OBVIOUS
<1>1. PICK i \in 1 .. n : Pending[i] \in Event /\ occ[i] = occ[n]
  BY DEF ReportsPlaced
<1>2. i # n
  BY <1>1, NotEvents
<1> QED
  BY <1>1, <1>2, ToldBefore

\* The reports behind a record stay in their places.
LEMMA ReportsAfter ==
  ASSUME QueuesTypeOK, LastInv, NEW K \in Nat, NEW o \in Nat, NEW ev, NEW occ,
         Happened(K, ev), Placed(K, o, ev, occ), AllPending(K, o, occ), ReportsPlaced(o, occ),
         NEW n \in 1 .. Len(Pending), Stream!Fresh(n), Pending' = Stream!After(n),
         NEW k,
         \/ k = o /\ (Pending[n] \notin Event \/ Pending[n] = lastEvent)
         \/ k = occ[n] /\ Pending[n] \in Event /\ occ[n] = o + 1
  PROVE  ReportsPlaced(k, [i \in Nat |-> occ[n + i]])'
<1> PICK l : l = Len(Pending)
  OBVIOUS
<1> DEFINE occ2 == [i \in Nat |-> occ[n + i]]
<1>1. l \in Nat /\ n \in 1 .. l
  BY PendingFacts
<1>2. /\ Len(Pending') = l - n
      /\ \A i \in 1 .. l - n : n + i \in 1 .. l /\ Pending'[i] = Pending[n + i]
  BY <1>1, AfterFacts
<1>3. \A i \in 1 .. l - n : i \in Nat /\ occ2[i] = occ[n + i]
  BY <1>1
<1> HIDE DEF occ2
<1>4. ASSUME NEW j \in 1 .. l - n, Pending'[j] \in LowState
      PROVE  /\ \A i \in 1 .. j : Pending'[i] \in Event => occ2[i] <= occ2[j]
             /\ \/ occ2[j] = k
                \/ \E i \in 1 .. j : Pending'[i] \in Event /\ occ2[i] = occ2[j]
  <2>1. /\ n + j \in 1 .. l /\ Pending[n + j] \in LowState /\ occ2[j] = occ[n + j]
        /\ \A i \in 1 .. j : i \in 1 .. l - n /\ n + i \in 1 .. n + j
        /\ n \in 1 .. n + j
    BY <1>1, <1>2, <1>3, <1>4
  <2>2. /\ \A i \in 1 .. n + j : Pending[i] \in Event => occ[i] <= occ[n + j]
        /\ \/ occ[n + j] = o
           \/ \E i \in 1 .. n + j : Pending[i] \in Event /\ occ[i] = occ[n + j]
    BY <2>1 DEF ReportsPlaced
  <2>3. \A i \in 1 .. j : Pending'[i] \in Event => occ2[i] <= occ2[j]
    BY <1>2, <1>3, <2>1, <2>2
  <2>4. CASE occ[n + j] = o
    <3>1. k = o
      <4> SUFFICES ASSUME k # o PROVE FALSE
        OBVIOUS
      <4>1. Pending[n] \in Event /\ occ[n] = o + 1 /\ occ[n] <= occ[n + j]
        BY <2>1, <2>2
      <4> QED
        BY <2>4, <4>1
    <3> QED
      BY <2>1, <2>3, <2>4, <3>1
  <2>5. CASE \E i \in 1 .. n + j : Pending[i] \in Event /\ occ[i] = occ[n + j] /\ occ[n + j] # o
    <3>1. PICK x \in 1 .. n + j : Pending[x] \in Event /\ occ[x] = occ[n + j] /\ occ[n + j] # o
      BY <2>5
    <3>2. CASE x \in 1 .. n
      <4>1. x = n /\ Pending[n] # lastEvent
        BY <3>1, <3>2, ToldBefore
      <4> QED
        BY <2>1, <2>3, <3>1, <4>1
    <3>3. CASE x \notin 1 .. n
      <4>1. x - n \in 1 .. j /\ n + (x - n) = x
        BY <1>1, <3>3
      <4>2. Pending'[x - n] = Pending[x] /\ occ2[x - n] = occ[x]
        BY <1>2, <1>3, <2>1, <4>1
      <4> QED
        BY <2>1, <2>3, <3>1, <4>1, <4>2
    <3> QED
      BY <3>2, <3>3
  <2> QED
    BY <2>2, <2>4, <2>5
<1>5. ReportsPlaced(k, occ2)'
  BY <1>2, <1>4 DEF ReportsPlaced
<1> QED
  BY <1>5 DEF occ2

\* And they stay true.
LEMMA ReportsTrueAfter ==
  ASSUME QueuesTypeOK, NEW K, NEW occ, NEW now, ReportsTrue(K, occ, now),
         NEW m \in 1 .. Len(Pending), Pending' = Stream!After(m)
  PROVE  ReportsTrue(K, [i \in Nat |-> occ[m + i]], now)'
<1> PICK l : l = Len(Pending)
  OBVIOUS
<1> DEFINE occ2 == [i \in Nat |-> occ[m + i]]
<1>1. l \in Nat /\ m \in 1 .. l
  BY PendingFacts
<1>2. /\ Len(Pending') = l - m
      /\ \A i \in 1 .. l - m : m + i \in 1 .. l /\ Pending'[i] = Pending[m + i]
  BY <1>1, AfterFacts
<1>3. \A i \in 1 .. l - m : occ2[i] = occ[m + i]
  BY <1>1
<1> HIDE DEF occ2
<1>4. ReportsTrue(K, occ2, now)'
  BY <1>2, <1>3 DEF ReportsTrue
<1> QED
  BY <1>4 DEF occ2

\* When all that is pending is repetitions, all that was sent has been handled.
LEMMA AllTold ==
  ASSUME QueuesTypeOK, LastInv, NEW K \in Nat, NEW o \in Nat, NEW ev, NEW occ,
         Happened(K, ev), Placed(K, o, ev, occ), AllPending(K, o, occ),
         \A i \in 1 .. Len(Pending) : Pending[i] = previous
  PROVE  o = Sent(K)
<1> PICK s : s = Sent(K)
  OBVIOUS
<1>1. s \in 0 .. K /\ o \in 0 .. s /\ lastEvent = ev[o]
  BY SentFacts DEF Placed
<1> SUFFICES ASSUME o # s PROVE FALSE
  OBVIOUS
<1>2. o + 1 \in o + 1 .. s /\ o + 1 \in 1 .. K /\ (o + 1) - 1 = o
  BY <1>1
<1>3. PICK j \in 1 .. Len(Pending) : Pending[j] \in Event /\ occ[j] = o + 1
  BY <1>2 DEF AllPending
<1>4. Pending[j] = ev[o + 1] /\ ev[o + 1] # ev[o] /\ Pending[j] = lastEvent
  BY <1>2, <1>3 DEF Placed, Happened, LastInv
<1> QED
  BY <1>1, <1>4

\* An event that is handled is one less in the tally of what is left.
LEMMA TalliedLess ==
  ASSUME NEW s \in Nat, NEW ev, NEW kinds, NEW c, NEW cnt, Tally(s, ev, kinds, c, cnt),
         NEW o \in 0 .. s, NEW k \in o + 1 .. s
  PROVE  /\ cnt[o] \in Nat /\ cnt[k] \in Nat /\ cnt[k] + One(ev[k], kinds, c) <= cnt[o]
         /\ k = o + 1 => cnt[k] + One(ev[k], kinds, c) = cnt[o]
<1>1. k \in 1 .. s /\ k - 1 \in 0 .. s /\ o \in 0 .. s /\ o <= k - 1 /\ k \in Nat /\ o \in Nat
  OBVIOUS
<1>2. cnt[k - 1] = cnt[k] + One(ev[k], kinds, c) /\ cnt[k - 1] <= cnt[o]
  BY <1>1 DEF Tally
<1>3. cnt[o] \in Nat /\ cnt[k] \in Nat
  BY <1>1 DEF Tally
<1>4. k = o + 1 => k - 1 = o
  BY <1>1
<1> QED
  BY <1>2, <1>3, <1>4

LEMMA OwedLess ==
  ASSUME NEW K \in Nat, NEW ev, NEW c, NEW o \in Nat, NEW k \in Nat, OwedInv(K, o, ev, c),
         Sent(K) \in Nat, Sent(K)' = Sent(K), o \in 0 .. Sent(K), k \in o + 1 .. Sent(K),
         ~lost' => ~lost /\ k = o + 1,
         owed[c] \in Int, owed'[c] = owed[c] - One(ev[k], Disarms, c),
         owedSet[c] \in Int, owedSet'[c] \in Int, owedSet[c] - One(ev[k], Settings, c) <= owedSet'[c]
  PROVE  OwedInv(K, k, ev, c)'
<1> PICK s : s = Sent(K)
  OBVIOUS
<1>1. PICK cnt : Tally(s, ev, Disarms, c, cnt) /\ cnt[o] <= owed[c] /\ (~lost => owed[c] = cnt[o])
  BY DEF OwedInv
<1>2. /\ cnt[o] \in Nat /\ cnt[k] \in Nat /\ cnt[k] + One(ev[k], Disarms, c) <= cnt[o]
      /\ k = o + 1 => cnt[k] + One(ev[k], Disarms, c) = cnt[o]
  BY <1>1, TalliedLess
<1>3. PICK cntS : Tally(s, ev, Settings, c, cntS) /\ cntS[o] <= owedSet[c]
  BY DEF OwedInv
<1>4. cntS[o] \in Nat /\ cntS[k] \in Nat /\ cntS[k] + One(ev[k], Settings, c) <= cntS[o]
  BY <1>3, TalliedLess
<1>5. One(ev[k], Disarms, c) \in Nat /\ One(ev[k], Settings, c) \in Nat
  BY DEF One
<1>6. cnt[k] <= owed'[c]
  BY <1>1, <1>2, <1>5
<1>7. ASSUME ~lost' PROVE owed'[c] = cnt[k]
  BY <1>1, <1>2, <1>5, <1>7
<1>8. cntS[k] <= owedSet'[c]
  BY <1>3, <1>4, <1>5
<1> QED
  BY <1>1, <1>3, <1>6, <1>7, <1>8 DEF OwedInv

\* What a handled event does to what is owed, and to the flags of registered devices.
LEMMA Recorded ==
  ASSUME UnitTypeOK, NEW r \in Event, NEW c \in Code,
         \/ r \in UseEvent /\ CodeUsed(r)
         \/ r \in TroubleEvent /\ flags' = FlagsAfter(r) /\ UNCHANGED <<active, known, owed, owedSet>>
         \/ r \in Faulty /\ UNCHANGED <<active, known, flags, owed, owedSet>>
  PROVE  /\ owed'[c] = owed[c] - One(r, Disarms, c)
         /\ owedSet'[c] \in Int /\ owedSet[c] - One(r, Settings, c) <= owedSet'[c]
<1>0. /\ owed[c] \in Int /\ owedSet[c] \in Int
      /\ owed \in [Code -> Int] /\ owedSet \in [Code -> Int]
  BY DEF UnitTypeOK
<1>1. CASE r.what \notin Disarms \cup Settings /\ UNCHANGED <<owed, owedSet>>
  BY <1>0, <1>1 DEF One
<1>2. CASE r \in UseEvent /\ CodeUsed(r) /\ r.what \in Disarms
  <2>1. owed' = [owed EXCEPT ![r.by] = owed[r.by] - 1] /\ owedSet' = owedSet
          /\ r.by \in Code /\ r.what \notin Settings
    BY <1>2 DEF CodeUsed, RecordCodeUse, Disarms, Settings, UseEvent
  <2>2. CASE r.by = c
    BY <1>0, <1>2, <2>1, <2>2 DEF One
  <2>3. CASE r.by # c
    BY <1>0, <1>2, <2>1, <2>3 DEF One
  <2> QED
    BY <2>2, <2>3
<1>3. CASE r \in UseEvent /\ CodeUsed(r) /\ r.what \in Settings
  <2>1. /\ owed' = owed /\ r.by \in Code /\ r.what \notin Disarms
        /\ \/ owedSet' = owedSet
           \/ owedSet' = [owedSet EXCEPT ![r.by] = owedSet[r.by] - 1]
    BY <1>3 DEF CodeUsed, ActivateCode, Disarms, Settings, UseEvent
  <2>2. CASE r.by = c
    BY <1>0, <1>3, <2>1, <2>2 DEF One
  <2>3. CASE r.by # c
    BY <1>0, <1>3, <2>1, <2>3 DEF One
  <2> QED
    BY <2>2, <2>3
<1>4. r \in UseEvent /\ CodeUsed(r) => r.what \in Disarms \cup Settings
  BY DEF CodeUsed, Disarms, Settings
<1>5. r \in TroubleEvent \/ r \in Faulty => r.what \notin Disarms \cup Settings
  BY EventKinds, EventsAssumption, NotEvents DEF Faulty, Disarms, Settings
<1> QED
  BY <1>1, <1>2, <1>3, <1>4, <1>5

LEMMA FlagsMatch ==
  ASSUME NEW r \in Event, NEW before, NEW t \in Flag \X Registered, t \in flags <=> t \in before,
         \/ r \in UseEvent /\ UNCHANGED flags
         \/ r \in TroubleEvent /\ flags' = FlagsAfter(r)
  PROVE  t \in flags' <=> t \in AfterTrouble(before, r)
<1>0. PICK f \in Flag, d \in Registered : t = <<f, d>>
  OBVIOUS
<1>0a. t[1] = f /\ t[2] = d /\ d \in Device
  BY <1>0, EventsAssumption
<1>1. CASE r \in UseEvent
  <2>1. r.what \notin Flag /\ r.what \notin {"ok", "over"} /\ UNCHANGED flags
    BY <1>1, EventKinds, EventsAssumption
  <2> QED
    BY <2>1 DEF AfterTrouble
<1>2. CASE r \in TroubleEvent /\ flags' = FlagsAfter(r) /\ r.what \in Flag
  <2>1. r.what \notin {"ok", "over"}
    BY <1>2, EventsAssumption
  <2> QED
    BY <1>2, <2>1 DEF AfterTrouble, FlagsAfter
<1>3. CASE r \in TroubleEvent /\ flags' = FlagsAfter(r) /\ r.what = "ok"
  <2>1. "ok" \notin Flag /\ "over" \notin Flag
    BY EventsAssumption
  <2>2. flags' = {x \in flags : x[1] # r.by \/ x[2] \notin Registered}
    BY <1>3, <2>1 DEF FlagsAfter
  <2>3. AfterTrouble(before, r) = before \ ({r.by} \X Device)
    BY <1>3, <2>1 DEF AfterTrouble, Ended
  <2> QED
    BY <1>0, <1>0a, <2>2, <2>3
<1>4. CASE r \in TroubleEvent /\ flags' = FlagsAfter(r) /\ r.what = "over"
  <2>1. "ok" \notin Flag /\ "over" \notin Flag
    BY EventsAssumption
  <2>2. flags' = flags \ {<<"fault", r.by>>}
    BY <1>4, <2>1 DEF FlagsAfter
  <2>3. AfterTrouble(before, r) = before \ {<<"fault", r.by>>}
    BY <1>4, <2>1 DEF AfterTrouble, Ended
  <2> QED
    BY <2>2, <2>3
<1> QED
  BY <1>1, <1>2, <1>3, <1>4, EventKinds

\* What is handled is an event after the one handled last, and what is left comes after it.
LEMMA ToldNew ==
  ASSUME QueuesTypeOK, LastInv, NEW K \in Nat, NEW o \in Nat, NEW ev, NEW occ,
         Happened(K, ev), Placed(K, o, ev, occ),
         UNCHANGED <<event, fresh>>,
         NEW n \in 1 .. Len(Pending), NEW m \in n .. Len(Pending), Stream!Fresh(n),
         Pending[n] \in Event, Pending[n] # lastEvent, lastEvent' = Pending[n],
         Pending' = Stream!After(m)
  PROVE  /\ occ[n] \in o + 1 .. Sent(K) /\ ev[occ[n]] = Pending[n]
         /\ AllPending(K, o, occ) => occ[n] = o + 1
         /\ Placed(K, occ[n], ev, [i \in Nat |-> occ[m + i]])'
         /\ AllPending(K, o, occ) /\ m = n => AllPending(K, occ[n], [i \in Nat |-> occ[m + i]])'
         /\ AllPending(K, o, occ) /\ ReportsPlaced(o, occ) /\ m = n =>
              ReportsPlaced(occ[n], [i \in Nat |-> occ[m + i]])'
<1>0. NewAt(K, o, ev, occ, n)
  BY DEF NewAt
<1>1. /\ occ[n] \in o + 1 .. K /\ occ[n] \in o + 1 .. Sent(K) /\ ev[occ[n]] = Pending[n]
      /\ AllPending(K, o, occ) => occ[n] = o + 1
  BY <1>0, NewEvent
<1>3. Sent(K) \in Nat /\ occ[n] \in o .. Sent(K)
  <2> PICK s, k : s = Sent(K) /\ k = occ[n]
    OBVIOUS
  <2>1. s \in 0 .. K /\ k \in o + 1 .. s
    BY <1>1, SentFacts
  <2>2. s \in Nat /\ k \in o .. s
    BY <2>1
  <2> QED
    BY <2>2
<1>4. lastEvent' = ev[occ[n]]
  BY <1>1
<1>5. Placed(K, occ[n], ev, [i \in Nat |-> occ[m + i]])'
  BY <1>3, <1>4, PlacedAfter
<1>6. ASSUME AllPending(K, o, occ), m = n PROVE AllPending(K, occ[n], [i \in Nat |-> occ[m + i]])'
  <2>1. Pending' = Stream!After(n)
    BY <1>6
  <2>2. AllPending(K, occ[n], [i \in Nat |-> occ[n + i]])'
    BY <1>3, <1>6, <2>1, AllPendingAfter
  <2> QED
    BY <1>6, <2>2
<1>7. ASSUME AllPending(K, o, occ), ReportsPlaced(o, occ), m = n
      PROVE  ReportsPlaced(occ[n], [i \in Nat |-> occ[m + i]])'
  <2>1. Pending' = Stream!After(n) /\ occ[n] = o + 1
    BY <1>1, <1>7
  <2>2. ReportsPlaced(occ[n], [i \in Nat |-> occ[n + i]])'
    BY <1>7, <2>1, ReportsAfter
  <2> QED
    BY <1>7, <2>2
<1> QED
  BY <1>1, <1>5, <1>6, <1>7

\* Nothing new is told, and what is left comes after the same event.
LEMMA ToldAgain ==
  ASSUME QueuesTypeOK, LastInv, NEW K \in Nat, NEW o \in Nat, NEW ev, NEW occ,
         Happened(K, ev), Placed(K, o, ev, occ),
         UNCHANGED <<event, fresh, lastEvent>>,
         NEW n \in 1 .. Len(Pending), NEW m \in n .. Len(Pending), Stream!Fresh(n),
         Pending' = Stream!After(m), Pending[n] \notin Event \/ Pending[n] = lastEvent
  PROVE  /\ Placed(K, o, ev, [i \in Nat |-> occ[m + i]])'
         /\ AllPending(K, o, occ) /\ m = n => AllPending(K, o, [i \in Nat |-> occ[m + i]])'
         /\ AllPending(K, o, occ) /\ ReportsPlaced(o, occ) /\ m = n =>
              ReportsPlaced(o, [i \in Nat |-> occ[m + i]])'
<1>1. o \in o .. Sent(K) /\ lastEvent' = ev[o]
  <2> PICK s : s = Sent(K)
    OBVIOUS
  <2>1. o \in 0 .. s /\ s \in 0 .. K
    BY SentFacts DEF Placed
  <2>2. o \in o .. s
    BY <2>1
  <2> QED
    BY <2>2 DEF Placed
<1>2. Placed(K, o, ev, [i \in Nat |-> occ[m + i]])'
  BY <1>1, PlacedAfter
<1>3. ASSUME AllPending(K, o, occ), m = n PROVE AllPending(K, o, [i \in Nat |-> occ[m + i]])'
  <2>1. Pending' = Stream!After(n)
    BY <1>3
  <2>2. AllPending(K, o, [i \in Nat |-> occ[n + i]])'
    BY <1>1, <1>3, <2>1, AllPendingAfter
  <2> QED
    BY <1>3, <2>2
<1>4. ASSUME AllPending(K, o, occ), ReportsPlaced(o, occ), m = n
      PROVE  ReportsPlaced(o, [i \in Nat |-> occ[m + i]])'
  <2>1. Pending' = Stream!After(n)
    BY <1>4
  <2>2. ReportsPlaced(o, [i \in Nat |-> occ[n + i]])'
    BY <1>4, <2>1, ReportsAfter
  <2> QED
    BY <1>4, <2>2
<1> QED
  BY <1>2, <1>3, <1>4

LEMMA Shifted ==
  ASSUME NEW occ \in [Nat -> Nat], NEW m \in Nat
  PROVE  [i \in Nat |-> occ[m + i]] \in [Nat -> Nat]
OBVIOUS

\* A new event is handled, or its handling fails.
TakesIn(r) ==
  \/ r \in UseEvent /\ CodeUsed(r)
  \/ r \in TroubleEvent /\ flags' = FlagsAfter(r) /\ UNCHANGED <<active, known, owed, owedSet>>
  \/ r \in Faulty /\ UNCHANGED <<active, known, flags, owed, owedSet>>

LEMMA TakesInFlags ==
  ASSUME NEW r \in Event, NEW before, TakesIn(r), NEW t \in Flag \X Registered,
         t \in flags <=> t \in before
  PROVE  t \in flags' <=> t \in AfterTrouble(before, r)
<1>1. \/ r \in UseEvent /\ UNCHANGED flags
      \/ r \in TroubleEvent /\ flags' = FlagsAfter(r)
  BY NotEvents DEF TakesIn, CodeUsed, Faulty
<1> QED
  BY <1>1, FlagsMatch

LEMMA OwedTold ==
  ASSUME UnitTypeOK, NEW r \in Event, TakesIn(r), NEW K \in Nat, NEW ev, Happened(K, ev),
         UNCHANGED <<event, fresh>>, NEW o \in Nat, o \in 0 .. Sent(K), NEW k, k \in o + 1 .. Sent(K),
         ev[k] = r, ~lost' => ~lost /\ k = o + 1, NEW c \in Code, OwedInv(K, o, ev, c)
  PROVE  OwedInv(K, k, ev, c)'
<1>1. /\ owed'[c] = owed[c] - One(r, Disarms, c)
      /\ owedSet'[c] \in Int /\ owedSet[c] - One(r, Settings, c) <= owedSet'[c]
  BY Recorded DEF TakesIn
<1>2. owed[c] \in Int /\ owedSet[c] \in Int
  BY DEF UnitTypeOK
<1>3. Sent(K) \in Nat /\ k \in Nat
  <2> PICK s : s = Sent(K)
    OBVIOUS
  <2>1. s \in 0 .. K /\ k \in o + 1 .. s
    BY SentFacts
  <2> QED
    BY <2>1
<1>4. Sent(K)' = Sent(K)
  BY DEF Sent
<1> QED
  BY <1>1, <1>2, <1>3, <1>4, OwedLess

LEMMA FlagsTold ==
  ASSUME QueuesTypeOK, NEW r \in Event, TakesIn(r), NEW K \in Nat, NEW ev, NEW occ,
         NEW o \in Nat, NEW k \in 1 .. K, ev[k] = r, UNCHANGED trouble,
         FlagInv(K, o, ev, occ), ~lost' => ~lost /\ k = o + 1,
         NEW m \in 1 .. Len(Pending), Pending' = Stream!After(m)
  PROVE  FlagInv(K, k, ev, [i \in Nat |-> occ[m + i]])'
<1>1. PICK now : Course(K, ev, now) /\ ReportsTrue(K, occ, now) /\ (~lost => Shown(o, now))
  BY DEF FlagInv
<1>2. ASSUME ~lost', NEW t \in Flag \X Registered PROVE t \in flags' <=> t \in now[k]
  <2>1. ~lost /\ k - 1 = o
    BY <1>2
  <2>2. now[k] = AfterTrouble(now[o], r)
    BY <1>1, <2>1 DEF Course
  <2>3. t \in flags <=> t \in now[o]
    BY <1>1, <2>1 DEF Shown
  <2> QED
    BY <2>2, <2>3, TakesInFlags
<1>3. ~lost' => Shown(k, now)'
  BY <1>2 DEF Shown
<1>4. Course(K, ev, now)'
  BY <1>1 DEF Course
<1>5. ReportsTrue(K, [i \in Nat |-> occ[m + i]], now)'
  BY <1>1, ReportsTrueAfter
<1> QED
  BY <1>3, <1>4, <1>5 DEF FlagInv

\* A report of a discharged battery says what the flags say already.
LEMMA FlagsToldAgain ==
  ASSUME QueuesTypeOK, LastInv, NEW K \in Nat, NEW o \in Nat, NEW ev, NEW occ,
         Story(K, o, ev, occ), UNCHANGED trouble,
         NEW n \in 1 .. Len(Pending), NEW m \in n .. Len(Pending), Stream!Fresh(n),
         Pending' = Stream!After(m), FlagsKept(Pending[n]), ~lost' => ~lost
  PROVE  FlagInv(K, o, ev, [i \in Nat |-> occ[m + i]])'
<1>1. PICK now : Course(K, ev, now) /\ ReportsTrue(K, occ, now) /\ (~lost => Shown(o, now))
  BY DEF Story, FlagInv
<1>2. ASSUME ~lost' PROVE Shown(o, now)'
  <2>1. Shown(o, now) /\ AllPending(K, o, occ) /\ ReportsPlaced(o, occ)
        /\ Happened(K, ev) /\ Placed(K, o, ev, occ)
    BY <1>1, <1>2 DEF Story
  <2>2. CASE UNCHANGED flags
    BY <2>1, <2>2 DEF Shown
  <2>3. CASE Pending[n] \in LowState /\ flags' = flags \cup {<<"battery", Pending[n].by>>}
    <3>1. occ[n] = o
      BY <2>1, <2>3, ReportNow
    <3>2. <<"battery", Pending[n].by>> \in now[o]
      BY <1>1, <2>3, <3>1 DEF ReportsTrue
    <3> QED
      BY <2>1, <2>3, <3>2 DEF Shown
  <2> QED
    BY <2>2, <2>3 DEF FlagsKept
<1>3. Course(K, ev, now)'
  BY <1>1 DEF Course
<1>4. ReportsTrue(K, [i \in Nat |-> occ[m + i]], now)'
  <2>1. m \in 1 .. Len(Pending)
    BY PendingFacts
  <2> QED
    BY <1>1, <2>1, ReportsTrueAfter
<1> QED
  BY <1>2, <1>3, <1>4 DEF FlagInv

\* Records behind the n-th are dropped if the m-th is the last that is gone.
Drops(n, m) == lost \/ m # n => lost'

LEMMA StoryToldAt ==
  ASSUME QueuesTypeOK, UnitTypeOK, LastInv, UNCHANGED <<event, fresh, trouble>>,
         NEW n \in 1 .. Len(Pending), NEW m \in n .. Len(Pending), Stream!Fresh(n),
         Pending[n] \in Event, Pending[n] # lastEvent, lastEvent' = Pending[n],
         Pending' = Stream!After(m), Drops(n, m), TakesIn(Pending[n]),
         NEW K \in Nat, NEW o \in Nat, NEW ev, NEW occ, Story(K, o, ev, occ)
  PROVE  \E k \in Nat : Story(K, k, ev, [i \in Nat |-> occ[m + i]])'
<1>1. /\ Happened(K, ev) /\ Placed(K, o, ev, occ)
      /\ ~lost => AllPending(K, o, occ) /\ ReportsPlaced(o, occ)
      /\ \A c \in Code : OwedInv(K, o, ev, c)
      /\ FlagInv(K, o, ev, occ)
  BY DEF Story
<1>2. /\ occ[n] \in o + 1 .. Sent(K) /\ ev[occ[n]] = Pending[n]
      /\ AllPending(K, o, occ) => occ[n] = o + 1
      /\ Placed(K, occ[n], ev, [i \in Nat |-> occ[m + i]])'
      /\ AllPending(K, o, occ) /\ m = n => AllPending(K, occ[n], [i \in Nat |-> occ[m + i]])'
      /\ AllPending(K, o, occ) /\ ReportsPlaced(o, occ) /\ m = n =>
           ReportsPlaced(occ[n], [i \in Nat |-> occ[m + i]])'
  BY <1>1, ToldNew, ZenonT(60)
<1>3. PICK k, r, q : k = occ[n] /\ r = Pending[n] /\ q = [i \in Nat |-> occ[m + i]]
  OBVIOUS
<1>4. /\ k \in o + 1 .. Sent(K) /\ ev[k] = r
      /\ AllPending(K, o, occ) => k = o + 1
      /\ Placed(K, k, ev, q)'
      /\ AllPending(K, o, occ) /\ m = n => AllPending(K, k, q)'
      /\ AllPending(K, o, occ) /\ ReportsPlaced(o, occ) /\ m = n => ReportsPlaced(k, q)'
  BY <1>2, <1>3
<1>5. o \in 0 .. Sent(K) /\ k \in Nat /\ k \in 1 .. K
  <2> PICK s : s = Sent(K)
    OBVIOUS
  <2>1. s \in 0 .. K /\ k \in o + 1 .. s /\ o \in 0 .. s
    BY <1>1, <1>4, SentFacts DEF Placed
  <2> QED
    BY <2>1
<1>6. ~lost' => ~lost /\ m = n
  BY DEF Drops
<1>7. ~lost' => ~lost /\ k = o + 1
  BY <1>1, <1>4, <1>6
<1>8. Happened(K, ev)'
  BY <1>1 DEF Happened
<1>9. ~lost' => AllPending(K, k, q)' /\ ReportsPlaced(k, q)'
  BY <1>1, <1>4, <1>6
<1>10. r \in Event /\ TakesIn(r)
  BY <1>3
<1>11. ASSUME NEW c \in Code PROVE OwedInv(K, k, ev, c)'
  BY <1>1, <1>4, <1>5, <1>7, <1>10, OwedTold
<1>12. FlagInv(K, k, ev, q)'
  <2>1. m \in 1 .. Len(Pending)
    BY PendingFacts
  <2> QED
    BY <1>1, <1>3, <1>4, <1>5, <1>7, <1>10, <2>1, FlagsTold
<1>13. Story(K, k, ev, q)'
  BY <1>4, <1>8, <1>9, <1>11, <1>12 DEF Story
<1> QED
  BY <1>3, <1>5, <1>13

LEMMA StoryTold ==
  ASSUME QueuesTypeOK, UnitTypeOK, LastInv, StoryInv, UNCHANGED <<event, fresh, trouble>>,
         NEW n \in 1 .. Len(Pending), NEW m \in n .. Len(Pending), Stream!Fresh(n),
         Pending[n] \in Event, Pending[n] # lastEvent, lastEvent' = Pending[n],
         Pending' = Stream!After(m), Drops(n, m), TakesIn(Pending[n])
  PROVE  StoryInv'
<1>1. PICK K \in Nat, o \in Nat, ev \in [Nat -> Event \cup {None}], occ \in [Nat -> Nat] :
        Story(K, o, ev, occ)
  BY DEF StoryInv
<1>2. PICK k \in Nat : Story(K, k, ev, [i \in Nat |-> occ[m + i]])'
  BY <1>1, StoryToldAt
<1>3. m \in Nat
  BY PendingFacts
<1>4. [i \in Nat |-> occ[m + i]] \in [Nat -> Nat]
  BY <1>3, Shifted
<1> QED
  BY <1>2, <1>4 DEF StoryInv

\* What is owed, as long as nothing is recorded.
LEMMA NothingTold ==
  ASSUME NEW K, NEW o, NEW ev, UNCHANGED <<event, fresh, owed, owedSet>>, ~lost' => ~lost,
         \A c \in Code : OwedInv(K, o, ev, c), Happened(K, ev)
  PROVE  (\A c \in Code : OwedInv(K, o, ev, c))' /\ Happened(K, ev)'
<1>1. Sent(K)' = Sent(K)
  BY DEF Sent
<1>2. \A c \in Code : OwedInv(K, o, ev, c)'
  BY <1>1 DEF OwedInv
<1> QED
  BY <1>2 DEF Happened

LEMMA StoryToldAgain ==
  ASSUME QueuesTypeOK, LastInv, StoryInv,
         UNCHANGED <<event, fresh, trouble, lastEvent, owed, owedSet>>,
         NEW n \in 1 .. Len(Pending), NEW m \in n .. Len(Pending), Stream!Fresh(n),
         Pending' = Stream!After(m), Drops(n, m), FlagsKept(Pending[n]),
         Pending[n] \notin Event \/ Pending[n] = lastEvent
  PROVE  StoryInv'
<1>1. PICK K \in Nat, o \in Nat, ev \in [Nat -> Event \cup {None}], occ \in [Nat -> Nat] :
        Story(K, o, ev, occ)
  BY DEF StoryInv
<1>2. PICK q : q = [i \in Nat |-> occ[m + i]]
  OBVIOUS
<1>3. /\ Happened(K, ev) /\ Placed(K, o, ev, occ)
      /\ ~lost => AllPending(K, o, occ) /\ ReportsPlaced(o, occ)
      /\ \A c \in Code : OwedInv(K, o, ev, c)
  BY <1>1 DEF Story
<1>4. /\ Placed(K, o, ev, q)'
      /\ AllPending(K, o, occ) /\ m = n => AllPending(K, o, q)'
      /\ AllPending(K, o, occ) /\ ReportsPlaced(o, occ) /\ m = n => ReportsPlaced(o, q)'
  BY <1>2, <1>3, ToldAgain
<1>5. ~lost' => ~lost /\ m = n
  BY DEF Drops
<1>6. (\A c \in Code : OwedInv(K, o, ev, c))' /\ Happened(K, ev)'
  BY <1>3, <1>5, NothingTold
<1>7. FlagInv(K, o, ev, q)'
  BY <1>1, <1>2, <1>5, FlagsToldAgain
<1>8. ~lost' => AllPending(K, o, q)' /\ ReportsPlaced(o, q)'
  BY <1>3, <1>4, <1>5
<1>9. q \in [Nat -> Nat]
  <2>1. m \in Nat
    BY PendingFacts
  <2> QED
    BY <1>2, <2>1, Shifted
<1>10. Story(K, o, ev, q)'
  BY <1>4, <1>6, <1>7, <1>8 DEF Story
<1> QED
  BY <1>9, <1>10 DEF StoryInv

\* All that is pending is repetitions, and is left out.
LEMMA StoryAllTold ==
  ASSUME QueuesTypeOK, LastInv, StoryInv,
         UNCHANGED <<event, fresh, trouble, lastEvent, flags, owed, owedSet, lost>>,
         \A i \in 1 .. Len(Pending) : Pending[i] = previous, Pending' = << >>
  PROVE  StoryInv'
<1>1. PICK K \in Nat, o \in Nat, ev \in [Nat -> Event \cup {None}], occ \in [Nat -> Nat] :
        Story(K, o, ev, occ)
  BY DEF StoryInv
<1>3. /\ Happened(K, ev) /\ Placed(K, o, ev, occ)
      /\ ~lost => AllPending(K, o, occ) /\ ReportsPlaced(o, occ)
      /\ \A c \in Code : OwedInv(K, o, ev, c)
      /\ FlagInv(K, o, ev, occ)
  BY <1>1 DEF Story
<1>4. Sent(K)' = Sent(K) /\ Len(Pending') = 0
  BY EmptySeq DEF Sent
<1>5. Placed(K, o, ev, occ)' /\ ReportsPlaced(o, occ)'
  BY <1>3, <1>4 DEF Placed, ReportsPlaced
<1>6. ASSUME AllPending(K, o, occ) PROVE AllPending(K, o, occ)'
  <2>1. o = Sent(K)
    BY <1>3, <1>6, AllTold
  <2>2. o + 1 .. Sent(K)' = {}
    BY <1>4, <2>1
  <2> QED
    BY <2>2 DEF AllPending
<1>7. (\A c \in Code : OwedInv(K, o, ev, c))' /\ Happened(K, ev)'
  BY <1>3, NothingTold
<1>8. FlagInv(K, o, ev, occ)'
  <2>1. PICK now : Course(K, ev, now) /\ (~lost => Shown(o, now))
    BY <1>3 DEF FlagInv
  <2>2. Course(K, ev, now)' /\ (~lost' => Shown(o, now)') /\ ReportsTrue(K, occ, now)'
    BY <1>4, <2>1 DEF Course, Shown, ReportsTrue
  <2> QED
    BY <2>2 DEF FlagInv
<1>9. ~lost' => AllPending(K, o, occ)' /\ ReportsPlaced(o, occ)'
  BY <1>3, <1>5, <1>6
<1>10. Story(K, o, ev, occ)'
  BY <1>5, <1>7, <1>8, <1>9 DEF Story
<1> QED
  BY <1>10 DEF StoryInv

LEMMA StoryWork ==
  ASSUME TypeOK, LastInv, StoryInv, Work
  PROVE  StoryInv'
<1>0. QueuesTypeOK /\ UnitTypeOK /\ UNCHANGED <<event, fresh, trouble>>
  BY TypesApart DEF Work, panelVars
<1>1. ASSUME NEW n \in 1 .. Len(Pending), HandlesAt(n)
      PROVE  StoryInv'
  <2>1. Pending[n] \in Record
    BY <1>0, PendingRecords
  <2>2. /\ Stream!Fresh(n) /\ Pending' = Stream!After(n) /\ n \in n .. Len(Pending)
        /\ ProcessMessage(Pending[n]) /\ UNCHANGED lost
    <3>1. n \in n .. Len(Pending)
      BY <1>0, PendingFacts
    <3> QED
      BY <1>1, <3>1 DEF HandlesAt
  <2>3. CASE /\ Pending[n] # lastEvent /\ lastEvent' = Pending[n]
             /\ Pending[n] \in Event /\ TakesIn(Pending[n])
    <3>1. Drops(n, n)
      BY <2>2 DEF Drops
    <3> QED
      BY <1>0, <2>2, <2>3, <3>1, StoryTold
  <2>4. CASE /\ Pending[n] \notin Event \/ Pending[n] = lastEvent
             /\ UNCHANGED <<lastEvent, known, owed, owedSet>> /\ FlagsKept(Pending[n])
    <3>1. Drops(n, n)
      BY <2>2 DEF Drops
    <3> QED
      BY <1>0, <2>2, <2>4, <3>1, StoryToldAgain
  <2>5. \/ /\ Pending[n] # lastEvent /\ lastEvent' = Pending[n]
           /\ Pending[n] \in Event /\ TakesIn(Pending[n])
        \/ /\ Pending[n] \notin Event \/ Pending[n] = lastEvent
           /\ UNCHANGED <<lastEvent, known, owed, owedSet>> /\ FlagsKept(Pending[n])
    BY <2>1, <2>2, MessageProcessed DEF TakesIn, Event
  <2> QED
    BY <2>3, <2>4, <2>5
<1>2. ASSUME NEW n \in 1 .. Len(Pending), NEW m \in 1 .. Len(Pending), FailsAt(n, m)
      PROVE  StoryInv'
  <2>1. /\ m \in n .. Len(Pending) /\ Stream!Fresh(n) /\ Pending' = Stream!After(m)
        /\ Pending[n] # lastEvent /\ lastEvent' = LastAfter(Pending[n]) /\ Drops(n, m)
        /\ Pending[n] \in Faulty /\ UNCHANGED <<active, known, flags, owed, owedSet>>
    BY <1>2 DEF FailsAt, Drops
  <2>2. CASE Pending[n] \in Event
    <3>1. lastEvent' = Pending[n] /\ TakesIn(Pending[n])
      BY <2>1, <2>2 DEF TakesIn, LastAfter
    <3> QED
      BY <1>0, <2>1, <2>2, <3>1, StoryTold
  <2>3. CASE Pending[n] \notin Event
    <3>1. lastEvent' = lastEvent /\ FlagsKept(Pending[n])
      BY <2>1, <2>3 DEF FlagsKept, LastAfter
    <3> QED
      BY <1>0, <2>1, <2>3, <3>1, StoryToldAgain
  <2> QED
    BY <2>2, <2>3
<1>3. CASE WaitAgain /\ Pending' = << >> /\ \A i \in 1 .. Len(Pending) : Pending[i] = previous
  <2>1. UNCHANGED <<lastEvent, flags, owed, owedSet, lost>>
    BY <1>3 DEF WaitAgain, unitVars, history
  <2> QED
    BY <1>0, <1>3, <2>1, StoryAllTold
<1> QED
  BY <1>0, <1>1, <1>2, <1>3, Worked DEF HandlesOne

LEMMA StoryKept ==
  ASSUME StoryInv,
         UNCHANGED <<Pending, event, fresh, trouble, lastEvent, flags, owed, owedSet, lost>>
  PROVE  StoryInv'
<1>1. PICK K \in Nat, o \in Nat, ev \in [Nat -> Event \cup {None}], occ \in [Nat -> Nat] :
        Story(K, o, ev, occ)
  BY DEF StoryInv
<1>2. Sent(K)' = Sent(K)
  BY DEF Sent
<1>3. (\A c \in Code : OwedInv(K, o, ev, c))' /\ Happened(K, ev)'
  BY <1>1, NothingTold DEF Story
<1>4. Placed(K, o, ev, occ)' /\ (~lost' => AllPending(K, o, occ)' /\ ReportsPlaced(o, occ)')
  BY <1>1, <1>2 DEF Story, Placed, AllPending, ReportsPlaced
<1>5. FlagInv(K, o, ev, occ)'
  BY <1>1 DEF Story, FlagInv, Course, Shown, ReportsTrue
<1>6. Story(K, o, ev, occ)'
  BY <1>3, <1>4, <1>5 DEF Story
<1> QED
  BY <1>6 DEF StoryInv

\* The inductive invariant: types, which event was handled last, and the story of what
\* happened, what has been sent of it and what has been recorded of that.
IInv == TypeOK /\ LastInv /\ StoryInv

\* However the panel repeats what happened and whatever it sends in between, however
\* batches, wake-ups and failures fall together, the intake keeps to the story.
THEOREM Invariance == Spec => []IInv
<1>1. Init => IInv
  <2> SUFFICES ASSUME Init PROVE TypeOK /\ LastInv
    BY InitStory DEF IInv
  <2>1. LastInv
    BY DEF Init, LastInv
  <2>2. TypeOK
    <3>1. << >> \in Seq(Record)
      BY EmptySeq
    <3>2. /\ outputQ \in Seq(Record) /\ batch \in Seq(Record) /\ batch = << >>
          /\ fresh \in BOOLEAN /\ messages \in BOOLEAN /\ stop \in BOOLEAN /\ lost \in BOOLEAN
      BY <3>1 DEF Init
    <3>3. owed \in [Code -> Int] /\ owedSet \in [Code -> Int]
      BY DEF Init
    <3> QED
      BY <3>2, <3>3 DEF Init, TypeOK
  <2> QED
    BY <2>1, <2>2
<1>2. IInv /\ [Next]_vars => IInv'
  <2> SUFFICES ASSUME TypeOK, LastInv, StoryInv, [Next]_vars PROVE StoryInv'
    BY TypesStep, LastStep DEF IInv
  <2>1. CASE Happens
    BY <2>1, StoryHappens
  <2>2. CASE \E r \in Sendable : Forward(r)
    BY <2>2, StoryForward
  <2>3. CASE ForwardNothing \/ Shutdown \/ UNCHANGED vars
    <3>1. UNCHANGED <<Pending, event, fresh, trouble, lastEvent, flags, owed, owedSet, lost>>
      BY <2>3 DEF ForwardNothing, Shutdown, vars, panelVars, queueVars, taskVars, unitVars,
                  history, Pending
    <3> QED
      BY <3>1, StoryKept
  <2>4. CASE Work
    BY <2>4, StoryWork
  <2> QED
    BY <2>1, <2>2, <2>3, <2>4 DEF Next
<1> QED
  BY <1>1, <1>2, PTL DEF Spec

\* What is queued are records, what is active are codes that were activated, what is set
\* are flags of devices (jablotron.py:2095-2109, 3122-3138).
THEOREM TypeCorrect == Spec => []TypeOK
<1>1. IInv => TypeOK
  BY DEF IInv
<1> QED
  BY <1>1, Invariance, PTL

\* When nothing is pending and nothing was dropped, all that was sent has been handled.
LEMMA AllHandled ==
  ASSUME NEW K \in Nat, NEW o \in Nat, NEW ev, NEW occ, Story(K, o, ev, occ), Pending = << >>, ~lost
  PROVE  o = Sent(K)
<1>1. AllPending(K, o, occ) /\ o \in 0 .. Sent(K) /\ Happened(K, ev) /\ Len(Pending) = 0
  BY EmptySeq DEF Story, Placed
<1> PICK s : s = Sent(K)
  OBVIOUS
<1>2. s \in 0 .. K /\ o \in 0 .. s
  BY <1>1, SentFacts
<1>3. \A x \in o + 1 .. s : FALSE
  BY <1>1 DEF AllPending
<1>4. o + 1 \notin o + 1 .. s
  BY <1>3
<1> QED
  BY <1>2, <1>4

\* No use of a code is recorded that did not happen, whatever the panel repeats; and once
\* all that was sent is handled, every disarm with a code has been recorded, unless it
\* waited behind a record that failed (jablotron.py:2095-2109, 2955-2960).
THEOREM UsesTrue == Spec => []UsesAreTrue
<1>1. IInv => UsesAreTrue
  <2> SUFFICES ASSUME IInv PROVE UsesAreTrue
    OBVIOUS
  <2>1. PICK K \in Nat, o \in Nat, ev \in [Nat -> Event \cup {None}], occ \in [Nat -> Nat] :
          Story(K, o, ev, occ)
    BY DEF IInv, StoryInv
  <2>2. o \in 0 .. Sent(K) /\ \A c \in Code : OwedInv(K, o, ev, c)
    BY <2>1 DEF Story, Placed
  <2>3. ASSUME NEW c \in Code PROVE owed[c] >= 0 /\ owedSet[c] >= 0
    <3>1. PICK cnt : Tally(Sent(K), ev, Disarms, c, cnt) /\ cnt[o] <= owed[c]
      BY <2>2 DEF OwedInv
    <3>2. PICK cntS : Tally(Sent(K), ev, Settings, c, cntS) /\ cntS[o] <= owedSet[c]
      BY <2>2 DEF OwedInv
    <3>3. cnt[o] \in Nat /\ cntS[o] \in Nat
      BY <3>1, <3>2 DEF Tally
    <3>4. owed[c] \in Int /\ owedSet[c] \in Int
      BY DEF IInv, TypeOK
    <3> QED
      BY <3>1, <3>2, <3>3, <3>4
  <2>4. ASSUME Pending = << >>, ~lost, NEW c \in Code PROVE owed[c] = 0
    <3>1. o = Sent(K)
      BY <2>1, <2>4, AllHandled
    <3>2. PICK cnt : Tally(Sent(K), ev, Disarms, c, cnt) /\ owed[c] = cnt[o]
      BY <2>2, <2>4 DEF OwedInv
    <3> QED
      BY <3>1, <3>2 DEF Tally
  <2> QED
    BY <2>3, <2>4 DEF UsesAreTrue
<1> QED
  BY <1>1, Invariance, PTL

\* Once all that was sent is handled, a registered device shows what is wrong with it and
\* nothing else (jablotron.py:2021-2029, 2213-2231).
THEOREM FlagsTrue == Spec => []FlagsAreTrue
<1>1. IInv => FlagsAreTrue
  <2> SUFFICES ASSUME IInv, Pending = << >>, ~fresh, ~lost, NEW t \in Flag \X Registered
               PROVE  t \in flags <=> t \in trouble
    BY DEF FlagsAreTrue
  <2>1. PICK K \in Nat, o \in Nat, ev \in [Nat -> Event \cup {None}], occ \in [Nat -> Nat] :
          Story(K, o, ev, occ)
    BY DEF IInv, StoryInv
  <2>2. o = K
    BY <2>1, AllHandled DEF Sent
  <2>3. FlagInv(K, K, ev, occ)
    BY <2>1, <2>2 DEF Story
  <2> QED
    BY <2>3 DEF FlagInv, Course, Shown
<1> QED
  BY <1>1, Invariance, PTL

\* Whatever is pending, the task has been woken up for it.
WokenUp == pc # "ended" /\ Pending # << >> => messages

\* No wake-up is lost between the last look at the queue and the wait, nor by a record that
\* fails: whatever is pending, the task can go on (jablotron.py:3122-3138).  This is what
\* TakenUp rests on besides fairness.
THEOREM NoWakeUpLost == Spec => []WokenUp
<1> DEFINE Woken == pc # "ended" /\ (pc = "between" \/ outputQ # << >>) => messages
<1>1. Init => Woken
  BY DEF Init
<1>2. TypeOK /\ Woken /\ [Next]_vars => Woken'
  <2> SUFFICES ASSUME TypeOK, Woken, [Next]_vars PROVE Woken'
    OBVIOUS
  <2> USE DEF queueVars, taskVars
  <2>1. CASE Happens \/ Shutdown \/ UNCHANGED vars
    BY <2>1 DEF Happens, Shutdown, vars
  <2>2. CASE ForwardNothing \/ \E r \in Sendable : Forward(r)
    BY <2>2 DEF ForwardNothing, Forward
  <2>3. CASE Work
    <3>1. messages
      BY <2>3 DEF Work
    <3>2. CASE WaitAgain
      <4>1. outputQ' = << >> /\ pc' # "between"
        BY <2>3, <3>2 DEF Work, WaitAgain, HandleNext, Handled, Failed
      <4> QED
        BY <4>1
    <3>3. CASE \E records : HandleNext(records)
      BY <3>1, <3>3 DEF HandleNext, Handled, Failed
    <3> QED
      BY <2>3, <3>2, <3>3 DEF Work
  <2> QED
    BY <2>1, <2>2, <2>3 DEF Next
<1>3. TypeOK /\ Woken => WokenUp
  <2> SUFFICES ASSUME TypeOK, Woken, pc # "ended", Pending # << >> PROVE messages
    BY DEF WokenUp
  <2>1. CASE pc = "waiting"
    <3>1. batch = << >> /\ outputQ # << >>
      BY <2>1, EmptySeq, ConcatEmptySeq DEF TypeOK, Pending
    <3> QED
      BY <3>1
  <2>2. CASE pc = "between"
    BY <2>2
  <2> QED
    BY <2>1, <2>2 DEF TypeOK
<1> QED
  BY <1>1, <1>2, <1>3, TypeCorrect, PTL DEF Spec


\* The intake implements the stream, for any codes, devices and bounds: records are handled
\* in the order in which they were forwarded, and passed over only as repetitions or behind
\* one that fails (jablotron.py:3122-3138).
THEOREM ImplementsStream == Spec => InOrder
<1>1. Init => QueuesTypeOK /\ Stream!Init
  <2> SUFFICES ASSUME Init PROVE QueuesTypeOK /\ Stream!Init
    OBVIOUS
  <2>1. QueuesTypeOK
    BY EmptySeq DEF Init, QueuesTypeOK
  <2>2. Pending = << >>
    BY EmptySeq, ConcatEmptySeq DEF Init, Pending
  <2> QED
    BY <2>1, <2>2 DEF Init, Stream!Init
<1>2. QueuesTypeOK /\ [Next]_vars => QueuesTypeOK'
  BY QueuesTypeKept
<1>3. QueuesTypeOK /\ [Next]_vars => [Stream!Next]_(Stream!vars)
  BY StepsAreSteps
<1> QED
  BY <1>1, <1>2, <1>3, PTL DEF Spec, InOrder, Stream!Spec
=============================================================================
