--------------------------- MODULE CodeStore_proofs ---------------------------
(***************************************************************************)
(* Proofs about CodeStore, for any entries, accounts, key files and bounds.*)
(* The write lock is a queue of which only the head has done anything; the *)
(* head has copied _codes, and its copy differs from them in what it was   *)
(* asked to write only, so that a failure, a crash or another operation    *)
(* leaves the codes of everyone else alone.  On top of that: a loaded      *)
(* entry, its options and its codes agree (when no options flow meets a    *)
(* setup), and what is encoded can be decoded with the key files there are *)
(* (when none of them is lost).                                            *)
(***************************************************************************)
EXTENDS CodeStore, TLAPS

USE DEF FlowState

\* The place of an operation in the lock.
Places == 1 .. Len(line)

\* What the kinds of operation are made of.
WellMade(op) ==
  /\ op.kind \in {"save", "remove"} => op.user \in User
  /\ op.kind = "remove" => op.value = None
  /\ op.kind \in {"flow", "setup"} => op.data.form = op.options.form

\* Is it the account's code that the operation writes?
Writes(op, e, u) == op.kind \in {"save", "remove"} /\ op.entry = e /\ op.user = u

\* An operation that has the lock has copied the codes c, and its copy differs from them
\* in what it was asked to write only.
CopyOf(op, c) ==
  /\ op.stage = "encoding" => op.kind # "remove" /\ op.updated = c
  /\ op.stage \in {"saving", "written"} =>
       \A e \in Entry, u \in User :
         /\ op.updated[e][u].value = IF Writes(op, e, u) THEN op.value ELSE c[e][u].value
         /\ \/ op.updated[e][u] = c[e][u] /\ (op.kind \in {"save", "remove"} \/ op.entry # e)
            \/ /\ op.entry = e
               /\ \/ op.updated[e][u] = NoRecord
                  \/ op.kind # "remove" /\ op.updated[e][u].form = op.options.form

\* Those who wait have not done anything.
HeadOnly == \A i \in Places : i # 1 => line[i].stage = "waiting"

LineInv ==
  \A i \in Places :
    WellMade(line[i]) /\ (line[i].stage # "waiting" => CopyOf(line[i], codes))

\* The store on disk is _codes, or what the head of the line has just written; it holds
\* what was written last.  A store that cannot be read holds nothing.
StoreInv ==
  /\ \A i \in Places : line[i].stage = "written" => storeFile = line[i].updated
  /\ (\A i \in Places : line[i].stage # "written") => storeFile = codes
  /\ \A e \in Entry, u \in User : storeFile[e][u].value = acked[e][u]
  /\ damaged => storeFile = NoCodes
  /\ available => ~damaged

CodesInv == HeadOnly /\ LineInv /\ StoreInv

\* Only an encrypting flow comes to its key file.
KeyFlows == \A e \in Entry : flow[e].stage = "key" => flow[e].options.form # "plain"

\* The credentials, the unit and the codes of an entry are as its options say.
Configured(e) ==
  /\ data[e].form = options[e].form
  /\ cuOptions[e] = options[e]
  /\ \A u \in User : codes[e][u] # NoRecord => codes[e][u].form = options[e].form

\* What a setup has prepared for an entry, and its codes, are as its options say.
Ready(e) ==
  /\ prepared[e].form = options[e].form
  /\ \A u \in User : codes[e][u] # NoRecord => codes[e][u].form = options[e].form

\* Where the store can be read, an entry fits from the moment its setup has migrated it.
Fits(e) ==
  /\ loaded[e] = "decoding" /\ available => Ready(e)
  /\ loaded[e] \in {"initializing", "yes"} /\ available => Configured(e)

\* Only a setup works for an entry that is not loaded, and with its present options.
OpFits(op) ==
  /\ op.kind # "setup" => loaded[op.entry] = "yes"
  /\ op.kind = "setup" => loaded[op.entry] = "no" /\ op.options = options[op.entry]
  /\ op.kind = "save" /\ op.stage # "waiting" => op.options = cuOptions[op.entry]

OneSetup ==
  \A i, j \in Places :
    line[i].kind = "setup" /\ line[j].kind = "setup" /\ line[i].entry = line[j].entry => i = j

EntryInv ==
  /\ \A e \in Entry : Fits(e) /\ (loaded[e] # "yes" => flow[e] = NoFlow)
  /\ \A i \in Places : OpFits(line[i])
  /\ OneSetup

\* What was encoded with a key file can be decoded with the present ones.
Sound(file, s) == s.form # "plain" => s.key # 0 /\ file[s.form] = s.key

AllSound(file, c) == \A e \in Entry, u \in User : Sound(file, c[e][u])

OpSound(file, op) == Sound(file, op.data) /\ AllSound(file, op.updated)

KeyInv ==
  /\ \A e \in Entry : /\ Sound(keyFile, data[e]) /\ Sound(keyFile, entryFile.data[e])
                      /\ Sound(keyFile, prepared[e])
  /\ AllSound(keyFile, codes) /\ AllSound(keyFile, storeFile)
  /\ \A i \in Places : OpSound(keyFile, line[i])

-----------------------------------------------------------------------------
(* The lock as a sequence *)

LEMMA Grows ==
  ASSUME line \in Seq(Operation), NEW op \in Operation, line' = Append(line, op)
  PROVE  /\ line' \in Seq(Operation)
         /\ Len(line) \in Nat /\ Len(line') = Len(line) + 1
         /\ line'[Len(line) + 1] = op
         /\ \A i \in Places : line'[i] = line[i]
BY DEF Places

LEMMA Advances ==
  ASSUME line \in Seq(Operation), NEW op \in Operation, 1 \in Places, Advance(1, op)
  PROVE  /\ line' \in Seq(Operation)
         /\ Len(line') = Len(line) /\ Places' = Places
         /\ line'[1] = op
         /\ \A i \in Places : i # 1 => line'[i] = line[i]
BY DEF Places, Advance

LEMMA Drops ==
  ASSUME line \in Seq(Operation), 1 \in Places, Drop(1)
  PROVE  /\ line' \in Seq(Operation)
         /\ \A i \in Places' : i + 1 \in Places /\ i + 1 # 1 /\ line'[i] = line[i + 1]
<1>1. Len(line) \in Nat /\ Len(line) >= 1
  BY DEF Places
<1>2. line' = [j \in 1 .. Len(line) - 1 |-> line[j + 1]]
  BY <1>1 DEF Drop
<1>3. Len(line) - 1 \in Nat /\ \A j \in 1 .. Len(line) - 1 : j + 1 \in 1 .. Len(line)
  BY <1>1
<1>4. \A j \in 1 .. Len(line) - 1 : line[j + 1] \in Operation
  BY <1>3
<1>5. line' \in Seq(Operation) /\ Len(line') = Len(line) - 1
  BY <1>2, <1>3, <1>4
<1> QED
  BY <1>1, <1>2, <1>3, <1>5 DEF Places

-----------------------------------------------------------------------------
(* Operations, codes and records *)

\* What an operation keeps from its start to its end.
Same(op, t) ==
  /\ t.kind = op.kind /\ t.entry = op.entry /\ t.user = op.user
  /\ t.value = op.value /\ t.data = op.data

LEMMA OperationFields ==
  \A op \in Operation :
    /\ op.kind \in {"save", "remove", "flow", "setup"} /\ op.entry \in Entry
    /\ op.user \in User \cup {None} /\ op.value \in Value \cup {None}
    /\ op.options \in Options /\ op.data \in Sealed
    /\ op.stage \in {"waiting", "encoding", "saving", "written"} /\ op.updated \in Codes
BY DEF Operation

LEMMA NoRecordType == NoRecord \in Record /\ NoRecord.value = None /\ NoRecord.form = "plain"
BY FaultAssumption DEF NoRecord, Record, Form

LEMMA NoCodesType ==
  NoCodes \in Codes /\ \A e \in Entry, u \in User : NoCodes[e][u] = NoRecord
BY NoRecordType DEF NoCodes, Codes

LEMMA OptionsType == NoOptions \in Options /\ Plain \in Sealed
BY FaultAssumption DEF NoOptions, Options, Plain, Sealed, Form

LEMMA CodeChanged ==
  ASSUME NEW c \in Codes, NEW e \in Entry, NEW u, NEW r \in Record
  PROVE  LET d == [c EXCEPT ![e][u] = r] IN
         /\ d \in Codes
         /\ \A f \in Entry, w \in User : d[f][w] = IF f = e /\ w = u THEN r ELSE c[f][w]
BY DEF Codes

LEMMA CodesChanged ==
  ASSUME NEW c \in Codes, NEW e \in Entry, NEW new \in [User -> Record]
  PROVE  LET d == [c EXCEPT ![e] = new] IN
         /\ d \in Codes
         /\ \A f \in Entry : d[f] = IF f = e THEN new ELSE c[f]
BY DEF Codes

LEMMA EncodedType ==
  ASSUME TypeOK, NEW v \in Value \cup {None}, NEW form \in Form, CanEncode(form)
  PROVE  Encoded(v, form) \in Record /\ Encoded(v, form).value = v
        /\ Encoded(v, form).form = form
<1>1. form # "plain" => form \in Key /\ keyFile[form] \in 1 .. MaxKeys
  BY DEF CanEncode, Form
<1>2. (IF form = "plain" THEN 0 ELSE keyFile[form]) \in 0 .. MaxKeys
  BY <1>1, FaultAssumption
<1> QED
  BY <1>2 DEF Encoded, Record

LEMMA SealType ==
  ASSUME TypeOK, NEW form \in Form, CanEncode(form)
  PROVE  Seal(form) \in Sealed /\ Seal(form).form = form
<1>1. form # "plain" => form \in Key /\ keyFile[form] \in 1 .. MaxKeys
  BY DEF CanEncode, Form
<1>2. (IF form = "plain" THEN 0 ELSE keyFile[form]) \in 0 .. MaxKeys
  BY <1>1, FaultAssumption
<1> QED
  BY <1>2 DEF Seal, Sealed

LEMMA MigratedType ==
  ASSUME TypeOK, NEW r \in Record, NEW form \in Form, r = NoRecord \/ CanEncode(form)
  PROVE  /\ Migrated(r, form) \in Record /\ Migrated(r, form).value = r.value
         /\ Migrated(r, form) = NoRecord \/ Migrated(r, form).form = form
         /\ Migrated(r, form) = r \/ (r # NoRecord
               /\ Migrated(r, form) = Encoded(r.value, form))
<1>1. r.value \in Value \cup {None}
  BY DEF Record
<1>2. r # NoRecord => /\ Encoded(r.value, form) \in Record
                      /\ Encoded(r.value, form).value = r.value
                      /\ Encoded(r.value, form).form = form
  BY <1>1, EncodedType
<1> QED
  BY <1>2 DEF Migrated

LEMMA OpType ==
  ASSUME NEW kind \in {"save", "remove", "flow", "setup"}, NEW e \in Entry,
         NEW u \in User \cup {None}, NEW v \in Value \cup {None},
         NEW o \in Options, NEW d \in Sealed
  PROVE  LET op == Op(kind, e, u, v, o, d) IN
         /\ op \in Operation /\ op.kind = kind /\ op.entry = e /\ op.user = u /\ op.value = v
         /\ op.options = o /\ op.data = d /\ op.stage = "waiting" /\ op.updated = NoCodes
BY NoCodesType DEF Op, Operation

-----------------------------------------------------------------------------
(* What the holder of the lock does to its operation *)

LEMMA LockState ==
  ASSUME TypeOK
  PROVE  /\ line \in Seq(Operation)
         /\ \A i \in Places : line[i] \in Operation
         /\ codes \in Codes /\ storeFile \in Codes
         /\ cuOptions \in [Entry -> Options]
         /\ data \in [Entry -> Sealed] /\ options \in [Entry -> Options]
BY DEF TypeOK, Places

\* The operation that takes the lock copies the codes.
Takes(op, t) ==
  /\ Same(op, t) /\ t.stage \in {"encoding", "saving"} /\ CopyOf(t, codes)
  /\ t.options = (IF op.kind = "save" THEN cuOptions[op.entry] ELSE op.options)
  /\ \A e \in Entry, u \in User : t.updated[e][u] \in {codes[e][u], NoRecord}

LEMMA TakeSteps ==
  ASSUME TypeOK, LineInv, NEW i \in Places, Take(i)
  PROVE  /\ i = 1 /\ line[1].stage = "waiting"
         /\ Drop(1) \/ \E t \in Operation : Advance(1, t) /\ Takes(line[1], t)
<1>1. i = 1 /\ line[1].stage = "waiting"
  BY DEF Take, Turn
<1> DEFINE op == line[1]
<1>2. op \in Operation /\ WellMade(op) /\ codes \in Codes /\ cuOptions \in [Entry -> Options]
  BY <1>1, LockState DEF LineInv
<1>3. /\ op.entry \in Entry /\ op.kind \in {"save", "remove", "flow", "setup"}
      /\ cuOptions[op.entry] \in Options
  BY <1>2, OperationFields
<1>4. CASE op.kind = "save"
  <2> DEFINE t == [op EXCEPT !.stage = "encoding", !.updated = codes,
                             !.options = cuOptions[op.entry]]
  <2>1. Advance(1, t)
    BY <1>1, <1>4 DEF Take
  <2>2. /\ t \in Operation /\ Same(op, t)
        /\ t.stage = "encoding" /\ t.updated = codes /\ t.options = cuOptions[op.entry]
    <3>1. t \in Operation
      BY <1>2, <1>3 DEF Operation
    <3>2. Same(op, t) /\ t.stage = "encoding" /\ t.updated = codes
            /\ t.options = cuOptions[op.entry]
      BY <1>2 DEF Operation, Same
    <3> QED
      BY <3>1, <3>2
  <2> HIDE DEF t
  <2>3. CopyOf(t, codes)
    BY <2>2, <1>4 DEF CopyOf, Same
  <2>4. Takes(op, t)
    BY <2>2, <2>3, <1>4 DEF Takes
  <2> QED
    BY <1>1, <2>1, <2>2, <2>4
<1>5. CASE op.kind = "remove"
  <2> DEFINE c == [codes EXCEPT ![op.entry][op.user] = NoRecord]
             t == [op EXCEPT !.stage = "saving", !.updated = c]
  <2>1. Advance(1, t)
    BY <1>1, <1>5 DEF Take
  <2>2. /\ c \in Codes
        /\ \A f \in Entry, w \in User :
             c[f][w] = IF f = op.entry /\ w = op.user THEN NoRecord ELSE codes[f][w]
    BY <1>2, <1>3, CodeChanged, NoRecordType
  <2> HIDE DEF c
  <2>3. /\ t \in Operation /\ Same(op, t)
        /\ t.stage = "saving" /\ t.updated = c /\ t.options = op.options
    <3>1. t \in Operation
      BY <1>2, <2>2 DEF Operation
    <3>2. Same(op, t) /\ t.stage = "saving" /\ t.updated = c /\ t.options = op.options
      BY <1>2 DEF Operation, Same
    <3> QED
      BY <3>1, <3>2
  <2> HIDE DEF t
  <2>4. op.value = None
    BY <1>2, <1>5 DEF WellMade
  <2>5. ASSUME NEW e \in Entry, NEW u \in User
        PROVE  /\ c[e][u].value = IF Writes(t, e, u) THEN t.value ELSE codes[e][u].value
               /\ c[e][u] = codes[e][u] \/ (e = t.entry /\ c[e][u] = NoRecord)
    BY <2>2, <2>3, <2>4, <1>5, NoRecordType DEF Same, Writes
  <2>6. CopyOf(t, codes)
    BY <2>3, <2>5, <1>5 DEF CopyOf, Same
  <2>7. Takes(op, t)
    BY <2>2, <2>3, <2>6, <1>5 DEF Takes
  <2> QED
    BY <1>1, <2>1, <2>3, <2>7
<1>6. CASE op.kind \in {"flow", "setup"}
  <2> DEFINE t == [op EXCEPT !.stage = "encoding", !.updated = codes]
  <2>1. Advance(1, t) \/ Drop(1)
    BY <1>1, <1>6 DEF Take
  <2>2. /\ t \in Operation /\ Same(op, t)
        /\ t.stage = "encoding" /\ t.updated = codes /\ t.options = op.options
    <3>1. t \in Operation
      BY <1>2 DEF Operation
    <3>2. Same(op, t) /\ t.stage = "encoding" /\ t.updated = codes /\ t.options = op.options
      BY <1>2 DEF Operation, Same
    <3> QED
      BY <3>1, <3>2
  <2> HIDE DEF t
  <2>3. CopyOf(t, codes)
    BY <2>2, <1>6 DEF CopyOf, Same
  <2>4. Takes(op, t)
    BY <2>2, <2>3, <1>6 DEF Takes
  <2> QED
    BY <1>1, <2>1, <2>2, <2>4
<1> QED
  BY <1>3, <1>4, <1>5, <1>6

\* The executor encodes the code of the operation, or those of its entry.
Encodes(op, t) ==
  /\ Same(op, t) /\ t.options = op.options /\ CopyOf(t, codes)
  /\ t.stage = "saving" \/ (t.stage = "written" /\ t.updated = codes)
  /\ \A e \in Entry, u \in User :
       \/ t.updated[e][u] = op.updated[e][u]
       \/ /\ CanEncode(op.options.form)
          /\ \E v \in Value \cup {None} : t.updated[e][u] = Encoded(v, op.options.form)

LEMMA EncodeSteps ==
  ASSUME TypeOK, LineInv, NEW i \in Places, Encode(i)
  PROVE  /\ i = 1 /\ line[1].stage = "encoding" /\ line[1].updated = codes
         /\ Drop(1) \/ \E t \in Operation : Advance(1, t) /\ Encodes(line[1], t)
<1>1. i = 1 /\ line[1].stage = "encoding"
  BY DEF Encode, Turn
<1> DEFINE op == line[1]
           e == op.entry
           form == op.options.form
<1>2. op \in Operation /\ CopyOf(op, codes) /\ codes \in Codes
  BY <1>1, LockState DEF LineInv
<1>3. /\ e \in Entry /\ op.kind \in {"save", "remove", "flow", "setup"}
      /\ op.value \in Value \cup {None} /\ form \in Form
  BY <1>2, OperationFields DEF Options
<1>4. op.updated = codes /\ op.kind # "remove"
  BY <1>1, <1>2 DEF CopyOf
<1>5. CASE op.kind = "save"
  <2> DEFINE saved == [op.updated EXCEPT ![e][op.user] = Encoded(op.value, form)]
             t == [op EXCEPT !.stage = "saving", !.updated = saved]
  <2>1. Drop(1) \/ (CanEncode(form) /\ Advance(1, t))
    BY <1>1, <1>5 DEF Encode
  <2> SUFFICES ASSUME CanEncode(form)
               PROVE  Drop(1) \/ \E x \in Operation : Advance(1, x) /\ Encodes(op, x)
    BY <1>1, <1>4, <2>1
  <2>2. /\ Encoded(op.value, form) \in Record /\ Encoded(op.value, form).value = op.value
        /\ Encoded(op.value, form).form = form
    BY <1>3, EncodedType
  <2>3. /\ saved \in Codes
        /\ \A f \in Entry, w \in User :
             saved[f][w] = IF f = e
                   /\ w = op.user THEN Encoded(op.value, form) ELSE codes[f][w]
    BY <1>2, <1>3, <1>4, <2>2 DEF Codes
  <2> HIDE DEF saved
  <2>4. /\ t \in Operation /\ Same(op, t)
        /\ t.stage = "saving" /\ t.updated = saved /\ t.options = op.options
    <3>1. t \in Operation
      BY <1>2, <2>3 DEF Operation
    <3>2. Same(op, t) /\ t.stage = "saving" /\ t.updated = saved /\ t.options = op.options
      BY <1>2 DEF Operation, Same
    <3> QED
      BY <3>1, <3>2
  <2> HIDE DEF t
  <2>5. ASSUME NEW f \in Entry, NEW u \in User
        PROVE  /\ saved[f][u].value = IF Writes(t, f, u) THEN t.value ELSE codes[f][u].value
               /\ saved[f][u] = codes[f][u] \/ (f = t.entry
                     /\ saved[f][u].form = t.options.form)
    BY <2>2, <2>3, <2>4, <1>5 DEF Same, Writes
  <2>6. CopyOf(t, codes)
    BY <2>4, <2>5, <1>5 DEF CopyOf, Same
  <2>7. Encodes(op, t)
    BY <2>3, <2>4, <2>6, <1>3, <1>4 DEF Encodes
  <2> QED
    BY <2>1, <2>4, <2>7
<1>6. CASE op.kind \in {"flow", "setup"}
  <2> DEFINE new == [u \in User |-> Migrated(op.updated[e][u], form)]
             migrated == [op.updated EXCEPT ![e] = new]
             stage == IF migrated = codes THEN "written" ELSE "saving"
             t == [op EXCEPT !.stage = stage, !.updated = migrated]
             encodes == {u \in User : op.updated[e][u] # NoRecord} # {}
  <2>1. Drop(1) \/ ((encodes => CanEncode(form)) /\ Advance(1, t))
    BY <1>1, <1>6 DEF Encode
  <2> SUFFICES ASSUME encodes => CanEncode(form)
               PROVE  Drop(1) \/ \E x \in Operation : Advance(1, x) /\ Encodes(op, x)
    BY <1>1, <1>4, <2>1
  <2>2. ASSUME NEW u \in User
        PROVE  /\ Migrated(codes[e][u], form) \in Record
               /\ Migrated(codes[e][u], form).value = codes[e][u].value
               /\ \/ Migrated(codes[e][u], form) = NoRecord
                  \/ Migrated(codes[e][u], form).form = form
               /\ codes[e][u].value \in Value \cup {None}
               /\ \/ Migrated(codes[e][u], form) = codes[e][u]
                  \/ /\ codes[e][u] # NoRecord
                     /\ Migrated(codes[e][u], form) = Encoded(codes[e][u].value, form)
    <3>1. codes[e][u] \in Record /\ codes[e][u].value \in Value \cup {None}
      BY <1>2, <1>3 DEF Codes, Record
    <3>2. codes[e][u] = NoRecord \/ CanEncode(form)
      BY <1>4
    <3> QED
      BY <3>1, <3>2, <1>3, MigratedType
  <2>3. new \in [User -> Record] /\ \A u \in User : new[u] = Migrated(codes[e][u], form)
    BY <2>2, <1>4
  <2> HIDE DEF new
  <2>4. migrated \in Codes /\ \A f \in Entry : migrated[f] = IF f = e THEN new ELSE codes[f]
    BY <1>2, <1>3, <1>4, <2>3, CodesChanged
  <2> HIDE DEF migrated
  <2>5. stage \in {"saving", "written"} /\ (stage = "written" => migrated = codes)
    OBVIOUS
  <2> HIDE DEF stage
  <2>6. /\ t \in Operation /\ Same(op, t)
        /\ t.stage = stage /\ t.updated = migrated /\ t.options = op.options
    <3>1. t \in Operation
      BY <1>2, <2>4, <2>5 DEF Operation
    <3>2. Same(op, t) /\ t.stage = stage /\ t.updated = migrated /\ t.options = op.options
      BY <1>2 DEF Operation, Same
    <3> QED
      BY <3>1, <3>2
  <2> HIDE DEF t
  <2>7. ASSUME NEW f \in Entry, NEW u \in User
        PROVE  /\ migrated[f][u].value = codes[f][u].value
               /\ \/ migrated[f][u] = codes[f][u] /\ f # e
                  \/ /\ f = e
                     /\ migrated[f][u] = NoRecord \/ migrated[f][u].form = form
    BY <2>2, <2>3, <2>4
  <2>8. CopyOf(t, codes)
    <3>1. t.kind \in {"flow", "setup"} /\ t.entry = e
      BY <2>6, <1>6 DEF Same
    <3>2. \A f \in Entry, u \in User : ~Writes(t, f, u)
      BY <3>1 DEF Writes
    <3> QED
      BY <2>5, <2>6, <2>7, <3>1, <3>2 DEF CopyOf
  <2>9. ASSUME NEW f \in Entry, NEW u \in User
        PROVE  \/ migrated[f][u] = codes[f][u]
               \/ /\ CanEncode(form)
                  /\ \E v \in Value \cup {None} : migrated[f][u] = Encoded(v, form)
    <3>1. CASE f # e
      BY <3>1, <2>4
    <3>2. CASE f = e
      BY <3>2, <2>2, <2>3, <2>4, <1>4
    <3> QED
      BY <3>1, <3>2
  <2>10. Encodes(op, t)
    BY <2>5, <2>6, <2>8, <2>9, <1>4 DEF Encodes
  <2> QED
    BY <2>1, <2>6, <2>10
<1> QED
  BY <1>3, <1>4, <1>5, <1>6

-----------------------------------------------------------------------------
(* Types *)

Progress == {"no", "decoding", "initializing", "failed", "yes"}

LEMMA InitTyped == Init => TypeOK
<1> SUFFICES ASSUME Init PROVE TypeOK
  OBVIOUS
<1>1. 0 \in 0 .. MaxKeys /\ 0 \in 0 .. Broken /\ 0 \in 0 .. MaxCrashes
  BY FaultAssumption DEF Broken
<1>2. keyFile \in [Key -> 0 .. Broken] /\ made \in [Key -> 0 .. MaxKeys]
        /\ crashes \in 0 .. MaxCrashes
  BY <1>1 DEF Init
<1>3. data \in [Entry -> Sealed] /\ options \in [Entry -> Options]
        /\ cuOptions \in [Entry -> Options]
  BY OptionsType DEF Init
<1>4. entryFile \in [data : [Entry -> Sealed], options : [Entry -> Options]]
  BY <1>3 DEF Init
<1>5. codes \in Codes /\ storeFile \in Codes
  BY NoCodesType DEF Init
<1>6. damaged \in BOOLEAN /\ available \in BOOLEAN
  BY FaultAssumption DEF Init
<1>7. line \in Seq(Operation)
  BY DEF Init
<1>8. flow \in [Entry -> FlowState]
  BY OptionsType DEF Init, NoFlow
<1>9. loaded \in [Entry -> Progress] /\ prepared \in [Entry -> Sealed]
        /\ acked \in [Entry -> [User -> Value \cup {None}]]
  BY OptionsType DEF Init, Progress, NothingWritten
<1> QED
  BY <1>2, <1>3, <1>4, <1>5, <1>6, <1>7, <1>8, <1>9 DEF TypeOK, Progress

LEMMA CreateKeyTyped ==
  ASSUME TypeOK, NEW k \in Key, CreateKey(k) \/ CreateKeyFails(k)
  PROVE  keyFile' \in [Key -> 0 .. Broken] /\ made' \in [Key -> 0 .. MaxKeys]
<1>0. /\ made \in [Key -> 0 .. MaxKeys] /\ keyFile \in [Key -> 0 .. Broken]
      /\ MaxKeys \in Nat /\ Broken = MaxKeys + 1
  BY FaultAssumption DEF TypeOK, Broken
<1>1. CASE UNCHANGED keys
  BY <1>0, <1>1 DEF keys
<1>2. CASE CreateKey(k) /\ ~UNCHANGED keys
  <2>1. made[k] + 1 \in 0 .. MaxKeys /\ made[k] + 1 \in 0 .. Broken
    BY <1>0, <1>2 DEF CreateKey
  <2> QED
    BY <1>0, <1>2, <2>1 DEF CreateKey
<1>3. CASE CreateKeyFails(k) /\ ~UNCHANGED keys
  <2>1. made' = made /\ keyFile' \in {keyFile, [keyFile EXCEPT ![k] = Broken]}
    BY <1>3 DEF CreateKeyFails
  <2>2. Broken \in 0 .. Broken
    BY <1>0
  <2> QED
    BY <1>0, <2>1, <2>2
<1> QED
  BY <1>1, <1>2, <1>3

LEMMA PreparedType ==
  ASSUME TypeOK, NEW e \in Entry, NEW form \in Form, CanPrepare(e, form)
  PROVE  Prepared(e, form) \in Sealed /\ Prepared(e, form).form = form
BY SealType DEF Prepared, CanPrepare, TypeOK

LEMMA FlowFields ==
  ASSUME TypeOK, NEW e \in Entry
  PROVE  /\ flow[e].options \in Options /\ flow[e].options.form \in Form
         /\ flow[e].stage \in {"none", "validate", "key", "prepare"}
               /\ flow[e].generate \in BOOLEAN
<1>1. flow[e] \in FlowState
  BY DEF TypeOK
<1> QED
  BY <1>1 DEF Options

LEMMA FlowMoves ==
  ASSUME TypeOK, NEW e \in Entry, NEW stage \in {"validate", "key", "prepare"},
         FlowTo(e, stage) \/ FlowEnds(e)
  PROVE  /\ flow' \in [Entry -> FlowState]
         /\ \A f \in Entry : f # e => flow'[f] = flow[f]
<1>1. NoFlow \in FlowState /\ flow \in [Entry -> FlowState]
  BY OptionsType DEF NoFlow, TypeOK
<1>2. [flow[e] EXCEPT !.stage = stage] \in FlowState
  BY <1>1
<1> HIDE DEF FlowState
<1>3. \/ flow' = [flow EXCEPT ![e] = NoFlow]
      \/ flow' = [flow EXCEPT ![e] = [flow[e] EXCEPT !.stage = stage]]
  BY DEF FlowTo, FlowEnds
<1>4. flow' \in [Entry -> FlowState] /\ \A f \in Entry : f # e => flow'[f] = flow[f]
  BY <1>1, <1>2, <1>3
<1> QED
  BY <1>4

LEMMA TypesStep ==
  ASSUME TypeOK, LineInv, KeyFlows, Next
  PROVE  TypeOK'
<1> USE DEF keys, entries, setup, store
<1>1. ASSUME NEW i \in Places, Take(i)
      PROVE  TypeOK'
  <2>1. line' \in Seq(Operation)
    BY <1>1, TakeSteps, LockState, Advances, Drops
  <2> QED
    BY <2>1, <1>1 DEF Take, TypeOK
<1>2. ASSUME NEW i \in Places, Encode(i)
      PROVE  TypeOK'
  <2>1. line' \in Seq(Operation)
    BY <1>2, EncodeSteps, LockState, Advances, Drops
  <2> QED
    BY <2>1, <1>2 DEF Encode, TypeOK
<1>3. ASSUME NEW i \in Places, WriteStore(i)
      PROVE  TypeOK'
  <2> DEFINE op == line[i]
             t == [op EXCEPT !.stage = "written"]
  <2>1. i = 1 /\ op \in Operation /\ Advance(1, t)
    BY <1>3, LockState DEF WriteStore, Turn
  <2>2. t \in Operation
    BY <2>1 DEF Operation
  <2>3. op.entry \in Entry /\ op.updated \in Codes /\ op.value \in Value \cup {None}
    BY <2>1, OperationFields
  <2>4. line' \in Seq(Operation)
    BY <2>1, <2>2, <1>3, LockState, Advances
  <2>5. acked' \in [Entry -> [User -> Value \cup {None}]]
    <3>1. acked \in [Entry -> [User -> Value \cup {None}]]
      BY DEF TypeOK
    <3>2. acked' = acked \/ acked' = [acked EXCEPT ![op.entry][op.user] = op.value]
      BY <1>3 DEF WriteStore
    <3> HIDE DEF op
    <3>3. acked[op.entry] \in [User -> Value \cup {None}]
      BY <2>3, <3>1
    <3>4. [acked[op.entry] EXCEPT ![op.user] = op.value] \in [User -> Value \cup {None}]
      BY <2>3, <3>3
    <3> QED
      BY <2>3, <3>1, <3>2, <3>4
  <2> QED
    BY <1>3, <2>3, <2>4, <2>5 DEF WriteStore, TypeOK
<1>4. ASSUME NEW i \in Places, WriteFails(i)
      PROVE  TypeOK'
  <2>1. line' \in Seq(Operation)
    BY <1>4, LockState, Drops DEF WriteFails, Turn
  <2> QED
    BY <2>1, <1>4 DEF WriteFails, TypeOK
<1>5. ASSUME NEW i \in Places, Commit(i)
      PROVE  TypeOK'
  <2> DEFINE op == line[i]
             e == op.entry
  <2>1. i = 1 /\ op \in Operation /\ Drop(1)
    BY <1>5, LockState DEF Commit, Turn
  <2>2. /\ e \in Entry /\ op.updated \in Codes /\ op.options \in Options /\ op.data \in Sealed
    BY <2>1, OperationFields
  <2>3. line' \in Seq(Operation)
    BY <2>1, <1>5, LockState, Drops
  <2>4. data' \in [Entry -> Sealed] /\ options' \in [Entry -> Options]
          /\ cuOptions' \in [Entry -> Options]
    <3>1. \/ data' = data /\ options' = options /\ cuOptions' = cuOptions
          \/ /\ data' = [data EXCEPT ![e] = op.data]
             /\ options' = [options EXCEPT ![e] = op.options]
             /\ cuOptions' \in {cuOptions, [cuOptions EXCEPT ![e] = op.options]}
      BY <1>5 DEF Commit
    <3> HIDE DEF op, e
    <3> QED
      BY <2>2, <3>1, LockState
  <2>5. loaded' \in [Entry -> Progress] /\ prepared' \in [Entry -> Sealed]
    <3>1. \/ loaded' = loaded /\ prepared' = prepared
          \/ /\ loaded' = [loaded EXCEPT ![e] = "decoding"]
             /\ prepared' = [prepared EXCEPT ![e] = op.data]
      BY <1>5 DEF Commit, Decode
    <3>2. loaded \in [Entry -> Progress] /\ prepared \in [Entry -> Sealed]
            /\ "decoding" \in Progress
      BY DEF TypeOK, Progress
    <3> HIDE DEF op, e
    <3> QED
      BY <2>2, <3>1, <3>2
  <2> QED
    BY <1>5, <2>2, <2>3, <2>4, <2>5 DEF Commit, TypeOK, Progress
<1>6. ASSUME NEW e \in Entry, NEW u \in User, Remove(e, u)
      PROVE  TypeOK'
  <2>1. line' \in Seq(Operation)
    BY <1>6, OpType, OptionsType, LockState, Grows DEF Remove, LineUp
  <2> QED
    BY <2>1, <1>6 DEF Remove, TypeOK
<1>7. ASSUME NEW e \in Entry, NEW u \in User, NEW v \in Value, Save(e, u, v)
      PROVE  TypeOK'
  <2>1. line' \in Seq(Operation)
    BY <1>7, OpType, OptionsType, LockState, Grows DEF Save, LineUp
  <2> QED
    BY <2>1, <1>7 DEF Save, TypeOK
<1>8. ASSUME NEW e \in Entry, NEW o \in Options, NEW g \in BOOLEAN, FlowStart(e, o, g)
      PROVE  TypeOK'
  <2>1. [stage |-> "validate", options |-> o, generate |-> g]
          \in FlowState
    OBVIOUS
  <2>2. flow' \in [Entry -> FlowState]
    BY <2>1, <1>8 DEF FlowStart, TypeOK
  <2> QED
    BY <2>2, <1>8 DEF FlowStart, TypeOK
<1>9. ASSUME NEW e \in Entry, FlowValidate(e)
      PROVE  TypeOK'
  <2>1. flow' \in [Entry -> FlowState]
    BY <1>9, FlowMoves DEF FlowValidate
  <2> QED
    BY <2>1, <1>9 DEF FlowValidate, TypeOK
<1>10. ASSUME NEW e \in Entry, FlowKey(e)
       PROVE  TypeOK'
  <2>1. flow' \in [Entry -> FlowState]
    BY <1>10, FlowMoves DEF FlowKey
  <2>2. flow[e].options.form \in Key
    BY <1>10, FlowFields DEF Form, FlowKey, KeyFlows
  <2>3. keyFile' \in [Key -> 0 .. Broken] /\ made' \in [Key -> 0 .. MaxKeys]
    BY <1>10, <2>2, CreateKeyTyped DEF FlowKey, TypeOK
  <2> QED
    BY <2>1, <2>3, <1>10 DEF FlowKey, TypeOK
<1>11. ASSUME NEW e \in Entry, FlowPrepare(e)
       PROVE  TypeOK'
  <2> DEFINE o == flow[e].options
  <2>1. flow' \in [Entry -> FlowState]
    BY <1>11, FlowMoves DEF FlowPrepare
  <2>2. o \in Options /\ o.form \in Form
    BY FlowFields
  <2>3. line' \in Seq(Operation)
    <3>1. CASE CanPrepare(e, o.form)
      <4>1. Op("flow", e, None, None, o, Prepared(e, o.form)) \in Operation
        BY <2>2, <3>1, PreparedType, OpType
      <4> QED
        BY <1>11, <3>1, <4>1, LockState, Grows DEF FlowPrepare, LineUp
    <3>2. CASE ~CanPrepare(e, o.form)
      BY <1>11, <3>2, LockState DEF FlowPrepare
    <3> QED
      BY <3>1, <3>2
  <2> QED
    BY <2>1, <2>3, <1>11 DEF FlowPrepare, TypeOK
<1>12. ASSUME NEW e \in Entry, SetupStart(e)
       PROVE  TypeOK'
  <2>1. options[e] \in Options /\ options[e].form \in Form /\ CanPrepare(e, options[e].form)
    BY <1>12 DEF TypeOK, Options, SetupStart
  <2>2. Prepared(e, options[e].form) \in Sealed
    BY <2>1, PreparedType
  <2>3. line' \in Seq(Operation)
    <3>1. Op("setup", e, None, None, options[e], Prepared(e, options[e].form)) \in Operation
      BY <2>1, <2>2, OpType
    <3>2. \/ line' = line
          \/ line' = Append(line, Op("setup", e, None, None, options[e],
                                     Prepared(e, options[e].form)))
      BY <1>12 DEF SetupStart, LineUp
    <3> QED
      BY <3>1, <3>2, LockState, Grows
  <2>4. loaded' \in [Entry -> Progress] /\ prepared' \in [Entry -> Sealed]
    BY <2>2, <1>12 DEF SetupStart, Decode, TypeOK, Progress
  <2> QED
    BY <2>3, <2>4, <1>12 DEF SetupStart, TypeOK, Progress
<1>13. ASSUME NEW e \in Entry,
              SetupMakes(e) \/ SetupEnd(e) \/ SetupFails(e) \/ Reload(e) \/ Unload(e)
       PROVE  TypeOK'
  <2>1. \E p \in Progress : loaded' = [loaded EXCEPT ![e] = p]
    BY <1>13 DEF SetupMakes, SetupEnd, SetupFails, Reload, Unload, Progress
  <2>2. loaded' \in [Entry -> Progress]
    BY <2>1 DEF TypeOK, Progress
  <2>3. /\ data' = data \/ data' = [data EXCEPT ![e] = prepared[e]]
        /\ cuOptions' = cuOptions \/ cuOptions' = [cuOptions EXCEPT ![e] = options[e]]
        /\ prepared' = prepared \/ prepared' = [prepared EXCEPT ![e] = Plain]
    <3>1. CASE SetupMakes(e)
      BY <3>1 DEF SetupMakes
    <3>2. CASE ~SetupMakes(e)
      BY <1>13, <3>2 DEF SetupEnd, SetupFails, Reload, Unload
    <3> QED
      BY <3>1, <3>2
  <2>4. /\ data' \in [Entry -> Sealed] /\ cuOptions' \in [Entry -> Options]
        /\ prepared' \in [Entry -> Sealed]
    <3>1. /\ data \in [Entry -> Sealed] /\ prepared \in [Entry -> Sealed]
          /\ cuOptions \in [Entry -> Options] /\ options \in [Entry -> Options]
      BY DEF TypeOK
    <3> QED
      BY <2>3, <3>1, OptionsType
  <2> QED
    BY <2>2, <2>4, <1>13
    DEF SetupMakes, SetupEnd, SetupFails, Reload, Unload, TypeOK, Progress
<1>14. CASE Persist
  BY <1>14 DEF Persist, TypeOK
<1>15. CASE Crash
  <2>1. entryFile.data \in [Entry -> Sealed] /\ entryFile.options \in [Entry -> Options]
    BY DEF TypeOK
  <2>2. codes' \in Codes /\ storeFile' \in Codes
    BY <1>15, NoCodesType DEF Crash, TypeOK
  <2>3. flow' \in [Entry -> FlowState]
    BY <1>15, OptionsType DEF Crash, NoFlow
  <2>4. crashes' \in 0 .. MaxCrashes
    BY <1>15, FaultAssumption DEF Crash, TypeOK
  <2>5. damaged' \in BOOLEAN /\ available' \in BOOLEAN
    <3>1. damaged' \in {damaged, damaged \/ Damaged} /\ available' = ~damaged'
      BY <1>15, Zenon DEF Crash
    <3>2. damaged \in BOOLEAN /\ Damaged \in BOOLEAN
      BY FaultAssumption, Zenon DEF TypeOK
    <3> QED
      BY <3>1, <3>2, Zenon
  <2>6. line' \in Seq(Operation)
    BY <1>15 DEF Crash
  <2>7. loaded' \in [Entry -> Progress] /\ prepared' \in [Entry -> Sealed]
    BY <1>15, OptionsType DEF Crash, Progress
  <2>8. acked' \in [Entry -> [User -> Value \cup {None}]]
    <3>1. NothingWritten \in [Entry -> [User -> Value \cup {None}]]
      BY DEF NothingWritten
    <3>2. acked' = acked \/ acked' = NothingWritten
      BY <1>15 DEF Crash
    <3> QED
      BY <3>1, <3>2 DEF TypeOK
  <2>9. keyFile' \in [Key -> 0 .. Broken]
    <3>1. PICK torn \in SUBSET Torn :
            keyFile' = [k \in Key |-> IF k \in torn THEN Broken ELSE keyFile[k]]
      BY <1>15 DEF Crash
    <3>2. Broken \in 0 .. Broken
      BY FaultAssumption DEF Broken
    <3> QED
      BY <3>1, <3>2 DEF TypeOK
  <2>10. made' \in [Key -> 0 .. MaxKeys]
         /\ entryFile' \in [data : [Entry -> Sealed], options : [Entry -> Options]]
    BY <1>15 DEF Crash, TypeOK
  <2>11. data' \in [Entry -> Sealed] /\ options' \in [Entry -> Options]
           /\ cuOptions' \in [Entry -> Options]
    BY <1>15, <2>1 DEF Crash
  <2> QED
    BY <2>2, <2>3, <2>4, <2>5, <2>6, <2>7, <2>8, <2>9, <2>10, <2>11 DEF TypeOK, Progress
<1>16. ASSUME NEW k \in Key, KeyLost(k)
       PROVE  TypeOK'
  <2>1. keyFile' \in [Key -> 0 .. Broken]
    BY <1>16, FaultAssumption DEF KeyLost, TypeOK, Broken
  <2> QED
    BY <2>1, <1>16 DEF KeyLost, TypeOK
<1> QED
  BY <1>1, <1>2, <1>3, <1>4, <1>5, <1>6, <1>7, <1>8, <1>9, <1>10, <1>11, <1>12, <1>13, <1>14,
     <1>15, <1>16 DEF Next, AtLock, Places

-----------------------------------------------------------------------------
(* The codes *)

LEMMA InitCodes == Init => CodesInv /\ KeyFlows
<1> SUFFICES ASSUME Init PROVE CodesInv /\ KeyFlows
  OBVIOUS
<1>1. Places = {}
  BY DEF Init, Places
<1>2. storeFile = NoCodes /\ codes = NoCodes
  BY DEF Init
<1>3. \A e \in Entry, u \in User : storeFile[e][u].value = acked[e][u]
  BY <1>2, NoCodesType, NoRecordType DEF Init, NothingWritten
<1>4. damaged \in BOOLEAN /\ available = ~damaged
  BY FaultAssumption DEF Init
<1>5. StoreInv
  BY <1>1, <1>2, <1>3, <1>4 DEF StoreInv
<1>6. HeadOnly /\ LineInv
  BY <1>1 DEF HeadOnly, LineInv
<1>7. KeyFlows
  BY DEF Init, NoFlow, KeyFlows
<1> QED
  BY <1>5, <1>6, <1>7 DEF CodesInv

\* What a step leaves alone that does nothing to the codes and the store.
StoreStays == UNCHANGED <<codes, storeFile, damaged, available, acked>>

LineGrows(op) == op \in Operation /\ op.stage = "waiting" /\ WellMade(op)
      /\ line' = Append(line, op)

LEMMA CodesStay ==
  ASSUME TypeOK, CodesInv, StoreStays,
         \/ UNCHANGED line
         \/ \E op \in Operation : LineGrows(op)
  PROVE  CodesInv'
<1>1. CASE UNCHANGED line
  BY <1>1 DEF StoreStays, CodesInv, HeadOnly, LineInv, StoreInv, Places, WellMade, CopyOf,
     Writes
<1>2. ASSUME NEW op \in Operation, LineGrows(op)
      PROVE  CodesInv'
  <2>1. /\ Len(line) \in Nat /\ Len(line') = Len(line) + 1
        /\ line'[Len(line) + 1] = op
        /\ \A i \in Places : line'[i] = line[i]
    BY <1>2, LockState, Grows DEF LineGrows
  <2>2. \A i \in Places' : i \in Places \/ i = Len(line) + 1
    BY <2>1 DEF Places
  <2>3. Places \subseteq Places'
    BY <2>1 DEF Places
  <2>4. HeadOnly'
    BY <1>2, <2>1, <2>2 DEF CodesInv, HeadOnly, LineGrows
  <2>5. LineInv'
    <3> SUFFICES ASSUME NEW i \in Places'
                 PROVE  WellMade(line'[i])
                       /\ (line'[i].stage # "waiting" => CopyOf(line'[i], codes))
      BY DEF LineInv, StoreStays, WellMade, CopyOf, Writes
    <3>1. CASE i \in Places
      BY <3>1, <2>1 DEF CodesInv, LineInv
    <3>2. CASE i = Len(line) + 1
      BY <3>2, <2>1, <1>2 DEF LineGrows
    <3> QED
      BY <3>1, <3>2, <2>2
  <2>6. \A i \in Places' : line'[i].stage = "written" => i \in Places /\ line'[i] = line[i]
    BY <1>2, <2>1, <2>2 DEF LineGrows
  <2>7. StoreInv'
    BY <2>1, <2>3, <2>6 DEF CodesInv, StoreInv, StoreStays
  <2> QED
    BY <2>4, <2>5, <2>7 DEF CodesInv
<1> QED
  BY <1>1, <1>2

LEMMA CodesDropped ==
  ASSUME TypeOK, CodesInv, 1 \in Places, Drop(1),
         UNCHANGED <<storeFile, damaged, available, acked>>,
         codes' = storeFile
  PROVE  CodesInv'
<1>1. \A i \in Places' : i + 1 \in Places /\ i + 1 # 1 /\ line'[i] = line[i + 1]
  BY LockState, Drops
<1>2. \A i \in Places' : line'[i].stage = "waiting" /\ WellMade(line'[i])
  BY <1>1 DEF CodesInv, HeadOnly, LineInv
<1>3. HeadOnly' /\ LineInv'
  BY <1>2 DEF HeadOnly, LineInv, WellMade
<1>4. StoreInv'
  BY <1>2 DEF CodesInv, StoreInv
<1> QED
  BY <1>3, <1>4 DEF CodesInv

LEMMA HeadNotWritten ==
  ASSUME CodesInv, 1 \in Places, line[1].stage # "written"
  PROVE  storeFile = codes /\ \A i \in Places : line[i].stage # "written"
<1>1. \A i \in Places : line[i].stage # "written"
  BY DEF CodesInv, HeadOnly
<1> QED
  BY <1>1 DEF CodesInv, StoreInv

LEMMA CodesAdvance ==
  ASSUME TypeOK, CodesInv, 1 \in Places, line[1].stage # "written", StoreStays,
         NEW t \in Operation, Advance(1, t), Same(line[1], t), WellMade(t), CopyOf(t, codes),
         t.stage # "waiting", t.stage = "written" => t.updated = codes
  PROVE  CodesInv'
<1>1. Places' = Places /\ line'[1] = t /\ \A i \in Places : i # 1 => line'[i] = line[i]
  BY LockState, Advances
<1>2. HeadOnly'
  BY <1>1 DEF CodesInv, HeadOnly
<1>3. LineInv'
  <2> SUFFICES ASSUME NEW i \in Places
               PROVE  WellMade(line'[i])
                     /\ (line'[i].stage # "waiting" => CopyOf(line'[i], codes))
    BY <1>1 DEF LineInv, StoreStays, WellMade, CopyOf, Writes
  <2> QED
    BY <1>1 DEF CodesInv, LineInv
<1>4. StoreInv'
  <2>1. storeFile = codes /\ \A i \in Places : line[i].stage # "written"
    BY HeadNotWritten
  <2>2. \A i \in Places' : line'[i].stage = "written" => line'[i].updated = codes
    BY <1>1, <2>1
  <2> QED
    BY <2>1, <2>2 DEF CodesInv, StoreInv, StoreStays
<1> QED
  BY <1>2, <1>3, <1>4 DEF CodesInv

LEMMA SameWellMade ==
  ASSUME NEW op, NEW t, Same(op, t), WellMade(op),
         t.options = op.options \/ op.kind = "save"
  PROVE  WellMade(t)
BY DEF Same, WellMade

LEMMA CodesStep ==
  ASSUME TypeOK, CodesInv, Next
  PROVE  CodesInv'
<1> USE DEF keys, entries, setup, store
<1>0. LineInv
  BY DEF CodesInv
<1>1. ASSUME NEW i \in Places, Take(i)
      PROVE  CodesInv'
  <2>0. StoreStays
    BY <1>1 DEF Take, StoreStays
  <2>1. /\ i = 1 /\ line[1].stage = "waiting" /\ StoreStays
        /\ Drop(1) \/ \E t \in Operation : Advance(1, t) /\ Takes(line[1], t)
    BY <1>0, <1>1, <2>0, TakeSteps
  <2>2. CASE Drop(1)
    BY <1>1, <2>1, <2>2, HeadNotWritten, CodesDropped DEF StoreStays
  <2>3. ASSUME NEW t \in Operation, Advance(1, t), Takes(line[1], t)
        PROVE  CodesInv'
    <3>1. WellMade(t)
      BY <1>0, <1>1, <2>1, <2>3, SameWellMade DEF Takes, LineInv
    <3> QED
      BY <1>1, <2>1, <2>3, <3>1, CodesAdvance DEF Takes
  <2> QED
    BY <2>1, <2>2, <2>3
<1>2. ASSUME NEW i \in Places, Encode(i)
      PROVE  CodesInv'
  <2>0. StoreStays
    BY <1>2 DEF Encode, StoreStays
  <2>1. /\ i = 1 /\ line[1].stage = "encoding" /\ StoreStays
        /\ Drop(1) \/ \E t \in Operation : Advance(1, t) /\ Encodes(line[1], t)
    BY <1>0, <1>2, <2>0, EncodeSteps
  <2>2. CASE Drop(1)
    BY <1>2, <2>1, <2>2, HeadNotWritten, CodesDropped DEF StoreStays
  <2>3. ASSUME NEW t \in Operation, Advance(1, t), Encodes(line[1], t)
        PROVE  CodesInv'
    <3>1. WellMade(t)
      BY <1>0, <1>2, <2>1, <2>3, SameWellMade DEF Encodes, LineInv
    <3> QED
      BY <1>2, <2>1, <2>3, <3>1, CodesAdvance DEF Encodes
  <2> QED
    BY <2>1, <2>2, <2>3
<1>3. ASSUME NEW i \in Places, WriteStore(i)
      PROVE  CodesInv'
  <2> DEFINE op == line[1]
             t == [op EXCEPT !.stage = "written"]
  <2>1. i = 1 /\ op \in Operation /\ op.stage = "saving" /\ Advance(1, t)
    BY <1>3, LockState DEF WriteStore, Turn
  <2>2. t \in Operation
    BY <2>1 DEF Operation
  <2>3. Same(op, t) /\ t.stage = "written" /\ t.updated = op.updated /\ t.options = op.options
    BY <2>1 DEF Operation, Same
  <2>4. WellMade(op) /\ CopyOf(op, codes)
    BY <1>0, <1>3, <2>1 DEF LineInv
  <2>5. storeFile = codes /\ \A j \in Places : line[j].stage # "written"
    BY <1>3, <2>1, HeadNotWritten
  <2>6. op.entry \in Entry /\ op.kind \in {"save", "remove", "flow", "setup"}
          /\ acked \in [Entry -> [User -> Value \cup {None}]]
    BY <2>1, OperationFields DEF TypeOK
  <2>7. /\ storeFile' = op.updated /\ damaged' = FALSE /\ UNCHANGED <<codes, available>>
        /\ op.kind \in {"save",
              "remove"} => acked' = [acked EXCEPT ![op.entry][op.user] = op.value]
        /\ op.kind \notin {"save", "remove"} => acked' = acked
    BY <1>3, <2>1 DEF WriteStore
  <2> HIDE DEF t
  <2>8. WellMade(t)
    BY <2>3, <2>4, SameWellMade
  <2>9. CopyOf(t, codes)
    BY <2>1, <2>3, <2>4 DEF CopyOf, Same, Writes
  <2>10. Places' = Places /\ line'[1] = t /\ \A j \in Places : j # 1 => line'[j] = line[j]
    BY <1>3, <2>1, <2>2, LockState, Advances
  <2>11. HeadOnly'
    BY <2>10 DEF CodesInv, HeadOnly
  <2>12. LineInv'
    <3> SUFFICES ASSUME NEW j \in Places
                 PROVE  WellMade(line'[j])
                       /\ (line'[j].stage # "waiting" => CopyOf(line'[j], codes))
      BY <2>7, <2>10 DEF LineInv, WellMade, CopyOf, Writes
    <3> QED
      BY <2>8, <2>9, <2>10 DEF CodesInv, LineInv
  <2>13. \A e \in Entry, u \in User : storeFile'[e][u].value = acked'[e][u]
    <3> SUFFICES ASSUME NEW e \in Entry, NEW u \in User
                 PROVE  op.updated[e][u].value = acked'[e][u]
      BY <2>7
    <3>1. op.updated[e][u].value = IF Writes(op, e, u) THEN op.value ELSE codes[e][u].value
      BY <2>1, <2>4 DEF CopyOf
    <3>2. codes[e][u].value = acked[e][u]
      BY <2>5 DEF CodesInv, StoreInv
    <3>3. CASE op.kind \in {"save", "remove"}
      <4>1. acked'[e][u] = IF op.entry = e /\ op.user = u THEN op.value ELSE acked[e][u]
        <5> HIDE DEF op
        <5> QED
          BY <2>6, <2>7, <3>3
      <4> QED
        BY <3>1, <3>2, <3>3, <4>1 DEF Writes
    <3>4. CASE op.kind \notin {"save", "remove"}
      BY <2>7, <3>1, <3>2, <3>4 DEF Writes
    <3> QED
      BY <3>3, <3>4
  <2>14. \A j \in Places' : line'[j].stage = "written" => line'[j].updated = storeFile'
    BY <2>3, <2>5, <2>7, <2>10
  <2>15. 1 \in Places' /\ line'[1].stage = "written"
    BY <1>3, <2>1, <2>3, <2>10
  <2>16. StoreInv'
    BY <2>7, <2>13, <2>14, <2>15 DEF StoreInv
  <2> QED
    BY <2>11, <2>12, <2>16 DEF CodesInv
<1>4. ASSUME NEW i \in Places, WriteFails(i)
      PROVE  CodesInv'
  <2>1. i = 1 /\ line[1].stage = "saving" /\ Drop(1) /\ StoreStays
    BY <1>4 DEF WriteFails, Turn, StoreStays
  <2> QED
    BY <1>4, <2>1, HeadNotWritten, CodesDropped DEF StoreStays
<1>5. ASSUME NEW i \in Places, Commit(i)
      PROVE  CodesInv'
  <2>1. i = 1 /\ line[1].stage = "written" /\ Drop(1) /\ codes' = line[1].updated
          /\ UNCHANGED <<storeFile, damaged, available, acked>>
    BY <1>5 DEF Commit, Turn
  <2>2. storeFile = line[1].updated
    BY <1>5, <2>1 DEF CodesInv, StoreInv
  <2> QED
    BY <1>5, <2>1, <2>2, CodesDropped
<1>6. ASSUME NEW e \in Entry, NEW u \in User, Remove(e, u)
      PROVE  CodesInv'
  <2> DEFINE op == Op("remove", e, u, None, NoOptions, Plain)
  <2>1. op \in Operation /\ op.kind = "remove" /\ op.user = u /\ op.value = None
          /\ op.stage = "waiting"
    BY OpType, OptionsType
  <2>2. line' = Append(line, op) /\ StoreStays
    BY <1>6 DEF Remove, LineUp, StoreStays
  <2> HIDE DEF op
  <2>3. LineGrows(op)
    BY <2>1, <2>2 DEF LineGrows, WellMade
  <2> QED
    BY <2>1, <2>2, <2>3, CodesStay
<1>7. ASSUME NEW e \in Entry, NEW u \in User, NEW v \in Value, Save(e, u, v)
      PROVE  CodesInv'
  <2> DEFINE op == Op("save", e, u, v, NoOptions, Plain)
  <2>1. op \in Operation /\ op.kind = "save" /\ op.user = u /\ op.stage = "waiting"
    BY OpType, OptionsType
  <2>2. line' = Append(line, op) /\ StoreStays
    BY <1>7 DEF Save, LineUp, StoreStays
  <2> HIDE DEF op
  <2>3. LineGrows(op)
    BY <2>1, <2>2 DEF LineGrows, WellMade
  <2> QED
    BY <2>1, <2>2, <2>3, CodesStay
<1>8. ASSUME NEW e \in Entry,
             (\E o \in Options, g \in BOOLEAN : FlowStart(e, o, g)) \/ FlowValidate(e)
               \/ FlowKey(e) \/ SetupMakes(e) \/ SetupEnd(e) \/ SetupFails(e)
               \/ Reload(e) \/ Unload(e)
      PROVE  CodesInv'
  <2>1. StoreStays /\ UNCHANGED line
    BY <1>8 DEF StoreStays, FlowStart, FlowValidate, FlowKey, SetupMakes, SetupEnd, SetupFails,
                Reload, Unload
  <2> QED
    BY <2>1, CodesStay
<1>9. ASSUME NEW e \in Entry, FlowPrepare(e)
      PROVE  CodesInv'
  <2> DEFINE o == flow[e].options
             op == Op("flow", e, None, None, o, Prepared(e, o.form))
  <2>0. StoreStays /\ (UNCHANGED line \/ CanPrepare(e, o.form))
    BY <1>9 DEF FlowPrepare, StoreStays
  <2> SUFFICES ASSUME CanPrepare(e, o.form) PROVE CodesInv'
    BY <2>0, CodesStay
  <2>1. StoreStays /\ (UNCHANGED line \/ line' = Append(line, op))
    BY <1>9 DEF FlowPrepare, LineUp, StoreStays
  <2>2. o \in Options /\ Prepared(e, o.form) \in Sealed /\ Prepared(e, o.form).form = o.form
    BY FlowFields, PreparedType
  <2>3. op \in Operation /\ op.kind = "flow" /\ op.options = o
          /\ op.data = Prepared(e, o.form) /\ op.stage = "waiting"
    BY <2>2, OpType
  <2>4. line' = Append(line, op) => LineGrows(op)
    <3> HIDE DEF op
    <3> QED
      BY <2>2, <2>3 DEF LineGrows, WellMade
  <2> QED
    BY <2>1, <2>3, <2>4, CodesStay
<1>10. ASSUME NEW e \in Entry, SetupStart(e)
       PROVE  CodesInv'
  <2> DEFINE o == options[e]
             op == Op("setup", e, None, None, o, Prepared(e, o.form))
  <2>1. StoreStays /\ (UNCHANGED line \/ line' = Append(line, op))
    BY <1>10 DEF SetupStart, LineUp, StoreStays
  <2>2. o \in Options /\ Prepared(e, o.form) \in Sealed /\ Prepared(e, o.form).form = o.form
    BY <1>10, PreparedType DEF TypeOK, Options, SetupStart
  <2>3. op \in Operation /\ op.kind = "setup" /\ op.options = o
          /\ op.data = Prepared(e, o.form) /\ op.stage = "waiting"
    <3>1. Prepared(e, o.form) \in Sealed /\ None \in User \cup {None}
            /\ None \in Value \cup {None}
      BY <2>2
    <3> HIDE DEF o
    <3> QED
      BY <2>2, <3>1, OpType
  <2>4. line' = Append(line, op) => LineGrows(op)
    <3> HIDE DEF op
    <3> QED
      BY <2>2, <2>3 DEF LineGrows, WellMade
  <2> QED
    BY <2>1, <2>3, <2>4, CodesStay
<1>11. CASE Persist
  BY <1>11, CodesStay DEF Persist, StoreStays
<1>12. CASE Crash
  <2>1. Places' = {}
    BY <1>12 DEF Crash, Places
  <2>2. /\ codes' = storeFile' /\ available' = ~damaged' /\ (damaged => damaged')
        /\ damaged' => storeFile' = NoCodes /\ acked' = NothingWritten
        /\ ~damaged' => storeFile' = storeFile /\ acked' = acked
    BY <1>12, Zenon DEF Crash
  <2>3. \A e \in Entry, u \in User : storeFile'[e][u].value = acked'[e][u]
    <3>1. CASE damaged'
      BY <2>2, <3>1, NoCodesType, NoRecordType DEF NothingWritten
    <3>2. CASE ~damaged'
      BY <2>2, <3>2 DEF CodesInv, StoreInv
    <3> QED
      BY <3>1, <3>2
  <2>4. StoreInv'
    BY <2>1, <2>2, <2>3 DEF StoreInv
  <2> QED
    BY <2>1, <2>4 DEF CodesInv, HeadOnly, LineInv
<1>13. ASSUME NEW k \in Key, KeyLost(k)
       PROVE  CodesInv'
  BY <1>13, CodesStay DEF KeyLost, StoreStays
<1> QED
  BY <1>1, <1>2, <1>3, <1>4, <1>5, <1>6, <1>7, <1>8, <1>9, <1>10, <1>11, <1>12, <1>13
     DEF Next, AtLock, Places

LEMMA KeyFlowsStep ==
  ASSUME TypeOK, KeyFlows, Next
  PROVE  KeyFlows'
<1> USE DEF keys, entries, setup, store
<1>1. CASE UNCHANGED flow
  BY <1>1 DEF KeyFlows
<1>2. ASSUME NEW e \in Entry, NEW o \in Options, NEW g \in BOOLEAN, FlowStart(e, o, g)
      PROVE  KeyFlows'
  BY <1>2 DEF FlowStart, KeyFlows, TypeOK
<1>3. ASSUME NEW e \in Entry, FlowValidate(e) \/ FlowKey(e) \/ FlowPrepare(e)
      PROVE  KeyFlows'
  <2>1. /\ \/ flow' = [flow EXCEPT ![e] = NoFlow]
           \/ /\ flow' = [flow EXCEPT ![e].stage = "key"] /\ flow[e].options.form # "plain"
           \/ flow' = [flow EXCEPT ![e].stage = "prepare"]
        /\ flow \in [Entry -> FlowState]
    BY <1>3 DEF FlowValidate, FlowKey, FlowPrepare, FlowTo, FlowEnds, TypeOK
  <2>2. ASSUME NEW f \in Entry, flow'[f].stage = "key"
        PROVE  flow'[f].options.form # "plain"
    <3>1. flow[e] \in FlowState /\ NoFlow.stage = "none"
      BY <2>1 DEF NoFlow
    <3>2. f # e => flow'[f] = flow[f]
      BY <2>1
    <3>3. CASE f = e
      BY <2>1, <2>2, <3>1, <3>3
    <3> QED
      BY <2>2, <3>2, <3>3 DEF KeyFlows
  <2> QED
    BY <2>2 DEF KeyFlows
<1>4. CASE Crash
  BY <1>4 DEF Crash, NoFlow, KeyFlows
<1>5. ASSUME NEW i \in 1 .. Len(line),
             Take(i) \/ Encode(i) \/ WriteStore(i) \/ Commit(i) \/ WriteFails(i)
      PROVE  UNCHANGED flow
  BY <1>5 DEF Take, Encode, WriteStore, WriteFails, Commit
<1>6. ASSUME NEW e \in Entry,
             \/ \E u \in User : Remove(e, u) \/ \E v \in Value : Save(e, u, v)
             \/ SetupStart(e) \/ SetupMakes(e) \/ SetupEnd(e) \/ SetupFails(e)
             \/ Reload(e) \/ Unload(e)
      PROVE  UNCHANGED flow
  BY <1>6 DEF Save, Remove, SetupStart, SetupMakes, SetupEnd, SetupFails, Reload, Unload
<1>7. Persist \/ (\E k \in Key : KeyLost(k)) => UNCHANGED flow
  BY DEF Persist, KeyLost
<1> QED
  BY <1>1, <1>2, <1>3, <1>4, <1>5, <1>6, <1>7 DEF Next, AtLock

-----------------------------------------------------------------------------
(* The invariant *)

\* What every step keeps.
IInv == TypeOK /\ CodesInv /\ KeyFlows

LEMMA Initially == Init => IInv
BY InitTyped, InitCodes DEF IInv

LEMMA Preserved == IInv /\ [Next]_vars => IInv'
<1>1. CASE UNCHANGED vars
  <2>1. IInv => TypeOK'
    BY <1>1 DEF IInv, vars, keys, entries, setup, store, TypeOK
  <2>2. IInv => CodesInv'
    BY <1>1, CodesStay DEF IInv, vars, store, StoreStays
  <2>3. IInv => KeyFlows'
    BY <1>1 DEF IInv, vars, KeyFlows
  <2> QED
    BY <2>1, <2>2, <2>3 DEF IInv
<1>2. IInv /\ Next => IInv'
  BY TypesStep, CodesStep, KeyFlowsStep DEF IInv, CodesInv
<1> QED
  BY <1>1, <1>2

\* The inductive invariant: only the holder of the lock has copied _codes and changes its
\* copy (async_save, async_remove, async_migrate), and the store is one or the other.
THEOREM Invariance == Spec => []IInv
BY Initially, Preserved, PTL DEF Spec

\* The store, the entries and the operations at the lock stay what they are made of
\* (user_codes.py, credentials.py), whatever fails or crashes.
THEOREM TypeCorrect == Spec => []TypeOK
BY Invariance, PTL DEF IInv

LEMMA Agreement == IInv => NoCodeLost
<1> SUFFICES ASSUME IInv, NEW e \in Entry, NEW u \in User
             PROVE  /\ storeFile[e][u].value = acked[e][u]
                    /\ \/ codes[e][u].value = acked[e][u]
                       \/ \E i \in Places : /\ line[i].stage = "written"
                                            /\ line[i].entry = e /\ line[i].user = u
  BY DEF NoCodeLost, Places
<1>1. storeFile[e][u].value = acked[e][u]
  BY DEF IInv, CodesInv, StoreInv
<1>2. CASE \A i \in Places : line[i].stage # "written"
  BY <1>1, <1>2 DEF IInv, CodesInv, StoreInv
<1>3. ASSUME NEW i \in Places, line[i].stage = "written"
      PROVE  \/ codes[e][u].value = acked[e][u]
             \/ line[i].entry = e /\ line[i].user = u
  <2>1. storeFile = line[i].updated /\ CopyOf(line[i], codes)
    BY <1>3 DEF IInv, CodesInv, StoreInv, LineInv
  <2> QED
    BY <1>1, <1>3, <2>1 DEF CopyOf, Writes
<1> QED
  BY <1>1, <1>2, <1>3

\* No code is lost and none comes back, whatever is saved, removed, migrated, fails or
\* crashes and however many wait for the lock: the store holds for every account what
\* was written for it last.
THEOREM NothingLost == Spec => []NoCodeLost
BY Invariance, Agreement, PTL

-----------------------------------------------------------------------------
(* The entries and their options *)

LEMMA InitEntries == Init => EntryInv
BY DEF Init, EntryInv, Fits, OneSetup, Places

\* What a step leaves alone that does nothing to the entries.
EntriesStay == UNCHANGED <<data, options, cuOptions, loaded, prepared, codes, available>>

LEMMA OneFits ==
  ASSUME NEW e \in Entry, Fits(e), EntriesStay
  PROVE  Fits(e)'
BY DEF Fits, Ready, Configured, EntriesStay

LEMMA FitsStay ==
  ASSUME EntryInv, EntriesStay, UNCHANGED line,
         \A e \in Entry : loaded[e] # "yes" => flow'[e] = flow[e]
  PROVE  EntryInv'
<1>1. Places' = Places /\ \A i \in Places : line'[i] = line[i]
  BY DEF Places
<1>2. \A i \in Places' : OpFits(line[i])'
  BY <1>1 DEF EntryInv, EntriesStay, OpFits
<1>3. OneSetup'
  BY <1>1 DEF EntryInv, OneSetup
<1>4. \A e \in Entry : Fits(e)'
  BY OneFits DEF EntryInv
<1> QED
  BY <1>2, <1>3, <1>4 DEF EntryInv, EntriesStay

LEMMA FitsAdvance ==
  ASSUME TypeOK, EntryInv, EntriesStay, UNCHANGED flow, 1 \in Places,
         NEW t \in Operation, Advance(1, t), Same(line[1], t),
         \/ t.options = line[1].options
               /\ (line[1].kind = "save" => line[1].stage # "waiting")
         \/ t.kind = "save" /\ t.options = cuOptions[t.entry]
  PROVE  EntryInv'
<1>1. Places' = Places /\ line'[1] = t /\ \A i \in Places : i # 1 => line'[i] = line[i]
  BY LockState, Advances
<1>2. OpFits(t)
  BY DEF EntryInv, OpFits, Same
<1>3. \A i \in Places' : OpFits(line[i])'
  BY <1>1, <1>2 DEF EntryInv, EntriesStay, OpFits
<1>4. OneSetup'
  BY <1>1 DEF EntryInv, OneSetup, Same
<1>5. \A e \in Entry : Fits(e)'
  BY OneFits DEF EntryInv
<1> QED
  BY <1>3, <1>4, <1>5 DEF EntryInv, EntriesStay

LEMMA OneSetupDropped ==
  ASSUME TypeOK, OneSetup, 1 \in Places, Drop(1)
  PROVE  OneSetup'
<1>1. \A i \in Places' : i \in Nat /\ i + 1 \in Places /\ line'[i] = line[i + 1]
  BY LockState, Drops DEF Places
<1> SUFFICES ASSUME NEW i \in Places', NEW j \in Places',
                    line'[i].kind = "setup", line'[j].kind = "setup",
                    line'[i].entry = line'[j].entry
             PROVE  i = j
  BY DEF OneSetup
<1>2. i + 1 = j + 1
  BY <1>1 DEF OneSetup
<1> QED
  BY <1>1, <1>2

LEMMA FitsDropped ==
  ASSUME TypeOK, EntryInv, EntriesStay, UNCHANGED flow, 1 \in Places, Drop(1)
  PROVE  EntryInv'
<1>1. \A i \in Places' : i + 1 \in Places /\ line'[i] = line[i + 1]
  BY LockState, Drops
<1>2. \A i \in Places' : OpFits(line[i])'
  BY <1>1 DEF EntryInv, EntriesStay, OpFits
<1>3. OneSetup'
  BY OneSetupDropped DEF EntryInv
<1>4. \A e \in Entry : Fits(e)'
  BY OneFits DEF EntryInv
<1> QED
  BY <1>2, <1>3, <1>4 DEF EntryInv, EntriesStay

LEMMA FitsGrows ==
  ASSUME TypeOK, EntryInv, EntriesStay,
         \A e \in Entry : loaded[e] # "yes" => flow'[e] = flow[e],
         NEW op \in Operation, OpFits(op), line' = Append(line, op),
         op.kind = "setup" => ~SettingUp(op.entry)
  PROVE  EntryInv'
<1>1. /\ Len(line) \in Nat /\ Len(line') = Len(line) + 1
      /\ line'[Len(line) + 1] = op
      /\ \A i \in Places : line'[i] = line[i]
  BY LockState, Grows
<1>2. \A i \in Places' : i \in Places \/ i = Len(line) + 1
  BY <1>1 DEF Places
<1>3. \A i \in Places' : OpFits(line[i])'
  BY <1>1, <1>2 DEF EntryInv, EntriesStay, OpFits
<1>4. op.kind = "setup" => \A i \in Places : ~(line[i].kind = "setup"
        /\ line[i].entry = op.entry)
  BY DEF SettingUp, Places
<1>5. OneSetup'
  <2> SUFFICES ASSUME NEW i \in Places', NEW j \in Places',
                      line'[i].kind = "setup", line'[j].kind = "setup",
                      line'[i].entry = line'[j].entry
               PROVE  i = j
    BY DEF OneSetup
  <2> QED
    BY <1>1, <1>2, <1>4 DEF EntryInv, OneSetup
<1>6. \A e \in Entry : Fits(e)'
  BY OneFits DEF EntryInv
<1> QED
  BY <1>3, <1>5, <1>6 DEF EntryInv, EntriesStay

\* The moment at which a migration counts: what was stored in the new form, the
\* credentials and the options change together.
LEMMA FitsCommit ==
  ASSUME TypeOK, CodesInv, EntryInv, NEW i \in Places, Commit(i)
  PROVE  EntryInv'
<1> USE DEF keys, entries, setup, store
<1> DEFINE op == line[1]
           e == op.entry
<1>1. i = 1 /\ 1 \in Places /\ op \in Operation /\ op.stage = "written" /\ Drop(1)
  BY LockState DEF Commit, Turn
<1>2. WellMade(op) /\ CopyOf(op, codes) /\ OpFits(op)
  BY <1>1 DEF CodesInv, LineInv, EntryInv
<1>3. e \in Entry /\ op.kind \in {"save", "remove", "flow", "setup"} /\ op.options \in Options
  BY <1>1, OperationFields
<1>4. /\ codes' = op.updated /\ UNCHANGED <<flow, available>>
      /\ op.kind # "flow" => UNCHANGED <<data, options, cuOptions>>
      /\ op.kind = "flow" => /\ data' = [data EXCEPT ![e] = op.data]
                             /\ options' = [options EXCEPT ![e] = op.options]
                             /\ cuOptions' = [cuOptions EXCEPT ![e] = op.options]
  BY <1>1, <1>2 DEF Commit, OpFits
<1>5. /\ op.kind # "setup" => UNCHANGED <<loaded, prepared>>
      /\ op.kind = "setup" => /\ loaded' = [loaded EXCEPT ![e] = "decoding"]
                              /\ prepared' = [prepared EXCEPT ![e] = op.data]
  BY <1>1 DEF Commit, Decode
<1>6. /\ data \in [Entry -> Sealed] /\ options \in [Entry -> Options]
      /\ cuOptions \in [Entry -> Options] /\ prepared \in [Entry -> Sealed]
      /\ loaded \in [Entry -> {"no", "decoding", "initializing", "failed", "yes"}]
  BY DEF TypeOK
<1>7. \A j \in Places' : /\ j + 1 \in Places /\ j + 1 # 1 /\ line'[j] = line[j + 1]
                         /\ line[j + 1].stage = "waiting" /\ OpFits(line[j + 1])
                         /\ line[j + 1].kind = "setup"
                               /\ op.kind = "setup" => line[j + 1].entry # e
  <2>1. \A j \in Places' : j + 1 \in Places /\ j + 1 # 1 /\ line'[j] = line[j + 1]
    BY <1>1, LockState, Drops
  <2> QED
    BY <1>1, <2>1 DEF CodesInv, HeadOnly, EntryInv, OneSetup
<1>8. ASSUME NEW f \in Entry, f # e
      PROVE  /\ data'[f] = data[f] /\ options'[f] = options[f] /\ cuOptions'[f] = cuOptions[f]
             /\ loaded'[f] = loaded[f] /\ prepared'[f] = prepared[f]
             /\ \A u \in User : codes'[f][u] = codes[f][u]
  <2>1. \A u \in User : codes'[f][u] = codes[f][u]
    BY <1>1, <1>2, <1>4, <1>8 DEF CopyOf
  <2> HIDE DEF op, e
  <2> QED
    BY <1>4, <1>5, <1>6, <1>8, <2>1
<1>9. ASSUME NEW f \in Entry, f = e, available
      PROVE  Fits(f)'
  <2>1. op.kind # "setup" => Configured(e) /\ loaded[e] = "yes"
    BY <1>2, <1>3, <1>9 DEF OpFits, EntryInv, Fits
  <2>2. /\ op.kind = "setup" => op.options = options[e]
        /\ op.kind \in {"flow", "setup"} => op.data.form = op.options.form
        /\ op.kind = "save" => op.options = cuOptions[e]
    BY <1>1, <1>2 DEF OpFits, WellMade
  <2>3. ASSUME NEW u \in User
        PROVE  \/ op.kind \in {"save", "remove"} /\ codes'[f][u] = codes[f][u]
               \/ codes'[f][u] = NoRecord
               \/ op.kind # "remove" /\ codes'[f][u].form = op.options.form
    BY <1>1, <1>2, <1>3, <1>4, <1>9 DEF CopyOf
  <2> HIDE DEF op, e
  <2>4. CASE op.kind = "flow"
    <3>1. /\ data'[f] = op.data /\ options'[f] = op.options /\ cuOptions'[f] = op.options
          /\ loaded'[f] = "yes"
      BY <1>3, <1>4, <1>5, <1>6, <1>9, <2>1, <2>4
    <3> QED
      BY <1>9, <2>2, <2>3, <2>4, <3>1 DEF Fits, Configured
  <2>5. CASE op.kind = "setup"
    <3>1. options'[f] = op.options /\ loaded'[f] = "decoding" /\ prepared'[f] = op.data
      BY <1>3, <1>4, <1>5, <1>6, <1>9, <2>2, <2>5
    <3> QED
      BY <1>9, <2>2, <2>3, <2>5, <3>1 DEF Fits, Ready
  <2>6. CASE op.kind \in {"save", "remove"}
    <3>1. /\ data'[f] = data[f] /\ options'[f] = options[f] /\ cuOptions'[f] = cuOptions[f]
          /\ loaded'[f] = "yes"
      BY <1>4, <1>5, <1>9, <2>1, <2>6
    <3> QED
      BY <1>9, <2>1, <2>2, <2>3, <2>6, <3>1 DEF Fits, Configured
  <2> QED
    BY <1>3, <2>4, <2>5, <2>6
<1>10. ASSUME NEW j \in Places'
       PROVE  OpFits(line[j])'
  <2> DEFINE q == line[j + 1]
  <2>1. /\ q = line'[j] /\ q.stage = "waiting" /\ OpFits(q) /\ q \in Operation
        /\ q.kind = "setup" /\ op.kind = "setup" => q.entry # e
    BY <1>7, LockState
  <2>2. q.entry \in Entry
    BY <2>1, OperationFields
  <2>3. op.kind = "setup" => loaded[e] = "no"
    BY <1>2 DEF OpFits
  <2>4. op.kind # "setup" => loaded[e] = "yes"
    BY <1>2 DEF OpFits
  <2> HIDE DEF q, op, e
  <2>5. q.entry = e => (q.kind # "setup" <=> op.kind # "setup")
    BY <2>1, <2>3, <2>4 DEF OpFits
  <2>6. q.kind # "setup" => loaded'[q.entry] = "yes"
    BY <1>3, <1>5, <1>6, <1>8, <2>1, <2>2, <2>3, <2>4, <2>5 DEF OpFits
  <2>7. q.kind = "setup" => loaded'[q.entry] = "no" /\ q.options = options'[q.entry]
    BY <1>8, <2>1, <2>2, <2>3, <2>5 DEF OpFits
  <2> QED
    BY <2>1, <2>6, <2>7 DEF OpFits
<1>11. \A f \in Entry : loaded'[f] # "yes" => flow'[f] = NoFlow
  <2>1. \A f \in Entry : loaded[f] # "yes" => flow[f] = NoFlow
    BY DEF EntryInv
  <2>2. \A f \in Entry : loaded'[f] # "yes" => loaded[f] # "yes"
    <3> SUFFICES ASSUME NEW f \in Entry, loaded[f] = "yes" PROVE loaded'[f] = "yes"
      OBVIOUS
    <3>1. f = e => op.kind # "setup"
      BY <1>2 DEF OpFits
    <3> HIDE DEF op, e
    <3> QED
      BY <1>5, <1>8, <3>1
  <2> QED
    BY <1>4, <2>1, <2>2
<1>12. OneSetup'
  BY <1>1, OneSetupDropped DEF EntryInv
<1>13. ASSUME NEW f \in Entry
       PROVE  Fits(f)'
  <2>1. CASE ~available
    BY <1>4, <2>1 DEF Fits
  <2>2. CASE available /\ f = e
    BY <1>9, <2>2
  <2>3. CASE available /\ f # e
    <3>1. Fits(f)
      BY DEF EntryInv
    <3> HIDE DEF op, e
    <3> QED
      BY <1>4, <1>8, <2>3, <3>1 DEF Fits, Ready, Configured
  <2> QED
    BY <2>1, <2>2, <2>3
<1> QED
  BY <1>10, <1>11, <1>12, <1>13 DEF EntryInv

LEMMA EntriesStep ==
  ASSUME ~FlowsMeetSetup, TypeOK, CodesInv, EntryInv, Next
  PROVE  EntryInv'
<1> USE DEF keys, entries, setup, store
<1>0. LineInv
  BY DEF CodesInv
<1>1. ASSUME NEW i \in Places, Take(i)
      PROVE  EntryInv'
  <2>1. /\ i = 1 /\ EntriesStay /\ UNCHANGED flow
        /\ Drop(1) \/ \E t \in Operation : Advance(1, t) /\ Takes(line[1], t)
    BY <1>0, <1>1, TakeSteps DEF Take, EntriesStay
  <2>2. CASE Drop(1)
    BY <1>1, <2>1, <2>2, FitsDropped
  <2>3. ASSUME NEW t \in Operation, Advance(1, t), Takes(line[1], t)
        PROVE  EntryInv'
    <3>1. \/ t.options = line[1].options /\ line[1].kind # "save"
          \/ t.kind = "save" /\ t.options = cuOptions[t.entry]
      BY <2>3 DEF Takes, Same
    <3> QED
      BY <1>1, <2>1, <2>3, <3>1, FitsAdvance DEF Takes
  <2> QED
    BY <2>1, <2>2, <2>3
<1>2. ASSUME NEW i \in Places, Encode(i)
      PROVE  EntryInv'
  <2>1. /\ i = 1 /\ line[1].stage = "encoding" /\ EntriesStay /\ UNCHANGED flow
        /\ Drop(1) \/ \E t \in Operation : Advance(1, t) /\ Encodes(line[1], t)
    BY <1>0, <1>2, EncodeSteps DEF Encode, EntriesStay
  <2>2. CASE Drop(1)
    BY <1>2, <2>1, <2>2, FitsDropped
  <2>3. ASSUME NEW t \in Operation, Advance(1, t), Encodes(line[1], t)
        PROVE  EntryInv'
    BY <1>2, <2>1, <2>3, FitsAdvance DEF Encodes
  <2> QED
    BY <2>1, <2>2, <2>3
<1>3. ASSUME NEW i \in Places, WriteStore(i)
      PROVE  EntryInv'
  <2> DEFINE op == line[1]
             t == [op EXCEPT !.stage = "written"]
  <2>1. i = 1 /\ op \in Operation /\ op.stage = "saving" /\ Advance(1, t) /\ EntriesStay
          /\ UNCHANGED flow
    BY <1>3, LockState DEF WriteStore, Turn, EntriesStay
  <2>2. t \in Operation
    BY <2>1 DEF Operation
  <2>3. Same(op, t) /\ t.options = op.options
    BY <2>1 DEF Operation, Same
  <2> QED
    BY <1>3, <2>1, <2>2, <2>3, FitsAdvance
<1>4. ASSUME NEW i \in Places, WriteFails(i)
      PROVE  EntryInv'
  BY <1>4, FitsDropped DEF WriteFails, Turn, EntriesStay
<1>5. ASSUME NEW i \in Places, Commit(i)
      PROVE  EntryInv'
  BY <1>5, FitsCommit
<1>6. ASSUME NEW e \in Entry, NEW u \in User, Remove(e, u)
      PROVE  EntryInv'
  <2> DEFINE op == Op("remove", e, u, None, NoOptions, Plain)
  <2>1. op \in Operation /\ op.kind = "remove" /\ op.entry = e /\ op.stage = "waiting"
    BY OpType, OptionsType
  <2>2. line' = Append(line, op) /\ EntriesStay /\ UNCHANGED flow /\ loaded[e] = "yes"
    BY <1>6 DEF Remove, LineUp, EntriesStay, Resolves
  <2> HIDE DEF op
  <2>3. OpFits(op)
    BY <2>1, <2>2 DEF OpFits
  <2> QED
    BY <2>1, <2>2, <2>3, FitsGrows
<1>7. ASSUME NEW e \in Entry, NEW u \in User, NEW v \in Value, Save(e, u, v)
      PROVE  EntryInv'
  <2> DEFINE op == Op("save", e, u, v, NoOptions, Plain)
  <2>1. op \in Operation /\ op.kind = "save" /\ op.entry = e /\ op.stage = "waiting"
    BY OpType, OptionsType
  <2>2. line' = Append(line, op) /\ EntriesStay /\ UNCHANGED flow /\ loaded[e] = "yes"
    BY <1>7 DEF Save, LineUp, EntriesStay, Resolves
  <2> HIDE DEF op
  <2>3. OpFits(op)
    BY <2>1, <2>2 DEF OpFits
  <2> QED
    BY <2>1, <2>2, <2>3, FitsGrows
<1>8. ASSUME NEW e \in Entry, NEW o \in Options, NEW g \in BOOLEAN, FlowStart(e, o, g)
      PROVE  EntryInv'
  <2>1. EntriesStay /\ UNCHANGED line /\ loaded[e] = "yes"
          /\ \A f \in Entry : f # e => flow'[f] = flow[f]
    BY <1>8 DEF EntriesStay, FlowStart, TypeOK
  <2> QED
    BY <2>1, FitsStay
<1>9. ASSUME NEW e \in Entry, FlowValidate(e) \/ FlowKey(e)
      PROVE  EntryInv'
  <2>1. EntriesStay /\ UNCHANGED line /\ loaded[e] = "yes"
    BY <1>9 DEF EntriesStay, FlowValidate, FlowKey, EntryInv, NoFlow
  <2>2. \A f \in Entry : f # e => flow'[f] = flow[f]
    BY <1>9, FlowMoves DEF FlowValidate, FlowKey
  <2> QED
    BY <2>1, <2>2, FitsStay
<1>10. ASSUME NEW e \in Entry, FlowPrepare(e)
       PROVE  EntryInv'
  <2> DEFINE o == flow[e].options
             op == Op("flow", e, None, None, o, Prepared(e, o.form))
  <2>1. EntriesStay /\ loaded[e] = "yes" /\ (UNCHANGED line \/ line' = Append(line, op))
    BY <1>10 DEF FlowPrepare, LineUp, EntriesStay, EntryInv, NoFlow
  <2>9. CanPrepare(e, o.form) \/ UNCHANGED line
    BY <1>10 DEF FlowPrepare
  <2>2. \A f \in Entry : f # e => flow'[f] = flow[f]
    BY <1>10, FlowMoves DEF FlowPrepare
  <2>6. \A f \in Entry : loaded[f] # "yes" => flow'[f] = flow[f]
    BY <2>1, <2>2
  <2>7. CASE UNCHANGED line
    BY <2>1, <2>6, <2>7, FitsStay
  <2>8. CASE line' = Append(line, op) /\ CanPrepare(e, o.form)
    <3>3. o \in Options /\ Prepared(e, o.form) \in Sealed
      BY <2>8, FlowFields, PreparedType
    <3>4. op \in Operation /\ op.kind = "flow" /\ op.entry = e
      BY <3>3, OpType
    <3> HIDE DEF op
    <3>5. OpFits(op)
      BY <2>1, <3>4 DEF OpFits
    <3> QED
      BY <2>1, <2>6, <2>8, <3>4, <3>5, FitsGrows
  <2> QED
    BY <2>1, <2>7, <2>8, <2>9
<1>11. ASSUME NEW e \in Entry, SetupStart(e), Migrates(e)
       PROVE  EntryInv'
  <2> DEFINE o == options[e]
             op == Op("setup", e, None, None, o, Prepared(e, o.form))
  <2>1. /\ EntriesStay /\ UNCHANGED flow /\ loaded[e] = "no" /\ ~SettingUp(e)
        /\ line' = Append(line, op)
    BY <1>11 DEF SetupStart, LineUp, EntriesStay
  <2>2. o \in Options /\ Prepared(e, o.form) \in Sealed
    BY <1>11, PreparedType DEF TypeOK, Options, SetupStart
  <2>3. op \in Operation /\ op.kind = "setup" /\ op.entry = e /\ op.options = options[e]
    <3> HIDE DEF o
    <3>1. op \in Operation /\ op.kind = "setup" /\ op.entry = e /\ op.options = o
      BY <2>2, OpType
    <3> QED
      BY <3>1 DEF o
  <2> HIDE DEF op
  <2>4. OpFits(op)
    BY <2>1, <2>3 DEF OpFits
  <2> QED
    BY <2>1, <2>3, <2>4, FitsGrows
\* An entry whose loading changes while nothing of it is at the lock.
<1>12. ASSUME NEW e \in Entry, UNCHANGED <<line, flow, options, codes, available>>,
              loaded' = [loaded EXCEPT ![e] = loaded'[e]],
              \A i \in Places : line[i].entry # e,
              loaded'[e] # "yes" => flow[e] = NoFlow,
              Fits(e)',
              \A f \in Entry : f # e => /\ cuOptions'[f] = cuOptions[f] /\ data'[f] = data[f]
                                       /\ prepared'[f] = prepared[f]
       PROVE  EntryInv'
  <2>1. \A f \in Entry : f # e => loaded'[f] = loaded[f]
    BY <1>12 DEF TypeOK
  <2>2. \A i \in Places : line[i].entry \in Entry
    BY LockState, OperationFields
  <2>3. Places' = Places
    BY <1>12 DEF Places
  <2>4. \A i \in Places' : OpFits(line[i])'
    BY <1>12, <2>1, <2>2, <2>3 DEF EntryInv, OpFits
  <2>5. OneSetup'
    BY <1>12, <2>3 DEF EntryInv, OneSetup
  <2>6. ASSUME NEW f \in Entry, f # e
        PROVE  (Fits(f) /\ (loaded[f] # "yes" => flow[f] = NoFlow))'
    BY <1>12, <2>1, <2>6 DEF EntryInv, Fits, Ready, Configured
  <2> QED
    BY <1>12, <2>4, <2>5, <2>6 DEF EntryInv
<1>13. ASSUME NEW e \in Entry, SetupStart(e), ~Migrates(e)
       PROVE  EntryInv'
  <2>1. \A i \in Places : line[i].entry # e
    BY <1>13 DEF SetupStart, SettingUp, EntryInv, OpFits, Places
  <2>2. /\ ~available /\ loaded[e] = "no" /\ loaded' = [loaded EXCEPT ![e] = "decoding"]
        /\ prepared' = [prepared EXCEPT ![e] = Prepared(e, options[e].form)]
        /\ UNCHANGED <<line, flow, data, options, cuOptions, codes, available>>
    BY <1>13 DEF SetupStart, Migrates, Decode
  <2>3. loaded'[e] = "decoding" /\ flow[e] = NoFlow
          /\ \A f \in Entry : f # e => prepared'[f] = prepared[f]
    BY <2>2 DEF EntryInv, TypeOK
  <2>4. Fits(e)'
    BY <2>2 DEF Fits
  <2> QED
    BY <2>1, <2>2, <2>3, <2>4, <1>12
<1>14. ASSUME NEW e \in Entry, SetupEnd(e) \/ SetupFails(e) \/ Reload(e) \/ SetupMakes(e)
       PROVE  /\ \A i \in Places : line[i].entry # e
              /\ flow[e] = NoFlow
  <2>1. loaded[e] \in {"decoding", "initializing", "failed"}
    BY <1>14 DEF SetupEnd, SetupFails, Reload, SetupMakes
  <2> QED
    BY <2>1 DEF EntryInv, OpFits
<1>15. ASSUME NEW e \in Entry, SetupEnd(e) \/ SetupFails(e) \/ Reload(e)
       PROVE  EntryInv'
  <2>1. /\ \/ loaded[e] = "initializing" /\ loaded' = [loaded EXCEPT ![e] = "yes"]
           \/ loaded' = [loaded EXCEPT ![e] = "failed"]
           \/ loaded' = [loaded EXCEPT ![e] = "no"]
        /\ UNCHANGED <<line, flow, data, options, codes, available, cuOptions, prepared>>
    BY <1>15 DEF SetupEnd, SetupFails, Reload
  <2>2. /\ loaded'[e] \in {"yes", "failed", "no"}
        /\ loaded'[e] = "yes" => loaded[e] = "initializing"
        /\ loaded' = [loaded EXCEPT ![e] = loaded'[e]]
    BY <2>1 DEF TypeOK
  <2>3. Fits(e)'
    BY <2>1, <2>2 DEF EntryInv, Fits, Configured
  <2> QED
    BY <1>14, <1>15, <2>1, <2>2, <2>3, <1>12
<1>18. ASSUME NEW e \in Entry, SetupMakes(e)
       PROVE  EntryInv'
  <2>1. /\ loaded[e] = "decoding"
        /\ prepared' = [prepared EXCEPT ![e] = Plain]
        /\ UNCHANGED <<line, flow, options, codes, available>>
        /\ \/ /\ data' = [data EXCEPT ![e] = prepared[e]]
              /\ cuOptions' = [cuOptions EXCEPT ![e] = options[e]]
              /\ loaded' = [loaded EXCEPT ![e] = "initializing"]
           \/ UNCHANGED <<data, cuOptions>> /\ loaded' = [loaded EXCEPT ![e] = "no"]
    BY <1>18 DEF SetupMakes
  <2>2. /\ \A f \in Entry : f # e => /\ cuOptions'[f] = cuOptions[f] /\ data'[f] = data[f]
                                     /\ prepared'[f] = prepared[f]
        /\ loaded' = [loaded EXCEPT ![e] = loaded'[e]]
    BY <2>1 DEF TypeOK
  <2>3. \/ loaded'[e] = "no"
        \/ /\ loaded'[e] = "initializing"
           /\ data'[e] = prepared[e] /\ cuOptions'[e] = options[e]
    BY <2>1 DEF TypeOK
  <2>4. Fits(e)'
    BY <2>1, <2>3 DEF EntryInv, Fits, Ready, Configured
  <2> QED
    BY <1>14, <1>18, <2>1, <2>2, <2>3, <2>4, <1>12
<1>19. ASSUME NEW e \in Entry, Unload(e)
       PROVE  EntryInv'
  <2>1. (\A i \in Places : line[i].entry # e) /\ flow[e] = NoFlow
    BY <1>19 DEF Unload, Idle, Places
  <2>2. loaded' = [loaded EXCEPT ![e] = "no"]
        /\ UNCHANGED <<line, flow, data, options, codes, available, cuOptions, prepared>>
    BY <1>19 DEF Unload
  <2>3. loaded'[e] = "no"
    BY <2>2 DEF TypeOK
  <2>4. Fits(e)'
    BY <2>3 DEF Fits
  <2> QED
    BY <2>1, <2>2, <2>3, <2>4, <1>12
<1>16. CASE Persist \/ \E k \in Key : KeyLost(k)
  BY <1>16, FitsStay DEF Persist, KeyLost, EntriesStay
<1>17. CASE Crash
  <2>1. loaded' = [e \in Entry |-> "no"] /\ line' = <<>> /\ flow' = [e \in Entry |-> NoFlow]
    BY <1>17 DEF Crash
  <2> QED
    BY <2>1 DEF EntryInv, Fits, OneSetup, Places
<1> QED
  BY <1>1, <1>2, <1>3, <1>4, <1>5, <1>6, <1>7, <1>8, <1>9, <1>10, <1>11, <1>13, <1>15,
     <1>16, <1>17, <1>18, <1>19 DEF Next, AtLock, Places

LEMMA EntriesPreserved == ~FlowsMeetSetup /\ IInv /\ EntryInv /\ [Next]_vars => EntryInv'
<1>1. CASE UNCHANGED vars
  BY <1>1, FitsStay DEF vars, entries, setup, store, EntriesStay
<1>2. ~FlowsMeetSetup /\ IInv /\ EntryInv /\ Next => EntryInv'
  BY EntriesStep DEF IInv
<1> QED
  BY <1>1, <1>2

\* When no options flow runs while its entry is not loaded, a loaded entry, its unit and
\* its codes have the same options at any moment (async_setup_entry, the options flow).
THEOREM EntriesFit ==
  ASSUME ~FlowsMeetSetup
  PROVE  Spec => []EntryInv
<1>1. IInv /\ EntryInv /\ [Next]_vars => EntryInv'
  BY EntriesPreserved
<1> QED
  BY <1>1, InitEntries, Invariance, PTL DEF Spec

\* Then no PIN of a settled entry stays plain when its options say encrypted: neither the
\* credentials nor a code, whichever flows, writes and crashes went before.
THEOREM SettledWell ==
  ASSUME ~FlowsMeetSetup
  PROVE  Spec => []SettledAsConfigured
<1>1. EntryInv => SettledAsConfigured
  BY DEF EntryInv, Fits, Configured, SettledAsConfigured, StoredAsConfigured, Settled
<1> QED
  BY <1>1, EntriesFit, PTL

-----------------------------------------------------------------------------
(* The key files *)

LEMMA InitKeys == Init => KeyInv
<1> SUFFICES ASSUME Init PROVE KeyInv
  OBVIOUS
<1>1. \A e \in Entry : /\ data[e].form = "plain" /\ entryFile.data[e].form = "plain"
                      /\ prepared[e].form = "plain"
  BY DEF Init, Plain
<1>2. \A e \in Entry, u \in User : codes[e][u].form = "plain"
        /\ storeFile[e][u].form = "plain"
  BY NoCodesType, NoRecordType DEF Init
<1>3. Places = {}
  BY DEF Init, Places
<1> QED
  BY <1>1, <1>2, <1>3 DEF KeyInv, Sound, AllSound

\* A key file that is there keeps its content.
KeysKept == \A k \in Key : keyFile[k] # 0 => keyFile'[k] = keyFile[k]

LEMMA KeysStep ==
  ASSUME ~LoseKeys, TypeOK, KeyFlows, Next
  PROVE  KeysKept
<1> USE DEF keys
<1>1. ASSUME NEW e \in Entry, FlowKey(e)
      PROVE  KeysKept
  <2>1. flow[e].options.form \in Key
    BY <1>1, FlowFields DEF Form, FlowKey, KeyFlows
  <2> QED
    BY <1>1, <2>1 DEF FlowKey, CreateKey, CreateKeyFails, KeysKept, TypeOK
<1>2. CASE Crash
  <2>1. PICK torn \in SUBSET Torn :
          keyFile' = [k \in Key |-> IF k \in torn THEN Broken ELSE keyFile[k]]
    BY <1>2 DEF Crash
  <2> QED
    BY <2>1 DEF Torn, KeysKept
<1>3. ASSUME NEW i \in 1 .. Len(line),
             Take(i) \/ Encode(i) \/ WriteStore(i) \/ Commit(i) \/ WriteFails(i)
      PROVE  UNCHANGED keyFile
  BY <1>3 DEF Take, Encode, WriteStore, WriteFails, Commit
<1>4. ASSUME NEW e \in Entry,
             \/ \E u \in User : Remove(e, u) \/ \E v \in Value : Save(e, u, v)
             \/ \E o \in Options, g \in BOOLEAN : FlowStart(e, o, g)
             \/ FlowValidate(e) \/ FlowPrepare(e)
      PROVE  UNCHANGED keyFile
  BY <1>4 DEF Save, Remove, FlowStart, FlowValidate, FlowPrepare
<1>5. ASSUME NEW e \in Entry,
             \/ SetupStart(e) \/ SetupMakes(e) \/ SetupEnd(e) \/ SetupFails(e)
             \/ Reload(e) \/ Unload(e)
      PROVE  UNCHANGED keyFile
  BY <1>5 DEF SetupStart, SetupMakes, SetupEnd, SetupFails, Reload, Unload
<1>6. Persist => UNCHANGED keyFile
  BY DEF Persist
<1>7. UNCHANGED keyFile => KeysKept
  BY DEF KeysKept
<1> QED
  BY <1>1, <1>2, <1>3, <1>4, <1>5, <1>6, <1>7 DEF Next, AtLock, KeyLost

LEMMA SoundKept ==
  ASSUME KeysKept, NEW s, s.form \in Form, Sound(keyFile, s)
  PROVE  Sound(keyFile', s)
BY DEF KeysKept, Sound, Form

LEMMA AllSoundKept ==
  ASSUME KeysKept, NEW c \in Codes, AllSound(keyFile, c)
  PROVE  AllSound(keyFile', c)
<1> SUFFICES ASSUME NEW e \in Entry, NEW u \in User
             PROVE  Sound(keyFile', c[e][u])
  BY DEF AllSound
<1>1. c[e][u].form \in Form
  BY DEF Codes, Record
<1> QED
  BY <1>1, SoundKept DEF AllSound

\* It is enough that what a step makes can be decoded before the step.
LEMMA SoundCarried ==
  ASSUME TypeOK', KeysKept,
         \A e \in Entry : /\ Sound(keyFile, data'[e]) /\ Sound(keyFile, entryFile'.data[e])
                         /\ Sound(keyFile, prepared'[e]),
         AllSound(keyFile, codes'), AllSound(keyFile, storeFile'),
         \A i \in Places' : OpSound(keyFile, line'[i])
  PROVE  KeyInv'
<1>1. ASSUME NEW e \in Entry
      PROVE  /\ Sound(keyFile', data'[e]) /\ Sound(keyFile', entryFile'.data[e])
             /\ Sound(keyFile', prepared'[e])
  <2>1. data'[e].form \in Form /\ entryFile'.data[e].form \in Form
          /\ prepared'[e].form \in Form
    BY DEF TypeOK, Sealed
  <2> QED
    BY <2>1, SoundKept
<1>2. AllSound(keyFile', codes') /\ AllSound(keyFile', storeFile')
  BY AllSoundKept DEF TypeOK
<1>3. ASSUME NEW i \in Places'
      PROVE  OpSound(keyFile', line'[i])
  <2>1. line'[i] \in Operation
    BY DEF TypeOK, Places
  <2>2. line'[i].data.form \in Form /\ line'[i].updated \in Codes
    BY <2>1, OperationFields DEF Sealed
  <2> QED
    BY <2>2, SoundKept, AllSoundKept DEF OpSound
<1> QED
  BY <1>1, <1>2, <1>3 DEF KeyInv

LEMMA SealSound ==
  ASSUME TypeOK, NEW v, NEW form \in Form, CanEncode(form)
  PROVE  Sound(keyFile, Seal(form)) /\ Sound(keyFile, Encoded(v, form))
BY DEF CanEncode, Sound, Seal, Encoded

LEMMA NoCodesSound == AllSound(keyFile, NoCodes) /\ Sound(keyFile, Plain)
BY NoCodesType, NoRecordType DEF AllSound, Sound, Plain

\* What is at the lock, when an operation lines up, goes on or ends.
LEMMA QueueGrows ==
  ASSUME TypeOK, KeyInv, NEW op \in Operation, line' = Append(line, op), OpSound(keyFile, op)
  PROVE  \A i \in Places' : OpSound(keyFile, line'[i])
<1>1. /\ Len(line) \in Nat /\ Len(line') = Len(line) + 1
      /\ line'[Len(line) + 1] = op
      /\ \A i \in Places : line'[i] = line[i]
  BY LockState, Grows
<1>2. \A i \in Places' : i \in Places \/ i = Len(line) + 1
  BY <1>1 DEF Places
<1> QED
  BY <1>1, <1>2 DEF KeyInv

LEMMA QueueAdvances ==
  ASSUME TypeOK, KeyInv, 1 \in Places, NEW t \in Operation, Advance(1, t), OpSound(keyFile, t)
  PROVE  \A i \in Places' : OpSound(keyFile, line'[i])
<1>1. Places' = Places /\ line'[1] = t /\ \A i \in Places : i # 1 => line'[i] = line[i]
  BY LockState, Advances
<1> QED
  BY <1>1 DEF KeyInv

LEMMA QueueDrops ==
  ASSUME TypeOK, KeyInv, 1 \in Places, Drop(1)
  PROVE  \A i \in Places' : OpSound(keyFile, line'[i])
<1>1. \A i \in Places' : i + 1 \in Places /\ line'[i] = line[i + 1]
  BY LockState, Drops
<1> QED
  BY <1>1 DEF KeyInv

\* A step that touches nothing encoded but the queue.
LEMMA QueueOnly ==
  ASSUME TypeOK', KeysKept, KeyInv, UNCHANGED <<data, entryFile, prepared, codes, storeFile>>,
         \A i \in Places' : OpSound(keyFile, line'[i])
  PROVE  KeyInv'
BY SoundCarried DEF KeyInv

LEMMA PreparedSound ==
  ASSUME TypeOK, KeyInv, NEW e \in Entry, NEW form \in Form, CanPrepare(e, form)
  PROVE  Sound(keyFile, Prepared(e, form))
BY SealSound DEF CanPrepare, Prepared, KeyInv

LEMMA SoundStep ==
  ASSUME ~LoseKeys, TypeOK, TypeOK', CodesInv, KeyFlows, KeyInv, Next
  PROVE  KeyInv'
<1> USE DEF keys, entries, setup, store
<1>0. KeysKept /\ LineInv
  BY KeysStep DEF CodesInv
<1>1. ASSUME NEW i \in Places, Take(i)
      PROVE  KeyInv'
  <2>0. UNCHANGED <<data, entryFile, prepared, codes, storeFile>>
    BY <1>1 DEF Take
  <2>1. /\ i = 1 /\ UNCHANGED <<data, entryFile, prepared, codes, storeFile>>
        /\ Drop(1) \/ \E t \in Operation : Advance(1, t) /\ Takes(line[1], t)
    BY <1>0, <1>1, <2>0, TakeSteps
  <2>2. CASE Drop(1)
    BY <1>0, <1>1, <2>1, <2>2, QueueDrops, QueueOnly
  <2>3. ASSUME NEW t \in Operation, Advance(1, t), Takes(line[1], t)
        PROVE  KeyInv'
    <3>1. Sound(keyFile, t.data)
      BY <1>1, <2>1, <2>3 DEF KeyInv, OpSound, Takes, Same
    <3>2. AllSound(keyFile, t.updated)
      <4> SUFFICES ASSUME NEW e \in Entry, NEW u \in User
                   PROVE  Sound(keyFile, t.updated[e][u])
        BY DEF AllSound
      <4>1. t.updated[e][u] = codes[e][u] \/ t.updated[e][u] = NoRecord
        BY <2>3 DEF Takes
      <4> QED
        BY <4>1, NoRecordType DEF KeyInv, AllSound, Sound
    <3> QED
      BY <1>0, <1>1, <2>1, <2>3, <3>1, <3>2, QueueAdvances, QueueOnly DEF OpSound
  <2> QED
    BY <2>1, <2>2, <2>3
<1>2. ASSUME NEW i \in Places, Encode(i)
      PROVE  KeyInv'
  <2>0. UNCHANGED <<data, entryFile, prepared, codes, storeFile>>
    BY <1>2 DEF Encode
  <2>1. /\ i = 1 /\ UNCHANGED <<data, entryFile, prepared, codes, storeFile>>
        /\ Drop(1) \/ \E t \in Operation : Advance(1, t) /\ Encodes(line[1], t)
    BY <1>0, <1>2, <2>0, EncodeSteps
  <2>2. CASE Drop(1)
    BY <1>0, <1>2, <2>1, <2>2, QueueDrops, QueueOnly
  <2>3. ASSUME NEW t \in Operation, Advance(1, t), Encodes(line[1], t)
        PROVE  KeyInv'
    <3>1. Sound(keyFile, t.data)
      BY <1>2, <2>1, <2>3 DEF KeyInv, OpSound, Encodes, Same
    <3>2. AllSound(keyFile, t.updated)
      <4> SUFFICES ASSUME NEW e \in Entry, NEW u \in User
                   PROVE  Sound(keyFile, t.updated[e][u])
        BY DEF AllSound
      <4>1. Sound(keyFile, line[1].updated[e][u])
        BY <1>2, <2>1 DEF KeyInv, OpSound, AllSound
      <4>2. line[1].options.form \in Form
        BY <1>2, <2>1, LockState, OperationFields DEF Options
      <4>3. \/ t.updated[e][u] = line[1].updated[e][u]
            \/ /\ CanEncode(line[1].options.form)
               /\ \E v \in Value \cup {None} : t.updated[e][u] = Encoded(v,
                     line[1].options.form)
        BY <2>3 DEF Encodes
      <4> QED
        BY <4>1, <4>2, <4>3, SealSound
    <3> QED
      BY <1>0, <1>2, <2>1, <2>3, <3>1, <3>2, QueueAdvances, QueueOnly DEF OpSound
  <2> QED
    BY <2>1, <2>2, <2>3
<1>3. ASSUME NEW i \in Places, WriteStore(i)
      PROVE  KeyInv'
  <2> DEFINE op == line[1]
             t == [op EXCEPT !.stage = "written"]
  <2>1. i = 1 /\ op \in Operation /\ Advance(1, t) /\ storeFile' = op.updated
          /\ UNCHANGED <<data, entryFile, prepared, codes>>
    BY <1>3, LockState DEF WriteStore, Turn
  <2>2. t \in Operation /\ t.data = op.data /\ t.updated = op.updated
    BY <2>1 DEF Operation
  <2>3. OpSound(keyFile, op)
    BY <1>3, <2>1 DEF KeyInv
  <2>4. \A j \in Places' : OpSound(keyFile, line'[j])
    BY <1>3, <2>1, <2>2, <2>3, QueueAdvances DEF OpSound
  <2> QED
    BY <1>0, <2>1, <2>3, <2>4, SoundCarried DEF KeyInv, OpSound
<1>4. ASSUME NEW i \in Places, WriteFails(i)
      PROVE  KeyInv'
  BY <1>0, <1>4, QueueDrops, QueueOnly DEF WriteFails, Turn
<1>5. ASSUME NEW i \in Places, Commit(i)
      PROVE  KeyInv'
  <2> DEFINE op == line[1]
  <2>1. /\ i = 1 /\ Drop(1) /\ codes' = op.updated /\ UNCHANGED <<storeFile, entryFile>>
        /\ data' = data \/ data' = [data EXCEPT ![op.entry] = op.data]
        /\ prepared' = prepared \/ prepared' = [prepared EXCEPT ![op.entry] = op.data]
    BY <1>5 DEF Commit, Turn, Decode
  <2>2. OpSound(keyFile, op)
    BY <1>5, <2>1 DEF KeyInv
  <2>3. data \in [Entry -> Sealed] /\ prepared \in [Entry -> Sealed]
    BY DEF TypeOK
  <2>4. \A e \in Entry : Sound(keyFile, data'[e]) /\ Sound(keyFile, prepared'[e])
    <3> HIDE DEF op
    <3> QED
      BY <2>1, <2>2, <2>3 DEF KeyInv, OpSound
  <2>5. \A j \in Places' : OpSound(keyFile, line'[j])
    BY <1>5, <2>1, QueueDrops
  <2> QED
    BY <1>0, <2>1, <2>2, <2>4, <2>5, SoundCarried DEF KeyInv, OpSound
<1>6. ASSUME NEW e \in Entry, NEW u \in User,
             Remove(e, u) \/ \E v \in Value : Save(e, u, v)
      PROVE  KeyInv'
  <2>1. \E op \in Operation : /\ line' = Append(line, op)
                              /\ op.data = Plain /\ op.updated = NoCodes
    <3>1. CASE Remove(e, u)
      <4> DEFINE op == Op("remove", e, u, None, NoOptions, Plain)
      <4>1. op \in Operation /\ op.data = Plain /\ op.updated = NoCodes
        BY OpType, OptionsType
      <4> QED
        BY <3>1, <4>1 DEF Remove, LineUp
    <3>2. ASSUME NEW v \in Value, Save(e, u, v)
          PROVE  \E op \in Operation : line' = Append(line, op) /\ op.data = Plain
                /\ op.updated = NoCodes
      <4> DEFINE op == Op("save", e, u, v, NoOptions, Plain)
      <4>1. op \in Operation /\ op.data = Plain /\ op.updated = NoCodes
        BY OpType, OptionsType
      <4> QED
        BY <3>2, <4>1 DEF Save, LineUp
    <3> QED
      BY <1>6, <3>1, <3>2
  <2>2. \A i \in Places' : OpSound(keyFile, line'[i])
    BY <2>1, QueueGrows, NoCodesSound DEF OpSound
  <2> QED
    BY <1>0, <1>6, <2>2, QueueOnly DEF Remove, Save
<1>7. ASSUME NEW e \in Entry, FlowPrepare(e)
      PROVE  KeyInv'
  <2> DEFINE o == flow[e].options
             op == Op("flow", e, None, None, o, Prepared(e, o.form))
  <2>1. UNCHANGED line \/ (CanPrepare(e, o.form) /\ line' = Append(line, op))
    BY <1>7 DEF FlowPrepare, LineUp
  <2>2. o \in Options /\ o.form \in Form
          /\ (CanPrepare(e, o.form) => Prepared(e, o.form) \in Sealed)
    BY FlowFields, PreparedType
  <2>3. CanPrepare(e, o.form) =>
          op \in Operation /\ op.data = Prepared(e, o.form) /\ op.updated = NoCodes
    BY <2>2, OpType
  <2> HIDE DEF op
  <2>4. \A i \in Places' : OpSound(keyFile, line'[i])
    <3>1. CASE UNCHANGED line
      BY <3>1 DEF KeyInv, Places
    <3>2. CASE CanPrepare(e, o.form) /\ line' = Append(line, op)
      BY <2>2, <2>3, <3>2, PreparedSound, NoCodesSound, QueueGrows DEF OpSound
    <3> QED
      BY <2>1, <3>1, <3>2
  <2> QED
    BY <1>0, <1>7, <2>4, QueueOnly DEF FlowPrepare
<1>8. ASSUME NEW e \in Entry, SetupStart(e)
      PROVE  KeyInv'
  <2> DEFINE o == options[e]
             op == Op("setup", e, None, None, o, Prepared(e, o.form))
  <2>1. \/ UNCHANGED <<line, prepared>>
        \/ UNCHANGED prepared /\ line' = Append(line, op)
        \/ UNCHANGED line /\ prepared' = [prepared EXCEPT ![e] = Prepared(e, o.form)]
    BY <1>8 DEF SetupStart, LineUp, Decode
  <2>2. o \in Options /\ o.form \in Form /\ CanPrepare(e, o.form)
    BY <1>8 DEF TypeOK, Options, SetupStart
  <2>3. Prepared(e, o.form) \in Sealed /\ Sound(keyFile, Prepared(e, o.form))
    BY <2>2, PreparedType, PreparedSound
  <2>4. op \in Operation /\ op.data = Prepared(e, o.form) /\ op.updated = NoCodes
    <3> HIDE DEF o
    <3> QED
      BY <2>2, <2>3, OpType
  <2>5. \A f \in Entry : Sound(keyFile, prepared'[f])
    <3>1. prepared \in [Entry -> Sealed]
      BY DEF TypeOK
    <3> HIDE DEF op, o
    <3> QED
      BY <2>1, <2>3, <3>1 DEF KeyInv
  <2> HIDE DEF op
  <2>6. \A i \in Places' : OpSound(keyFile, line'[i])
    <3>1. CASE UNCHANGED line
      BY <3>1 DEF KeyInv, Places
    <3>2. CASE line' = Append(line, op)
      BY <2>3, <2>4, <3>2, NoCodesSound, QueueGrows DEF OpSound
    <3> QED
      BY <2>1, <3>1, <3>2
  <2>7. UNCHANGED <<data, entryFile, codes, storeFile>>
    BY <1>8 DEF SetupStart
  <2> QED
    BY <1>0, <2>5, <2>6, <2>7, SoundCarried DEF KeyInv
<1>9. ASSUME NEW e \in Entry,
             \/ \E o \in Options, g \in BOOLEAN : FlowStart(e, o, g)
             \/ FlowValidate(e) \/ FlowKey(e)
             \/ SetupEnd(e) \/ SetupFails(e) \/ Reload(e) \/ Unload(e)
      PROVE  KeyInv'
  <2>1. UNCHANGED <<data, entryFile, prepared, codes, storeFile, line>>
    BY <1>9 DEF FlowStart, FlowValidate, FlowKey, SetupEnd, SetupFails, Reload, Unload
  <2> QED
    BY <1>0, <2>1, QueueOnly DEF KeyInv, Places
<1>10. CASE Persist
  BY <1>0, <1>10, SoundCarried DEF Persist, KeyInv, Places
<1>11. CASE Crash
  <2>1. Places' = {}
    BY <1>11 DEF Crash, Places
  <2>2. AllSound(keyFile, codes') /\ AllSound(keyFile, storeFile')
    BY <1>11, NoCodesSound DEF Crash, KeyInv
  <2>3. /\ data' = entryFile.data /\ entryFile' = entryFile
        /\ prepared' = [e \in Entry |-> Plain]
    BY <1>11 DEF Crash
  <2>4. \A e \in Entry : /\ Sound(keyFile, data'[e]) /\ Sound(keyFile, entryFile'.data[e])
                        /\ Sound(keyFile, prepared'[e])
    BY <2>3, NoCodesSound DEF KeyInv
  <2> QED
    BY <1>0, <2>1, <2>2, <2>4, SoundCarried
<1>12. ASSUME NEW e \in Entry, SetupMakes(e)
       PROVE  KeyInv'
  <2>1. /\ data' = data \/ data' = [data EXCEPT ![e] = prepared[e]]
        /\ prepared' = [prepared EXCEPT ![e] = Plain]
        /\ UNCHANGED <<entryFile, codes, storeFile, line>>
    BY <1>12 DEF SetupMakes
  <2>2. \A f \in Entry : Sound(keyFile, data'[f]) /\ Sound(keyFile, prepared'[f])
    BY <2>1, NoCodesSound DEF KeyInv, TypeOK
  <2> QED
    BY <1>0, <2>1, <2>2, SoundCarried DEF KeyInv, Places
<1> QED
  BY <1>1, <1>2, <1>3, <1>4, <1>5, <1>6, <1>7, <1>8, <1>9, <1>10, <1>11, <1>12
     DEF Next, AtLock, Places, KeyLost

LEMMA SoundPreserved == ~LoseKeys /\ IInv /\ KeyInv /\ [Next]_vars => KeyInv'
<1>1. CASE UNCHANGED vars
  BY <1>1 DEF vars, keys, entries, setup, store, KeyInv, Places, OpSound, Sound, AllSound
<1>2. ~LoseKeys /\ IInv /\ KeyInv /\ Next => KeyInv'
  <2>1. IInv /\ Next => IInv'
    BY Preserved
  <2> QED
    BY <2>1, SoundStep DEF IInv
<1> QED
  BY <1>1, <1>2

\* As long as no key file is lost, everything on disk can be decoded at any moment, between
\* any two steps of a migration: decode finds the key file a record names, with the
\* content it was encoded with (credentials.py).
THEOREM Decodable ==
  ASSUME ~LoseKeys
  PROVE  Spec => []Recoverable
<1>1. IInv /\ KeyInv /\ [Next]_vars => KeyInv'
  BY SoundPreserved
<1>2. KeyInv => Recoverable
  BY DEF KeyInv, Recoverable, AllSound, Sound, HasKey
<1> QED
  BY <1>1, <1>2, InitKeys, Invariance, PTL DEF Spec

\* No step of any flow changes a key file that is there: create_key only reads it.
THEOREM KeyFilesKept ==
  ASSUME ~LoseKeys
  PROVE  Spec => [][KeysKept]_vars
<1>1. IInv /\ [Next]_vars => [KeysKept]_vars
  BY KeysStep DEF IInv
<1> QED
  BY <1>1, Invariance, PTL DEF Spec

=============================================================================
