------------------------------ MODULE CodeStore ------------------------------
(***************************************************************************)
(* The codes at rest: the private store of personal codes (user_codes.py), *)
(* the credentials in the config entry and their encryption                *)
(* (credentials.py), the options flow that changes it (config_flow.py),    *)
(* and the setup of an entry that finishes what a crash interrupted        *)
(* (__init__.py).                                                          *)
(*                                                                         *)
(* A code is a value; what matters of its ciphertext is the key file it    *)
(* names and which content of that file it was made with.  The manager's   *)
(* write lock is one for all entries and it is fair: line holds the        *)
(* operations that have it or wait for it.  A step is the code between two *)
(* awaits: an executor job (decode, encode, key files), the write of the   *)
(* store, the lock.                                                        *)
(*                                                                         *)
(* Home Assistant is external: it writes the config entries some time      *)
(* after they change, writes the store atomically or raises, runs the      *)
(* update listener at once, sets an entry up again until it is not refused *)
(* any more, and leaves one whose panel did not answer to its owner.       *)
(***************************************************************************)
EXTENDS Naturals, Sequences

CONSTANTS
  Entry,             \* config entries
  User,              \* accounts
  Key,               \* paths of key files
  Value,             \* codes
  LoseKeys,          \* may a key file disappear?
  StoreFaults,       \* may a write of the store raise?
  KeyFaults,         \* may the creation of a key file fail half-way?
  FlowsMeetSetup,    \* may an options flow run while its entry is not loaded?
  Damaged,           \* may the store be found damaged when Home Assistant starts?
  ChosenModes,       \* bound: the code modes an options flow chooses
  MaxLine,           \* bound: operations at the write lock
  MaxCrashes,        \* bound: crashes and restarts
  MaxKeys,           \* bound: how often a key file is created at a path
  None

ASSUME FaultAssumption ==
  /\ {LoseKeys, StoreFaults, KeyFaults, FlowsMeetSetup, Damaged} \subseteq BOOLEAN
  /\ {MaxLine, MaxCrashes, MaxKeys} \subseteq Nat

ASSUME ValueAssumption == None \notin Value /\ "plain" \notin Key

VARIABLES
  keyFile,      \* which content each key file has; 0: no such file; Broken: no key
  made,         \* how many key files were created at each path
  data,         \* per entry, how its credentials are stored in entry.data
  options,      \* per entry, entry.options
  entryFile,    \* data and options as they are on disk
  cuOptions,    \* per entry, _options of its central unit
  loaded,       \* per entry, how far its setup got
  prepared,     \* per entry, the credentials a setup has prepared for entry.data
  codes,        \* _codes
  storeFile,    \* the private store on disk
  damaged,      \* the private store on disk cannot be read
  available,    \* storage_available
  line,         \* the write lock: its holder and those who wait for it
  flow,         \* per entry, where an options flow is before it takes the lock
  acked,        \* history: per entry and account, the code written last
  crashes       \* history: crashes so far

keys == <<keyFile, made>>
entries == <<data, options, cuOptions>>
setup == <<loaded, prepared>>
store == <<codes, storeFile, damaged, available, acked>>
vars == <<keys, entries, entryFile, setup, store, line, flow, crashes>>

\* What a key file holds that was created but not written.
Broken == MaxKeys + 1

Form == {"plain"} \cup Key
Sealed == [form : Form, key : 0 .. MaxKeys]
Record == [value : Value \cup {None}, form : Form, key : 0 .. MaxKeys]
NoRecord == [value |-> None, form |-> "plain", key |-> 0]
Codes == [Entry -> [User -> Record]]

\* What the options say of codes: their mode and how they are stored.
Options == [mode : {"common", "personal"}, form : Form]

Plain == [form |-> "plain", key |-> 0]
NoOptions == [mode |-> "common", form |-> "plain"]
NoCodes == [e \in Entry |-> [u \in User |-> NoRecord]]
NothingWritten == [e \in Entry |-> [u \in User |-> None]]
NoFlow == [stage |-> "none", options |-> NoOptions, generate |-> FALSE]

\* An operation at the lock.  "migrate" is async_migrate with what its caller does
\* after it: a flow, or a setup.
Operation == [kind : {"save", "remove", "flow", "setup"}, entry : Entry,
              user : User \cup {None}, value : Value \cup {None},
              options : Options, data : Sealed,
              stage : {"waiting", "encoding", "saving", "written"}, updated : Codes]

\* Where an options flow is.
FlowState == [stage : {"none", "validate", "key", "prepare"}, options : Options,
              generate : BOOLEAN]

TypeOK ==
  /\ keyFile \in [Key -> 0 .. Broken]
  /\ made \in [Key -> 0 .. MaxKeys]
  /\ data \in [Entry -> Sealed]
  /\ options \in [Entry -> Options]
  /\ entryFile \in [data : [Entry -> Sealed], options : [Entry -> Options]]
  /\ cuOptions \in [Entry -> Options]
  /\ loaded \in [Entry -> {"no", "decoding", "initializing", "failed", "yes"}]
  /\ prepared \in [Entry -> Sealed]
  /\ codes \in Codes /\ storeFile \in Codes
  /\ damaged \in BOOLEAN /\ available \in BOOLEAN
  /\ line \in Seq(Operation)
  /\ flow \in [Entry -> FlowState]
  /\ acked \in [Entry -> [User -> Value \cup {None}]]
  /\ crashes \in 0 .. MaxCrashes

Init ==
  /\ keyFile = [k \in Key |-> 0] /\ made = [k \in Key |-> 0]
  /\ data = [e \in Entry |-> Plain]
  /\ options = [e \in Entry |-> NoOptions]
  /\ entryFile = [data |-> data, options |-> options]
  /\ cuOptions = options
  /\ loaded = [e \in Entry |-> "no"] /\ prepared = data
  /\ codes = NoCodes /\ storeFile = NoCodes
  /\ damaged \in {FALSE, Damaged} /\ available = ~damaged
  /\ line = <<>>
  /\ flow = [e \in Entry |-> NoFlow]
  /\ acked = NothingWritten
  /\ crashes = 0

-----------------------------------------------------------------------------
(* Key files and records *)

\* The key file that s names is there, with the content s was made with.
HasKey(s) == s.form # "plain" => keyFile[s.form] = s.key

\* (mutant) records are decoded with the key file of the options
ReadableByOptions(e, s) ==
  s.form # "plain" => s.form = options[e].form /\ keyFile[s.form] = s.key

\* decode: a record names the key file that it was made with.
Readable(e, s) == HasKey(s)

CanEncode(form) == form # "plain" => keyFile[form] \in 1 .. MaxKeys

\* encode, where CanEncode holds.
Seal(form) == [form |-> form, key |-> IF form = "plain" THEN 0 ELSE keyFile[form]]

Encoded(value, form) ==
  [value |-> value, form |-> form, key |-> IF form = "plain" THEN 0 ELSE keyFile[form]]

\* (mutant) records stay encrypted when encryption is turned off
MigratedToKey(r, form) ==
  IF r = NoRecord \/ form = "plain" THEN r ELSE Encoded(r.value, form)

\* The record that async_migrate puts in the place of r: the same one if it is encrypted
\* with the same key file already.
Migrated(r, form) ==
  IF r = NoRecord \/ r.form = form THEN r ELSE Encoded(r.value, form)

AllReadable(e) == \A u \in User : Readable(e, codes[e][u])

\* A setup has prepared the credentials d and hands them to the executor to be decoded.
Decode(e, d) ==
  /\ loaded' = [loaded EXCEPT ![e] = "decoding"]
  /\ prepared' = [prepared EXCEPT ![e] = d]

\* (mutant) an existing key file is overwritten
CreateKeyAnew(k) ==
  /\ made' = [made EXCEPT ![k] = @ + 1]
  /\ keyFile' = [keyFile EXCEPT ![k] = made[k] + 1]

\* create_key, where an existing file is only read.
CreateKey(k) ==
  IF keyFile[k] # 0 THEN CanEncode(k) /\ UNCHANGED keys
  ELSE /\ made[k] < MaxKeys
       /\ made' = [made EXCEPT ![k] = @ + 1]
       /\ keyFile' = [keyFile EXCEPT ![k] = made[k] + 1]

\* create_key fails: the file there is no key, or a new one could not be opened or not
\* be written after that.
CreateKeyFails(k) ==
  \/ keyFile[k] = Broken /\ UNCHANGED keys
  \/ /\ KeyFaults /\ keyFile[k] = 0
     /\ keyFile' \in {keyFile, [keyFile EXCEPT ![k] = Broken]}
     /\ UNCHANGED made

-----------------------------------------------------------------------------
(* The write lock *)

Op(kind, e, u, value, o, d) ==
  [kind |-> kind, entry |-> e, user |-> u, value |-> value, options |-> o, data |-> d,
   stage |-> "waiting", updated |-> NoCodes]

LineUp(op) == Len(line) < MaxLine /\ line' = Append(line, op)

\* (mutant) the lock is not taken
EveryTurn(i) == TRUE

Turn(i) == i = 1

Advance(i, op) == line' = [line EXCEPT ![i] = op]

\* The operation ends, or raises: the lock is released.
Drop(i) == line' = [j \in 1 .. Len(line) - 1 |-> IF j < i THEN line[j] ELSE line[j + 1]]

\* The lock is acquired: the codes are copied.  async_save hands the options that the
\* unit has now to the executor; async_migrate validates the records first.
Take(i) ==
  /\ Turn(i) /\ line[i].stage = "waiting"
  /\ LET op == line[i] IN
     \/ /\ op.kind = "save"
        /\ Advance(i, [op EXCEPT !.stage = "encoding", !.updated = codes,
                                 !.options = cuOptions[op.entry]])
     \/ /\ op.kind = "remove"
        /\ Advance(i, [op EXCEPT !.stage = "saving",
                                 !.updated = [codes EXCEPT ![op.entry][op.user] = NoRecord]])
     \/ /\ op.kind \in {"flow", "setup"}
        /\ IF available /\ AllReadable(op.entry)
           THEN Advance(i, [op EXCEPT !.stage = "encoding", !.updated = codes])
           ELSE Drop(i)
  /\ UNCHANGED <<keys, entries, entryFile, setup, store, flow, crashes>>

\* The executor has encoded the code, or has decoded and encoded those of the entry.
\* A migration that changes nothing is not written.
Encode(i) ==
  /\ Turn(i) /\ line[i].stage = "encoding"
  /\ LET op == line[i]
         e == op.entry
         saved == [op.updated EXCEPT ![e][op.user] = Encoded(op.value, op.options.form)]
         migrated == [op.updated EXCEPT ![e] =
                        [u \in User |-> Migrated(op.updated[e][u], op.options.form)]]
         readable == \A u \in User : Readable(e, op.updated[e][u])
         encodes == {u \in User : op.updated[e][u] # NoRecord} # {}
     IN \/ /\ op.kind = "save"
           /\ IF CanEncode(op.options.form)
              THEN Advance(i, [op EXCEPT !.stage = "saving", !.updated = saved])
              ELSE Drop(i)
        \/ /\ op.kind \in {"flow", "setup"}
           /\ IF readable /\ (encodes => CanEncode(op.options.form))
              THEN Advance(i, [op EXCEPT !.stage = IF migrated = codes THEN "written"
                                                   ELSE "saving",
                                         !.updated = migrated])
              ELSE Drop(i)
  /\ UNCHANGED <<keys, entries, entryFile, setup, store, flow, crashes>>

\* The store is written in one piece.
WriteStore(i) ==
  /\ Turn(i) /\ line[i].stage = "saving"
  /\ LET op == line[i] IN
     /\ storeFile' = op.updated
     /\ damaged' = FALSE
     /\ Advance(i, [op EXCEPT !.stage = "written"])
     /\ IF op.kind \in {"save", "remove"}
        THEN acked' = [acked EXCEPT ![op.entry][op.user] = op.value]
        ELSE UNCHANGED acked
  /\ UNCHANGED <<codes, available, keys, entries, entryFile, setup, flow, crashes>>

WriteFails(i) ==
  /\ StoreFaults
  /\ Turn(i) /\ line[i].stage = "saving"
  /\ Drop(i)
  /\ UNCHANGED <<keys, entries, entryFile, setup, store, flow, crashes>>

\* The operation goes on after the write, and so does its caller: a flow updates the
\* entry (the listener of a loaded entry passes the options on), a setup goes on with
\* the credentials it prepared before.
Commit(i) ==
  /\ Turn(i) /\ line[i].stage = "written"
  /\ LET op == line[i]
         e == op.entry
     IN /\ codes' = op.updated
        /\ Drop(i)
        /\ IF op.kind = "flow"
           THEN /\ data' = [data EXCEPT ![e] = op.data]
                /\ options' = [options EXCEPT ![e] = op.options]
                /\ cuOptions' = IF loaded[e] = "yes"
                                THEN [cuOptions EXCEPT ![e] = op.options] ELSE cuOptions
           ELSE UNCHANGED entries
        /\ IF op.kind = "setup"
           THEN Decode(e, op.data)
           ELSE UNCHANGED setup
  /\ UNCHANGED <<storeFile, damaged, available, acked, keys, entryFile, flow, crashes>>

-----------------------------------------------------------------------------
(* The account API *)

\* _resolve, for an account with the permission.
Resolves(e) ==
  loaded[e] = "yes" /\ (available \/ cuOptions[e].mode # "personal")

Save(e, u, value) ==
  /\ Resolves(e) /\ cuOptions[e].mode = "personal"
  /\ LineUp(Op("save", e, u, value, NoOptions, Plain))
  /\ UNCHANGED <<keys, entries, entryFile, setup, store, flow, crashes>>

Remove(e, u) ==
  /\ Resolves(e)
  /\ LineUp(Op("remove", e, u, None, NoOptions, Plain))
  /\ UNCHANGED <<keys, entries, entryFile, setup, store, flow, crashes>>

-----------------------------------------------------------------------------
(* The options flow *)

FlowTo(e, stage) == flow' = [flow EXCEPT ![e].stage = stage]

FlowEnds(e) == flow' = [flow EXCEPT ![e] = NoFlow]

\* The form is submitted and the present credentials can be decoded.
FlowStart(e, o, generate) ==
  /\ flow[e] = NoFlow
  /\ o.mode \in ChosenModes
  /\ ~FlowsMeetSetup => loaded[e] = "yes"
  /\ Readable(e, data[e])
  /\ flow' = [flow EXCEPT ![e] = [stage |-> "validate", options |-> o, generate |-> generate]]
  /\ UNCHANGED <<keys, entries, entryFile, setup, store, line, crashes>>

\* async_validate_entry, without the lock.
FlowValidate(e) ==
  /\ flow[e].stage = "validate"
  /\ IF available /\ AllReadable(e)
     THEN FlowTo(e, IF flow[e].options.form = "plain" THEN "prepare" ELSE "key")
     ELSE FlowEnds(e)
  /\ UNCHANGED <<keys, entries, entryFile, setup, store, line, crashes>>

\* create_key or read_key.
FlowKey(e) ==
  /\ flow[e].stage = "key"
  /\ LET k == flow[e].options.form IN
     \/ flow[e].generate /\ CreateKey(k) /\ FlowTo(e, "prepare")
     \/ flow[e].generate /\ CreateKeyFails(k) /\ FlowEnds(e)
     \/ ~flow[e].generate /\ CanEncode(k) /\ FlowTo(e, "prepare") /\ UNCHANGED keys
     \/ ~flow[e].generate /\ ~CanEncode(k) /\ FlowEnds(e) /\ UNCHANGED keys
  /\ UNCHANGED <<entries, entryFile, setup, store, line, crashes>>

\* prepare_config: the credentials as the new options want them.
Prepared(e, form) == IF data[e].form = form THEN data[e] ELSE Seal(form)

CanPrepare(e, form) == Readable(e, data[e]) /\ CanEncode(form)

FlowPrepare(e) ==
  /\ flow[e].stage = "prepare"
  /\ LET o == flow[e].options IN
     \/ /\ CanPrepare(e, o.form)
        /\ LineUp(Op("flow", e, None, None, o, Prepared(e, o.form)))
     \/ ~CanPrepare(e, o.form) /\ UNCHANGED line
  /\ FlowEnds(e)
  /\ UNCHANGED <<keys, entries, entryFile, setup, store, crashes>>

-----------------------------------------------------------------------------
(* Setup, and Home Assistant around it *)

\* Nothing of the entry is at the lock.
Idle(e) == \A i \in 1 .. Len(line) : line[i].entry # e

SettingUp(e) == \E i \in 1 .. Len(line) : line[i].kind = "setup" /\ line[i].entry = e

\* (mutant) the state of the store is not asked
AlwaysMigrates(e) == TRUE

\* The entry is to be encrypted, or its credentials are.
Encrypted(e) == options[e].form # "plain" \/ data[e].form # "plain"

\* async_prepare_entry: with a damaged store and nothing encrypted there is no migration.
Migrates(e) == available \/ Encrypted(e)

\* async_setup_entry, up to the migration.
SetupStart(e) ==
  /\ loaded[e] = "no" /\ ~SettingUp(e)
  /\ CanPrepare(e, options[e].form)
  /\ \/ /\ Migrates(e)
        /\ LineUp(Op("setup", e, None, None, options[e], Prepared(e, options[e].form)))
        /\ UNCHANGED setup
     \/ ~Migrates(e) /\ Decode(e, Prepared(e, options[e].form)) /\ UNCHANGED line
  /\ UNCHANGED <<keys, entries, entryFile, store, flow, crashes>>

\* The executor has decoded the prepared credentials: they are put in the entry, and the
\* central unit is made with the options of this moment.  Or it could not, and the setup
\* is refused.
SetupMakes(e) ==
  /\ loaded[e] = "decoding"
  /\ IF Readable(e, prepared[e])
     THEN /\ data' = [data EXCEPT ![e] = prepared[e]]
          /\ cuOptions' = [cuOptions EXCEPT ![e] = options[e]]
          /\ loaded' = [loaded EXCEPT ![e] = "initializing"]
     ELSE /\ loaded' = [loaded EXCEPT ![e] = "no"]
          /\ UNCHANGED <<data, cuOptions>>
  /\ prepared' = [prepared EXCEPT ![e] = Plain]
  /\ UNCHANGED <<keys, options, entryFile, store, line, flow, crashes>>

\* initialize() has ended: the unit is entered in hass.data, the listener is added.
SetupEnd(e) ==
  /\ loaded[e] = "initializing"
  /\ loaded' = [loaded EXCEPT ![e] = "yes"]
  /\ UNCHANGED <<keys, entries, entryFile, prepared, store, line, flow, crashes>>

\* initialize() raises: the panel did not answer in time.
SetupFails(e) ==
  /\ loaded[e] = "initializing"
  /\ loaded' = [loaded EXCEPT ![e] = "failed"]
  /\ UNCHANGED <<keys, entries, entryFile, prepared, store, line, flow, crashes>>

\* The owner asks for another setup (external): Home Assistant does not, by itself.
Reload(e) ==
  /\ loaded[e] = "failed"
  /\ loaded' = [loaded EXCEPT ![e] = "no"]
  /\ UNCHANGED <<keys, entries, entryFile, prepared, store, line, flow, crashes>>

\* async_unload_entry.
Unload(e) ==
  /\ loaded[e] = "yes"
  /\ ~FlowsMeetSetup => flow[e] = NoFlow /\ Idle(e)
  /\ loaded' = [loaded EXCEPT ![e] = "no"]
  /\ UNCHANGED <<keys, entries, entryFile, prepared, store, line, flow, crashes>>

\* The config entries are written.
Persist ==
  /\ entryFile' = [data |-> data, options |-> options]
  /\ UNCHANGED <<keys, entries, setup, store, line, flow, crashes>>

\* A key file that was being created when Home Assistant stopped: opened, not written.
Torn ==
  {k \in Key : /\ KeyFaults /\ keyFile[k] = 0
               /\ \E e \in Entry : /\ flow[e].stage = "key" /\ flow[e].generate
                                   /\ flow[e].options.form = k}

\* Home Assistant stops at any point, starts, and loads what is on disk.  A store that
\* cannot be read is an empty one; what is lost with it, the code did not lose.
Crash ==
  /\ crashes < MaxCrashes
  /\ crashes' = crashes + 1
  /\ \E torn \in SUBSET Torn :
       keyFile' = [k \in Key |-> IF k \in torn THEN Broken ELSE keyFile[k]]
  /\ damaged' \in {damaged, damaged \/ Damaged}
  /\ available' = ~damaged'
  /\ storeFile' = IF damaged' THEN NoCodes ELSE storeFile
  /\ codes' = storeFile'
  /\ acked' = IF damaged' THEN NothingWritten ELSE acked
  /\ data' = entryFile.data /\ options' = entryFile.options
  /\ cuOptions' = entryFile.options
  /\ loaded' = [e \in Entry |-> "no"] /\ prepared' = [e \in Entry |-> Plain]
  /\ line' = <<>>
  /\ flow' = [e \in Entry |-> NoFlow]
  /\ UNCHANGED <<made, entryFile>>

\* A key file disappears, though not in the middle of a flow or a migration.
KeyLost(k) ==
  /\ LoseKeys /\ keyFile[k] # 0
  /\ line = <<>> /\ \A e \in Entry : flow[e] = NoFlow
  /\ keyFile' = [keyFile EXCEPT ![k] = 0]
  /\ UNCHANGED <<made, entries, entryFile, setup, store, line, flow, crashes>>

AtLock == \E i \in 1 .. Len(line) : Take(i) \/ Encode(i) \/ WriteStore(i) \/ Commit(i)

Next ==
  \/ AtLock
  \/ \E i \in 1 .. Len(line) : WriteFails(i)
  \/ \E e \in Entry :
       \/ \E u \in User : Remove(e, u) \/ \E v \in Value : Save(e, u, v)
       \/ \E o \in Options, g \in BOOLEAN : FlowStart(e, o, g)
       \/ FlowValidate(e) \/ FlowKey(e) \/ FlowPrepare(e)
       \/ SetupStart(e) \/ SetupMakes(e) \/ SetupEnd(e) \/ SetupFails(e)
       \/ Reload(e) \/ Unload(e)
  \/ Persist
  \/ Crash
  \/ \E k \in Key : KeyLost(k)

Spec == Init /\ [][Next]_vars

\* Executor jobs and writes end, initialize() ends one way or the other, and Home
\* Assistant tries an entry whose setup was refused again and again.
Fairness ==
  /\ WF_vars(AtLock)
  /\ \A e \in Entry : /\ SF_vars(SetupStart(e)) /\ WF_vars(SetupMakes(e))
                      /\ WF_vars(SetupEnd(e) \/ SetupFails(e))

FairSpec == Spec /\ Fairness

-----------------------------------------------------------------------------
(* Properties *)

\* No code is lost and none comes back: the store holds for every account what was last
\* written for it, and _codes does too, but for the moment between a write and the
\* assignment after it; whatever is migrated, fails or crashes meanwhile.
NoCodeLost ==
  \A e \in Entry, u \in User :
    /\ storeFile[e][u].value = acked[e][u]
    /\ \/ codes[e][u].value = acked[e][u]
       \/ \E i \in 1 .. Len(line) : /\ line[i].stage = "written"
                                    /\ line[i].entry = e /\ line[i].user = u

\* Nothing of the entry is under way.
Settled(e) == loaded[e] = "yes" /\ available /\ Idle(e)

\* All codes of a settled entry are stored as its options say: no PIN stays plain when
\* the options say encrypted.
StoredAsConfigured ==
  \A e \in Entry : Settled(e) =>
    /\ data[e].form = options[e].form
    /\ \A u \in User : codes[e][u] # NoRecord => codes[e][u].form = options[e].form

\* The same, and the unit works with the options of its entry.
SettledAsConfigured ==
  StoredAsConfigured /\ \A e \in Entry : Settled(e) => cuOptions[e] = options[e]

\* As long as no key file is lost, everything on disk can be decoded at any moment: a
\* crash may leave a mixture of old and new records but no unreadable one.
Recoverable ==
  \A e \in Entry :
    HasKey(entryFile.data[e]) /\ \A u \in User : HasKey(storeFile[e][u])

\* What the entry needs of the key files is there.
KeysThere(e) ==
  /\ HasKey(data[e]) /\ CanEncode(options[e].form)
  /\ \A u \in User : HasKey(codes[e][u])

\* Encrypted codes in a store that cannot be read: the setup is refused on purpose, so
\* that an encrypted setup does not become an unencrypted one (ENCRYPTION.md:91-93).
Refused(e) == ~available /\ Encrypted(e)

\* Whatever a crash leaves behind, at any point of a flow, a migration or a setup, the
\* central unit of the entry is made again, unless a key file that the entry needs is
\* gone, or the store is damaged and the entry is to be encrypted; a damaged store alone
\* does not keep a plain entry from being set up (credentials.py:112-116).
SetUpAgain ==
  \A e \in Entry :
    loaded[e] = "no" ~>
      \/ loaded[e] \in {"initializing", "yes"}
      \/ ~KeysThere(e) \/ Refused(e)

=============================================================================
