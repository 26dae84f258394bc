------------------------------ MODULE Persistence ------------------------------
(***************************************************************************)
(* The store and its files (btpay/orm/persistence.py): save_to_disk writes  *)
(* one file per model under _save_lock and then the list of models; a       *)
(* restart loads what the list names; an administrator restores an archive  *)
(* over the running program (backup_restore in settings_views.py).          *)
(*                                                                         *)
(* The AutoSaver, the flush after a payment and the shutdown handler all    *)
(* call save_to_disk: here any idle thread does.  A file is replaced in one *)
(* step (written beside it, synced, renamed); between two files other       *)
(* threads go on, and the process may die.                                  *)
(*                                                                         *)
(* A definition introduced as "Slip" is the one below it with a plausible   *)
(* mistake; nothing uses it.  The properties are tested against them.       *)
(***************************************************************************)
EXTENDS MemoryStore, Sequences, SequencesExt

CONSTANTS
    Early,          \* the models registered at the start, in their order
    Late,           \* models that register when they are first imported,
                    \* after the start: the BTCPay and LNbits connectors
    Archived,       \* the models that the uploaded archive lists
    Archive,        \* its file for each of them
    NoFile,         \* the file of a model does not exist
    NoSave          \* nobody holds _save_lock

Tables == [Pks -> Rows \cup {NoRow}]
File == [rows: Tables, next: 1 .. MaxPk + 1]

ASSUME FilesAssumption ==
    /\ Early \in Seq(Models) /\ Late \subseteq Models
    /\ Archived \in Seq(Models) /\ Archive \in [ToSet(Archived) -> File]
    /\ NoFile \notin File \cup Tables
    /\ NoSave \notin [models: Seq(Models), todo: Seq(Models), rows: Tables \cup {NoFile}]

VARIABLES
    registered,     \* the models the engine knows, in the order they registered
    file,           \* the file of each model
    listed,         \* the models that _meta.json names; <<>> without the file
    save,           \* the save in progress
    restoring,      \* the models the restoring thread has yet to go through
    settled         \* history: the rows nobody changed since the last save began

disk == <<file, listed>>
memory == <<store, pc, object, registered>>
allVars == <<vars, registered, file, listed, save, restoring, settled>>

-------------------------------------------------------------------------------
PInit ==
    /\ Init
    /\ registered = Early
    /\ file = [m \in Models |-> NoFile]
    /\ listed = <<>>
    /\ save = NoSave
    /\ restoring = <<>>
    /\ settled = {}

\* A step of the store: the rows it touches are no longer settled.
StoreStep(step) ==
    /\ step
    /\ settled' = {s \in settled : table'[s[1]][s[2]] = table[s[1]][s[2]]}
    /\ UNCHANGED <<registered, file, listed, save, restoring>>

\* A row of a model is created or fetched once the model is registered.
BeginRegistered(t) == \E m \in ToSet(registered) :
    \/ \E row \in Rows : Create(t, m, row)
    \/ \E p \in Pks : Get(t, m, p)

\* The first page or invoice that uses a late model imports it.
Import(m) ==
    /\ m \in Late \ ToSet(registered)
    /\ registered' = Append(registered, m)
    /\ UNCHANGED <<vars, file, listed, save, restoring, settled>>

-------------------------------------------------------------------------------
(* save_to_disk. *)

\* Slip: the last registered model is left out.
SaveOrderShort == Front(registered)

SaveOrder == registered

\* A thread gets _save_lock and lists the models.
BeginSave(t) ==
    /\ pc[t] = "idle"
    /\ save = NoSave
    /\ save' = [models |-> SaveOrder, todo |-> SaveOrder, rows |-> NoFile]
    /\ pc' = [pc EXCEPT ![t] = "save"]
    /\ settled' = ToSet(registered) \X Pks
    /\ UNCHANGED <<store, object, registered, disk, restoring>>

\* get_table_data of the next model.
ReadRows(t) ==
    /\ pc[t] = "save"
    /\ save.todo # <<>>
    /\ save.rows = NoFile
    /\ save' = [save EXCEPT !.rows = table[Head(save.todo)]]
    /\ UNCHANGED <<memory, disk, restoring, settled>>

\* Slip: the file says that the next primary key is the first one free.
WriteFileGapless(t) ==
    LET m == Head(save.todo)
        free == {p \in 1 .. MaxPk + 1 :
                    p \notin Pks \/ save.rows[p] = NoRow} IN
    /\ pc[t] = "save"
    /\ save.todo # <<>>
    /\ save.rows # NoFile
    /\ file' = [file EXCEPT ![m] =
                  [rows |-> save.rows,
                   next |-> CHOOSE p \in free : \A q \in free : p <= q]]
    /\ save' = [save EXCEPT !.todo = Tail(@), !.rows = NoFile]
    /\ UNCHANGED <<memory, listed, restoring, settled>>

\* get_sequence, and the file is replaced; or it cannot be written, which is
\* logged and forgotten.
WriteFile(t) ==
    LET m == Head(save.todo) IN
    /\ pc[t] = "save"
    /\ save.todo # <<>>
    /\ save.rows # NoFile
    /\ \/ /\ file' = [file EXCEPT ![m] = [rows |-> save.rows,
                                          next |-> sequence[m]]]
          /\ UNCHANGED settled
       \/ /\ settled' = {s \in settled : s[1] # m}
          /\ UNCHANGED file
    /\ save' = [save EXCEPT !.todo = Tail(@), !.rows = NoFile]
    /\ UNCHANGED <<memory, listed, restoring>>

\* _meta.json is replaced, or cannot be; the lock is released.
EndSave(t) ==
    /\ pc[t] = "save"
    /\ save.todo = <<>>
    /\ listed' \in {save.models, listed}
    /\ save' = NoSave
    /\ pc' = [pc EXCEPT ![t] = "idle"]
    /\ UNCHANGED <<store, object, registered, file, restoring, settled>>

-------------------------------------------------------------------------------
(* load_from_disk. *)

\* The rows of a file whose key is taken when they are reached, in the order of
\* their primary keys (they lie in the order of insertion, which is the same
\* unless two inserts overlapped); hold is the unique index before.
Clashing(rows, hold) ==
    {p \in Pks : /\ rows[p] # NoRow
                 /\ \/ hold[rows[p].key] \notin {0, p}
                    \/ \E q \in 1 .. p - 1 :
                          rows[q] # NoRow /\ rows[q].key = rows[p].key}

\* The rows that load_table_data puts in the table: all, or up to the first
\* one that the unique index refuses, that one included.
Loaded(rows, hold) ==
    {p \in Pks : rows[p] # NoRow
                 /\ \A q \in Clashing(rows, hold) : p <= q}

\* The table, the unique index and the tag index of m after loading data.
LoadTable(data, tab, hold) ==
    [p \in Pks |-> IF p \in Loaded(data.rows, hold) THEN data.rows[p] ELSE tab[p]]

Indexed(data, hold) == Loaded(data.rows, hold) \ Clashing(data.rows, hold)

LoadHolder(data, hold) ==
    [k \in Keys |->
        LET with == {p \in Indexed(data, hold) : data.rows[p].key = k}
        IN  IF with = {} THEN hold[k] ELSE CHOOSE p \in with : TRUE]

LoadTagged(data, hold, tags) ==
    [g \in Tags |-> tags[g] \cup
        {p \in Indexed(data, hold) : data.rows[p].tag = g}]

\* Slip: the sequence of the file is not used.
LoadSequenceForgotten(data, hold, next) == next

\* The sequence is set at the end only.
LoadSequence(data, hold, next) ==
    IF Clashing(data.rows, hold) = {} THEN data.next ELSE next

NoRows == [p \in Pks |-> NoRow]
NoHolder == [k \in Keys |-> 0]
NoTagged == [g \in Tags |-> {}]

\* The process ends, in the middle of whatever it is doing, and the next one
\* starts: it loads the listed models that are registered by then.
Restart ==
    LET found == {m \in ToSet(listed) \cap ToSet(Early) : file[m] # NoFile} IN
    /\ table' = [m \in Models |-> IF m \in found
                    THEN LoadTable(file[m], NoRows, NoHolder) ELSE NoRows]
    /\ holder' = [m \in Models |-> IF m \in found
                    THEN LoadHolder(file[m], NoHolder) ELSE NoHolder]
    /\ tagged' = [m \in Models |-> IF m \in found
                    THEN LoadTagged(file[m], NoHolder, NoTagged) ELSE NoTagged]
    /\ sequence' = [m \in Models |-> IF m \in found
                    THEN LoadSequence(file[m], NoHolder, 1) ELSE 1]
    /\ pc' = [t \in Threads |-> "idle"]
    /\ object' = [t \in Threads |-> NoObject]
    /\ registered' = Early
    /\ save' = NoSave
    /\ restoring' = <<>>
    /\ settled' = {}
    /\ UNCHANGED disk

-------------------------------------------------------------------------------
(* backup_restore: extract the archive file by file, clear the store, load.  *)
(* None of it under _save_lock; one restore at a time.                        *)

Restoring == \E t \in Threads : pc[t] \in {"extract", "clear", "load"}

BeginRestore(t) ==
    /\ pc[t] = "idle"
    /\ ~ Restoring
    /\ pc' = [pc EXCEPT ![t] = "extract"]
    /\ restoring' = Archived
    /\ UNCHANGED <<store, object, registered, disk, save, settled>>

Extract(t) ==
    /\ pc[t] = "extract"
    /\ restoring # <<>>
    /\ file' = [file EXCEPT ![Head(restoring)] = Archive[Head(restoring)]]
    /\ restoring' = Tail(restoring)
    /\ settled' = {s \in settled : s[1] # Head(restoring)}
    /\ UNCHANGED <<memory, listed, save>>

ExtractMeta(t) ==
    /\ pc[t] = "extract"
    /\ restoring = <<>>
    /\ listed' = Archived
    /\ pc' = [pc EXCEPT ![t] = "clear"]
    /\ UNCHANGED <<store, object, registered, file, save, restoring, settled>>

\* Slip: what is in the tables stays there.
ClearNothing(t) ==
    /\ pc[t] = "clear"
    /\ pc' = [pc EXCEPT ![t] = "load"]
    /\ restoring' = listed
    /\ settled' = {}
    /\ UNCHANGED <<store, object, registered, disk, save>>

\* MemoryStore.clear, and load_from_disk reads the list of models.
Clear(t) ==
    /\ pc[t] = "clear"
    /\ table' = [m \in Models |-> NoRows]
    /\ sequence' = [m \in Models |-> 1]
    /\ holder' = [m \in Models |-> NoHolder]
    /\ tagged' = [m \in Models |-> NoTagged]
    /\ pc' = [pc EXCEPT ![t] = "load"]
    /\ restoring' = listed
    /\ settled' = {}
    /\ UNCHANGED <<object, registered, disk, save>>

\* load_table_data of one file, and its sequence.
LoadFile(m, data) ==
    /\ table' = [table EXCEPT ![m] = LoadTable(data, @, holder[m])]
    /\ holder' = [holder EXCEPT ![m] = LoadHolder(data, @)]
    /\ tagged' = [tagged EXCEPT ![m] = LoadTagged(data, holder[m], @)]
    /\ sequence' = [sequence EXCEPT ![m] = LoadSequence(data, holder[m], @)]

\* The next model of the list, which is passed over when it is not registered or
\* has no file.
LoadNext(t) ==
    LET m == Head(restoring) IN
    /\ pc[t] = "load"
    /\ restoring # <<>>
    /\ IF m \in ToSet(registered) /\ file[m] # NoFile THEN LoadFile(m, file[m])
                                                     ELSE UNCHANGED store
    /\ restoring' = Tail(restoring)
    /\ settled' = {s \in settled : s[1] # m}
    /\ UNCHANGED <<pc, object, registered, disk, save>>

EndRestore(t) ==
    /\ pc[t] = "load"
    /\ restoring = <<>>
    /\ pc' = [pc EXCEPT ![t] = "idle"]
    /\ UNCHANGED <<store, object, registered, disk, save, restoring, settled>>

-------------------------------------------------------------------------------
Work(t) == StoreStep(BeginRegistered(t) \/ Step(t))
Save(t) == BeginSave(t) \/ ReadRows(t) \/ WriteFile(t) \/ EndSave(t)
Restore(t) == \/ BeginRestore(t) \/ Extract(t)  \/ ExtractMeta(t)
              \/ Clear(t)        \/ LoadNext(t) \/ EndRestore(t)

PNext ==
    \/ \E t \in Threads : Work(t) \/ Save(t)
    \/ \E m \in Models : Import(m)
    \/ Restart
PSpec == PInit /\ [][PNext]_allVars

\* One request at a time changes rows; saves and crashes come at any time.  The
\* administrator's restore has the store and the files to itself: no save runs
\* and no request writes meanwhile, which nothing in the code sees to.
Idle(t) == pc[t] \in {"idle", "save"}
Alone(t) == pc[t] = "idle" => \A u \in Threads : Idle(u)
PSerialNext ==
    \/ \E t \in Threads : ~ Restoring /\ Alone(t) /\ Work(t)
    \/ \E t \in Threads : ~ Restoring /\ Save(t)
    \/ \E t \in Threads : save = NoSave /\ Alone(t) /\ Restore(t)
    \/ Restart
PSerialSpec == PInit /\ [][PSerialNext]_allVars

-------------------------------------------------------------------------------
(* Properties. *)

\* A file never hands out the primary key of one of its own rows: the rows are
\* read before the sequence, so rows inserted in between are only missing.
FilesIssueFreshPks ==
    \A m \in Models : file[m] # NoFile =>
        \A p \in Pks : file[m].rows[p] # NoRow => p < file[m].next

\* When save_to_disk returns, the lock is free, and a row that nobody changed
\* while it ran is on disk as it is in memory (or its file could not be written).
SaveIsComplete ==
    IF \E t \in Threads : pc[t] = "save" THEN save # NoSave
    ELSE /\ save = NoSave
         /\ \A s \in settled :
               file[s[1]] # NoFile /\ file[s[1]].rows[s[2]] = table[s[1]][s[2]]

\* What the files hold is what the next process has: every row of every listed
\* model, and a sequence beyond them.
RestartRestores ==
    [][Restart =>
        \A m \in ToSet(listed) : file[m] # NoFile =>
            /\ table'[m] = file[m].rows
            /\ \A p \in Pks : table'[m][p] # NoRow => p < sequence'[m]]_allVars

\* When a restore nobody interferes with reports success, the store holds the
\* archive's rows and nothing else, whatever was in the tables and the files before.
RestoreHolds ==
    [][\A t \in Threads : EndRestore(t) =>
        \A m \in ToSet(registered) :
            table[m] = IF m \in ToSet(Archived) THEN Archive[m].rows ELSE NoRows]_allVars
===============================================================================
