------------------------------ MODULE MemoryStore ------------------------------
(***************************************************************************)
(* The in-memory ORM: the engine's tables, sequences and indexes            *)
(* (btpay/orm/engine.py, indexing.py) and the objects that save and delete  *)
(* their rows (btpay/orm/model.py).                                         *)
(*                                                                         *)
(* Each engine call is atomic, under the store's lock.  A save() of a new   *)
(* object is two of them, next_pk and insert; everything between two calls  *)
(* interleaves.  A row has one unique column, key, and one indexed column,  *)
(* tag, declared after it, as invoice_number and status are in Invoice and  *)
(* address and assigned_to_invoice_id in BitcoinAddress.                    *)
(*                                                                         *)
(* A definition introduced as "Slip" is the one below it with a plausible   *)
(* mistake; nothing uses it.  The properties are tested against them.       *)
(***************************************************************************)
EXTENDS Integers, FiniteSets

CONSTANTS
    Models,         \* the registered model classes
    Keys,           \* values of the unique column
    Tags,           \* values of the indexed column
    Threads,
    KeysChange,     \* whether saved rows are given new keys
    MaxPk,          \* bound on the primary keys handed out, per model
    NoRow           \* "no such row"

Pks == 1 .. MaxPk
Rows == [key: Keys, tag: Tags]

\* The only unique column that is ever changed is Organization.slug, and an
\* Organization has no other indexed column.
ASSUME StoreAssumption ==
    /\ Models # {} /\ Keys # {} /\ Tags # {}
    /\ MaxPk \in Nat \ {0}
    /\ KeysChange \in BOOLEAN
    /\ KeysChange => \A g, h \in Tags : g = h
    /\ NoRow \notin Rows

VARIABLES
    table,          \* _tables: by model and primary key
    sequence,       \* _sequences: the next primary key, by model
    holder,         \* the UniqueIndex of key: its row's primary key, 0 for none
    tagged,         \* the HashIndex of tag: a set of primary keys
    pc,             \* what each thread is about to do with its object
    object          \* each thread's instance: its model, id and attributes

store == <<table, sequence, holder, tagged>>
vars == <<store, pc, object>>

Objects == [model: Models, id: 0 .. MaxPk, row: Rows]
NoObject == [model |-> CHOOSE m \in Models : TRUE, id |-> 0,
             row |-> CHOOSE r \in Rows : TRUE]

-------------------------------------------------------------------------------
(* Queries.  A filter on one indexed column is answered from its index; with  *)
(* an operator or an exclude the rows are scanned.                            *)

FilterKey(m, k) == {p \in Pks : holder[m][k] = p /\ table[m][p] # NoRow}
FilterTag(m, g) == {p \in tagged[m][g] : table[m][p] # NoRow}

ScanKey(m, k) == {p \in Pks : table[m][p] # NoRow /\ table[m][p].key = k}
ScanTag(m, g) == {p \in Pks : table[m][p] # NoRow /\ table[m][p].tag = g}

-------------------------------------------------------------------------------
(* _update_indexes, column by column.  The row has been written already when  *)
(* the unique index refuses its key; the columns after it are not reached.    *)

Moved(old, row) == old = NoRow \/ old.key # row.key

\* The unique index without the key that the row gives up.
Freed(m, p, old, row) ==
    [k \in Keys |-> IF /\ old # NoRow /\ k = old.key /\ old.key # row.key
                       /\ holder[m][k] = p
                    THEN 0 ELSE holder[m][k]]

Refused(m, p, old, row) ==
    Moved(old, row) /\ Freed(m, p, old, row)[row.key] \notin {0, p}

Retagged(ix, p, old, row) ==
    [g \in Tags |->
        IF g = row.tag THEN IF old # NoRow /\ old.tag = g THEN ix[g]
                                                          ELSE ix[g] \cup {p}
        ELSE IF old # NoRow /\ old.tag = g THEN ix[g] \ {p} ELSE ix[g]]

\* Slip: the value a row had before stays in the index.
WriteKeepsOld(m, p, old, row) ==
    /\ table' = [table EXCEPT ![m][p] = row]
    /\ holder' = [holder EXCEPT ![m][row.key] = p]
    /\ tagged' = [tagged EXCEPT ![m][row.tag] = @ \cup {p}]

\* Write row p of model m, of which the indexes know old.
Write(m, p, old, row) ==
    LET freed == Freed(m, p, old, row)
        refused == Refused(m, p, old, row)
    IN
    /\ table' = [table EXCEPT ![m][p] = row]
    /\ holder' = [holder EXCEPT ![m] =
                    IF refused \/ ~ Moved(old, row) THEN freed
                    ELSE [freed EXCEPT ![row.key] = p]]
    /\ tagged' = IF refused THEN tagged
                 ELSE [tagged EXCEPT ![m] = Retagged(@, p, old, row)]

-------------------------------------------------------------------------------
Init ==
    /\ table = [m \in Models |-> [p \in Pks |-> NoRow]]
    /\ sequence = [m \in Models |-> 1]
    /\ holder = [m \in Models |-> [k \in Keys |-> 0]]
    /\ tagged = [m \in Models |-> [g \in Tags |-> {}]]
    /\ pc = [t \in Threads |-> "idle"]
    /\ object = [t \in Threads |-> NoObject]

\* The thread lets its object go.
Release(t) ==
    /\ pc' = [pc EXCEPT ![t] = "idle"]
    /\ object' = [object EXCEPT ![t] = NoObject]

\* Save a new object: its caller has looked the key up and found it free.
\* next_pk gives the object its id.
Create(t, m, row) ==
    /\ pc[t] = "idle"
    /\ FilterKey(m, row.key) = {}
    /\ sequence[m] <= MaxPk
    /\ sequence' = [sequence EXCEPT ![m] = @ + 1]
    /\ object' = [object EXCEPT ![t] =
                    [model |-> m, id |-> sequence[m], row |-> row]]
    /\ pc' = [pc EXCEPT ![t] = "insert"]
    /\ UNCHANGED <<table, holder, tagged>>

\* insert: refused or not, the row is in the table afterwards.
Insert(t) ==
    /\ pc[t] = "insert"
    /\ Write(object[t].model, object[t].id, NoRow, object[t].row)
    /\ Release(t)
    /\ UNCHANGED sequence

\* Model.get: a private copy of the row.
Get(t, m, p) ==
    /\ pc[t] = "idle"
    /\ table[m][p] # NoRow
    /\ object' = [object EXCEPT ![t] =
                    [model |-> m, id |-> p, row |-> table[m][p]]]
    /\ pc' = [pc EXCEPT ![t] = "held"]
    /\ UNCHANGED store

\* save() of a copy whose attributes were changed: an update, which puts the
\* row back if it has been deleted meanwhile.
SaveCopy(t, row) ==
    LET m == object[t].model
        p == object[t].id
    IN
    /\ pc[t] = "held"
    /\ Write(m, p, table[m][p], row)
    /\ Release(t)
    /\ UNCHANGED sequence

Retag(t) == \E g \in Tags : SaveCopy(t, [object[t].row EXCEPT !.tag = g])

\* The setup wizard gives the organization a new slug, looking nothing up.
Rename(t) ==
    /\ KeysChange
    /\ \E k \in Keys : SaveCopy(t, [object[t].row EXCEPT !.key = k])

\* Slip: the indexes keep the deleted row.
DeleteTableOnly(t) ==
    /\ pc[t] = "held"
    /\ table' = [table EXCEPT ![object[t].model][object[t].id] = NoRow]
    /\ UNCHANGED <<holder, tagged, sequence>>
    /\ Release(t)

Delete(t) ==
    LET m == object[t].model
        p == object[t].id
        old == table[m][p]
    IN
    /\ pc[t] = "held"
    /\ \/ /\ old # NoRow
          /\ table' = [table EXCEPT ![m][p] = NoRow]
          /\ holder' = [holder EXCEPT ![m][old.key] = IF @ = p THEN 0 ELSE @]
          /\ tagged' = [tagged EXCEPT ![m][old.tag] = @ \ {p}]
       \/ old = NoRow /\ UNCHANGED <<table, holder, tagged>>
    /\ Release(t)
    /\ UNCHANGED sequence

Step(t) == Insert(t) \/ Retag(t) \/ Rename(t) \/ Delete(t)

Begin(t) == \E m \in Models :
                \/ \E row \in Rows : Create(t, m, row)
                \/ \E p \in Pks : Get(t, m, p)

Next == \E t \in Threads : Begin(t) \/ Step(t)
Spec == Init /\ [][Next]_vars

-------------------------------------------------------------------------------
(* Properties. *)

\* Tables, sequences, indexes and objects are what the engine declares.
TypeOK ==
    /\ table \in [Models -> [Pks -> Rows \cup {NoRow}]]
    /\ sequence \in [Models -> 1 .. MaxPk + 1]
    /\ holder \in [Models -> [Keys -> 0 .. MaxPk]]
    /\ tagged \in [Models -> [Tags -> SUBSET Pks]]
    /\ pc \in [Threads -> {"idle", "insert", "held"}]
    /\ object \in [Threads -> Objects]

\* Whatever saves were refused and whatever stale copies were saved, an index
\* never answers with a row that does not match: each entry names a row that
\* is in the table and carries the value.
IndexesAreSound ==
    \A m \in Models :
        /\ \A k \in Keys : holder[m][k] # 0 => holder[m][k] \in ScanKey(m, k)
        /\ \A g \in Tags : tagged[m][g] \subseteq ScanTag(m, g)

\* A primary key is handed out once: an insert never lands on a row that is
\* there, nor on one that another thread inserts or holds a copy of, however
\* next_pk and insert interleave.
InsertsAreFresh ==
    \A t \in Threads : pc[t] = "insert" =>
        /\ table[object[t].model][object[t].id] = NoRow
        /\ \A u \in Threads \ {t} : pc[u] # "idle" =>
              \/ object[u].model # object[t].model
              \/ object[u].id # object[t].id

\* Every primary key in use was handed out by the sequence.
PksAreIssued ==
    /\ \A m \in Models, p \in Pks :
          table[m][p] # NoRow => p < sequence[m]
    /\ \A t \in Threads : pc[t] # "idle" =>
          object[t].id \in 1 .. sequence[object[t].model] - 1

\* Where keys do not change, every copy of a row has the key of the row, also
\* when the row is gone.
SameRow(t, u) == object[t].model = object[u].model /\ object[t].id = object[u].id

CopiesShareKeys ==
    ~ KeysChange => \A t \in Threads : pc[t] # "idle" =>
        /\ table[object[t].model][object[t].id] # NoRow =>
              table[object[t].model][object[t].id].key = object[t].row.key
        /\ \A u \in Threads : pc[u] # "idle" /\ SameRow(t, u) =>
              object[t].row.key = object[u].row.key

IInv == /\ TypeOK
        /\ IndexesAreSound
        /\ InsertsAreFresh
        /\ PksAreIssued
        /\ CopiesShareKeys

\* An indexed query and a scan for the same value find the same rows.
PlansAgree ==
    \A m \in Models :
        /\ \A k \in Keys : FilterKey(m, k) = ScanKey(m, k)
        /\ \A g \in Tags : FilterTag(m, g) = ScanTag(m, g)
===============================================================================
