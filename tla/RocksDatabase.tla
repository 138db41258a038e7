--------------------------- MODULE RocksDatabase ---------------------------
(***************************************************************************)
(* Database and the data stores on top of it (ipfs/datastore-rocksdb).     *)
(*                                                                         *)
(* Clients are plain RocksDBDataStores (Stores), whose put and delete write *)
(* at once, and batches or transactions (Batches), which record operations *)
(* and write them on commit.  They share one Database behind an RwLock:    *)
(* write() holds the read lock, close() and the column operations the      *)
(* write lock.  RocksDB itself is external: write_opt applies a WriteBatch  *)
(* as a whole or not at all; opening needs exactly the column families that*)
(* are on disk.                                                            *)
(***************************************************************************)
EXTENDS Naturals, FiniteSets, Sequences

CONSTANTS
    Keys, Values, Absent, Untouched,
    Columns, Default,
    ColOf,           \* the column a key is written to
    Configs,         \* the sets config.columns the database is opened with
    Stores, Batches,
    MaxOps           \* bound: operations each batch records itself

Clients == Stores \cup Batches
Stored == Values \cup {Absent}

ASSUME RocksAssumption ==
    /\ Absent \notin Values /\ Untouched \notin Stored
    /\ Default \in Columns
    /\ ColOf \in [Keys -> Columns]
    /\ Configs \subseteq (SUBSET Columns) \ {{}}
    /\ Stores \cap Batches = {}
    /\ MaxOps \in [Batches -> Nat]

VARIABLES
    \* the files
    families,        \* column families on disk, {} before the first open
    data,            \* the value of every key
    damaged,         \* the files are corrupted
    marked,          \* the file CORRUPTED exists
    \* Database
    db,              \* "down" without a Database, else "open" or "closed"
    column_names,
    readers,         \* clients that hold the read lock
    \* the clients
    txn,             \* the operations of each client's DBTransaction
    pc               \* "idle", "writing" inside write(), "panicked"

fileVars == <<families, data, damaged, marked>>
dbVars == <<db, column_names>>
vars == <<fileVars, dbVars, readers, txn, pc>>

Op(k, v) == [key |-> k, value |-> v]
Ops == [key : Keys, value : Stored]

Init ==
    /\ families = {} /\ data = [k \in Keys |-> Absent]
    /\ damaged = FALSE /\ marked = FALSE
    /\ db = "down" /\ column_names = {} /\ readers = {}
    /\ txn = [c \in Clients |-> <<>>]
    /\ pc = [c \in Clients |-> "idle"]

-----------------------------------------------------------------------------
(* The operations of a WriteBatch take effect in order: the last of a key  *)
(* is what remains.                                                        *)

Touching(ops, k) == {i \in DOMAIN ops : ops[i].key = k}
Newest(ops, k) == CHOOSE i \in Touching(ops, k) : \A j \in Touching(ops, k) : j <= i
Effect(ops) == [k \in Keys |->
    IF Touching(ops, k) = {} THEN Untouched ELSE ops[Newest(ops, k)].value]
Written(d, ops) == [k \in Keys |->
    IF Touching(ops, k) = {} THEN d[k] ELSE ops[Newest(ops, k)].value]

(* Batches and transactions.                                               *)

Up(c) == db # "down" /\ pc[c] = "idle"

\* RocksDBBatchDataStore and RocksDBTxnDataStore: put and delete push an
\* operation.
put(b, k, v) ==
    /\ Up(b) /\ Len(txn[b]) < MaxOps[b]
    /\ txn' = [txn EXCEPT ![b] = Append(@, Op(k, v))]
    /\ UNCHANGED <<fileVars, dbVars, readers, pc>>
delete(b, k) ==
    /\ Up(b) /\ Len(txn[b]) < MaxOps[b]
    /\ txn' = [txn EXCEPT ![b] = Append(@, Op(k, Absent))]
    /\ UNCHANGED <<fileVars, dbVars, readers, pc>>

discard(b) ==
    /\ Up(b) /\ txn[b] # <<>>
    /\ txn' = [txn EXCEPT ![b] = <<>>]
    /\ UNCHANGED <<fileVars, dbVars, readers, pc>>

\* txn() of a batch: a new handle with a copy of its operations.
to_txn(b, c) ==
    /\ Up(b) /\ Up(c) /\ b # c /\ txn[c] = <<>>
    /\ txn' = [txn EXCEPT ![c] = txn[b]]
    /\ UNCHANGED <<fileVars, dbVars, readers, pc>>

\* Database::write, first part: under the read lock every operation's column is
\* looked up, and cf() panics for one that does not exist.  A closed database is
\* an error that changes nothing.
cf_found(ops) == \A i \in DOMAIN ops : ColOf[ops[i].key] \in families
begin_write(c, ops) ==
    /\ db = "open"
    /\ IF cf_found(ops)
       THEN pc' = [pc EXCEPT ![c] = "writing"] /\ readers' = readers \cup {c}
       ELSE pc' = [pc EXCEPT ![c] = "panicked"] /\ UNCHANGED readers
    /\ UNCHANGED <<fileVars, dbVars>>

commit(b) == Up(b) /\ begin_write(b, txn[b]) /\ UNCHANGED txn

\* RocksDBDataStore::put and delete: a transaction of one operation.
store_put(s, k, v) ==
    /\ Up(s)
    /\ txn' = [txn EXCEPT ![s] = <<Op(k, v)>>]
    /\ begin_write(s, <<Op(k, v)>>)
store_delete(s, k) ==
    /\ Up(s)
    /\ txn' = [txn EXCEPT ![s] = <<Op(k, Absent)>>]
    /\ begin_write(s, <<Op(k, Absent)>>)

unlock(c) ==
    /\ pc' = [pc EXCEPT ![c] = "idle"]
    /\ readers' = readers \ {c}

\* write_opt succeeds.  commit clears the transaction; the one of a plain put is
\* dropped.  (The mutants: half a batch is written and commit stops there;
\* keys a batch leaves alone are overwritten.)
write_opt_Whole(c) ==
    /\ pc[c] = "writing" /\ unlock(c)
    /\ data' = Effect(txn[c])
    /\ txn' = [txn EXCEPT ![c] = <<>>]
    /\ UNCHANGED <<families, damaged, marked, dbVars>>
write_opt_Half(c) ==
    /\ pc[c] = "writing" /\ unlock(c)
    /\ data' = Written(data, SubSeq(txn[c], 1, (Len(txn[c]) + 1) \div 2))
    /\ UNCHANGED <<txn, families, damaged, marked, dbVars>>
write_opt(c) ==
    /\ pc[c] = "writing" /\ unlock(c)
    /\ data' = Written(data, txn[c])
    /\ txn' = [txn EXCEPT ![c] = <<>>]
    /\ UNCHANGED <<families, damaged, marked, dbVars>>

\* write_opt fails: commit returns with `?` before it clears the transaction.
\* check_for_corruption creates the marker, unless that fails too.  (The mutant clears
\* first.)
write_fails_ClearsFirst(c) ==
    /\ pc[c] = "writing" /\ unlock(c)
    /\ txn' = [txn EXCEPT ![c] = <<>>]
    /\ UNCHANGED <<fileVars, dbVars>>
write_fails(c) ==
    /\ pc[c] = "writing" /\ unlock(c)
    /\ txn' = IF c \in Stores THEN [txn EXCEPT ![c] = <<>>] ELSE txn
    /\ \/ UNCHANGED <<damaged, marked>>
       \/ damaged' = TRUE /\ marked' \in {marked, TRUE}
    /\ UNCHANGED <<families, data, dbVars>>

-----------------------------------------------------------------------------
(* Reading.                                                                *)

\* Database::get, which changes nothing: an unknown column is an error, and a
\* closed database has no value.
Error == [what |-> "error"]
Found(v) == [what |-> "value", value |-> v]
get(k) == IF db = "closed" THEN Found(Absent)
          ELSE IF ColOf[k] \notin column_names THEN Error
          ELSE Found(data[k])

-----------------------------------------------------------------------------
(* The write lock: it is granted when nobody reads.  (The mutant takes the  *)
(* read lock.)                                                             *)

exclusive_Shared == readers \subseteq Clients
exclusive == readers = {}

close ==
    /\ db = "open" /\ exclusive
    /\ db' = "closed" /\ column_names' = {}
    /\ UNCHANGED <<fileVars, readers, txn, pc>>

\* create_cf fails for a family that exists.
add_column(col) ==
    /\ db = "open" /\ exclusive
    /\ col \notin families
    /\ families' = families \cup {col}
    /\ column_names' = column_names \cup {col}
    /\ UNCHANGED <<data, damaged, marked, db, readers, txn, pc>>

\* The name goes first; drop_cf may then fail, and always does for the default
\* family.  (The mutant forgets the name.)
remove_column_KeepsName(col) ==
    /\ db = "open" /\ exclusive /\ col \in column_names
    /\ col # Default
    /\ families' = families \ {col}
    /\ data' = [k \in Keys |-> IF ColOf[k] = col THEN Absent ELSE data[k]]
    /\ UNCHANGED <<damaged, marked, db, column_names, readers, txn, pc>>
remove_column(col) ==
    /\ db = "open" /\ exclusive /\ col \in column_names
    /\ column_names' = column_names \ {col}
    /\ \/ UNCHANGED <<families, data>>
       \/ /\ col # Default
          /\ families' = families \ {col}
          /\ data' = [k \in Keys |-> IF ColOf[k] = col THEN Absent ELSE data[k]]
    /\ UNCHANGED <<damaged, marked, db, readers, txn, pc>>

-----------------------------------------------------------------------------
(* Opening and the end of the program.                                     *)

\* DB::repair loses entries of corrupted files only.
repair(lost) ==
    /\ damaged \/ lost = {}
    /\ damaged' = FALSE
    /\ data' = [k \in Keys |-> IF k \in lost THEN Absent ELSE data[k]]

\* Database::open, first part: a marked database is repaired, then the marker is
\* removed, which may fail.
repair_marked(lost) ==
    /\ db = "down" /\ marked
    /\ repair(lost)
    /\ marked' \in BOOLEAN
    /\ UNCHANGED <<families, dbVars, readers, txn, pc>>

serve(cols) == db' = "open" /\ column_names' = cols

\* RocksDB opens every family that is named, and the default one.
asked(cols) == cols \cup {Default}
fits(cols) == families = asked(cols) \/ (families = {} /\ cols = {Default})
creatable(cols) == families \subseteq {Default} /\ ~fits(cols)

\* open_cf_descriptors succeeds.
open_existing(cols) ==
    /\ fits(cols) /\ serve(cols)
    /\ families' = asked(cols)
    /\ UNCHANGED <<data, damaged>>

\* It fails, and the families are created one by one: create_cf stops at one that
\* exists (the default family) or on an I/O error.
create_cfs(cols) ==
    /\ creatable(cols)
    /\ \E made \in SUBSET (cols \ {Default}) :
        /\ families' = {Default} \cup made
        /\ IF made = cols THEN serve(cols) ELSE UNCHANGED dbVars
    /\ UNCHANGED <<data, damaged>>

\* It fails for corruption, or because the families on disk are others: the
\* database is repaired and tried once more.
repair_and_open(cols, lost) ==
    /\ families # {} /\ ~creatable(cols)
    /\ families = asked(cols) => damaged
    /\ repair(lost)
    /\ IF families = asked(cols) THEN serve(cols) ELSE UNCHANGED dbVars
    /\ UNCHANGED families

open_primary(cols) ==
    /\ db = "down" /\ ~marked
    /\ \/ open_existing(cols)
       \/ create_cfs(cols)
       \/ \E lost \in SUBSET Keys : repair_and_open(cols, lost)
    /\ UNCHANGED <<marked, readers, txn, pc>>

\* The program ends or crashes; the write-ahead log keeps what was written.
Crash ==
    /\ db # "down"
    /\ db' = "down" /\ column_names' = {} /\ readers' = {}
    /\ txn' = [c \in Clients |-> <<>>]
    /\ pc' = [c \in Clients |-> "idle"]
    /\ UNCHANGED fileVars

Next ==
    \/ \E b \in Batches : discard(b) \/ commit(b)
    \/ \E b \in Batches, k \in Keys : delete(b, k) \/ \E v \in Values : put(b, k, v)
    \/ \E b, c \in Batches : to_txn(b, c)
    \/ \E s \in Stores, k \in Keys :
          store_delete(s, k) \/ \E v \in Values : store_put(s, k, v)
    \/ \E c \in Clients : write_opt(c) \/ write_fails(c)
    \/ \E col \in Columns : add_column(col) \/ remove_column(col)
    \/ \E lost \in SUBSET Keys : repair_marked(lost)
    \/ \E cols \in Configs : open_primary(cols)
    \/ close \/ Crash

Spec == Init /\ [][Next]_vars

-----------------------------------------------------------------------------
(* Properties.                                                             *)

TypeOK ==
    /\ families \subseteq Columns /\ column_names \subseteq Columns
    /\ data \in [Keys -> Stored]
    /\ damaged \in BOOLEAN /\ marked \in BOOLEAN
    /\ db \in {"down", "open", "closed"}
    /\ readers \subseteq Clients
    /\ txn \in [Clients -> Seq(Ops)]
    /\ pc \in [Clients -> {"idle", "writing", "panicked"}]

\* What implements AtomicBatch: a transaction stands for the last operation it
\* holds of each key.
Abstract == INSTANCE AtomicBatch WITH
    Handles <- Clients, Plain <- Stores,
    Groups <- {{k \in Keys : ColOf[k] = c} : c \in Columns},
    store <- data,
    staged <- [c \in Clients |-> Effect(txn[c])]

\* The write path of Database, with its lock, its failures, concurrent clients,
\* closing, columns, corruption and crashes, implements atomic batches: no
\* interleaving shows or leaves part of a commit.
ImplementsAtomicBatch == Abstract!Spec

\* A commit that takes no effect keeps its record: while a batch is inside write(), and
\* when write() returns, either its operations are recorded as they were when commit was
\* called, or all of them are in the store, whatever the other clients do meanwhile.
CommitKeepsRecord ==
    [][\A b \in Batches : pc[b] = "writing" /\ db' # "down" =>
          \/ txn'[b] = txn[b]
          \/ \A k \in Keys : Effect(txn[b])[k] \in {Untouched, data'[k]}]_vars

\* The column family handles write() has looked up stay valid until write_opt:
\* neither close() nor remove_column() gets in between.
HandlesStayValid == \A c \in Clients :
    pc[c] = "writing" => /\ db = "open" /\ c \in readers
                         /\ cf_found(txn[c])

\* get() passes its check of column_names only for a family that exists, so the
\* cf() after it never panics, whatever add_column and remove_column did before.
NamedColumnsExist == db = "open" => column_names \subseteq families

\* The columns a Database knows, the families on disk and the handles in use stay in
\* step through close, add_column, remove_column, crashes and reopening.
ColumnsInStep == TypeOK /\ HandlesStayValid /\ NamedColumnsExist

\* cf() expects "the specified column name is correct; qed".
ColumnCorrect == \A c \in Clients : pc[c] # "panicked"

\* has(): "Return whether the `key` is mapped to a `value`", so a read that does not
\* fail finds what the files hold.
ReadIsCurrent == db # "down" => \A k \in Keys : get(k) \in {Error, Found(data[k])}

\* "Open database file. Creates if it does not exist.": a database that is only
\* ever opened with one configuration can be opened with it.
StaysOpenable == db = "down" =>
    \E cols \in Configs : fits(cols) \/ creatable(cols)
=============================================================================
