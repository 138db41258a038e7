--------------------------- MODULE DataStoreStack ---------------------------
(***************************************************************************)
(* Data stores wrapped in data stores (ipfs/datastore/src/impls): Log,     *)
(* Fail, Transform, Sync and Delay in any order over a store at the bottom,*)
(* which is a MapDataStore, a DummyDataStore, or a TxnDataStore.  Clients  *)
(* hold handles on such stacks, make batches and transactions of them and  *)
(* call every operation of the traits through them.                        *)
(*                                                                         *)
(* No type of the repository is both a DataStore and a DataStoreTxn, as    *)
(* the batches and transactions of the wrappers want it; the one at the    *)
(* bottom here is what store/mod.rs asks of it: its clones share a         *)
(* database, each with a record of its own.                                *)
(***************************************************************************)
EXTENDS Naturals, Sequences

CONSTANTS
    Keys,            \* the keys the clients use
    Values, Absent, Untouched,
    Clients,
    Stacks,          \* the stacks that can be built
    Layers,          \* of each stack, the wrappers from the outside in
    Bottom,          \* of each stack, "map", "dummy" or "txn"
    Place,           \* of each stack, where each of the keys belongs
    KeyTransform(_, _),  \* convert_key of the KeyTransform with this prefix
    Db,              \* the database of the TxnDataStores
    Refusals         \* the sets of strings a fail_fn may refuse

Stored == Values \cup {Absent}
Recorded == Stored \cup {Untouched}
Cells == Clients     \* the stores at the bottom, named for who made them
Homes == Cells \cup {Db}

\* Every place a key may reach.
Places == {Place[s][k] : s \in Stacks, k \in Keys} \cup Keys

\* What is left of a key after these layers of a stack have converted it, the outer ones
\* first.
Through(s, converting, k) ==
    LET key[i \in 0 .. Len(Layers[s])] ==
          IF i = 0 THEN k
          ELSE IF i \in converting THEN KeyTransform(Layers[s][i].prefix, key[i - 1])
          ELSE key[i - 1]
    IN  key[Len(Layers[s])]

\* The traits let batches and transactions be made through these wrappers only.  A key
\* belongs where all the transforms of its stack take it, and stacks over one database
\* are given namespaces that do not overlap.
ASSUME StackAssumption ==
    /\ Absent \notin Values /\ Untouched \notin Stored /\ Db \notin Clients
    /\ \A s \in Stacks :
        /\ DOMAIN Layers[s] # {}
        /\ Bottom[s] \in {"map", "dummy", "txn"}
        /\ \A i \in DOMAIN Layers[s] : Layers[s][i].wrap \in
              {"log", "fail", "transform", "sync"}
                  \cup IF Bottom[s] = "txn" THEN {} ELSE {"delay", "memory"}
        /\ \A k \in Keys :
              Through(s, {i \in DOMAIN Layers[s] : Layers[s][i].wrap = "transform"}, k) = Place[s][k]
    /\ \A s, t \in Stacks : s = t \/ (Bottom[s] = "txn" /\ Bottom[t] = "txn") =>
          \A k, l \in Keys : Place[s][k] = Place[t][l] => s = t /\ k = l

VARIABLES
    handle,          \* the data store each client has, or NoHandle
    content,         \* of each MapDataStore and of the database
    record,          \* what each TxnDataStore has recorded
    \* history
    asked,           \* what the clients of each cell put and have not committed
    seen             \* what they committed last

historyVars == <<asked, seen>>
vars == <<handle, content, record, historyVars>>

NoHandle == [kind |-> "none"]
Clean == [p \in Places |-> Untouched]
Empty == [p \in Places |-> Absent]
NothingAsked == [k \in Keys |-> Untouched]
NothingSeen == [s \in Stacks |-> [k \in Keys |-> Absent]]

Init ==
    /\ handle = [c \in Clients |-> NoHandle]
    /\ content = [h \in Homes |-> Empty]
    /\ record = [c \in Cells |-> Clean]
    /\ asked = [c \in Cells |-> NothingAsked]
    /\ seen = [h \in Homes |-> NothingSeen]

-----------------------------------------------------------------------------
(* The wrappers.  Each is the operations it has, and for each of them      *)
(* whether the key is converted and with which string fail_fn is asked     *)
(* before the same operation of the store below is called.                 *)

KeyOps == {"sync", "get", "has", "size", "put", "delete"}
ExtendedOps == {"check", "collect_garbage", "disk_usage", "scrub"}
StoreOps == KeyOps \cup ExtendedOps \cup {"close"}
BatchOps == StoreOps \cup {"commit"}
TxnOps == BatchOps \cup {"discard"}

NoTag == "not asked"
Forward(ops) == [op \in ops |-> [converts |-> FALSE, tag |-> NoTag]]

LogDataStore == Forward(StoreOps \cup {"batch"})
LogBatchDataStore == Forward(BatchOps \cup {"txn"})
LogTxnDataStore == Forward(TxnOps \cup {"txn"})

SyncDataStore == Forward(StoreOps \cup {"batch", "txn"})
SyncBatchDataStore == Forward(BatchOps \cup {"txn"})
SyncTxnDataStore == Forward(TxnOps)

DelayDataStore == Forward(KeyOps \cup {"close", "disk_usage"})
MemoryDataStore == Forward(KeyOps \cup {"close"})

\* (The mutant hands the key of a delete down as it is.)
Converting_AllButDelete(ops) ==
    [op \in ops |-> [converts |-> op \in KeyOps \ {"delete"}, tag |-> NoTag]]
Converting(ops) == [op \in ops |-> [converts |-> op \in KeyOps, tag |-> NoTag]]

TransformDataStore == Converting(StoreOps \cup {"batch"})
TransformBatchDataStore == Converting(BatchOps \cup {"txn"})
TransformTxnDataStore == Converting(TxnOps \cup {"txn"})

\* get asks fail_fn with the string of put, and close, batch and txn do not ask.
Asking(ops, tags) == [op \in ops |-> [converts |-> FALSE, tag |->
    IF op = "get" THEN tags["put"]
    ELSE IF op \in DOMAIN tags THEN tags[op]
    ELSE IF op \in ExtendedOps THEN op
    ELSE NoTag]]

FailDataStore == Asking(StoreOps \cup {"batch", "txn"},
    [sync |-> "sync", has |-> "has", size |-> "size", put |-> "put", delete |-> "delete"])
FailBatchDataStore == Asking(BatchOps \cup {"txn"},
    [sync |-> "batch-sync", has |-> "batch-has", size |-> "batch-size", put |-> "batch-put",
     delete |-> "batch-delete", commit |-> "batch-commit"])
FailTxnDataStore == Asking(TxnOps,
    [sync |-> "txn-sync", has |-> "txn-has", size |-> "txn-size", put |-> "txn-put",
     delete |-> "txn-delete", commit |-> "txn-commit", discard |-> "txn-discard"])

Wrappers == [
    log |-> [store |-> LogDataStore, batch |-> LogBatchDataStore, txn |-> LogTxnDataStore],
    fail |-> [store |-> FailDataStore, batch |-> FailBatchDataStore, txn |-> FailTxnDataStore],
    transform |-> [store |-> TransformDataStore, batch |-> TransformBatchDataStore,
                   txn |-> TransformTxnDataStore],
    sync |-> [store |-> SyncDataStore, batch |-> SyncBatchDataStore, txn |-> SyncTxnDataStore],
    delay |-> [store |-> DelayDataStore],
    memory |-> [store |-> MemoryDataStore]]

-----------------------------------------------------------------------------
(* The stores at the bottom.  A put of Absent is a delete.                 *)

\* (The mutant puts nothing over a value.)
MapDataStore_KeepsOld(cell, p, v) ==
    /\ content' = [content EXCEPT ![cell][p] = IF @ = Absent THEN v ELSE @]
    /\ UNCHANGED record
MapDataStore(cell, p, v) ==
    /\ content' = [content EXCEPT ![cell][p] = v]
    /\ UNCHANGED record
DummyDataStore(cell, p, v) == UNCHANGED <<content, record>>
TxnDataStore(cell, p, v) ==
    /\ record' = [record EXCEPT ![cell][p] = v]
    /\ UNCHANGED content

\* A clone of a stack: an Arc in it is another reference to what is below, anything
\* else is copied.
IsShared(s) == \E i \in DOMAIN Layers[s] : Layers[s][i].wrap = "sync"

-----------------------------------------------------------------------------
(* What a client does.                                                     *)

Has(c) == handle[c] # NoHandle
Fresh(c) == handle[c] = NoHandle /\ \A d \in Clients : Has(d) => handle[d].cell # c

\* Wrappers put around a new store.
new_stack(c, s) ==
    /\ Fresh(c)
    /\ handle' = [handle EXCEPT ![c] = [kind |-> "store", stack |-> s, cell |-> c]]
    /\ UNCHANGED <<content, record, historyVars>>

\* Below the outermost wrapper, the wrappers of a TxnDataStore are those of
\* transactions: the bounds of the traits ask for it.
LayerOf(s, kind, i) ==
    Wrappers[Layers[s][i].wrap][IF i = 1 THEN kind ELSE IF Bottom[s] = "txn" THEN "txn" ELSE "store"]
KindsOf(s) == IF Bottom[s] = "txn" THEN {"store", "batch", "txn"} ELSE {"store"}

\* The operations a handle has.
OpsOf == [s \in Stacks |-> [kind \in KindsOf(s) |->
    {op \in TxnOps : \A i \in DOMAIN Layers[s] : op \in DOMAIN LayerOf(s, kind, i)}]]
Supports(c, op) == Has(c) /\ op \in OpsOf[handle[c].stack][handle[c].kind]

\* clone, ToBatch::batch and ToTxn::txn: a clone of what is below the outermost
\* wrapper, in a wrapper of the new kind.
clone_as(c, d, kind) ==
    /\ Fresh(d)
    /\ LET from == handle[c].cell
           to == IF IsShared(handle[c].stack) THEN from ELSE d
       IN  /\ handle' = [handle EXCEPT ![d] = [handle[c] EXCEPT !.kind = kind, !.cell = to]]
           /\ content' = [content EXCEPT ![to] = content[from]]
           /\ record' = [record EXCEPT ![to] = record[from]]
           /\ asked' = [asked EXCEPT ![to] = asked[from]]
           /\ seen' = [seen EXCEPT ![to] = seen[from]]
clone(c, d) == Has(c) /\ clone_as(c, d, handle[c].kind)
MakesFrom(c, op) ==
    /\ Has(c) /\ Bottom[handle[c].stack] = "txn"
    /\ op \in DOMAIN LayerOf(handle[c].stack, handle[c].kind, 1)
batch(c, d) == MakesFrom(c, "batch") /\ clone_as(c, d, "batch")
txn(c, d) == MakesFrom(c, "txn") /\ clone_as(c, d, "txn")

\* Nothing recorded any more.
cleared(cell) ==
    /\ record' = [record EXCEPT ![cell] = Clean]
    /\ asked' = [asked EXCEPT ![cell] = NothingAsked]

\* A handle is dropped, and with the last one of a store the store.
drop(c) ==
    /\ Has(c)
    /\ handle' = [handle EXCEPT ![c] = NoHandle]
    /\ LET cell == handle[c].cell IN
        IF \E d \in Clients \ {c} : Has(d) /\ handle[d].cell = cell
        THEN UNCHANGED <<content, record, historyVars>>
        ELSE /\ content' = [content EXCEPT ![cell] = Empty]
             /\ seen' = [seen EXCEPT ![cell] = NothingSeen]
             /\ cleared(cell)

\* The key that reaches the bottom.
KeyBelow == [s \in Stacks |-> [kind \in KindsOf(s) |-> [op \in OpsOf[s][kind] |->
    [k \in Keys |-> Through(s, {i \in DOMAIN Layers[s] : LayerOf(s, kind, i)[op].converts}, k)]]]]
Below(c, op, k) == KeyBelow[handle[c].stack][handle[c].kind][op][k]

\* Some FailDataStore on the way refuses, given what its fail_fn refuses.
Refused(c, op, no) == \E i \in DOMAIN Layers[handle[c].stack] :
    LayerOf(handle[c].stack, handle[c].kind, i)[op].tag \in no

\* Every FailDataStore asks before it calls.  (The mutant calls first.)
Reaches_CallsFirst(c, op, no) == TRUE
Reaches(c, op, no) == ~Refused(c, op, no)

bottom_write(s, cell, p, v) ==
    CASE Bottom[s] = "map" -> MapDataStore(cell, p, v)
      [] Bottom[s] = "dummy" -> DummyDataStore(cell, p, v)
      [] Bottom[s] = "txn" -> TxnDataStore(cell, p, v)

\* What a client that was told Ok expects of a write.
expected(s, cell, k, v) ==
    CASE Bottom[s] = "map" -> seen' = [seen EXCEPT ![cell][s][k] = v] /\ UNCHANGED asked
      [] Bottom[s] = "dummy" -> UNCHANGED historyVars
      [] Bottom[s] = "txn" -> asked' = [asked EXCEPT ![cell][k] = v] /\ UNCHANGED seen

\* put and delete.
write(c, op, k, v) ==
    /\ Supports(c, op)
    /\ \E no \in Refusals :
        /\ IF Reaches(c, op, no)
           THEN bottom_write(handle[c].stack, handle[c].cell, Below(c, op, k), v)
           ELSE UNCHANGED <<content, record>>
        /\ IF Refused(c, op, no) THEN UNCHANGED historyVars
           ELSE expected(handle[c].stack, handle[c].cell, k, v)
    /\ UNCHANGED handle
put(c, k, v) == write(c, "put", k, v)
delete(c, k) == write(c, "delete", k, Absent)

\* get, which changes nothing, as has and size: the value, or NotFound.
get(c, k) == LET s == handle[c].stack IN
    IF Bottom[s] = "dummy" THEN Absent
    ELSE content[IF Bottom[s] = "map" THEN handle[c].cell ELSE Db][Below(c, "get", k)]

Overlay(old, new_values) == [x \in DOMAIN old |->
    IF new_values[x] = Untouched THEN old[x] ELSE new_values[x]]

\* A commit that is refused, or fails below, changes nothing.
commit(c) ==
    /\ Supports(c, "commit")
    /\ \E no \in Refusals : ~Refused(c, "commit", no)
    /\ LET cell == handle[c].cell IN
        /\ content' = [content EXCEPT ![Db] = Overlay(@, record[cell])]
        /\ seen' = [seen EXCEPT ![Db][handle[c].stack] = Overlay(@, asked[cell])]
        /\ cleared(cell)
    /\ UNCHANGED handle

discard(c) ==
    /\ Supports(c, "discard")
    /\ \E no \in Refusals : ~Refused(c, "discard", no)
    /\ cleared(handle[c].cell)
    /\ UNCHANGED <<handle, content, seen>>

\* The calls that only read or are passed on to a store that ignores them change nothing.
Next ==
    \/ \E c \in Clients, s \in Stacks : new_stack(c, s)
    \/ \E c, d \in Clients : clone(c, d) \/ batch(c, d) \/ txn(c, d)
    \/ \E c \in Clients : drop(c) \/ commit(c) \/ discard(c)
    \/ \E c \in Clients, k \in Keys : delete(c, k) \/ \E v \in Values : put(c, k, v)

Spec == Init /\ [][Next]_vars

-----------------------------------------------------------------------------
(* Properties.                                                             *)

TypeOK ==
    /\ content \in [Homes -> [Places -> Stored]]
    /\ record \in [Cells -> [Places -> Recorded]]
    /\ \A c \in Clients : Has(c) =>
          handle[c].kind \in {"store", "batch", "txn"} /\ handle[c].cell \in Cells

\* Each stack is a store of its own: through any order of wrappers, batches made from
\* batches and handles dropped in between, a key reads as its clients last wrote or
\* committed it, whatever was done to other stacks on the same database.
ViewsKeepApart == \A c \in Clients : Has(c) =>
    LET s == handle[c].stack
        home == IF Bottom[s] = "map" THEN handle[c].cell ELSE Db
    IN  \A k \in Keys : get(c, k) = seen[home][s][k]

\* What is recorded below the wrappers is what was asked for above them, each key at
\* its place, and nothing else: a batch or transaction commits no key that its
\* clients did not write.
RecordIsAsked == TypeOK /\ \A c \in Clients : Has(c) =>
    LET s == handle[c].stack
    IN  /\ \A k \in Keys : record[handle[c].cell][Place[s][k]] = asked[handle[c].cell][k]
        /\ \A p \in Places \ {Place[s][k] : k \in Keys} :
              record[handle[c].cell][p] = Untouched
=============================================================================
