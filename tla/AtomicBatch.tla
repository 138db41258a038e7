---------------------------- MODULE AtomicBatch ----------------------------
(***************************************************************************)
(* What the traits of ipfs/datastore/src/store/mod.rs promise of a batch or *)
(* a transaction: put and delete only record, commit makes every recorded  *)
(* operation visible in one step, discard throws the record away, and what *)
(* was committed outlives a crash of the program.                          *)
(***************************************************************************)
CONSTANTS
    Keys,
    Values,
    Absent,          \* the value of a key that is not in the store
    Untouched,       \* what a batch records of a key it leaves alone
    Groups,          \* the sets of keys that can be dropped together
    Handles,         \* batches, transactions, and the put and delete of a plain
                     \* data store, which are transactions of one operation
    Plain            \* the plain data stores among them

VARIABLES
    store,           \* the value of every key
    staged,          \* what each handle has recorded
    damaged          \* the files are corrupted: a repair may lose entries

vars == <<store, staged, damaged>>

Stored == Values \cup {Absent}
Clean == [k \in Keys |-> Untouched]
Overlay(s, d) == [k \in Keys |-> IF d[k] = Untouched THEN s[k] ELSE d[k]]

Init ==
    /\ store = [k \in Keys |-> Absent]
    /\ staged = [b \in Handles |-> Clean]
    /\ damaged = FALSE

-----------------------------------------------------------------------------
\* DataStoreWrite of a batch: put records a value, delete records Absent.
Record(b, k, v) ==
    /\ staged' = [staged EXCEPT ![b][k] = v]
    /\ UNCHANGED <<store, damaged>>

\* DataStoreBatch::commit: all update operations.
Commit(b) ==
    /\ store' = Overlay(store, staged[b])
    /\ staged' = [staged EXCEPT ![b] = Clean]
    /\ UNCHANGED damaged

\* DataStoreTxn::discard
Discard(b) ==
    /\ staged' = [staged EXCEPT ![b] = Clean]
    /\ UNCHANGED <<store, damaged>>

\* ToTxn::txn of a batch: the transaction starts with a copy of its record.
Fork(b, c) ==
    /\ staged' = [staged EXCEPT ![c] = staged[b]]
    /\ UNCHANGED <<store, damaged>>

\* A column is removed with all its keys.
Drop(gone) ==
    /\ store' = [k \in Keys |-> IF k \in gone THEN Absent ELSE store[k]]
    /\ UNCHANGED <<staged, damaged>>

\* A commit fails, perhaps because the files are corrupted.  It has no effect on
\* the store; a batch keeps its record, so that commit can be tried again, and the
\* operation of a plain put or delete is gone.
Fail(b) ==
    /\ damaged' \in {damaged, TRUE}
    /\ staged' = IF b \in Plain THEN [staged EXCEPT ![b] = Clean] ELSE staged
    /\ UNCHANGED store

\* A repair loses entries only of corrupted files.
Repair(lost) ==
    /\ damaged \/ lost = {}
    /\ damaged' = FALSE
    /\ store' = [k \in Keys |-> IF k \in lost THEN Absent ELSE store[k]]
    /\ UNCHANGED staged

\* The program crashes: the handles are gone, the store is not.
Crash ==
    /\ staged' = [b \in Handles |-> Clean]
    /\ UNCHANGED <<store, damaged>>

Next ==
    \/ \E b \in Handles, k \in Keys, v \in Stored : Record(b, k, v)
    \/ \E b \in Handles : Commit(b) \/ Discard(b) \/ Fail(b)
    \/ \E b, c \in Handles : Fork(b, c)
    \/ \E S \in Groups : Drop(S)
    \/ \E S \in SUBSET Keys : Repair(S)
    \/ Crash

Spec == Init /\ [][Next]_vars
=============================================================================
