------------------------------ MODULE BasicTxn ------------------------------
(***************************************************************************)
(* Batches and transactions over data stores without batch support:        *)
(* BasicBatchDataStore and BasicTxnDataStore (ipfs/datastore/src/impls/    *)
(* basic.rs) over a store that is cloned into every handle.                *)
(*                                                                         *)
(* A clone of a SyncDataStore (and of a MemoryDataStore, which is one over *)
(* a MapDataStore) is another reference to the same store, locked for each *)
(* single operation; a clone of a bare MapDataStore is a copy.  commit()   *)
(* writes its operations one by one, in the order of a HashMap, and stops  *)
(* at the first error.                                                     *)
(***************************************************************************)
EXTENDS Naturals, FiniteSets

CONSTANTS
    Keys, Values, Absent, Untouched,
    Batches, Txns,   \* the BasicBatchDataStores and BasicTxnDataStores
    Base,            \* the store they were made from
    SharedClone,     \* clone() of the store is another reference to it
    MayFail          \* the store's put and delete may fail

Handles == Batches \cup Txns
Stored == Values \cup {Absent}
Places == Handles \cup {Base}

ASSUME BasicAssumption ==
    /\ Absent \notin Values /\ Untouched \notin Stored
    /\ Base \notin Handles /\ Batches \cap Txns = {}
    /\ SharedClone \in BOOLEAN /\ MayFail \in BOOLEAN

VARIABLES
    values,          \* the content of the store in each place
    ops,             \* the operations each handle has recorded
    pc,              \* "none" before it is made, "idle", "commit"
    todo,            \* keys the running commit has still to write
    \* history
    before,          \* the store a handle sees, as it was when the handle was
                     \* made or its record last became empty
    alone            \* nobody else has written to that store or to Base since

historyVars == <<before, alone>>
vars == <<values, ops, pc, todo, historyVars>>

Clean == [k \in Keys |-> Untouched]
Touched(o) == {k \in Keys : o[k] # Untouched}
Overlay(s, o) == [k \in Keys |-> IF o[k] = Untouched THEN s[k] ELSE o[k]]

\* Where a handle's `datastore` is.
home(h) == IF SharedClone THEN Base ELSE h

Init ==
    /\ values = [p \in Places |-> [k \in Keys |-> Absent]]
    /\ ops = [h \in Handles |-> Clean]
    /\ pc = [h \in Handles |-> "none"]
    /\ todo = [h \in Handles |-> {}]
    /\ before = [h \in Handles |-> [k \in Keys |-> Absent]]
    /\ alone = [h \in Handles |-> TRUE]

\* A write of key k to place p: a handle that did not make it is no longer alone.
written(p, k, v, who) ==
    /\ values' = [values EXCEPT ![p][k] = v]
    /\ alone' = [h \in Handles |-> alone[h] /\ (h = who \/ p \notin {home(h), Base})]

-----------------------------------------------------------------------------
\* BasicBatchDataStore::new and BasicTxnDataStore::new with a clone of the store.
new(h) ==
    /\ pc[h] = "none"
    /\ pc' = [pc EXCEPT ![h] = "idle"]
    /\ values' = [values EXCEPT ![home(h)] = values[Base]]
    /\ before' = [before EXCEPT ![h] = values[Base]]
    /\ alone' = [alone EXCEPT ![h] = TRUE]
    /\ UNCHANGED <<ops, todo>>

\* txn() of a batch: a transaction with clones of its store and operations.
txn(b, h) ==
    /\ pc[b] = "idle" /\ pc[h] = "none"
    /\ pc' = [pc EXCEPT ![h] = "idle"]
    /\ ops' = [ops EXCEPT ![h] = ops[b]]
    /\ values' = [values EXCEPT ![home(h)] = values[home(b)]]
    /\ before' = [before EXCEPT ![h] = values[home(b)]]
    /\ alone' = [alone EXCEPT ![h] = TRUE]
    /\ UNCHANGED todo

put(h, k, v) ==
    /\ pc[h] = "idle"
    /\ ops' = [ops EXCEPT ![h][k] = v]
    /\ UNCHANGED <<values, pc, todo, historyVars>>
delete(h, k) ==
    /\ pc[h] = "idle"
    /\ ops' = [ops EXCEPT ![h][k] = Absent]
    /\ UNCHANGED <<values, pc, todo, historyVars>>

\* The keys a commit goes through.  (The mutant: only the keys that are not there yet,
\* as if a failed commit had been taken back.)
pending_Fresh(h) == {k \in Touched(ops[h]) : values[home(h)][k] = Absent}
pending(h) == Touched(ops[h])

commit(h) ==
    /\ pc[h] = "idle"
    /\ pc' = [pc EXCEPT ![h] = "commit"]
    /\ todo' = [todo EXCEPT ![h] = pending(h)]
    /\ UNCHANGED <<values, ops, historyVars>>

\* One turn of the loop, with the lock of the SyncDataStore.
commit_op(h, k) ==
    /\ pc[h] = "commit" /\ k \in todo[h]
    /\ written(home(h), k, ops[h][k], h)
    /\ todo' = [todo EXCEPT ![h] = @ \ {k}]
    /\ UNCHANGED <<ops, pc, before>>

\* The `?` of the loop: the operations stay recorded.  (The mutant clears them.)
commit_fails_Clears(h) ==
    /\ MayFail /\ pc[h] = "commit" /\ todo[h] # {}
    /\ pc' = [pc EXCEPT ![h] = "idle"]
    /\ todo' = [todo EXCEPT ![h] = {}]
    /\ ops' = [ops EXCEPT ![h] = Clean]
    /\ UNCHANGED <<values, historyVars>>
commit_fails(h) ==
    /\ MayFail /\ pc[h] = "commit" /\ todo[h] # {}
    /\ pc' = [pc EXCEPT ![h] = "idle"]
    /\ todo' = [todo EXCEPT ![h] = {}]
    /\ UNCHANGED <<values, ops, historyVars>>

\* ops.clear()
commit_ok(h) ==
    /\ pc[h] = "commit" /\ todo[h] = {}
    /\ pc' = [pc EXCEPT ![h] = "idle"]
    /\ ops' = [ops EXCEPT ![h] = Clean]
    /\ before' = [before EXCEPT ![h] = values[home(h)]]
    /\ alone' = [alone EXCEPT ![h] = TRUE]
    /\ UNCHANGED <<values, todo>>

discard(h) ==
    /\ pc[h] = "idle" /\ ops[h] # Clean
    /\ ops' = [ops EXCEPT ![h] = Clean]
    /\ before' = [before EXCEPT ![h] = values[home(h)]]
    /\ alone' = [alone EXCEPT ![h] = TRUE]
    /\ UNCHANGED <<values, pc, todo>>

\* put and delete of the store the handles were made from.
base_put(k, v) ==
    /\ written(Base, k, v, Base)
    /\ UNCHANGED <<ops, pc, todo, before>>

Next ==
    \/ \E h \in Handles : new(h) \/ commit(h) \/ commit_ok(h) \/ commit_fails(h)
    \/ \E h \in Txns : discard(h) \/ \E b \in Batches : txn(b, h)
    \/ \E h \in Handles, k \in Keys :
          delete(h, k) \/ commit_op(h, k) \/ \E v \in Values : put(h, k, v)
    \/ \E k \in Keys, v \in Stored : base_put(k, v)

Spec == Init /\ [][Next]_vars

-----------------------------------------------------------------------------
TypeOK ==
    /\ values \in [Places -> [Keys -> Stored]]
    /\ ops \in [Handles -> [Keys -> Stored \cup {Untouched}]]
    /\ pc \in [Handles -> {"none", "idle", "commit"}]
    /\ todo \in [Handles -> SUBSET Keys]

\* However often commit() failed half way and was tried again, with operations
\* added in between: when it succeeds and nobody else wrote, the store is what it
\* was before the first attempt with every recorded operation applied.
RetryCompletes == [][\A h \in Handles :
    commit_ok(h) /\ alone[h] =>
        values[home(h)] = Overlay(before[h], ops[h])]_vars

\* While nobody else writes, a key whose value is not the one it had before the
\* first attempt is still recorded: a commit that fails half way forgets nothing it
\* has written, and a commit touches no other key.
KeepsWhatItWrote == \A h \in Handles : pc[h] # "none" /\ alone[h] =>
    \A k \in Keys : values[home(h)][k] # before[h][k] => k \in Touched(ops[h])

\* "Discard throws away changes recorded in a transaction without committing them
\* to the underlying Datastore."
DiscardThrowsAway == [][\A h \in Txns :
    discard(h) /\ alone[h] => values[home(h)] = before[h]]_vars

\* commit: "Commit all update operations", to the "underlying Datastore": the store
\* the transaction was made from.
CommitReachesBase == [][\A h \in Handles, k \in Keys :
    commit_ok(h) /\ ops[h][k] # Untouched /\ alone[h] =>
        values[Base][k] = ops[h][k]]_vars
=============================================================================
