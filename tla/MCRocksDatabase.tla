-------------------------- MODULE MCRocksDatabase --------------------------
(* Instances of RocksDatabase: keys and the columns they live in.           *)
EXTENDS RocksDatabase

CONSTANTS k1, k2, default, a, s1, b1, b2

\* Two keys of the default column, or one there and one in another column.
DefaultKeys == [k \in {k1, k2} |-> default]
KeysInTwo == [k \in {k1, k2} |-> IF k = k2 THEN a ELSE default]

\* The operations a batch may record: one batch beside a plain data store, two
\* batches, one of which may be the transaction of the other.
OneBatch == [x \in {b1} |-> 2]
TwoBatches == [x \in {b1, b2} |-> 2]
=============================================================================
