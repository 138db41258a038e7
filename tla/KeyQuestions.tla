---------------------------- MODULE KeyQuestions ----------------------------
(***************************************************************************)
(* Questions about the keys of the data stores, and what their answers     *)
(* must be.                                                                *)
(***************************************************************************)
EXTENDS Inquiry, Integers, Sequences

Key == INSTANCE DataStoreKey

\* Keys: clean() leaves them as they are, as it does what it made itself.
IsKey(k) == k \in Key!Str /\ Key!new(k) = k

\* Questions have arguments of the operations they are put to.
ASSUME KeyQuestionsAssumption ==
    /\ \A q \in Questions("making keys") : q[1] \in Key!Str /\ IsKey(q[2]) /\ IsKey(q[3])
    /\ \A q \in Questions("keys") : IsKey(q[1]) /\ IsKey(q[2]) /\ \A k \in q[3] : IsKey(k)
    /\ \A q \in Questions("prefixes") : IsKey(q[1]) /\ IsKey(q[2]) /\ IsKey(q[3])

\* Every operation on keys makes a clean key and never panics; ancestry, order, child
\* and parent, prefix queries and prefix transforms agree on one tree (Key,
\* FilterKeyPrefix, PrefixTransform).
KeysFormTree ==
    /\ Asked("making keys") => Key!MakesKeys(probe[1], probe[2], probe[3])
    /\ Asked("keys") => /\ Key!AncestryIsTree(probe[1], probe[2])
                        /\ Key!OrderFollowsTree(probe[1], probe[2], probe[3])
                        /\ Key!ChildAppends(probe[1], probe[2])
                        /\ Key!PrefixSelects(probe[1], probe[2])
    /\ Asked("prefixes") => Key!PrefixInvertible(probe[1], probe[2], probe[3])
=============================================================================
