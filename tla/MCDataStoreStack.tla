-------------------------- MODULE MCDataStoreStack --------------------------
(***************************************************************************)
(* Five stacks for TLC: two on the database whose prefixes begin with the  *)
(* same letters, one of them converting twice; a MemoryDataStore, which is *)
(* a SyncDataStore over a MapDataStore; a slow, failing map; and a dummy.  *)
(***************************************************************************)
EXTENDS DataStoreStack, TLC

Key == INSTANCE DataStoreKey

Layer(wrap) == [wrap |-> wrap, prefix |-> Key!SLASH]
Transform(p) == [wrap |-> "transform", prefix |-> p]

MCKeys == {Key!SLASH, <<"/", "a">>}
MCStacks == {"twice", "locked", "memory", "slow", "dummy"}
MCLayers == [
    twice |-> <<Transform(<<"/", "a">>), Layer("fail"), Transform(<<"/", ":">>)>>,
    locked |-> <<Layer("sync"), Layer("log"), Transform(<<"/", ":", "a">>)>>,
    memory |-> <<Layer("memory"), Layer("sync")>>,
    slow |-> <<Layer("fail"), Layer("log"), Layer("delay"), Transform(<<"/", "a">>)>>,
    dummy |-> <<Layer("log")>>]
MCBottom == [twice |-> "txn", locked |-> "txn", memory |-> "map", slow |-> "map",
             dummy |-> "dummy"]

\* The transforms are PrefixTransforms: the inner prefix comes first.
MCKeyTransform(prefix, key) == Key!convert_key(prefix, key)
Prefix == [twice |-> <<"/", ":", "/", "a">>, locked |-> <<"/", ":", "a">>,
           memory |-> Key!SLASH, slow |-> <<"/", "a">>, dummy |-> Key!SLASH]
MCPlace == [s \in MCStacks |-> [k \in MCKeys |-> Key!child(Prefix[s], k)]]

MCRefusals == {{}, {"put", "txn-put"}, {"delete", "txn-commit"}}
MCSymmetry == Permutations(Clients)
=============================================================================
