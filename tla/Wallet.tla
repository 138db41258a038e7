------------------------------- MODULE Wallet -------------------------------
(***************************************************************************)
(* The wallet (wallet/src/wallet.rs): keys in memory, and a key store that *)
(* outlives the process and holds a key info for each "wallet-" address    *)
(* and one under "default".  Every operation runs under the wallet's lock; *)
(* an operation of the key store may fail, without effect, and the caller  *)
(* then returns with what it has done so far.                              *)
(*                                                                         *)
(* A key and its address determine each other: an address stands for both. *)
(***************************************************************************)
EXTENDS Naturals

CONSTANTS
    Addrs, NoAddr,
    Given,           \* the keys a process may start with (new_with_keys; {}: new)
    MayFail          \* operations of the key store may fail

VARIABLES
    keys,            \* the keys in memory
    keystore,        \* the addresses with a "wallet-" entry in the key store
    default,         \* the address of the key under "default"
    \* history
    promised,        \* addresses that import and generate_key returned
    supplied,        \* addresses of the keys given to new_with_keys
    chosen           \* what should be the default

historyVars == <<promised, supplied, chosen>>
vars == <<keys, keystore, default, historyVars>>

Init ==
    /\ keystore = {} /\ default = NoAddr
    /\ keys \in Given
    /\ promised = {} /\ supplied = keys /\ chosen = NoAddr

\* WalletImpl::new, new_with_keys of a new process over the same key store.
\* (The mutant loads the keys of all its entries, the default one included.)
restart_Loads ==
    /\ keys' = keystore \cup {default}
    /\ UNCHANGED <<keystore, default, historyVars>>
restart ==
    /\ keys' \in Given
    /\ supplied' = supplied \cup keys'
    /\ UNCHANGED <<keystore, default, promised, chosen>>

\* sign and export look in memory only.
find_key(a) == a \in keys
\* list_addrs
list_addrs == keystore

\* import(): the key store first, then memory.  (The mutant has them in the other
\* order and ignores the failure.)
import_MemFirst(a) ==
    /\ keys' = keys \cup {a}
    /\ promised' = promised \cup {a}
    /\ keystore' = keystore \cup {a} \/ (MayFail /\ UNCHANGED keystore)
    /\ UNCHANGED <<default, supplied, chosen>>
import(a) ==
    /\ keys' = keys \cup {a}
    /\ promised' = promised \cup {a}
    /\ keystore' = keystore \cup {a}
    /\ UNCHANGED <<default, supplied, chosen>>

\* set_default(): the old entry is deleted, then the new one is put.  With a put
\* that fails there is none; an address that is not in memory panics.
CanSetDefault_Any(a) == TRUE
CanSetDefault(a) == a \in keys
set_default(a) ==
    /\ CanSetDefault(a)
    /\ \/ default' = a /\ chosen' = a
       \/ MayFail /\ default' = NoAddr /\ UNCHANGED chosen
    /\ UNCHANGED <<keys, keystore, promised, supplied>>

\* generate_key() with a fresh key: the entry, memory, and the default if there is
\* none; when reading or writing the default fails it returns the error.
Fresh(a) == a \notin keystore \cup keys \cup supplied
becomes_default_Always(a) == TRUE
becomes_default(a) == default = NoAddr
generate_key(a) ==
    /\ Fresh(a)
    /\ keystore' = keystore \cup {a}
    /\ keys' = keys \cup {a}
    /\ \/ /\ becomes_default(a)
          /\ default' = a
          /\ chosen' = IF default = NoAddr THEN a ELSE chosen
          /\ promised' = promised \cup {a}
       \/ /\ ~becomes_default(a)
          /\ promised' = promised \cup {a}
          /\ UNCHANGED <<default, chosen>>
       \/ /\ MayFail
          /\ UNCHANGED <<default, chosen, promised>>
    /\ UNCHANGED supplied

Next == restart \/ \E a \in Addrs : import(a) \/ set_default(a) \/ generate_key(a)

Spec == Init /\ [][Next]_vars

-----------------------------------------------------------------------------
TypeOK ==
    /\ keys \subseteq Addrs /\ keystore \subseteq Addrs
    /\ default \in Addrs \cup {NoAddr}
    /\ promised \subseteq Addrs /\ supplied \subseteq Addrs
    /\ chosen \in Addrs \cup {NoAddr}

\* An address that import or generate_key returned is in the key store for good:
\* later failures and restarts do not lose it.
PromisedStored == promised \subseteq keystore

\* Whatever fails and however often the process restarts, the default key is one
\* that list_addrs lists or that a process was started with.
DefaultBacked == default # NoAddr => default \in list_addrs \cup supplied

\* The default is the one chosen last, by set_default or as the first key when there
\* was none, or there is none because a set_default failed half way; generate_key
\* and import never replace it.
DefaultIsChosen == default \in {chosen, NoAddr} /\ (~MayFail => default = chosen)

\* The default is what was chosen and is backed by a key, through failures of the key
\* store between the two steps of set_default and through restarts.
DefaultKept == TypeOK /\ DefaultBacked /\ DefaultIsChosen

\* sign: "Sign the message with the private key found by the given address in the
\* key store."
SignsStored == \A a \in keystore : find_key(a)

\* set_default: "no `wallet-` prefix key in the keystore" is what its panic says:
\* with one in the key store it does not panic.
DefaultForStored == \A a \in keystore : CanSetDefault(a)
=============================================================================
