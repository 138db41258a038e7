---------------------------- MODULE NetworkParams ----------------------------
(***************************************************************************)
(* The parameters of the network (params): a mutable static that a Once    *)
(* initialises, read by every thread.                                      *)
(***************************************************************************)
EXTENDS Integers, FiniteSets

CONSTANTS Threads

VARIABLES
    PARAMS,     \* the static: "zeros", or the network it was initialised for
    INIT,       \* the Once: "incomplete", "running", "complete" or "poisoned"
    doing,      \* what each thread is doing: [at, network, read]
    given       \* what params() has given to each thread

vars == <<PARAMS, INIT, doing, given>>

Networks == {"Mainnet", "Testnet", "Dev"}
Idle == [at |-> "idle", network |-> "Testnet", read |-> FALSE]

Init == /\ PARAMS = "zeros"
        /\ INIT = "incomplete"
        /\ doing = [t \in Threads |-> Idle]
        /\ given = [t \in Threads |-> {}]

Enter(t, network, read) ==
    /\ doing[t] = Idle
    /\ doing' = [doing EXCEPT ![t] = [at |-> "call_once", network |-> network, read |-> read]]
    /\ UNCHANGED <<PARAMS, INIT, given>>

\* (The mutant assigns without the Once.)
init_params_NoOnce(t, network) ==
    /\ doing[t] = Idle /\ network # "Mainnet"
    /\ PARAMS' = network
    /\ UNCHANGED <<INIT, doing, given>>
init_params(t, network) == Enter(t, network, FALSE)

\* Initialises for the test network if nobody has initialised yet, then reads.
params(t) == Enter(t, "Testnet", TRUE)

\* Once::call_once: the first runs the closure, others wait until it has ended, and
\* after a panic in it everyone panics.
call_once(t) ==
    /\ doing[t].at = "call_once" /\ INIT = "incomplete"
    /\ INIT' = "running"
    /\ doing' = [doing EXCEPT ![t].at = "init"]
    /\ UNCHANGED <<PARAMS, given>>

\* Params::init: there is none for the main network.
init(t) ==
    /\ doing[t].at = "init"
    /\ IF doing[t].network = "Mainnet"
       THEN INIT' = "poisoned" /\ doing' = [doing EXCEPT ![t].at = "panicked"] /\ UNCHANGED PARAMS
       ELSE /\ INIT' = "complete" /\ doing' = [doing EXCEPT ![t].at = "after"]
            /\ PARAMS' = doing[t].network
    /\ UNCHANGED given

after_once(t) ==
    /\ doing[t].at = "call_once" /\ INIT \in {"complete", "poisoned"}
    /\ doing' = [doing EXCEPT ![t].at = IF INIT = "complete" THEN "after" ELSE "panicked"]
    /\ UNCHANGED <<PARAMS, INIT, given>>

return(t) ==
    /\ doing[t].at = "after"
    /\ given' = [given EXCEPT ![t] = IF doing[t].read THEN @ \cup {PARAMS} ELSE @]
    /\ doing' = [doing EXCEPT ![t] = Idle]
    /\ UNCHANGED <<PARAMS, INIT>>

Next == \E t \in Threads :
            \/ params(t) \/ \E n \in Networks : init_params(t, n)
            \/ call_once(t) \/ init(t) \/ after_once(t) \/ return(t)

Spec == Init /\ [][Next]_vars

-----------------------------------------------------------------------------

\* Every thread that reads the parameters reads the same ones, always, and never the
\* zeros the static starts with: the first initialisation wins.
ParamsAgree == \A t, u \in Threads : \A p \in given[t], q \in given[u] : p = q /\ p # "zeros"
=============================================================================
