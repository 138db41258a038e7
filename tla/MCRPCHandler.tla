---------------------------- MODULE MCRPCHandler ----------------------------
(* Instances of RPCHandler: which requests the application sends, under     *)
(* which ids.                                                               *)
EXTENDS RPCHandler

CONSTANTS r1, r2, r3

\* A status handshake, a block sync and a goodbye.
MixedKindOf == [r \in {r1, r2, r3} |->
    IF r = r1 THEN "Status" ELSE IF r = r2 THEN "BlockSync" ELSE "Goodbye"]

\* message_handler.rs gives every request the id 0: two requests share it here,
\* and a third has an id of its own.
SharedIdOf == [r \in {r1, r2, r3} |-> IF r = r3 THEN 1 ELSE 0]

\* A single block sync, and a purely listening side.
SoleIdOf == [r \in {r1} |-> 0]
SoleKindOf == [r \in {r1} |-> "BlockSync"]
EmptyOf == [r \in {} |-> 0]
=============================================================================
