------------------------ MODULE MCWebSocketTransport ------------------------
(* Instances of WebSocketTransport: who calls what.                         *)
EXTENDS WebSocketTransport

CONSTANTS c1, c2, c3

\* An empty batch (its id is 0), a batch of two calls and a subscription.
AllKinds == [c \in {c1, c2, c3} |->
    IF c = c1 THEN "EmptyBatch" ELSE IF c = c2 THEN "Batch" ELSE "Subscribe"]

\* A batch of two calls and a single call.
BatchAndSingle == [c \in {c1, c2} |-> IF c = c1 THEN "Batch" ELSE "Single"]
=============================================================================
