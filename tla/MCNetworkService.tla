-------------------------- MODULE MCNetworkService --------------------------
(* Instances of NetworkService: which topics gossip carries.                *)
EXTENDS NetworkService

CONSTANT p1

\* One or two topics, known and unknown ones, in either order.
AllTopics == {<<"hello">>, <<"hello", "other">>, <<"other", "blocks">>, <<"messages">>}
=============================================================================
