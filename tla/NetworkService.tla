--------------------------- MODULE NetworkService ---------------------------
(***************************************************************************)
(* The network node of plum: the network service task (network/src/        *)
(* service.rs) that polls the libp2p swarm (libp2p/src/service.rs, its     *)
(* Behaviour and its RPC behaviour), and the message handler task          *)
(* (network/src/message_handler.rs), joined by two unbounded channels.     *)
(*                                                                         *)
(* A task runs only when it has been woken, so the service's poll is       *)
(* modelled step by step (pc) together with its wake flag.  libp2p itself  *)
(* is external: the raw network, the swarm's loop and the sub-behaviours   *)
(* other than RPC are modelled from how the code uses them.                *)
(***************************************************************************)
EXTENDS Naturals, Sequences

CONSTANTS
    Peers,
    TopicLists,       \* the topic lists gossip messages carry
    RawKinds,         \* the kinds of network events that happen
    MaxRaw            \* bound: events the network produces

Topics == {"hello", "blocks", "messages", "other"}
AllRawKinds == {"Dialed", "Accepted", "Disconnected", "RPC", "Gossip",
                "Subscribed", "Discovered", "Expired"}
RequestKinds == {"Status", "BlockSync"}

ASSUME NetworkAssumption ==
    /\ TopicLists \subseteq Seq(Topics)
    /\ RawKinds \subseteq AllRawKinds
    /\ MaxRaw \in Nat

VARIABLES
    raw,              \* network events the swarm has not taken yet
    connected,        \* peers the swarm is connected to
    rpc_events,       \* RPC.events
    others,           \* events inside the mdns and gossipsub behaviours
    events,           \* Behaviour.events
    network_recv,     \* channel: message handler -> network service
    handler_recv,     \* channel: network service -> message handler
    pc,               \* where the poll of the network service is
    woken,            \* the network service task has been notified
    service,          \* "running" or "exited"
    handler,          \* "running" or "panicked"
    \* history
    nraw,             \* network events so far; each carries its number
    taken,            \* RPC events and gossip the swarm has taken
    handled,          \* messages the message handler has dealt with
    issued,           \* requests the message handler has issued
    sent              \* requests RPC::poll has given to the swarm

swarmVars == <<raw, connected, rpc_events, others, events, taken, sent>>
channelVars == <<network_recv, handler_recv>>
taskVars == <<pc, woken, service, handler>>
vars == <<swarmVars, channelVars, taskVars, nraw, handled, issued>>

\* A network event, also once it is a BehaviourEvent, a Libp2pEvent or a
\* HandlerMessage: its kind, the peer, its topics and its number.
Event == [kind : AllRawKinds, peer : Peers, topics : Seq(Topics), n : Nat]
\* NetworkMessage::RPC, also as NetworkBehaviourAction::SendEvent.
Request == [kind : RequestKinds, peer : Peers, n : Nat]

Init ==
    /\ raw = <<>> /\ connected = {}
    /\ rpc_events = <<>> /\ others = <<>> /\ events = <<>>
    /\ network_recv = <<>> /\ handler_recv = <<>>
    /\ pc = "idle" /\ woken = TRUE
    /\ service = "running" /\ handler = "running"
    /\ nraw = 0 /\ taken = <<>> /\ handled = <<>> /\ issued = <<>> /\ sent = <<>>

-----------------------------------------------------------------------------
(* The network (external): an event arrives and wakes the task that polls  *)
(* the swarm.  Only gossip messages and subscriptions carry topics.        *)

NetworkEvent(kind, p, topics) ==
    /\ service = "running"
    /\ nraw < MaxRaw
    /\ kind = "Subscribed" => Len(topics) = 1
    /\ kind \notin {"Subscribed", "Gossip"} => topics = <<>>
    /\ nraw' = nraw + 1
    /\ raw' = Append(raw, [kind |-> kind, peer |-> p, topics |-> topics,
                           n |-> nraw + 1])
    /\ woken' = TRUE
    /\ UNCHANGED <<connected, rpc_events, others, events, taken, sent,
                   channelVars, pc, service, handler, handled, issued>>

-----------------------------------------------------------------------------
(* The network service task.                                               *)

PollService ==
    /\ pc = "idle" /\ woken /\ service = "running"
    /\ woken' = FALSE
    /\ pc' = "recv"
    /\ UNCHANGED <<swarmVars, channelVars, service, handler, nraw, handled,
                   issued>>

\* The first loop: a request goes to swarm.send_rpc, RPC::send_rpc.  (Nothing
\* in the repository sends a PubsubMessage; it would go to gossipsub at once.
\* The mutants: one message per poll; a request is queued in front.)
Recv_Once ==
    /\ pc = "recv" /\ network_recv # <<>>
    /\ network_recv' = Tail(network_recv)
    /\ rpc_events' = Append(rpc_events, Head(network_recv))
    /\ pc' = "swarm"
    /\ UNCHANGED <<raw, connected, others, events, taken, sent, handler_recv,
                   woken, service, handler, nraw, handled, issued>>
Recv_Front ==
    /\ pc = "recv" /\ network_recv # <<>>
    /\ network_recv' = Tail(network_recv)
    /\ rpc_events' = <<Head(network_recv)>> \o rpc_events
    /\ UNCHANGED <<raw, connected, others, events, taken, sent, handler_recv,
                   taskVars, nraw, handled, issued>>
Recv ==
    /\ pc = "recv" /\ network_recv # <<>>
    /\ network_recv' = Tail(network_recv)
    /\ rpc_events' = Append(rpc_events, Head(network_recv))
    /\ UNCHANGED <<raw, connected, others, events, taken, sent, handler_recv,
                   taskVars, nraw, handled, issued>>

RecvDone ==
    /\ pc = "recv" /\ network_recv = <<>>
    /\ pc' = "swarm"
    /\ UNCHANGED <<swarmVars, channelVars, woken, service, handler, nraw,
                   handled, issued>>

\* Swarm::poll takes one network event and injects it: RPC's inject_connected,
\* inject_disconnected and inject_node_event queue it in RPC.events, the other
\* behaviours queue theirs.
Swarm ==
    /\ pc = "swarm"
    /\ \/ /\ raw = <<>>
          /\ pc' = "last"
          /\ UNCHANGED <<raw, connected, rpc_events, others, taken>>
       \/ /\ raw # <<>>
          /\ raw' = Tail(raw)
          /\ pc' = "behaviour"
          /\ LET e == Head(raw) IN
             \/ /\ e.kind \in {"Dialed", "Accepted"}
                /\ connected' = connected \cup {e.peer}
                /\ rpc_events' = IF e.kind = "Dialed" THEN Append(rpc_events, e)
                                 ELSE rpc_events
                /\ UNCHANGED <<others, taken>>
             \/ /\ e.kind = "Disconnected"
                /\ connected' = connected \ {e.peer}
                /\ rpc_events' = Append(rpc_events, e)
                /\ UNCHANGED <<others, taken>>
             \/ /\ e.kind = "RPC"
                /\ rpc_events' = Append(rpc_events, e)
                /\ taken' = Append(taken, e)
                /\ UNCHANGED <<connected, others>>
             \/ /\ e.kind \in {"Gossip", "Subscribed", "Discovered", "Expired"}
                /\ others' = Append(others, e)
                /\ taken' = Append(taken, e)
                /\ UNCHANGED <<connected, rpc_events>>
    /\ UNCHANGED <<events, sent, channelVars, woken, service, handler, nraw,
                   handled, issued>>

-----------------------------------------------------------------------------
(* Behaviour::poll, derived: drain RPC, then the other behaviours, then    *)
(* return the oldest BehaviourEvent.                                       *)

Polling == pc \in {"behaviour", "last"}

\* RPC::poll returns a GenerateEvent: Behaviour::inject_event(RPCMessage)
\* passes RPC events on and ignores dialled and disconnected peers.  (The
\* mutant passes on whatever RPC::poll returns.)
InjectRPCMessage_PassesAll ==
    /\ Polling /\ rpc_events # <<>>
    /\ rpc_events' = Tail(rpc_events)
    /\ events' = Append(events, Head(rpc_events))
    /\ UNCHANGED <<raw, connected, others, taken, sent, channelVars, taskVars,
                   nraw, handled, issued>>
InjectRPCMessage ==
    /\ Polling /\ rpc_events # <<>> /\ Head(rpc_events).kind \in AllRawKinds
    /\ rpc_events' = Tail(rpc_events)
    /\ events' = IF Head(rpc_events).kind = "RPC"
                 THEN Append(events, Head(rpc_events)) ELSE events
    /\ UNCHANGED <<raw, connected, others, taken, sent, channelVars, taskVars,
                   nraw, handled, issued>>

\* RPC::poll returns a SendEvent: the swarm gives it to the peer's connection,
\* or drops it if there is none.
SendEvent ==
    /\ Polling /\ rpc_events # <<>> /\ Head(rpc_events).kind \in RequestKinds
    /\ rpc_events' = Tail(rpc_events)
    /\ sent' = Append(sent, [req |-> Head(rpc_events),
                            up |-> Head(rpc_events).peer \in connected])
    /\ pc' = "swarm"
    /\ UNCHANGED <<raw, connected, others, events, taken, channelVars, woken,
                   service, handler, nraw, handled, issued>>

\* Behaviour::inject_event(MdnsEvent) and (GossipsubEvent): a subscription is
\* passed on for the hello topic; an expired peer unless mdns still has it.
\* (The mutant tests the topic the wrong way round.)
InjectOther_OtherTopics ==
    /\ Polling /\ rpc_events = <<>> /\ others # <<>>
    /\ others' = Tail(others)
    /\ LET e == Head(others) IN
       events' = IF e.kind = "Subscribed" /\ e.topics = <<"hello">> THEN events
                 ELSE Append(events, e)
    /\ UNCHANGED <<raw, connected, rpc_events, taken, sent, channelVars,
                   taskVars, nraw, handled, issued>>
InjectOther ==
    /\ Polling /\ rpc_events = <<>> /\ others # <<>>
    /\ others' = Tail(others)
    /\ LET e == Head(others) IN
       \/ /\ e.kind \in {"Gossip", "Discovered", "Expired"}
          /\ events' = Append(events, e)
       \/ /\ e.kind = "Subscribed" /\ e.topics = <<"hello">>
          /\ events' = Append(events, e)
       \/ /\ \/ e.kind = "Subscribed" /\ e.topics # <<"hello">>
             \/ e.kind = "Expired"
          /\ UNCHANGED events
    /\ UNCHANGED <<raw, connected, rpc_events, taken, sent, channelVars,
                   taskVars, nraw, handled, issued>>

\* Behaviour.poll returns the oldest event (the mutant: the newest) and
\* Libp2pService::poll passes it on, except for mdns events; network_service
\* then sends it to the message handler, which fails once that has panicked.
Libp2pEvent_Pop ==
    /\ Polling /\ rpc_events = <<>> /\ others = <<>> /\ events # <<>>
    /\ events' = SubSeq(events, 1, Len(events) - 1)
    /\ handler_recv' = IF \/ events[Len(events)].kind \in {"Discovered", "Expired"}
                          \/ handler = "panicked"
                       THEN handler_recv
                       ELSE Append(handler_recv, events[Len(events)])
    /\ pc' = "swarm"
    /\ UNCHANGED <<raw, connected, rpc_events, others, taken, sent, network_recv,
                   woken, service, handler, nraw, handled, issued>>
Libp2pEvent ==
    /\ Polling /\ rpc_events = <<>> /\ others = <<>> /\ events # <<>>
    /\ events' = Tail(events)
    /\ handler_recv' = IF \/ Head(events).kind \in {"Discovered", "Expired"}
                          \/ handler = "panicked"
                       THEN handler_recv
                       ELSE Append(handler_recv, Head(events))
    /\ pc' = "swarm"
    /\ UNCHANGED <<raw, connected, rpc_events, others, taken, sent, network_recv,
                   woken, service, handler, nraw, handled, issued>>

\* Nothing is ready: the swarm looks at the network again, or has just done so
\* and the poll of the task returns.  (The mutant does not leave the loop.)
NotReady_Loops ==
    /\ Polling /\ rpc_events = <<>> /\ others = <<>> /\ events = <<>>
    /\ pc' = "swarm"
    /\ UNCHANGED <<swarmVars, channelVars, woken, service, handler, nraw,
                   handled, issued>>
NotReady ==
    /\ Polling /\ rpc_events = <<>> /\ others = <<>> /\ events = <<>>
    /\ pc' = IF pc = "last" THEN "idle" ELSE "swarm"
    /\ UNCHANGED <<swarmVars, channelVars, woken, service, handler, nraw,
                   handled, issued>>

\* exit_rx resolves (a signal, or its sender is dropped): the task ends, and
\* its end of the channels with it.
Exit ==
    /\ pc = "idle" /\ service = "running"
    /\ service' = "exited"
    /\ network_recv' = <<>>
    /\ UNCHANGED <<swarmVars, handler_recv, pc, woken, handler, nraw, handled,
                   issued>>

-----------------------------------------------------------------------------
(* The message handler task.                                               *)

\* network_send.try_send: fails, and is only logged, once the service ended.
Issue(kind, p) ==
    LET req == [kind |-> kind, peer |-> p, n |-> Len(issued) + 1] IN
    IF service = "running"
    THEN /\ network_recv' = Append(network_recv, req)
         /\ issued' = Append(issued, req)
         /\ woken' = TRUE
    ELSE UNCHANGED <<network_recv, issued, woken>>

Handling(kind) ==
    /\ handler = "running" /\ handler_recv # <<>>
    /\ Head(handler_recv).kind = kind

\* The current message is done.
Handled ==
    /\ handler_recv' = Tail(handler_recv)
    /\ handled' = Append(handled, Head(handler_recv))

on_say_hello ==
    /\ Handling("Subscribed")
    /\ Handled
    /\ Issue("Status", Head(handler_recv).peer)
    /\ UNCHANGED <<swarmVars, pc, service, handler, nraw>>

\* Requests, responses and errors are logged.
on_rpc ==
    /\ Handling("RPC")
    /\ Handled
    /\ UNCHANGED <<swarmVars, network_recv, taskVars, nraw, issued>>

\* One turn of the loop over the topics, or its end.  process_blocks_message
\* and process_messages_message are unimplemented!(): the task panics, and its
\* end of the channel goes with everything in it.
on_pubsub_message ==
    LET topics == Head(handler_recv).topics IN
    /\ Handling("Gossip")
    /\ \/ /\ topics = <<>>
          /\ Handled
          /\ UNCHANGED <<network_recv, woken, handler, issued>>
       \/ /\ topics # <<>> /\ Head(topics) = "hello"
          /\ Issue("BlockSync", Head(handler_recv).peer)
          /\ handler_recv' = [handler_recv EXCEPT ![1].topics = Tail(@)]
          /\ UNCHANGED <<handler, handled>>
       \/ /\ topics # <<>> /\ Head(topics) = "other"
          /\ handler_recv' = [handler_recv EXCEPT ![1].topics = Tail(@)]
          /\ UNCHANGED <<network_recv, woken, handler, handled, issued>>
       \/ /\ topics # <<>> /\ Head(topics) \in {"blocks", "messages"}
          /\ handler' = "panicked"
          /\ handler_recv' = <<>>
          /\ UNCHANGED <<network_recv, woken, handled, issued>>
    /\ UNCHANGED <<swarmVars, pc, service, nraw>>

-----------------------------------------------------------------------------
ServiceStep == \/ PollService \/ Recv \/ RecvDone \/ Swarm \/ InjectRPCMessage
               \/ SendEvent \/ InjectOther \/ Libp2pEvent \/ NotReady
HandlerStep == on_say_hello \/ on_rpc \/ on_pubsub_message

Next ==
    \/ \E kind \in RawKinds, p \in Peers, topics \in TopicLists \cup {<<>>} :
           NetworkEvent(kind, p, topics)
    \/ ServiceStep \/ HandlerStep \/ Exit

Spec == Init /\ [][Next]_vars

\* The executor runs every task that has been woken.
FairSpec == Spec /\ WF_vars(ServiceStep) /\ WF_vars(HandlerStep)

-----------------------------------------------------------------------------
(* Safety.                                                                 *)

\* The queues hold what their types say.
TypeOK ==
    /\ raw \in Seq(Event) /\ others \in Seq(Event) /\ events \in Seq(Event)
    /\ connected \subseteq Peers
    /\ rpc_events \in Seq(Event \cup Request)
    /\ network_recv \in Seq(Request) /\ handler_recv \in Seq(Event)
    /\ pc \in {"idle", "recv", "swarm", "behaviour", "last"}
    /\ woken \in BOOLEAN
    /\ service \in {"running", "exited"} /\ handler \in {"running", "panicked"}
    /\ nraw \in 0..MaxRaw
    /\ taken \in Seq(Event) /\ handled \in Seq(Event)
    /\ issued \in Seq(Request)
    /\ sent \in Seq([req : Request, up : BOOLEAN])

\* The network service never sleeps on work: when its task is idle and not
\* woken, no channel, no behaviour and no network event waits for it, so no
\* message needs a later one to push it on.
NoLostWork ==
    pc = "idle" /\ ~woken /\ service = "running" =>
        /\ network_recv = <<>> /\ raw = <<>>
        /\ rpc_events = <<>> /\ others = <<>> /\ events = <<>>

\* What a queue holds of some kinds, and that it is in the order of its numbers.
Items(queue, kinds) ==
    {[kind |-> queue[k].kind, peer |-> queue[k].peer, n |-> queue[k].n] :
        k \in {j \in DOMAIN queue : queue[j].kind \in kinds}}
Sorted(queue, kinds) ==
    \A j, k \in DOMAIN queue :
        j < k /\ queue[j].kind \in kinds /\ queue[k].kind \in kinds => queue[j].n < queue[k].n

\* Queues in a row, the one nearest to the end first, keep the order of the numbers.
Ordered(row, kinds) ==
    /\ \A a \in DOMAIN row : Sorted(row[a], kinds)
    /\ \A a, b \in DOMAIN row : a < b =>
           \A x \in Items(row[a], kinds), y \in Items(row[b], kinds) : x.n < y.n

\* They hold what went in, no more and no less.
Complete(row, kinds, log) ==
    /\ \A x \in Items(log, kinds) : \E a \in DOMAIN row : x \in Items(row[a], kinds)
    /\ \A a \in DOMAIN row : Items(row[a], kinds) \subseteq Items(log, kinds)

\* While the message handler runs, what peers sent reaches it in the order the
\* network brought it and nothing the swarm has taken is lost or doubled on the way
\* through RPC.events (or gossipsub), Behaviour.events and the channel: RPC events
\* as one stream, gossip messages as another.
DeliveredInOrder ==
    handler = "running" =>
        /\ Ordered(<<handled, handler_recv, events, rpc_events, raw>>, {"RPC"})
        /\ Complete(<<handled, handler_recv, events, rpc_events>>, {"RPC"}, taken)
        /\ Ordered(<<handled, handler_recv, events, others, raw>>, {"Gossip"})
        /\ Complete(<<handled, handler_recv, events, others>>, {"Gossip"}, taken)

\* Requests leave in the order the message handler issued them, each once.
RequestsInOrder ==
    LET given == [k \in DOMAIN sent |-> sent[k].req]
    IN service = "running" =>
           /\ Ordered(<<given, rpc_events, network_recv>>, RequestKinds)
           /\ Complete(<<given, rpc_events, network_recv>>, RequestKinds, issued)

\* Both ways through the queues of RPC and Behaviour and the channels of the two tasks,
\* what is under way keeps its type and its order, and nothing is lost or doubled.
InOrder == TypeOK /\ DeliveredInOrder /\ RequestsInOrder

-----------------------------------------------------------------------------
(* Liveness.                                                               *)

\* Every request the message handler issues is given to the swarm, with no help
\* of further events, unless the service exits.
RequestsLeave ==
    \A n \in 1..MaxRaw :
        Len(issued) >= n ~> (Len(sent) >= n \/ service = "exited")

\* Every peer that subscribes to the hello topic is sent a Status request, as
\* long as both tasks run.
SubscriberGreeted ==
    \A p \in Peers :
        (\E k \in DOMAIN raw : /\ raw[k].kind = "Subscribed" /\ raw[k].peer = p
                               /\ raw[k].topics = <<"hello">>)
            ~> \/ \E k \in DOMAIN issued : /\ issued[k].kind = "Status"
                                           /\ issued[k].peer = p
               \/ service = "exited" \/ handler = "panicked"

\* Work moves on by itself in both directions: subscribers are greeted, and requests
\* leave, without a later event to wake the task.
WorkMovesOn == RequestsLeave /\ SubscriberGreeted

-----------------------------------------------------------------------------
(* What the comments of the code say and the code does not do.             *)

\* rpc/mod.rs, inject_connected: "if initialised the connection, report this
\* upwards to send the HELLO request": a dialled peer is sent a Status request.
DialedIsGreeted ==
    \A p \in Peers :
        (\E k \in DOMAIN raw : raw[k].kind = "Dialed" /\ raw[k].peer = p)
            ~> \/ \E k \in DOMAIN issued : /\ issued[k].kind = "Status"
                                           /\ issued[k].peer = p
               \/ service = "exited"

\* message_handler.rs, on_pubsub_message: "Dispatch hello/blocks/messages
\* message": every gossip message the swarm has taken is dispatched.
GossipDispatched ==
    \A n \in 1..MaxRaw :
        (\E k \in DOMAIN taken : taken[k].kind = "Gossip" /\ taken[k].n = n)
            ~> \/ \E k \in DOMAIN handled : handled[k].n = n
               \/ service = "exited"

=============================================================================
