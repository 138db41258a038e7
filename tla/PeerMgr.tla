------------------------------- MODULE PeerMgr -------------------------------
(***************************************************************************)
(* The peer manager (peermgr): handles all over the node tell it, through  *)
(* an unbounded channel, of peers that come and go; it keeps at most       *)
(* max_fil_peers of them.                                                  *)
(***************************************************************************)
EXTENDS Integers, Sequences, FiniteSets

CONSTANTS Peers, max_fil_peers, MaxQueue   \* MaxQueue bounds the channel in the model

VARIABLES
    rx,       \* the channel
    peers,    \* the peers it knows
    last,     \* what it was last told of each peer
    full      \* the peers it ignored when last told to add them

vars == <<rx, peers, last, full>>

Action(kind, peer) == [kind |-> kind, peer |-> peer]

Init == rx = <<>> /\ peers = {} /\ last = [p \in Peers |-> "RemovePeer"] /\ full = {}

Send(action) == Len(rx) < MaxQueue /\ rx' = Append(rx, action) /\ UNCHANGED <<peers, last, full>>
add_peer(p) == Send(Action("AddPeer", p))
remove_peer(p) == Send(Action("RemovePeer", p))

\* The owner of the manager takes an action from the channel and applies it.
Receive(kind, p) == /\ rx # <<>> /\ Head(rx) = Action(kind, p)
                    /\ rx' = Tail(rx)
                    /\ last' = [last EXCEPT ![p] = kind]

\* (The mutant counts after inserting.)
HasRoom_OneMore(p) == Cardinality(peers) <= max_fil_peers
HasRoom(p) == Cardinality(peers) < max_fil_peers
on_add_peer(p) ==
    /\ Receive("AddPeer", p)
    /\ peers' = IF HasRoom(p) THEN peers \cup {p} ELSE peers
    /\ full' = IF HasRoom(p) \/ p \in peers THEN full \ {p} ELSE full \cup {p}

on_remove_peer(p) ==
    /\ Receive("RemovePeer", p)
    /\ peers' = peers \ {p}
    /\ full' = full \ {p}

Next == \E p \in Peers : add_peer(p) \/ remove_peer(p) \/ on_add_peer(p) \/ on_remove_peer(p)

Spec == Init /\ [][Next]_vars

-----------------------------------------------------------------------------

\* The manager never knows more peers than it may, and knows exactly those whose last
\* action was to add them, but for the ones it had no room for at that moment: these
\* it does not take back when room is made.
PeersFollowActions ==
    /\ Cardinality(peers) <= max_fil_peers
    /\ peers = {p \in Peers : last[p] = "AddPeer"} \ full
=============================================================================
