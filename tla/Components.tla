----------------------------- MODULE Components -----------------------------
(***************************************************************************)
(* The small components side by side.  They do not interact, so each       *)
(* behaviour is about one of them, its subject: the wallet, a substream's  *)
(* codec, the peer manager, the network parameters or the statistics of a  *)
(* database, whose steps it takes while the others keep their first state; *)
(* or a topic, on which one question is asked: a choice of arguments for   *)
(* operations without a state of their own, such as those on addresses, on *)
(* tipsets, on messages and on the codes of the RPC protocol.              *)
(***************************************************************************)
EXTENDS Statistics, Integers, Sequences

CONSTANTS
    Addrs, NoAddr, Given, KeyStoreMayFail,                                  \* Wallet
    Frames, MaxSent, MaxGot, Pieces,                                        \* RPCCodec
    Peers, max_fil_peers, MaxQueue,                                         \* PeerMgr
    Threads                                                                 \* NetworkParams

VARIABLES keys, keystore, default, promised, supplied, chosen               \* Wallet
VARIABLES carries, sent, dst, pipe, closed, src, readable, eof, got, ended  \* RPCCodec
VARIABLES rx, peers, last, full                                             \* PeerMgr
VARIABLES PARAMS, INIT, doing, given                                        \* NetworkParams

Wal == INSTANCE Wallet WITH MayFail <- KeyStoreMayFail
Codec == INSTANCE RPCCodec WITH kind <- carries
Peer == INSTANCE PeerMgr
Param == INSTANCE NetworkParams

walletVars == <<keys, keystore, default, promised, supplied, chosen>>
codecVars == <<carries, sent, dst, pipe, closed, src, readable, eof, got, ended>>
peerVars == <<rx, peers, last, full>>
paramVars == <<PARAMS, INIT, doing, given>>

-----------------------------------------------------------------------------
(* What the components may be given.                                       *)

\* An address is not the marker for none, and a process starts with keys or without.
ASSUME WalletAssumption ==
    /\ NoAddr \notin Addrs
    /\ {} \in Given /\ Given \subseteq SUBSET Addrs
    /\ KeyStoreMayFail \in BOOLEAN

\* A frame has a piece at least; the limit of peers is a number.
ASSUME SizesAssumption == Pieces \in Nat \ {0} /\ max_fil_peers \in Nat

\* Questions are about something else than the components, and those about the two sides
\* of the RPC protocol have arguments of its operations.
ASSUME SidesAssumption ==
    /\ Topics \cap {"wallet", "codec", "peers", "params", "stats"} = {}
    /\ \A q \in Questions("sides") :
          q \in Codec!RPCRequest \X Codec!RPCRequest \X Codec!RPCErrorResponse \X DOMAIN Codec!GoodbyeReason

-----------------------------------------------------------------------------
(* Behaviours.                                                             *)

Subjects == Topics \cup {"wallet", "codec", "peers", "params", "stats"}

Start ==
    /\ subject \in Subjects /\ probe = <<>>
    /\ Wal!Init /\ (subject # "wallet" => keys = {})
    /\ Codec!Init /\ (subject # "codec" => carries = "request")
    /\ Peer!Init /\ Param!Init /\ Stat!Init

Step ==
    \/ /\ Ask
       /\ UNCHANGED <<walletVars, codecVars, peerVars, paramVars, statVars>>
    \/ /\ subject = "wallet" /\ Wal!Next
       /\ UNCHANGED <<subject, probe, codecVars, peerVars, paramVars, statVars>>
    \/ /\ subject = "codec" /\ Codec!Next
       /\ UNCHANGED <<subject, probe, walletVars, peerVars, paramVars, statVars>>
    \/ /\ subject = "peers" /\ Peer!Next
       /\ UNCHANGED <<subject, probe, walletVars, codecVars, paramVars, statVars>>
    \/ /\ subject = "params" /\ Param!Next
       /\ UNCHANGED <<subject, probe, walletVars, codecVars, peerVars, statVars>>
    \/ /\ subject = "stats" /\ Stat!Next
       /\ UNCHANGED <<subject, probe, walletVars, codecVars, peerVars, paramVars>>

allVars == <<subject, probe, walletVars, codecVars, peerVars, paramVars, statVars>>
SideBySide == Start /\ [][Step]_allVars

-----------------------------------------------------------------------------
(* Properties: those of the components, each of its subject.               *)

\* An address that import or generate_key returned is in the key store for good:
\* later failures and restarts do not lose it (WalletImpl).
PromisedStored == subject = "wallet" => Wal!PromisedStored

\* The default is what was chosen and is backed by a key, through failures of the key
\* store between the two steps of set_default and through restarts.
DefaultKept == subject = "wallet" => Wal!DefaultKept

\* A codec's reader gives what was sent, the first frame first (InboundCodec, OutboundCodec),
\* an inbound upgrade ends once, with a whole request or a failure (upgrade_inbound),
\* and what one side asks or answers the other understands (RPCRequest,
\* RPCErrorResponse, GoodbyeReason).
CodecFaithful ==
    /\ subject = "codec" => Codec!OnlyWhatWasSent /\ Codec!RequestIsWhole
    /\ Asked("sides") => Codec!SidesAgree(probe[1], probe[2], probe[3], probe[4])

\* The peer manager knows the peers it was last told of, up to its limit (PeerMgr).
ManagedPeersFollow == subject = "peers" => Peer!PeersFollowActions

\* All threads read the same parameters, never the zeros (params, init_params).
AllReadTheSameParams == subject = "params" => Param!ParamsAgree
=============================================================================
