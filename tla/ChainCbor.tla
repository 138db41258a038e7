------------------------------ MODULE ChainCbor ------------------------------
(***************************************************************************)
(* The CBOR of the chain's types: what each Encode writes and what each    *)
(* Decode reads back.                                                      *)
(*                                                                         *)
(* The wire is a sequence of data items, each with its major type.  A type *)
(* is encoded as an array of its fields, each by a codec of its own.  The  *)
(* encoder and the decoder of a type are separate pieces of code, but for  *)
(* two types that derive both: each has its own length and its own order   *)
(* of the fields.  The codec of a field comes with its type.               *)
(***************************************************************************)
EXTENDS Integers, Sequences, FiniteSets, TLC

CONSTANTS
    U64_MAX,          \* 2^64 - 1 in the code
    MaxSize,          \* the most members a bit field is read with (RlePlus)
    OverflowChecks    \* whether arithmetic is checked, as in debug builds

Addr == INSTANCE Address
Proofs == INSTANCE Sector

Item(major, value) == [major |-> major, value |-> value]
Got(value, rest) == [ok |-> value, rest |-> rest]
Err(why) == [err |-> why]
Panic(why) == [panic |-> why]

-----------------------------------------------------------------------------
(* Structures: the length the encoder announces and the fields it writes,  *)
(* the length the decoder asserts and the fields it reads.                 *)

AnyLength == -1   \* what a derived decoder accepts

CodecOf(fields, name) == LET i == CHOOSE i \in DOMAIN fields : fields[i][1] = name IN fields[i][2]
Struct(announces, order, asserts, read) ==
    [announces |-> announces, asserts |-> asserts, read |-> read,
     write |-> [i \in DOMAIN order |-> <<order[i], CodecOf(read, order[i])>>]]
Derived(fields) == Struct(Len(fields), [i \in DOMAIN fields |-> fields[i][1]], AnyLength, fields)

Ticket == Struct(1, <<"vrf_proof">>, 1, <<<<"vrf_proof", "bytes">>>>)
ElectionProof == Struct(1, <<"vrf_proof">>, 1, <<<<"vrf_proof", "bytes">>>>)
BeaconEntry == Struct(2, <<"round", "data">>, 2, <<<<"round", "u64">>, <<"data", "bytes">>>>)
MsgMeta == Struct(
    2, <<"bls_messages", "secpk_messages">>,
    2, <<<<"bls_messages", "Cid">>, <<"secpk_messages", "Cid">>>>)
BlockHeader == Struct(
    15, <<"miner", "ticket", "election_proof", "beacon_entries", "win_post_proof", "parents",
          "parent_weight", "height", "parent_state_root", "parent_message_receipts", "messages",
          "bls_aggregate", "timestamp", "block_sig", "fork_signaling">>,
    15, <<<<"miner", "Address">>, <<"ticket", "Ticket">>, <<"election_proof", "ElectionProof">>,
          <<"beacon_entries", "Vec<BeaconEntry>">>, <<"win_post_proof", "Vec<PoStProof>">>,
          <<"parents", "Vec<Cid>">>, <<"parent_weight", "BigInt">>, <<"height", "i64">>,
          <<"parent_state_root", "Cid">>, <<"parent_message_receipts", "Cid">>,
          <<"messages", "Cid">>, <<"bls_aggregate", "Signature">>, <<"timestamp", "u64">>,
          <<"block_sig", "Signature">>, <<"fork_signaling", "u64">>>>)
Block == Struct(
    3, <<"header", "bls_messages", "secpk_messages">>,
    3, <<<<"header", "BlockHeader">>, <<"bls_messages", "Vec<UnsignedMessage>">>,
         <<"secpk_messages", "Vec<SignedMessage>">>>>)
BlockMsg == Struct(
    3, <<"header", "bls_messages", "secpk_messages">>,
    3, <<<<"header", "BlockHeader">>, <<"bls_messages", "Vec<Cid>">>,
         <<"secpk_messages", "Vec<Cid>">>>>)
TipsetFields == <<<<"key", "Vec<Cid>">>, <<"blocks", "Vec<BlockHeader>">>, <<"height", "i64">>>>
\* (The mutant's decoder leaves the height on the wire.)
Tipset_HeightUnread ==
    [Struct(3, <<"key", "blocks", "height">>, 3, TipsetFields) EXCEPT !.read = SubSeq(@, 1, 2)]
Tipset == Struct(3, <<"key", "blocks", "height">>, 3, TipsetFields)

UnsignedMessageFields ==
    <<<<"version", "i64">>, <<"to", "Address">>, <<"from", "Address">>, <<"nonce", "u64">>,
      <<"value", "BigInt">>, <<"gas_price", "BigInt">>, <<"gas_limit", "BigInt">>,
      <<"method", "u64">>, <<"params", "bytes">>>>
\* (The mutant's encoder writes the two gas fields in the other order.)
UnsignedMessage_GasSwapped == Struct(
    9, <<"version", "to", "from", "nonce", "value", "gas_limit", "gas_price", "method", "params">>,
    9, UnsignedMessageFields)
UnsignedMessage == Struct(
    9, <<"version", "to", "from", "nonce", "value", "gas_price", "gas_limit", "method", "params">>,
    9, UnsignedMessageFields)
SignedMessage == Struct(
    2, <<"message", "signature">>,
    2, <<<<"message", "UnsignedMessage">>, <<"signature", "Signature">>>>)
MessageReceipt == Struct(
    3, <<"exit_code", "return", "gas_used">>,
    3, <<<<"exit_code", "u8">>, <<"return", "bytes">>, <<"gas_used", "BigInt">>>>)
Actor == Struct(
    4, <<"code", "head", "nonce", "balance">>,
    4, <<<<"code", "Cid">>, <<"head", "Cid">>, <<"nonce", "u64">>, <<"balance", "BigInt">>>>)

PieceInfo == Struct(2, <<"size", "piece_cid">>, 2, <<<<"size", "u64">>, <<"piece_cid", "Cid">>>>)
SectorId == Struct(2, <<"miner", "number">>, 2, <<<<"miner", "u64">>, <<"number", "u64">>>>)
SectorInfo == Struct(
    3, <<"registered_proof", "sector_number", "sealed_cid">>,
    3, <<<<"registered_proof", "RegisteredProof">>, <<"sector_number", "u64">>,
         <<"sealed_cid", "Cid">>>>)
PoStProof == Struct(
    2, <<"registered_proof", "proof_bytes">>,
    2, <<<<"registered_proof", "RegisteredProof">>, <<"proof_bytes", "bytes">>>>)
WinningPoStVerifyInfo == Struct(
    4, <<"randomness", "proofs", "challenged_sectors", "prover">>,
    4, <<<<"randomness", "H256">>, <<"proofs", "Vec<PoStProof>">>,
         <<"challenged_sectors", "Vec<SectorInfo>">>, <<"prover", "u64">>>>)
WindowPoStVerifyInfo == Struct(
    4, <<"randomness", "proofs", "challenged_sectors", "prover">>,
    4, <<<<"randomness", "H256">>, <<"proofs", "Vec<PoStProof>">>,
         <<"challenged_sectors", "Vec<SectorInfo>">>, <<"prover", "u64">>>>)
SealVerifyInfo == Struct(
    8, <<"registered_proof", "sector_id", "deal_ids", "randomness", "interactive_randomness",
         "proof", "sealed_cid", "unsealed_cid">>,
    8, <<<<"registered_proof", "RegisteredProof">>, <<"sector_id", "SectorId">>,
         <<"deal_ids", "Vec<u64>">>, <<"randomness", "H256">>,
         <<"interactive_randomness", "H256">>, <<"proof", "bytes">>, <<"sealed_cid", "Cid">>,
         <<"unsealed_cid", "Cid">>>>)

ProveCommitSectorParams == Struct(
    2, <<"sector_number", "proof">>,
    2, <<<<"sector_number", "u64">>, <<"proof", "bytes">>>>)
State == Struct(
    14, <<"info", "pre_commit_deposits", "locked_funds", "vesting_funds",
          "pre_committed_sectors", "sectors", "proving_period_start", "new_sectors",
          "sector_expirations", "deadlines", "faults", "fault_epochs", "recoveries",
          "post_submissions">>,
    14, <<<<"info", "MinerInfo">>, <<"pre_commit_deposits", "BigInt">>,
          <<"locked_funds", "BigInt">>, <<"vesting_funds", "Cid">>,
          <<"pre_committed_sectors", "Cid">>, <<"sectors", "Cid">>,
          <<"proving_period_start", "i64">>, <<"new_sectors", "BitField">>,
          <<"sector_expirations", "Cid">>, <<"deadlines", "Cid">>, <<"faults", "BitField">>,
          <<"fault_epochs", "Cid">>, <<"recoveries", "BitField">>,
          <<"post_submissions", "BitField">>>>)
MinerInfo == Struct(
    7, <<"owner", "worker", "pending_worker_key", "peer_id", "seal_proof_type", "sector_size",
         "window_post_partition_sectors">>,
    7, <<<<"owner", "Address">>, <<"worker", "Address">>,
         <<"pending_worker_key", "WorkerKeyChange">>, <<"peer_id", "PeerId">>,
         <<"seal_proof_type", "RegisteredProof">>, <<"sector_size", "u64">>,
         <<"window_post_partition_sectors", "u64">>>>)
WorkerKeyChange == Derived(<<<<"new_worker", "Address">>, <<"effective_at", "i64">>>>)
SectorPreCommitInfo == Derived(
    <<<<"registered_proof", "RegisteredProof">>, <<"sector_number", "u64">>, <<"sealed_cid", "Cid">>,
      <<"seal_rand_epoch", "i64">>, <<"deal_ids", "Vec<u64>">>, <<"expiration", "i64">>>>)

Structs ==
    [Ticket |-> Ticket, ElectionProof |-> ElectionProof, BeaconEntry |-> BeaconEntry,
     MsgMeta |-> MsgMeta, BlockHeader |-> BlockHeader, Block |-> Block, BlockMsg |-> BlockMsg,
     Tipset |-> Tipset, UnsignedMessage |-> UnsignedMessage, SignedMessage |-> SignedMessage,
     MessageReceipt |-> MessageReceipt, Actor |-> Actor, PieceInfo |-> PieceInfo,
     SectorId |-> SectorId, SectorInfo |-> SectorInfo, PoStProof |-> PoStProof,
     WinningPoStVerifyInfo |-> WinningPoStVerifyInfo, WindowPoStVerifyInfo |-> WindowPoStVerifyInfo,
     SealVerifyInfo |-> SealVerifyInfo, ProveCommitSectorParams |-> ProveCommitSectorParams,
     State |-> State, MinerInfo |-> MinerInfo, WorkerKeyChange |-> WorkerKeyChange,
     SectorPreCommitInfo |-> SectorPreCommitInfo]

Vecs == ("Vec<Cid>" :> "Cid") @@ ("Vec<u64>" :> "u64") @@ ("Vec<BeaconEntry>" :> "BeaconEntry")
     @@ ("Vec<PoStProof>" :> "PoStProof") @@ ("Vec<SectorInfo>" :> "SectorInfo")
     @@ ("Vec<BlockHeader>" :> "BlockHeader") @@ ("Vec<UnsignedMessage>" :> "UnsignedMessage")
     @@ ("Vec<SignedMessage>" :> "SignedMessage")

-----------------------------------------------------------------------------
(* Codecs of single items: the bytes of what has a conversion of its own.  *)
(* Decoders answer the value or an error.                                  *)

be_bytes[n \in Nat] == IF n = 0 THEN <<>> ELSE Append(be_bytes[n \div 256], n % 256)
from_be_bytes(s) ==
    LET upTo[i \in 0 .. Len(s)] == IF i = 0 THEN 0 ELSE upTo[i - 1] * 256 + s[i] IN upTo[Len(s)]

\* A sign, then the magnitude; zero is no bytes at all.  (The mutant writes no sign for
\* positive numbers.)
bigint_encode_NoSign(n) == IF n < 0 THEN <<1>> \o be_bytes[-n] ELSE be_bytes[n]
bigint_encode(n) == IF n > 0 THEN <<0>> \o be_bytes[n]
                    ELSE IF n < 0 THEN <<1>> \o be_bytes[-n]
                    ELSE <<>>
bigint_decode(v) == IF v = <<>> THEN Got(0, <<>>)
                    ELSE IF v[1] \notin {0, 1} THEN Err("big int prefix should be either 0 or 1")
                    ELSE Got((IF v[1] = 0 THEN 1 ELSE -1) * from_be_bytes(Tail(v)), <<>>)

SignatureType == [secp256k1 |-> 1, bls |-> 2]
signature_encode(s) == <<SignatureType[s.type]>> \o s.data
signature_decode(v) ==
    IF v = <<>> THEN Panic("index out of bounds")
    ELSE IF v[1] \notin {1, 2} THEN Err("expected signature type")
    ELSE Got([type |-> CHOOSE t \in DOMAIN SignatureType : SignatureType[t] = v[1],
              data |-> Tail(v)], <<>>)

h256_decode(v) == IF Len(v) # 32 THEN Err("H256 length must be 32 Bytes") ELSE Got(v, <<>>)

address_decode(v) == LET a == Addr!new_from_bytes(v)
                     IN  IF "ok" \in DOMAIN a THEN Got(a.ok, <<>>) ELSE a

proof_decode(n) == IF Proofs!try_from(n) = {} THEN Err("unexpected registered proof")
                   ELSE Got(CHOOSE p \in Proofs!try_from(n) : TRUE, <<>>)

\* Printed and parsed as base58 text.
peer_id_encode(id) == <<"base58", id>>
peer_id_decode(v) == IF v[1] # "base58" THEN Err("Parse PeerId error") ELSE Got(v[2], <<>>)

\* RLE+, which brings back every field that has no more members than may be read
\* (RlePlus); behind the largest number the position overflows.
bitfield_encode(set) == <<"rle", set>>
bitfield_decode(v) == IF U64_MAX \in v[2] /\ OverflowChecks THEN Panic("overflow")
                      ELSE IF Cardinality(v[2]) > MaxSize THEN Err("RLE+ decode error")
                      ELSE Got(v[2], <<>>)

MajorOf == [u64 |-> "unsigned", u8 |-> "unsigned", bytes |-> "bytes", Cid |-> "cid",
            BitField |-> "bytes", H256 |-> "bytes", Address |-> "bytes", Signature |-> "bytes",
            BigInt |-> "bytes", RegisteredProof |-> "unsigned", PeerId |-> "text"]

EncodeItem(codec, v) ==
    CASE codec = "i64" -> IF v < 0 THEN Item("negative", -1 - v) ELSE Item("unsigned", v)
      [] codec = "Address" -> Item("bytes", Addr!as_bytes(v))
      [] codec = "Signature" -> Item("bytes", signature_encode(v))
      [] codec = "BigInt" -> Item("bytes", bigint_encode(v))
      [] codec = "RegisteredProof" -> Item("unsigned", Proofs!Number[v])
      [] codec = "PeerId" -> Item("text", peer_id_encode(v))
      [] codec = "BitField" -> Item("bytes", bitfield_encode(v))
      [] OTHER -> Item(MajorOf[codec], v)

DecodeItem(codec, item) ==
    IF codec = "i64"
    THEN CASE item.major = "unsigned" -> Got(item.value, <<>>)
           [] item.major = "negative" -> Got(-1 - item.value, <<>>)
           [] OTHER -> Err("type mismatch")
    ELSE IF item.major # MajorOf[codec] THEN Err("type mismatch")
    ELSE CASE codec = "u8" -> IF item.value > 255 THEN Err("overflow") ELSE Got(item.value, <<>>)
           [] codec = "Address" -> address_decode(item.value)
           [] codec = "Signature" -> signature_decode(item.value)
           [] codec = "BigInt" -> bigint_decode(item.value)
           [] codec = "H256" -> h256_decode(item.value)
           [] codec = "RegisteredProof" -> proof_decode(item.value)
           [] codec = "PeerId" -> peer_id_decode(item.value)
           [] codec = "BitField" -> bitfield_decode(item.value)
           [] OTHER -> Got(item.value, <<>>)

-----------------------------------------------------------------------------
(* Encoder and decoder: arrays of what they are made of.                   *)

RECURSIVE Encode(_, _)
RECURSIVE EncodeAll(_, _)
Encode(codec, v) ==
    CASE codec \in DOMAIN Vecs ->
            <<Item("array", Len(v))>> \o EncodeAll([i \in DOMAIN v |-> Vecs[codec]], v)
      [] codec \in DOMAIN Structs ->
            LET fields == Structs[codec].write
            IN  <<Item("array", Structs[codec].announces)>> \o
                EncodeAll([i \in DOMAIN fields |-> fields[i][2]],
                          [i \in DOMAIN fields |-> v[fields[i][1]]])
      [] OTHER -> <<EncodeItem(codec, v)>>
EncodeAll(codecs, vs) ==
    IF vs = <<>> THEN <<>> ELSE Encode(Head(codecs), Head(vs)) \o EncodeAll(Tail(codecs), Tail(vs))

\* A decoder takes what it needs from the front of the wire; the first failure ends it.
RECURSIVE Decode(_, _)
RECURSIVE DecodeAll(_, _, _)
Decode(codec, wire) ==
    IF wire = <<>> THEN Err("end of input")
    ELSE IF codec \in DOMAIN Vecs \cup DOMAIN Structs /\ wire[1].major # "array"
    THEN Err("type mismatch")
    ELSE CASE codec \in DOMAIN Vecs ->
                DecodeAll([i \in 1 .. wire[1].value |-> Vecs[codec]], Tail(wire), <<>>)
           [] codec \in DOMAIN Structs ->
                LET s == Structs[codec]
                    all == DecodeAll([i \in DOMAIN s.read |-> s.read[i][2]], Tail(wire), <<>>)
                    At(f) == CHOOSE i \in DOMAIN s.read : s.read[i][1] = f
                IN  IF s.asserts \notin {AnyLength, wire[1].value} THEN Panic("assertion failed")
                    ELSE IF "ok" \notin DOMAIN all THEN all
                    ELSE Got([f \in {s.read[i][1] : i \in DOMAIN s.read} |-> all.ok[At(f)]], all.rest)
           [] OTHER -> LET one == DecodeItem(codec, wire[1])
                       IN  IF "ok" \in DOMAIN one THEN Got(one.ok, Tail(wire)) ELSE one
DecodeAll(codecs, wire, done) ==
    IF codecs = <<>> THEN Got(done, wire)
    ELSE LET one == Decode(Head(codecs), wire)
         IN  IF "ok" \notin DOMAIN one THEN one
             ELSE DecodeAll(Tail(codecs), one.rest, Append(done, one.ok))

-----------------------------------------------------------------------------
(* Identifiers: the hash of the encoding; a BLS message is known by the    *)
(* message alone, since its signature is aggregated into the block's.      *)

Digest(wire) == <<"cid", wire>>
cid(type, v) == Digest(Encode(type, v))
signed_message_cid_Always(m) == cid("SignedMessage", m)
signed_message_cid(m) ==
    IF m.signature.type = "bls" THEN cid("UnsignedMessage", m.message) ELSE cid("SignedMessage", m)

-----------------------------------------------------------------------------
(* Properties, of a value v of a type and of what follows it on the wire.  *)

\* The bit fields of a state that can be read back: encoding sets no limit, decoding
\* does.
Readable(type, v) == type = "State" =>
    \A f \in {"new_sectors", "faults", "recoveries", "post_submissions"} :
        Cardinality(v[f]) <= MaxSize /\ ~(OverflowChecks /\ U64_MAX \in v[f])

\* A value is read back as it was written, and the decoder stops where it ends, so
\* what follows it can be read too; a state whose bit fields are not readable is
\* refused, never misread.
WireRoundTrip(type, v, after) ==
    LET read == Decode(type, Encode(type, v) \o after)
    IN  IF Readable(type, v) THEN read = Got(v, after) ELSE "ok" \notin DOMAIN read

\* Cut anywhere, an encoding is an error, never another value and never a panic.
CutIsNoticed(type, v) ==
    LET wire == Encode(type, v)
    IN  Readable(type, v) =>
            \A n \in 0 .. Len(wire) - 1 : "err" \in DOMAIN Decode(type, SubSeq(wire, 1, n))

\* Two signed messages have one identifier exactly when they are the same, or carry
\* the same message under BLS signatures.
MessageIdentity(m, n) ==
    signed_message_cid(m) = signed_message_cid(n) <=>
        \/ m = n
        \/ m.message = n.message /\ m.signature.type = "bls" /\ n.signature.type = "bls"
=============================================================================
