------------------------------- MODULE Address -------------------------------
(***************************************************************************)
(* Addresses (primitives/address): their bytes, which CBOR carries, and    *)
(* their text, which JSON and people carry, with a network prefix and, but *)
(* for ID addresses, a checksum.                                           *)
(*                                                                         *)
(* A payload is its length and its content: the bytes of a varint for an   *)
(* ID address, a name for a hash or a key.                                 *)
(***************************************************************************)
EXTENDS Integers, Sequences

CONSTANT U64_MAX      \* 2^64 - 1 in the code

PAYLOAD_HASH_LEN == 20
BLS_PUBLIC_KEY_LEN == 48
CHECKSUM_HASH_LEN == 4
MAX_ADDRESS_STRING_LEN == 2 + 84
MAX_U64_LEN == 20
SECP256K1_PUBLIC_KEY_LENS == {65, 64, 33}

Protocol == [Id |-> 0, Secp256k1 |-> 1, Actor |-> 2, Bls |-> 3]
Protocols == DOMAIN Protocol
try_from(n) == {p \in Protocols : Protocol[p] = n}

NETWORK_PREFIX == [Main |-> "f", Test |-> "t"]

Ok(a) == [ok |-> a]
Err(e) == [err |-> e]
Panic(why) == [panic |-> why]

-----------------------------------------------------------------------------
(* Making addresses.                                                       *)

Payload(len, content) == [len |-> len, content |-> content]
Address(protocol, payload) == [protocol |-> protocol, payload |-> payload]

PayloadLen == [Secp256k1 |-> PAYLOAD_HASH_LEN, Actor |-> PAYLOAD_HASH_LEN,
               Bls |-> BLS_PUBLIC_KEY_LEN]
new(protocol, payload) ==
    IF protocol # "Id" /\ payload.len # PayloadLen[protocol] THEN Err("InvalidPayload")
    ELSE Ok(Address(protocol, payload))

\* unsigned_varint: seven bits in each byte, the low ones first, the high bit set on all
\* but the last.  (Bytes cut off before the last are an error there, which no address
\* made here meets; here they count for nothing.)
varint_encode[id \in Nat] ==
    IF id < 128 THEN <<id>> ELSE <<128 + (id % 128)>> \o varint_encode[id \div 128]
varint_decode[bytes \in Seq(0 .. 255)] ==
    IF bytes = <<>> THEN 0
    ELSE IF bytes[1] < 128 THEN bytes[1] ELSE (bytes[1] % 128) + 128 * varint_decode[Tail(bytes)]

new_id_addr(id) == new("Id", Payload(Len(varint_encode[id]), varint_encode[id]))

\* blake2b_variable to 20 bytes.
address_hash(ingest) == Payload(PAYLOAD_HASH_LEN, <<"hash", ingest>>)
new_secp256k1_addr(pubkey) ==
    IF pubkey.len \notin SECP256K1_PUBLIC_KEY_LENS THEN Err("InvalidPayload")
    ELSE new("Secp256k1", address_hash(pubkey))
new_actor_addr(data) == new("Actor", address_hash(data))
new_bls_addr(pubkey) == new("Bls", pubkey)

\* What each of them makes of an ID, a key or data.
Made(protocol, of) ==
    CASE protocol = "Id" -> new_id_addr(of)
      [] protocol = "Secp256k1" -> new_secp256k1_addr(of)
      [] protocol = "Actor" -> new_actor_addr(of)
      [] protocol = "Bls" -> new_bls_addr(of)

-----------------------------------------------------------------------------
(* Bytes: the number of the protocol, then the payload.                    *)

as_bytes(a) == [len |-> 1 + a.payload.len, first |-> Protocol[a.protocol], rest |-> a.payload]

\* (The mutant takes the protocols in another order.)
new_from_bytes_Swapped(addr) ==
    IF addr.len <= 1 THEN Err("InvalidLength")
    ELSE IF try_from(addr.first) = {} THEN Err("UnknownProtocol")
    ELSE new(CHOOSE p \in Protocols : Protocol[p] = (<<0, 2, 1, 3>>)[addr.first + 1], addr.rest)
new_from_bytes(addr) ==
    IF addr.len <= 1 THEN Err("InvalidLength")
    ELSE IF try_from(addr.first) = {} THEN Err("UnknownProtocol")
    ELSE new(CHOOSE p \in Protocols : p \in try_from(addr.first), addr.rest)

as_id(a) == varint_decode[a.payload.content]

-----------------------------------------------------------------------------
(* Text: the network, the number of the protocol, and either an ID in      *)
(* decimal or payload and checksum in base32.                              *)

\* Four bytes of blake2b over protocol and payload.  (The mutant leaves the protocol
\* out.)
checksum_NoProtocol(bytes) == <<"checksum", bytes.rest>>
checksum(bytes) == <<"checksum", bytes.first, bytes.rest>>

\* What may follow the number of the protocol: digits, perhaps with a plus sign or zeros
\* before them; base32, in letters of either case; anything else.  (Digits that base32 has
\* too are too few for a payload, and a payload in base32 is too long for a number.)
Numeral(plus, zeros, id) == [kind |-> "digits", plus |-> plus, zeros |-> zeros, id |-> id]
Base32(letters, payload, sum) ==
    [kind |-> "base32", letters |-> letters, payload |-> payload, sum |-> sum]
Garbage(len) == [kind |-> "garbage", len |-> len]

\* A character of several bytes is the prefix "wide" or the digit -1.
Text(prefix, digit, raw) == [prefix |-> prefix, digit |-> digit, raw |-> raw]

Decimals[n \in Nat] == IF n < 10 THEN 1 ELSE 1 + Decimals[n \div 10]
base32_len(n) == (8 * n + 4) \div 5
raw_len(raw) ==
    CASE raw.kind = "digits" -> raw.plus + raw.zeros + Decimals[raw.id]
      [] raw.kind = "base32" -> base32_len(raw.payload.len + CHECKSUM_HASH_LEN)
      [] raw.kind = "garbage" -> raw.len
text_len(s) == (IF s.prefix = "wide" THEN 2 ELSE 1) + (IF s.digit = -1 THEN 2 ELSE 1) + raw_len(s.raw)

\* Letters are written small, and read in either case.
base32_encode(payload, sum) == Base32("small", payload, sum)
base32_decode(raw) == IF raw.kind = "base32" THEN Ok(raw) ELSE Err("Base32Decode")

\* str::parse::<u64>.
parse(raw) == IF raw.kind = "digits" /\ raw.id <= U64_MAX THEN Ok(raw.id) ELSE Err("ParseIntError")

Display(network, a) == Text(NETWORK_PREFIX[network], Protocol[a.protocol],
    IF a.protocol = "Id" THEN Numeral(0, 0, as_id(a)) ELSE base32_encode(a.payload, checksum(as_bytes(a))))

\* The four last bytes of what was decoded are the checksum: fewer than four make the
\* subtraction underflow.
new_with_check(protocol, raw, payload_size) ==
    LET decoded == base32_decode(raw)
    IN  IF "err" \in DOMAIN decoded THEN decoded
        ELSE IF decoded.ok.payload.len < 0 THEN Panic("underflow")
        ELSE IF decoded.ok.payload.len # payload_size THEN Err("InvalidPayload")
        ELSE IF decoded.ok.sum # checksum(as_bytes(Address(protocol, decoded.ok.payload)))
        THEN Err("InvalidChecksum")
        ELSE Ok(Address(protocol, decoded.ok.payload))

\* An ID.  (The mutant lets a number of 20 digits wrap.)
id_from_str_Unparsed(raw) ==
    IF raw_len(raw) > MAX_U64_LEN THEN Err("InvalidLength")
    ELSE IF raw.kind # "digits" THEN Err("InvalidPayload")
    ELSE new_id_addr(raw.id % (U64_MAX + 1))
id_from_str(raw) ==
    IF raw_len(raw) > MAX_U64_LEN THEN Err("InvalidLength")
    ELSE IF "err" \in DOMAIN parse(raw) THEN Err("InvalidPayload")
    ELSE new_id_addr(parse(raw).ok)

\* Slices of a text that end inside a character panic.
from_str(network, s) ==
    IF text_len(s) \notin 3 .. MAX_ADDRESS_STRING_LEN THEN Err("InvalidLength")
    ELSE IF s.prefix = "wide" THEN Panic("slice")
    ELSE IF s.prefix \notin {"f", "t"} THEN Err("UnknownNetwork")
    ELSE IF s.prefix # NETWORK_PREFIX[network] THEN Err("MismatchNetwork")
    ELSE IF s.digit = -1 THEN Panic("slice")
    ELSE IF try_from(s.digit) = {} THEN Err("UnknownProtocol")
    ELSE IF s.digit = 0 THEN id_from_str(s.raw)
    ELSE LET protocol == CHOOSE p \in Protocols : p \in try_from(s.digit)
         IN  new_with_check(protocol, s.raw, PayloadLen[protocol])

-----------------------------------------------------------------------------
(* Properties, of the addresses that were made, texts s, and the networks  *)
(* the writer and the reader are set to.                                   *)

\* Bytes bring back the address they were made from, whatever the network; text does
\* so on its own network and is refused on the other, never misread.
AddressComesBack(made, writer, reader) == "ok" \in DOMAIN made =>
    /\ new_from_bytes(as_bytes(made.ok)) = made
    /\ from_str(reader, Display(writer, made.ok)) =
          IF writer = reader THEN made ELSE Err("MismatchNetwork")

\* A text that is accepted is the text of the address it gives, but for a plus sign and
\* zeros before an ID and for the case of letters; another protocol's number, another
\* payload, another checksum or a number that is no u64 is noticed.
Plain(s) == [s EXCEPT !.raw = IF s.digit = 0 THEN Numeral(0, 0, @.id) ELSE base32_encode(@.payload, @.sum)]
TextIsOwn(s, network) ==
    LET read == from_str(network, s)
    IN  "ok" \in DOMAIN read =>
            /\ Display(network, read.ok) = Plain(s)
            /\ \A d \in 1 .. 3 \ {s.digit} :
                   "ok" \notin DOMAIN from_str(network, [s EXCEPT !.digit = d])
=============================================================================
