---------------------------- MODULE MCComponents ----------------------------
(***************************************************************************)
(* The small components, for TLC, with two things besides: the decoder of  *)
(* bit fields as one more subject, and questions on a topic of which only  *)
(* bounded arguments are checked: CBOR.                                    *)
(***************************************************************************)
EXTENDS Components, ChainValues, KeyQuestions, FiniteSets, TLC

VARIABLES field, data, helper                                             \* RlePlus
rleVars == <<field, data, helper>>

\* Runs of up to 20 members that begin and end where the forms of a block change, and
\* fields with members up to the largest number.
Edges == {0, 1, 3, 15, 16, 17, 160, 162}
Spans == {a .. b : <<a, b>> \in {e \in Edges \X Edges : e[2] - e[1] < 20}}
FarFields == {{0, 2^14 + 1}, {2^21, 2^28 + 3}, {1, U64_MAX - 1}, {U64_MAX}, {0, U64_MAX},
              {U64_MAX - 2, U64_MAX - 1, U64_MAX}}

\* Bytes of any kind, bytes of a long block that do not end, and long blocks of zeros of
\* more bits than a number has with single, small and long blocks behind them.
Bits(n, count) == [i \in 1 .. count |-> (n \div 2^(i - 1)) % 2]
Filled(bits) == bits \o [i \in 1 .. (-Len(bits)) % 8 |-> 0]
Far(top) == <<0, 0>> \o Bits(255, 8) \o Bits(255, 8) \o Bits(255, 8) \o Bits(255, 8) \o Bits(top, 8)
ForeignBytes == {Bits(n, 16) : n \in 0 .. 2047} \cup {Bits(n, 8) : n \in 0 .. 255}
                \cup {<<>>, [i \in 1 .. 104 |-> IF i \in 6 .. 93 THEN 1 ELSE 0]}
                \cup {Filled(<<0, 0, 0>> \o Far(top) \o block \o rest) : top \in {0, 1, 3, 126, 127},
                       block \in {<<1>>, <<0, 1, 1, 0, 1, 0>>, <<0, 0>> \o Bits(20, 8)},
                       rest \in {<<1>>, Far(1) \o <<1>>}}

Rle == INSTANCE RlePlus WITH Fields <- {r \cup s : r \in Spans, s \in Spans} \cup FarFields,
                             Foreign <- ForeignBytes, MaxSize <- 30, U64_BITS <- 29
Cbor == INSTANCE ChainCbor WITH MaxSize <- 2, OverflowChecks <- TRUE

\* The lists of prices that follow the first.
Later(base, per_byte) == [on_chain_message_base |-> base, on_chain_message_per_byte |-> per_byte]
TwoLaterPrices == (2 :> Later(1, 3)) @@ (5 :> Later(4, 0))

-----------------------------------------------------------------------------
(* Arguments of the questions.                                             *)

\* Strings of up to four of the characters that keys tell apart, and the keys they make.
Strings(n) == UNION {[1 .. k -> {".", "/", ":", "a"}] : k \in 0 .. n}
KeysOf(n) == {Key!new(s) : s \in Strings(n)}
FewKeys == KeysOf(3)
ManyKeys == FewKeys \cup {k \in KeysOf(4) : Len(k) = 4 /\ k[3] = "/"}
            \cup {<<"/", "a", "/", "a", "/", "a">>, <<"/", ":", "/", "a", "/", "a">>,
                  <<"/", "a", "a", "/", ":">>}

\* IDs at the edges of the bytes of a varint, and what other addresses are made of: keys
\* of right and wrong lengths.
Ids == {0, 1, 127, 128, 16383, 16384, 2097152, U64_MAX}
Ingredients == ({"Id"} \X Ids)
    \cup ({"Secp256k1", "Actor", "Bls"} \X {Addr!Payload(n, "key") : n \in {7, 33, 48, 64, 65}})

\* Texts: IDs with a sign and zeros before them, the first numbers that are no u64, and
\* payloads of right and wrong lengths with the checksum of some protocol or none.
Payloads == {Addr!Payload(n, c) : n \in {-1, 0, 19, 20, 21, 47, 48, 49}, c \in {"key", "data"}}
Sums(payload) == {<<"checksum">>} \cup {Addr!checksum(Addr!as_bytes(Addr!Address(p, payload))) :
                                        p \in Addr!Protocols}
Raws == {Addr!Numeral(plus, z, id) : plus \in {0, 1}, z \in {0, 1, 19, 20}, id \in Ids \cup {U64_MAX + 1, U64_MAX + 2}}
        \cup UNION {{Addr!Base32(l, p, sum) : l \in {"small", "mixed"}, sum \in Sums(p)} : p \in Payloads}
        \cup {Addr!Garbage(n) : n \in {0, 1, 20, 21, 84, 85}}
Texts == {Addr!Text(n, d, r) : n \in {"f", "t", "x", "wide"}, d \in -1 .. 4, r \in Raws}

\* Piece sizes at and beside the powers of two and their multiples of 127, up to the
\* largest.
PieceSizes == (0 .. 300) \cup {n \in {b * 2^i + d : b \in {127, 128}, i \in 0 .. 22, d \in {-1, 0, 1}} : n <= U64_MAX}

\* Values of the CBOR types: every leaf in three forms, and values whose fields are all
\* of the first form but one.
Leaf(codec, k) ==
    CASE codec \in {"u64", "u8"} -> (<<0, 23, 255>>)[k]
      [] codec = "i64" -> (<<0, -1, 300>>)[k]
      [] codec = "bytes" -> (<<<<>>, <<1>>, <<2, 0>>>>)[k]
      [] codec = "Cid" -> (<<"c1", "c2", "c3">>)[k]
      [] codec = "BitField" -> (<<{}, {0, 9}, {5, 6, 9}>>)[k]
      [] codec = "H256" -> [i \in 1 .. 32 |-> k]
      [] codec = "Address" -> (<<Addr!new_id_addr(128), Addr!new_bls_addr(Addr!Payload(48, "key")),
                                 Addr!new_actor_addr(Addr!Payload(7, "data"))>>)[k].ok
      [] codec = "Signature" -> [type |-> (<<"secp256k1", "bls", "bls">>)[k],
                                 data |-> (<<<<>>, <<3>>, <<>>>>)[k]]
      [] codec = "BigInt" -> (<<0, -256, 128>>)[k]
      [] codec = "RegisteredProof" ->
            (<<"StackedDRG2KiBSeal", "StackedDRG64GiBWindowPoSt", "StackedDRG32GiBWinningPoSt">>)[k]
      [] codec = "PeerId" -> (<<"p1", "p2", "p3">>)[k]
Types == DOMAIN Cbor!Structs
FieldsOf(type) == Cbor!Structs[type].write
RECURSIVE Sample(_, _)
Sample(codec, k) ==
    IF codec \in DOMAIN Cbor!Vecs THEN [i \in 1 .. k - 1 |-> Sample(Cbor!Vecs[codec], i)]
    ELSE IF codec \notin Types THEN Leaf(codec, k)
    ELSE LET fs == FieldsOf(codec)
         IN  [f \in {fs[i][1] : i \in DOMAIN fs} |->
                 Sample(fs[CHOOSE i \in DOMAIN fs : fs[i][1] = f][2], k)]
ValuesOf(type) == LET fs == FieldsOf(type) IN
    {Sample(type, k) : k \in 1 .. 3} \cup
    {[Sample(type, 1) EXCEPT ![fs[i][1]] = Sample(fs[i][2], k)] : i \in DOMAIN fs, k \in 2 .. 3} \cup
    {[Sample(type, 1) EXCEPT !.faults = s] : s \in IF type = "State" THEN {{U64_MAX}} ELSE {}}
Afters == {<<>>, <<Cbor!Item("array", 2)>>, <<Cbor!Item("unsigned", 1), Cbor!Item("bytes", <<>>)>>}
SignedMessages == {[message |-> m, signature |-> s] : m \in {Sample("UnsignedMessage", k) : k \in 1 .. 3},
                                                      s \in {Leaf("Signature", k) : k \in 1 .. 3}}

\* Blocks, their CID standing for the whole of them, and sequences of up to three.
Blocks == [ticket : {1, 2}, cid : {1, 2, 3}, height : {1, 2}, parents : {<<>>, <<1>>, <<1, 2>>},
           timestamp : {1}]
SameHeight == {b \in Blocks : b.height = 1 /\ b.parents # <<>>}
BlockSeqs == {bs \in {<<>>} \cup (Blocks \X Blocks) \cup (SameHeight \X SameHeight \X SameHeight) : IsHashed(bs)}

Messages == [version : {0, 1}, value : {-1, 0, 3, 4}, gas_price : -1 .. 1,
             gas_limit : {-1, 0, 2, 11, 12, 13}]

AllTopics == {"making keys", "keys", "prefixes", "addresses", "texts", "pieces", "proofs", "cbor",
              "identity", "tipsets", "messages", "sides", "rle"}
BoundedQuestions(topic) ==
    CASE topic = "making keys" -> Strings(4) \X KeysOf(2) \X KeysOf(1)
      [] topic = "keys" -> ManyKeys \X ManyKeys \X {ManyKeys}
      [] topic = "prefixes" -> FewKeys \X FewKeys \X FewKeys
      [] topic = "addresses" -> {<<i[1], i[2], w, r>> : i \in Ingredients, w \in Networks, r \in Networks}
      [] topic = "texts" -> Texts \X Networks
      [] topic = "pieces" -> {<<n>> : n \in PieceSizes}
      [] topic = "proofs" -> Sect!RegisteredProofs \X Sect!RegisteredProofs
      [] topic = "cbor" -> UNION {{type} \X ValuesOf(type) \X Afters : type \in Types}
      [] topic = "identity" -> SignedMessages \X SignedMessages
      [] topic = "tipsets" -> UNION {{bs} \X Orders(bs) : bs \in BlockSeqs}
      [] topic = "messages" -> Messages \X (0 .. 4) \X (0 .. 6)
      [] topic = "sides" -> Codec!RPCRequest \X Codec!RPCRequest \X Codec!RPCErrorResponse
                                \X DOMAIN Codec!GoodbyeReason
      [] topic = "rle" -> {}

-----------------------------------------------------------------------------
(* Behaviours: those of the components side by side, with the decoder of   *)
(* bit fields, which has variables nobody else looks at.                   *)

Nobody == "nobody looks"
MCStart == /\ Start
           /\ IF subject = "rle" THEN Rle!Init ELSE field = Nobody /\ data = Nobody /\ helper = Nobody
MCStep == \/ Step /\ UNCHANGED rleVars
          \/ subject = "rle" /\ Rle!Next /\ UNCHANGED allVars
MCSpec == MCStart /\ [][MCStep]_<<allVars, rleVars>>

-----------------------------------------------------------------------------
(* Properties: those of the components, each of its subject.               *)

\* Every type of the chain is read back as it was written and no further, but for a
\* state with a bit field that is too large to be read, which is refused; an encoding
\* cut anywhere is an error (Encode, Decode), and signed messages share a CID only when
\* they should (SignedMessage::cid).
CborComesBack ==
    /\ Asked("cbor") => Cbor!WireRoundTrip(probe[1], probe[2], probe[3])
    /\ Asked("cbor") /\ probe[3] = <<>> => Cbor!CutIsNoticed(probe[1], probe[2])
    /\ Asked("identity") => Cbor!MessageIdentity(probe[1], probe[2])

\* A bit field comes back from its bytes (encode and decode), block by block, and the
\* decoder stays inside whatever bytes it is given (decode).
BitFieldsComeBack == subject = "rle" =>
    Rle!RoundTrip /\ Rle!DecodingKeepsPlace /\ Rle!StaysInside
=============================================================================
