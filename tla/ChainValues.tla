----------------------------- MODULE ChainValues -----------------------------
(***************************************************************************)
(* Questions about values: those on addresses, tipsets, messages, pieces   *)
(* and registered proofs, and what their answers must be.                  *)
(***************************************************************************)
EXTENDS Inquiry, Integers, Sequences

CONSTANTS TOTAL_FILECOIN, BLOCK_GAS_LIMIT, LaterPrices                    \* Chain
CONSTANT U64_MAX                                                          \* Address, Sector

Ch == INSTANCE Chain
Addr == INSTANCE Address
Sect == INSTANCE Sector

-----------------------------------------------------------------------------
(* What may be asked.                                                      *)

\* No list of prices pays for a message that is stored on chain.
ASSUME PricesAssumption ==
    /\ TOTAL_FILECOIN \in Nat /\ BLOCK_GAS_LIMIT \in Nat
    /\ \A epoch \in DOMAIN LaterPrices :
          /\ epoch \in Int
          /\ LaterPrices[epoch].on_chain_message_base \in Nat
          /\ LaterPrices[epoch].on_chain_message_per_byte \in Nat

\* Block headers, a CID being that of one header only, and the orders they may come in.
Block == [ticket : Int, cid : Int, height : Int, parents : Seq(Int), timestamp : Int]
IsHashed(blocks) == \A i, j \in DOMAIN blocks : blocks[i].cid = blocks[j].cid => blocks[i] = blocks[j]
Orders(blocks) ==
    LET Places == DOMAIN blocks
    IN  {[i \in Places |-> blocks[p[i]]] :
             p \in {f \in [Places -> Places] : \A i, j \in Places : f[i] = f[j] => i = j}}

Message == [version : Int, value : Int, gas_price : Int, gas_limit : Int]

\* What addresses are made of: a u64 has at most 20 digits, the rest are bytes.
IsIngredient(protocol, of) ==
    IF protocol = "Id" THEN of \in 0 .. U64_MAX /\ Addr!Decimals[of] <= Addr!MAX_U64_LEN
    ELSE of = Addr!Payload(of.len, of.content)

\* Texts an address may be read from.
IsRaw(raw) ==
    \/ /\ raw.kind = "digits" /\ raw = Addr!Numeral(raw.plus, raw.zeros, raw.id)
       /\ raw.plus \in {0, 1} /\ raw.zeros \in Nat /\ raw.id \in Nat
    \/ /\ raw.kind = "base32" /\ raw = Addr!Base32(raw.letters, raw.payload, raw.sum)
       /\ raw.payload = Addr!Payload(raw.payload.len, raw.payload.content) /\ raw.payload.len \in Int
    \/ /\ raw.kind = "garbage" /\ raw = Addr!Garbage(raw.len)
       /\ raw.len \in Nat
IsText(s) == s = Addr!Text(s.prefix, s.digit, s.raw) /\ s.digit \in Int /\ IsRaw(s.raw)
Networks == DOMAIN Addr!NETWORK_PREFIX

ASSUME WidthAssumption == U64_MAX \in Nat

\* Questions have arguments of the operations they are put to.
ASSUME QuestionsAssumption ==
    /\ \A q \in Questions("tipsets") :
          q \in Seq(Block) \X Seq(Block) /\ IsHashed(q[1]) /\ q[2] \in Orders(q[1])
    /\ \A q \in Questions("addresses") :
          q[1] \in Addr!Protocols /\ IsIngredient(q[1], q[2]) /\ q[3] \in Networks /\ q[4] \in Networks
    /\ \A q \in Questions("texts") : IsText(q[1]) /\ q[2] \in Networks
    /\ \A q \in Questions("pieces") : q[1] \in 0 .. U64_MAX
    /\ \A q \in Questions("proofs") : q \in Sect!RegisteredProofs \X Sect!RegisteredProofs
    /\ \A q \in Questions("messages") : q \in Message \X Nat \X Nat

-----------------------------------------------------------------------------
(* Properties.                                                             *)

\* Values come back from their other forms, and no form stands for two: addresses from
\* bytes and text (Address), piece sizes from padding (UnpaddedPieceSize,
\* PaddedPieceSize), proofs from each other and their sector size (RegisteredProof).
ValuesComeBack ==
    /\ Asked("addresses") => Addr!AddressComesBack(Addr!Made(probe[1], probe[2]), probe[3], probe[4])
    /\ Asked("texts") => Addr!TextIsOwn(probe[1], probe[2])
    /\ Asked("pieces") => Sect!PaddingAgrees(probe[1])
    /\ Asked("proofs") => Sect!ProofsOfOneSize(probe[1], probe[2])

\* A tipset does not depend on the order its blocks arrive in; they agree, the least
\* ticket first (Tipset::new).
TipsetsAgree == Asked("tipsets") => /\ Ch!OrderDoesNotMatter(probe[1], probe[2])
                                    /\ Ch!TipsetAgrees(probe[1])

\* A message in a block pays for itself (validate_for_block_inclusion) at the prices of
\* its epoch, which hold from that very epoch (pricelist_by_epoch), and deleting an
\* actor never earns more than creating it cost (Pricelist).
MessagesPaid == Asked("messages") => /\ Ch!IncludedIsPaid(probe[1], probe[2], probe[3])
                                     /\ Ch!PricesFromTheirEpoch(probe[3])
                                     /\ Ch!RefundIsCovered(probe[2])
==============================================================================
