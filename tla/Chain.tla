-------------------------------- MODULE Chain --------------------------------
(***************************************************************************)
(* Tipsets made from block headers (primitives/tipset), and what a message *)
(* must satisfy to enter a block (primitives/message) at the gas prices of *)
(* the epoch (vm).                                                         *)
(*                                                                         *)
(* A block is its ticket, its CID, its height, its timestamp and its       *)
(* parents; tickets and CIDs are numbers, for their order.                 *)
(***************************************************************************)
EXTENDS Integers, Sequences, FiniteSets

Ok(v) == [ok |-> v]
Err(why) == [err |-> why]
Panic(why) == [panic |-> why]

-----------------------------------------------------------------------------
(* Tipsets.                                                                *)

\* By ticket, then by CID.  (The mutant leaves blocks with one ticket as they came.)
Before_TicketOnly(b, c) == b.ticket < c.ticket
Before(b, c) == b.ticket < c.ticket \/ (b.ticket = c.ticket /\ b.cid < c.cid)

\* A stable sort: the place of a block is after those it is not before.
Sorted(blocks) ==
    LET Place(i) == 1 + Cardinality({j \in DOMAIN blocks :
                            \/ Before(blocks[j], blocks[i])
                            \/ (j < i /\ ~Before(blocks[i], blocks[j]))})
    IN  [p \in DOMAIN blocks |-> blocks[CHOOSE i \in DOMAIN blocks : Place(i) = p]]

\* What is wrong with one block, next to the first: parents are compared one by one,
\* and the first must have as many.  (The mutant compares the first parent only.)
Fault_FirstParent(first, b) ==
    IF b.height # first.height THEN Err("MismatchingHeight")
    ELSE IF b.parents # <<>> /\ first.parents # <<>> /\ b.parents[1] # first.parents[1]
    THEN Err("MismatchingParent")
    ELSE Ok(b)
Fault(first, b) ==
    IF b.height # first.height THEN Err("MismatchingHeight")
    ELSE LET wrong == {i \in DOMAIN b.parents :
                          i \notin DOMAIN first.parents \/ b.parents[i] # first.parents[i]}
             i == CHOOSE i \in wrong : \A j \in wrong : i <= j
         IN  IF wrong = {} THEN Ok(b)
             ELSE IF i \notin DOMAIN first.parents THEN Panic("index out of bounds")
             ELSE Err("MismatchingParent")

Tipset(blocks) ==
    IF blocks = <<>> THEN Err("EmptyBlocks")
    ELSE LET sorted == Sorted(blocks)
             faulty == {i \in DOMAIN sorted : "ok" \notin DOMAIN Fault(sorted[1], sorted[i])}
         IN  IF faulty # {}
             THEN Fault(sorted[1], sorted[CHOOSE i \in faulty : \A j \in faulty : i <= j])
             ELSE Ok([key |-> [i \in DOMAIN sorted |-> sorted[i].cid], blocks |-> sorted,
                      height |-> sorted[1].height])

contains(ts, cid) == \E i \in DOMAIN ts.key : ts.key[i] = cid
parents(ts) == ts.blocks[1].parents

\* The first of the blocks with the least ticket.
min_ticket_block(ts) ==
    ts.blocks[CHOOSE i \in DOMAIN ts.blocks :
        /\ \A j \in DOMAIN ts.blocks : ts.blocks[i].ticket <= ts.blocks[j].ticket
        /\ \A j \in 1 .. i - 1 : ts.blocks[i].ticket < ts.blocks[j].ticket]
min_timestamp(ts) == CHOOSE t \in {ts.blocks[i].timestamp : i \in DOMAIN ts.blocks} :
                         \A i \in DOMAIN ts.blocks : t <= ts.blocks[i].timestamp

-----------------------------------------------------------------------------
(* Messages and gas.  Amounts are integers; TOTAL_FILECOIN and             *)
(* BLOCK_GAS_LIMIT are scaled down to the values of the model.             *)

CONSTANTS
    TOTAL_FILECOIN,
    BLOCK_GAS_LIMIT,
    LaterPrices         \* lists that follow the first: there are none yet

required_funds(m) == m.value + m.gas_price * m.gas_limit

\* (The mutant does not look at the price.)
validate_for_block_inclusion_AnyPrice(m, min_gas) ==
    IF m.version # 0 \/ m.value \notin 0 .. TOTAL_FILECOIN \/ m.gas_limit \notin min_gas .. BLOCK_GAS_LIMIT
    THEN Err("invalid") ELSE Ok(m)
validate_for_block_inclusion(m, min_gas) ==
    IF m.version # 0 THEN Err("version unsupported")
    ELSE IF m.value < 0 THEN Err("value field cannot be negative")
    ELSE IF m.value > TOTAL_FILECOIN THEN Err("value field cannot be greater than total filecoin supply")
    ELSE IF m.gas_price < 0 THEN Err("gas_price field cannot be negative")
    ELSE IF m.gas_limit > BLOCK_GAS_LIMIT THEN Err("gas_limit field cannot be greater than a block's gas limit")
    ELSE IF m.gas_limit < min_gas THEN Err("gas_limit field cannot be less than the cost of storing a message on chain")
    ELSE Ok(m)

\* The prices of the first list.
PricelistV0 ==
    [on_chain_message_base |-> 0, on_chain_message_per_byte |-> 2,
     on_chain_return_value_per_byte |-> 8, send_base |-> 5, send_transfer_funds |-> 5,
     send_invoke_method |-> 10, ipld_get_base |-> 10, ipld_get_per_byte |-> 1,
     ipld_put_base |-> 20, ipld_put_per_byte |-> 2, create_actor_base |-> 40,
     create_actor_extra |-> 500, delete_actor |-> -500, hashing_base |-> 5,
     hashing_per_byte |-> 2, compute_unsealed_sector_cid_base |-> 100, verify_seal_base |-> 2000,
     verify_post_base |-> 700, verify_consensus_fault |-> 10]

PRICES == [epoch \in {0} \cup DOMAIN LaterPrices |-> IF epoch = 0 THEN PricelistV0 ELSE LaterPrices[epoch]]

\* The list of the latest epoch not after this one; that of epoch 0 when none is.
\* (The mutant ends a list one epoch late.)
pricelist_by_epoch_Late(epoch) ==
    LET since == {e \in DOMAIN PRICES : e > 0 /\ e < epoch} \cup {0}
    IN  PRICES[CHOOSE e \in since : \A f \in since : f <= e]
pricelist_by_epoch(epoch) ==
    LET since == {e \in DOMAIN PRICES : e > 0 /\ e <= epoch} \cup {0}
    IN  PRICES[CHOOSE e \in since : \A f \in since : f <= e]

on_chain_message(prices, size) ==
    prices.on_chain_message_base + prices.on_chain_message_per_byte * size
on_chain_return_value(prices, size) == size * prices.on_chain_return_value_per_byte
on_method_invocation(prices, value, method_num) ==
    prices.send_base + (IF value # 0 THEN prices.send_transfer_funds ELSE 0)
                     + (IF method_num # 0 THEN prices.send_invoke_method ELSE 0)
on_ipld_get(prices, size) == prices.ipld_get_base + size * prices.ipld_get_per_byte
on_ipld_put(prices, size) == prices.ipld_put_base + size * prices.ipld_put_per_byte
\* (The mutant leaves out what is refunded later.)
on_create_actor_BaseOnly(prices) == prices.create_actor_base
on_create_actor(prices) == prices.create_actor_base + prices.create_actor_extra
on_delete_actor(prices) == prices.delete_actor
on_verify_signature(prices, sig_type, size) == 3 * size + 2
on_hashing(prices, size) == prices.hashing_base + size * prices.hashing_per_byte

-----------------------------------------------------------------------------
(* Properties.                                                             *)

\* A tipset, its key and the refusal of one do not depend on the order the blocks
\* arrived in: `other` is another order of `blocks`.
OrderDoesNotMatter(blocks, other) == Tipset(blocks) = Tipset(other)

\* Blocks of a tipset have one height, and no block has a parent that the first has
\* not in the same place; its key lists its blocks by ticket, the least one first.
TipsetAgrees(blocks) ==
    LET made == Tipset(blocks)
        ts == made.ok
    IN  "ok" \in DOMAIN made =>
            /\ \A i \in DOMAIN blocks :
                   /\ blocks[i].height = ts.height
                   /\ \A k \in DOMAIN blocks[i].parents :
                          k \in DOMAIN parents(ts) /\ blocks[i].parents[k] = parents(ts)[k]
                   /\ contains(ts, blocks[i].cid)
            /\ \A i, j \in DOMAIN ts.blocks : i < j => ts.blocks[i].ticket <= ts.blocks[j].ticket
            /\ min_ticket_block(ts) = ts.blocks[1]

\* A message that may enter a block can pay what it can cost: storing it is within its
\* gas limit, its limit within the block's, and the funds it requires are at least its
\* value, whatever price list holds.
IncludedIsPaid(m, size, epoch) ==
    LET min_gas == on_chain_message(pricelist_by_epoch(epoch), size)
    IN  "ok" \in DOMAIN validate_for_block_inclusion(m, min_gas) =>
            /\ on_chain_message(pricelist_by_epoch(epoch), size) \in 0 .. BLOCK_GAS_LIMIT
            /\ required_funds(m) >= m.value /\ m.value \in 0 .. TOTAL_FILECOIN

\* Deleting an actor refunds part of what creating one cost and no more, and what stays
\* paid covers the write of an empty state; nothing else earns gas.
RefundIsCovered(size) ==
    LET prices == pricelist_by_epoch(0)
    IN  /\ on_delete_actor(prices) < 0
        /\ on_create_actor(prices) + on_delete_actor(prices) >= on_ipld_put(prices, 0)
        /\ \A charge \in {on_chain_return_value(prices, size), on_ipld_get(prices, size),
                           on_ipld_put(prices, size), on_hashing(prices, size),
                           on_verify_signature(prices, "bls", size),
                           on_method_invocation(prices, size, size)} : charge >= 0

\* A price list holds from its epoch on, until the next one: at that very epoch it
\* holds already.
PricesFromTheirEpoch(epoch) ==
    \A e \in DOMAIN PRICES : 0 <= e /\ e <= epoch =>
        \/ pricelist_by_epoch(epoch) = PRICES[e]
        \/ \E f \in DOMAIN PRICES : e < f /\ f <= epoch
=============================================================================
