------------------------------ MODULE RlePlus -------------------------------
(***************************************************************************)
(* RLE+, the encoding of bit fields (primitives/bitfield): encode() writes *)
(* a set of numbers as the lengths of its alternating runs, decode() reads *)
(* them back block by block.  A vector of bytes is its sequence of bits,   *)
(* the low bit of each byte first.                                         *)
(***************************************************************************)
EXTENDS Integers, SequencesExt, FiniteSetsExt

CONSTANTS
    Fields,          \* the sets of numbers that get encoded
    Foreign,         \* vectors of bytes that encode() did not make
    MaxSize,         \* the most members decode() gives: OBJECT_MAX_SIZE in items
    U64_BITS         \* the bits of a number: 64 in the code

VARIABLES
    field,           \* the set that was encoded, or None
    data,            \* the bytes decode() works on
    helper           \* BitSetHelper and the local variables of decode()

vars == <<field, data, helper>>

None == {-1}
SMALL_BLOCK_LENGTH == 4
BYTE_LEN == 8
LONG_BLOCK_VALUE == 16
BYTE_SLICE_VALUE == 128
PACK_BYTE_SHIFT == 7
LARGEST == 2^U64_BITS - 1

-----------------------------------------------------------------------------
(* encode().                                                               *)

\* The bits of n, low bit first.
BitsOf(n, count) == [i \in 1 .. count |-> (n \div 2^(i - 1)) % 2]
Zeros(count) == [i \in 1 .. count |-> 0]

\* DynamicBitSet: push adds a bit, and the bytes are what has been pushed, filled up
\* with zeros.  (The mutant drops the byte that is not full.)
into_bytes_Whole(bits) == SubSeq(bits, 1, Len(bits) - (Len(bits) % BYTE_LEN))
into_bytes(bits) == bits \o Zeros((-Len(bits)) % BYTE_LEN)

get_periods(s) == FoldLeft(LAMBDA p, i :
    IF s[i] - s[i - 1] = 1 THEN [p EXCEPT ![Len(p)] = @ + 1]
    ELSE p \o <<s[i] - s[i - 1] - 1, 1>>,
    IF s = <<>> THEN <<>> ELSE IF s[1] = 0 THEN <<1>> ELSE <<s[1], 1>>,
    [i \in 1 .. Len(s) - 1 |-> i + 1])

push_small_block(block) == <<0, 1>> \o BitsOf(block, SMALL_BLOCK_LENGTH)

\* Seven bits in each byte, the low ones first; the high bit says that more follow.
push_byte(byte) == BitsOf(byte, BYTE_LEN)
RECURSIVE push_slices(_)
push_slices(slice) ==
    IF slice < BYTE_SLICE_VALUE THEN push_byte(slice)
    ELSE push_byte((slice % BYTE_SLICE_VALUE) + BYTE_SLICE_VALUE) \o push_slices(slice \div 2^PACK_BYTE_SHIFT)
push_long_block(block) == <<0, 0>> \o push_slices(block)

push_block(value) == IF value = 1 THEN <<1>>
                     ELSE IF value < LONG_BLOCK_VALUE THEN push_small_block(value)
                     ELSE push_long_block(value)

\* BTreeSet::iter
RECURSIVE Ascending(_)
Ascending(set) == IF set = {} THEN <<>> ELSE <<Min(set)>> \o Ascending(set \ {Min(set)})
encode(set) ==
    LET periods == get_periods(Ascending(set))
        flag == IF 0 \in set THEN 1 ELSE 0
    IN  into_bytes(<<0, 0, flag>> \o FlattenSeq([i \in DOMAIN periods |-> push_block(periods[i])]))

-----------------------------------------------------------------------------
(* decode().                                                               *)

\* Of the output, the numbers and how many were pushed; `wrapped` remembers that value
\* went past the largest number.
Idle == [status |-> "idle", index |-> 0, magnitude |-> FALSE, value |-> 0, wrapped |-> FALSE,
         output |-> {}, pushed |-> 0]
Init == field = None /\ data = <<>> /\ helper = Idle

\* get_span fails when the data ends before the span, else its bits are a number.
Fits(count) == helper.index + count <= Len(data)
BitAt(i) == data[i + 1]
get_span(from, count) == FoldLeft(LAMBDA n, i : n + BitAt(from + i) * 2^i, 0,
                                  [i \in 1 .. count |-> i - 1])
Fails(error) == helper' = [helper EXCEPT !.status = error]

\* Data to decode: what encode() made, or bytes from elsewhere.
start ==
    /\ helper.status = "idle"
    /\ \/ \E set \in Fields : field' = set /\ data' = encode(set)
       \/ \E d \in Foreign : field' = None /\ data' = d
    /\ helper' = [Idle EXCEPT !.status = "header"]

\* The version, of which only 1 is refused, and the value of the first run.
decode_header ==
    /\ helper.status = "header"
    /\ IF ~Fits(2) THEN Fails("DataIndexFailure")
       ELSE IF get_span(0, 2) = 1 THEN Fails("VersionMismatch")
       ELSE helper' = [helper EXCEPT !.status = "blocks", !.index = 3,
                                     !.magnitude = get_span(2, 1) = 1]
    /\ UNCHANGED <<field, data>>

\* find_next(index - 1).is_some(): a bit is set at or after index.
MoreBlocks == \E i \in helper.index .. Len(data) - 1 : BitAt(i) = 1
InBlocks == helper.status = "blocks" /\ MoreBlocks

\* A run of the given length that ends at bit `end`, of which the first `given` numbers
\* are pushed if it is one of members.  Past the largest number value wraps, or panics
\* where overflow is checked.  (The mutant: a run of members loses its last one.)
Passed(length, given, end) ==
    LET wraps == helper.value + length > LARGEST
        members == {i % (LARGEST + 1) : i \in helper.value .. helper.value + given - 1}
    IN  {[helper EXCEPT !.index = end, !.magnitude = ~@,
                        !.value = (@ + length) % (LARGEST + 1), !.wrapped = @ \/ wraps,
                        !.output = IF helper.magnitude THEN @ \cup members ELSE @,
                        !.pushed = IF helper.magnitude THEN @ + given ELSE @]}
        \cup (IF wraps THEN {[helper EXCEPT !.status = "overflow"]} ELSE {})
run_ShortOne(length, end) == Passed(length, length - 1, end)
run(length, end) == Passed(length, length, end)

decode_single_block ==
    /\ InBlocks /\ BitAt(helper.index) = 1
    /\ helper' \in run(1, helper.index + 1)
    /\ UNCHANGED <<field, data>>

\* The second bit of a block's header is there: MoreBlocks found a bit behind the first.
Header(bit) == InBlocks /\ BitAt(helper.index) = 0 /\ BitAt(helper.index + 1) = bit

\* (The mutant takes bits that are not there for zeros.)
decode_small_block_Padded ==
    /\ Header(1)
    /\ LET bits == data \o Zeros(SMALL_BLOCK_LENGTH)
       IN  helper' \in run(FoldLeft(LAMBDA n, i : n + bits[helper.index + 2 + i] * 2^(i - 1), 0, <<1, 2, 3, 4>>),
                           helper.index + 2 + SMALL_BLOCK_LENGTH)
    /\ UNCHANGED <<field, data>>
decode_small_block ==
    /\ Header(1)
    /\ IF ~Fits(2 + SMALL_BLOCK_LENGTH) THEN Fails("DataIndexFailure")
       ELSE helper' \in run(get_span(helper.index + 2, SMALL_BLOCK_LENGTH),
                            helper.index + 2 + SMALL_BLOCK_LENGTH)
    /\ UNCHANGED <<field, data>>

\* The bytes of a long block end with the first whose high bit is clear; unpack puts
\* their low seven bits together, and refuses a byte that is shifted by more than the
\* bits of a number.  Bits that are shifted out of the number are lost.
MaxBytes == U64_BITS \div PACK_BYTE_SHIFT + 1
ByteOf(n) == get_span(helper.index + 2 + BYTE_LEN * (n - 1), BYTE_LEN)
LastByte(n) == /\ Fits(2 + BYTE_LEN * n)
               /\ ByteOf(n) < BYTE_SLICE_VALUE
               /\ \A m \in 1 .. n - 1 : ByteOf(m) >= BYTE_SLICE_VALUE
shl(n, shift) == (n % 2^(U64_BITS - shift)) * 2^shift
unpack(n) == FoldLeft(LAMBDA v, i : v + shl(ByteOf(i) % BYTE_SLICE_VALUE, PACK_BYTE_SHIFT * (i - 1)), 0,
                      [i \in 1 .. n |-> i])
decode_long_block ==
    /\ Header(0)
    /\ \/ \E n \in 1 .. Len(data) \div BYTE_LEN :
            /\ LastByte(n)
            /\ IF n > MaxBytes THEN Fails("UnpackOverflow")
               ELSE helper' \in run(unpack(n), helper.index + 2 + BYTE_LEN * n)
       \/ /\ ~\E n \in 1 .. Len(data) \div BYTE_LEN : LastByte(n)
          /\ Fails("DataIndexFailure")
    /\ UNCHANGED <<field, data>>

finish ==
    /\ helper.status = "blocks" /\ ~MoreBlocks
    /\ IF helper.pushed > MaxSize THEN Fails("MaxSizeExceed")
       ELSE helper' = [helper EXCEPT !.status = "done"]
    /\ UNCHANGED <<field, data>>

Ended == helper.status \notin {"idle", "header", "blocks"}
return == Ended /\ field' = None /\ data' = <<>> /\ helper' = Idle

Next ==
    \/ start \/ decode_header \/ finish \/ return
    \/ decode_single_block \/ decode_small_block \/ decode_long_block

Spec == Init /\ [][Next]_vars

-----------------------------------------------------------------------------
(* Properties.                                                             *)

\* The loop of decode() on what encode() made: at every block the output holds exactly
\* the members below `value`, and the next run has the kind of the number `value`; no
\* split into blocks, and no length at the edge of a block form, loses its place.
DecodingKeepsPlace == helper.status = "blocks" /\ field # None /\ ~helper.wrapped =>
    /\ helper.output = {i \in field : i < helper.value}
    /\ MoreBlocks => helper.magnitude = (helper.value \in field)

\* What encode() wrote of a field that decode() may give it reads back: the zeros that
\* fill the last byte are not taken for a block, and a block that ends in zeros is not
\* taken for the filling.  Only behind the largest of all numbers may value overflow,
\* and when that does not panic the field is right all the same.
RoundTrip == Ended /\ field # None /\ Cardinality(field) <= MaxSize =>
    \/ helper.status = "done" /\ helper.output = field
    \/ helper.status = "overflow" /\ LARGEST \in field

\* Whatever the bytes, decode() reads inside them; and as long as value has not wrapped,
\* the numbers it has passed are all behind value, each pushed once.
StaysInside ==
    /\ helper.status = "blocks" => helper.index <= Len(data)
    /\ ~helper.wrapped => /\ Cardinality(helper.output) = helper.pushed
                          /\ \A i \in helper.output : i < helper.value
=============================================================================
