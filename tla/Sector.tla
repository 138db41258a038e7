-------------------------------- MODULE Sector --------------------------------
(***************************************************************************)
(* Sizes of pieces and sectors, and the registered proofs                  *)
(* (primitives/piece, primitives/sector).                                  *)
(***************************************************************************)
EXTENDS Integers, Sequences

CONSTANT U64_MAX      \* 2^64 - 1 in the code

-----------------------------------------------------------------------------
(* Piece sizes: 127 bytes of data take 128.                                *)

MIN_UNPADDED_PIECE_SIZE == 127
MIN_PADDED_PIECE_SIZE == 128

\* What a sum of u64 may be: too large a one wraps, or panics where overflow is checked.
Ok(n) == [ok |-> n]
Panic(why) == [panic |-> why]
add(a, b) == IF a + b <= U64_MAX THEN {Ok(a + b)}
             ELSE {Ok((a + b) % (U64_MAX + 1)), Panic("overflow")}

padded(n) == add(n, n \div MIN_UNPADDED_PIECE_SIZE)
\* (The mutant divides by the wrong minimum.)
unpadded_By127(n) == n - n \div MIN_UNPADDED_PIECE_SIZE
unpadded(n) == n - n \div MIN_PADDED_PIECE_SIZE

shifted[n \in Nat] == IF n > 0 /\ n % 2 = 0 THEN shifted[n \div 2] ELSE n   \* n >> n.trailing_zeros()
count_ones[n \in Nat] == IF n = 0 THEN 0 ELSE (n % 2) + count_ones[n \div 2]

validate_unpadded(n) == n >= MIN_UNPADDED_PIECE_SIZE /\ shifted[n] = MIN_UNPADDED_PIECE_SIZE
validate_padded(n) == n >= MIN_PADDED_PIECE_SIZE /\ count_ones[n] = 1

-----------------------------------------------------------------------------
(* Registered proofs, by the numbers they have on the chain.               *)

Number ==
    [StackedDRG32GiBSeal |-> 1, StackedDRG2KiBSeal |-> 3, StackedDRG8MiBSeal |-> 5,
     StackedDRG512MiBSeal |-> 7, StackedDRG2KiBWinningPoSt |-> 9, StackedDRG2KiBWindowPoSt |-> 10,
     StackedDRG8MiBWinningPoSt |-> 11, StackedDRG8MiBWindowPoSt |-> 12,
     StackedDRG512MiBWinningPoSt |-> 13, StackedDRG512MiBWindowPoSt |-> 14,
     StackedDRG32GiBWinningPoSt |-> 15, StackedDRG32GiBWindowPoSt |-> 16,
     StackedDRG64GiBSeal |-> 17, StackedDRG64GiBWinningPoSt |-> 18, StackedDRG64GiBWindowPoSt |-> 19]
RegisteredProofs == DOMAIN Number
try_from(n) == {p \in RegisteredProofs : Number[p] = n}

\* The seal, winning PoSt and window PoSt proofs of one sector size, and the size in
\* KiB.
Family(size) ==
    CASE size = "64GiB"  -> <<"StackedDRG64GiBSeal", "StackedDRG64GiBWinningPoSt", "StackedDRG64GiBWindowPoSt">>
      [] size = "32GiB"  -> <<"StackedDRG32GiBSeal", "StackedDRG32GiBWinningPoSt", "StackedDRG32GiBWindowPoSt">>
      [] size = "512MiB" -> <<"StackedDRG512MiBSeal", "StackedDRG512MiBWinningPoSt", "StackedDRG512MiBWindowPoSt">>
      [] size = "8MiB"   -> <<"StackedDRG8MiBSeal", "StackedDRG8MiBWinningPoSt", "StackedDRG8MiBWindowPoSt">>
      [] size = "2KiB"   -> <<"StackedDRG2KiBSeal", "StackedDRG2KiBWinningPoSt", "StackedDRG2KiBWindowPoSt">>
Sizes == {"64GiB", "32GiB", "512MiB", "8MiB", "2KiB"}
SizeOf(proof) == CHOOSE s \in Sizes : \E i \in 1 .. 3 : Family(s)[i] = proof

registered_seal_proof(proof) == Family(SizeOf(proof))[1]
registered_winning_post_proof(proof) == Family(SizeOf(proof))[2]
\* (The mutant takes the proof of the other kind.)
registered_window_post_proof_Winning(proof) == Family(SizeOf(proof))[2]
registered_window_post_proof(proof) == Family(SizeOf(proof))[3]

KiBs == [StackedDRG64GiBSeal |-> 67108864, StackedDRG32GiBSeal |-> 33554432,
         StackedDRG512MiBSeal |-> 524288, StackedDRG8MiBSeal |-> 8192, StackedDRG2KiBSeal |-> 2]
sector_size(proof) == KiBs[registered_seal_proof(proof)]
from_sector_size(ssize) == {p \in DOMAIN KiBs : KiBs[p] = ssize}

-----------------------------------------------------------------------------
(* Properties.                                                             *)

\* Padding and unpadding agree: a valid size of one kind becomes a valid size of the
\* other, and converting back brings back where one started.  The one valid size that
\* has no padded size is the largest, 127 * 2^57, whose double is no u64: its sum
\* overflows.
PaddingAgrees(n) ==
    /\ validate_unpadded(n) /\ 2 * n <= U64_MAX =>
          \A r \in padded(n) : "ok" \in DOMAIN r /\ validate_padded(r.ok) /\ unpadded(r.ok) = n
    /\ validate_padded(n) => validate_unpadded(unpadded(n)) /\ padded(unpadded(n)) = {Ok(n)}

\* The three proofs of a sector size lead to each other and to that size, whichever of
\* them one starts from, and the size leads back to the seal proof.
ProofsOfOneSize(p, q) ==
    /\ registered_seal_proof(p) = registered_seal_proof(q) <=> sector_size(p) = sector_size(q)
    /\ from_sector_size(sector_size(p)) = {registered_seal_proof(p)}
    /\ p \in {registered_seal_proof(p), registered_winning_post_proof(p),
              registered_window_post_proof(p)}
    /\ try_from(Number[p]) = {p}
=============================================================================
