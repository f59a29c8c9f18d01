----------------------------- MODULE BlockCopy -----------------------------
(***************************************************************************)
(* The arithmetic that IsoEntryReader and UdfEntryReader share: which part *)
(* of the block that holds a file position goes into the caller's buffer,  *)
(* and std's saturating_add_signed, which both use to seek.                *)
(***************************************************************************)
EXTENDS Integers

CONSTANTS BLOCK_SIZE,  \* Iso::BLOCK_SIZE and Udf::BLOCK_SIZE, 2048 in the code
          Limit        \* the largest usize

ASSUME BlockAssumption == BLOCK_SIZE \in Nat \ {0} /\ Limit \in Nat

Smaller(a, b) == IF a < b THEN a ELSE b

\* Mutant: the end of the file is forgotten.
ChunkLenPastEof(pos, size, room) == Smaller(room, BLOCK_SIZE - (pos % BLOCK_SIZE))

\* Mutant: the last byte of a block is left for a next round.
ChunkLenShort(pos, size, room) ==
  Smaller(room, Smaller(BLOCK_SIZE - 1 - (pos % BLOCK_SIZE), size - pos))

\* `len` of the copy when the reader is at pos and the buffer has room left.
ChunkLen(pos, size, room) ==
  Smaller(room, Smaller(BLOCK_SIZE - (pos % BLOCK_SIZE), size - pos))

\* buf[to..to + len].copy_from_slice(&block[from..from + len])
CopyInto(buf, to, len, block, from) ==
  [i \in DOMAIN buf |-> IF to <= i /\ i < to + len THEN block[from + (i - to)] ELSE buf[i]]

\* Mutant: the sum is not kept between zero and the largest usize.
PlainAddSigned(a, d) == a + d

SaturatingAddSigned(a, d) ==
  IF a + d < 0 THEN 0 ELSE IF a + d > Limit THEN Limit ELSE a + d
=============================================================================
