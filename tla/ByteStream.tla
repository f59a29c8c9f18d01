----------------------------- MODULE ByteStream -----------------------------
(***************************************************************************)
(* What a reader over one file promises through io::Read and io::Seek, with *)
(* no blocks, no libcdio and no loop: a read delivers, in one step, the     *)
(* bytes that follow the position, as many as fit the buffer and the file   *)
(* has, and moves the position past them.  A read that fails delivers       *)
(* nothing and moves the position no further than it was asked to read.     *)
(***************************************************************************)
EXTENDS Integers

CONSTANTS MaxBuf,   \* bound: the longest buffer of the caller
          Limit,    \* the largest usize
          Offsets   \* bound: the signed offsets the caller seeks by

VARIABLES file,     \* the bytes of the file, a function on 0..size-1
          size,
          pos,      \* the position the caller observes
          result    \* what the last call returned

svars == <<file, size, pos, result>>

Init == /\ DOMAIN file = 0..size - 1
        /\ pos = 0
        /\ result = [status |-> "none", data |-> <<>>]

Left == IF pos < size THEN size - pos ELSE 0

Read(n) ==
  LET k == IF n < Left THEN n ELSE Left
  IN  /\ pos' = pos + k
      /\ result' = [status |-> "ok", data |-> [i \in 0..k - 1 |-> file[pos + i]]]
      /\ UNCHANGED <<file, size>>

ReadFails(n) ==
  /\ n > 0 /\ Left > 0
  /\ pos' \in pos..pos + n - 1
  /\ pos' < size
  /\ result' = [status |-> "err", data |-> <<>>]
  /\ UNCHANGED <<file, size>>

\* SeekFrom::Start, Current and End, kept between 0 and the largest position.
Seek(origin, offset) ==
  LET p == origin + offset
  IN  /\ pos' = IF p < 0 THEN 0 ELSE IF p > Limit THEN Limit ELSE p
      /\ result' = [status |-> "pos", data |-> pos']
      /\ UNCHANGED <<file, size>>

Next == \/ \E n \in 0..MaxBuf : Read(n) \/ ReadFails(n)
        \/ \E origin \in {0, pos, size}, offset \in Offsets : Seek(origin, offset)

Spec == Init /\ [][Next]_svars
=============================================================================
