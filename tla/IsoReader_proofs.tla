-------------------------- MODULE IsoReader_proofs --------------------------
(***************************************************************************)
(* Proofs about IsoReader for any block size, any files, any buffers and    *)
(* any seeks: the loop invariant of read(), the sectors it asks for, and    *)
(* that the reader implements ByteStream.                                   *)
(***************************************************************************)
EXTENDS IsoReader, TLAPS

\* The loop invariant: the bytes copied so far are those that follow the
\* position at which the call began, and bytes_read is past the last of them.
LoopInv ==
  busy => /\ start + buf_read = bytes_read
          /\ buf_read > 0 => bytes_read <= entry.size
          /\ \A i \in 0..buf_read - 1 : buf[i] = entry.lsn * BLOCK_SIZE + (start + i)

-----------------------------------------------------------------------------
(* The arithmetic of BlockCopy. *)

\* A position is its block's start plus its place in the block.
LEMMA BlockOfPosition ==
  ASSUME NEW p \in Nat
  PROVE  /\ p \div BLOCK_SIZE \in Nat
         /\ p % BLOCK_SIZE \in 0..BLOCK_SIZE - 1
         /\ p = (p \div BLOCK_SIZE) * BLOCK_SIZE + (p % BLOCK_SIZE)
  BY BlockAssumption

\* A round of the loop takes at least one byte, from one block, of the file,
\* and no more than the buffer has room for.
LEMMA ChunkBounds ==
  ASSUME NEW p \in Nat, NEW size \in Nat, NEW room \in Nat, p < size, room > 0
  PROVE  /\ ChunkLen(p, size, room) \in 1..room
         /\ p + ChunkLen(p, size, room) <= size
         /\ (p % BLOCK_SIZE) + ChunkLen(p, size, room) <= BLOCK_SIZE
<1> DEFINE from == p % BLOCK_SIZE
<1>1. from \in Nat /\ from < BLOCK_SIZE /\ BLOCK_SIZE \in Nat
  BY BlockOfPosition, BlockAssumption
<1> HIDE DEF from
<1>2. LET len == Smaller(room, Smaller(BLOCK_SIZE - from, size - p))
      IN  len \in 1..room /\ p + len <= size /\ from + len <= BLOCK_SIZE
  BY <1>1 DEF Smaller
<1>3. QED
  BY <1>2 DEF ChunkLen, from

\* Saturating addition stays a usize.
LEMMA SaturatingRange ==
  ASSUME NEW a \in 0..Limit, NEW d \in Int
  PROVE  SaturatingAddSigned(a, d) \in 0..Limit
  BY BlockAssumption DEF SaturatingAddSigned

-----------------------------------------------------------------------------
\* A sector's address and a place in it are a position in the extent.
LEMMA SectorOfPosition ==
  ASSUME NEW lsn \in Nat, NEW p \in Nat
  PROVE  /\ lsn + p \div BLOCK_SIZE \in Nat
         /\ (lsn + p \div BLOCK_SIZE) * BLOCK_SIZE + (p % BLOCK_SIZE) = lsn * BLOCK_SIZE + p
<1> DEFINE q == p \div BLOCK_SIZE
           r == p % BLOCK_SIZE
<1>1. q \in Nat /\ r \in Nat /\ BLOCK_SIZE \in Nat /\ p = q * BLOCK_SIZE + r
  BY BlockOfPosition, BlockAssumption
<1> HIDE DEF q, r
<1>2. (lsn + q) * BLOCK_SIZE = lsn * BLOCK_SIZE + q * BLOCK_SIZE
  BY <1>1
<1>3. (lsn + q) * BLOCK_SIZE + r = lsn * BLOCK_SIZE + p
  BY <1>1, <1>2
<1>4. QED
  BY <1>1, <1>3 DEF q, r

\* The block that holds a position has, past that place, the bytes that follow.
LEMMA ImageBytes ==
  ASSUME NEW lsn \in Nat, NEW p \in Nat, NEW j \in Nat,
         (p % BLOCK_SIZE) + j < BLOCK_SIZE
  PROVE  ImageBlock(lsn + p \div BLOCK_SIZE)[(p % BLOCK_SIZE) + j] = lsn * BLOCK_SIZE + (p + j)
<1> DEFINE l == lsn + p \div BLOCK_SIZE
           r == p % BLOCK_SIZE
<1>1. /\ l \in Nat /\ r \in Nat /\ BLOCK_SIZE \in Nat
      /\ l * BLOCK_SIZE + r = lsn * BLOCK_SIZE + p
      /\ l * BLOCK_SIZE \in Nat /\ lsn * BLOCK_SIZE \in Nat
  BY SectorOfPosition, BlockOfPosition, BlockAssumption
<1> HIDE DEF l, r
<1>2. r + j \in 0..BLOCK_SIZE - 1
  BY <1>1 DEF r
<1>3. ImageBlock(l)[r + j] = l * BLOCK_SIZE + (r + j)
  BY <1>2 DEF ImageBlock
<1>4. QED
  BY <1>1, <1>3 DEF l, r

\* So does the block that the next round fetches.
LEMMA NextBlockBytes ==
  ASSUME entry.lsn \in Nat, bytes_read \in Nat, NEW j \in Nat,
         (bytes_read % BLOCK_SIZE) + j < BLOCK_SIZE
  PROVE  ImageBlock(NextLsn)[(bytes_read % BLOCK_SIZE) + j]
           = entry.lsn * BLOCK_SIZE + (bytes_read + j)
  BY ImageBytes DEF NextLsn

\* What an entry is, without the arithmetic of the assumption.
LEMMA EntryType ==
  ASSUME NEW e \in Entries
  PROVE  e.lsn \in Nat /\ e.size \in Nat /\ e.size <= Limit
  BY EntriesAssumption, BlockAssumption

LEMMA BoundTypes == /\ BLOCK_SIZE \in Nat /\ BLOCK_SIZE > 0
                    /\ MaxBuf \in Nat /\ Offsets \subseteq Int /\ Limit \in Nat
  BY EntriesAssumption, BlockAssumption

-----------------------------------------------------------------------------
LEMMA InitInv == Init => TypeOK /\ LoopInv
<1> SUFFICES ASSUME Init PROVE TypeOK /\ LoopInv
  OBVIOUS
<1>1. DOMAIN buf = 0..buf_len - 1
  BY DEF Init
<1>2. bytes_read \in 0..Limit /\ start \in 0..Limit /\ buf_len \in 0..MaxBuf /\ buf_read \in 0..buf_len
  BY BoundTypes DEF Init
<1>3. result.status = "none"
  BY DEF Init
<1>4. QED
  BY <1>1, <1>2, <1>3 DEF Init, TypeOK, LoopInv

LEMMA StepInv == TypeOK /\ LoopInv /\ [Next]_vars => TypeOK' /\ LoopInv'
<1> SUFFICES ASSUME TypeOK, LoopInv, [Next]_vars
             PROVE  TypeOK' /\ LoopInv'
  OBVIOUS
<1> USE BoundTypes DEF TypeOK
<1>1. ASSUME NEW n \in 0..MaxBuf, Read(n)
      PROVE  TypeOK' /\ LoopInv'
  BY <1>1 DEF Read, LoopInv
<1>2. CASE ReadBlock
  <2> DEFINE len == ChunkLen(bytes_read, entry.size, buf_len - buf_read)
             from == bytes_read % BLOCK_SIZE
             block == ImageBlock(NextLsn)
  <2>1. /\ entry.lsn \in Nat /\ entry.size \in Nat /\ entry.size <= Limit
        /\ bytes_read \in Nat /\ bytes_read < entry.size
        /\ buf_read \in Nat /\ buf_len \in Nat /\ buf_read < buf_len
        /\ buf_len - buf_read \in Nat /\ buf_len - buf_read > 0
    BY <1>2, EntryType DEF ReadBlock, MoreToRead
  <2>2. /\ len \in 1..buf_len - buf_read
        /\ bytes_read + len <= entry.size
        /\ from + len <= BLOCK_SIZE
    BY <2>1, ChunkBounds, Zenon
  <2>3. from \in 0..BLOCK_SIZE - 1
    BY <2>1, BlockOfPosition
  <2> HIDE DEF len, from
  <2>4. /\ buf' = CopyInto(buf, buf_read, len, block, from)
        /\ buf_read' = buf_read + len
        /\ bytes_read' = bytes_read + len
        /\ UNCHANGED <<entry, busy, buf_len, start, result>>
    BY <1>2 DEF ReadBlock, len, from
  <2>5. TypeOK'
    <3>1. bytes_read' \in 0..Limit /\ buf_read' \in 0..buf_len
      BY <2>1, <2>2, <2>4
    <3>2. DOMAIN buf' = DOMAIN buf
      BY <2>4 DEF CopyInto
    <3>3. QED
      BY <2>4, <3>1, <3>2
  <2>6. ASSUME NEW j \in 0..len - 1
        PROVE  block[from + j] = entry.lsn * BLOCK_SIZE + (bytes_read + j)
    <3>1. j \in Nat /\ (bytes_read % BLOCK_SIZE) + j < BLOCK_SIZE
      BY <2>2, <2>3 DEF from
    <3>2. ImageBlock(NextLsn)[(bytes_read % BLOCK_SIZE) + j]
            = entry.lsn * BLOCK_SIZE + (bytes_read + j)
      BY <2>1, <3>1, NextBlockBytes
    <3>3. QED
      BY <3>2 DEF from
  <2>7. start + buf_read = bytes_read /\ start \in Nat
    BY <1>2 DEF ReadBlock, LoopInv
  <2>8. ASSUME NEW i \in 0..buf_read + len - 1
        PROVE  buf'[i] = entry.lsn * BLOCK_SIZE + (start + i)
    <3>1. i \in DOMAIN buf
      BY <2>1, <2>2
    <3>2. CASE i < buf_read
      BY <3>1, <3>2, <2>1, <2>4, <1>2 DEF CopyInto, LoopInv, ReadBlock
    <3>3. CASE ~(i < buf_read)
      <4>1. i - buf_read \in 0..len - 1
        BY <3>3, <2>1, <2>2
      <4>2. buf'[i] = block[from + (i - buf_read)]
        <5>1. buf_read <= i /\ i < buf_read + len
          BY <3>3, <2>1, <2>2
        <5>2. QED
          BY <3>1, <5>1, <2>4 DEF CopyInto
      <4>3. buf'[i] = entry.lsn * BLOCK_SIZE + (bytes_read + (i - buf_read))
        BY <4>1, <4>2, <2>6
      <4>4. QED
        <5>1. bytes_read + (i - buf_read) = start + i
          BY <2>1, <2>7
        <5>2. QED
          BY <4>3, <5>1
    <3>4. QED
      BY <3>2, <3>3
  <2>9. LoopInv'
    BY <2>1, <2>2, <2>4, <2>7, <2>8 DEF LoopInv
  <2>10. QED
    BY <2>5, <2>9
<1>3. CASE ReadBlockFails
  BY <1>3 DEF ReadBlockFails, LoopInv
<1>4. CASE ReadReturns
  BY <1>4 DEF ReadReturns, LoopInv
<1>5. ASSUME NEW p \in 0..Limit, Seek(p)
      PROVE  TypeOK' /\ LoopInv'
  BY <1>5 DEF Seek, LoopInv
<1>6. CASE UNCHANGED vars
  BY <1>6 DEF vars, LoopInv
<1>7. ASSUME NEW offset \in Offsets, SeekEnd(offset) \/ SeekCurrent(offset)
      PROVE  \E p \in 0..Limit : Seek(p)
  <2>1. entry.size \in 0..Limit /\ bytes_read \in 0..Limit /\ offset \in Int
    BY EntryType
  <2>2. QED
    BY <1>7, <2>1, SaturatingRange DEF SeekEnd, SeekCurrent
<1>8. QED
  BY <1>1, <1>2, <1>3, <1>4, <1>5, <1>6, <1>7 DEF Next, Loop, SeekStart

\* The types and the loop invariant hold throughout.
THEOREM LoopCorrect == Spec => [](TypeOK /\ LoopInv)
  BY InitInv, StepInv, PTL DEF Spec

\* Every sector a read asks for is one of the file's own and fits an lsn_t,
\* for any block size, any file whose extent fits, and any seek before it.
THEOREM SectorsOfTheFile == Spec => []ReadsInsideExtent
<1>1. TypeOK => ReadsInsideExtent
  <2> SUFFICES ASSUME TypeOK, busy, MoreToRead
               PROVE  /\ NextLsn \in entry.lsn..MaxLsn
                      /\ NextLsn * BLOCK_SIZE < entry.lsn * BLOCK_SIZE + entry.size
    BY DEF ReadsInsideExtent
  <2>1. /\ entry.lsn \in Nat /\ entry.size \in Nat
        /\ bytes_read \in Nat /\ bytes_read \in 0..entry.size - 1
    BY EntryType, BoundTypes DEF TypeOK, MoreToRead
  <2>2. NextLsn \in entry.lsn..MaxLsn
    <3>1. entry \in Entries
      BY DEF TypeOK
    <3>2. entry.lsn + bytes_read \div BLOCK_SIZE <= MaxLsn
      BY <2>1, <3>1, EntriesAssumption
    <3>3. entry.lsn + bytes_read \div BLOCK_SIZE >= entry.lsn
      BY <2>1, BlockOfPosition
    <3>4. NextLsn \in Nat /\ MaxLsn \in Nat
      BY <2>1, SectorOfPosition, EntriesAssumption, Zenon DEF NextLsn
    <3>5. QED
      BY <2>1, <3>2, <3>3, <3>4 DEF NextLsn
  <2>3. NextLsn * BLOCK_SIZE <= entry.lsn * BLOCK_SIZE + bytes_read
    <3> DEFINE r == bytes_read % BLOCK_SIZE
               a == NextLsn * BLOCK_SIZE
               b == entry.lsn * BLOCK_SIZE
    <3>1. a + r = b + bytes_read
      BY <2>1, SectorOfPosition, Zenon DEF NextLsn
    <3>2. NextLsn \in Nat
      BY <2>1, SectorOfPosition, Zenon DEF NextLsn
    <3>3. r \in Nat
      BY <2>1, BlockOfPosition, BlockAssumption
    <3>4. a \in Int /\ b \in Int /\ bytes_read \in Int
      BY <2>1, <3>2, BoundTypes
    <3> HIDE DEF r, a, b
    <3>5. a <= b + bytes_read
      BY <3>1, <3>3, <3>4
    <3>6. QED
      BY <3>5 DEF a, b
  <2>4. QED
    BY <2>1, <2>2, <2>3, BlockAssumption, EntriesAssumption
<1>2. QED
  BY <1>1, LoopCorrect, PTL

-----------------------------------------------------------------------------
LEMMA InitRefines == Init => Stream!Init
  BY DEF Init, Stream!Init, FileBytes

LEMMA StepRefines == TypeOK /\ LoopInv /\ [Next]_vars => [Stream!Next]_(Stream!svars)
<1> SUFFICES ASSUME TypeOK, LoopInv, [Next]_vars
             PROVE  [Stream!Next]_(Stream!svars)
  OBVIOUS
<1> DEFINE pos == IF busy THEN start ELSE bytes_read
<1>0. entry' = entry => FileBytes' = FileBytes
  BY DEF FileBytes
<1>t. /\ entry.size \in Nat /\ entry.size <= Limit /\ bytes_read \in 0..Limit
      /\ start \in 0..Limit /\ buf_len \in 0..MaxBuf /\ buf_read \in 0..buf_len
  BY EntryType DEF TypeOK
<1> USE BoundTypes
<1>1. ASSUME NEW n \in 0..MaxBuf, Read(n)
      PROVE  UNCHANGED Stream!svars
  BY <1>1, <1>0 DEF Read, Stream!svars
<1>2. CASE ReadBlock
  BY <1>2, <1>0 DEF ReadBlock, Stream!svars
<1>3. CASE ReadBlockFails
  <2>1. /\ buf_len > 0 /\ start < entry.size
        /\ bytes_read \in start..start + buf_len - 1 /\ bytes_read < entry.size
    BY <1>3, <1>t DEF ReadBlockFails, MoreToRead, LoopInv
  <2>2. Stream!ReadFails(buf_len)
    BY <1>3, <1>0, <1>t, <2>1 DEF ReadBlockFails, Stream!ReadFails, Stream!Left
  <2>3. QED
    BY <2>2, <1>t DEF Stream!Next
<1>4. CASE ReadReturns
  <2> DEFINE left == IF start < entry.size THEN entry.size - start ELSE 0
             k == IF buf_len < left THEN buf_len ELSE left
  <2>1. /\ start + buf_read = bytes_read
        /\ buf_read > 0 => bytes_read <= entry.size
        /\ \A i \in 0..buf_read - 1 : buf[i] = entry.lsn * BLOCK_SIZE + (start + i)
        /\ ~(bytes_read < entry.size) \/ ~(buf_read < buf_len)
    BY <1>4 DEF ReadReturns, MoreToRead, LoopInv
  <2>2. buf_read = k /\ bytes_read = start + k
    BY <1>t, <2>1
  <2>3. \A i \in 0..buf_read - 1 : buf[i] = FileBytes[start + i]
    <3>1. ASSUME NEW i \in 0..buf_read - 1
          PROVE  start + i \in 0..entry.size - 1
      BY <1>t, <2>1
    <3>2. QED
      BY <2>1, <3>1 DEF FileBytes
  <2>4. [i \in 0..buf_read - 1 |-> buf[i]] = [i \in 0..k - 1 |-> FileBytes[start + i]]
    BY <2>2, <2>3
  <2>5. Stream!Read(buf_len)
    <3>1. result' = [status |-> "ok", data |-> [i \in 0..k - 1 |-> FileBytes[start + i]]]
      BY <1>4, <2>4 DEF ReadReturns
    <3>2. bytes_read' = start + k /\ busy /\ ~busy' /\ UNCHANGED <<FileBytes, entry>>
      BY <1>4, <2>2, <1>0 DEF ReadReturns
    <3>3. QED
      BY <3>1, <3>2 DEF Stream!Read, Stream!Left
  <2>6. QED
    BY <2>5, <1>t DEF Stream!Next
<1>5. ASSUME NEW origin \in {0, bytes_read, entry.size}, NEW offset \in Offsets,
             Seek(SaturatingAddSigned(origin, offset))
      PROVE  Stream!Next
  <2>1. origin \in {0, pos, entry.size}
    BY <1>5 DEF Seek
  <2>2. Stream!Seek(origin, offset)
    BY <1>5, <1>0 DEF Seek, SaturatingAddSigned, Stream!Seek
  <2>3. QED
    BY <2>1, <2>2 DEF Stream!Next
<1>6. ASSUME NEW offset \in Offsets \cap 0..Limit, SeekStart(offset)
      PROVE  Seek(SaturatingAddSigned(0, offset))
  BY <1>6 DEF SeekStart, SaturatingAddSigned
<1>7. CASE UNCHANGED vars
  BY <1>7, <1>0 DEF vars, Stream!svars
<1>8. QED
  BY <1>1, <1>2, <1>3, <1>4, <1>5, <1>6, <1>7 DEF Next, Loop, SeekEnd, SeekCurrent

\* The reader implements the byte stream: every read returns exactly the bytes
\* of the file at its position, for any block size, file, buffers and seeks.
THEOREM ReaderIsByteStream == Spec => IsByteStream
  BY InitRefines, StepRefines, LoopCorrect, PTL DEF Spec, IsByteStream, Stream!Spec
=============================================================================
