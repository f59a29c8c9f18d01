-------------------------- MODULE UdfReader_proofs --------------------------
(***************************************************************************)
(* Proofs about UdfReader for any number of readers, any block size, any    *)
(* files, buffers and seeks, and whatever other calls do to the position    *)
(* inside libcdio: the loop invariant of read(), and that every reader      *)
(* implements ByteStream.                                                   *)
(***************************************************************************)
EXTENDS UdfReader, TLAPS

\* The loop invariant of the read that executes: the bytes copied so far are
\* those of its reader's file that follow the position at which the call began,
\* and bytes_read is past the last of them.
LoopInv ==
  active # None =>
    /\ start[active] + buf_read = bytes_read[active]
    /\ buf_read > 0 => bytes_read[active] <= entry[active].size
    /\ \A i \in 0..buf_read - 1 : buf[i] = <<entry[active].id, start[active] + i>>

\* Each reader has a result.
ResultInv == result = [r \in Readers |-> result[r]]

IInv == TypeOK /\ LoopInv /\ ResultInv

-----------------------------------------------------------------------------
(* The arithmetic of BlockCopy. *)

\* A position is its block's start plus its place in the block.
LEMMA BlockOfPosition ==
  ASSUME NEW p \in Nat
  PROVE  /\ p \div BLOCK_SIZE \in Nat
         /\ p % BLOCK_SIZE \in 0..BLOCK_SIZE - 1
         /\ p = (p \div BLOCK_SIZE) * BLOCK_SIZE + (p % BLOCK_SIZE)
  BY BlockAssumption

\* A round of the loop takes at least one byte, from one block, of the file,
\* and no more than the buffer has room for.
LEMMA ChunkBounds ==
  ASSUME NEW p \in Nat, NEW size \in Nat, NEW room \in Nat, p < size, room > 0
  PROVE  /\ ChunkLen(p, size, room) \in 1..room
         /\ p + ChunkLen(p, size, room) <= size
         /\ (p % BLOCK_SIZE) + ChunkLen(p, size, room) <= BLOCK_SIZE
<1> DEFINE from == p % BLOCK_SIZE
<1>1. from \in Nat /\ from < BLOCK_SIZE /\ BLOCK_SIZE \in Nat
  BY BlockOfPosition, BlockAssumption
<1> HIDE DEF from
<1>2. LET len == Smaller(room, Smaller(BLOCK_SIZE - from, size - p))
      IN  len \in 1..room /\ p + len <= size /\ from + len <= BLOCK_SIZE
  BY <1>1 DEF Smaller
<1>3. QED
  BY <1>2 DEF ChunkLen, from

\* Saturating addition stays a usize.
LEMMA SaturatingRange ==
  ASSUME NEW a \in 0..Limit, NEW d \in Int
  PROVE  SaturatingAddSigned(a, d) \in 0..Limit
  BY BlockAssumption DEF SaturatingAddSigned

-----------------------------------------------------------------------------
LEMMA BoundTypes == /\ BLOCK_SIZE \in Nat /\ BLOCK_SIZE > 0
                    /\ MaxBuf \in Nat /\ Offsets \subseteq Int /\ Limit \in Nat
                    /\ Positions \subseteq Nat /\ None \notin Readers
  BY EntriesAssumption, BlockAssumption

\* What a file is.
LEMMA EntryType ==
  ASSUME NEW e \in Entries
  PROVE  e.size \in Nat /\ e.size <= Limit
  BY EntriesAssumption, BlockAssumption

\* The block is fetched from its own start, and its bytes past a place are those
\* that follow the position.
LEMMA FetchedBytes ==
  ASSUME NEW r \in Readers, bytes_read[r] \in Nat
  PROVE  /\ FetchPosition(r) \in Nat
         /\ \A e, j : j \in Nat /\ (bytes_read[r] % BLOCK_SIZE) + j < BLOCK_SIZE =>
              UdfBlock(e, FetchPosition(r))[(bytes_read[r] % BLOCK_SIZE) + j]
                = <<e.id, bytes_read[r] + j>>
<1> DEFINE p == bytes_read[r]
           at == (p \div BLOCK_SIZE) * BLOCK_SIZE
           from == p % BLOCK_SIZE
<1>1. p \div BLOCK_SIZE \in Nat /\ from \in 0..BLOCK_SIZE - 1 /\ p = at + from
  BY BlockOfPosition
<1>2. at \in Nat
  BY <1>1, BoundTypes
<1>3. FetchPosition(r) = at
  BY DEF FetchPosition
<1> HIDE DEF at, from
<1>4. ASSUME NEW e, NEW j \in Nat, from + j < BLOCK_SIZE
      PROVE  UdfBlock(e, at)[from + j] = <<e.id, p + j>>
  <2>1. from + j \in 0..BLOCK_SIZE - 1 /\ at + (from + j) = p + j
    BY <1>1, <1>2, <1>4, BoundTypes
  <2>2. UdfBlock(e, at)[from + j] = <<e.id, at + (from + j)>>
    BY <2>1 DEF UdfBlock
  <2>3. QED
    BY <2>1, <2>2
<1>5. QED
  BY <1>2, <1>3, <1>4 DEF from

-----------------------------------------------------------------------------
LEMMA InitInv == Init => IInv
<1> SUFFICES ASSUME Init PROVE IInv
  OBVIOUS
<1> USE BoundTypes
<1>1. DOMAIN buf = 0..buf_len - 1
  BY DEF Init
<1>2. /\ bytes_read \in [Readers -> 0..Limit] /\ start \in [Readers -> 0..Limit]
      /\ buf_len \in 0..MaxBuf /\ buf_read \in 0..buf_len /\ i_position \in Nat
  BY DEF Init
<1>3. \A r \in Readers : result[r].status = "none"
  BY DEF Init
<1>4. ResultInv
  BY DEF Init, ResultInv
<1>5. QED
  BY <1>1, <1>2, <1>3, <1>4 DEF Init, IInv, TypeOK, LoopInv

LEMMA ReadKeeps ==
  ASSUME IInv, NEW r \in Readers, NEW n \in 0..MaxBuf, Read(r, n)
  PROVE  IInv'
<1> USE BoundTypes DEF IInv, TypeOK
<1>1. TypeOK'
  BY DEF Read
<1>2. LoopInv'
  BY DEF Read, LoopInv
<1>3. ResultInv'
  BY DEF Read, ResultInv
<1>4. QED
  BY <1>1, <1>2, <1>3

LEMMA ReadBlockKeeps ==
  ASSUME IInv, NEW r \in Readers, ReadBlock(r)
  PROVE  IInv'
<1> USE BoundTypes DEF IInv, TypeOK
<1> DEFINE len == ChunkLen(bytes_read[r], entry[r].size, buf_len - buf_read)
           from == bytes_read[r] % BLOCK_SIZE
           block == UdfBlock(entry[r], FetchPosition(r))
<1>1. /\ entry[r].size \in Nat /\ entry[r].size <= Limit /\ active = r
      /\ bytes_read[r] \in Nat /\ bytes_read[r] < entry[r].size
      /\ buf_read \in Nat /\ buf_len \in Nat /\ buf_read < buf_len
      /\ buf_len - buf_read \in Nat /\ buf_len - buf_read > 0
  BY EntryType DEF ReadBlock, MoreToRead
<1>2. /\ len \in 1..buf_len - buf_read
      /\ bytes_read[r] + len <= entry[r].size
      /\ from + len <= BLOCK_SIZE
  BY <1>1, ChunkBounds, Zenon
<1>3. from \in 0..BLOCK_SIZE - 1
  BY <1>1, BlockOfPosition
<1>4. /\ FetchPosition(r) \in Nat
      /\ \A j \in 0..len - 1 : block[from + j] = <<entry[r].id, bytes_read[r] + j>>
  <2>1. ASSUME NEW j \in 0..len - 1
        PROVE  block[from + j] = <<entry[r].id, bytes_read[r] + j>>
    <3> HIDE DEF len
    <3>1. j \in Nat /\ (bytes_read[r] % BLOCK_SIZE) + j < BLOCK_SIZE
      BY <1>2, <1>3
    <3>2. QED
      BY <1>1, <3>1, FetchedBytes, Zenon
  <2>2. QED
    BY <1>1, <2>1, FetchedBytes, Zenon
<1> HIDE DEF len, from, block
<1>5. /\ buf' = CopyInto(buf, buf_read, len, block, from)
      /\ buf_read' = buf_read + len
      /\ bytes_read' = [bytes_read EXCEPT ![r] = @ + len]
      /\ i_position' = FetchPosition(r) + BLOCK_SIZE
      /\ UNCHANGED <<entry, active, buf_len, start, result>>
  BY DEF ReadBlock, len, from, block
<1>6. TypeOK'
  <2>1. bytes_read[r] + len \in 0..Limit /\ buf_read' \in 0..buf_len /\ i_position' \in Nat
    BY <1>1, <1>2, <1>4, <1>5
  <2>2. bytes_read' \in [Readers -> 0..Limit]
    BY <1>5, <2>1
  <2>3. DOMAIN buf' = DOMAIN buf
    BY <1>5 DEF CopyInto
  <2>4. QED
    BY <1>5, <2>1, <2>2, <2>3
<1>7. /\ start[r] + buf_read = bytes_read[r] /\ start[r] \in Nat
      /\ \A i \in 0..buf_read - 1 : buf[i] = <<entry[r].id, start[r] + i>>
  BY <1>1 DEF LoopInv
<1>8. ASSUME NEW i \in 0..buf_read + len - 1
      PROVE  buf'[i] = <<entry[r].id, start[r] + i>>
  <2>1. i \in DOMAIN buf
    BY <1>1, <1>2
  <2>2. CASE i < buf_read
    BY <2>1, <2>2, <1>1, <1>5, <1>7 DEF CopyInto
  <2>3. CASE ~(i < buf_read)
    <3> HIDE DEF IInv, TypeOK
    <3>1. i - buf_read \in 0..len - 1 /\ buf_read <= i /\ i < buf_read + len
      <4>1. len \in Int /\ buf_read \in Int /\ i \in Int /\ i < buf_read + len
        BY <1>1, <1>2
      <4>2. QED
        BY <2>3, <4>1
    <3>2. buf'[i] = block[from + (i - buf_read)]
      BY <2>1, <3>1, <1>5 DEF CopyInto
    <3>3. buf'[i] = <<entry[r].id, bytes_read[r] + (i - buf_read)>>
      BY <3>1, <3>2, <1>4
    <3>4. bytes_read[r] + (i - buf_read) = start[r] + i
      BY <1>1, <1>7
    <3>5. QED
      BY <3>3, <3>4
  <2>4. QED
    BY <2>2, <2>3
<1>9. LoopInv'
  <2>1. bytes_read'[r] = bytes_read[r] + len
    BY <1>5
  <2> HIDE DEF IInv, TypeOK
  <2>2. /\ active' = r /\ entry' = entry /\ start' = start /\ buf_read' = buf_read + len
    BY <1>1, <1>5
  <2>3. start[r] + (buf_read + len) = bytes_read[r] + len
    BY <1>1, <1>2, <1>7
  <2>4. \A i \in 0..buf_read + len - 1 : buf'[i] = <<entry[r].id, start[r] + i>>
    BY <1>8
  <2>5. start'[active'] + buf_read' = bytes_read'[active'] /\ bytes_read'[active'] <= entry'[active'].size
    BY <1>2, <2>1, <2>2, <2>3
  <2>6. \A i \in 0..buf_read' - 1 : buf'[i] = <<entry'[active'].id, start'[active'] + i>>
    BY <1>1, <1>2, <2>2, <2>4
  <2>7. QED
    BY <2>5, <2>6 DEF LoopInv
<1>10. ResultInv'
  BY <1>5 DEF ResultInv
<1>11. QED
  BY <1>6, <1>9, <1>10

LEMMA EndKeeps ==
  ASSUME IInv, NEW r \in Readers, ReadBlockFails(r) \/ ReadReturns(r)
  PROVE  IInv'
<1> USE BoundTypes DEF IInv, TypeOK
<1>1. active' = None /\ UNCHANGED <<entry, bytes_read, buf, buf_len, buf_read, start>>
  BY DEF ReadBlockFails, ReadReturns
<1>2. i_position' \in Nat
  <2>1. bytes_read[r] \in Nat
    OBVIOUS
  <2>2. FetchPosition(r) \in Nat
    BY <2>1, FetchedBytes
  <2>3. QED
    BY <2>2 DEF ReadBlockFails, ReadReturns
<1>3. PICK v : result' = [result EXCEPT ![r] = v] /\ v.status \in {"ok", "err"}
  <2>1. CASE ReadBlockFails(r)
    <3> WITNESS [status |-> "err", data |-> <<>>]
    <3>1. QED
      BY <2>1 DEF ReadBlockFails
  <2>2. CASE ReadReturns(r)
    <3> WITNESS [status |-> "ok", data |-> [i \in 0..buf_read - 1 |-> buf[i]]]
    <3>1. QED
      BY <2>2 DEF ReadReturns
  <2>3. QED
    BY <2>1, <2>2
<1>4. ResultInv'
  BY <1>3 DEF ResultInv
<1>5. \A q \in Readers : result'[q].status \in {"none", "ok", "err", "pos"}
  BY <1>3 DEF ResultInv
<1>6. QED
  BY <1>1, <1>2, <1>4, <1>5 DEF LoopInv

LEMMA SeekKeeps ==
  ASSUME IInv, NEW r \in Readers, NEW p \in 0..Limit, Seek(r, p)
  PROVE  IInv'
<1> USE BoundTypes DEF IInv, TypeOK
<1>1. ResultInv'
  BY DEF Seek, ResultInv
<1>2. \A q \in Readers : result'[q].status \in {"none", "ok", "err", "pos"}
  BY DEF Seek, ResultInv
<1>3. bytes_read' \in [Readers -> 0..Limit] /\ start' \in [Readers -> 0..Limit]
  BY DEF Seek
<1>4. QED
  BY <1>1, <1>2, <1>3 DEF Seek, LoopInv

\* Each of the three seeks is one, to a position.
LEMMA SeekPositions ==
  ASSUME IInv, NEW r \in Readers, NEW offset \in Offsets,
         SeekEnd(r, offset) \/ SeekCurrent(r, offset)
  PROVE  \E p \in 0..Limit : Seek(r, p)
<1>1. entry[r].size \in 0..Limit /\ bytes_read[r] \in 0..Limit /\ offset \in Int
  BY EntryType, BoundTypes DEF IInv, TypeOK
<1>2. QED
  BY <1>1, SaturatingRange DEF SeekEnd, SeekCurrent

LEMMA StepInv == IInv /\ [Next]_vars => IInv'
<1> SUFFICES ASSUME IInv, [Next]_vars PROVE IInv'
  OBVIOUS
<1>1. CASE OtherCall
  BY <1>1, BoundTypes DEF OtherCall, IInv, TypeOK, LoopInv, ResultInv
<1>2. CASE UNCHANGED vars
  BY <1>2 DEF vars, IInv, TypeOK, LoopInv, ResultInv
<1>3. ASSUME NEW r \in Readers, NEW offset \in Offsets \cap 0..Limit, SeekStart(r, offset)
      PROVE  IInv'
  BY <1>3, SeekKeeps DEF SeekStart
<1>4. QED
  BY <1>1, <1>2, <1>3, ReadKeeps, ReadBlockKeeps, EndKeeps, SeekPositions, SeekKeeps DEF Next, Loop

LEMMA Invariant == Spec => []IInv
  BY InitInv, StepInv, PTL DEF Spec

\* Every variable keeps its type: no position leaves the range of usize, no
\* round writes past the buffer.
THEOREM Typing == Spec => []TypeOK
<1>1. IInv => TypeOK
  BY DEF IInv
<1>2. QED
  BY <1>1, Invariant, PTL

-----------------------------------------------------------------------------
LEMMA InitRefines == Init => \A r \in Readers : Stream(r)!Init
<1> SUFFICES ASSUME Init, NEW r \in Readers PROVE Stream(r)!Init
  OBVIOUS
<1>1. active # r
  BY BoundTypes DEF Init
<1>2. QED
  BY <1>1 DEF Init, Stream!Init, FileBytes

\* A step of one reader is none of another's stream.
LEMMA OthersStay ==
  ASSUME NEW r \in Readers, NEW q \in Readers \ {r}, active \in {None, q}, active' \in {None, q},
         entry' = entry, bytes_read'[r] = bytes_read[r], result'[r] = result[r]
  PROVE  UNCHANGED Stream(r)!svars
<1>1. active # r /\ active' # r
  BY BoundTypes
<1>2. FileBytes(r)' = FileBytes(r)
  BY DEF FileBytes
<1>3. QED
  BY <1>1, <1>2 DEF Stream!svars

\* A read that begins, and each round of its loop, is none of its own.
LEMMA RoundsStutter ==
  ASSUME IInv, NEW r \in Readers, (\E n \in 0..MaxBuf : Read(r, n)) \/ ReadBlock(r)
  PROVE  UNCHANGED Stream(r)!svars
<1>1. active' = r /\ entry' = entry /\ result' = result
  BY DEF Read, ReadBlock
<1>2. start'[r] = IF active = r THEN start[r] ELSE bytes_read[r]
  <2>1. CASE \E n \in 0..MaxBuf : Read(r, n)
    BY <2>1, BoundTypes DEF Read, IInv, TypeOK
  <2>2. CASE ReadBlock(r)
    BY <2>2 DEF ReadBlock
  <2>3. QED
    BY <2>1, <2>2
<1>3. FileBytes(r)' = FileBytes(r)
  BY <1>1 DEF FileBytes
<1>4. QED
  BY <1>1, <1>2, <1>3 DEF Stream!svars

LEMMA FailureRefines ==
  ASSUME IInv, NEW r \in Readers, ReadBlockFails(r)
  PROVE  Stream(r)!Next
<1> USE BoundTypes
<1>1. /\ entry[r].size \in Nat /\ buf_len \in 0..MaxBuf /\ buf_read \in 0..buf_len
      /\ start[r] \in 0..Limit /\ bytes_read[r] \in 0..Limit
  BY EntryType DEF IInv, TypeOK
<1>2. /\ active = r /\ active' = None /\ active' # r
      /\ bytes_read[r] < entry[r].size /\ buf_read < buf_len
      /\ start[r] + buf_read = bytes_read[r]
  BY DEF ReadBlockFails, MoreToRead, IInv, LoopInv
<1>3. /\ buf_len > 0 /\ start[r] < entry[r].size
      /\ bytes_read[r] \in start[r]..start[r] + buf_len - 1
  BY <1>1, <1>2
<1>4. /\ result'[r] = [status |-> "err", data |-> <<>>]
      /\ UNCHANGED <<entry, bytes_read, FileBytes(r)>>
  BY DEF ReadBlockFails, IInv, ResultInv, FileBytes
<1>5. Stream(r)!ReadFails(buf_len)
  BY <1>1, <1>2, <1>3, <1>4 DEF Stream!ReadFails, Stream!Left
<1>6. QED
  BY <1>1, <1>5 DEF Stream!Next

LEMMA ReturnRefines ==
  ASSUME IInv, NEW r \in Readers, ReadReturns(r)
  PROVE  Stream(r)!Next
<1> USE BoundTypes
<1> DEFINE left == IF start[r] < entry[r].size THEN entry[r].size - start[r] ELSE 0
           k == IF buf_len < left THEN buf_len ELSE left
<1>1. /\ entry[r].size \in Nat /\ buf_len \in 0..MaxBuf /\ buf_read \in 0..buf_len
      /\ start[r] \in 0..Limit /\ bytes_read[r] \in 0..Limit
  BY EntryType DEF IInv, TypeOK
<1>2. /\ active = r /\ active' = None /\ active' # r
      /\ start[r] + buf_read = bytes_read[r]
      /\ buf_read > 0 => bytes_read[r] <= entry[r].size
      /\ \A i \in 0..buf_read - 1 : buf[i] = <<entry[r].id, start[r] + i>>
      /\ ~(bytes_read[r] < entry[r].size) \/ ~(buf_read < buf_len)
  BY DEF ReadReturns, MoreToRead, IInv, LoopInv
<1>3. buf_read = k /\ bytes_read[r] = start[r] + k
  BY <1>1, <1>2
<1>4. \A i \in 0..buf_read - 1 : buf[i] = FileBytes(r)[start[r] + i]
  <2>1. ASSUME NEW i \in 0..buf_read - 1
        PROVE  start[r] + i \in 0..entry[r].size - 1
    BY <1>1, <1>2
  <2>2. QED
    BY <1>2, <2>1 DEF FileBytes
<1>5. [i \in 0..buf_read - 1 |-> buf[i]] = [i \in 0..k - 1 |-> FileBytes(r)[start[r] + i]]
  BY <1>3, <1>4
<1>6. /\ result'[r] = [status |-> "ok", data |-> [i \in 0..buf_read - 1 |-> buf[i]]]
      /\ UNCHANGED <<entry, bytes_read, FileBytes(r)>>
  BY DEF ReadReturns, IInv, ResultInv, FileBytes
<1>7. Stream(r)!Read(buf_len)
  <2>1. result'[r] = [status |-> "ok", data |-> [i \in 0..k - 1 |-> FileBytes(r)[start[r] + i]]]
    BY <1>5, <1>6
  <2>2. bytes_read'[r] = start[r] + k
    BY <1>3, <1>6
  <2>3. QED
    BY <1>2, <1>6, <2>1, <2>2 DEF Stream!Read, Stream!Left
<1>8. QED
  BY <1>1, <1>7 DEF Stream!Next

LEMMA SeekRefines ==
  ASSUME IInv, NEW r \in Readers, NEW origin \in {0, bytes_read[r], entry[r].size},
         NEW offset \in Offsets, Seek(r, SaturatingAddSigned(origin, offset))
  PROVE  Stream(r)!Next
<1>1. active # r /\ active' # r /\ UNCHANGED <<entry, FileBytes(r)>>
  BY BoundTypes DEF Seek, FileBytes
<1>2. /\ bytes_read'[r] = SaturatingAddSigned(origin, offset)
      /\ result'[r] = [status |-> "pos", data |-> SaturatingAddSigned(origin, offset)]
  BY DEF Seek, IInv, TypeOK, ResultInv
<1>3. Stream(r)!Seek(origin, offset)
  BY <1>1, <1>2 DEF SaturatingAddSigned, Stream!Seek
<1>4. QED
  BY <1>1, <1>3 DEF Stream!Next

LEMMA SeekCallRefines ==
  ASSUME IInv, NEW r \in Readers, NEW offset \in Offsets,
         \/ offset \in 0..Limit /\ SeekStart(r, offset)
         \/ SeekEnd(r, offset) \/ SeekCurrent(r, offset)
  PROVE  Stream(r)!Next
<1>1. ASSUME offset \in 0..Limit, SeekStart(r, offset)
      PROVE  Seek(r, SaturatingAddSigned(0, offset))
  BY <1>1, BoundTypes DEF SeekStart, SaturatingAddSigned
<1>2. QED
  BY <1>1, SeekRefines DEF SeekEnd, SeekCurrent

\* What a step of one reader leaves alone.
LEMMA Frame ==
  ASSUME IInv, NEW q \in Readers, NEW r \in Readers \ {q},
         \/ \E n \in 0..MaxBuf : Read(q, n)
         \/ Loop(q)
         \/ \E p : Seek(q, p)
  PROVE  UNCHANGED Stream(r)!svars
<1>1. /\ active \in {None, q} /\ active' \in {None, q} /\ entry' = entry
      /\ bytes_read'[r] = bytes_read[r] /\ result'[r] = result[r]
  <2>1. CASE \E n \in 0..MaxBuf : Read(q, n)
    BY <2>1 DEF Read
  <2>2. CASE Loop(q)
    BY <2>2 DEF Loop, ReadBlock, ReadBlockFails, ReadReturns, IInv, TypeOK, ResultInv
  <2>3. CASE \E p : Seek(q, p)
    BY <2>3 DEF Seek, IInv, TypeOK, ResultInv
  <2>4. QED
    BY <2>1, <2>2, <2>3
<1>2. QED
  BY <1>1, OthersStay

LEMMA StepRefines ==
  IInv /\ [Next]_vars => [\A r \in Readers : [Stream(r)!Next]_(Stream(r)!svars)]_vars
<1> SUFFICES ASSUME IInv, [Next]_vars, NEW r \in Readers
             PROVE  Stream(r)!Next \/ UNCHANGED Stream(r)!svars
  OBVIOUS
<1>1. CASE OtherCall \/ UNCHANGED vars
  <2>1. UNCHANGED <<entry, active, bytes_read, start, result>>
    BY <1>1 DEF OtherCall, vars
  <2>2. FileBytes(r)' = FileBytes(r)
    BY <2>1 DEF FileBytes
  <2>3. QED
    BY <2>1, <2>2 DEF Stream!svars
<1>2. ASSUME NEW q \in Readers, (\E n \in 0..MaxBuf : Read(q, n)) \/ Loop(q)
      PROVE  Stream(r)!Next \/ UNCHANGED Stream(r)!svars
  <2>1. CASE q = r
    BY <1>2, <2>1, RoundsStutter, FailureRefines, ReturnRefines DEF Loop
  <2>2. CASE q # r
    BY <1>2, <2>2, Frame
  <2>3. QED
    BY <2>1, <2>2
<1>3. ASSUME NEW q \in Readers, NEW offset \in Offsets,
             \/ offset \in 0..Limit /\ SeekStart(q, offset)
             \/ SeekEnd(q, offset) \/ SeekCurrent(q, offset)
      PROVE  Stream(r)!Next \/ UNCHANGED Stream(r)!svars
  <2>1. CASE q = r
    BY <1>3, <2>1, SeekCallRefines
  <2>2. CASE q # r
    <3>1. \E p : Seek(q, p)
      BY <1>3 DEF SeekStart, SeekEnd, SeekCurrent
    <3>2. QED
      BY <2>2, <3>1, Frame
  <2>3. QED
    BY <2>1, <2>2
<1>4. QED
  BY <1>1, <1>2, <1>3 DEF Next

\* Every reader implements the byte stream over its own file, whatever the
\* other readers of the handle and other calls do to libcdio's position.
THEOREM ReadersAreByteStreams == Spec => IsByteStream
  BY InitRefines, StepRefines, Invariant, PTL DEF Spec, IsByteStream
=============================================================================
