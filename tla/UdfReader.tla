----------------------------- MODULE UdfReader -----------------------------
(***************************************************************************)
(* UdfEntryReader: io::Read and io::Seek over UDF entries (udf/entry.rs).   *)
(* libcdio reads the block at a position it keeps inside the Udf handle,    *)
(* p_udf->i_position, which every reader of every entry of that handle      *)
(* shares with libcdio's directory calls: udf/entry.rs:276.                 *)
(* A Udf and what borrows it stay in one thread, so calls on different      *)
(* readers alternate but never overlap.                                     *)
(***************************************************************************)
EXTENDS BlockCopy

CONSTANTS Readers,    \* readers over entries of one Udf handle
          Entries,    \* the files: records [id, size]
          MaxBuf,     \* bound: the longest buffer of the caller
          Offsets,    \* bound: the signed offsets the caller seeks by
          Positions,  \* bound: where other libcdio calls leave i_position
          None        \* no reader

ASSUME EntriesAssumption ==
  /\ MaxBuf \in Nat /\ Offsets \subseteq Int /\ Positions \subseteq Nat
  /\ None \notin Readers
  /\ \A e \in Entries : e.size \in 0..Limit

VARIABLES entry,       \* the entry each reader borrows
          bytes_read,  \* the position of each reader
          i_position,  \* external: libcdio's file position in the Udf handle
          active,      \* the reader whose read() is executing, or None
          buf,         \* the buffer of that call, on 0..buf_len - 1
          buf_len,     \* buf.len()
          buf_read,    \* bytes of buf already filled
          start,       \* auxiliary: bytes_read when the last call on a reader began
          result       \* what the last call on each reader returned

vars == <<entry, bytes_read, i_position, active, buf, buf_len, buf_read, start, result>>

Blank == <<>>   \* what the caller's buffer holds before the read

Init ==
  /\ entry \in [Readers -> Entries]
  /\ bytes_read = [r \in Readers |-> 0]
  /\ i_position = 0
  /\ active = None
  /\ buf = [i \in 0..-1 |-> Blank]
  /\ buf_len = 0
  /\ buf_read = 0
  /\ start = [r \in Readers |-> 0]
  /\ result = [r \in Readers |-> [status |-> "none", data |-> <<>>]]

-----------------------------------------------------------------------------
MoreToRead(r) == bytes_read[r] < entry[r].size /\ buf_read < buf_len

\* Mutant: the position is reset when a read begins and then left to libcdio.
FetchPositionSequential(r) == i_position

\* set_position(block_num): where udf_read_block will read.
FetchPosition(r) == (bytes_read[r] \div BLOCK_SIZE) * BLOCK_SIZE

\* External: the block of a file at a position inside it.
UdfBlock(e, position) == [i \in 0..BLOCK_SIZE - 1 |-> <<e.id, position + i>>]

\* read() begins with set_position(0).
Read(r, n) ==
  /\ active = None
  /\ active' = r
  /\ i_position' = 0
  /\ buf' = [i \in 0..n - 1 |-> Blank]
  /\ buf_len' = n
  /\ buf_read' = 0
  /\ start' = [start EXCEPT ![r] = bytes_read[r]]
  /\ UNCHANGED <<entry, bytes_read, result>>

\* One round of the loop; libcdio moves its position past the block it read.
ReadBlock(r) ==
  /\ active = r /\ MoreToRead(r)
  /\ LET len   == ChunkLen(bytes_read[r], entry[r].size, buf_len - buf_read)
         block == UdfBlock(entry[r], FetchPosition(r))
     IN  /\ buf' = CopyInto(buf, buf_read, len, block, bytes_read[r] % BLOCK_SIZE)
         /\ buf_read' = buf_read + len
         /\ bytes_read' = [bytes_read EXCEPT ![r] = @ + len]
  /\ i_position' = FetchPosition(r) + BLOCK_SIZE
  /\ UNCHANGED <<entry, active, buf_len, start, result>>

\* udf_read_block does not return a whole block: Err, with the blocks of
\* earlier rounds in the buffer and bytes_read past them.
ReadBlockFails(r) ==
  /\ active = r /\ MoreToRead(r)
  /\ active' = None
  /\ i_position' \in {FetchPosition(r), FetchPosition(r) + BLOCK_SIZE}
  /\ result' = [result EXCEPT ![r] = [status |-> "err", data |-> <<>>]]
  /\ UNCHANGED <<entry, bytes_read, buf, buf_len, buf_read, start>>

ReadReturns(r) ==
  /\ active = r /\ ~MoreToRead(r)
  /\ active' = None
  /\ result' = [result EXCEPT ![r] =
                  [status |-> "ok", data |-> [i \in 0..buf_read - 1 |-> buf[i]]]]
  /\ UNCHANGED <<entry, bytes_read, i_position, buf, buf_len, buf_read, start>>

\* SeekFrom::Start, End and Current; libcdio is not called.
Seek(r, to) ==
  /\ active = None
  /\ bytes_read' = [bytes_read EXCEPT ![r] = to]
  /\ start' = [start EXCEPT ![r] = to]
  /\ result' = [result EXCEPT ![r] = [status |-> "pos", data |-> to]]
  /\ UNCHANGED <<entry, i_position, active, buf, buf_len, buf_read>>

SeekStart(r, offset)   == Seek(r, offset)
SeekEnd(r, offset)     == Seek(r, SaturatingAddSigned(entry[r].size, offset))
SeekCurrent(r, offset) == Seek(r, SaturatingAddSigned(bytes_read[r], offset))

\* External: another call on the same Udf, between reads, moves i_position.
OtherCall ==
  /\ active = None
  /\ i_position' \in Positions
  /\ UNCHANGED <<entry, bytes_read, active, buf, buf_len, buf_read, start, result>>

Loop(r) == ReadBlock(r) \/ ReadBlockFails(r) \/ ReadReturns(r)

Next ==
  \/ \E r \in Readers :
       \/ \E n \in 0..MaxBuf : Read(r, n)
       \/ Loop(r)
       \/ \E offset \in Offsets \cap 0..Limit : SeekStart(r, offset)
       \/ \E offset \in Offsets : SeekEnd(r, offset) \/ SeekCurrent(r, offset)
  \/ OtherCall

\* An executing read keeps running; no fetch is obliged to fail.
Spec     == Init /\ [][Next]_vars
FairSpec == Spec /\ \A r \in Readers : WF_vars(ReadBlock(r) \/ ReadReturns(r))

-----------------------------------------------------------------------------
TypeOK ==
  /\ entry \in [Readers -> Entries]
  /\ bytes_read \in [Readers -> 0..Limit]
  /\ i_position \in Nat
  /\ active \in Readers \cup {None}
  /\ buf_len \in 0..MaxBuf
  /\ buf_read \in 0..buf_len
  /\ DOMAIN buf = 0..buf_len - 1
  /\ start \in [Readers -> 0..Limit]
  /\ \A r \in Readers : result[r].status \in {"none", "ok", "err", "pos"}

FileBytes(r) == [p \in 0..entry[r].size - 1 |-> <<entry[r].id, p>>]

\* Each reader keeps the promise of a byte stream over its own file, however
\* calls on the readers of one Udf alternate, fail, seek, and move libcdio's
\* shared position: no reader sees the position another one left.
Stream(r) == INSTANCE ByteStream WITH file <- FileBytes(r), size <- entry[r].size,
                                      pos <- IF active = r THEN start[r] ELSE bytes_read[r],
                                      result <- result[r]

IsByteStream == /\ \A r \in Readers : Stream(r)!Init
                /\ [][\A r \in Readers : [Stream(r)!Next]_(Stream(r)!svars)]_vars

\* Every read returns: each round of the loop takes at least one byte.
ReadsReturn == \A r \in Readers : active = r ~> active # r
=============================================================================
