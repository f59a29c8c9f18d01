----------------------------- MODULE IsoReader -----------------------------
(***************************************************************************)
(* IsoEntryReader: io::Read and io::Seek over an ISO 9660 entry             *)
(* (iso9660/entry.rs).  A read is a loop that fetches one block of the      *)
(* image at a time through iso9660_iso_seek_read, by its sector number;     *)
(* one iteration is one step here, and any fetch may fail.                  *)
(* A byte of the image is its address; the file's data is one extent.       *)
(***************************************************************************)
EXTENDS BlockCopy

CONSTANTS Entries,  \* the files: records [lsn, size]
          MaxBuf,   \* bound: the longest buffer of the caller
          Offsets,  \* bound: the signed offsets the caller seeks by
          MaxLsn    \* the largest lsn_t

\* iso9660_stat: the extent lies in the image, whose sectors an i32 numbers.
ASSUME EntriesAssumption ==
  /\ MaxBuf \in Nat /\ MaxLsn \in Nat /\ Offsets \subseteq Int
  /\ \A e \in Entries : /\ e.lsn \in Nat /\ e.size \in 0..Limit
                        /\ \A p \in 0..e.size - 1 : e.lsn + p \div BLOCK_SIZE <= MaxLsn

VARIABLES entry,       \* the entry the reader borrows
          bytes_read,  \* the reader's position
          busy,        \* a read() is executing
          buf,         \* the caller's buffer, on 0..buf_len - 1
          buf_len,     \* buf.len()
          buf_read,    \* bytes of buf already filled
          start,       \* auxiliary: bytes_read when the last call began
          result       \* what the last call returned

vars == <<entry, bytes_read, busy, buf, buf_len, buf_read, start, result>>

Blank == -1   \* what the caller's buffer holds before the read

Init ==
  /\ entry \in Entries
  /\ bytes_read = 0
  /\ busy = FALSE
  /\ buf = [i \in 0..-1 |-> Blank]
  /\ buf_len = 0
  /\ buf_read = 0
  /\ start = 0
  /\ result = [status |-> "none", data |-> <<>>]

-----------------------------------------------------------------------------
\* Mutant: reads one block past a file that ends on a block boundary.
MoreToReadPastEof == bytes_read <= entry.size /\ buf_read < buf_len

MoreToRead == bytes_read < entry.size /\ buf_read < buf_len

NextLsn == entry.lsn + bytes_read \div BLOCK_SIZE

\* External: the block of the image at a sector number.
ImageBlock(lsn) == [i \in 0..BLOCK_SIZE - 1 |-> lsn * BLOCK_SIZE + i]

Read(n) ==
  /\ ~busy
  /\ busy' = TRUE
  /\ buf' = [i \in 0..n - 1 |-> Blank]
  /\ buf_len' = n
  /\ buf_read' = 0
  /\ start' = bytes_read
  /\ UNCHANGED <<entry, bytes_read, result>>

ReadBlock ==
  /\ busy /\ MoreToRead
  /\ LET len == ChunkLen(bytes_read, entry.size, buf_len - buf_read)
     IN  /\ buf' = CopyInto(buf, buf_read, len, ImageBlock(NextLsn), bytes_read % BLOCK_SIZE)
         /\ buf_read' = buf_read + len
         /\ bytes_read' = bytes_read + len
  /\ UNCHANGED <<entry, busy, buf_len, start, result>>

\* iso9660_iso_seek_read does not return a whole block: Err, with the blocks
\* of earlier iterations in the buffer and bytes_read past them.
ReadBlockFails ==
  /\ busy /\ MoreToRead
  /\ busy' = FALSE
  /\ result' = [status |-> "err", data |-> <<>>]
  /\ UNCHANGED <<entry, bytes_read, buf, buf_len, buf_read, start>>

ReadReturns ==
  /\ busy /\ ~MoreToRead
  /\ busy' = FALSE
  /\ result' = [status |-> "ok", data |-> [i \in 0..buf_read - 1 |-> buf[i]]]
  /\ UNCHANGED <<entry, bytes_read, buf, buf_len, buf_read, start>>

\* SeekFrom::Start, End and Current; no end is refused.
Seek(to) ==
  /\ ~busy
  /\ bytes_read' = to
  /\ start' = to
  /\ result' = [status |-> "pos", data |-> to]
  /\ UNCHANGED <<entry, busy, buf, buf_len, buf_read>>

SeekStart(offset)   == Seek(offset)
SeekEnd(offset)     == Seek(SaturatingAddSigned(entry.size, offset))
SeekCurrent(offset) == Seek(SaturatingAddSigned(bytes_read, offset))

Loop == ReadBlock \/ ReadBlockFails \/ ReadReturns

Next == \/ \E n \in 0..MaxBuf : Read(n)
        \/ Loop
        \/ \E offset \in Offsets \cap 0..Limit : SeekStart(offset)
        \/ \E offset \in Offsets : SeekEnd(offset) \/ SeekCurrent(offset)

\* An executing read keeps running; no fetch is obliged to fail.
Spec     == Init /\ [][Next]_vars
FairSpec == Spec /\ WF_vars(ReadBlock \/ ReadReturns)

-----------------------------------------------------------------------------
TypeOK ==
  /\ entry \in Entries
  /\ bytes_read \in 0..Limit
  /\ busy \in BOOLEAN
  /\ buf_len \in 0..MaxBuf
  /\ buf_read \in 0..buf_len
  /\ DOMAIN buf = 0..buf_len - 1
  /\ start \in 0..Limit
  /\ result.status \in {"none", "ok", "err", "pos"}

\* Every sector a read asks for is one of the file's own, so it also fits the
\* i32 of the sum (entry.rs:237), wherever the caller seeked before.
ReadsInsideExtent ==
  busy /\ MoreToRead => /\ NextLsn \in entry.lsn..MaxLsn
                        /\ NextLsn * BLOCK_SIZE < entry.lsn * BLOCK_SIZE + entry.size

\* The bytes of the file, as addresses in the image.
FileBytes == [p \in 0..entry.size - 1 |-> entry.lsn * BLOCK_SIZE + p]

\* The reader keeps the promise of a byte stream over the file: whatever the
\* lengths of the buffers, the failures and the seeks, a read returns exactly
\* the bytes at the position, never those past the end of the file that share
\* its last block, and never leaves a gap or repeats a byte.
Stream == INSTANCE ByteStream WITH file <- FileBytes, size <- entry.size,
                                   pos <- IF busy THEN start ELSE bytes_read

IsByteStream == Stream!Spec

\* Every read returns: each round of the loop takes at least one byte.
ReadsReturn == busy ~> ~busy

\* entry.rs:189: "Returns a type that implements [`io::Read`]", whose contract
\* is that a read which returns an error has read no bytes.
FailedReadReadsNothing == ~busy /\ result.status = "err" => bytes_read = start
=============================================================================
