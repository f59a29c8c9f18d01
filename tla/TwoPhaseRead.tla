--------------------------- MODULE TwoPhaseRead ----------------------------
(***************************************************************************)
(* The MMC reads whose answer has no fixed size (mmc/read_toc.rs,           *)
(* mmc/read_disc_info.rs).  A first command fetches as much as a small      *)
(* buffer holds; if the length field says that there is more, the buffer    *)
(* grows and the same command is sent again.  The device may have another   *)
(* table by then: its medium was changed, or somebody recorded on it.       *)
(*                                                                          *)
(* A byte of an answer is the pair of the table and its place in it, so     *)
(* what the decoders return shows where it came from.                       *)
(***************************************************************************)
EXTENDS Integers

CONSTANTS Tables,  \* what the device may answer: records [id, size, valid]
          Empty,   \* the table of a byte that no answer wrote
          BUF,     \* DEFAULT_BUFFER_SIZE, INITIAL_BUFFER_SIZE: 64 in the code
          Radix    \* the values of a byte: 256 in the code

LengthLimit == Radix * Radix   \* a u16, as the allocation length is

ASSUME BufAssumption == BUF \in Nat \ {0, 1} /\ Radix \in Nat \ {0} /\ BUF < LengthLimit
\* External: an answer begins with two bytes that count the bytes after them.
ASSUME TablesAssumption ==
  /\ Empty \notin Tables
  /\ \A t \in Tables : t.size \in 2..LengthLimit + 1 /\ t.valid \in BOOLEAN

VARIABLES table,   \* what the device holds now
          call,    \* the operation that executes, or executed last
          pc,      \* its next step
          buf,     \* `buf`, on 0..buf.len() - 1
          total,   \* data_size, data_length
          first,   \* auxiliary: the table that answered the first command
          last,    \* auxiliary: the table that answered the last command
          result   \* what the operation returned

vars == <<table, call, pc, buf, total, first, last, result>>

TocCalls == {"cd_text", "cd_type", "last_sector"}
Calls    == TocCalls \union {"is_disc_erasable"}

Zero == <<Empty, 0>>
NoData == [i \in {} |-> Zero]

\* vec![0; BUF]
Zeros == [i \in 0..BUF - 1 |-> Zero]

\* Only the length field is read as numbers: big endian, two bytes.
Value(b) == IF b[1] = Empty THEN 0
            ELSE IF b[2] = 0 THEN (b[1].size - 2) \div Radix
            ELSE (b[1].size - 2) % Radix
Length(data) == Value(data[0]) * Radix + Value(data[1])

\* run_command: the device sends its answer, but not more than the allocation
\* length; the rest of the buffer keeps what it held.
Transfer(data, t, alloc) ==
  [i \in DOMAIN data |-> IF i < alloc /\ i < t.size THEN <<t, i>> ELSE data[i]]

\* Mutant: the two bytes of the length field are all that is added.
HeaderSizeOfLength(c) == 2

\* What is added to the length field: HEADER_SIZE, DATA_LEN_FIELDSIZE.
HeaderSize(c) == IF c \in TocCalls THEN 4 ELSE 2

\* Mutant: the buffer keeps its size.
ResizedNever(data, n) == data

\* buf.resize(n, 0)
Resized(data, n) == [i \in 0..n - 1 |-> IF i < BUF THEN data[i] ELSE Zero]

\* Mutant: the command block keeps the first allocation length.
AllocationLengthKept(n) == BUF

\* buf.len() as u16, in the command block
AllocationLength(n) == n % LengthLimit

-----------------------------------------------------------------------------
Init ==
  /\ table \in Tables
  /\ call = "cd_text"
  /\ pc = "idle"
  /\ buf = Zeros
  /\ total = 0
  /\ first = Empty
  /\ last = Empty
  /\ result = [status |-> "none", data |-> NoData]

Begin(c) ==
  /\ pc = "idle"
  /\ call' = c
  /\ pc' = "first"
  /\ buf' = Zeros
  /\ total' = 0
  /\ first' = Empty
  /\ last' = Empty
  /\ result' = [status |-> "none", data |-> NoData]
  /\ UNCHANGED table

\* The first command, and the size that its answer announces.
FirstCommand ==
  /\ pc = "first"
  /\ buf' = Transfer(buf, table, BUF)
  /\ total' = Length(buf') + HeaderSize(call)
  /\ pc' = IF total' > BUF THEN "second" ELSE "decode"
  /\ first' = table
  /\ last' = table
  /\ UNCHANGED <<table, call, result>>

SecondCommand ==
  /\ pc = "second"
  /\ buf' = Transfer(Resized(buf, total), table, AllocationLength(total))
  /\ pc' = "decode"
  /\ last' = table
  /\ UNCHANGED <<table, call, total, first, result>>

Return(status, data) ==
  /\ pc' = "idle"
  /\ result' = [status |-> status, data |-> data]
  /\ UNCHANGED <<table, call, buf, total, first, last>>

CommandFails == pc \in {"first", "second"} /\ Return("Os", NoData)

\* parse_header: the places of the descriptors; take() fails without them all.
Descriptors == 4..Length(buf) + 3
HeaderParses == Length(buf) + 3 \in DOMAIN buf

\* A decoder wants the places Needed; a mark is a value other than zero that
\* one of them must have, and zero is among the good values of the others.
Holds(Needed, mark, Others) ==
  /\ HeaderParses /\ Needed \subseteq Descriptors
  /\ buf[mark][1] # Empty
  /\ \A i \in Others \union {mark} : buf[i][1] = Empty \/ buf[i][1].valid
Part(Places) == [i \in Places |-> buf[i]]

\* The raw TOC descriptor has 11 bytes: POINT is its fourth, a zero its
\* eighth, PSEC its tenth.
TypeDescriptor == 4..14
TypePoint == 7
TypeZero  == 11
TypePsec  == 13
\* The formatted TOC descriptor has 8: the track is its third, then the address.
SectorDescriptor == 4..11
SectorTrack      == 6
SectorAddress    == 8..11

CdText ==
  /\ pc = "decode" /\ call = "cd_text"
  /\ IF HeaderParses THEN Return("Ok", Part(Descriptors)) ELSE Return("InvalidResponse", NoData)

CdType ==
  /\ pc = "decode" /\ call = "cd_type"
  /\ IF Holds(TypeDescriptor, TypePoint, {TypeZero, TypePsec}) THEN Return("Ok", Part({TypePsec}))
     ELSE Return("InvalidResponse", NoData)

LastSector ==
  /\ pc = "decode" /\ call = "last_sector"
  /\ IF Holds(SectorDescriptor, SectorTrack, {}) THEN Return("Ok", Part(SectorAddress))
     ELSE Return("InvalidResponse", NoData)

\* buf.truncate(data_length), then data[2] of what is left.
IsDiscErasable ==
  /\ pc = "decode" /\ call = "is_disc_erasable"
  /\ IF total > 2 THEN Return("Ok", Part({2})) ELSE Return("panic", NoData)

\* External: the medium is changed, or recorded on, at any time.
TableChanges ==
  /\ table' \in Tables
  /\ UNCHANGED <<call, pc, buf, total, first, last, result>>

Decode == CdText \/ CdType \/ LastSector \/ IsDiscErasable

Next == \/ \E c \in Calls : Begin(c)
        \/ FirstCommand \/ SecondCommand \/ CommandFails
        \/ Decode
        \/ TableChanges

Spec == Init /\ [][Next]_vars

-----------------------------------------------------------------------------
\* The buffer always has the size that was announced, so that truncating and
\* slicing it cannot fail.
TypeOK ==
  /\ table \in Tables
  /\ call \in Calls
  /\ pc \in {"idle", "first", "second", "decode"}
  /\ total \in 0..LengthLimit + 3
  /\ first \in Tables \union {Empty} /\ last \in Tables \union {Empty}
  /\ pc = "first" => DOMAIN buf = 0..BUF - 1
  /\ pc = "second" => DOMAIN buf = 0..BUF - 1 /\ total > BUF
  /\ pc = "decode" => DOMAIN buf = 0..(IF total > BUF THEN total ELSE BUF) - 1
  /\ result.status \in {"none", "Ok", "Os", "InvalidResponse", "panic"}

\* The sizes a device has reason to report: whole descriptors, or none.
WholeDescriptors(c, t) ==
  CASE c = "cd_text"          -> t.size >= 4
    [] c = "cd_type"          -> t.size = 4 \/ t.size >= 15
    [] c = "last_sector"      -> t.size = 4 \/ t.size >= 12
    [] c = "is_disc_erasable" -> t.size >= 3

\* The allocation length holds the size that was announced.
Announced == total < LengthLimit

\* What a decoder returns is never torn between two tables: although the
\* length is that of the first answer and the device may hold another table
\* when it answers again, each byte of the answer is one of the table that
\* answered last, unless that table ends before it.  The type, the sector and
\* the erasable bit are never taken from behind the end of the table.
NotTorn ==
  result.status = "Ok" /\ Announced /\ WholeDescriptors(call, last) =>
    \A i \in DOMAIN result.data :
      (call = "cd_text" => i < last.size) => result.data[i] = <<last, i>>

\* The bytes that an operation is asked for, if the table has them.
Asked(c, t) ==
  CASE c = "cd_text"          -> 4..t.size - 1
    [] c = "cd_type"          -> IF t.size >= 15 /\ t.valid THEN {TypePsec} ELSE {}
    [] c = "last_sector"      -> IF t.size >= 12 /\ t.valid THEN SectorAddress ELSE {}
    [] c = "is_disc_erasable" -> IF t.size >= 3 THEN {2} ELSE {}

\* When both commands were answered from the same table, an operation returns
\* everything it was asked for: neither the size of the first buffer nor the
\* header cuts anything off or turns a good answer into an error.
AllOfIt ==
  result.status \in {"Ok", "InvalidResponse", "panic"} /\ first = last /\ Announced =>
    Asked(call, last) \subseteq DOMAIN result.data

\* read_toc.rs:42: "Get the CD-TEXT from the RW sub-channel of the media."
\* Nothing that is not on the media is returned as its text.
OnlyText ==
  result.status = "Ok" /\ call = "cd_text" /\ first = last /\ Announced =>
    DOMAIN result.data \subseteq 0..last.size - 1
=============================================================================
