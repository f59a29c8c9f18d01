------------------------ MODULE TwoPhaseRead_proofs ------------------------
(***************************************************************************)
(* For any set of tables and any sizes of the buffer and of a byte: the     *)
(* buffer has the announced size, no answer is torn between two tables, and *)
(* a table that stays while it is read is returned whole.                   *)
(***************************************************************************)
EXTENDS TwoPhaseRead, TLAPS

\* A number of two digits.
LEMMA Digits ==
  ASSUME NEW R \in Nat \ {0}, NEW x \in 0..(R * R) - 1
  PROVE  /\ (x \div R) \in 0..R - 1
         /\ (x % R) \in 0..R - 1
         /\ ((x \div R) * R) + (x % R) = x
<1>1. x \in Nat /\ x < R * R
  OBVIOUS
<1>2. (x \div R) \in Int /\ (x % R) \in 0..R - 1 /\ x = (R * (x \div R)) + (x % R)
  BY <1>1
<1>3. x \div R >= 0
  BY <1>1, <1>2
<1>4. x \div R < R
  <2>1. SUFFICES ASSUME x \div R >= R PROVE FALSE
    BY <1>2
  <2>2. R * (x \div R) >= R * R
    BY <2>1, <1>2
  <2> QED
    BY <2>2, <1>1, <1>2
<1> QED
  BY <1>2, <1>3, <1>4

LEMMA DigitsBelow ==
  ASSUME NEW R \in Nat \ {0}, NEW a \in 0..R - 1, NEW b \in 0..R - 1
  PROVE  (a * R) + b \in 0..(R * R) - 1
<1>1. a * R <= (R - 1) * R
  OBVIOUS
<1>2. (R - 1) * R = (R * R) - R
  OBVIOUS
<1>3. a * R >= 0 /\ a * R \in Int /\ R * R \in Int
  OBVIOUS
<1> QED
  BY <1>1, <1>2, <1>3

-----------------------------------------------------------------------------
Bytes == (Tables \union {Empty}) \X Nat

LEMMA LimitNat == LengthLimit \in Nat /\ Radix \in Nat \ {0}
  BY BufAssumption DEF LengthLimit

\* External answers: the length of a table has two digits.
LEMMA TableLength ==
  ASSUME NEW t \in Tables
  PROVE  t.size - 2 \in 0..(Radix * Radix) - 1 /\ t.size \in Nat
<1>1. t.size \in 2..LengthLimit + 1
  BY TablesAssumption
<1> QED
  BY <1>1, LimitNat DEF LengthLimit

LEMMA ValueRange ==
  ASSUME NEW b \in Bytes
  PROVE  Value(b) \in 0..Radix - 1
<1>1. CASE b[1] = Empty
  BY <1>1, LimitNat DEF Value
<1>2. CASE b[1] # Empty
  <2>1. b[1] \in Tables
    BY <1>2 DEF Bytes
  <2> QED
    BY <1>2, <2>1, TableLength, LimitNat, Digits DEF Value
<1> QED
  BY <1>1, <1>2

\* Whatever two bytes are taken for the length field, the length is a u16.
LEMMA LengthRange ==
  ASSUME NEW data, data[0] \in Bytes, data[1] \in Bytes
  PROVE  Length(data) \in 0..LengthLimit - 1
<1>1. Value(data[0]) \in 0..Radix - 1 /\ Value(data[1]) \in 0..Radix - 1
  BY ValueRange
<1> QED
  BY <1>1, LimitNat, DigitsBelow DEF Length, LengthLimit

\* Two bytes of one table give that table's length.
LEMMA LengthOfTable ==
  ASSUME NEW data, NEW t \in Tables, data[0] = <<t, 0>>, data[1] = <<t, 1>>
  PROVE  Length(data) = t.size - 2
<1>1. t # Empty
  BY TablesAssumption
<1>2. Value(data[0]) = (t.size - 2) \div Radix /\ Value(data[1]) = (t.size - 2) % Radix
  BY <1>1 DEF Value
<1> QED
  BY <1>2, TableLength, LimitNat, Digits DEF Length

LEMMA TransferBytes ==
  ASSUME NEW data, NEW t \in Tables, NEW alloc,
         DOMAIN data \subseteq Nat, \A i \in DOMAIN data : data[i] \in Bytes
  PROVE  /\ DOMAIN Transfer(data, t, alloc) = DOMAIN data
         /\ \A i \in DOMAIN data : Transfer(data, t, alloc)[i] \in Bytes
  BY DEF Transfer, Bytes

-----------------------------------------------------------------------------
BytesOK == DOMAIN buf \subseteq Nat /\ \A i \in DOMAIN buf : buf[i] \in Bytes

TypeInv == TypeOK /\ BytesOK

LEMMA ZerosOK == DOMAIN Zeros = 0..BUF - 1 /\ \A i \in DOMAIN Zeros : Zeros[i] \in Bytes
  BY DEF Zeros, Zero, Bytes

\* The size that the first answer announces.
LEMMA TotalRange ==
  ASSUME NEW data, data[0] \in Bytes, data[1] \in Bytes, NEW c
  PROVE  Length(data) + HeaderSize(c) \in 0..LengthLimit + 3
  BY LengthRange, LimitNat DEF HeaderSize

LEMMA TypeStep ==
  ASSUME TypeInv, [Next]_vars
  PROVE  TypeInv'
<1> USE DEF TypeInv, TypeOK, BytesOK
<1> BUF \in Nat /\ BUF > 1
  BY BufAssumption
<1>1. ASSUME NEW c \in Calls, Begin(c) PROVE TypeInv'
  BY <1>1, ZerosOK, LimitNat DEF Begin
<1>2. CASE FirstCommand
  <2>1. DOMAIN buf' = 0..BUF - 1 /\ \A i \in DOMAIN buf' : buf'[i] \in Bytes
    BY <1>2, TransferBytes DEF FirstCommand
  <2>2. total' \in 0..LengthLimit + 3
    <3>1. 0 \in 0..BUF - 1 /\ 1 \in 0..BUF - 1
      OBVIOUS
    <3>2. buf'[0] \in Bytes /\ buf'[1] \in Bytes
      BY <2>1, <3>1
    <3>3. total' = Length(buf') + HeaderSize(call)
      BY <1>2 DEF FirstCommand
    <3> QED
      BY <3>2, <3>3, TotalRange
  <2>3. /\ pc' = IF total' > BUF THEN "second" ELSE "decode"
        /\ first' = table /\ last' = table
        /\ UNCHANGED <<table, call, result>>
    BY <1>2 DEF FirstCommand
  <2>4. DOMAIN buf' \subseteq Nat
    BY <2>1
  <2> QED
    BY <2>1, <2>2, <2>3, <2>4
<1>3. CASE SecondCommand
  <2>1. total \in Nat /\ total > BUF /\ DOMAIN buf = 0..BUF - 1
    BY <1>3, LimitNat DEF SecondCommand
  <2>2. /\ DOMAIN Resized(buf, total) = 0..total - 1
        /\ \A i \in 0..total - 1 : Resized(buf, total)[i] \in Bytes
    BY <2>1 DEF Resized, Zero, Bytes
  <2>3. DOMAIN buf' = 0..total - 1 /\ \A i \in DOMAIN buf' : buf'[i] \in Bytes
    BY <1>3, <2>1, <2>2, TransferBytes DEF SecondCommand
  <2>4. pc' = "decode" /\ last' = table /\ UNCHANGED <<table, call, total, first, result>>
    BY <1>3 DEF SecondCommand
  <2>5. DOMAIN buf' \subseteq Nat
    BY <2>3, <2>1
  <2> QED
    BY <2>1, <2>3, <2>4, <2>5
<1>4. CASE CommandFails \/ Decode
  BY <1>4 DEF CommandFails, Decode, CdText, CdType, LastSector, IsDiscErasable, Return
<1>5. CASE TableChanges
  BY <1>5 DEF TableChanges
<1>6. CASE UNCHANGED vars
  BY <1>6 DEF vars
<1> QED
  BY <1>1, <1>2, <1>3, <1>4, <1>5, <1>6 DEF Next

\* The buffer always has the size that the first answer announced, so neither
\* truncating it nor slicing it can fail.
THEOREM Typing == Spec => []TypeOK
<1>1. Init => TypeInv
  BY ZerosOK, LimitNat DEF Init, TypeInv, TypeOK, BytesOK, Calls, TocCalls
<1>2. TypeInv /\ [Next]_vars => TypeInv'
  BY TypeStep
<1>3. TypeInv => TypeOK
  BY DEF TypeInv
<1> QED
  BY <1>1, <1>2, <1>3, PTL DEF Spec
-----------------------------------------------------------------------------
\* Between the last answer and the decoder, the buffer holds that answer.
Held ==
  pc = "decode" =>
    /\ last \in Tables
    /\ Announced => \A i \in DOMAIN buf : i < last.size => buf[i] = <<last, i>>

NoResultYet == pc # "idle" => result.status = "none"

Inv == TypeInv /\ Held /\ NoResultYet /\ NotTorn

LEMMA HeldStep ==
  ASSUME Inv, [Next]_vars
  PROVE  Held'
<1> USE DEF Held
<1> BUF \in Nat /\ BUF > 1 /\ LengthLimit \in Nat
  BY BufAssumption, LimitNat
<1> TypeOK
  BY DEF Inv, TypeInv
<1>1. ASSUME NEW c \in Calls, Begin(c) PROVE Held'
  BY <1>1 DEF Begin
<1>2. CASE FirstCommand
  <2>1. DOMAIN buf = 0..BUF - 1 /\ table \in Tables
    BY <1>2 DEF FirstCommand, TypeOK
  <2>2. \A i \in 0..BUF - 1 : i < table.size => buf'[i] = <<table, i>>
    BY <1>2, <2>1 DEF FirstCommand, Transfer
  <2>3. DOMAIN buf' = 0..BUF - 1 /\ last' = table
    BY <1>2, <2>1 DEF FirstCommand, Transfer
  <2> QED
    BY <2>1, <2>2, <2>3
<1>3. CASE SecondCommand
  <2>1. /\ total \in Nat /\ total' = total /\ table \in Tables /\ last' = table
        /\ buf' = Transfer(Resized(buf, total), table, AllocationLength(total))
    BY <1>3 DEF SecondCommand, TypeOK
  <2>2. DOMAIN buf' = 0..total - 1
    BY <2>1 DEF Transfer, Resized
  <2>3. ASSUME Announced' PROVE \A i \in 0..total - 1 : i < table.size => buf'[i] = <<table, i>>
    <3>1. total < LengthLimit
      BY <2>1, <2>3 DEF Announced
    <3>2. AllocationLength(total) = total
      BY <2>1, <3>1 DEF AllocationLength
    <3> QED
      BY <2>1, <3>2 DEF Transfer, Resized
  <2> QED
    BY <2>1, <2>2, <2>3
<1>4. CASE CommandFails \/ Decode
  BY <1>4 DEF CommandFails, Decode, CdText, CdType, LastSector, IsDiscErasable, Return
<1>5. CASE TableChanges
  BY <1>5 DEF TableChanges, Announced, Inv
<1>6. CASE UNCHANGED vars
  BY <1>6 DEF vars, Announced, Inv
<1> QED
  BY <1>1, <1>2, <1>3, <1>4, <1>5, <1>6 DEF Next

\* A decoder that found enough descriptors in a whole table reads that table.
LEMMA DecodedPlace ==
  ASSUME Inv, pc = "decode", Announced, HeaderParses,
         NEW n \in Nat, 4..n \subseteq Descriptors, n >= 6,
         last.size = 4 \/ last.size > n,
         NEW i \in 4..n
  PROVE  i < last.size /\ buf[i] = <<last, i>>
<1>1. last \in Tables /\ last.size \in Nat /\ last.size >= 2
  BY TableLength, TablesAssumption, LimitNat DEF Inv, Held
<1>2. DOMAIN buf = 0..(IF total > BUF THEN total ELSE BUF) - 1 /\ total \in Nat /\ BUF \in Nat \ {0, 1}
  BY BufAssumption, LimitNat DEF Inv, TypeInv, TypeOK
<1>3. 0 \in DOMAIN buf /\ 1 \in DOMAIN buf
  BY <1>2
<1>4. Length(buf) = last.size - 2
  BY <1>1, <1>3, LengthOfTable DEF Inv, Held
<1>5. n <= last.size + 1 /\ last.size + 1 \in DOMAIN buf
  BY <1>1, <1>4 DEF Descriptors, HeaderParses
<1>6. last.size > n
  BY <1>1, <1>5
<1>7. i \in DOMAIN buf
  BY <1>1, <1>2, <1>5, <1>6
<1> QED
  BY <1>1, <1>6, <1>7 DEF Inv, Held

LEMMA DecodeNotTorn ==
  ASSUME Inv, Decode, result'.status = "Ok", Announced, WholeDescriptors(call, last)
  PROVE  \A i \in DOMAIN result'.data :
           (call = "cd_text" => i < last.size) => result'.data[i] = <<last, i>>
<1>1. /\ last \in Tables /\ last.size \in Nat /\ pc = "decode"
      /\ \A i \in DOMAIN buf : i < last.size => buf[i] = <<last, i>>
  BY TableLength DEF Inv, Held, Decode, CdText, CdType, LastSector, IsDiscErasable
<1>2. DOMAIN buf = 0..(IF total > BUF THEN total ELSE BUF) - 1 /\ total \in Nat /\ BUF \in Nat \ {0, 1}
  BY <1>1, BufAssumption, LimitNat DEF Inv, TypeInv, TypeOK
<1>3. CASE CdText
  <2>1. HeaderParses /\ result'.data = Part(Descriptors)
    BY <1>3 DEF CdText, Return
  <2>2. Length(buf) \in Nat
    BY <1>1, <1>2, LengthRange, LimitNat DEF Inv, TypeInv, BytesOK
  <2>3. Descriptors \subseteq DOMAIN buf
    BY <1>2, <2>1, <2>2 DEF Descriptors, HeaderParses
  <2> QED
    BY <1>1, <1>3, <2>1, <2>3 DEF Part, CdText
<1>4. CASE CdType
  <2>1. HeaderParses /\ TypeDescriptor \subseteq Descriptors /\ result'.data = Part({TypePsec})
    BY <1>4 DEF CdType, Return, Holds
  <2>2. last.size = 4 \/ last.size > 14
    BY <1>1, <1>4 DEF CdType, WholeDescriptors
  <2>3. buf[13] = <<last, 13>>
    <3>1. 14 \in Nat /\ 14 >= 6 /\ 13 \in 4..14 /\ 4..14 \subseteq Descriptors
      BY <2>1 DEF TypeDescriptor
    <3> QED
      BY <1>1, <2>1, <2>2, <3>1, DecodedPlace
  <2> QED
    BY <1>4, <2>1, <2>3 DEF Part, TypePsec, CdType
<1>5. CASE LastSector
  <2>1. HeaderParses /\ SectorDescriptor \subseteq Descriptors /\ result'.data = Part(SectorAddress)
    BY <1>5 DEF LastSector, Return, Holds
  <2>2. last.size = 4 \/ last.size > 11
    BY <1>1, <1>5 DEF LastSector, WholeDescriptors
  <2>3. \A i \in 8..11 : buf[i] = <<last, i>>
    BY <1>1, <2>1, <2>2, DecodedPlace DEF SectorDescriptor
  <2> QED
    BY <1>5, <2>1, <2>3 DEF Part, SectorAddress, LastSector
<1>6. CASE IsDiscErasable
  <2>1. total > 2 /\ result'.data = Part({2})
    BY <1>6 DEF IsDiscErasable, Return
  <2>2. 2 \in DOMAIN buf /\ 2 < last.size
    BY <1>1, <1>2, <1>6, <2>1 DEF IsDiscErasable, WholeDescriptors
  <2> QED
    BY <1>1, <1>6, <2>1, <2>2 DEF Part, IsDiscErasable
<1> QED
  BY <1>3, <1>4, <1>5, <1>6 DEF Decode

LEMMA InvStep ==
  ASSUME Inv, [Next]_vars
  PROVE  Inv'
<1>1. TypeInv' /\ Held'
  BY TypeStep, HeldStep DEF Inv
<1>2. NoResultYet' /\ NotTorn'
  <2> USE DEF Inv, NoResultYet
  <2>1. ASSUME NEW c \in Calls, Begin(c) PROVE NoResultYet' /\ NotTorn'
    BY <2>1 DEF Begin, NotTorn
  <2>2. CASE FirstCommand
    BY <2>2 DEF FirstCommand, NotTorn
  <2>3. CASE SecondCommand
    BY <2>3 DEF SecondCommand, NotTorn
  <2>4. CASE CommandFails
    BY <2>4 DEF CommandFails, Return, NotTorn
  <2>5. CASE Decode
    <3>1. pc' = "idle" /\ UNCHANGED <<call, total, last>>
      BY <2>5 DEF Decode, CdText, CdType, LastSector, IsDiscErasable, Return
    <3>2. WholeDescriptors(call, last)' = WholeDescriptors(call, last)
      BY <3>1
    <3>3. Announced' = Announced
      BY <3>1 DEF Announced
    <3> QED
      BY <2>5, <3>1, <3>2, <3>3, DecodeNotTorn DEF NotTorn
  <2>6. CASE TableChanges
    BY <2>6 DEF TableChanges, NotTorn, Announced
  <2>7. CASE UNCHANGED vars
    BY <2>7 DEF vars, NotTorn, Announced
  <2> QED
    BY <2>1, <2>2, <2>3, <2>4, <2>5, <2>6, <2>7 DEF Next
<1> QED
  BY <1>1, <1>2 DEF Inv

\* No answer is torn between the table that answered first and the one that
\* answered last.
THEOREM NeverTorn == Spec => []NotTorn
<1>1. Init => Inv
  <2>1. Init => TypeInv
    BY ZerosOK, LimitNat DEF Init, TypeInv, TypeOK, BytesOK, Calls, TocCalls
  <2> QED
    BY <2>1 DEF Init, Inv, Held, NoResultYet, NotTorn
<1>2. Inv /\ [Next]_vars => Inv'
  BY InvStep
<1>3. Inv => NotTorn
  BY DEF Inv
<1> QED
  BY <1>1, <1>2, <1>3, PTL DEF Spec

-----------------------------------------------------------------------------
\* After the first command the size is that of the table that answered it.
Sized == pc \in {"second", "decode"} => first \in Tables /\ total = first.size - 2 + HeaderSize(call)

WholeInv == Inv /\ Sized /\ AllOfIt

LEMMA SizedStep ==
  ASSUME Inv, Sized, [Next]_vars
  PROVE  Sized'
<1> USE DEF Sized
<1>1. ASSUME NEW c \in Calls, Begin(c) PROVE Sized'
  BY <1>1 DEF Begin
<1>2. CASE FirstCommand
  <2>1. DOMAIN buf = 0..BUF - 1 /\ table \in Tables /\ BUF \in Nat /\ BUF > 1
    BY <1>2, BufAssumption DEF FirstCommand, Inv, TypeInv, TypeOK
  <2>2. table.size \in Nat /\ table.size >= 2
    BY <2>1, TableLength, TablesAssumption, LimitNat
  <2>3. buf'[0] = <<table, 0>> /\ buf'[1] = <<table, 1>>
    BY <1>2, <2>1, <2>2 DEF FirstCommand, Transfer
  <2>4. Length(buf') = table.size - 2
    BY <2>1, <2>3, LengthOfTable
  <2> QED
    BY <1>2, <2>1, <2>4 DEF FirstCommand, HeaderSize
<1>3. CASE SecondCommand
  BY <1>3 DEF SecondCommand, HeaderSize
<1>4. CASE CommandFails \/ Decode
  BY <1>4 DEF CommandFails, Decode, CdText, CdType, LastSector, IsDiscErasable, Return
<1>5. CASE TableChanges
  BY <1>5 DEF TableChanges, HeaderSize
<1>6. CASE UNCHANGED vars
  BY <1>6 DEF vars, HeaderSize
<1> QED
  BY <1>1, <1>2, <1>3, <1>4, <1>5, <1>6 DEF Next

\* The buffer has room for the two bytes that the header size adds to a table
\* of contents, so the header parses.
LEMMA HeaderFits ==
  ASSUME Inv, Sized, pc = "decode", call \in TocCalls, first = last, Announced
  PROVE  /\ last \in Tables /\ last.size \in Nat /\ last.size >= 2
         /\ HeaderParses
         /\ Descriptors = 4..last.size + 1
         /\ \A i \in 0..last.size - 1 : buf[i] = <<last, i>>
<1>1. last \in Tables /\ last.size \in Nat /\ last.size >= 2
  BY TableLength, TablesAssumption, LimitNat DEF Inv, Held
<1>2. total = last.size + 2
  BY <1>1 DEF Sized, HeaderSize
<1>3. DOMAIN buf = 0..(IF total > BUF THEN total ELSE BUF) - 1 /\ BUF \in Nat /\ BUF > 1
  BY BufAssumption DEF Inv, TypeInv, TypeOK
<1>4. 0..last.size + 1 \subseteq DOMAIN buf
  BY <1>1, <1>2, <1>3
<1>5. \A i \in 0..last.size - 1 : buf[i] = <<last, i>>
  <2>1. ASSUME NEW i \in 0..last.size - 1
        PROVE  i \in DOMAIN buf /\ i < last.size
    BY <1>1, <1>4
  <2> QED
    BY <2>1 DEF Inv, Held
<1>6. Length(buf) = last.size - 2
  <2>1. 0 \in 0..last.size - 1 /\ 1 \in 0..last.size - 1
    BY <1>1
  <2> QED
    BY <1>1, <1>5, <2>1, LengthOfTable
<1>7. Length(buf) + 3 = last.size + 1 /\ last.size + 1 \in DOMAIN buf
  BY <1>1, <1>4, <1>6
<1> QED
  BY <1>1, <1>5, <1>7 DEF HeaderParses, Descriptors

LEMMA DecodeAllOfIt ==
  ASSUME Inv, Sized, Decode, first = last, Announced
  PROVE  Asked(call, last) \subseteq DOMAIN result'.data
<1>1. CASE CdText
  <2>1. call = "cd_text" /\ pc = "decode"
    BY <1>1 DEF CdText
  <2>2. HeaderParses /\ Descriptors = 4..last.size + 1 /\ last.size \in Nat
    BY <2>1, HeaderFits DEF TocCalls
  <2>3. DOMAIN result'.data = Descriptors
    BY <1>1, <2>2 DEF CdText, Return, Part
  <2> QED
    BY <2>1, <2>2, <2>3 DEF Asked
<1>2. CASE CdType
  <2>1. call = "cd_type" /\ pc = "decode"
    BY <1>2 DEF CdType
  <2> SUFFICES ASSUME last.size >= 15, last.valid PROVE TypePsec \in DOMAIN result'.data
    BY <2>1 DEF Asked
  <2>2. /\ HeaderParses /\ Descriptors = 4..last.size + 1 /\ last.size \in Nat /\ last \in Tables
        /\ \A i \in 0..last.size - 1 : buf[i] = <<last, i>>
    BY <2>1, HeaderFits DEF TocCalls
  <2>3. TypeDescriptor \subseteq Descriptors
    BY <2>2 DEF TypeDescriptor
  <2>4. buf[7] = <<last, 7>> /\ buf[11] = <<last, 11>> /\ buf[13] = <<last, 13>>
    BY <2>2
  <2>5. last # Empty
    BY <2>2, TablesAssumption
  <2>6. Holds(TypeDescriptor, TypePoint, {TypeZero, TypePsec})
    BY <2>2, <2>3, <2>4, <2>5 DEF Holds, TypePoint, TypeZero, TypePsec
  <2> QED
    BY <1>2, <2>6 DEF CdType, Return, Part
<1>3. CASE LastSector
  <2>1. call = "last_sector" /\ pc = "decode"
    BY <1>3 DEF LastSector
  <2> SUFFICES ASSUME last.size >= 12, last.valid PROVE SectorAddress \subseteq DOMAIN result'.data
    BY <2>1 DEF Asked
  <2>2. /\ HeaderParses /\ Descriptors = 4..last.size + 1 /\ last.size \in Nat /\ last \in Tables
        /\ \A i \in 0..last.size - 1 : buf[i] = <<last, i>>
    BY <2>1, HeaderFits DEF TocCalls
  <2>3. SectorDescriptor \subseteq Descriptors
    BY <2>2 DEF SectorDescriptor
  <2>4. buf[6] = <<last, 6>> /\ last # Empty
    BY <2>2, TablesAssumption
  <2>5. Holds(SectorDescriptor, SectorTrack, {})
    BY <2>2, <2>3, <2>4 DEF Holds, SectorTrack
  <2> QED
    BY <1>3, <2>5 DEF LastSector, Return, Part
<1>4. CASE IsDiscErasable
  <2>1. call = "is_disc_erasable" /\ pc = "decode"
    BY <1>4 DEF IsDiscErasable
  <2> SUFFICES ASSUME last.size >= 3 PROVE 2 \in DOMAIN result'.data
    BY <2>1 DEF Asked
  <2>2. last \in Tables /\ last.size \in Nat
    BY <2>1, TableLength DEF Inv, Held
  <2>3. total = last.size
    BY <2>1, <2>2 DEF Sized, HeaderSize, TocCalls
  <2> QED
    BY <1>4, <2>2, <2>3 DEF IsDiscErasable, Return, Part
<1> QED
  BY <1>1, <1>2, <1>3, <1>4 DEF Decode

LEMMA AllOfItStep ==
  ASSUME WholeInv, [Next]_vars
  PROVE  AllOfIt'
<1> USE DEF WholeInv, Inv, NoResultYet
<1>1. ASSUME NEW c \in Calls, Begin(c) PROVE AllOfIt'
  BY <1>1 DEF Begin, AllOfIt
<1>2. CASE FirstCommand
  BY <1>2 DEF FirstCommand, AllOfIt
<1>3. CASE SecondCommand
  BY <1>3 DEF SecondCommand, AllOfIt
<1>4. CASE CommandFails
  BY <1>4 DEF CommandFails, Return, AllOfIt
<1>5. CASE Decode
  <2>1. UNCHANGED <<call, total, first, last>>
    BY <1>5 DEF Decode, CdText, CdType, LastSector, IsDiscErasable, Return
  <2>2. Announced' = Announced /\ Asked(call, last)' = Asked(call, last)
    BY <2>1 DEF Announced
  <2> QED
    BY <1>5, <2>1, <2>2, DecodeAllOfIt DEF AllOfIt
<1>6. CASE TableChanges
  BY <1>6 DEF TableChanges, AllOfIt, Announced
<1>7. CASE UNCHANGED vars
  BY <1>7 DEF vars, AllOfIt, Announced
<1> QED
  BY <1>1, <1>2, <1>3, <1>4, <1>5, <1>6, <1>7 DEF Next

\* A table that stays while both commands are answered is returned whole,
\* however its size compares with the buffer.
THEOREM WholeTable == Spec => []AllOfIt
<1>1. Init => WholeInv
  <2>1. Init => TypeInv
    BY ZerosOK, LimitNat DEF Init, TypeInv, TypeOK, BytesOK, Calls, TocCalls
  <2> QED
    BY <2>1 DEF Init, WholeInv, Inv, Held, NoResultYet, NotTorn, Sized, AllOfIt
<1>2. WholeInv /\ [Next]_vars => WholeInv'
  BY InvStep, SizedStep, AllOfItStep DEF WholeInv
<1>3. WholeInv => AllOfIt
  BY DEF WholeInv
<1> QED
  BY <1>1, <1>2, <1>3, PTL DEF Spec
=============================================================================
