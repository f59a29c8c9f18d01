------------------------------- MODULE MmcCdb ------------------------------
(***************************************************************************)
(* The command descriptor blocks that mmc/*.rs builds.  A byte is the set   *)
(* of the positions of its one bits, so `|=` is a union, `&` with a mask an *)
(* intersection, and a shift a translation that may lose bits.              *)
(***************************************************************************)
EXTENDS Integers

Byte(n)       == {k \in 0..7 : (n \div 2^k) % 2 = 1}
Low(bits, n)  == bits \cap 0..n - 1
Up(bits, n)   == {k + n : k \in bits} \cap 0..7
Bit(n, cond)  == IF cond THEN {n} ELSE {}

\* Cdb::default(), and cdb[0]
Cdb(opcode) == [[k \in 0..11 |-> {}] EXCEPT ![0] = Byte(opcode)]

\* to_be_bytes of a u16, and of a u32
HighByte(n) == Byte(n \div 256)
LowByte(n)  == Byte(n % 256)
Word(cdb, at, n) == [cdb EXCEPT ![at] = HighByte(n), ![at + 1] = LowByte(n)]
Long(cdb, at, n) == Word(Word(cdb, at, n \div 65536), at + 2, n % 65536)

-----------------------------------------------------------------------------
\* SectorOption, C2Option, SubchannelOption; an Option that is None is 0, a
\* value that none of them has.
None        == 0
SectorTypes == {None} \union 1..5
Cdda        == 1
C2Options   == {None, 1, 2}
Subchannels == {None, 1, 2, 4}

\* Mutant: the sector type is shifted onto the dap bit.
ReadCdShifted(r) ==
  LET options == [Cdb(190) EXCEPT
        ![1]  = Bit(1, r.type = Cdda /\ r.dap) \union Up(Low(Byte(r.type), 3), 1),
        ![9]  = Bit(7, r.sync) \union Bit(6, r.subheader) \union Bit(5, r.header)
                \union Bit(4, r.user_data) \union Bit(3, r.ecc)
                \union Up(Low(Byte(r.c2_error), 2), 1),
        ![10] = Low(Byte(r.subchannel), 3)]
  IN  Word(Long(options, 2, r.sector), 7, r.count)

ReadCd(r) ==
  LET options == [Cdb(190) EXCEPT
        ![1]  = Bit(1, r.type = Cdda /\ r.dap) \union Up(Low(Byte(r.type), 3), 2),
        ![9]  = Bit(7, r.sync) \union Bit(6, r.subheader) \union Bit(5, r.header)
                \union Bit(4, r.user_data) \union Bit(3, r.ecc)
                \union Up(Low(Byte(r.c2_error), 2), 1),
        ![10] = Low(Byte(r.subchannel), 3)]
  IN  Word(Long(options, 2, r.sector), 7, r.count)

\* RotationMode: Cav and Clv are 0 and 1.
SetCdSpeed(r) ==
  Word(Word([Cdb(187) EXCEPT ![1] = Byte(r.mode)], 2, r.read_speed), 4, r.write_speed)

\* Mutant: an eject is sent as a load.
LoEjAndStartLoads(operation) ==
  CASE operation = "StartDisc"                              -> {0}
    [] operation \in {"EjectDisc", "LoadStartDisc", "Jump"} -> {0, 1}
    [] OTHER                                                -> {}

\* StartStopOperation; a layer or a power condition is its argument.
LoEjAndStart(operation) ==
  CASE operation = "StartDisc"                 -> {0}
    [] operation = "EjectDisc"                 -> {1}
    [] operation \in {"LoadStartDisc", "Jump"} -> {0, 1}
    [] OTHER                                   -> {}

StartStopUnit(r) ==
  [Cdb(27) EXCEPT
     ![3] = IF r.operation = "Jump" THEN Low(Byte(r.arg), 2) ELSE {},
     ![4] = Bit(2, r.operation = "Jump") \union LoEjAndStart(r.operation)
            \union (IF r.operation = "Power" THEN Up(Low(Byte(r.arg), 4), 4) ELSE {})]

\* Mutant: the discriminants of PreventOption count from one.
PreventAllowFromOne(r) == [Cdb(30) EXCEPT ![4] = Byte(r.prevent + 1)]

\* PreventOption: Clear, Set, ClearPersistent, SetPersistent are 0..3.
PreventAllowMediumRemoval(r) == [Cdb(30) EXCEPT ![4] = Byte(r.prevent)]

TestUnitReady == Cdb(0)

\* ResponseFormat: Toc, SessionInfo, FullToc, Pma, Atip, Cdtext are 0..5.
ReadToc(r) ==
  Word([Cdb(67) EXCEPT
          ![1] = Bit(1, r.format \in {0, 1} /\ r.time),
          ![2] = Byte(r.format),
          ![6] = IF r.format \in {0, 2} THEN Byte(r.number) ELSE {}], 7, r.len)

\* DiscInfoKind: Standard, TrackResources, PowResources are 0..2.
ReadDiscInfo(r) == Word([Cdb(81) EXCEPT ![1] = Low(Byte(r.kind), 3)], 7, r.len)

\* SubchannelParameter: CdCurrentPosition, Mcn, Isrc are 1..3.
ReadSubchannel(r) ==
  Word([Cdb(66) EXCEPT
          ![1] = Bit(1, r.time),
          ![2] = {6},
          ![3] = Byte(r.param),
          ![6] = IF r.param = 3 THEN Byte(r.number) ELSE {}], 7, r.len)

\* EventMode and EventClass; a class is already a set of bits.
GetEventStatus(r) ==
  Word([Cdb(74) EXCEPT ![1] = Bit(0, r.polled), ![4] = r.classes], 7, r.len)

\* InquiryKind
Inquiry(r) ==
  Word([Cdb(18) EXCEPT ![1] = Bit(0, r.vital), ![2] = IF r.vital THEN Byte(r.page) ELSE {}], 3, r.len)
=============================================================================
