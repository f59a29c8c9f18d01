------------------------- MODULE Conversions_proofs -------------------------
(***************************************************************************)
(* A device reads in every command block the request that it was made of;   *)
(* a value that a call returns is what the device, or the structure of      *)
(* libcdio, means; and every answer that the standard allows is understood. *)
(***************************************************************************)
EXTENDS Conversions, FiniteSetTheorems, TLAPS

-----------------------------------------------------------------------------
(***************************************************************************)
(* Command blocks: a device reads the request in them.                     *)
(***************************************************************************)
\* The weight of a bit of a byte.
Weight(k) == CASE k = 0 -> 1 [] k = 1 -> 2 [] k = 2 -> 4 [] k = 3 -> 8
               [] k = 4 -> 16 [] k = 5 -> 32 [] k = 6 -> 64 [] k = 7 -> 128

\* The weight of each bit is the power of two that the code shifts by.
LEMMA Weights == \A k \in 0..7 : 2^k = Weight(k)
<1> SUFFICES ASSUME NEW k \in 0..7 PROVE 2^k = Weight(k)
  OBVIOUS
<1>1. 2^0 = 1 /\ 2^1 = 2 /\ 2^2 = 4 /\ 2^3 = 8 /\ 2^4 = 16 /\ 2^5 = 32 /\ 2^6 = 64 /\ 2^7 = 128
  OBVIOUS
<1>2. k \in {0, 1, 2, 3, 4, 5, 6, 7}
  OBVIOUS
<1> QED
  BY <1>1, <1>2, Zenon DEF Weight

\* The bits of a byte.
LEMMA BitsOf ==
  ASSUME NEW n \in 0..255
  PROVE  /\ Byte(n) \subseteq 0..7
         /\ 0 \in Byte(n) <=> n % 2 = 1
         /\ 1 \in Byte(n) <=> (n \div 2) % 2 = 1
         /\ 2 \in Byte(n) <=> (n \div 4) % 2 = 1
         /\ 3 \in Byte(n) <=> (n \div 8) % 2 = 1
         /\ 4 \in Byte(n) <=> (n \div 16) % 2 = 1
         /\ 5 \in Byte(n) <=> (n \div 32) % 2 = 1
         /\ 6 \in Byte(n) <=> (n \div 64) % 2 = 1
         /\ 7 \in Byte(n) <=> (n \div 128) % 2 = 1
<1>1. Byte(n) = {k \in 0..7 : (n \div Weight(k)) % 2 = 1}
  BY Weights, Zenon DEF Byte
<1>2. n \div 1 = n
  OBVIOUS
<1> QED
  BY <1>1, <1>2 DEF Weight

\* The bits of a byte stand for the number that it was made of.
LEMMA NumberOfByte ==
  ASSUME NEW n \in 0..255
  PROVE  Number(Byte(n)) = n
<1>1. /\ n = (n % 2) + 2 * (n \div 2)
      /\ n \div 2 = ((n \div 2) % 2) + 2 * (n \div 4)
      /\ n \div 4 = ((n \div 4) % 2) + 2 * (n \div 8)
      /\ n \div 8 = ((n \div 8) % 2) + 2 * (n \div 16)
  OBVIOUS
<1>2. /\ n \div 16 = ((n \div 16) % 2) + 2 * (n \div 32)
      /\ n \div 32 = ((n \div 32) % 2) + 2 * (n \div 64)
      /\ n \div 64 = ((n \div 64) % 2) + 2 * (n \div 128)
      /\ n \div 128 = (n \div 128) % 2
  OBVIOUS
<1>3. PICK a \in 0..1, b \in 0..1, c \in 0..1, d \in 0..1, e \in 0..1, f \in 0..1, g \in 0..1, h \in 0..1 :
        /\ a = n % 2 /\ b = (n \div 2) % 2 /\ c = (n \div 4) % 2 /\ d = (n \div 8) % 2
        /\ e = (n \div 16) % 2 /\ f = (n \div 32) % 2 /\ g = (n \div 64) % 2 /\ h = (n \div 128) % 2
  OBVIOUS
<1>4. n = a + 2 * b + 4 * c + 8 * d + 16 * e + 32 * f + 64 * g + 128 * h
  BY <1>1, <1>2, <1>3
<1>5. Number(Byte(n)) = a + 2 * b + 4 * c + 8 * d + 16 * e + 32 * f + 64 * g + 128 * h
  BY <1>3, BitsOf DEF Number
<1> QED
  BY <1>4, <1>5

\* The bytes of small numbers.
LEMMA Bytes ==
  /\ Byte(0) = {} /\ Byte(1) = {0} /\ Byte(2) = {1} /\ Byte(3) = {0, 1}
  /\ Byte(4) = {2} /\ Byte(5) = {0, 2}
<1>1. \A n \in 0..255 : Byte(n) = {k \in 0..7 : (n \div Weight(k)) % 2 = 1}
  BY Weights, Zenon DEF Byte
<1> QED
  BY <1>1 DEF Weight

\* Two bytes, the high one first, are the word.
LEMMA WordNumber ==
  ASSUME NEW n \in U16
  PROVE  256 * Number(HighByte(n)) + Number(LowByte(n)) = n
<1>1. PICK high \in 0..255, low \in 0..255 :
        high = n \div 256 /\ low = n % 256 /\ 256 * high + low = n
  <2>1. n \in Nat /\ n \div 256 \in 0..255
    BY DEF U16
  <2>2. n % 256 \in 0..255 /\ 256 * (n \div 256) + (n % 256) = n
    BY <2>1
  <2> QED
    BY <2>1, <2>2
<1>2. Number(HighByte(n)) = high /\ Number(LowByte(n)) = low
  BY <1>1, NumberOfByte DEF HighByte, LowByte
<1> QED
  BY <1>1, <1>2

\* A block's word is the number that was written there, and its high byte too.
LEMMA WrittenWord ==
  ASSUME NEW block, NEW at, NEW n \in U16,
         block[at] = HighByte(n), block[at + 1] = LowByte(n)
  PROVE  Word16(block, at) = n
BY WordNumber DEF Word16, Whole

\* A byte of a block is the number that was written there.
LEMMA WrittenByte ==
  ASSUME NEW block, NEW at, NEW n \in 0..255, block[at] = Byte(n)
  PROVE  Whole(block, at) = n
BY NumberOfByte DEF Whole

\* A field of a block is the number whose bits it has.
LEMMA WrittenField ==
  ASSUME NEW block, NEW at, NEW low \in Nat, NEW n \in Nat, NEW v \in 0..255,
         Byte(v) \subseteq 0..n - 1,
         \A k \in 0..n - 1 : k + low \in block[at] <=> k \in Byte(v)
  PROVE  Field(block, at, low, n) = v
<1>1. {k \in 0..n - 1 : k + low \in block[at]} = Byte(v)
  OBVIOUS
<1>2. Number(Byte(v)) = v
  BY NumberOfByte
<1> QED
  BY <1>1, <1>2, Zenon DEF Field

\* The bits of any byte, and of the bytes of a word.
LEMMA ByteBits == \A n : Byte(n) \subseteq 0..7
BY DEF Byte

-----------------------------------------------------------------------------
(* The command blocks mean the requests. *)
Understands(block, r) ==
  /\ \A at \in 1..11 : \A k \in block[at] : <<at, k>> \in Fields(r.op)
  /\ Meaning(block) = r

\* SET CD SPEED.
LEMMA SpeedUnderstood ==
  ASSUME NEW mode \in 0..1, NEW read_speed \in U16, NEW write_speed \in U16, NEW r,
         r = [op |-> "set_cd_speed", mode |-> mode, read_speed |-> read_speed, write_speed |-> write_speed]
  PROVE  Understands(SetCdSpeed(r), r)
<1> DEFINE block == SetCdSpeed(r)
<1>1. /\ block[0] = Byte(187) /\ block[1] = Byte(mode)
      /\ block[2] = HighByte(read_speed) /\ block[3] = LowByte(read_speed)
      /\ block[4] = HighByte(write_speed) /\ block[5] = LowByte(write_speed)
      /\ \A at \in 6..11 : block[at] = {}
  BY DEF SetCdSpeed, Word, Cdb
<1> HIDE DEF block
<1>2. Whole(block, 0) = 187
  BY <1>1, WrittenByte
<1>3. Field(block, 1, 0, 2) = mode
  <2>1. /\ mode \in 0..255 /\ Byte(mode) \subseteq 0..2 - 1
        /\ \A k \in 0..2 - 1 : k + 0 \in block[1] <=> k \in Byte(mode)
    BY <1>1, Bytes
  <2> QED
    BY <2>1, WrittenField
<1>4. Word16(block, 2) = read_speed /\ Word16(block, 4) = write_speed
  BY <1>1, WrittenWord
<1>5. \A at \in 1..11 : \A k \in block[at] : <<at, k>> \in Fields("set_cd_speed")
  <2>1. block[1] \subseteq 0..1
    BY <1>1, Bytes
  <2>2. \A at \in 2..5 : block[at] \subseteq 0..7
    BY <1>1, ByteBits DEF HighByte, LowByte
  <2> QED
    BY <1>1, <2>1, <2>2 DEF Fields, All
<1> QED
  BY <1>2, <1>3, <1>4, <1>5 DEF Understands, Meaning, block

\* PREVENT ALLOW MEDIUM REMOVAL.
LEMMA PreventUnderstood ==
  ASSUME NEW prevent \in 0..3, NEW r, r = [op |-> "prevent_allow", prevent |-> prevent]
  PROVE  Understands(PreventAllowMediumRemoval(r), r)
<1> DEFINE block == PreventAllowMediumRemoval(r)
<1>1. block[0] = Byte(30) /\ block[4] = Byte(prevent) /\ \A at \in 1..11 \ {4} : block[at] = {}
  BY DEF PreventAllowMediumRemoval, Cdb
<1> HIDE DEF block
<1>2. Whole(block, 0) = 30
  BY <1>1, WrittenByte
<1>3. Field(block, 4, 0, 2) = prevent
  <2>1. Byte(prevent) \subseteq 0..2 - 1 /\ \A k \in 0..2 - 1 : k + 0 \in block[4] <=> k \in Byte(prevent)
    BY <1>1, Bytes
  <2>2. prevent \in 0..255
    OBVIOUS
  <2> QED
    BY <2>1, <2>2, WrittenField
<1>4. block[4] \subseteq 0..1
  BY <1>1, Bytes
<1>5. \A at \in 1..11 : \A k \in block[at] : <<at, k>> \in Fields("prevent_allow")
  BY <1>1, <1>4 DEF Fields
<1> QED
  BY <1>2, <1>3, <1>5 DEF Understands, Meaning, block

\* TEST UNIT READY.
LEMMA TestUnderstood == Understands(TestUnitReady, [op |-> "test_unit_ready"])
<1>1. TestUnitReady[0] = Byte(0) /\ \A at \in 1..11 : TestUnitReady[at] = {}
  BY DEF TestUnitReady, Cdb
<1>2. Whole(TestUnitReady, 0) = 0
  BY <1>1, WrittenByte
<1> QED
  BY <1>1, <1>2 DEF Understands, Meaning

\* READ DISC INFORMATION.
LEMMA DiscInfoUnderstood ==
  ASSUME NEW kind \in 0..2, NEW len \in U16, NEW r, r = [op |-> "read_disc_info", kind |-> kind, len |-> len]
  PROVE  Understands(ReadDiscInfo(r), r)
<1> DEFINE block == ReadDiscInfo(r)
<1>1. /\ block[0] = Byte(81) /\ block[1] = Low(Byte(kind), 3)
      /\ block[7] = HighByte(len) /\ block[8] = LowByte(len)
      /\ \A at \in 2..6 \union 9..11 : block[at] = {}
  BY DEF ReadDiscInfo, Word, Cdb
<1> HIDE DEF block
<1>2. Whole(block, 0) = 81
  BY <1>1, WrittenByte
<1>3. Field(block, 1, 0, 3) = kind
  <2>1. Byte(kind) \subseteq 0..3 - 1 /\ \A k \in 0..3 - 1 : k + 0 \in block[1] <=> k \in Byte(kind)
    BY <1>1, Bytes DEF Low
  <2>2. kind \in 0..255
    OBVIOUS
  <2> QED
    BY <2>1, <2>2, WrittenField
<1>4. Word16(block, 7) = len
  BY <1>1, WrittenWord
<1>5. \A at \in 1..11 : \A k \in block[at] : <<at, k>> \in Fields("read_disc_info")
  <2>1. block[1] \subseteq 0..2 /\ block[7] \subseteq 0..7 /\ block[8] \subseteq 0..7
    BY <1>1, ByteBits DEF HighByte, LowByte, Low
  <2> QED
    BY <1>1, <2>1 DEF Fields, All
<1> QED
  BY <1>2, <1>3, <1>4, <1>5 DEF Understands, Meaning, block

\* GET EVENT STATUS NOTIFICATION.
LEMMA EventsUnderstood ==
  ASSUME NEW polled \in BOOLEAN, NEW classes \in SUBSET (1..6), NEW len \in U16,
         NEW r, r = [op |-> "get_event_status", polled |-> polled, classes |-> classes, len |-> len]
  PROVE  Understands(GetEventStatus(r), r)
<1> DEFINE block == GetEventStatus(r)
<1>1. /\ block[0] = Byte(74) /\ block[1] = Bit(0, polled) /\ block[4] = classes
      /\ block[7] = HighByte(len) /\ block[8] = LowByte(len)
      /\ \A at \in 2..3 \union 5..6 \union 9..11 : block[at] = {}
  BY DEF GetEventStatus, Word, Cdb
<1> HIDE DEF block
<1>2. Whole(block, 0) = 74
  BY <1>1, WrittenByte
<1>3. Flag(block, 1, 0) = polled
  BY <1>1 DEF Flag, Bit
<1>4. Word16(block, 7) = len
  BY <1>1, WrittenWord
<1>5. \A at \in 1..11 : \A k \in block[at] : <<at, k>> \in Fields("get_event_status")
  <2>1. block[1] \subseteq {0} /\ block[4] \subseteq 0..7 /\ block[7] \subseteq 0..7 /\ block[8] \subseteq 0..7
    BY <1>1, ByteBits DEF HighByte, LowByte, Bit
  <2> QED
    BY <1>1, <2>1 DEF Fields, All
<1> QED
  BY <1>1, <1>2, <1>3, <1>4, <1>5 DEF Understands, Meaning, block

\* INQUIRY: the page is only there for vital product data.
LEMMA InquiryUnderstands ==
  ASSUME NEW vital \in BOOLEAN, NEW page \in 0..255, NEW len \in U16, ~vital => page = 0,
         NEW r, r = [op |-> "inquiry", vital |-> vital, page |-> page, len |-> len]
  PROVE  Understands(Inquiry(r), r)
<1> DEFINE block == Inquiry(r)
<1>1. /\ block[0] = Byte(18) /\ block[1] = Bit(0, vital) /\ block[2] = IF vital THEN Byte(page) ELSE {}
      /\ block[3] = HighByte(len) /\ block[4] = LowByte(len)
      /\ \A at \in 5..11 : block[at] = {}
  BY DEF Inquiry, Word, Cdb
<1> HIDE DEF block
<1>2. Whole(block, 0) = 18
  BY <1>1, WrittenByte
<1>3. Flag(block, 1, 0) = vital
  BY <1>1 DEF Flag, Bit
<1>4. Whole(block, 2) = page
  <2>1. block[2] = Byte(page)
    BY <1>1, Bytes
  <2> QED
    BY <2>1, WrittenByte
<1>5. Word16(block, 3) = len
  BY <1>1, WrittenWord
<1>6. \A at \in 1..11 : \A k \in block[at] : <<at, k>> \in Fields("inquiry")
  <2>1. block[1] \subseteq {0} /\ block[2] \subseteq 0..7 /\ block[3] \subseteq 0..7 /\ block[4] \subseteq 0..7
    BY <1>1, ByteBits DEF HighByte, LowByte, Bit
  <2> QED
    BY <1>1, <2>1 DEF Fields, All
<1> QED
  BY <1>2, <1>3, <1>4, <1>5, <1>6 DEF Understands, Meaning, block

\* READ SUB-CHANNEL: the track is only there for an ISRC.
LEMMA SubchannelUnderstands ==
  ASSUME NEW time \in BOOLEAN, NEW param \in 1..3, NEW number \in 0..255, param # 3 => number = 0,
         NEW len \in U16, NEW r,
         r = [op |-> "read_subchannel", time |-> time, param |-> param, number |-> number, len |-> len]
  PROVE  Understands(ReadSubchannel(r), r)
<1> DEFINE block == ReadSubchannel(r)
<1>1. /\ block[0] = Byte(66) /\ block[1] = Bit(1, time) /\ block[2] = {6} /\ block[3] = Byte(param)
      /\ block[6] = IF param = 3 THEN Byte(number) ELSE {}
      /\ block[7] = HighByte(len) /\ block[8] = LowByte(len)
      /\ \A at \in 4..5 \union 9..11 : block[at] = {}
  BY DEF ReadSubchannel, Word, Cdb
<1> HIDE DEF block
<1>2. Whole(block, 0) = 66 /\ Whole(block, 3) = param
  BY <1>1, WrittenByte
<1>3. Flag(block, 1, 1) = time
  BY <1>1 DEF Flag, Bit
<1>4. Whole(block, 6) = number
  <2>1. block[6] = Byte(number)
    BY <1>1, Bytes
  <2> QED
    BY <2>1, WrittenByte
<1>5. Word16(block, 7) = len
  BY <1>1, WrittenWord
<1>6. \A at \in 1..11 : \A k \in block[at] : <<at, k>> \in Fields("read_subchannel")
  <2>1. /\ block[1] \subseteq {1} /\ block[2] \subseteq {6} /\ block[3] \subseteq 0..7 /\ block[6] \subseteq 0..7
        /\ block[7] \subseteq 0..7 /\ block[8] \subseteq 0..7
    BY <1>1, ByteBits DEF HighByte, LowByte, Bit
  <2> QED
    BY <1>1, <2>1 DEF Fields, All
<1> QED
  BY <1>2, <1>3, <1>4, <1>5, <1>6 DEF Understands, Meaning, block

\* READ TOC/PMA/ATIP: the time and the number are only there for some formats.
LEMMA TocUnderstood ==
  ASSUME NEW format \in 0..5, NEW time \in BOOLEAN, NEW number \in 0..255, NEW len \in U16,
         format \notin {0, 1} => ~time, format \notin {0, 2} => number = 0, NEW r,
         r = [op |-> "read_toc", format |-> format, time |-> time, number |-> number, len |-> len]
  PROVE  Understands(ReadToc(r), r)
<1> DEFINE block == ReadToc(r)
<1>1. /\ block[0] = Byte(67) /\ block[1] = Bit(1, format \in {0, 1} /\ time) /\ block[2] = Byte(format)
      /\ block[6] = IF format \in {0, 2} THEN Byte(number) ELSE {}
      /\ block[7] = HighByte(len) /\ block[8] = LowByte(len)
      /\ \A at \in 3..5 \union 9..11 : block[at] = {}
  BY DEF ReadToc, Word, Cdb
<1> HIDE DEF block
<1>2. Whole(block, 0) = 67
  BY <1>1, WrittenByte
<1>3. Flag(block, 1, 1) = time
  BY <1>1 DEF Flag, Bit
<1>4. Whole(block, 6) = number
  <2>1. block[6] = Byte(number)
    BY <1>1, Bytes
  <2> QED
    BY <2>1, WrittenByte
<1>5. Word16(block, 7) = len
  BY <1>1, WrittenWord
<1>6. Field(block, 2, 0, 4) = format
  <2>1. Byte(format) \subseteq 0..4 - 1 /\ \A k \in 0..4 - 1 : k + 0 \in block[2] <=> k \in Byte(format)
    BY <1>1, Bytes
  <2>2. format \in 0..255
    OBVIOUS
  <2> QED
    BY <2>1, <2>2, WrittenField
<1>7. \A at \in 1..11 : \A k \in block[at] : <<at, k>> \in Fields("read_toc")
  <2>1. /\ block[1] \subseteq {1} /\ block[2] \subseteq 0..3 /\ block[6] \subseteq 0..7
        /\ block[7] \subseteq 0..7 /\ block[8] \subseteq 0..7
    BY <1>1, ByteBits, Bytes DEF HighByte, LowByte, Bit
  <2> QED
    BY <1>1, <2>1 DEF Fields, All
<1> QED
  BY <1>2, <1>3, <1>4, <1>5, <1>6, <1>7 DEF Understands, Meaning, block

\* START STOP UNIT: a power condition, a jump, or the two bits of the others.
LEMMA StartStopUnderstood ==
  ASSUME NEW operation \in {"StopDisc", "StartDisc", "EjectDisc", "LoadStartDisc", "Jump", "Power"},
         NEW arg \in CASE operation = "Jump" -> 0..3 [] operation = "Power" -> {2, 3, 5} [] OTHER -> {0},
         NEW r, r = [op |-> "start_stop_unit", operation |-> operation, arg |-> arg]
  PROVE  Understands(StartStopUnit(r), r)
<1> DEFINE block == StartStopUnit(r)
<1>1. /\ block[0] = Byte(27)
      /\ block[3] = IF operation = "Jump" THEN Low(Byte(arg), 2) ELSE {}
      /\ block[4] = Bit(2, operation = "Jump") \union LoEjAndStart(operation)
                    \union (IF operation = "Power" THEN Up(Low(Byte(arg), 4), 4) ELSE {})
      /\ \A at \in (1..2) \union (5..11) : block[at] = {}
  BY DEF StartStopUnit, Cdb
<1> HIDE DEF block
<1>2. Whole(block, 0) = 27
  BY <1>1, WrittenByte
<1>3. block[3] \subseteq 0..1 /\ block[4] \subseteq 0..2 \union 4..7
  BY <1>1 DEF Low, Up, Bit, LoEjAndStart
<1>4. \A at \in 1..11 : \A k \in block[at] : <<at, k>> \in Fields("start_stop_unit")
  BY <1>1, <1>3 DEF Fields, All
<1>5. Field(block, 4, 4, 4) = IF operation = "Power" THEN arg ELSE 0
  <2> DEFINE v == IF operation = "Power" THEN arg ELSE 0
  <2>1. Byte(v) \subseteq 0..4 - 1 /\ \A k \in 0..4 - 1 : k + 4 \in block[4] <=> k \in Byte(v)
    <3>1. CASE operation = "Power"
      <4>1. arg \in {2, 3, 5}
        BY <3>1
      <4>2. Low(Byte(arg), 4) = Byte(arg) /\ Byte(arg) \subseteq 0..3
        BY <4>1, Bytes DEF Low
      <4>3. block[4] = {k + 4 : k \in Byte(arg)} \cap 0..7
        BY <1>1, <3>1, <4>2 DEF Up, Bit, LoEjAndStart
      <4>4. PICK bits \in SUBSET (0..3) : bits = Byte(arg)
        BY <4>2
      <4>5. ASSUME NEW k \in 0..3 PROVE k + 4 \in {j + 4 : j \in bits} <=> k \in bits
        OBVIOUS
      <4>6. \A k \in 0..3 : k + 4 \in 0..7
        OBVIOUS
      <4> QED
        BY <3>1, <4>2, <4>3, <4>4, <4>5, <4>6
    <3>2. CASE operation # "Power"
      <4>1. block[4] \subseteq 0..2
        BY <1>1, <3>2 DEF Bit, LoEjAndStart
      <4> QED
        BY <3>2, <4>1, Bytes
    <3> QED
      BY <3>1, <3>2
  <2>2. v \in 0..255
    OBVIOUS
  <2> QED
    BY <2>1, <2>2, WrittenField
<1>6. CASE operation = "Power"
  <2>1. StartStopMeaning(block) = <<"Power", arg>>
    BY <1>5, <1>6 DEF StartStopMeaning
  <2> QED
    BY <1>2, <1>4, <1>6, <2>1 DEF Understands, Meaning, block
<1>7. CASE operation = "Jump"
  <2>1. Field(block, 3, 0, 2) = arg
    <3>1. /\ arg \in 0..255 /\ Byte(arg) \subseteq 0..2 - 1
          /\ \A k \in 0..2 - 1 : k + 0 \in block[3] <=> k \in Byte(arg)
      BY <1>1, <1>7, Bytes DEF Low
    <3> QED
      BY <3>1, WrittenField
  <2>2. Flag(block, 4, 2)
    BY <1>1, <1>7 DEF Flag, Bit
  <2>3. StartStopMeaning(block) = <<"Jump", arg>>
    BY <1>5, <1>7, <2>1, <2>2 DEF StartStopMeaning
  <2> QED
    BY <1>2, <1>4, <1>7, <2>3 DEF Understands, Meaning, block
<1>8. CASE operation \in {"StopDisc", "StartDisc", "EjectDisc", "LoadStartDisc"}
  <2>1. arg = 0 /\ block[4] = LoEjAndStart(operation)
    BY <1>1, <1>8 DEF Bit
  <2>2. Field(block, 4, 4, 4) = 0 /\ ~Flag(block, 4, 2)
    BY <1>5, <1>8, <2>1 DEF Flag, LoEjAndStart
  <2>3. block[4] \cap 0..1 = block[4]
    BY <1>8, <2>1 DEF LoEjAndStart
  <2>4. StartStopMeaning(block) = <<operation, 0>>
    BY <1>8, <2>1, <2>2, <2>3 DEF StartStopMeaning, LoEjAndStart
  <2> QED
    BY <1>2, <1>4, <2>1, <2>4 DEF Understands, Meaning, block
<1> QED
  BY <1>6, <1>7, <1>8

\* The word that is the high half of an address, and the one that is the low half.
LEMMA WrittenLong ==
  ASSUME NEW block, NEW n \in U32,
         block[2] = HighByte(n \div 65536), block[3] = LowByte(n \div 65536),
         block[4] = HighByte(n % 65536), block[5] = LowByte(n % 65536)
  PROVE  65536 * Word16(block, 2) + Word16(block, 4) = n
<1>1. n \in Nat /\ n \div 65536 \in U16
  BY SMT DEF U32
<1>2. n % 65536 \in Nat /\ (n % 65536) \div 256 \in 0..255 /\ n = 65536 * (n \div 65536) + (n % 65536)
  BY <1>1, SMT
<1>3. n % 65536 \in U16
  BY <1>2, SMT DEF U16
<1>4. Word16(block, 2) = n \div 65536
  BY <1>1, WrittenWord, SMT
<1>5. Word16(block, 4) = n % 65536
  BY <1>3, WrittenWord, SMT
<1> QED
  BY <1>2, <1>4, <1>5, SMT

\* A request for READ CD.
AsksForSectors(r) ==
  /\ r = [op |-> "read_cd", type |-> r.type, dap |-> r.dap, sync |-> r.sync, header |-> r.header,
          subheader |-> r.subheader, user_data |-> r.user_data, ecc |-> r.ecc, c2_error |-> r.c2_error,
          subchannel |-> r.subchannel, sector |-> r.sector, count |-> r.count]
  /\ r.type \in SectorTypes /\ r.dap \in BOOLEAN /\ r.sync \in BOOLEAN /\ r.header \in BOOLEAN
  /\ r.subheader \in BOOLEAN /\ r.user_data \in BOOLEAN /\ r.ecc \in BOOLEAN /\ r.c2_error \in C2Options
  /\ r.subchannel \in Subchannels /\ r.sector \in U32 /\ r.count \in U16 /\ (r.dap => r.type = Cdda)

\* READ CD, whose options share three bytes.
LEMMA ReadCdUnderstood == ASSUME NEW r, AsksForSectors(r) PROVE Understands(ReadCd(r), r)
<1> DEFINE type       == r.type
           dap        == r.dap
           sync       == r.sync
           header     == r.header
           subheader  == r.subheader
           user_data  == r.user_data
           ecc        == r.ecc
           c2_error   == r.c2_error
           subchannel == r.subchannel
           sector     == r.sector
           count      == r.count
<1> /\ r = [op |-> "read_cd", type |-> type, dap |-> dap, sync |-> sync, header |-> header,
            subheader |-> subheader, user_data |-> user_data, ecc |-> ecc, c2_error |-> c2_error,
            subchannel |-> subchannel, sector |-> sector, count |-> count]
    /\ type \in SectorTypes /\ dap \in BOOLEAN /\ sync \in BOOLEAN /\ header \in BOOLEAN
    /\ subheader \in BOOLEAN /\ user_data \in BOOLEAN /\ ecc \in BOOLEAN /\ c2_error \in C2Options
    /\ subchannel \in Subchannels /\ sector \in U32 /\ count \in U16 /\ (dap => type = Cdda)
  BY DEF AsksForSectors
<1> HIDE DEF type, dap, sync, header, subheader, user_data, ecc, c2_error, subchannel, sector, count
<1> DEFINE block == ReadCd(r)
<1>1. /\ block[0] = Byte(190)
      /\ block[1] = Bit(1, type = Cdda /\ dap) \union Up(Low(Byte(type), 3), 2)
      /\ block[6] = {} /\ block[11] = {}
      /\ block[9] = Bit(7, sync) \union Bit(6, subheader) \union Bit(5, header)
                    \union Bit(4, user_data) \union Bit(3, ecc) \union Up(Low(Byte(c2_error), 2), 1)
      /\ block[10] = Low(Byte(subchannel), 3)
  BY DEF ReadCd, Word, Long, Cdb
<1>2. /\ block[2] = HighByte(sector \div 65536) /\ block[3] = LowByte(sector \div 65536)
      /\ block[4] = HighByte(sector % 65536) /\ block[5] = LowByte(sector % 65536)
      /\ block[7] = HighByte(count) /\ block[8] = LowByte(count)
  <2>1. PICK high, low : high = r.sector \div 65536 /\ low = r.sector % 65536
    OBVIOUS
  <2> DEFINE options == [Cdb(190) EXCEPT
        ![1]  = Bit(1, r.type = Cdda /\ r.dap) \union Up(Low(Byte(r.type), 3), 2),
        ![9]  = Bit(7, r.sync) \union Bit(6, r.subheader) \union Bit(5, r.header)
                \union Bit(4, r.user_data) \union Bit(3, r.ecc)
                \union Up(Low(Byte(r.c2_error), 2), 1),
        ![10] = Low(Byte(r.subchannel), 3)]
             upper   == Word(options, 2, high)
             address == Word(upper, 4, low)
  <2>2. Long(options, 2, r.sector) = address
    <3>1. 2 + 2 = 4
      OBVIOUS
    <3> QED
      BY <2>1, <3>1 DEF Long
  <2>3. block = Word(address, 7, r.count)
    <3>1. block = Word(Long(options, 2, r.sector), 7, r.count)
      BY Zenon DEF ReadCd
    <3> HIDE DEF block, options, address
    <3> QED
      BY <2>2, <3>1, Zenon
  <2>4. DOMAIN options = 0..11
    BY DEF Cdb
  <2> HIDE DEF block, options
  <2>5. DOMAIN upper = 0..11 /\ upper[2] = HighByte(high) /\ upper[3] = LowByte(high)
    BY <2>4 DEF Word
  <2> HIDE DEF upper
  <2>6. /\ DOMAIN address = 0..11 /\ address[4] = HighByte(low) /\ address[5] = LowByte(low)
        /\ address[2] = upper[2] /\ address[3] = upper[3]
    BY <2>5 DEF Word
  <2> HIDE DEF address
  <2>7. /\ block[7] = HighByte(r.count) /\ block[8] = LowByte(r.count)
        /\ \A at \in 2..5 : block[at] = address[at]
    BY <2>3, <2>6 DEF Word
  <2>8. /\ block[2] = HighByte(high) /\ block[3] = LowByte(high)
        /\ block[4] = HighByte(low) /\ block[5] = LowByte(low)
    BY <2>5, <2>6, <2>7
  <2> QED
    BY <2>1, <2>7, <2>8, SMT
<1> HIDE DEF block
<1>3. /\ type \in 0..5 /\ c2_error \in 0..2 /\ subchannel \in {0, 1, 2, 4}
      /\ Low(Byte(type), 3) = Byte(type) /\ Byte(type) \subseteq 0..2
      /\ Low(Byte(c2_error), 2) = Byte(c2_error) /\ Byte(c2_error) \subseteq 0..1
      /\ Low(Byte(subchannel), 3) = Byte(subchannel) /\ Byte(subchannel) \subseteq 0..2
  BY Bytes DEF SectorTypes, C2Options, Subchannels, None, Low
<1>4. PICK t \in SUBSET (0..2), c \in SUBSET (0..1) : t = Byte(type) /\ c = Byte(c2_error)
  BY <1>3
<1>5. /\ block[1] = (IF dap THEN {1} ELSE {}) \union {k \in 2..4 : k - 2 \in t}
      /\ block[9] = Bit(7, sync) \union Bit(6, subheader) \union Bit(5, header)
                    \union Bit(4, user_data) \union Bit(3, ecc) \union {k \in 1..2 : k - 1 \in c}
  <2>1. {k + 2 : k \in t} \cap 0..7 = {k \in 2..4 : k - 2 \in t}
    OBVIOUS
  <2>2. {k + 1 : k \in c} \cap 0..7 = {k \in 1..2 : k - 1 \in c}
    OBVIOUS
  <2>3. Bit(1, type = Cdda /\ dap) = IF dap THEN {1} ELSE {}
    BY DEF Bit
  <2> QED
    BY <1>1, <1>3, <1>4, <2>1, <2>2, <2>3 DEF Up
<1>6. Whole(block, 0) = 190 /\ Whole(block, 6) = 0
  <2>1. Whole(block, 0) = 190
    BY <1>1, WrittenByte
  <2>2. block[6] = Byte(0)
    BY <1>1, Bytes
  <2>3. Whole(block, 6) = 0
    BY <2>2, WrittenByte
  <2> QED
    BY <2>1, <2>3
<1>7. /\ Flag(block, 1, 1) = dap
      /\ Flag(block, 9, 7) = sync /\ Flag(block, 9, 6) = subheader /\ Flag(block, 9, 5) = header
      /\ Flag(block, 9, 4) = user_data /\ Flag(block, 9, 3) = ecc
  BY <1>5 DEF Flag, Bit
<1>8. Field(block, 1, 2, 3) = type
  <2>1. /\ type \in 0..255 /\ Byte(type) \subseteq 0..3 - 1
        /\ \A k \in 0..3 - 1 : k + 2 \in block[1] <=> k \in Byte(type)
    BY <1>3, <1>4, <1>5
  <2> QED
    BY <2>1, WrittenField
<1>9. Field(block, 9, 1, 2) = c2_error
  <2>1. /\ c2_error \in 0..255 /\ Byte(c2_error) \subseteq 0..2 - 1
        /\ \A k \in 0..2 - 1 : k + 1 \in block[9] <=> k \in Byte(c2_error)
    BY <1>3, <1>4, <1>5 DEF Bit
  <2> QED
    BY <2>1, WrittenField
<1>10. Field(block, 10, 0, 3) = subchannel
  <2>1. /\ subchannel \in 0..255 /\ Byte(subchannel) \subseteq 0..3 - 1
        /\ \A k \in 0..3 - 1 : k + 0 \in block[10] <=> k \in Byte(subchannel)
    BY <1>1, <1>3
  <2> QED
    BY <2>1, WrittenField
<1>11. 65536 * Word16(block, 2) + Word16(block, 4) = sector
  BY <1>2, WrittenLong, SMT
<1>12. 65536 * Whole(block, 6) + Word16(block, 7) = count
  <2>1. Word16(block, 7) = count /\ count \in Nat
    BY <1>2, WrittenWord, SMT DEF U16
  <2> QED
    BY <1>6, <2>1, SMT
<1>13. \A at \in 1..11 : \A k \in block[at] : <<at, k>> \in Fields("read_cd")
  <2>1. /\ block[1] \subseteq 1..4 /\ block[9] \subseteq 1..7 /\ block[10] \subseteq 0..2
        /\ block[11] = {} /\ \A at \in 2..8 : block[at] \subseteq 0..7
    <3>1. block[1] \subseteq 1..4 /\ block[9] \subseteq 1..7 /\ block[10] \subseteq 0..2
      BY <1>1, <1>3, <1>5 DEF Bit
    <3>2. \A at \in 2..8 : block[at] \subseteq 0..7
      BY <1>1, <1>2, ByteBits, SMT DEF HighByte, LowByte
    <3> QED
      BY <1>1, <3>1, <3>2
  <2> QED
    BY <2>1 DEF Fields, All
<1> QED
  BY <1>6, <1>7, <1>8, <1>9, <1>10, <1>11, <1>12, <1>13, SMT DEF Understands, Meaning, block

\* A request that is sent is understood, and so is that there is none.
LEMMA SentUnderstood ==
  ASSUME NEW r, NEW block, Understands(block, r), Send(r, block)
  PROVE  Understood'
BY DEF Understands, Send, Understood

\* A block that is not sent means nothing.
LEMMA NothingSent == ASSUME request' = NoRequest PROVE Understood'
BY DEF Understood, NoRequest

\* Each command of WireNext.
LEMMA WireNextUnderstood ==
  ASSUME WireNext
  PROVE  Understood'
<1>0. Sectors \subseteq U32 /\ Words \subseteq U16 /\ Numbers \subseteq 0..255
  BY WireAssumption
<1>1. CASE SendReadCd
  <2>1. PICK type \in SectorTypes, dap \in BOOLEAN, sync \in BOOLEAN, header \in BOOLEAN, subheader \in BOOLEAN,
             user_data \in BOOLEAN, ecc \in BOOLEAN, c2_error \in C2Options, subchannel \in Subchannels,
             sector \in Sectors, count \in Words :
          /\ dap => type = Cdda
          /\ LET r == [op |-> "read_cd", type |-> type, dap |-> dap, sync |-> sync, header |-> header,
                       subheader |-> subheader, user_data |-> user_data, ecc |-> ecc, c2_error |-> c2_error,
                       subchannel |-> subchannel, sector |-> sector, count |-> count]
             IN  Send(r, ReadCd(r))
    BY <1>1, Zenon DEF SendReadCd
  <2>2. sector \in U32 /\ count \in U16
    BY <1>0
  <2>3. dap => type = Cdda
    BY <2>1, Zenon
  <2> DEFINE r == [op |-> "read_cd", type |-> type, dap |-> dap, sync |-> sync, header |-> header,
                   subheader |-> subheader, user_data |-> user_data, ecc |-> ecc, c2_error |-> c2_error,
                   subchannel |-> subchannel, sector |-> sector, count |-> count]
  <2>4. Understands(ReadCd(r), r)
    <3>1. r = [op |-> "read_cd", type |-> type, dap |-> dap, sync |-> sync, header |-> header,
                   subheader |-> subheader, user_data |-> user_data, ecc |-> ecc, c2_error |-> c2_error,
                   subchannel |-> subchannel, sector |-> sector, count |-> count]
      OBVIOUS
    <3>2. /\ r.type = type /\ r.dap = dap /\ r.sync = sync /\ r.header = header
          /\ r.subheader = subheader /\ r.user_data = user_data /\ r.ecc = ecc /\ r.c2_error = c2_error
          /\ r.subchannel = subchannel /\ r.sector = sector /\ r.count = count
      OBVIOUS
    <3> HIDE DEF r
    <3> QED
      BY <3>1, <3>2, <2>2, <2>3, ReadCdUnderstood, Zenon DEF AsksForSectors
  <2> QED
    BY <2>1, <2>4, SentUnderstood
<1>2. CASE SendSetCdSpeed
  <2>1. PICK mode \in 0..1, read_speed \in Words, write_speed \in Words :
          LET r == [op |-> "set_cd_speed", mode |-> mode, read_speed |-> read_speed, write_speed |-> write_speed]
          IN  Send(r, SetCdSpeed(r))
    BY <1>2, Zenon DEF SendSetCdSpeed
  <2>2. read_speed \in U16 /\ write_speed \in U16
    BY <1>0
  <2> QED
    BY <2>1, <2>2, SpeedUnderstood, SentUnderstood
<1>3. CASE SendStartStopUnit
  <2>1. PICK operation \in {"StopDisc", "StartDisc", "EjectDisc", "LoadStartDisc", "Jump", "Power"} :
          \E arg \in CASE operation = "Jump" -> 0..3 [] operation = "Power" -> {2, 3, 5} [] OTHER -> {0} :
            LET r == [op |-> "start_stop_unit", operation |-> operation, arg |-> arg]
            IN  Send(r, StartStopUnit(r))
    BY <1>3, Zenon DEF SendStartStopUnit
  <2>2. PICK arg \in CASE operation = "Jump" -> 0..3 [] operation = "Power" -> {2, 3, 5} [] OTHER -> {0} :
          LET r == [op |-> "start_stop_unit", operation |-> operation, arg |-> arg]
          IN  Send(r, StartStopUnit(r))
    BY <2>1, Zenon
  <2> QED
    BY <2>2, StartStopUnderstood, SentUnderstood
<1>4. CASE SendPreventAllow
  BY <1>4, PreventUnderstood, SentUnderstood DEF SendPreventAllow
<1>5. CASE SendTestUnitReady
  BY <1>5, TestUnderstood, SentUnderstood DEF SendTestUnitReady
<1>6. CASE SendReadToc
  <2>1. PICK format \in 0..5, len \in Words :
          \E time \in IF format \in {0, 1} THEN BOOLEAN ELSE {FALSE},
             number \in IF format \in {0, 2} THEN Numbers ELSE {0} :
            LET r == [op |-> "read_toc", format |-> format, time |-> time, number |-> number, len |-> len]
            IN  Send(r, ReadToc(r))
    BY <1>6, Zenon DEF SendReadToc
  <2>2. PICK time \in IF format \in {0, 1} THEN BOOLEAN ELSE {FALSE},
             number \in IF format \in {0, 2} THEN Numbers ELSE {0} :
          LET r == [op |-> "read_toc", format |-> format, time |-> time, number |-> number, len |-> len]
          IN  Send(r, ReadToc(r))
    BY <2>1, Zenon
  <2>3. /\ time \in BOOLEAN /\ number \in 0..255 /\ len \in U16
        /\ format \notin {0, 1} => ~time
        /\ format \notin {0, 2} => number = 0
    <3>1. len \in U16 /\ number \in 0..255 /\ (format \notin {0, 2} => number = 0)
      BY <1>0
    <3>2. time \in BOOLEAN /\ (format \notin {0, 1} => ~time)
      BY Zenon
    <3> QED
      BY <3>1, <3>2, Zenon
  <2> DEFINE r == [op |-> "read_toc", format |-> format, time |-> time, number |-> number, len |-> len]
  <2>4. Understands(ReadToc(r), r)
    <3>1. r = [op |-> "read_toc", format |-> format, time |-> time, number |-> number, len |-> len]
      OBVIOUS
    <3> HIDE DEF r
    <3> QED
      BY <3>1, <2>3, TocUnderstood, ZenonT(20)
  <2> QED
    BY <2>2, <2>4, SentUnderstood
<1>7. CASE SendReadDiscInfo
  <2>1. PICK kind \in 0..2, len \in Words :
          LET r == [op |-> "read_disc_info", kind |-> kind, len |-> len] IN Send(r, ReadDiscInfo(r))
    BY <1>7, Zenon DEF SendReadDiscInfo
  <2>2. len \in U16
    BY <1>0
  <2> QED
    BY <2>1, <2>2, DiscInfoUnderstood, SentUnderstood
<1>8. CASE SendReadSubchannel
  <2>1. PICK time \in BOOLEAN, param \in 1..3 :
          \E number \in IF param = 3 THEN Numbers ELSE {0} :
            LET r == [op |-> "read_subchannel", time |-> time, param |-> param, number |-> number, len |-> 24]
            IN  Send(r, ReadSubchannel(r))
    BY <1>8, Zenon DEF SendReadSubchannel
  <2>2. PICK number \in IF param = 3 THEN Numbers ELSE {0} :
          LET r == [op |-> "read_subchannel", time |-> time, param |-> param, number |-> number, len |-> 24]
          IN  Send(r, ReadSubchannel(r))
    BY <2>1, Zenon
  <2>3. number \in 0..255 /\ (param # 3 => number = 0) /\ 24 \in U16
    BY <1>0 DEF U16
  <2> DEFINE r == [op |-> "read_subchannel", time |-> time, param |-> param, number |-> number, len |-> 24]
  <2>4. Understands(ReadSubchannel(r), r)
    <3>1. r = [op |-> "read_subchannel", time |-> time, param |-> param, number |-> number, len |-> 24]
      OBVIOUS
    <3> HIDE DEF r
    <3> QED
      BY <3>1, <2>3, SubchannelUnderstands, ZenonT(20)
  <2> QED
    BY <2>2, <2>4, SentUnderstood
<1>9. CASE SendGetEventStatus
  <2>1. PICK polled \in BOOLEAN, classes \in {{}} \union {{k} : k \in 1..6} :
          LET r == [op |-> "get_event_status", polled |-> polled, classes |-> classes, len |-> 12]
          IN  Send(r, GetEventStatus(r))
    BY <1>9, Zenon DEF SendGetEventStatus
  <2>2. classes \in SUBSET (1..6) /\ 12 \in U16
    BY DEF U16
  <2> QED
    BY <2>1, <2>2, EventsUnderstood, SentUnderstood
<1>10. CASE SendInquiry
  <2>1. PICK vital \in BOOLEAN :
          \E page \in IF vital THEN Numbers ELSE {0} :
            LET r == [op |-> "inquiry", vital |-> vital, page |-> page, len |-> 255] IN Send(r, Inquiry(r))
    BY <1>10, Zenon DEF SendInquiry
  <2>2. PICK page \in IF vital THEN Numbers ELSE {0} :
          LET r == [op |-> "inquiry", vital |-> vital, page |-> page, len |-> 255] IN Send(r, Inquiry(r))
    BY <2>1, Zenon
  <2>3. page \in 0..255 /\ (~vital => page = 0) /\ 255 \in U16
    BY <1>0 DEF U16
  <2> DEFINE r == [op |-> "inquiry", vital |-> vital, page |-> page, len |-> 255]
  <2>4. Understands(Inquiry(r), r)
    <3>1. r = [op |-> "inquiry", vital |-> vital, page |-> page, len |-> 255]
      OBVIOUS
    <3> HIDE DEF r
    <3> QED
      BY <3>1, <2>3, InquiryUnderstands, ZenonT(20)
  <2> QED
    BY <2>2, <2>4, SentUnderstood
<1>11. CASE Finish
  BY <1>11, NothingSent DEF Finish
<1> QED
  BY <1>1, <1>2, <1>3, <1>4, <1>5, <1>6, <1>7, <1>8, <1>9, <1>10, <1>11 DEF WireNext

\* The commands whose answers are modelled.
LEMMA AskedUnderstood ==
  ASSUME (\E c \in EventCalls : AskForEvents(c)) \/ (\E c \in SubchannelCalls \ {"isrc"} : AskSubchannel(c, 0))
           \/ (\E n \in Tracks : AskIsrc(n)) \/ \E c \in InquiryCalls : AskInquiry(c)
  PROVE  Understood'
<1>1. ASSUME NEW c \in EventCalls, AskForEvents(c) PROVE Understood'
  <2> DEFINE classes == {Class(c)} \ {Empty}
             r == [op |-> "get_event_status", polled |-> TRUE, classes |-> classes, len |-> 12]
  <2>1. classes \in SUBSET (1..6) /\ 12 \in U16
    BY DEF EventCalls, Class, Empty, OperationalChange, PowerManagement, ExternalRequest, Media,
           MultiHost, DeviceBusy, U16
  <2>2. Send(r, GetEventStatus(r))
    BY <1>1 DEF AskForEvents, Ask
  <2> HIDE DEF classes
  <2>3. Understands(GetEventStatus(r), r)
    BY <2>1, EventsUnderstood
  <2> HIDE DEF r
  <2> QED
    BY <2>2, <2>3, SentUnderstood
<1>2. ASSUME NEW c \in SubchannelCalls, NEW track \in 0..255, c # "isrc" => track = 0, AskSubchannel(c, track)
      PROVE  Understood'
  <2> DEFINE time == Time(c)
             param == Parameter(c)
             r == [op |-> "read_subchannel", time |-> time, param |-> param, number |-> track, len |-> 24]
  <2>1. time \in BOOLEAN /\ param \in 1..3 /\ (param # 3 => track = 0) /\ 24 \in U16
    BY <1>2 DEF SubchannelCalls, Time, Parameter, Position, Mcn, Isrc, U16
  <2>2. Send(r, ReadSubchannel(r))
    BY <1>2 DEF AskSubchannel, Ask
  <2> HIDE DEF time, param
  <2>3. Understands(ReadSubchannel(r), r)
    <3>1. r = [op |-> "read_subchannel", time |-> time, param |-> param, number |-> track, len |-> 24]
      OBVIOUS
    <3> HIDE DEF r
    <3> QED
      BY <3>1, <2>1, SubchannelUnderstands, ZenonT(20)
  <2> HIDE DEF r
  <2> QED
    BY <2>2, <2>3, SentUnderstood
<1>3. ASSUME NEW n \in Tracks, AskIsrc(n) PROVE Understood'
  BY <1>2, <1>3 DEF AskIsrc, ValidTrack, SubchannelCalls
<1>4. ASSUME NEW c \in InquiryCalls, AskInquiry(c) PROVE Understood'
  <2> DEFINE vital == FALSE
             r == [op |-> "inquiry", vital |-> vital, page |-> 0, len |-> 255]
  <2>1. 255 \in U16 /\ vital \in BOOLEAN /\ 0 \in 0..255
    BY DEF U16
  <2>2. Send(r, Inquiry(r))
    BY <1>4 DEF AskInquiry, Ask
  <2>3. Understands(Inquiry(r), r)
    <3>1. r = [op |-> "inquiry", vital |-> vital, page |-> 0, len |-> 255]
      OBVIOUS
    <3> HIDE DEF r, vital
    <3> QED
      BY <3>1, <2>1, InquiryUnderstands, ZenonT(20)
  <2> HIDE DEF r
  <2> QED
    BY <2>2, <2>3, SentUnderstood
<1>5. ASSUME NEW c \in SubchannelCalls \ {"isrc"}, AskSubchannel(c, 0) PROVE Understood'
  BY <1>2, <1>5
<1> QED
  BY <1>1, <1>3, <1>4, <1>5

\* The steps that make no request: an answer, an error, a return, a method that
\* reads a structure.
Silent ==
  \/ \E c \in EventCalls \union SubchannelCalls \union InquiryCalls : \E e : CommandFails(c, e)
  \/ AnswerEvents \/ AnswerSubchannel \/ AnswerInquiry
  \/ SupportedEvents \/ OperationalEventStatus \/ PowerStatus \/ ExternalStatus
  \/ MediaStatus \/ IsTrayOpen \/ MultihostStatus \/ BusyStatus
  \/ AudioStatus \/ MediaCatalogNumber \/ IsrcOfTrack \/ CdCurrentPosition
  \/ HardwareIdentifiers \/ \E c \in {"new", "with_device"} : MmcOpened(c)
  \/ ConvertIso \/ ConvertEntry \/ ConvertDrive

\* These steps leave the block as it is.
LEMMA SilentKeeps == ASSUME Silent PROVE UNCHANGED wireVars
<1>1. ASSUME NEW a, NEW b, Answer(a, b) \/ CommandFails(a, b) \/ Return(a, b) PROVE UNCHANGED wireVars
  BY <1>1 DEF Answer, CommandFails, Return
<1>2. ASSUME NEW c, NEW a, NEW s, NEW v, Convert(c, a, s, v) PROVE UNCHANGED wireVars
  BY <1>2 DEF Convert
<1>3. ASSUME NEW c, NEW l, NEW g, NEW v, Described(c, l, g, v) PROVE UNCHANGED wireVars
  BY <1>3, <1>1 DEF Described
<1>4. CASE ConvertIso \/ ConvertEntry \/ ConvertDrive
  BY <1>2, <1>4 DEF ConvertIso, ConvertEntry, ConvertDrive
<1>5. CASE AnswerEvents \/ AnswerSubchannel \/ AnswerInquiry
  BY <1>1, <1>5, Zenon DEF AnswerEvents, AnswerSubchannel, AnswerInquiry
<1>6. CASE SupportedEvents \/ OperationalEventStatus \/ PowerStatus \/ ExternalStatus
           \/ MediaStatus \/ IsTrayOpen \/ MultihostStatus \/ BusyStatus
  BY <1>3, <1>6, Zenon DEF SupportedEvents, OperationalEventStatus, PowerStatus, ExternalStatus,
                    MediaStatus, IsTrayOpen, MultihostStatus, BusyStatus
<1>7. CASE AudioStatus \/ MediaCatalogNumber \/ IsrcOfTrack \/ CdCurrentPosition
           \/ HardwareIdentifiers \/ \E c \in {"new", "with_device"} : MmcOpened(c)
  BY <1>1, <1>7, Zenon DEF AudioStatus, MediaCatalogNumber, IsrcOfTrack, CdCurrentPosition,
                           HardwareIdentifiers, MmcOpened
<1>8. CASE \E c \in EventCalls \union SubchannelCalls \union InquiryCalls : \E e : CommandFails(c, e)
  BY <1>1, <1>8
<1> QED
  BY <1>4, <1>5, <1>6, <1>7, <1>8, Zenon DEF Silent

\* No step breaks what the blocks mean.
LEMMA UnderstoodStep ==
  ASSUME Understood, [Next]_vars
  PROVE  Understood'
<1>1. CASE UNCHANGED wireVars
  BY <1>1 DEF wireVars, Understood
<1>2. CASE OtherCommand
  BY <1>2, WireNextUnderstood DEF OtherCommand
<1>3. CASE Forget
  BY <1>3, NothingSent DEF Forget
<1>4. CASE EventStatusNext
  <2>1. EventStatusNext => (\E c \in EventCalls : AskForEvents(c)) \/ Silent
    BY Zenon DEF EventStatusNext, Silent
  <2> QED
    BY <1>1, <1>4, <2>1, AskedUnderstood, SilentKeeps
<1>5. CASE SubchannelNext
  <2>1. SubchannelNext => (\E c \in SubchannelCalls \ {"isrc"} : AskSubchannel(c, 0))
                          \/ (\E n \in Tracks : AskIsrc(n)) \/ Silent
    BY Zenon DEF SubchannelNext, Silent
  <2> QED
    BY <1>1, <1>5, <2>1, AskedUnderstood, SilentKeeps
<1>6. CASE InquiryNext
  <2>1. InquiryNext => (\E c \in InquiryCalls : AskInquiry(c)) \/ Silent
    BY Zenon DEF InquiryNext, Silent, InquiryCalls
  <2> QED
    BY <1>1, <1>6, <2>1, AskedUnderstood, SilentKeeps
<1>7. CASE ConvertIso \/ ConvertEntry \/ ConvertDrive
  BY <1>1, <1>7, SilentKeeps DEF Silent
<1>8. CASE UNCHANGED vars
  BY <1>1, <1>8 DEF vars
<1> QED
  BY <1>2, <1>3, <1>4, <1>5, <1>6, <1>7, <1>8 DEF Next

\* A device that reads a command block by the standard reads the request in it,
\* for every sector, count, speed, track, session and page.
THEOREM BlocksUnderstood == Spec => []Understood
<1>1. Init => Understood
  BY DEF Init, WireInit, Understood, NoRequest
<1> QED
  BY <1>1, UnderstoodStep, PTL DEF Spec

-----------------------------------------------------------------------------
(***************************************************************************)
(* The answers about events.                                               *)
(***************************************************************************)
\* What a device may mean by its answer to a call about events.
EventAnswers(c) == OddAnswers \union UNION {Descriptions(class) : class \in {Class(c)} \ {Empty}}

\* The call asked a device, which means what the bytes say.
EventsAnswered ==
  /\ call \in EventCalls
  /\ meant \in EventAnswers(call)
  /\ data = Encoded(meant)

\* The powers of two by which the code shifts.
LEMMA Powers == 2^0 = 1 /\ 2^1 = 2 /\ 2^3 = 8 /\ 2^4 = 16 /\ 2^5 = 32 /\ 2^7 = 128
OBVIOUS

\* The requests that the standard defines have a variant.
LEMMA RequestKnown ==
  ASSUME NEW n \in U16, n \in {0, 1, 257, 258, 259, 260, 262, 263} \/ n >= 61440
  PROVE  n \in Optional(KnownRequests)
BY DEF Optional, KnownRequests, VendorUnique

\* The fields of an answer.
LEMMA EventFields ==
  ASSUME EventsAnswered
  PROVE  /\ meant.len \in 0..11 /\ meant.nea \in BOOLEAN /\ meant.class \in 0..7
         /\ meant.code \in 0..7 /\ meant.prevent \in BOOLEAN /\ meant.state \in 0..5
         /\ meant.word \in U16 /\ meant.supported \in 0..255
         /\ meant.class \notin {OperationalChange, ExternalRequest, MultiHost} => ~meant.prevent
<1>1. CASE meant \in OddAnswers
  <2>1. 0 \in U16
    BY DEF U16
  <2>2. /\ meant.len \in {0, 2, 3, 4, 5, 6, 10, 11} /\ meant.nea \in BOOLEAN /\ meant.class \in 0..7
        /\ meant.code \in {0} /\ meant.prevent \in {FALSE} /\ meant.state \in {1} /\ meant.word \in {0}
        /\ meant.supported \in {18, 255}
    BY <1>1 DEF OddAnswers
  <2>3. meant.len \in 0..11 /\ meant.class \in 0..7 /\ meant.supported \in 0..255 /\ meant.code \in 0..7
        /\ meant.state \in 0..5
    BY <2>2
  <2>4. meant.word \in U16 /\ meant.prevent = FALSE
    BY <2>1, <2>2
  <2> QED
    BY <2>2, <2>3, <2>4, Zenon
<1>2. ASSUME NEW class \in {Class(call)} \ {Empty}, meant \in Descriptions(class)
      PROVE  /\ meant.len \in 0..11 /\ meant.nea \in BOOLEAN /\ meant.class \in 0..7
             /\ meant.code \in 0..7 /\ meant.prevent \in BOOLEAN /\ meant.state \in 0..5
             /\ meant.word \in U16 /\ meant.supported \in 0..255
             /\ meant.class \notin {OperationalChange, ExternalRequest, MultiHost} => ~meant.prevent
  <2>1. class \in 1..6
    BY EventsAnswered DEF EventsAnswered, EventCalls, Class, Empty, OperationalChange, PowerManagement,
          ExternalRequest, Media, MultiHost, DeviceBusy
  <2>2. EventWords \subseteq U16
    BY EventWordsAssumption
  <2>3. /\ meant.len = 6 /\ meant.nea = FALSE /\ meant.class = class /\ meant.supported \in {18, 255}
        /\ meant.code \in 0..7 /\ meant.prevent \in Prevents(class) /\ meant.state \in 0..5
        /\ meant.word \in EventWords
    BY <1>2 DEF Descriptions
  <2>4. meant.prevent \in BOOLEAN /\ (class \notin {OperationalChange, ExternalRequest, MultiHost} => ~meant.prevent)
    BY <2>3, Zenon DEF Prevents
  <2>5. meant.len \in 0..11 /\ meant.class \in 0..7 /\ meant.supported \in 0..255
    BY <2>1, <2>3
  <2>6. meant.nea \in BOOLEAN
    BY <2>3, Zenon
  <2> QED
    BY <2>2, <2>3, <2>4, <2>5, <2>6, Zenon
<1> QED
  BY <1>1, <1>2 DEF EventsAnswered, EventAnswers

\* The bytes, read back.
LEMMA EventBytes ==
  ASSUME EventsAnswered
  PROVE  /\ InWord(0) = meant.len /\ InWord(6) = meant.word
         /\ data[6] = meant.word \div 256 /\ data[7] = meant.word % 256
         /\ (Bits(data[2], 7, 1) = 1) <=> meant.nea
         /\ Bits(data[2], 0, 3) = meant.class
         /\ data[3] = meant.supported
         /\ EventCode = meant.code
         /\ (Bits(data[5], 7, 1) = 1) <=> meant.prevent
         /\ Bits(data[5], 0, 4) = meant.state
         /\ ~meant.prevent => data[5] = meant.state
         /\ ~meant.prevent => Bits(data[5], 0, 1) = meant.state % 2
         /\ ~meant.prevent => Bits(data[5], 1, 1) = (meant.state \div 2) % 2
<1> DEFINE class == meant.class
           state == meant.state
           nea == meant.nea
           prevent == meant.prevent
           code == meant.code
<1>1. /\ class \in 0..7 /\ nea \in BOOLEAN /\ code \in 0..7 /\ state \in 0..5 /\ prevent \in BOOLEAN
      /\ meant.len \in Nat /\ meant.word \in Nat
  BY EventFields DEF U16
<1>2. /\ data[0] = 0 /\ data[1] = meant.len /\ data[2] = class + (IF nea THEN 128 ELSE 0)
      /\ data[3] = meant.supported /\ data[4] = code /\ data[5] = state + (IF prevent THEN 128 ELSE 0)
      /\ data[6] = meant.word \div 256 /\ data[7] = meant.word % 256
  BY DEF EventsAnswered, Encoded
<1> HIDE DEF class, state, nea, prevent, code
<1>3. /\ (Bits(data[2], 7, 1) = 1) <=> nea
      /\ Bits(data[2], 0, 3) = class
  BY <1>1, <1>2, Powers DEF Bits
<1>4. EventCode = code
  BY <1>1, <1>2, Powers DEF Bits, EventCode
<1>5. /\ (Bits(data[5], 7, 1) = 1) <=> prevent
      /\ Bits(data[5], 0, 4) = state
  BY <1>1, <1>2, Powers DEF Bits
<1>6. ~prevent => data[5] = state /\ Bits(data[5], 0, 1) = state % 2 /\ Bits(data[5], 1, 1) = (state \div 2) % 2
  BY <1>1, <1>2, Powers DEF Bits
<1>7. InWord(0) = meant.len /\ InWord(6) = meant.word
  BY <1>1, <1>2 DEF InWord
<1> QED
  BY <1>2, <1>3, <1>4, <1>5, <1>6, <1>7 DEF class, state, nea, prevent, code

\* The header parses if the answer is long enough, of the class, and no
\* refusal.
LEMMA EventHeader ==
  ASSUME EventsAnswered, NEW expected \in 0..6
  PROVE  /\ Header(expected) = "Ok" <=> /\ meant.len \in 2..10
                                        /\ expected # Empty => ~meant.nea /\ meant.class = expected
         /\ meant.len \in 2..10 /\ expected # Empty /\ meant.nea => Header(expected) = "EventNotSupported"
         /\ Header(expected) \in {"Ok", "EventNotSupported", "InvalidResponse"}
<1>1. HeaderParses <=> meant.len \in 2..10
  BY EventBytes DEF HeaderParses
<1> QED
  BY <1>1, EventBytes DEF Header

\* Every call but supported_events asks for a class.
LEMMA ClassOfCall ==
  ASSUME NEW c \in EventCalls
  PROVE  Class(c) \in 0..6 /\ (c # "supported_events" => Class(c) # Empty) /\ Class("supported_events") = Empty
BY DEF EventCalls, Class, Empty, OperationalChange, PowerManagement, ExternalRequest, Media, MultiHost, DeviceBusy

\* What is left to show of a call: its value is right, and it takes every
\* descriptor of codes that are defined.
LEMMA DescribedRight ==
  ASSUME EventsAnswered, NEW c, NEW length, NEW good, NEW value, Described(c, length, good, value),
         meant.class = Class(c) /\ ~meant.nea /\ HasBytes(length) /\ good => ValueSays(c, meant, value),
         meant.class = Class(c) /\ ~meant.nea /\ meant.len = 6 /\ Defined(meant) => HasBytes(length) /\ good,
         c # "supported_events"
  PROVE  (result.status = "Ok" => EventSays)' /\ EventUnderstood'
<1>1. /\ call = c /\ call' = c /\ meant' = meant /\ pc' = "returned"
      /\ result' = IF Header(Class(c)) # "Ok" THEN [status |-> Header(Class(c))]
                   ELSE IF ~(HasBytes(length) /\ good) THEN [status |-> "InvalidResponse"]
                   ELSE [status |-> "Ok", value |-> value]
  BY Zenon DEF Described, Return
<1>2. /\ Header(Class(c)) = "Ok" <=> meant.len \in 2..10 /\ ~meant.nea /\ meant.class = Class(c)
      /\ meant.len \in 2..10 /\ meant.nea => Header(Class(c)) = "EventNotSupported"
  BY <1>1, EventHeader, ClassOfCall DEF EventsAnswered
<1>3. CASE Header(Class(c)) # "Ok"
  <2>1. result' = [status |-> Header(Class(c))]
    BY <1>1, <1>3, Zenon
  <2>2. result'.status # "Ok" /\ (meant.nea /\ meant.len = 2 => result'.status = "EventNotSupported")
    BY <1>2, <1>3, <2>1
  <2>3. ~(meant.class = Class(c) /\ ~meant.nea /\ meant.len = 6)
    BY <1>2, <1>3
  <2> QED
    BY <1>1, <2>2, <2>3 DEF EventUnderstood, NotSupported
<1>4. CASE Header(Class(c)) = "Ok" /\ ~(HasBytes(length) /\ good)
  <2>1. result' = [status |-> "InvalidResponse"]
    BY <1>1, <1>4, Zenon
  <2>2. result'.status # "Ok"
    BY <2>1
  <2>3. ~meant.nea /\ ~(meant.class = Class(c) /\ ~meant.nea /\ meant.len = 6 /\ Defined(meant))
    BY <1>2, <1>4
  <2> QED
    BY <1>1, <2>2, <2>3, Zenon DEF EventUnderstood, NotSupported
<1>5. CASE Header(Class(c)) = "Ok" /\ HasBytes(length) /\ good
  <2>1. result' = [status |-> "Ok", value |-> value]
    BY <1>1, <1>5, Zenon
  <2>2. result'.status = "Ok" /\ result'.value = value
    BY <2>1
  <2>3. ~meant.nea /\ meant.class = Class(c) /\ ValueSays(c, meant, value)
    BY <1>2, <1>5
  <2> QED
    BY <1>1, <2>2, <2>3, Zenon DEF EventSays, EventUnderstood, NotSupported
<1> QED
  BY <1>3, <1>4, <1>5

\* A value that is the one that the device means.
LEMMA DescribedAsMeant ==
  ASSUME EventsAnswered, NEW c, NEW length, NEW good, NEW value, Described(c, length, good, value),
         meant.class = Class(c) /\ ~meant.nea /\ HasBytes(length) /\ good => value = EventMeaning(c, meant),
         meant.class = Class(c) /\ ~meant.nea /\ meant.len = 6 /\ Defined(meant) => HasBytes(length) /\ good,
         c # "supported_events", c # "busy_status"
  PROVE  (result.status = "Ok" => EventSays)' /\ EventUnderstood'
<1>1. value = EventMeaning(c, meant) => ValueSays(c, meant, value)
  BY Zenon DEF ValueSays
<1> QED
  BY <1>1, DescribedRight

\* supported_events: the bits of the classes.
LEMMA SupportedRight ==
  ASSUME EventsAnswered, SupportedEvents
  PROVE  (result.status = "Ok" => EventSays)' /\ EventUnderstood'
<1>1. /\ call = "supported_events" /\ call' = call /\ meant' = meant
      /\ result' = IF Header(Empty) # "Ok" THEN [status |-> Header(Empty)]
                   ELSE IF ~HasBytes(0) THEN [status |-> "InvalidResponse"]
                   ELSE [status |-> "Ok", value |-> {k \in 1..6 : Bits(data[3], k, 1) = 1}]
  BY ClassOfCall, Zenon DEF SupportedEvents, Described, Return, EventsAnswered
<1>2. Header(Empty) = "Ok" <=> meant.len \in 2..10
  BY EventHeader DEF Empty
<1>3. meant.len \in 2..10 => HasBytes(0)
  BY EventBytes DEF HasBytes
<1>4. {k \in 1..6 : Bits(data[3], k, 1) = 1} = EventMeaning("supported_events", meant)
  <2>1. EventMeaning("supported_events", meant) = {k \in 1..6 : (meant.supported \div 2^k) % 2 = 1}
    BY DEF EventMeaning
  <2>2. \A k : Bits(data[3], k, 1) = (meant.supported \div 2^k) % 2
    BY EventBytes, Powers, Zenon DEF Bits
  <2> QED
    BY <2>1, <2>2, Zenon
<1>5. CASE meant.len \in 2..10
  <2>1. result' = [status |-> "Ok", value |-> EventMeaning("supported_events", meant)]
    BY <1>1, <1>2, <1>3, <1>4, <1>5, Zenon
  <2>2. result'.status = "Ok" /\ result'.value = EventMeaning("supported_events", meant)
    BY <2>1
  <2> QED
    BY <1>1, <2>2 DEF EventSays, ValueSays, EventUnderstood
<1>6. CASE meant.len \notin 2..10
  <2>1. result' = [status |-> Header(Empty)]
    BY <1>1, <1>2, <1>6, Zenon
  <2>2. result'.status # "Ok"
    BY <2>1, <1>2, <1>6
  <2> QED
    BY <1>1, <1>6, <2>2 DEF EventUnderstood
<1> QED
  BY <1>5, <1>6

\* The calls that keep a descriptor.
LEMMA StatusRight ==
  ASSUME EventsAnswered,
         \/ OperationalEventStatus \/ PowerStatus \/ ExternalStatus \/ MediaStatus
         \/ IsTrayOpen \/ MultihostStatus \/ BusyStatus
  PROVE  (result.status = "Ok" => EventSays)' /\ EventUnderstood'
<1> DEFINE Right == (result.status = "Ok" => EventSays)' /\ EventUnderstood'
<1>1. meant.len = 6 => HasBytes(4) /\ HasBytes(2)
  BY EventBytes DEF HasBytes
<1>2. CASE OperationalEventStatus
  <2> DEFINE good == InWord(6) \in Optional(OperationalEvents)
             value == [event |-> InWord(6), persistent_prevent |-> Bits(data[5], 7, 1) = 1]
  <2>1. Described("operational_event_status", 4, good, value)
    BY <1>2 DEF OperationalEventStatus
  <2>2. value = EventMeaning("operational_event_status", meant)
    BY EventBytes, EventFields DEF EventMeaning
  <2>3. meant.class = OperationalChange /\ Defined(meant) => good
    BY EventBytes DEF Defined, OperationalChange, PowerManagement, ExternalRequest, Media, MultiHost,
                      DeviceBusy, Optional, OperationalEvents
  <2>4. Class("operational_event_status") = OperationalChange
    BY DEF Class
  <2> HIDE DEF good, value
  <2> QED
    BY <1>1, <2>1, <2>2, <2>3, <2>4, DescribedAsMeant
<1>3. CASE PowerStatus
  <2> DEFINE good == EventCode \in Optional(PowerEvents) /\ data[5] \in PowerStates
             value == [event |-> EventCode, state |-> data[5]]
  <2>1. Described("power_status", 2, good, value)
    BY <1>3 DEF PowerStatus
  <2>2. meant.class = PowerManagement => data[5] = meant.state
    BY EventBytes, EventFields DEF OperationalChange, PowerManagement, ExternalRequest, MultiHost
  <2>3. meant.class = PowerManagement => value = EventMeaning("power_status", meant)
    BY <2>2, EventBytes DEF EventMeaning
  <2>4. meant.class = PowerManagement /\ Defined(meant) => good
    BY <2>2, EventBytes DEF Defined, OperationalChange, PowerManagement, ExternalRequest, Media, MultiHost,
                      DeviceBusy, Optional, PowerEvents, PowerStates
  <2>5. Class("power_status") = PowerManagement
    BY DEF Class
  <2> HIDE DEF good, value
  <2> QED
    BY <1>1, <2>1, <2>3, <2>4, <2>5, DescribedAsMeant
<1>4. CASE ExternalStatus
  <2> DEFINE good == /\ EventCode \in Optional(ExternalRequestEvents)
                     /\ Bits(data[5], 0, 4) \in ExternalRequestStates
                     /\ InWord(6) \in Optional(KnownRequests)
             value == [event |-> EventCode, state |-> Bits(data[5], 0, 4), request |-> Request(InWord(6))]
  <2>1. Described("external_status", 4, good, value)
    BY <1>4, Zenon DEF ExternalStatus
  <2>2. value = EventMeaning("external_status", meant)
    BY EventBytes, EventFields, SMT DEF EventMeaning, Request, VendorUnique, U16
  <2>3. meant.class = ExternalRequest /\ Defined(meant) => good
    <3>1. meant.word \in U16
      BY EventFields
    <3>2. meant.class = ExternalRequest /\ Defined(meant) =>
            /\ meant.code \in 0..3 /\ meant.state \in 0..1
            /\ meant.word \in {0, 1, 257, 258, 259, 260, 262, 263} \/ meant.word >= 61440
      BY SMT DEF Defined, OperationalChange, PowerManagement, ExternalRequest, Media, MultiHost, DeviceBusy
    <3>3. meant.word \in {0, 1, 257, 258, 259, 260, 262, 263} \/ meant.word >= 61440 =>
            meant.word \in Optional(KnownRequests)
      BY <3>1, RequestKnown, SMT
    <3>4. /\ meant.code \in 0..3 => meant.code \in Optional(ExternalRequestEvents)
          /\ meant.state \in 0..1 => meant.state \in ExternalRequestStates
      BY SMT DEF Optional, ExternalRequestEvents, ExternalRequestStates
    <3>5. EventCode = meant.code /\ Bits(data[5], 0, 4) = meant.state /\ InWord(6) = meant.word
      BY EventBytes, SMT
    <3> HIDE DEF good
    <3> QED
      BY <3>2, <3>3, <3>4, <3>5, SMT DEF good
  <2>4. Class("external_status") = ExternalRequest
    BY DEF Class
  <2> HIDE DEF good, value
  <2> QED
    BY <1>1, <2>1, <2>2, <2>3, <2>4, DescribedAsMeant
<1>5. meant.class = Media => /\ DoorOrTrayOpen <=> meant.state \in {1, 3, 5}
                             /\ MediaPresent <=> meant.state \in {2, 3}
  <2>1. meant.class = Media => Bits(data[5], 0, 1) = meant.state % 2 /\ Bits(data[5], 1, 1) = (meant.state \div 2) % 2
    BY EventBytes, EventFields DEF OperationalChange, ExternalRequest, Media, MultiHost
  <2> QED
    BY <2>1, EventFields DEF DoorOrTrayOpen, MediaPresent
<1>6. meant.class = Media /\ Defined(meant) => EventCode \in Optional(MediaEvents)
  BY EventBytes DEF Defined, OperationalChange, PowerManagement, ExternalRequest, Media, MultiHost,
                    DeviceBusy, Optional, MediaEvents
<1>7. Class("media_status") = Media /\ Class("is_tray_open") = Media
  BY DEF Class
<1>8. CASE MediaStatus
  <2> DEFINE good == EventCode \in Optional(MediaEvents)
             value == [event |-> EventCode, open |-> DoorOrTrayOpen, present |-> MediaPresent,
                       start_slot |-> data[6], end_slot |-> data[7]]
  <2>1. Described("media_status", 4, good, value)
    BY <1>8 DEF MediaStatus
  <2>2. meant.class = Media => value = EventMeaning("media_status", meant)
    <3>1. EventMeaning("media_status", meant)
            = [event |-> meant.code, open |-> meant.state \in {1, 3, 5}, present |-> meant.state \in {2, 3},
               start_slot |-> meant.word \div 256, end_slot |-> meant.word % 256]
      BY DEF EventMeaning
    <3>2. ASSUME meant.class = Media
          PROVE  DoorOrTrayOpen = (meant.state \in {1, 3, 5}) /\ MediaPresent = (meant.state \in {2, 3})
      BY <3>2, <1>5, SMT DEF DoorOrTrayOpen, MediaPresent
    <3>3. EventCode = meant.code /\ data[6] = meant.word \div 256 /\ data[7] = meant.word % 256
      BY EventBytes
    <3> QED
      BY <3>1, <3>2, <3>3, Zenon
  <2> HIDE DEF good, value
  <2> QED
    BY <1>1, <1>6, <1>7, <2>1, <2>2, DescribedAsMeant DEF good
<1>9. CASE IsTrayOpen
  <2> DEFINE good == EventCode \in Optional(MediaEvents)
             value == DoorOrTrayOpen
  <2>1. Described("is_tray_open", 4, good, value)
    BY <1>9 DEF IsTrayOpen
  <2>2. meant.class = Media => value = EventMeaning("is_tray_open", meant)
    BY <1>5 DEF EventMeaning, DoorOrTrayOpen
  <2> HIDE DEF good, value
  <2> QED
    BY <1>1, <1>6, <1>7, <2>1, <2>2, DescribedAsMeant DEF good
<1>10. CASE MultihostStatus
  <2> DEFINE good == /\ EventCode \in Optional(MultiHostEvents)
                     /\ Bits(data[5], 0, 4) \in MultiHostStates
                     /\ InWord(6) \in Optional(MultiHostPriorities)
             value == [event |-> EventCode, state |-> Bits(data[5], 0, 4), priority |-> InWord(6)]
  <2>1. Described("multihost_status", 4, good, value)
    BY <1>10, Zenon DEF MultihostStatus
  <2>2. value = EventMeaning("multihost_status", meant)
    BY EventBytes DEF EventMeaning
  <2>3. meant.class = MultiHost /\ Defined(meant) => good
    BY EventBytes DEF Defined, OperationalChange, PowerManagement, ExternalRequest, Media, MultiHost,
                      DeviceBusy, Optional, MultiHostEvents, MultiHostStates, MultiHostPriorities
  <2>4. Class("multihost_status") = MultiHost
    BY DEF Class
  <2> HIDE DEF good, value
  <2> QED
    BY <1>1, <2>1, <2>2, <2>3, <2>4, DescribedAsMeant
<1>11. CASE BusyStatus
  <2> DEFINE good == EventCode \in Optional(BusyEvents) /\ data[5] \in BusyStates
             time  == IF data[5] = NotBusy THEN NoTime ELSE {FromMillis(InWord(6))}
             value == [event |-> EventCode, state |-> data[5], busy_time |-> time]
  <2>1. Described("busy_status", 4, good, value)
    BY <1>11 DEF BusyStatus
  <2>2. meant.class = DeviceBusy => data[5] = meant.state
    BY EventBytes, EventFields DEF OperationalChange, DeviceBusy, ExternalRequest, MultiHost
  <2>3. ASSUME meant.class = DeviceBusy, good PROVE ValueSays("busy_status", meant, value)
    <3> DEFINE left == IF meant.state = 1 THEN {TimeLeft(meant.word)} ELSE NoTime
    <3>1. EventMeaning("busy_status", meant) = [event |-> meant.code, state |-> meant.state, busy_time |-> left]
      BY DEF EventMeaning
    <3>2. (time # NoTime) = (left # NoTime)
      BY <2>2, <2>3 DEF BusyStates, NotBusy, NoTime
    <3>3. EventCode = meant.code /\ data[5] = meant.state
      BY <2>2, <2>3, EventBytes
    <3> HIDE DEF time, left
    <3>4. /\ Untimed(value) = [event |-> EventCode, state |-> data[5], busy_time |-> (time # NoTime)]
          /\ Untimed([event |-> meant.code, state |-> meant.state, busy_time |-> left])
               = [event |-> meant.code, state |-> meant.state, busy_time |-> (left # NoTime)]
      BY DEF Untimed
    <3>5. Untimed(value) = Untimed(EventMeaning("busy_status", meant))
      BY <3>1, <3>2, <3>3, <3>4, Zenon
    <3> QED
      BY <3>5, Zenon DEF ValueSays
  <2>4. meant.class = DeviceBusy /\ Defined(meant) => good
    BY <2>2, EventBytes DEF Defined, OperationalChange, PowerManagement, ExternalRequest, Media, MultiHost,
                      DeviceBusy, Optional, BusyEvents, BusyStates
  <2>5. Class("busy_status") = DeviceBusy
    BY DEF Class
  <2> HIDE DEF good, value
  <2> QED
    BY <1>1, <2>1, <2>3, <2>4, <2>5, DescribedRight
<1> QED
  BY <1>2, <1>3, <1>4, <1>8, <1>9, <1>10, <1>11

-----------------------------------------------------------------------------
(***************************************************************************)
(* The answers about the sub-channel.                                      *)
(***************************************************************************)
\* The call asked for what it is about, and the device means what the bytes say.
SubchannelAsked ==
  /\ call \in SubchannelCalls
  /\ Whole(cdb, 3) = Parameter(call)
  /\ Flag(cdb, 1, 1) = Time(call)

SubchannelAnswered ==
  /\ SubchannelAsked
  /\ meant \in SubchannelAnswers
  /\ data = SubchannelBytes(meant)

\* A number that the device sends, character by character.
LEMMA CodeTextIs ==
  ASSUME NEW n \in Nat, NEW text \in CodeTexts(n)
  PROVE  text \in Seq(Nat) /\ Len(text) = n /\ text = [k \in 1..n |-> text[k]]
<1>1. CASE text = [k \in 1..n |-> 48 + (k % 10)]
  BY <1>1
<1>2. CASE text = [k \in 1..n |-> IF k = n THEN 200 ELSE 65]
  BY <1>2
<1> QED
  BY <1>1, <1>2 DEF CodeTexts

\* The fields of an answer.
LEMMA SubchannelFields ==
  ASSUME SubchannelAnswered
  PROVE  /\ meant.audio \in Nat /\ meant.len \in Nat /\ meant.format \in {Parameter(call), Mcn}
         /\ meant.valid \in BOOLEAN /\ meant.zero \in {0, 1} /\ meant.time = Time(call)
         /\ Parameter(call) = Position => meant.text = <<>>
         /\ Parameter(call) = Mcn => meant.text \in CodeTexts(13)
         /\ Parameter(call) = Isrc => meant.text \in CodeTexts(12)
<1> DEFINE asked == Parameter(call)
           texts == IF asked = Position THEN {<<>>} ELSE CodeTexts(IF asked = Mcn THEN 13 ELSE 12)
           full  == FullLength(asked)
           time  == Time(call)
           track == IF asked = Isrc THEN Whole(cdb, 6) ELSE 7
<1>1. \/ meant \in [audio : {0, 17, 20, 21}, len : {full}, format : {asked}, track : {track},
                    valid : BOOLEAN, text : texts, zero : {0}, time : {time}]
      \/ meant \in [audio : {0, 16, 17, 22}, len : {0, full - 1, full, 20, 21}, format : {asked, Mcn}, track : {1, 7},
                    valid : {TRUE}, text : texts, zero : {0, 1}, time : {time}]
  BY Zenon DEF SubchannelAnswered, SubchannelAsked, SubchannelAnswers
<1>2. full \in {12, 20}
  BY DEF FullLength
<1> HIDE DEF asked, texts, full, time, track
<1>3. /\ meant.audio \in Nat /\ meant.len \in Nat /\ meant.format \in {asked, Mcn}
      /\ meant.text \in texts /\ meant.zero \in {0, 1} /\ meant.time = time
  <2>1. /\ meant.audio \in {0, 17, 20, 21} \/ meant.audio \in {0, 16, 17, 22}
        /\ meant.len \in {full} \/ meant.len \in {0, full - 1, full, 20, 21}
        /\ meant.format \in {asked} \/ meant.format \in {asked, Mcn}
        /\ meant.text \in texts
        /\ meant.zero \in {0} \/ meant.zero \in {0, 1}
        /\ meant.time \in {time}
    BY <1>1
  <2> QED
    BY <1>2, <2>1
<1>4. meant.valid \in BOOLEAN
  BY <1>1
<1> QED
  BY <1>3, <1>4 DEF asked, texts, time, Position, Mcn, Isrc

\* The bytes, read back.
LEMMA SubchannelData ==
  ASSUME SubchannelAnswered
  PROVE  /\ data[1] = meant.audio /\ InWord(2) = meant.len /\ data[4] = meant.format
         /\ meant.format # Mcn => data[6] = meant.track
<1>1. /\ data[1] = meant.audio /\ data[2] = 0 /\ data[3] = meant.len /\ data[4] = meant.format
      /\ meant.format # Mcn => data[6] = meant.track
  BY DEF SubchannelAnswered, SubchannelBytes
<1> QED
  BY <1>1, SubchannelFields DEF InWord

\* The bytes of a number, read back.
LEMMA CodeData ==
  ASSUME SubchannelAnswered, meant.format # Position, NEW n \in 12..13, meant.text \in CodeTexts(n)
  PROVE  /\ (Bits(data[8], 7, 1) = 1) <=> meant.valid
         /\ Text(9, n) = meant.text
         /\ data[9 + n] = meant.zero
<1>1. Len(meant.text) = n /\ meant.text = [k \in 1..n |-> meant.text[k]]
  BY CodeTextIs
<1>2. \A k \in 8..23 : data[k] = CodeByte(meant, k)
  BY DEF SubchannelAnswered, SubchannelBytes, Position
<1>3. data[8] = IF meant.valid THEN 128 ELSE 0
  <2>1. data[8] = CodeByte(meant, 8)
    BY <1>2
  <2>2. 8 - 8 \notin 1..Len(meant.text) /\ 8 # 9 + Len(meant.text)
    <3>1. Len(meant.text) \in 12..13
      BY <1>1, Zenon
    <3> QED
      BY <3>1
  <2>3. CodeByte(meant, 8) = IF meant.valid THEN 128 ELSE 0
    BY <2>2 DEF CodeByte
  <2> QED
    BY <2>1, <2>3, Zenon
<1>4. \A k \in 1..n : data[8 + k] = meant.text[k]
  <2> TAKE k \in 1..n
  <2>1. 8 + k \in 8..23 /\ 8 + k # 8 /\ (8 + k) - 8 = k /\ 8 + k # 9 + n
    OBVIOUS
  <2> QED
    BY <1>1, <1>2, <2>1 DEF CodeByte
<1>5. data[9 + n] = meant.zero
  <2>1. 9 + n \in 8..23 /\ 9 + n # 8 /\ (9 + n) - 8 \notin 1..n
    OBVIOUS
  <2> QED
    BY <1>1, <1>2, <2>1 DEF CodeByte
<1>6. (Bits(data[8], 7, 1) = 1) <=> meant.valid
  BY <1>3, Powers DEF Bits
<1>7. Text(9, n) = meant.text
  <2>1. \A k \in 1..n : data[9 + k - 1] = meant.text[k]
    BY <1>4
  <2> QED
    BY <1>1, <2>1 DEF Text
<1> QED
  BY <1>5, <1>6, <1>7

\* The bytes of a position, read back.
LEMMA PositionData ==
  ASSUME SubchannelAnswered, meant.format = Position
  PROVE  data[7] = 1 /\ \A k \in 1..8 : data[7 + k] = At(meant.time)[k]
<1>1. data[7] = 1
  BY DEF SubchannelAnswered, SubchannelBytes, Position, Mcn
<1>2. ASSUME NEW k \in 1..8 PROVE data[7 + k] = At(meant.time)[k]
  <2>1. 7 + k \in 8..15 /\ 7 + k \in 0..23 /\ (7 + k) - 7 = k
    OBVIOUS
  <2> QED
    BY <2>1 DEF SubchannelAnswered, SubchannelBytes, Position, Mcn
<1> QED
  BY <1>1, <1>2

\* What is left to show of a method that describes a position or a number: the
\* answer is about what was asked for, and the value is the one it means.
LEMMA SubchannelRight ==
  ASSUME SubchannelAnswered, NEW c, NEW r, Return(c, r), c # "audio_status",
         NEW read, NEW value,
         r = IF read THEN value ELSE [status |-> "InvalidResponse"],
         read => meant.format = Parameter(c) /\ (c = "isrc" => meant.track = request.number),
         /\ meant.len = FullLength(Parameter(c)) /\ meant.format = Parameter(c) /\ meant.zero = 0
         /\ meant.audio \in {NotSupportedOrValid} \union AudioStatuses
         /\ c = "isrc" => meant.track = request.number
         => read,
         read => value = IF meant.valid /\ \E k \in DOMAIN meant.text : meant.text[k] >= 128
                         THEN [status |-> "Panic"]
                         ELSE [status |-> "Ok", value |-> SubchannelMeaning(c, meant)]
  PROVE  (result.status = "Ok" => SubchannelSays)' /\ SubchannelUnderstood'
<1>1. call = c /\ call' = c /\ meant' = meant /\ request' = request /\ result' = r
  BY DEF Return, wireVars
<1> DEFINE panics == meant.valid /\ \E k \in DOMAIN meant.text : meant.text[k] >= 128
<1>2. SubchannelUnderstood' =
        (/\ meant.len = FullLength(Parameter(c)) /\ meant.format = Parameter(c) /\ meant.zero = 0
         /\ meant.audio \in {NotSupportedOrValid} \union AudioStatuses
         =>
         /\ (c = "isrc" => meant.track = request.number) => r.status = IF panics THEN "Panic" ELSE "Ok")
  BY <1>1, Zenon DEF SubchannelUnderstood
<1>3. SubchannelSays' = (/\ r.value = SubchannelMeaning(c, meant)
                         /\ meant.format = Parameter(c)
                         /\ c = "isrc" => meant.track = request.number)
  BY <1>1, Zenon DEF SubchannelSays
<1> HIDE DEF panics
<1>4. CASE ~read
  <2>1. r.status = "InvalidResponse"
    BY <1>4
  <2> QED
    BY <1>1, <1>2, <1>4, <2>1, Zenon
<1>5. CASE read /\ panics
  <2>1. r = [status |-> "Panic"]
    BY <1>5, Zenon DEF panics
  <2>2. r.status = "Panic"
    BY <2>1
  <2> QED
    BY <1>1, <1>2, <1>5, <2>2, Zenon
<1>6. CASE read /\ ~panics
  <2>1. r = [status |-> "Ok", value |-> SubchannelMeaning(c, meant)]
    BY <1>6, Zenon DEF panics
  <2>2. r.status = "Ok" /\ r.value = SubchannelMeaning(c, meant)
    BY <2>1
  <2> QED
    BY <1>1, <1>2, <1>3, <1>6, <2>2, Zenon
<1> QED
  BY <1>4, <1>5, <1>6

\* audio_status.
LEMMA AudioRight ==
  ASSUME SubchannelAnswered, AudioStatus
  PROVE  (result.status = "Ok" => SubchannelSays)' /\ SubchannelUnderstood'
<1> DEFINE known == SubHeader /\ StatusKnown
<1>1. /\ call = "audio_status" /\ call' = call /\ meant' = meant
      /\ result' = IF ~known THEN [status |-> "InvalidResponse"]
                   ELSE IF data[1] = NotSupportedOrValid THEN [status |-> "NotSupported"]
                   ELSE [status |-> "Ok", value |-> data[1]]
  BY Zenon DEF AudioStatus, Return
<1>2. known <=> meant.len <= 20 /\ meant.audio \in {NotSupportedOrValid} \union AudioStatuses
  BY SubchannelData DEF SubHeader, StatusKnown
<1>3. data[1] = meant.audio /\ FullLength(Parameter("audio_status")) <= 20
  BY SubchannelData DEF Parameter, FullLength, Position
<1> HIDE DEF known
<1>4. CASE ~known
  <2>1. result'.status = "InvalidResponse"
    BY <1>1, <1>4
  <2> QED
    BY <1>1, <1>2, <1>3, <1>4, <2>1, SubchannelFields DEF SubchannelUnderstood
<1>5. CASE known /\ meant.audio = 0
  <2>1. result'.status = "NotSupported"
    BY <1>1, <1>3, <1>5 DEF NotSupportedOrValid
  <2> QED
    BY <1>1, <1>5, <2>1 DEF SubchannelUnderstood
<1>6. CASE known /\ meant.audio # 0
  <2>1. result'.status = "Ok" /\ result'.value = meant.audio
    BY <1>1, <1>3, <1>6 DEF NotSupportedOrValid
  <2> QED
    BY <1>1, <1>6, <2>1 DEF SubchannelUnderstood, SubchannelSays, SubchannelMeaning
<1> QED
  BY <1>4, <1>5, <1>6

\* A number that is valid and text, or none.
LEMMA NumberRight ==
  ASSUME NEW c \in {"media_catalog_number", "isrc"}, NEW valid, NEW text, valid <=> meant.valid, text = meant.text
  PROVE  NumberResult(valid, text) =
           IF meant.valid /\ \E k \in DOMAIN meant.text : meant.text[k] >= 128
           THEN [status |-> "Panic"] ELSE [status |-> "Ok", value |-> SubchannelMeaning(c, meant)]
<1>1. SubchannelMeaning(c, meant) = IF meant.valid THEN meant.text ELSE <<>>
  BY DEF SubchannelMeaning
<1> QED
  BY <1>1, Zenon DEF NumberResult

\* media_catalog_number and isrc.
LEMMA NumbersRight ==
  ASSUME SubchannelAnswered, MediaCatalogNumber \/ IsrcOfTrack
  PROVE  (result.status = "Ok" => SubchannelSays)' /\ SubchannelUnderstood'
<1> DEFINE valid == Bits(data[8], 7, 1) = 1
<1>0. SubHeader /\ StatusKnown <=> meant.len <= 20 /\ meant.audio \in {NotSupportedOrValid} \union AudioStatuses
  BY SubchannelData DEF SubHeader, StatusKnown
<1>1. CASE MediaCatalogNumber
  <2> DEFINE read == Descriptor(20, Mcn) /\ data[22] = 0
             value == NumberResult(valid, Text(9, 13))
             r == IF read THEN value ELSE [status |-> "InvalidResponse"]
  <2>1. Return("media_catalog_number", r)
    BY <1>1, Zenon DEF MediaCatalogNumber
  <2>2. call = "media_catalog_number" /\ Parameter(call) = Mcn
    BY <2>1 DEF Return, Parameter
  <2>3. meant.text \in CodeTexts(13) /\ meant.format = Mcn
    BY <2>2, SubchannelFields
  <2>4. (valid <=> meant.valid) /\ Text(9, 13) = meant.text /\ data[22] = meant.zero
    BY <2>3, CodeData DEF Mcn, Position
  <2>5. read <=> /\ meant.len <= 20 /\ meant.audio \in {NotSupportedOrValid} \union AudioStatuses
                 /\ meant.len >= 20 /\ meant.format = Mcn /\ meant.zero = 0
    BY <1>0, <2>4, SubchannelData DEF Descriptor
  <2>6. value = IF meant.valid /\ \E k \in DOMAIN meant.text : meant.text[k] >= 128
                THEN [status |-> "Panic"]
                ELSE [status |-> "Ok", value |-> SubchannelMeaning("media_catalog_number", meant)]
    BY <2>4, NumberRight, Zenon
  <2>7. FullLength(Mcn) = 20 /\ Parameter("media_catalog_number") = Mcn
    BY DEF FullLength, Mcn, Position, Parameter
  <2>8. meant.len = FullLength(Mcn) => meant.len <= 20 /\ meant.len >= 20
    BY <2>7
  <2> HIDE DEF read, value
  <2> DEFINE c == "media_catalog_number"
  <2>9. c # "isrc" /\ c # "audio_status" /\ Parameter(c) = Mcn
    BY <2>7
  <2>10. Return(c, r) /\ value = IF meant.valid /\ \E k \in DOMAIN meant.text : meant.text[k] >= 128
                                THEN [status |-> "Panic"]
                                ELSE [status |-> "Ok", value |-> SubchannelMeaning(c, meant)]
    BY <2>1, <2>6, Zenon
  <2> HIDE DEF c
  <2> QED
    BY <2>3, <2>5, <2>8, <2>9, <2>10, SubchannelRight, Zenon
<1>2. CASE IsrcOfTrack
  <2> DEFINE read == Descriptor(19, Isrc) /\ data[6] = request.number /\ data[21] = 0
             value == NumberResult(valid, Text(9, 12))
             r == IF read THEN value ELSE [status |-> "InvalidResponse"]
  <2>1. Return("isrc", r)
    BY <1>2, Zenon DEF IsrcOfTrack
  <2>2. call = "isrc" /\ Parameter(call) = Isrc
    BY <2>1 DEF Return, Parameter
  <2>3. meant.text \in CodeTexts(12)
    BY <2>2, SubchannelFields
  <2>4. meant.format # Position
    BY <2>2, SubchannelFields DEF Mcn, Isrc, Position
  <2>5. (valid <=> meant.valid) /\ Text(9, 12) = meant.text /\ data[21] = meant.zero
    BY <2>3, <2>4, CodeData
  <2>6. read <=> /\ meant.len <= 20 /\ meant.audio \in {NotSupportedOrValid} \union AudioStatuses
                 /\ meant.len >= 19 /\ meant.format = Isrc /\ data[6] = request.number /\ meant.zero = 0
    BY <1>0, <2>5, SubchannelData DEF Descriptor
  <2>7. meant.format = Isrc => data[6] = meant.track
    BY SubchannelData DEF Isrc, Mcn
  <2>8. value = IF meant.valid /\ \E k \in DOMAIN meant.text : meant.text[k] >= 128
                THEN [status |-> "Panic"]
                ELSE [status |-> "Ok", value |-> SubchannelMeaning("isrc", meant)]
    BY <2>5, NumberRight, Zenon
  <2>9. Parameter("isrc") = Isrc /\ (meant.len = FullLength(Isrc) => meant.len <= 20 /\ meant.len >= 19)
    BY DEF FullLength, Isrc, Position, Parameter
  <2> HIDE DEF read, value
  <2> QED
    BY <2>1, <2>6, <2>7, <2>8, <2>9, SubchannelRight, Zenon
<1> QED
  BY <1>1, <1>2

\* cd_current_position.
LEMMA PositionRight ==
  ASSUME SubchannelAnswered, CdCurrentPosition
  PROVE  (result.status = "Ok" => SubchannelSays)' /\ SubchannelUnderstood'
<1> DEFINE read == Descriptor(12, Position)
           value == [status |-> "Ok", value |-> [track |-> data[6], index |-> data[7],
                       absolute_position |-> TimePosition(8), relative_position |-> TimePosition(12)]]
           r == IF read THEN value ELSE [status |-> "InvalidResponse"]
<1>1. Return("cd_current_position", r)
  BY Zenon DEF CdCurrentPosition
<1>2. call = "cd_current_position" /\ Parameter(call) = Position /\ Time(call)
  BY <1>1 DEF Return, Parameter, Time
<1>3. meant.text = <<>> /\ meant.time = TRUE
  BY <1>2, SubchannelFields DEF Time
<1>4. read <=> /\ meant.len <= 20 /\ meant.audio \in {NotSupportedOrValid} \union AudioStatuses
               /\ meant.len >= 12 /\ meant.format = Position
  BY SubchannelData DEF SubHeader, StatusKnown, Descriptor
<1>5. meant.format = Position => value = [status |-> "Ok", value |-> SubchannelMeaning("cd_current_position", meant)]
  <2> SUFFICES ASSUME meant.format = Position
               PROVE  value.value = SubchannelMeaning("cd_current_position", meant)
    OBVIOUS
  <2>1. At(meant.time) = <<0, 5, 6, 7, 0, 1, 2, 33>>
    BY <1>3 DEF At
  <2>2. \A k \in 1..8 : data[7 + k] = <<0, 5, 6, 7, 0, 1, 2, 33>>[k]
    BY <2>1, PositionData
  <2>3. data[8] = 0 /\ data[9] = 5 /\ data[10] = 6 /\ data[11] = 7
    BY <2>2
  <2>4. data[12] = 0 /\ data[13] = 1 /\ data[14] = 2 /\ data[15] = 33
    BY <2>2
  <2>5. data[6] = meant.track /\ data[7] = 1
    BY SubchannelData, PositionData DEF Position, Mcn
  <2> QED
    BY <2>3, <2>4, <2>5 DEF TimePosition, SubchannelMeaning
<1>6. ~\E k \in DOMAIN meant.text : meant.text[k] >= 128
  BY <1>3
<1>7. /\ Parameter("cd_current_position") = Position
      /\ meant.len = FullLength(Position) => meant.len <= 20 /\ meant.len >= 12
  BY DEF FullLength, Position, Parameter
<1> HIDE DEF read, value
<1> DEFINE c == "cd_current_position"
<1>8. c # "isrc" /\ c # "audio_status" /\ Parameter(c) = Position
  BY <1>7
<1>9. Return(c, r) /\ (read => value = IF meant.valid /\ \E k \in DOMAIN meant.text : meant.text[k] >= 128
                                      THEN [status |-> "Panic"]
                                      ELSE [status |-> "Ok", value |-> SubchannelMeaning(c, meant)])
  BY <1>1, <1>4, <1>5, <1>6, Zenon
<1> HIDE DEF c
<1> QED
  BY <1>4, <1>7, <1>8, <1>9, SubchannelRight, Zenon

-----------------------------------------------------------------------------
(***************************************************************************)
(* The answers to INQUIRY.                                                 *)
(***************************************************************************)
\* str::trim keeps what is between the first and the last character that is
\* not a space.
LEMMA FirstAndLast ==
  ASSUME NEW text \in Seq(Int), NEW first \in 1..Len(text), NEW last \in 1..Len(text),
         text[first] # Space, text[last] # Space,
         \A k \in 1..Len(text) : text[k] # Space => first <= k /\ k <= last
  PROVE  Trim(text) = SubSeq(text, first, last)
<1> DEFINE I == {i \in 1..Len(text) : text[i] # Space}
           begin == IF I # {} THEN Min(I) ELSE 0
           end   == IF I # {} THEN Max(I) ELSE 0
<1>1. begin = first
  BY DEF Min
<1>2. end = last
  BY DEF Max
<1>3. ~Blank(text)
  BY DEF Blank
<1>4. Trim(text) = IF Blank(text) THEN <<>> ELSE SubSeq(text, begin, end)
  BY Zenon DEF Trim, SelectInSeq, SelectLastInSeq
<1> QED
  BY <1>1, <1>2, <1>3, <1>4, Zenon

\* A name that neither begins nor ends with a space, padded.
LEMMA PaddedName ==
  ASSUME NEW n \in Nat, NEW name \in Seq(Int), Len(name) <= n,
         name # <<>> => name[1] # Space /\ name[Len(name)] # Space
  PROVE  Trim([k \in 1..n |-> Padded(name, k)]) = name
<1> DEFINE text == [k \in 1..n |-> Padded(name, k)]
<1>1. /\ text \in Seq(Int) /\ Len(text) = n
      /\ \A k \in 1..n : text[k] = IF k <= Len(name) THEN name[k] ELSE Space
  <2>1. \A k \in 1..n : Padded(name, k) = (IF k <= Len(name) THEN name[k] ELSE Space) /\ Padded(name, k) \in Int
    BY DEF Padded, Space
  <2> QED
    BY <2>1
<1> HIDE DEF text
<1>2. CASE name = <<>>
  <2>1. Blank(text)
    BY <1>1, <1>2 DEF Blank
  <2>2. Trim(text) = <<>>
    BY <2>1, Zenon DEF Trim
  <2> QED
    BY <1>2, <2>2 DEF text
<1>3. CASE name # <<>>
  <2>1. Len(name) \in 1..n
    BY <1>3
  <2>2. Trim(text) = SubSeq(text, 1, Len(name))
    <3>1. text[1] # Space /\ text[Len(name)] # Space /\ 1 \in 1..n
      BY <1>1, <1>3, <2>1
    <3>2. \A k \in 1..n : text[k] # Space => 1 <= k /\ k <= Len(name)
      BY <1>1
    <3> QED
      BY <1>1, <2>1, <3>1, <3>2, FirstAndLast
  <2>3. SubSeq(text, 1, Len(name)) = name
    BY <1>1, <2>1
  <2> QED
    BY <2>2, <2>3 DEF text
<1> QED
  BY <1>2, <1>3

\* A name that a device has does not begin or end with a space.
LEMMA NameIs ==
  ASSUME NEW n \in {4, 8, 16}, NEW name \in Names(n)
  PROVE  /\ name \in Seq(Int) /\ Len(name) <= n
         /\ name # <<>> => name[1] # Space /\ name[Len(name)] # Space
<1>1. CASE name = <<>>
  BY <1>1
<1>2. CASE name = <<65, 32, 66>>
  BY <1>2 DEF Space
<1>3. CASE name = [k \in 1..n |-> 65 + k]
  BY <1>3 DEF Space
<1> QED
  BY <1>1, <1>2, <1>3 DEF Names

\* The call asked a device, which means what the bytes say.
InquiryAnswered ==
  /\ call \in InquiryCalls
  /\ meant \in InquiryAnswers
  /\ data = InquiryBytes(meant)

\* The bytes, read back.
LEMMA InquiryFields ==
  ASSUME InquiryAnswered
  PROVE  /\ IsMmcDevice <=> meant.type = 5
         /\ Bits(data[3], 0, 4) = meant.format
         /\ FieldText(8, 15) = meant.vendor
         /\ FieldText(16, 31) = meant.product
         /\ FieldText(32, 35) = meant.revision
<1> DEFINE type == meant.type
           qualifier == meant.qualifier
           format == meant.format
           upper == meant.upper
<1>1. /\ type \in {0, 5, 31} /\ qualifier \in {0, 1, 3} /\ format \in {0, 1, 2, 3} /\ upper \in {0, 1}
      /\ meant.vendor \in Names(8) /\ meant.product \in Names(16) /\ meant.revision \in Names(4)
  BY DEF InquiryAnswered, InquiryAnswers
<1>2. data[0] = type + 32 * qualifier /\ data[3] = format + 16 * upper
  BY DEF InquiryAnswered, InquiryBytes
<1>3. /\ \A k \in 1..8 : data[8 + k - 1] = Padded(meant.vendor, k)
      /\ \A k \in 1..16 : data[16 + k - 1] = Padded(meant.product, k)
      /\ \A k \in 1..4 : data[32 + k - 1] = Padded(meant.revision, k)
  <2>1. /\ \A k \in 8..15 : data[k] = Padded(meant.vendor, k - 7)
        /\ \A k \in 16..31 : data[k] = Padded(meant.product, k - 15)
        /\ \A k \in 32..35 : data[k] = Padded(meant.revision, k - 31)
    BY DEF InquiryAnswered, InquiryBytes
  <2> QED
    BY <2>1
<1> HIDE DEF type, qualifier, format, upper
<1>4. /\ IsMmcDevice <=> type = 5
      /\ Bits(data[3], 0, 4) = format
  BY <1>1, <1>2, Powers DEF IsMmcDevice, Bits
<1>5. /\ FieldText(8, 15) = Trim([k \in 1..8 |-> Padded(meant.vendor, k)])
      /\ FieldText(16, 31) = Trim([k \in 1..16 |-> Padded(meant.product, k)])
      /\ FieldText(32, 35) = Trim([k \in 1..4 |-> Padded(meant.revision, k)])
  <2>1. 15 - 8 + 1 = 8 /\ 31 - 16 + 1 = 16 /\ 35 - 32 + 1 = 4
    OBVIOUS
  <2> QED
    BY <1>3, <2>1, Zenon DEF FieldText
<1>6. FieldText(8, 15) = meant.vendor /\ FieldText(16, 31) = meant.product /\ FieldText(32, 35) = meant.revision
  BY <1>1, <1>5, NameIs, PaddedName
<1> QED
  BY <1>4, <1>6 DEF type, format

\* hardware_identifiers, and is_mmc_device.
LEMMA InquiryRight ==
  ASSUME InquiryAnswered, HardwareIdentifiers \/ \E c \in {"new", "with_device"} : MmcOpened(c)
  PROVE  (result.status = "Ok" => InquirySays)' /\ InquiryUnderstood'
<1>1. CASE HardwareIdentifiers
  <2> DEFINE names == [vendor |-> meant.vendor, product |-> meant.product, revision |-> meant.revision]
  <2>1. /\ call = "hardware_identifiers" /\ call' = call /\ meant' = meant
        /\ result' = IF meant.format # 2 THEN [status |-> "InvalidResponse"]
                     ELSE [status |-> "Ok", value |-> names]
    BY <1>1, InquiryFields, Zenon DEF HardwareIdentifiers, Return
  <2>2. CASE meant.format # 2
    <3>1. result'.status = "InvalidResponse"
      BY <2>1, <2>2
    <3> QED
      BY <2>1, <2>2, <3>1 DEF InquiryUnderstood
  <2>3. CASE meant.format = 2
    <3>1. result'.status = "Ok" /\ result'.value = names
      BY <2>1, <2>3
    <3> QED
      BY <2>1, <3>1 DEF InquiryUnderstood, InquirySays
  <2> QED
    BY <2>2, <2>3
<1>2. ASSUME NEW c \in {"new", "with_device"}, MmcOpened(c)
      PROVE  (result.status = "Ok" => InquirySays)' /\ InquiryUnderstood'
  <2>1. /\ call = c /\ call' = call /\ meant' = meant
        /\ result' = IF meant.type = 5 THEN [status |-> "Ok", value |-> "Mmc"] ELSE [status |-> MmcRefused(c)]
    BY <1>2, InquiryFields, Zenon DEF MmcOpened, Return
  <2>2. MmcRefused(c) # "Ok" /\ c # "hardware_identifiers"
    BY DEF MmcRefused
  <2>3. result'.status = "Ok" <=> meant.type = 5
    BY <2>1, <2>2
  <2> QED
    BY <2>1, <2>2, <2>3 DEF InquiryUnderstood, InquirySays
<1> QED
  BY <1>1, <1>2

-----------------------------------------------------------------------------
(***************************************************************************)
(* Times of files.                                                         *)
(***************************************************************************)
\* What is to show of a method that reads a structure of libcdio.
IsoFine(c, a) == LET r == IsoResult(c, IsoStructure(c, a))
                 IN  (r.status = "Ok" => IsoSays(c, a, r.value)) /\ IsoUnderstood(c, a, r.status)

\* The offset of a zone is at most half a day.
LEMMA Offsets ==
  ASSUME NEW zone \in Zones, NEW instant \in Int
  PROVE  OffsetAt(zone, instant) \in -12..12
BY ZonesAssumption DEF OffsetAt

\* The local hours of a year, from the second day to the last but one.
InYear   == 12..8712
Instants == 24..8700

\* The instants of the model are inside the year.
LEMMA InstantsOfFiles == Hours \subseteq Instants /\ 24 \in Instants /\ 48 \in Instants /\ 72 \in Instants
BY HoursAssumption, SMT DEF Instants

\* A local hour is a day of the year and an hour.
LEMMA DayAndHour ==
  ASSUME NEW n \in InYear
  PROVE  n \in Int /\ n \div 24 \in 0..363 /\ n % 24 \in 0..23 /\ 24 * (n \div 24) + (n % 24) = n
BY DEF InYear

\* Every local time of such an instant is in the same year.
LEMMA LocalHour ==
  ASSUME NEW zone \in Zones, NEW instant \in Instants
  PROVE  instant \in Int /\ instant + OffsetAt(zone, instant) \in InYear
<1>1. instant \in 24..8700
  BY DEF Instants
<1>2. PICK offset \in -12..12 : offset = OffsetAt(zone, instant)
  BY <1>1, Offsets, SMT
<1>3. instant + offset \in 12..8712
  BY <1>1, SMT
<1> QED
  BY <1>1, <1>2, <1>3, SMT DEF InYear

\* A day and an hour of 2026 are valid.
LEMMA Converted ==
  ASSUME NEW zone, NEW yday \in 0..363, NEW hour \in 0..23, NEW local, 24 * yday + hour = local
  PROVE  ConvertTmLocal([year |-> 126, yday |-> yday, hour |-> hour, min |-> 59, sec |-> 0], zone) =
           [status |-> "Ok", value |-> [local |-> local, offset |-> OffsetAt(zone, local), min |-> 59]]
<1> DEFINE tm == [year |-> 126, yday |-> yday, hour |-> hour, min |-> 59, sec |-> 0]
<1>1. tm.year = 126 /\ tm.yday = yday /\ tm.hour = hour /\ tm.min = 59 /\ tm.sec = 0
  OBVIOUS
<1> HIDE DEF tm
<1>2. ~LeapYear(126 + 1900) /\ 126 + 1900 \in -9999..9999
  BY SMT DEF LeapYear
<1>3. ValidDate(tm)
  BY <1>1, <1>2, SMT DEF ValidDate
<1>4. ValidTime(tm)
  BY <1>1, SMT DEF ValidTime
<1> DEFINE hours == 24 * tm.yday + tm.hour
<1>5. ConvertTmLocal(tm, zone) =
        [status |-> "Ok", value |-> [local |-> hours, offset |-> OffsetAt(zone, hours), min |-> tm.min]]
  BY <1>3, <1>4, SMT DEF ConvertTmLocal
<1>6. hours = local
  BY <1>1
<1> HIDE DEF hours
<1> QED
  BY <1>1, <1>5, <1>6 DEF tm

\* The offset is looked up an offset too late or too early, which matters only
\* around a change.
LEMMA TimeRight ==
  ASSUME NEW zone \in Zones, NEW instant \in Int, NEW local \in Int, NEW value,
         value.local = local, value.offset = OffsetAt(zone, local), instant + OffsetAt(zone, instant) = local
  PROVE  TimeSays(value, instant, zone)
<1>1. zone.before \in Int /\ zone.after \in Int /\ zone.change \in Int
  BY ZonesAssumption
<1>2. CASE OffsetAt(zone, local) = OffsetAt(zone, instant)
  <2>1. OffsetAt(zone, instant) \in Int
    BY Offsets
  <2>2. value.local - value.offset = instant
    BY <1>2, <2>1
  <2> QED
    BY <2>2 DEF TimeSays
<1>3. CASE OffsetAt(zone, local) # OffsetAt(zone, instant)
  <2>1. (instant < zone.change) # (local < zone.change)
    BY <1>3 DEF OffsetAt
  <2> QED
    BY <2>1 DEF TimeSays
<1> QED
  BY <1>2, <1>3

\* The time of a file that is not odd is converted.
LEMMA LocalTime ==
  ASSUME NEW zone \in Zones, NEW instant \in Instants
  PROVE  \E value : /\ ConvertTmLocal(Tm(zone, instant), zone) = [status |-> "Ok", value |-> value]
                    /\ TimeSays(value, instant, zone)
<1> DEFINE local == instant + OffsetAt(zone, instant)
           value == [local |-> local, offset |-> OffsetAt(zone, local), min |-> 59]
<1>1. local \in Int /\ local \div 24 \in 0..363 /\ local % 24 \in 0..23 /\ 24 * (local \div 24) + (local % 24) = local
  BY LocalHour, DayAndHour, Zenon
<1>2. Tm(zone, instant) = [year |-> 126, yday |-> local \div 24, hour |-> local % 24, min |-> 59, sec |-> 0]
  BY Zenon DEF Tm
<1>3. instant + OffsetAt(zone, instant) = local /\ instant \in Int
  BY LocalHour, Zenon
<1> HIDE DEF local
<1>4. ConvertTmLocal(Tm(zone, instant), zone) = [status |-> "Ok", value |-> value]
  <2> DEFINE yday == local \div 24
             hour == local % 24
  <2>1. /\ yday \in 0..363 /\ hour \in 0..23 /\ 24 * yday + hour = local
        /\ Tm(zone, instant) = [year |-> 126, yday |-> yday, hour |-> hour, min |-> 59, sec |-> 0]
    BY <1>1, <1>2
  <2> HIDE DEF yday, hour
  <2>2. ConvertTmLocal([year |-> 126, yday |-> yday, hour |-> hour, min |-> 59, sec |-> 0], zone) =
          [status |-> "Ok", value |-> value]
    BY <2>1, Converted, Zenon
  <2> QED
    BY <2>1, <2>2, Zenon
<1>5. value.local = local /\ value.offset = OffsetAt(zone, local)
  OBVIOUS
<1> HIDE DEF value
<1>6. TimeSays(value, instant, zone)
  BY <1>1, <1>3, <1>5, TimeRight
<1> QED
  BY <1>4, <1>6, Zenon

\* An odd time is refused.
LEMMA OddTime ==
  ASSUME NEW zone, NEW tm, tm.sec = 60 \/ tm.yday = -1
  PROVE  ConvertTmLocal(tm, zone) = [status |-> "InvalidEntry"]
<1>1. tm.sec = 60 => ~ValidTime(tm)
  BY DEF ValidTime
<1>2. tm.yday = -1 => ~ValidDate(tm)
  BY DEF ValidDate
<1> QED
  BY <1>1, <1>2, Zenon DEF ConvertTmLocal

\* timestamp.
LEMMA TimestampFine ==
  ASSUME NEW a \in IsoImages("timestamp")
  PROVE  IsoFine("timestamp", a)
<1> DEFINE tm     == Tm(a.zone, a.instant)
           result_ == ConvertTmLocal(OddTm(tm, a.odd), a.zone)
           d == [tm |-> OddTm(tm, a.odd), zone |-> a.zone]
<1>1. a.instant \in Hours /\ a.zone \in Zones /\ a.odd \in {"none", "sec", "yday"}
  BY DEF IsoImages
<1>2. IsoResult("timestamp", IsoStructure("timestamp", a)) = result_
  <2>1. IsoStructure("timestamp", a) = d
    BY DEF IsoStructure
  <2>2. IsoResult("timestamp", d) = ConvertTmLocal(d.tm, d.zone)
    BY DEF IsoResult
  <2>3. d.tm = OddTm(tm, a.odd) /\ d.zone = a.zone
    BY Zenon
  <2> QED
    BY <2>1, <2>2, <2>3, Zenon
<1>3. CASE a.odd = "none"
  <2>1. OddTm(tm, a.odd) = tm
    BY <1>3 DEF OddTm
  <2>2. PICK value : /\ ConvertTmLocal(tm, a.zone) = [status |-> "Ok", value |-> value]
                     /\ TimeSays(value, a.instant, a.zone)
    BY <1>1, InstantsOfFiles, LocalTime, Zenon
  <2>3. result_ = [status |-> "Ok", value |-> value]
    BY <2>1, <2>2, Zenon
  <2> HIDE DEF result_
  <2>4. result_.status = "Ok" /\ result_.value = value
    BY <2>3
  <2> QED
    BY <1>2, <1>3, <2>2, <2>4 DEF IsoFine, IsoSays, IsoUnderstood
<1>4. CASE a.odd # "none"
  <2>1. OddTm(tm, a.odd).sec = 60 \/ OddTm(tm, a.odd).yday = -1
    BY <1>1, <1>4 DEF OddTm, Tm
  <2>2. result_ = [status |-> "InvalidEntry"]
    BY <2>1, OddTime
  <2> HIDE DEF result_
  <2> QED
    BY <1>2, <1>4, <2>2 DEF IsoFine, IsoUnderstood
<1> QED
  BY <1>3, <1>4

\* The time that is read of a field, of the form that the field has.
LEMMA RockTimeFine ==
  ASSUME NEW zone \in Zones, NEW instants \in SUBSET Instants, NEW field \in RockFields(instants)
  PROVE  RockTimeSays(RockTime(Rock(field), zone), field, zone)
<1> DEFINE time == RockTime(Rock(field), zone)
<1>1. /\ Rock(field).b_used = field.b_used /\ Rock(field).b_longdate = field.b_longdate
      /\ Rock(field).long = field.b_longdate /\ Rock(field).instant = field.instant
      /\ Rock(field).odd = field.odd
  BY DEF Rock
<1> DEFINE tm == OddTm(Tm(zone, field.instant), field.odd)
           converted == ConvertTmLocal(tm, zone)
<1>4. time = IF field.b_used /\ converted.status = "Ok" THEN converted ELSE [status |-> "none"]
  BY <1>1, Zenon DEF RockTime
<1>2. CASE field.b_used /\ field.odd = "none"
  <2>1. field.instant \in Instants
    BY <1>2, InstantsOfFiles DEF RockFields
  <2>2. converted = ConvertTmLocal(Tm(zone, field.instant), zone)
    BY <1>2 DEF OddTm
  <2>3. PICK value : /\ ConvertTmLocal(Tm(zone, field.instant), zone) = [status |-> "Ok", value |-> value]
                     /\ TimeSays(value, field.instant, zone)
    BY <2>1, LocalTime, Zenon
  <2> HIDE DEF time, converted
  <2>4. converted.status = "Ok" /\ converted.value = value
    BY <2>2, <2>3
  <2>5. time.status = "Ok" /\ time.value = value
    BY <1>2, <1>4, <2>4
  <2> QED
    BY <1>2, <2>3, <2>5 DEF RockTimeSays, time
<1>3. CASE ~(field.b_used /\ field.odd = "none")
  <2>1. field.b_used => converted.status # "Ok"
    <3> SUFFICES ASSUME field.b_used PROVE converted.status # "Ok"
      OBVIOUS
    <3>1. field.odd = "sec"
      BY <1>3 DEF RockFields
    <3>2. tm.sec = 60
      BY <3>1 DEF OddTm, Tm
    <3> HIDE DEF tm
    <3>3. converted = [status |-> "InvalidEntry"]
      BY <3>2, OddTime
    <3> QED
      BY <3>3
  <2>2. time.status = "none"
    <3> HIDE DEF converted
    <3>1. time = [status |-> "none"]
      BY <1>4, <2>1
    <3> HIDE DEF time
    <3> QED
      BY <3>1
  <2> HIDE DEF time
  <2> QED
    BY <1>3, <2>2 DEF RockTimeSays, time
<1> QED
  BY <1>2, <1>3

-----------------------------------------------------------------------------
(***************************************************************************)
(* The other structures of an image.                                       *)
(***************************************************************************)
\* rock_ridge: each field from its own, and the times.
LEMMA RockRidgeFine ==
  ASSUME NEW a \in IsoImages("rock_ridge")
  PROVE  IsoFine("rock_ridge", a)
<1> DEFINE rr == [b3_rock |-> a.has, create |-> Rock(a.create), modify |-> Rock(a.modify),
                  st_gid |-> 1, st_uid |-> 2, st_nlinks |-> 3, st_mode |-> 4, psz_symlink |-> a.symlink]
           d  == [rr |-> rr, zone |-> a.zone]
           value == [create_time |-> RockTime(Rock(a.create), a.zone), modify_time |-> RockTime(Rock(a.modify), a.zone),
                     group_id |-> 1, user_id |-> 2, hard_links |-> 3, mode |-> 4,
                     symlink_to |-> IF a.symlink = "path" THEN "path" ELSE "none"]
           r == IsoResult("rock_ridge", IsoStructure("rock_ridge", a))
<1>1. /\ a.has \in {"yep", "nope", "dunno"} /\ a.create \in RockFields({48}) /\ a.modify \in RockFields({24, 72})
      /\ a.symlink \in Symlinks /\ a.zone \in Zones
  BY DEF IsoImages
<1>2. r = RockRidge(d.rr, d.zone)
  <2>1. IsoStructure("rock_ridge", a) = d
    BY DEF IsoStructure
  <2> HIDE DEF d
  <2>2. IsoResult("rock_ridge", d) = RockRidge(d.rr, d.zone)
    BY DEF IsoResult
  <2> QED
    BY <2>1, <2>2, Zenon
<1>3. d.rr = rr /\ d.zone = a.zone
  OBVIOUS
<1>4. /\ rr.b3_rock = a.has /\ rr.create = Rock(a.create) /\ rr.modify = Rock(a.modify) /\ rr.st_gid = 1
      /\ rr.st_uid = 2 /\ rr.st_nlinks = 3 /\ rr.st_mode = 4 /\ rr.psz_symlink = a.symlink
  OBVIOUS
<1> HIDE DEF d, rr, r
<1>5. r = IF a.has # "yep" THEN [status |-> "none"] ELSE [status |-> "Ok", value |-> value]
  BY <1>2, <1>3, <1>4, SMT DEF RockRidge
<1>6. CASE a.has # "yep"
  <2>1. r.status = "none"
    BY <1>5, <1>6
  <2> QED
    BY <1>6, <2>1 DEF IsoFine, IsoUnderstood, r
<1>7. CASE a.has = "yep"
  <2>1. /\ value.create_time = RockTime(Rock(a.create), a.zone) /\ value.modify_time = RockTime(Rock(a.modify), a.zone)
        /\ value.group_id = 1 /\ value.user_id = 2 /\ value.hard_links = 3 /\ value.mode = 4
        /\ value.symlink_to = IF a.symlink = "path" THEN "path" ELSE "none"
    OBVIOUS
  <2> HIDE DEF value
  <2>2. r.status = "Ok" /\ r.value = value
    BY <1>5, <1>7
  <2>3. {48} \in SUBSET Instants /\ {24, 72} \in SUBSET Instants
    BY InstantsOfFiles
  <2>4. RockTimeSays(value.create_time, a.create, a.zone)
    BY <1>1, <2>1, <2>3, RockTimeFine
  <2>5. RockTimeSays(value.modify_time, a.modify, a.zone)
    BY <1>1, <2>1, <2>3, RockTimeFine
  <2>6. <<value.group_id, value.user_id, value.hard_links, value.mode>> = <<1, 2, 3, 4>>
    BY <2>1
  <2>7. (value.symlink_to = "path") = (a.symlink = "path")
    BY <2>1
  <2>8. IsoSays("rock_ridge", a, value)
    BY <1>7, <2>4, <2>5, <2>6, <2>7 DEF IsoSays
  <2> QED
    BY <1>7, <2>2, <2>8 DEF IsoFine, IsoUnderstood, r
<1> QED
  BY <1>6, <1>7

\* have_rock_ridge: a scan without a limit, or with one that is not met, has
\* an answer.
LEMMA HaveRockRidgeFine ==
  ASSUME NEW a \in IsoImages("have_rock_ridge")
  PROVE  IsoFine("have_rock_ridge", a)
<1> DEFINE files == a.files
           limit == IF a.limit = NoLimit THEN 1000 ELSE a.limit
           answer == ScanForRockRidge(files, limit)
           some == \E k \in DOMAIN files : files[k]
           r == IsoResult("have_rock_ridge", IsoStructure("have_rock_ridge", a))
<1>1. a.limit \in 0..2
  BY DEF IsoImages, Limits, NoLimit
<1>2. PICK n \in 0..3 : files \in [1..n -> BOOLEAN]
  BY DEF IsoImages
<1>3. Len(files) = n /\ DOMAIN files = 1..n
  BY <1>2
<1>4. r = IF answer = "dunno" THEN [status |-> "SearchError"] ELSE [status |-> "Ok", value |-> answer = "yep"]
  <2>1. IsoStructure("have_rock_ridge", a) = a
    BY DEF IsoStructure
  <2>2. IsoResult("have_rock_ridge", a) = HaveRockRidge(a.files, a.limit)
    BY DEF IsoResult
  <2> QED
    BY <2>1, <2>2, Zenon DEF HaveRockRidge
<1>5. answer = IF \E k \in 1..n : k <= limit /\ files[k] THEN "yep" ELSE IF n <= limit THEN "nope" ELSE "dunno"
  BY <1>3, Zenon DEF ScanForRockRidge
<1>6. some = \E k \in 1..n : files[k]
  BY <1>3, Zenon
<1>7. (a.limit = NoLimit \/ a.limit >= n) => n <= limit
  BY <1>1, <1>2 DEF NoLimit
<1>8. n <= limit => \A k \in 1..n : k <= limit
  BY <1>1, <1>2 DEF NoLimit
<1> HIDE DEF limit, answer, r, some
<1>9. /\ answer # "dunno" => (answer = "yep") = some
      /\ n <= limit => answer # "dunno"
  <2>1. CASE \E k \in 1..n : k <= limit /\ files[k]
    <3>1. answer = "yep" /\ some
      BY <1>5, <1>6, <2>1, Zenon
    <3>2. answer # "dunno" /\ answer = "yep"
      BY <3>1
    <3> QED
      BY <3>1, <3>2, Zenon
  <2>2. CASE ~(\E k \in 1..n : k <= limit /\ files[k]) /\ n <= limit
    <3>1. answer = "nope" /\ ~some
      BY <1>5, <1>6, <1>8, <2>2, Zenon
    <3>2. answer # "dunno" /\ answer # "yep" /\ ~some
      BY <3>1
    <3> QED
      BY <3>2, Zenon DEF some
  <2>3. CASE ~(\E k \in 1..n : k <= limit /\ files[k]) /\ ~(n <= limit)
    <3>1. answer = "dunno"
      BY <1>5, <2>3, Zenon
    <3> QED
      BY <2>3, <3>1, Zenon
  <2> QED
    BY <2>1, <2>2, <2>3, Zenon
<1>10. CASE answer = "dunno"
  <2>1. r.status = "SearchError"
    BY <1>4, <1>10
  <2>2. ~(a.limit = NoLimit \/ a.limit >= Len(a.files))
    BY <1>3, <1>7, <1>9, <1>10
  <2> QED
    BY <2>1, <2>2 DEF IsoFine, IsoUnderstood, r
<1>11. CASE answer # "dunno"
  <2>1. r = [status |-> "Ok", value |-> some]
    BY <1>4, <1>9, <1>11, Zenon
  <2>2. r.status = "Ok" /\ r.value = some
    BY <2>1
  <2>3. IsoSays("have_rock_ridge", a, r.value)
    BY <2>2 DEF IsoSays, some
  <2> QED
    BY <2>2, <2>3 DEF IsoFine, IsoUnderstood, r
<1> QED
  BY <1>10, <1>11

\* The two bytes of a number, in the other order.
LEMMA Swapped ==
  ASSUME NEW high \in 0..255, NEW low \in 0..255
  PROVE  (high + 256 * low) % 256 = high /\ (high + 256 * low) \div 256 = low
<1> DEFINE n == high + 256 * low
           q == n \div 256
           r == n % 256
<1>1. q \in Int /\ r \in 0..255 /\ n = (256 * q) + r
  OBVIOUS
<1> HIDE DEF q, r
<1>2. q = low /\ r = high
  BY <1>1
<1> QED
  BY <1>2 DEF q, r

\* Big-endian, read by a little-endian computer, and turned around.
LEMMA TurnedAround ==
  ASSUME NEW n \in U16
  PROVE  FromBe(BigEndian(n)) = n
<1> DEFINE high == n \div 256
           low  == n % 256
           m    == high + 256 * low
<1>1. high \in 0..255 /\ low \in 0..255 /\ 256 * high + low = n
  <2>1. n \in Nat /\ n \div 256 \in 0..255
    BY DEF U16
  <2>2. n % 256 \in 0..255 /\ 256 * (n \div 256) + (n % 256) = n
    BY <2>1
  <2> QED
    BY <2>1, <2>2
<1>2. BigEndian(n) = m
  BY DEF BigEndian
<1> HIDE DEF high, low
<1>3. m % 256 = high /\ m \div 256 = low
  BY <1>1, Swapped, Zenon
<1> HIDE DEF m
<1>4. FromBe(m) = 256 * high + low
  BY <1>3, Zenon DEF FromBe
<1> QED
  BY <1>1, <1>2, <1>4, Zenon

\* The sectors of a file of one of these sizes.
FileSizes == {0, 1, 2047, 2048, 2049, 4096}

Begun(size) == {k \in 0..2 : 2048 * k < size}
Blocks(size) == (size + 2047) \div 2048

\* The sectors, counted one by one.
LEMMA SectorsOfFile ==
  ASSUME NEW size \in FileSizes
  PROVE  Cardinality(Begun(size)) = Blocks(size)
<1> DEFINE sectors == Blocks(size)
<1>1. sectors \in 0..2 /\ Begun(size) = 0..sectors - 1
  BY SMT DEF FileSizes, Begun, Blocks
<1>2. sectors \in Int /\ sectors >= 0
  BY <1>1
<1> HIDE DEF sectors
<1>3. Cardinality(0..sectors - 1) = sectors
  BY <1>2, FS_Interval
<1>4. Cardinality(Begun(size)) = sectors
  BY <1>1, <1>3, Zenon
<1> QED
  BY <1>4 DEF sectors

\* xa, and mode2form2_size.
LEMMA XaFine ==
  ASSUME NEW a \in IsoImages("xa")
  PROVE  IsoFine("xa", a)
<1> DEFINE xa == [b_xa |-> a.b_xa, attributes |-> BigEndian(a.attributes), filenum |-> a.filenum,
                  group_id |-> BigEndian(a.group_id), user_id |-> BigEndian(a.user_id)]
           d  == [xa |-> xa, size |-> a.size]
           value == [file_attr |-> a.attributes, file_num |-> a.filenum,
                     group_id |-> a.group_id, user_id |-> a.user_id, total_size |-> a.size]
           r == IsoResult("xa", IsoStructure("xa", a))
<1>1. /\ a.attributes \in {2125, 4693, 34824} /\ a.group_id = 3000 /\ a.user_id = 1000
      /\ a.size \in {0, 1, 2047, 2048, 2049, 4096}
  BY DEF IsoImages
<1>2. a.attributes \in U16 /\ a.group_id \in U16 /\ a.user_id \in U16
  BY <1>1, SMT DEF U16
<1>3. r = Xa(d.xa, d.size)
  <2>1. IsoStructure("xa", a) = d
    BY DEF IsoStructure
  <2> HIDE DEF d
  <2>2. IsoResult("xa", d) = Xa(d.xa, d.size)
    BY DEF IsoResult
  <2> QED
    BY <2>1, <2>2, Zenon
<1>4. /\ d.xa = xa /\ d.size = a.size /\ xa.b_xa = a.b_xa /\ xa.attributes = BigEndian(a.attributes)
      /\ xa.filenum = a.filenum /\ xa.group_id = BigEndian(a.group_id) /\ xa.user_id = BigEndian(a.user_id)
  OBVIOUS
<1> HIDE DEF d, xa, r
<1>5. r = IF ~a.b_xa THEN [status |-> "none"] ELSE [status |-> "Ok", value |-> value]
  BY <1>2, <1>3, <1>4, TurnedAround, SMT DEF Xa
<1>6. CASE ~a.b_xa
  <2>1. r.status = "none"
    BY <1>5, <1>6
  <2> QED
    BY <1>6, <2>1 DEF IsoFine, IsoUnderstood, r
<1>7. CASE a.b_xa
  <2>1. /\ value.file_attr = a.attributes /\ value.file_num = a.filenum /\ value.group_id = a.group_id
        /\ value.user_id = a.user_id /\ value.total_size = a.size
    OBVIOUS
  <2> HIDE DEF value
  <2>2. r.status = "Ok" /\ r.value = value
    BY <1>5, <1>7
  <2>3. Mode2Form2(a.attributes) <=> a.attributes = 4693
    BY <1>1, SMT DEF Mode2Form2
  <2>4. Mode2Form2Size(value) = IF a.attributes = 4693
                                THEN 2324 * Cardinality({k \in 0..2 : 2048 * k < a.size}) ELSE -1
    <3> DEFINE sectors == Blocks(a.size)
    <3>0. sectors \in Int
      BY <1>1 DEF Blocks
    <3>1. Cardinality({k \in 0..2 : 2048 * k < a.size}) = sectors
      <4>1. a.size \in FileSizes
        BY <1>1 DEF FileSizes
      <4>2. Cardinality(Begun(a.size)) = sectors
        BY <4>1, SectorsOfFile, Zenon
      <4> HIDE DEF sectors
      <4> QED
        BY <4>2 DEF Begun
    <3>2. Mode2Form2Size(value) = IF Mode2Form2(a.attributes) THEN sectors * 2324 ELSE -1
      BY <2>1, SMT DEF Mode2Form2Size, Blocks
    <3> HIDE DEF sectors
    <3> QED
      BY <2>3, <3>0, <3>1, <3>2, SMT
  <2>5. IsoSays("xa", a, value)
    BY <1>7, <2>1, <2>4, SMT DEF IsoSays
  <2> QED
    BY <1>7, <2>2, <2>5 DEF IsoFine, IsoUnderstood, r
<1> QED
  BY <1>6, <1>7

\* joliet_level.
LEMMA JolietFine ==
  ASSUME NEW a \in IsoImages("joliet_level")
  PROVE  IsoFine("joliet_level", a)
<1> DEFINE r == IsoResult("joliet_level", IsoStructure("joliet_level", a))
<1>1. a.level \in 0..3
  BY DEF IsoImages
<1>2. r = JolietLevel(a.level)
  <2>1. IsoStructure("joliet_level", a) = a
    BY DEF IsoStructure
  <2>2. IsoResult("joliet_level", a) = JolietLevel(a.level)
    BY DEF IsoResult
  <2> QED
    BY <2>1, <2>2, Zenon
<1> HIDE DEF r
<1>3. CASE a.level = 0
  <2>1. r = [status |-> "none"]
    BY <1>2, <1>3 DEF JolietLevel, JolietLevels
  <2> QED
    BY <1>3, <2>1 DEF IsoFine, IsoUnderstood, r
<1>4. CASE a.level \in 1..3
  <2>1. r = [status |-> "Ok", value |-> a.level]
    BY <1>2, <1>4 DEF JolietLevel, JolietLevels
  <2>2. r.status = "Ok" /\ r.value = a.level
    BY <2>1
  <2> QED
    BY <1>4, <2>2 DEF IsoFine, IsoSays, IsoUnderstood, r
<1> QED
  BY <1>1, <1>3, <1>4

\* Every method that reads a structure of an image.
LEMMA IsoRight ==
  ASSUME NEW c \in IsoCalls, NEW a \in IsoImages(c)
  PROVE  IsoFine(c, a)
BY TimestampFine, RockRidgeFine, HaveRockRidgeFine, XaFine, JolietFine DEF IsoCalls

-----------------------------------------------------------------------------
(***************************************************************************)
(* The structures of a drive.                                              *)
(***************************************************************************)
\* What is to show of a method of Drive.
DriveFine(c, a) == LET r == DriveResult(c, DriveStructure(c, a))
                   IN  (r.status = "Ok" => DriveSays(c, a, r.value)) /\ DriveUnderstood(c, a, r.status)

\* A name that does not end with a space, padded with n spaces.
LEMMA TrimmedEnd ==
  ASSUME NEW n \in Nat, NEW Char, Padding \in Char, NEW name \in Seq(Char), name # <<>> => name[Len(name)] # Padding
  PROVE  TrimEnd(name \o [k \in 1..n |-> Padding]) = name
<1> DEFINE spaces == [k \in 1..n |-> Padding]
           text   == name \o spaces
           I      == {i \in 1..Len(text) : text[i] # Padding}
           end    == IF I # {} THEN Max(I) ELSE 0
<1>1. spaces \in Seq(Char) /\ Len(spaces) = n /\ \A k \in 1..n : spaces[k] = Padding
  OBVIOUS
<1> HIDE DEF spaces
<1>2. /\ text \in Seq(Char) /\ Len(text) = Len(name) + n /\ Len(name) \in Nat
      /\ \A k \in 1..Len(name) : text[k] = name[k]
      /\ \A k \in 1..Len(text) : k > Len(name) => text[k] = Padding
  <2>1. \A k \in 1..Len(text) : k > Len(name) => text[k] = spaces[k - Len(name)] /\ k - Len(name) \in 1..n
    BY <1>1
  <2> QED
    BY <1>1, <2>1
<1>3. SubSeq(text, 1, Len(name)) = name
  BY <1>1, <1>2
<1> HIDE DEF text
<1>4. end = Len(name)
  <2>1. CASE name = <<>>
    <3>1. I = {}
      BY <1>2, <2>1
    <3> QED
      BY <2>1, <3>1
  <2>2. CASE name # <<>>
    <3>1. Len(name) \in I /\ \A k \in I : k <= Len(name)
      BY <1>2, <2>2
    <3>2. Max(I) = Len(name)
      BY <3>1, SMT DEF Max
    <3> QED
      BY <3>1, <3>2
  <2> QED
    BY <2>1, <2>2
<1>5. TrimEnd(text) = SubSeq(text, 1, end)
  BY Zenon DEF TrimEnd, SelectLastInSeq
<1> QED
  BY <1>3, <1>4, <1>5, Zenon DEF text, spaces

\* The padding of a name is trimmed, whatever its length.
LEMMA NamesOfDrives ==
  ASSUME NEW n \in Nat, NEW name \in DriveNames
  PROVE  TrimEnd(name \o [k \in 1..n |-> Padding]) = name
<1> DEFINE A == "A"
           B == "B"
           Char == {Padding, A, B}
<1>1. A # Padding /\ B # Padding
  BY Zenon DEF Padding
<1>2. DriveNames = {<<>>, <<A>>, <<Padding, A, Padding, B>>}
  BY Zenon DEF DriveNames
<1> HIDE DEF A, B
<1>3. A \in Char /\ B \in Char /\ Padding \in Char
  OBVIOUS
<1> HIDE DEF Char
<1>4. name \in Seq(Char) /\ (name # <<>> => name[Len(name)] # Padding)
  <2>1. CASE name = <<>>
    BY <2>1
  <2>2. CASE name = <<A>>
    BY <1>1, <1>3, <2>2
  <2>3. CASE name = <<Padding, A, Padding, B>>
    BY <1>1, <1>3, <2>3
  <2> QED
    BY <1>2, <2>1, <2>2, <2>3, Zenon
<1> QED
  BY <1>3, <1>4, TrimmedEnd, Zenon

\* Drive::hardware_identifiers.
LEMMA IdentifiersRight ==
  ASSUME NEW a \in Drives("Drive::hardware_identifiers")
  PROVE  DriveFine("Drive::hardware_identifiers", a)
<1> DEFINE spaces == [k \in 1..a.padding |-> Padding]
           d == [found |-> a.found, psz_model |-> a.model \o spaces, psz_vendor |-> a.vendor \o spaces,
                 psz_revision |-> a.revision \o spaces]
           value == [model |-> a.model, vendor |-> a.vendor, revision |-> a.revision]
           r == DriveResult("Drive::hardware_identifiers", DriveStructure("Drive::hardware_identifiers", a))
<1>1. /\ a.found \in BOOLEAN /\ a.padding \in Nat
      /\ a.model \in DriveNames /\ a.vendor \in DriveNames /\ a.revision \in DriveNames
  BY DEF Drives
<1>2. /\ TrimEnd(a.model \o spaces) = a.model /\ TrimEnd(a.vendor \o spaces) = a.vendor
      /\ TrimEnd(a.revision \o spaces) = a.revision
  BY <1>1, NamesOfDrives, Zenon
<1>3. r = DriveIdentifiers(d)
  <2>1. DriveStructure("Drive::hardware_identifiers", a) = d
    BY DEF DriveStructure
  <2> HIDE DEF d
  <2>2. DriveResult("Drive::hardware_identifiers", d) = DriveIdentifiers(d)
    BY DEF DriveResult
  <2> QED
    BY <2>1, <2>2, Zenon
<1> HIDE DEF spaces
<1>4. /\ d.found = a.found /\ d.psz_model = a.model \o spaces /\ d.psz_vendor = a.vendor \o spaces
      /\ d.psz_revision = a.revision \o spaces
  BY Zenon
<1> HIDE DEF d, r
<1>5. r = IF ~a.found THEN [status |-> "OperationError"] ELSE [status |-> "Ok", value |-> value]
  BY <1>2, <1>3, <1>4, Zenon DEF DriveIdentifiers
<1>6. CASE ~a.found
  <2>1. r.status = "OperationError"
    BY <1>5, <1>6
  <2> QED
    BY <1>6, <2>1 DEF DriveFine, DriveUnderstood, r
<1>7. CASE a.found
  <2>1. r.status = "Ok" /\ r.value = value
    BY <1>5, <1>7
  <2> QED
    BY <1>7, <2>1 DEF DriveFine, DriveSays, DriveUnderstood, r
<1> QED
  BY <1>6, <1>7

\* A set of flags that a drive may have has no others.
LEMMA FlagsOfSets ==
  ASSUME NEW flags, NEW s \in FlagSets(flags)
  PROVE  s \subseteq flags
BY DEF FlagSets

\* Drive::capabilities: the flags of an unknown drive have no name.
LEMMA CapabilitiesRight ==
  ASSUME NEW a \in Drives("capabilities")
  PROVE  DriveFine("capabilities", a)
<1> DEFINE unknown == IF a.known THEN {} ELSE {"Unknown"}
           d == [read |-> a.read \union unknown, write |-> a.write \union unknown, misc |-> a.misc \union unknown]
           value == [read |-> a.read, write |-> a.write, misc |-> a.misc]
           r == DriveResult("capabilities", DriveStructure("capabilities", a))
<1>1. /\ a.known \in BOOLEAN
      /\ a.read \subseteq ReadCapabilities /\ a.write \subseteq WriteCapabilities
      /\ a.misc \subseteq MiscCapabilities
  <2>1. /\ {"Mcn"} \subseteq ReadCapabilities /\ {} \subseteq WriteCapabilities
        /\ {"Eject"} \subseteq MiscCapabilities
    BY DEF ReadCapabilities, MiscCapabilities
  <2>2. /\ a.known \in BOOLEAN
        /\ a.read \in FlagSets(ReadCapabilities) \union {{"Mcn"}}
        /\ a.write \in FlagSets(WriteCapabilities) \union {{}}
        /\ a.misc \in FlagSets(MiscCapabilities) \union {{"Eject"}}
    BY DEF Drives
  <2> QED
    BY <2>1, <2>2, FlagsOfSets, Zenon
<1>2. "Unknown" \notin ReadCapabilities
  BY DEF ReadCapabilities
<1>3. r = DriveCapabilities(d)
  <2>1. DriveStructure("capabilities", a) = d
    BY DEF DriveStructure
  <2> HIDE DEF d
  <2>2. DriveResult("capabilities", d) = DriveCapabilities(d)
    BY DEF DriveResult
  <2> QED
    BY <2>1, <2>2, Zenon
<1> HIDE DEF r
<1>4. CASE ~a.known
  <2>1. d.read = a.read \union {"Unknown"}
    BY <1>4
  <2> HIDE DEF d
  <2>2. r = [status |-> "OperationError"]
    BY <1>2, <1>3, <2>1, Zenon DEF DriveCapabilities
  <2>3. r.status = "OperationError"
    BY <2>2
  <2> QED
    BY <1>4, <2>3 DEF DriveFine, DriveUnderstood, r
<1>5. CASE a.known
  <2>1. d.read = a.read /\ d.write = a.write /\ d.misc = a.misc
    BY <1>5
  <2> HIDE DEF d
  <2>2. r = [status |-> "Ok", value |-> value]
    BY <1>1, <1>3, <2>1, Zenon DEF DriveCapabilities
  <2>3. r.status = "Ok" /\ r.value = value
    BY <2>2
  <2> QED
    BY <1>5, <2>3 DEF DriveFine, DriveSays, DriveUnderstood, r
<1> QED
  BY <1>1, <1>4, <1>5

\* Both methods of Drive.
LEMMA DriveRight ==
  ASSUME NEW c \in DriveCalls, NEW a \in Drives(c)
  PROVE  DriveFine(c, a)
BY IdentifiersRight, CapabilitiesRight DEF DriveCalls

-----------------------------------------------------------------------------
(***************************************************************************)
(* The structures of a file.                                               *)
(***************************************************************************)
\* What is to show of a method that reads a structure of a file.
EntryFine(c, f) == LET r == EntryResult(c, f)
                   IN  (r.status = "Ok" => EntrySays(c, f, r.value)) /\ EntryUnderstood(c, f, r.status)

\* A name ends with these characters.
Ends(raw, tail) == Len(raw) >= Len(tail) /\ SubSeq(raw, Len(raw) - Len(tail) + 1, Len(raw)) = tail


\* A sequence is a pair if it has these two elements.
LEMMA Pairs ==
  ASSUME NEW Char, NEW s \in Seq(Char), NEW x \in Char, NEW y \in Char
  PROVE  s = <<x, y>> <=> Len(s) = 2 /\ s[1] = x /\ s[2] = y
<1> DEFINE t == <<x, y>>
<1>1. t \in Seq(Char) /\ Len(t) = 2 /\ t[1] = x /\ t[2] = y
  OBVIOUS
<1> HIDE DEF t
<1>2. ASSUME Len(s) = 2, s[1] = x, s[2] = y
      PROVE  s = t
  <2>1. \A k \in 1..2 : s[k] = t[k]
    BY <1>1, <1>2
  <2> QED
    BY <1>1, <1>2, <2>1
<1>3. s = t <=> Len(s) = 2 /\ s[1] = x /\ s[2] = y
  BY <1>1, <1>2, Zenon
<1> QED
  BY <1>3 DEF t

\* A sequence is a triple if it has these three elements.
LEMMA Triples ==
  ASSUME NEW Char, NEW s \in Seq(Char), NEW x \in Char, NEW y \in Char, NEW z \in Char
  PROVE  s = <<x, y, z>> <=> Len(s) = 3 /\ s[1] = x /\ s[2] = y /\ s[3] = z
<1> DEFINE t == <<x, y, z>>
<1>1. t \in Seq(Char) /\ Len(t) = 3 /\ t[1] = x /\ t[2] = y /\ t[3] = z
  OBVIOUS
<1> HIDE DEF t
<1>2. ASSUME Len(s) = 3, s[1] = x, s[2] = y, s[3] = z
      PROVE  s = t
  <2>1. \A k \in 1..3 : s[k] = t[k]
    BY <1>1, <1>2
  <2> QED
    BY <1>1, <1>2, <2>1
<1>3. s = t <=> Len(s) = 3 /\ s[1] = x /\ s[2] = y /\ s[3] = z
  BY <1>1, <1>2, Zenon
<1> QED
  BY <1>3 DEF t

\* The last characters of a name.
LEMMA LastPart ==
  ASSUME NEW Char, NEW raw \in Seq(Char), NEW n \in 1..3, Len(raw) >= n
  PROVE  LET part == SubSeq(raw, Len(raw) - n + 1, Len(raw))
         IN  part \in Seq(Char) /\ Len(part) = n /\ \A k \in 1..n : part[k] = raw[Len(raw) - n + k]
<1> DEFINE m == Len(raw) - n + 1
           part == SubSeq(raw, m, Len(raw))
<1>1. m \in 1..Len(raw) /\ Len(raw) \in Nat /\ Len(raw) - m + 1 = n
  OBVIOUS
<1>2. \A k \in 1..n : m + k - 1 = Len(raw) - n + k
  OBVIOUS
<1> HIDE DEF m
<1>3. part \in Seq(Char) /\ Len(part) = n
  BY <1>1
<1>4. \A k \in 1..n : part[k] = raw[m + k - 1]
  BY <1>1
<1> QED
  BY <1>2, <1>3, <1>4, Zenon DEF m

\* A name ends with two characters.
LEMMA EndsWithPair ==
  ASSUME NEW Char, NEW raw \in Seq(Char), NEW x \in Char, NEW y \in Char
  PROVE  Ends(raw, <<x, y>>) <=> Len(raw) >= 2 /\ raw[Len(raw) - 1] = x /\ raw[Len(raw)] = y
<1> DEFINE part == SubSeq(raw, Len(raw) - 2 + 1, Len(raw))
<1>1. Len(<<x, y>>) = 2
  OBVIOUS
<1>2. Ends(raw, <<x, y>>) <=> Len(raw) >= 2 /\ part = <<x, y>>
  BY <1>1, Zenon DEF Ends
<1>3. Len(raw) >= 2 => /\ part \in Seq(Char) /\ Len(part) = 2
                       /\ part[1] = raw[Len(raw) - 1] /\ part[2] = raw[Len(raw)]
  BY LastPart
<1> HIDE DEF part
<1>4. CASE Len(raw) >= 2
  <2>1. part = <<x, y>> <=> Len(part) = 2 /\ part[1] = x /\ part[2] = y
    BY <1>3, <1>4, Pairs
  <2> QED
    BY <1>2, <1>3, <1>4, <2>1, Zenon
<1> QED
  BY <1>2, <1>4, Zenon

\* A name ends with three characters.
LEMMA EndsWithTriple ==
  ASSUME NEW Char, NEW raw \in Seq(Char), NEW x \in Char, NEW y \in Char, NEW z \in Char
  PROVE  Ends(raw, <<x, y, z>>) <=>
           Len(raw) >= 3 /\ raw[Len(raw) - 2] = x /\ raw[Len(raw) - 1] = y /\ raw[Len(raw)] = z
<1> DEFINE part == SubSeq(raw, Len(raw) - 3 + 1, Len(raw))
<1>1. Len(<<x, y, z>>) = 3
  OBVIOUS
<1>2. Ends(raw, <<x, y, z>>) <=> Len(raw) >= 3 /\ part = <<x, y, z>>
  BY <1>1, Zenon DEF Ends
<1>3. Len(raw) >= 3 => /\ part \in Seq(Char) /\ Len(part) = 3
                       /\ part[1] = raw[Len(raw) - 2] /\ part[2] = raw[Len(raw) - 1] /\ part[3] = raw[Len(raw)]
  BY LastPart
<1> HIDE DEF part
<1>4. CASE Len(raw) >= 3
  <2>1. part = <<x, y, z>> <=> Len(part) = 3 /\ part[1] = x /\ part[2] = y /\ part[3] = z
    BY <1>3, <1>4, Triples
  <2> QED
    BY <1>2, <1>3, <1>4, <2>1, Zenon
<1> QED
  BY <1>2, <1>4, Zenon

\* The tail of a name that has a version, or none, is found again.
LEMMA TailFound ==
  ASSUME NEW Char, NEW stem \in Seq(Char), NEW dot \in Char, NEW semicolon \in Char, NEW one \in Char,
         stem # <<>>, stem[Len(stem)] # dot,
         Len(stem) >= 2 => stem[Len(stem) - 1] # semicolon \/ stem[Len(stem)] # one,
         NEW tail \in Seq(Char), tail = <<>> \/ tail = <<semicolon, one>> \/ tail = <<dot, semicolon, one>>
  PROVE  /\ Ends(stem \o tail, <<dot, semicolon, one>>) <=> Len(tail) = 3
         /\ Ends(stem \o tail, <<semicolon, one>>) <=> Len(tail) >= 2
<1> DEFINE raw == stem \o tail
           n   == Len(stem)
<1>1. /\ n \in Nat /\ n >= 1
      /\ raw \in Seq(Char) /\ Len(raw) = n + Len(tail)
      /\ \A k \in 1..n : raw[k] = stem[k]
      /\ \A k \in n + 1..n + Len(tail) : raw[k] = tail[k - n]
  OBVIOUS
<1>2. \/ Len(tail) = 0
      \/ Len(tail) = 2 /\ tail[1] = semicolon /\ tail[2] = one
      \/ Len(tail) = 3 /\ tail[1] = dot /\ tail[2] = semicolon /\ tail[3] = one
  BY Pairs, Triples
<1> HIDE DEF raw, n
<1>3. /\ Ends(raw, <<semicolon, one>>) <=>
           Len(raw) >= 2 /\ raw[Len(raw) - 1] = semicolon /\ raw[Len(raw)] = one
      /\ Ends(raw, <<dot, semicolon, one>>) <=>
           Len(raw) >= 3 /\ raw[Len(raw) - 2] = dot /\ raw[Len(raw) - 1] = semicolon /\ raw[Len(raw)] = one
  <2>1. Ends(raw, <<semicolon, one>>) <=>
          Len(raw) >= 2 /\ raw[Len(raw) - 1] = semicolon /\ raw[Len(raw)] = one
    BY <1>1, EndsWithPair
  <2>2. Ends(raw, <<dot, semicolon, one>>) <=>
          Len(raw) >= 3 /\ raw[Len(raw) - 2] = dot /\ raw[Len(raw) - 1] = semicolon /\ raw[Len(raw)] = one
    BY <1>1, EndsWithTriple
  <2> QED
    BY <2>1, <2>2, Zenon
<1>4. CASE Len(tail) = 0
  <2>1. Len(raw) = n /\ raw[n] = stem[n] /\ (n >= 2 => raw[n - 1] = stem[n - 1])
    BY <1>1, <1>4
  <2> QED
    BY <1>1, <1>3, <1>4, <2>1, SMT DEF raw, n
<1>5. CASE Len(tail) = 2
  <2>1. Len(raw) = n + 2 /\ raw[n] = stem[n] /\ raw[n + 1] = semicolon /\ raw[n + 2] = one
    BY <1>1, <1>2, <1>5
  <2>2. /\ Len(raw) >= 2 /\ raw[Len(raw) - 1] = semicolon /\ raw[Len(raw)] = one
        /\ raw[Len(raw) - 2] # dot
    BY <1>1, <2>1 DEF n
  <2>3. Ends(raw, <<semicolon, one>>) /\ ~Ends(raw, <<dot, semicolon, one>>)
    BY <1>3, <2>2, Zenon
  <2>4. Len(tail) # 3 /\ Len(tail) >= 2
    BY <1>5
  <2> QED
    BY <2>3, <2>4, Zenon DEF raw
<1>6. CASE Len(tail) = 3
  <2>1. Len(raw) = n + 3 /\ raw[n + 1] = dot /\ raw[n + 2] = semicolon /\ raw[n + 3] = one
    BY <1>1, <1>2, <1>6
  <2>2. /\ Len(raw) >= 2 /\ raw[Len(raw) - 1] = semicolon /\ raw[Len(raw)] = one
        /\ Len(raw) >= 3 /\ raw[Len(raw) - 2] = dot
    BY <1>1, <2>1
  <2>3. Ends(raw, <<semicolon, one>>) /\ Ends(raw, <<dot, semicolon, one>>)
    BY <1>3, <2>2, Zenon
  <2>4. Len(tail) >= 2
    BY <1>6
  <2> QED
    BY <1>6, <2>3, <2>4, Zenon DEF raw
<1> QED
  BY <1>2, <1>4, <1>5, <1>6

\* The characters of the names.
LetterA   == "A"
SmallA    == "a"
Dot       == "."
Semicolon == ";"
One       == "1"
Chars     == {LetterA, SmallA, Dot, Semicolon, One, NotUtf8}

\* These characters differ.
LEMMA Characters ==
  /\ LetterA \in Chars /\ SmallA \in Chars /\ Dot \in Chars /\ Semicolon \in Chars /\ One \in Chars /\ NotUtf8 \in Chars
  /\ LetterA # Dot /\ SmallA # Dot /\ Semicolon # Dot /\ One # Dot /\ NotUtf8 # Dot
  /\ LetterA # Semicolon /\ SmallA # Semicolon
<1>1. /\ LetterA # Dot /\ SmallA # Dot /\ Semicolon # Dot /\ One # Dot /\ NotUtf8 # Dot
      /\ LetterA # Semicolon /\ SmallA # Semicolon
  BY Zenon DEF LetterA, SmallA, Dot, Semicolon, One, NotUtf8
<1> QED
  BY <1>1, Zenon DEF Chars

\* A name does not end with a dot, nor as one with a version does.
LEMMA StemsOfNames ==
  ASSUME NEW stem \in Stems
  PROVE  /\ stem \in Seq(Chars) /\ stem # <<>> /\ stem[Len(stem)] # Dot
         /\ Len(stem) >= 2 => stem[Len(stem) - 1] # Semicolon \/ stem[Len(stem)] # One
<1>1. Stems = {<<LetterA>>, <<SmallA, LetterA>>, <<LetterA, Dot, SmallA>>, <<One>>,
               <<LetterA, Semicolon>>, <<LetterA, NotUtf8>>}
  BY Zenon DEF Stems, LetterA, SmallA, Dot, Semicolon, One
<1>2. CASE stem = <<LetterA>>
  BY <1>2, Characters
<1>3. CASE stem = <<SmallA, LetterA>>
  BY <1>3, Characters
<1>4. CASE stem = <<LetterA, Dot, SmallA>>
  BY <1>4, Characters
<1>5. CASE stem = <<One>>
  BY <1>5, Characters
<1>6. CASE stem = <<LetterA, Semicolon>>
  BY <1>6, Characters
<1>7. CASE stem = <<LetterA, NotUtf8>>
  BY <1>7, Characters
<1> QED
  BY <1>1, <1>2, <1>3, <1>4, <1>5, <1>6, <1>7, Zenon

\* A name is not a null pointer.
LEMMA StemIsNotNull ==
  ASSUME NEW stem \in Stems
  PROVE  stem # Null
<1> DEFINE N == "NULL"
<1>1. Null = <<N>> /\ N # LetterA /\ N # One
  BY Zenon DEF Null, LetterA, One
<1> HIDE DEF N
<1>2. Stems = {<<LetterA>>, <<SmallA, LetterA>>, <<LetterA, Dot, SmallA>>, <<One>>,
               <<LetterA, Semicolon>>, <<LetterA, NotUtf8>>}
  BY Zenon DEF Stems, LetterA, SmallA, Dot, Semicolon, One
<1>3. stem[1] = LetterA \/ stem[1] = One \/ Len(stem) = 2
  BY <1>2
<1>4. Null[1] = N /\ Len(Null) = 1
  BY <1>1
<1> QED
  BY <1>1, <1>3, <1>4

\* A character as it is shown.
LEMMA CharacterShown ==
  ASSUME NEW char, NEW joliet \in 0..3
  PROVE  LET case  == CASE char = ";" -> "." [] char # ";" /\ joliet > 0 -> char [] OTHER -> Lower(char)
             shown == CASE char = ";" -> "." [] joliet = 0 /\ char = "A" -> "a" [] OTHER -> char
         IN  case = shown /\ (shown # NotUtf8 <=> char # NotUtf8)
<1>1. "A" # ";" /\ "." # NotUtf8 /\ "a" # NotUtf8 /\ ";" # NotUtf8 /\ "A" # NotUtf8
  BY Zenon DEF NotUtf8
<1>2. joliet > 0 <=> joliet # 0
  OBVIOUS
<1>3. CASE char = ";"
  BY <1>1, <1>3, Zenon
<1>4. CASE char # ";" /\ joliet # 0
  BY <1>1, <1>2, <1>4, Zenon
<1>5. CASE char # ";" /\ joliet = 0 /\ char = "A"
  BY <1>1, <1>2, <1>5, Zenon DEF Lower
<1>6. CASE char # ";" /\ joliet = 0 /\ char # "A"
  BY <1>1, <1>2, <1>6, Zenon DEF Lower
<1> QED
  BY <1>3, <1>4, <1>5, <1>6, Zenon

\* What follows the name of a file on the image.
LEMMA Versions ==
  ASSUME NEW f \in EntryFiles("IsoEntry::filename")
  PROVE  \E tail \in Seq(Chars) :
           /\ RawName(f) = f.stem \o tail
           /\ tail = <<>> \/ tail = <<Semicolon, One>> \/ tail = <<Dot, Semicolon, One>>
<1>1. f.stem \in Stems
  BY DEF EntryFiles
<1>2. f.stem \in Seq(Chars)
  BY <1>1, StemsOfNames
<1>3. /\ <<>> \in Seq(Chars) /\ <<Semicolon, One>> \in Seq(Chars) /\ <<Dot, Semicolon, One>> \in Seq(Chars)
      /\ f.stem \o <<>> = f.stem
  BY <1>2, Characters
<1>4. \/ RawName(f) = f.stem
      \/ RawName(f) = f.stem \o <<Semicolon, One>>
      \/ RawName(f) = f.stem \o <<Dot, Semicolon, One>>
  BY Zenon DEF RawName, Dot, Semicolon, One
<1> QED
  BY <1>3, <1>4, Zenon

\* The translation drops what follows the name, keeps its length and fits the
\* buffer.
LEMMA NameTranslated ==
  ASSUME NEW f \in EntryFiles("IsoEntry::filename")
  PROVE  /\ Translated(RawName(f), f.joliet) = Shown(f)
         /\ Utf8(Shown(f)) <=> Utf8(f.stem)
         /\ Utf8(RawName(f)) <=> Utf8(f.stem)
         /\ ~(Len(Translated(RawName(f), f.joliet)) + 1 > NameBuffer(RawName(f)))
<1> DEFINE stem == f.stem
           raw  == RawName(f)
           n    == Len(stem)
           dot  == <<Dot, Semicolon, One>>
           none == <<Semicolon, One>>
           kept == CASE Ends(raw, dot) -> Len(raw) - 3
                     [] ~Ends(raw, dot) /\ Ends(raw, none) -> Len(raw) - 2
                     [] OTHER -> Len(raw)
           case(char)  == CASE char = ";" -> "." [] char # ";" /\ f.joliet > 0 -> char [] OTHER -> Lower(char)
           shown(char) == CASE char = ";" -> "." [] f.joliet = 0 /\ char = "A" -> "a" [] OTHER -> char
<1>1. stem \in Stems /\ f.joliet \in 0..3
  BY DEF EntryFiles
<1>2. /\ stem \in Seq(Chars) /\ stem # <<>> /\ stem[Len(stem)] # Dot
      /\ Len(stem) >= 2 => stem[Len(stem) - 1] # Semicolon \/ stem[Len(stem)] # One
  BY <1>1, StemsOfNames
<1>3. PICK tail \in Seq(Chars) :
        /\ raw = stem \o tail
        /\ tail = <<>> \/ tail = none \/ tail = dot
  BY Versions, Zenon
<1> HIDE DEF raw
<1>4. Ends(raw, dot) <=> Len(tail) = 3
  <2>1. Ends(stem \o tail, dot) <=> Len(tail) = 3
    BY <1>2, <1>3, Characters, TailFound
  <2> QED
    BY <1>3, <2>1, Zenon
<1>5. Ends(raw, none) <=> Len(tail) >= 2
  <2>1. Ends(stem \o tail, none) <=> Len(tail) >= 2
    BY <1>2, <1>3, Characters, TailFound
  <2> QED
    BY <1>3, <2>1, Zenon
<1>6. /\ Len(tail) \in {0, 2, 3} /\ n \in Nat /\ n >= 1
      /\ \A k \in 1..Len(tail) : tail[k] \in {Dot, Semicolon, One}
  <2>1. CASE tail = <<>>
    BY <1>2, <2>1
  <2>2. CASE tail = none
    BY <1>2, <2>2
  <2>3. CASE tail = dot
    BY <1>2, <2>3
  <2> QED
    BY <1>3, <2>1, <2>2, <2>3, Zenon
<1>7. /\ raw \in Seq(Chars) /\ Len(raw) = n + Len(tail)
      /\ \A k \in 1..n : raw[k] = stem[k]
      /\ \A k \in 1..Len(tail) : raw[n + k] = tail[k]
  <2>1. \A t \in Seq(Chars) : /\ stem \o t \in Seq(Chars) /\ Len(stem \o t) = n + Len(t)
                              /\ \A k \in 1..n : (stem \o t)[k] = stem[k]
                              /\ \A k \in 1..Len(t) : (stem \o t)[n + k] = t[k]
    BY <1>2
  <2> QED
    BY <1>3, <2>1, Zenon
<1>8. kept = n
  <2>1. CASE Len(tail) = 0
    <3>1. ~Ends(raw, dot) /\ ~Ends(raw, none)
      BY <1>4, <1>5, <2>1
    <3>2. kept = Len(raw)
      BY <3>1, Zenon
    <3> QED
      BY <1>6, <1>7, <2>1, <3>2
  <2>2. CASE Len(tail) = 2
    <3>1. ~Ends(raw, dot) /\ Ends(raw, none)
      BY <1>4, <1>5, <2>2
    <3>2. kept = Len(raw) - 2
      BY <3>1, Zenon
    <3> QED
      BY <1>6, <1>7, <2>2, <3>2
  <2>3. CASE Len(tail) = 3
    <3>1. Ends(raw, dot)
      BY <1>4, <2>3
    <3>2. kept = Len(raw) - 3
      BY <3>1, Zenon
    <3> QED
      BY <1>6, <1>7, <2>3, <3>2
  <2> QED
    BY <1>6, <2>1, <2>2, <2>3, Zenon
<1>9. Translated(raw, f.joliet) = [k \in 1..kept |-> case(raw[k])]
  BY Zenon DEF Translated, Ends, Dot, Semicolon, One
<1>10. Shown(f) = [k \in DOMAIN stem |-> shown(stem[k])] /\ DOMAIN stem = 1..n
  <2>1. Shown(f) = [k \in DOMAIN stem |-> shown(stem[k])]
    BY Zenon DEF Shown
  <2>2. DOMAIN stem = 1..n
    BY <1>2
  <2> QED
    BY <2>1, <2>2, Zenon
<1>11. \A char : case(char) = shown(char) /\ (shown(char) # NotUtf8 <=> char # NotUtf8)
  BY <1>1, CharacterShown, Zenon
<1> HIDE DEF kept, case, shown, n
<1>12. Translated(raw, f.joliet) = Shown(f)
  BY <1>7, <1>8, <1>9, <1>10, <1>11, Zenon
<1>13. Utf8(Shown(f)) <=> Utf8(stem)
  BY <1>10, <1>11, Zenon DEF Utf8
<1>14. Utf8(raw) <=> Utf8(stem)
  <2>1. Dot # NotUtf8 /\ Semicolon # NotUtf8 /\ One # NotUtf8
    BY Zenon DEF Dot, Semicolon, One, NotUtf8
  <2>2. DOMAIN raw = 1..Len(raw) /\ DOMAIN stem = 1..n
    BY <1>2, <1>7 DEF n
  <2>3. \A k \in 1..Len(raw) : k \in 1..n \/ \E j \in 1..Len(tail) : k = n + j
    <3>1. \A k \in 1..Len(raw) : k \in 1..n \/ (k - n \in 1..Len(tail) /\ k = n + (k - n))
      BY <1>6, <1>7
    <3> QED
      BY <3>1, Zenon
  <2>4. \A k \in 1..Len(raw) : raw[k] = NotUtf8 => k \in 1..n /\ stem[k] = NotUtf8
    BY <1>6, <1>7, <2>1, <2>3, Zenon
  <2>5. 1..n \subseteq 1..Len(raw)
    BY <1>6, <1>7
  <2> QED
    BY <1>7, <2>2, <2>4, <2>5, Zenon DEF Utf8
<1>15. ~(Len(Translated(raw, f.joliet)) + 1 > NameBuffer(raw))
  <2>1. Len(Translated(raw, f.joliet)) = n
    BY <1>6, <1>8, <1>9
  <2> QED
    BY <1>6, <1>7, <2>1, SMT DEF NameBuffer
<1> QED
  BY <1>12, <1>13, <1>14, <1>15, Zenon DEF raw

\* CStr::to_str succeeds with the text, if that is UTF-8.
LEMMA StrIs ==
  ASSUME NEW text
  PROVE  (Str(text).status = "Ok" <=> Utf8(text)) /\ (Utf8(text) => Str(text).value = text)
         /\ (~Utf8(text) => Str(text).status = "InvalidEntry")
<1>1. CASE Utf8(text)
  <2>1. Str(text) = [status |-> "Ok", value |-> text]
    BY <1>1, Zenon DEF Str
  <2>2. Str(text).status = "Ok" /\ Str(text).value = text
    BY <2>1
  <2> QED
    BY <1>1, <2>2, Zenon
<1>2. CASE ~Utf8(text)
  <2>1. Str(text) = [status |-> "InvalidEntry"]
    BY <1>2, Zenon DEF Str
  <2>2. Str(text).status = "InvalidEntry" /\ Str(text).status # "Ok"
    BY <2>1
  <2> QED
    BY <1>2, <2>2, Zenon
<1> QED
  BY <1>1, <1>2

\* UdfEntry::filename.
LEMMA UdfFilenameFine ==
  ASSUME NEW f \in EntryFiles("UdfEntry::filename")
  PROVE  EntryFine("UdfEntry::filename", f)
<1> DEFINE r == EntryResult("UdfEntry::filename", f)
<1>1. f.name \in Stems \union {<<>>, Null}
  BY DEF EntryFiles
<1>2. r = UdfFilename(f.name)
  BY Zenon DEF EntryResult
<1>3. Null # <<>>
  BY DEF Null
<1> HIDE DEF r
<1>4. /\ r.status = "Ok" => r.value = IF f.name = <<>> THEN <<".">> ELSE f.name
      /\ (f.name # Null /\ Utf8(f.name)) <=> (r.status = "Ok")
  <2>1. CASE f.name = Null
    <3>1. r = [status |-> "InvalidEntry"]
      BY <1>2, <1>3, <2>1, Zenon DEF UdfFilename
    <3>2. r.status # "Ok"
      BY <3>1
    <3> QED
      BY <2>1, <3>2, Zenon
  <2>2. CASE f.name = <<>>
    <3>1. r = [status |-> "Ok", value |-> <<".">>]
      BY <1>2, <1>3, <2>2, Zenon DEF UdfFilename
    <3>2. r.status = "Ok" /\ r.value = <<".">>
      BY <3>1, Zenon
    <3>3. Utf8(f.name)
      BY <2>2 DEF Utf8
    <3> QED
      BY <1>3, <2>2, <3>2, <3>3, Zenon
  <2>3. CASE f.name \in Stems
    <3>1. f.name # Null /\ f.name # <<>>
      BY <2>3, StemsOfNames, StemIsNotNull
    <3>2. r = Str(f.name)
      BY <1>2, <3>1, Zenon DEF UdfFilename
    <3> QED
      BY <3>1, <3>2, StrIs, Zenon
  <2> QED
    BY <1>1, <2>1, <2>2, <2>3
<1>5. r.status = "Ok" => EntrySays("UdfEntry::filename", f, r.value)
  BY <1>4, Zenon DEF EntrySays
<1>6. EntryUnderstood("UdfEntry::filename", f, r.status)
  BY <1>4, Zenon DEF EntryUnderstood
<1> QED
  BY <1>5, <1>6, Zenon DEF EntryFine, r

\* UdfEntry::modify_time.
LEMMA ModifyTimeFine ==
  ASSUME NEW f \in EntryFiles("modify_time")
  PROVE  EntryFine("modify_time", f)
<1> DEFINE r == EntryResult("modify_time", f)
<1>1. f.time \in {"-1", "now", "beyond"}
  BY DEF EntryFiles
<1>2. r = ModifyTime(f.time)
  BY Zenon DEF EntryResult
<1> HIDE DEF r
<1>3. CASE f.time = "now"
  <2>1. r.status = "Ok" /\ r.value = "now"
    BY <1>2, <1>3 DEF ModifyTime
  <2> QED
    BY <1>3, <2>1 DEF EntryFine, EntrySays, EntryUnderstood, r
<1>4. CASE f.time # "now"
  <2>1. r.status = "InvalidEntry"
    BY <1>1, <1>2, <1>4 DEF ModifyTime
  <2> QED
    BY <1>4, <2>1 DEF EntryFine, EntrySays, EntryUnderstood, r
<1> QED
  BY <1>3, <1>4

\* The other fields of a UdfEntry.
LEMMA UdfMetadataFine ==
  ASSUME NEW f \in EntryFiles("UdfEntry")
  PROVE  EntryFine("UdfEntry", f)
<1> DEFINE value == [is_dir |-> f.b_dir, file_length |-> f.info_len, mode |-> f.mode, link_count |-> f.link_count]
           r == EntryResult("UdfEntry", f)
<1>1. r = [status |-> "Ok", value |-> value]
  BY Zenon DEF EntryResult, UdfMetadata
<1> HIDE DEF r
<1>2. r.status = "Ok" /\ r.value = value
  BY <1>1
<1> QED
  BY <1>2, Zenon DEF EntryFine, EntrySays, EntryUnderstood, r

\* The other fields of an IsoEntry.
LEMMA IsoMetadataFine ==
  ASSUME NEW f \in EntryFiles("IsoEntry")
  PROVE  EntryFine("IsoEntry", f)
<1> DEFINE type_ == IF f.dir THEN "_STAT_DIR" ELSE "_STAT_FILE"
           stat  == [total_size |-> f.total_size, lsn |-> f.lsn, type_ |-> type_]
           value == [total_size |-> f.total_size, lsn |-> f.lsn, is_dir |-> f.dir]
           r == EntryResult("IsoEntry", f)
<1>1. f.dir \in BOOLEAN
  BY DEF EntryFiles
<1>2. r = IsoMetadata(stat)
  BY Zenon DEF EntryResult
<1>3. stat.total_size = f.total_size /\ stat.lsn = f.lsn /\ stat.type_ = type_
  BY Zenon
<1>4. (type_ = "_STAT_DIR") = f.dir
  BY <1>1
<1> HIDE DEF r, stat, type_
<1>5. r = [status |-> "Ok", value |-> value]
  BY <1>2, <1>3, <1>4, Zenon DEF IsoMetadata
<1>6. r.status = "Ok" /\ r.value = value
  BY <1>5
<1> QED
  BY <1>6, Zenon DEF EntryFine, EntrySays, EntryUnderstood, r

\* IsoEntry::filename.
LEMMA IsoFilenameFine ==
  ASSUME NEW f \in EntryFiles("IsoEntry::filename")
  PROVE  EntryFine("IsoEntry::filename", f)
<1> DEFINE raw == RawName(f)
           r   == EntryResult("IsoEntry::filename", f)
<1>1. r = IsoFilename(raw, f.joliet)
  BY Zenon DEF EntryResult
<1>2. r = Str(Shown(f))
  BY <1>1, NameTranslated, Zenon DEF IsoFilename
<1> HIDE DEF r
<1>3. /\ r.status = "Ok" => r.value = Shown(f)
      /\ r.status = IF Utf8(f.stem) THEN "Ok" ELSE "InvalidEntry"
  BY <1>2, NameTranslated, StrIs, Zenon
<1> QED
  BY <1>3, Zenon DEF EntryFine, EntrySays, EntryUnderstood, r

\* IsoEntry::filename_raw.
LEMMA FilenameRawFine ==
  ASSUME NEW f \in EntryFiles("filename_raw")
  PROVE  EntryFine("filename_raw", f)
<1> DEFINE r == EntryResult("filename_raw", f)
<1>1. r = Str(RawName(f))
  BY Zenon DEF EntryResult, FilenameRaw
<1>2. f \in EntryFiles("IsoEntry::filename")
  BY DEF EntryFiles
<1> HIDE DEF r
<1>3. /\ r.status = "Ok" => r.value = RawName(f)
      /\ r.status = IF Utf8(f.stem) THEN "Ok" ELSE "InvalidEntry"
  BY <1>1, <1>2, NameTranslated, StrIs, Zenon
<1> QED
  BY <1>3, Zenon DEF EntryFine, EntrySays, EntryUnderstood, r

\* Every method that reads a structure of a file.
LEMMA EntryRight ==
  ASSUME NEW c \in EntryCalls, NEW f \in EntryFiles(c)
  PROVE  EntryFine(c, f)
BY UdfFilenameFine, ModifyTimeFine, UdfMetadataFine, IsoFilenameFine, FilenameRawFine, IsoMetadataFine
   DEF EntryCalls

-----------------------------------------------------------------------------
(***************************************************************************)
(* The calls.                                                              *)
(***************************************************************************)
\* What a call that waits for an answer has asked for, and what it decodes.
Asked ==
  /\ call \in EventCalls \union SubchannelCalls \union InquiryCalls
  /\ call \in EventCalls => cdb[4] = {Class(call)} \ {Empty}
  /\ call \in SubchannelCalls => SubchannelAsked

Answered ==
  /\ call \in EventCalls => EventsAnswered
  /\ call \in SubchannelCalls => SubchannelAnswered
  /\ call \in InquiryCalls => InquiryAnswered

\* A call has no result before it returns, no answer before the device gives
\* one, and decodes the answer to what it asked for.
CallInv ==
  /\ pc \in {"idle", "asked", "decode", "returned"}
  /\ pc # "returned" => result = NoResult
  /\ pc \in {"idle", "asked"} => meant = NoAnswer
  /\ pc \in {"asked", "decode"} => Asked
  /\ pc = "decode" => Answered

\* A call is of one kind.
LEMMA CallsAreDistinct ==
  /\ EventCalls \cap SubchannelCalls = {} /\ EventCalls \cap InquiryCalls = {} /\ EventCalls \cap IsoCalls = {}
  /\ EventCalls \cap EntryCalls = {} /\ EventCalls \cap DriveCalls = {}
  /\ SubchannelCalls \cap InquiryCalls = {} /\ SubchannelCalls \cap IsoCalls = {}
  /\ SubchannelCalls \cap EntryCalls = {} /\ SubchannelCalls \cap DriveCalls = {}
  /\ InquiryCalls \cap IsoCalls = {} /\ InquiryCalls \cap EntryCalls = {} /\ InquiryCalls \cap DriveCalls = {}
  /\ IsoCalls \cap EntryCalls = {} /\ IsoCalls \cap DriveCalls = {} /\ EntryCalls \cap DriveCalls = {}
BY DEF EventCalls, SubchannelCalls, InquiryCalls, IsoCalls, EntryCalls, DriveCalls

\* A step of a call that does not end it.
LEMMA NothingReturned ==
  ASSUME pc' # "returned", result' = NoResult
  PROVE  SaysWhatIsMeant' /\ AllUnderstood'
<1>1. result'.status # "Ok"
  BY DEF NoResult
<1> QED
  BY <1>1, Zenon DEF SaysWhatIsMeant, AllUnderstood

\* A command that fails has no answer to understand.
LEMMA ErrorReturned ==
  ASSUME meant' = NoAnswer, result'.status # "Ok"
  PROVE  SaysWhatIsMeant' /\ AllUnderstood'
BY Zenon DEF SaysWhatIsMeant, AllUnderstood

\* The end of a call about events.
LEMMA EventReturned ==
  ASSUME call' \in EventCalls, (result.status = "Ok" => EventSays)', EventUnderstood'
  PROVE  SaysWhatIsMeant' /\ AllUnderstood'
<1>1. /\ call' \notin SubchannelCalls /\ call' \notin InquiryCalls /\ call' \notin IsoCalls
      /\ call' \notin EntryCalls /\ call' \notin DriveCalls
  BY CallsAreDistinct, Zenon
<1> QED
  BY <1>1, Zenon DEF SaysWhatIsMeant, AllUnderstood

\* The end of a call about the sub-channel.
LEMMA SubchannelReturned ==
  ASSUME call' \in SubchannelCalls, (result.status = "Ok" => SubchannelSays)', SubchannelUnderstood'
  PROVE  SaysWhatIsMeant' /\ AllUnderstood'
<1>1. /\ call' \notin EventCalls /\ call' \notin InquiryCalls /\ call' \notin IsoCalls
      /\ call' \notin EntryCalls /\ call' \notin DriveCalls
  BY CallsAreDistinct, Zenon
<1> QED
  BY <1>1, Zenon DEF SaysWhatIsMeant, AllUnderstood

\* The end of a call that sends INQUIRY.
LEMMA InquiryReturned ==
  ASSUME call' \in InquiryCalls, (result.status = "Ok" => InquirySays)', InquiryUnderstood'
  PROVE  SaysWhatIsMeant' /\ AllUnderstood'
<1>1. /\ call' \notin EventCalls /\ call' \notin SubchannelCalls /\ call' \notin IsoCalls
      /\ call' \notin EntryCalls /\ call' \notin DriveCalls
  BY CallsAreDistinct, Zenon
<1> QED
  BY <1>1, Zenon DEF SaysWhatIsMeant, AllUnderstood

\* The structures of libcdio.
LEMMA ConvertRight ==
  ASSUME ConvertIso \/ ConvertEntry \/ ConvertDrive
  PROVE  SaysWhatIsMeant' /\ AllUnderstood'
<1>1. ASSUME NEW c \in IsoCalls, NEW a \in IsoImages(c),
             Convert(c, a, IsoStructure(c, a), IsoResult(c, IsoStructure(c, a)))
      PROVE  SaysWhatIsMeant' /\ AllUnderstood'
  <2>1. call' = c /\ meant' = a /\ result' = IsoResult(c, IsoStructure(c, a))
    BY <1>1, Zenon DEF Convert
  <2>2. /\ result'.status = "Ok" => IsoSays(call', meant', result'.value)
        /\ IsoUnderstood(call', meant', result'.status)
    BY <2>1, IsoRight, Zenon DEF IsoFine
  <2>3. /\ call' \in IsoCalls /\ call' \notin EventCalls /\ call' \notin SubchannelCalls /\ call' \notin InquiryCalls
        /\ call' \notin EntryCalls /\ call' \notin DriveCalls
    BY <2>1, CallsAreDistinct, Zenon
  <2> QED
    BY <2>2, <2>3, Zenon DEF SaysWhatIsMeant, AllUnderstood
<1>2. ASSUME NEW c \in EntryCalls, NEW f \in EntryFiles(c), Convert(c, f, f, EntryResult(c, f))
      PROVE  SaysWhatIsMeant' /\ AllUnderstood'
  <2>1. call' = c /\ meant' = f /\ result' = EntryResult(c, f)
    BY <1>2, Zenon DEF Convert
  <2>2. /\ result'.status = "Ok" => EntrySays(call', meant', result'.value)
        /\ EntryUnderstood(call', meant', result'.status)
    BY <2>1, EntryRight, Zenon DEF EntryFine
  <2>3. /\ call' \in EntryCalls /\ call' \notin EventCalls /\ call' \notin SubchannelCalls
        /\ call' \notin InquiryCalls /\ call' \notin IsoCalls /\ call' \notin DriveCalls
    BY <2>1, CallsAreDistinct, Zenon
  <2> QED
    BY <2>2, <2>3, Zenon DEF SaysWhatIsMeant, AllUnderstood
<1>3. ASSUME NEW c \in DriveCalls, NEW a \in Drives(c),
             Convert(c, a, DriveStructure(c, a), DriveResult(c, DriveStructure(c, a)))
      PROVE  SaysWhatIsMeant' /\ AllUnderstood'
  <2>1. call' = c /\ meant' = a /\ result' = DriveResult(c, DriveStructure(c, a))
    BY <1>3, Zenon DEF Convert
  <2>2. /\ result'.status = "Ok" => DriveSays(call', meant', result'.value)
        /\ DriveUnderstood(call', meant', result'.status)
    BY <2>1, DriveRight, Zenon DEF DriveFine
  <2>3. /\ call' \in DriveCalls /\ call' \notin EventCalls /\ call' \notin SubchannelCalls
        /\ call' \notin InquiryCalls /\ call' \notin IsoCalls /\ call' \notin EntryCalls
    BY <2>1, CallsAreDistinct, Zenon
  <2> QED
    BY <2>2, <2>3, Zenon DEF SaysWhatIsMeant, AllUnderstood
<1> QED
  BY <1>1, <1>2, <1>3, Zenon DEF ConvertIso, ConvertEntry, ConvertDrive

-----------------------------------------------------------------------------
\* A call keeps what it asked for while it waits.
LEMMA AskedKept ==
  ASSUME Asked, UNCHANGED <<call, wireVars>>
  PROVE  Asked'
BY Zenon DEF Asked, SubchannelAsked, wireVars, Whole, Flag

\* The command block of a call about events asks for its class.
LEMMA EventsAsked ==
  ASSUME NEW c \in EventCalls, AskForEvents(c)
  PROVE  Asked'
<1> DEFINE classes == {Class(c)} \ {Empty}
           r == [op |-> "get_event_status", polled |-> TRUE, classes |-> classes, len |-> 12]
<1>1. call' = c /\ cdb' = GetEventStatus(r)
  BY Zenon DEF AskForEvents, Ask, Send
<1>2. r.classes = classes
  OBVIOUS
<1> HIDE DEF r, classes
<1>3. GetEventStatus(r)[4] = classes
  BY <1>2, SMT DEF GetEventStatus, Word, Cdb
<1>4. c \notin SubchannelCalls
  BY CallsAreDistinct, Zenon
<1> QED
  BY <1>1, <1>3, <1>4, Zenon DEF Asked, classes

\* The command block of a call about the sub-channel asks for its parameter.
LEMMA SubchannelIsAsked ==
  ASSUME NEW c \in SubchannelCalls, NEW track \in 0..255, AskSubchannel(c, track)
  PROVE  Asked'
<1> DEFINE r == [op |-> "read_subchannel", time |-> Time(c), param |-> Parameter(c), number |-> track, len |-> 24]
<1>1. call' = c /\ cdb' = ReadSubchannel(r)
  BY Zenon DEF AskSubchannel, Ask, Send
<1>2. r.time = Time(c) /\ r.param = Parameter(c)
  OBVIOUS
<1> HIDE DEF r
<1>3. ReadSubchannel(r)[1] = Bit(1, r.time) /\ ReadSubchannel(r)[3] = Byte(r.param)
  BY SMT DEF ReadSubchannel, Word, Cdb
<1>4. Parameter(c) \in 0..255
  BY DEF Parameter, Position, Mcn, Isrc
<1>5. Number(Byte(r.param)) = Parameter(c)
  BY <1>2, <1>4, NumberOfByte, Zenon
<1>6. 1 \in Bit(1, r.time) <=> Time(c)
  BY <1>2, Zenon DEF Bit
<1>7. c \notin EventCalls
  BY CallsAreDistinct, Zenon
<1>8. Number(cdb'[3]) = Parameter(call')
  BY <1>1, <1>3, <1>5, Zenon
<1>9. (1 \in cdb'[1]) = (call' = "cd_current_position")
  <2>1. 1 \in cdb'[1] <=> call' = "cd_current_position"
    BY <1>1, <1>3, <1>6 DEF Time
  <2> QED
    BY <2>1
<1>10. SubchannelAsked'
  BY <1>1, <1>8, <1>9 DEF SubchannelAsked, Whole, Flag, Time
<1> QED
  BY <1>1, <1>7, <1>10, Zenon DEF Asked

\* What the device means is what it was asked for, or one of the odd answers.
LEMMA AnsweredRight ==
  ASSUME Asked, AnswerEvents \/ AnswerSubchannel \/ AnswerInquiry
  PROVE  Answered'
<1>1. CASE AnswerEvents
  <2>1. PICK a \in OddAnswers \union UNION {Descriptions(class) : class \in cdb[4]} : Answer(a, Encoded(a))
    BY <1>1, Zenon DEF AnswerEvents
  <2>2. call \in EventCalls /\ call' = call /\ meant' = a /\ data' = Encoded(a)
    BY <1>1, <2>1, Zenon DEF AnswerEvents, Answer
  <2>3. cdb[4] = {Class(call)} \ {Empty}
    BY <2>2, Zenon DEF Asked
  <2>4. a \in EventAnswers(call)
    BY <2>1, <2>3, Zenon DEF EventAnswers
  <2>5. EventsAnswered'
    BY <2>2, <2>4, Zenon DEF EventsAnswered
  <2>6. call' \notin SubchannelCalls /\ call' \notin InquiryCalls
    BY <2>2, CallsAreDistinct, Zenon
  <2> QED
    BY <2>5, <2>6, Zenon DEF Answered
<1>2. CASE AnswerSubchannel
  <2>1. PICK a \in SubchannelAnswers : Answer(a, SubchannelBytes(a))
    BY <1>2, Zenon DEF AnswerSubchannel
  <2>2. /\ call \in SubchannelCalls /\ call' = call /\ meant' = a /\ data' = SubchannelBytes(a)
        /\ UNCHANGED wireVars
    BY <1>2, <2>1, Zenon DEF AnswerSubchannel, Answer
  <2>3. SubchannelAsked' /\ SubchannelAnswers' = SubchannelAnswers
    BY <2>2, Zenon DEF Asked, SubchannelAsked, SubchannelAnswers, Whole, Flag, wireVars
  <2>4. SubchannelAnswered'
    BY <2>1, <2>2, <2>3, Zenon DEF SubchannelAnswered
  <2>5. call' \notin EventCalls /\ call' \notin InquiryCalls
    BY <2>2, CallsAreDistinct, Zenon
  <2> QED
    BY <2>4, <2>5, Zenon DEF Answered
<1>3. CASE AnswerInquiry
  <2>1. PICK a \in InquiryAnswers : Answer(a, InquiryBytes(a))
    BY <1>3, Zenon DEF AnswerInquiry
  <2>2. call \in InquiryCalls /\ call' = call /\ meant' = a /\ data' = InquiryBytes(a)
    BY <1>3, <2>1, Zenon DEF AnswerInquiry, Answer
  <2>3. InquiryAnswered'
    BY <2>1, <2>2, Zenon DEF InquiryAnswered
  <2>4. call' \notin EventCalls /\ call' \notin SubchannelCalls
    BY <2>2, CallsAreDistinct, Zenon
  <2> QED
    BY <2>3, <2>4, Zenon DEF Answered
<1> QED
  BY <1>1, <1>2, <1>3

-----------------------------------------------------------------------------
\* The steps by which a call of a command ends.
Decoded ==
  \/ SupportedEvents \/ OperationalEventStatus \/ PowerStatus \/ ExternalStatus
  \/ MediaStatus \/ IsTrayOpen \/ MultihostStatus \/ BusyStatus
  \/ AudioStatus \/ MediaCatalogNumber \/ IsrcOfTrack \/ CdCurrentPosition
  \/ HardwareIdentifiers \/ \E c \in {"new", "with_device"} : MmcOpened(c)

\* Such a step is the return of the call that runs.
LEMMA DecodedReturns ==
  ASSUME Decoded
  PROVE  pc = "decode" /\ pc' = "returned" /\ call' = call
<1>1. ASSUME NEW c, NEW r, Return(c, r) PROVE pc = "decode" /\ pc' = "returned" /\ call' = call
  BY <1>1, Zenon DEF Return
<1>2. ASSUME NEW c, NEW l, NEW g, NEW v, Described(c, l, g, v)
      PROVE  pc = "decode" /\ pc' = "returned" /\ call' = call
  BY <1>1, <1>2 DEF Described
<1>3. CASE SupportedEvents \/ OperationalEventStatus \/ PowerStatus \/ ExternalStatus
           \/ MediaStatus \/ IsTrayOpen \/ MultihostStatus \/ BusyStatus
  BY <1>2, <1>3, Zenon DEF SupportedEvents, OperationalEventStatus, PowerStatus, ExternalStatus,
                           MediaStatus, IsTrayOpen, MultihostStatus, BusyStatus
<1>4. CASE AudioStatus \/ MediaCatalogNumber \/ IsrcOfTrack \/ CdCurrentPosition
           \/ HardwareIdentifiers \/ \E c \in {"new", "with_device"} : MmcOpened(c)
  BY <1>1, <1>4, Zenon DEF AudioStatus, MediaCatalogNumber, IsrcOfTrack, CdCurrentPosition,
                           HardwareIdentifiers, MmcOpened
<1> QED
  BY <1>3, <1>4, Zenon DEF Decoded

\* Such a step returns what the device means.
LEMMA DecodedRight ==
  ASSUME Answered, Decoded
  PROVE  SaysWhatIsMeant' /\ AllUnderstood'
<1>1. call' = call
  BY DecodedReturns
<1>2. CASE SupportedEvents \/ OperationalEventStatus \/ PowerStatus \/ ExternalStatus
           \/ MediaStatus \/ IsTrayOpen \/ MultihostStatus \/ BusyStatus
  <2>1. ASSUME NEW c, NEW l, NEW g, NEW v, Described(c, l, g, v) PROVE call = c
    BY <2>1, Zenon DEF Described, Return
  <2>2. call \in {"supported_events", "operational_event_status", "power_status", "external_status",
                  "media_status", "is_tray_open", "multihost_status", "busy_status"}
    BY <1>2, <2>1, Zenon DEF SupportedEvents, OperationalEventStatus, PowerStatus, ExternalStatus,
                             MediaStatus, IsTrayOpen, MultihostStatus, BusyStatus
  <2>3. call \in EventCalls
    BY <2>2, Zenon DEF EventCalls
  <2>4. EventsAnswered
    BY <2>3, Zenon DEF Answered
  <2>5. (result.status = "Ok" => EventSays)' /\ EventUnderstood'
    BY <1>2, <2>4, SupportedRight, StatusRight
  <2> QED
    BY <1>1, <2>3, <2>5, EventReturned
<1>3. CASE AudioStatus \/ MediaCatalogNumber \/ IsrcOfTrack \/ CdCurrentPosition
  <2>1. call \in {"audio_status", "media_catalog_number", "isrc", "cd_current_position"}
    BY <1>3, Zenon DEF AudioStatus, MediaCatalogNumber, IsrcOfTrack, CdCurrentPosition, Return
  <2>2. call \in SubchannelCalls
    BY <2>1, Zenon DEF SubchannelCalls
  <2>3. SubchannelAnswered
    BY <2>2, Zenon DEF Answered
  <2>4. (result.status = "Ok" => SubchannelSays)' /\ SubchannelUnderstood'
    BY <1>3, <2>3, AudioRight, NumbersRight, PositionRight
  <2> QED
    BY <1>1, <2>2, <2>4, SubchannelReturned
<1>4. CASE HardwareIdentifiers \/ \E c \in {"new", "with_device"} : MmcOpened(c)
  <2>1. call \in {"hardware_identifiers", "new", "with_device"}
    BY <1>4, Zenon DEF HardwareIdentifiers, MmcOpened, Return
  <2>2. call \in InquiryCalls
    BY <2>1, Zenon DEF InquiryCalls
  <2>3. InquiryAnswered
    BY <2>2, Zenon DEF Answered
  <2>4. (result.status = "Ok" => InquirySays)' /\ InquiryUnderstood'
    BY <1>4, <2>3, InquiryRight
  <2> QED
    BY <1>1, <2>2, <2>4, InquiryReturned
<1> QED
  BY <1>2, <1>3, <1>4, Zenon DEF Decoded

-----------------------------------------------------------------------------
\* The steps that make a request.
Asks ==
  \/ \E c \in EventCalls : AskForEvents(c)
  \/ \E c \in SubchannelCalls \ {"isrc"} : AskSubchannel(c, 0)
  \/ \E n \in Tracks : AskIsrc(n)
  \/ \E c \in InquiryCalls : AskInquiry(c)

\* The steps by which a command fails.
Fails ==
  \/ \E c \in EventCalls \union SubchannelCalls : CommandFails(c, "Cmd")
  \/ CommandFails("hardware_identifiers", "Cmd")
  \/ \E c \in {"new", "with_device"} : CommandFails(c, MmcRefused(c))

\* The steps, by what they do to a call.
LEMMA StepsOfCalls ==
  ASSUME [Next]_vars
  PROVE  \/ OtherCommand \/ Forget \/ Asks \/ Fails \/ Decoded
         \/ AnswerEvents \/ AnswerSubchannel \/ AnswerInquiry
         \/ ConvertIso \/ ConvertEntry \/ ConvertDrive
         \/ UNCHANGED vars
<1>1. EventStatusNext => Asks \/ Fails \/ Decoded \/ AnswerEvents
  BY Zenon DEF EventStatusNext, Asks, Fails, Decoded
<1>2. SubchannelNext => Asks \/ Fails \/ Decoded \/ AnswerSubchannel
  BY Zenon DEF SubchannelNext, Asks, Fails, Decoded
<1>3. InquiryNext => Asks \/ Fails \/ Decoded \/ AnswerInquiry
  BY Zenon DEF InquiryNext, Asks, Fails, Decoded
<1> QED
  BY <1>1, <1>2, <1>3, Zenon DEF Next

\* A request begins a call.
LEMMA AsksRight ==
  ASSUME Asks
  PROVE  pc = "idle" /\ pc' = "asked" /\ UNCHANGED <<meant, data, result>> /\ Asked'
<1>1. CASE \E c \in EventCalls : AskForEvents(c)
  BY <1>1, EventsAsked, Zenon DEF AskForEvents, Ask
<1>2. ASSUME NEW c \in SubchannelCalls, NEW track \in 0..255, AskSubchannel(c, track)
      PROVE  pc = "idle" /\ pc' = "asked" /\ UNCHANGED <<meant, data, result>> /\ Asked'
  BY <1>2, SubchannelIsAsked, Zenon DEF AskSubchannel, Ask
<1>3. CASE \E c \in SubchannelCalls \ {"isrc"} : AskSubchannel(c, 0)
  <2>1. 0 \in 0..255
    OBVIOUS
  <2> QED
    BY <1>2, <1>3, <2>1, Zenon
<1>4. CASE \E n \in Tracks : AskIsrc(n)
  <2>1. PICK n \in 0..255 : AskSubchannel("isrc", n)
    BY <1>4, TracksAssumption, Zenon DEF AskIsrc
  <2>2. "isrc" \in SubchannelCalls
    BY DEF SubchannelCalls
  <2> QED
    BY <1>2, <2>1, <2>2, Zenon
<1>5. CASE \E c \in InquiryCalls : AskInquiry(c)
  <2>1. PICK c \in InquiryCalls : AskInquiry(c)
    BY <1>5
  <2>2. call' = c /\ pc = "idle" /\ pc' = "asked" /\ UNCHANGED <<meant, data, result>>
    BY <2>1, Zenon DEF AskInquiry, Ask
  <2>3. c \notin EventCalls /\ c \notin SubchannelCalls
    BY CallsAreDistinct, Zenon
  <2> QED
    BY <2>2, <2>3, Zenon DEF Asked
<1> QED
  BY <1>1, <1>3, <1>4, <1>5, Zenon DEF Asks

\* A command that fails ends a call with an error.
LEMMA FailsRight ==
  ASSUME Fails
  PROVE  pc = "asked" /\ pc' = "returned" /\ meant' = meant /\ result'.status # "Ok"
<1>1. ASSUME NEW c, NEW error, error # "Ok", CommandFails(c, error)
      PROVE  pc = "asked" /\ pc' = "returned" /\ meant' = meant /\ result'.status # "Ok"
  BY <1>1 DEF CommandFails
<1>2. "Cmd" # "Ok" /\ \A c : MmcRefused(c) # "Ok"
  BY DEF MmcRefused
<1> QED
  BY <1>1, <1>2, Zenon DEF Fails

\* No step breaks CallInv.
LEMMA CallInvStep ==
  ASSUME CallInv, [Next]_vars
  PROVE  CallInv'
<1>1. CASE OtherCommand
  BY <1>1, Zenon DEF OtherCommand, answerVars, CallInv
<1>2. CASE Forget
  BY <1>2, Zenon DEF Forget, CallInv
<1>3. CASE Asks
  BY <1>3, AsksRight, Zenon DEF CallInv
<1>4. CASE Fails
  BY <1>4, FailsRight, Zenon DEF CallInv
<1>5. CASE Decoded
  BY <1>5, DecodedReturns, Zenon DEF CallInv
<1>6. CASE AnswerEvents \/ AnswerSubchannel \/ AnswerInquiry
  <2>1. pc = "asked" /\ pc' = "decode" /\ UNCHANGED <<call, result, wireVars>>
    BY <1>6, Zenon DEF AnswerEvents, AnswerSubchannel, AnswerInquiry, Answer
  <2>2. Asked /\ Asked' /\ Answered'
    BY <1>6, <2>1, AskedKept, AnsweredRight DEF CallInv
  <2> QED
    BY <2>1, <2>2, Zenon DEF CallInv
<1>7. CASE ConvertIso \/ ConvertEntry \/ ConvertDrive
  <2>1. pc' = "returned"
    BY <1>7, Zenon DEF ConvertIso, ConvertEntry, ConvertDrive, Convert
  <2> QED
    BY <2>1, Zenon DEF CallInv
<1>8. CASE UNCHANGED vars
  <2>1. UNCHANGED <<request, cdb, pc, call, meant, data, result>>
    BY <1>8, Zenon DEF vars, wireVars, answerVars
  <2>2. Asked => Asked'
    BY <2>1, AskedKept, Zenon DEF wireVars
  <2>3. SubchannelAsked' = SubchannelAsked /\ SubchannelAnswers' = SubchannelAnswers
    BY <2>1, Zenon DEF SubchannelAsked, SubchannelAnswers, Whole, Flag
  <2>4. Answered => Answered'
    BY <2>1, <2>3, Zenon DEF Answered, EventsAnswered, SubchannelAnswered, InquiryAnswered
  <2> QED
    BY <2>1, <2>2, <2>4, Zenon DEF CallInv
<1> QED
  BY <1>1, <1>2, <1>3, <1>4, <1>5, <1>6, <1>7, <1>8, StepsOfCalls

\* No step breaks what a result says.
LEMMA ResultStep ==
  ASSUME CallInv, SaysWhatIsMeant, AllUnderstood, [Next]_vars
  PROVE  SaysWhatIsMeant' /\ AllUnderstood'
<1>1. CASE OtherCommand
  BY <1>1, NothingReturned, Zenon DEF OtherCommand, answerVars, CallInv
<1>2. CASE Forget
  BY <1>2, NothingReturned, Zenon DEF Forget
<1>3. CASE Asks
  BY <1>3, AsksRight, NothingReturned, Zenon DEF CallInv
<1>4. CASE Fails
  BY <1>4, FailsRight, ErrorReturned, Zenon DEF CallInv
<1>5. CASE Decoded
  BY <1>5, DecodedReturns, DecodedRight, Zenon DEF CallInv
<1>6. CASE AnswerEvents \/ AnswerSubchannel \/ AnswerInquiry
  <2>1. pc = "asked" /\ pc' = "decode" /\ result' = result
    BY <1>6, Zenon DEF AnswerEvents, AnswerSubchannel, AnswerInquiry, Answer
  <2> QED
    BY <2>1, NothingReturned, Zenon DEF CallInv
<1>7. CASE ConvertIso \/ ConvertEntry \/ ConvertDrive
  BY <1>7, ConvertRight
<1>8. CASE UNCHANGED vars
  <2>1. UNCHANGED <<request, cdb, pc, call, meant, data, result>>
    BY <1>8, Zenon DEF vars, wireVars, answerVars
  <2>2. SaysWhatIsMeant' = SaysWhatIsMeant
    BY <2>1, Zenon DEF SaysWhatIsMeant, EventSays, SubchannelSays, InquirySays
  <2>3. AllUnderstood' = AllUnderstood
    BY <2>1, Zenon DEF AllUnderstood, EventUnderstood, SubchannelUnderstood, InquiryUnderstood
  <2> QED
    BY <2>2, <2>3, Zenon
<1> QED
  BY <1>1, <1>2, <1>3, <1>4, <1>5, <1>6, <1>7, <1>8, StepsOfCalls

\* What a call that succeeds returns is what the device, or the image, means
\* about what was asked for.
THEOREM CallsSayWhatIsMeant == Spec => []SaysWhatIsMeant
<1>1. Init => CallInv /\ SaysWhatIsMeant /\ AllUnderstood
  BY DEF Init, AnswerInit, CallInv, NoResult, SaysWhatIsMeant, AllUnderstood
<1> QED
  BY <1>1, CallInvStep, ResultStep, PTL DEF Spec

\* Every answer that the standard allows is understood.
THEOREM AnswersUnderstood == Spec => []AllUnderstood
<1>1. Init => CallInv /\ SaysWhatIsMeant /\ AllUnderstood
  BY DEF Init, AnswerInit, CallInv, NoResult, SaysWhatIsMeant, AllUnderstood
<1> QED
  BY <1>1, CallInvStep, ResultStep, PTL DEF Spec
=============================================================================
