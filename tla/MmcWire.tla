------------------------------ MODULE MmcWire ------------------------------
(***************************************************************************)
(* What a device reads in the command blocks of MmcCdb.  Every operation of *)
(* mmc/*.rs fills a block that was all zero; the fields of the MMC standard *)
(* give the block its meaning again, which has to be the request.           *)
(***************************************************************************)
EXTENDS MmcCdb

CONSTANTS Sectors,   \* sector addresses, u32
          Words,     \* counts, speeds and allocation lengths, u16
          Numbers    \* tracks, sessions and pages, u8

U16 == {n \in Nat : n \div 256 \in 0..255}
U32 == {n \in Nat : n \div 65536 \in U16}

ASSUME WireAssumption == Sectors \subseteq U32 /\ Words \subseteq U16 /\ Numbers \subseteq 0..255

VARIABLES request,   \* the operation that executes, with its arguments
          cdb        \* its command block

wireVars == <<request, cdb>>

NoRequest == [op |-> "none"]

WireInit == request = NoRequest /\ cdb = Cdb(0)

Idle == request = NoRequest
Send(r, block) == request' = r /\ cdb' = block

SendReadCd ==
  Idle /\ \E type \in SectorTypes, dap, sync, header, subheader, user_data, ecc \in BOOLEAN,
     c2_error \in C2Options, subchannel \in Subchannels, sector \in Sectors, count \in Words :
    /\ dap => type = Cdda
    /\ LET r == [op |-> "read_cd", type |-> type, dap |-> dap, sync |-> sync, header |-> header,
                 subheader |-> subheader, user_data |-> user_data, ecc |-> ecc,
                 c2_error |-> c2_error, subchannel |-> subchannel, sector |-> sector, count |-> count]
       IN  Send(r, ReadCd(r))

SendSetCdSpeed ==
  Idle /\ \E mode \in 0..1, read_speed, write_speed \in Words :
    LET r == [op |-> "set_cd_speed", mode |-> mode, read_speed |-> read_speed, write_speed |-> write_speed]
    IN  Send(r, SetCdSpeed(r))

\* The argument of an operation that has none is 0; a power condition is
\* Idle, Standby or Sleep.
SendStartStopUnit ==
  Idle /\ \E operation \in {"StopDisc", "StartDisc", "EjectDisc", "LoadStartDisc", "Jump", "Power"} :
  \E arg \in CASE operation = "Jump" -> 0..3 [] operation = "Power" -> {2, 3, 5} [] OTHER -> {0} :
    LET r == [op |-> "start_stop_unit", operation |-> operation, arg |-> arg]
    IN  Send(r, StartStopUnit(r))

SendPreventAllow ==
  Idle /\ \E prevent \in 0..3 :
    LET r == [op |-> "prevent_allow", prevent |-> prevent] IN Send(r, PreventAllowMediumRemoval(r))

SendTestUnitReady == Idle /\ Send([op |-> "test_unit_ready"], TestUnitReady)

\* A format without an address or a number has FALSE and 0 there.
SendReadToc ==
  Idle /\ \E format \in 0..5, len \in Words :
  \E time \in IF format \in {0, 1} THEN BOOLEAN ELSE {FALSE},
     number \in IF format \in {0, 2} THEN Numbers ELSE {0} :
    LET r == [op |-> "read_toc", format |-> format, time |-> time, number |-> number, len |-> len]
    IN  Send(r, ReadToc(r))

SendReadDiscInfo ==
  Idle /\ \E kind \in 0..2, len \in Words :
    LET r == [op |-> "read_disc_info", kind |-> kind, len |-> len] IN Send(r, ReadDiscInfo(r))

SendReadSubchannel ==
  Idle /\ \E time \in BOOLEAN, param \in 1..3 : \E number \in IF param = 3 THEN Numbers ELSE {0} :
    LET r == [op |-> "read_subchannel", time |-> time, param |-> param, number |-> number, len |-> 24]
    IN  Send(r, ReadSubchannel(r))

SendGetEventStatus ==
  Idle /\ \E polled \in BOOLEAN, classes \in {{}} \union {{k} : k \in 1..6} :
    LET r == [op |-> "get_event_status", polled |-> polled, classes |-> classes, len |-> 12]
    IN  Send(r, GetEventStatus(r))

SendInquiry ==
  Idle /\ \E vital \in BOOLEAN : \E page \in IF vital THEN Numbers ELSE {0} :
    LET r == [op |-> "inquiry", vital |-> vital, page |-> page, len |-> 255] IN Send(r, Inquiry(r))

\* The command is over; the next operation begins with Cdb::default().
Finish ==
  /\ ~Idle
  /\ request' = NoRequest
  /\ cdb' = Cdb(0)

WireNext == \/ SendReadCd \/ SendSetCdSpeed \/ SendStartStopUnit \/ SendPreventAllow
            \/ SendTestUnitReady \/ SendReadToc \/ SendReadDiscInfo \/ SendReadSubchannel
            \/ SendGetEventStatus \/ SendInquiry
            \/ Finish

-----------------------------------------------------------------------------
(***************************************************************************)
(* External: the fields of the blocks in MMC-6 and SPC-3.                   *)
(***************************************************************************)
\* The number that bits stand for.
Number(bits) ==
  LET weigh(k, weight) == IF k \in bits THEN weight ELSE 0
  IN  weigh(0, 1) + weigh(1, 2) + weigh(2, 4) + weigh(3, 8)
      + weigh(4, 16) + weigh(5, 32) + weigh(6, 64) + weigh(7, 128)

\* n bits of a byte of the block, from the bit `low` up; a byte, a word, a bit.
Field(block, at, low, n) == Number({k \in 0..n - 1 : k + low \in block[at]})
Whole(block, at)         == Number(block[at])
Word16(block, at)        == 256 * Whole(block, at) + Whole(block, at + 1)
Flag(block, at, k)       == k \in block[at]

StartStopMeaning(block) ==
  CASE Field(block, 4, 4, 4) # 0                   -> <<"Power", Field(block, 4, 4, 4)>>
    [] Field(block, 4, 4, 4) = 0 /\ Flag(block, 4, 2) -> <<"Jump", Field(block, 3, 0, 2)>>
    [] OTHER -> <<CASE block[4] \cap 0..1 = {}  -> "StopDisc"
                    [] block[4] \cap 0..1 = {0} -> "StartDisc"
                    [] block[4] \cap 0..1 = {1} -> "EjectDisc"
                    [] OTHER                    -> "LoadStartDisc", 0>>

Meaning(block) ==
  CASE Whole(block, 0) = 190 ->
         [op |-> "read_cd", type |-> Field(block, 1, 2, 3), dap |-> Flag(block, 1, 1),
          sync |-> Flag(block, 9, 7), subheader |-> Flag(block, 9, 6), header |-> Flag(block, 9, 5),
          user_data |-> Flag(block, 9, 4), ecc |-> Flag(block, 9, 3), c2_error |-> Field(block, 9, 1, 2),
          subchannel |-> Field(block, 10, 0, 3),
          sector |-> 65536 * Word16(block, 2) + Word16(block, 4),
          count |-> 65536 * Whole(block, 6) + Word16(block, 7)]
    [] Whole(block, 0) = 187 ->
         [op |-> "set_cd_speed", mode |-> Field(block, 1, 0, 2),
          read_speed |-> Word16(block, 2), write_speed |-> Word16(block, 4)]
    [] Whole(block, 0) = 27 ->
         [op |-> "start_stop_unit", operation |-> StartStopMeaning(block)[1], arg |-> StartStopMeaning(block)[2]]
    [] Whole(block, 0) = 30 -> [op |-> "prevent_allow", prevent |-> Field(block, 4, 0, 2)]
    [] Whole(block, 0) = 0  -> [op |-> "test_unit_ready"]
    [] Whole(block, 0) = 67 ->
         [op |-> "read_toc", format |-> Field(block, 2, 0, 4), time |-> Flag(block, 1, 1),
          number |-> Whole(block, 6), len |-> Word16(block, 7)]
    [] Whole(block, 0) = 81 ->
         [op |-> "read_disc_info", kind |-> Field(block, 1, 0, 3), len |-> Word16(block, 7)]
    [] Whole(block, 0) = 66 ->
         [op |-> "read_subchannel", time |-> Flag(block, 1, 1), param |-> Whole(block, 3),
          number |-> Whole(block, 6), len |-> Word16(block, 7)]
    [] Whole(block, 0) = 74 ->
         [op |-> "get_event_status", polled |-> Flag(block, 1, 0), classes |-> block[4],
          len |-> Word16(block, 7)]
    [] Whole(block, 0) = 18 ->
         [op |-> "inquiry", vital |-> Flag(block, 1, 0), page |-> Whole(block, 2), len |-> Word16(block, 3)]

\* The places, byte and bit, that a block has fields in.
All == 0..7
Fields(op) ==
  CASE op = "read_cd"          -> ({1} \X (1..4)) \union ((2..8) \X All) \union ({9} \X (1..7)) \union ({10} \X (0..2))
    [] op = "set_cd_speed"     -> ({1} \X (0..1)) \union ((2..5) \X All)
    [] op = "start_stop_unit"  -> ({3} \X (0..1)) \union ({4} \X (All \ {3}))
    [] op = "prevent_allow"    -> {4} \X (0..1)
    [] op = "test_unit_ready"  -> {}
    [] op = "read_toc"         -> {<<1, 1>>} \union ({2} \X (0..3)) \union ((6..8) \X All)
    [] op = "read_disc_info"   -> ({1} \X (0..2)) \union ((7..8) \X All)
    [] op = "read_subchannel"  -> {<<1, 1>>, <<2, 6>>} \union (({3} \union 6..8) \X All)
    [] op = "get_event_status" -> {<<1, 0>>} \union (({4} \union 7..8) \X All)
    [] op = "inquiry"          -> {<<1, 0>>} \union ((2..4) \X All)

-----------------------------------------------------------------------------
\* A device that reads a command block by the standard reads the request in
\* it, with every argument: no field is cut short, spills into its neighbour
\* or lands in a reserved bit.
Understood ==
  request.op # "none" =>
    /\ \A at \in 1..11 : \A k \in cdb[at] : <<at, k>> \in Fields(request.op)
    /\ Meaning(cdb) = request
=============================================================================
