------------------------------ MODULE Features ------------------------------
(***************************************************************************)
(* MmcFeature (mmc/get_config.rs): the features of a drive, and what parse  *)
(* makes of the bytes of one descriptor.  A member of an enum is its        *)
(* discriminant; the variants of MmcFeature that no parser makes are left   *)
(* out.  The byte at index k of the code is at k + 1 of the sequence.       *)
(***************************************************************************)
EXTENDS Integers, Sequences, FiniteSets

ProfileKinds   == 1..5 \union 8..10 \union 16..24 \union {26, 27} \union 32..34 \union {42, 43}
                  \union 64..67 \union 80..83 \union {88, 89, 65535}
Interfaces     == 0..8 \union {65535}
LoadMechanisms == {0, 1, 2, 4, 5}

MmcProfile == [active : BOOLEAN, kind : ProfileKinds]

\* The variants; a list has up to n profiles, a serial number is one of texts.
ProfileLists(n)  == [is : {"ProfileList"}, profiles : UNION {[1..k -> MmcProfile] : k \in 0..n}]
Cores            == [is : {"Core"}, interface : Interfaces]
Morphings        == [is : {"Morphing"}, async_events : BOOLEAN, op_chg_events : BOOLEAN]
RemovableMedia   == [is : {"RemovableMedium"}, eject : BOOLEAN, lock : BOOLEAN,
                     prevent_jumper : BOOLEAN, load_mech : LoadMechanisms]
CdReads          == [is : {"CdRead"}, active : BOOLEAN, c2_error : BOOLEAN,
                     cd_text : BOOLEAN, dap : BOOLEAN]
AudioPlays(most) == [is : {"CdAudioExternalPlay"}, active : BOOLEAN, scan : BOOLEAN,
                     sep_channel_mute : BOOLEAN, sep_volume : BOOLEAN, volume_levels : 0..most]
DvdCsses(most)   == [is : {"DvdCss"}, active : BOOLEAN, version : 0..most]
Serials(texts)   == [is : {"DriveSerialNumber"}, sno : texts]

NoFeature == [is |-> "None"]

-----------------------------------------------------------------------------
Flag(byte, k) == (byte \div 2^k) % 2 = 1

\* read_u16 and read_u32, at index k of the code.
Word(dtor, k) == 256 * dtor[k + 1] + dtor[k + 2]
Long(dtor, k) == 65536 * Word(dtor, k) + Word(dtor, k + 2)

\* filter_map, as a Vec collects it: the items whose index is in keep, in order.
\* The m-th of them is the one up to which keep has m members.
Nth(keep, m)    == CHOOSE k \in keep : Cardinality(keep \cap 1..k) = m
Filter(s, keep) == [m \in 1..Cardinality(keep) |-> s[Nth(keep, m)]]

\* Mutant: a profile that is not known ends the list.
ProfileListCut(dtor) ==
  LET kind(k)  == Word(dtor, 4 * k)
      known(n) == \A k \in 1..n : kind(k) \in ProfileKinds
      most     == CHOOSE n \in 0..(Len(dtor) \div 4) - 1 :
                    /\ known(n)
                    /\ n + 1 <= (Len(dtor) \div 4) - 1 => ~known(n + 1)
  IN  [is |-> "ProfileList", profiles |->
         [k \in 1..most |-> [active |-> Flag(dtor[4 * k + 3], 0), kind |-> kind(k)]]]

\* A chunk of four bytes for each profile; the unknown kinds are left out.
ProfileList(dtor) ==
  LET chunks == [k \in 1..(Len(dtor) \div 4) - 1 |->
                   [active |-> Flag(dtor[4 * k + 3], 0), kind |-> Word(dtor, 4 * k)]]
  IN  [is |-> "ProfileList",
       profiles |-> Filter(chunks, {k \in DOMAIN chunks : chunks[k].kind \in ProfileKinds})]

Core(dtor) ==
  IF Long(dtor, 4) \in Interfaces THEN [is |-> "Core", interface |-> Long(dtor, 4)] ELSE NoFeature

Morphing(dtor) == [is |-> "Morphing", async_events |-> Flag(dtor[5], 0),
                   op_chg_events |-> Flag(dtor[5], 1)]

\* Mutant: the jumper bit is read as the others are.
MediumJumperAsIs(dtor) ==
  [is |-> "RemovableMedium", eject |-> Flag(dtor[5], 3), lock |-> Flag(dtor[5], 0),
   prevent_jumper |-> Flag(dtor[5], 2), load_mech |-> dtor[5] \div 32]

\* The bit of the jumper is set when there is none.
Medium(dtor) ==
  IF dtor[5] \div 32 \in LoadMechanisms
  THEN [is |-> "RemovableMedium", eject |-> Flag(dtor[5], 3), lock |-> Flag(dtor[5], 0),
        prevent_jumper |-> ~Flag(dtor[5], 2), load_mech |-> dtor[5] \div 32]
  ELSE NoFeature

CdRead(dtor) ==
  [is |-> "CdRead", active |-> Flag(dtor[3], 0), c2_error |-> Flag(dtor[5], 0),
   cd_text |-> Flag(dtor[5], 1), dap |-> Flag(dtor[5], 7)]

CdAudioExternalPlay(dtor) ==
  [is |-> "CdAudioExternalPlay", active |-> Flag(dtor[3], 0), scan |-> Flag(dtor[5], 2),
   sep_channel_mute |-> Flag(dtor[5], 1), sep_volume |-> Flag(dtor[5], 0),
   volume_levels |-> Word(dtor, 6)]

DvdCss(dtor) == [is |-> "DvdCss", active |-> Flag(dtor[3], 0), version |-> dtor[8]]

\* A serial number that is current and UTF-8, which has no byte 255 and every
\* byte below 128; the bytes between are not among the inputs.
DriveSerialNum(dtor) ==
  LET sno == SubSeq(dtor, 5, 4 + dtor[4])
  IN  IF Flag(dtor[3], 0) /\ \A k \in DOMAIN sno : sno[k] < 128
      THEN [is |-> "DriveSerialNumber", sno |-> sno] ELSE NoFeature

-----------------------------------------------------------------------------
Code(dtor) == Word(dtor, 0)

\* The checks at the head of parse.
WholeDescriptor(dtor) == Len(dtor) >= 4 /\ Len(dtor) = dtor[4] + 4

\* The data bytes that a parser indexes, whatever the length of the data.
DataRead(code) == CASE code \in {2, 3, 30}    -> 1
                    [] code \in {1, 259, 262} -> 4
                    [] OTHER                  -> 0

Panics(dtor) == WholeDescriptor(dtor) /\ Len(dtor) < 4 + DataRead(Code(dtor))

Parse(dtor) ==
  IF ~WholeDescriptor(dtor) THEN NoFeature
  ELSE CASE Code(dtor) = 0   -> ProfileList(dtor)
         [] Code(dtor) = 1   -> Core(dtor)
         [] Code(dtor) = 2   -> Morphing(dtor)
         [] Code(dtor) = 3   -> Medium(dtor)
         [] Code(dtor) = 30  -> CdRead(dtor)
         [] Code(dtor) = 259 -> CdAudioExternalPlay(dtor)
         [] Code(dtor) = 262 -> DvdCss(dtor)
         [] Code(dtor) = 264 -> DriveSerialNum(dtor)
         [] OTHER            -> NoFeature

-----------------------------------------------------------------------------
(***************************************************************************)
(* External: the features of a device, and their descriptors in MMC-6.  A   *)
(* device may have kinds, interfaces and mechanisms that the crate does not *)
(* know, and features that have no parser.                                  *)
(***************************************************************************)
U16        == {n \in Nat : n \div 65536 = 0}
U32        == {n \in Nat : n \div 65536 \in U16}
AnyProfile == [active : BOOLEAN, kind : U16]

\* Of an audio player's feature the volumes, of a serial number the characters,
\* are in the descriptor's data.
IsFeature(f) ==
  \/ f \in [is : {"ProfileList"}, profiles : Seq(AnyProfile)] /\ Len(f.profiles) <= 63
  \/ f \in [is : {"Core"}, interface : U32]
  \/ f \in Morphings
  \/ f \in [is : {"RemovableMedium"}, eject : BOOLEAN, lock : BOOLEAN,
            prevent_jumper : BOOLEAN, load_mech : 0..7]
  \/ f \in CdReads
  \/ f \in [is : {"CdAudioExternalPlay"}, active : BOOLEAN, scan : BOOLEAN,
            sep_channel_mute : BOOLEAN, sep_volume : BOOLEAN, volume_levels : U16]
  \/ f \in DvdCsses(255)
  \/ f \in [is : {"DriveSerialNumber"}, active : BOOLEAN, sno : Seq(0..127 \union {255})]
  \/ f \in [is : {"Other"}, code : U16 \ {0, 1, 2, 3, 30, 259, 262, 264}]

FeatureCode(f) ==
  CASE f.is = "ProfileList"         -> 0
    [] f.is = "Core"                -> 1
    [] f.is = "Morphing"            -> 2
    [] f.is = "RemovableMedium"     -> 3
    [] f.is = "CdRead"              -> 30
    [] f.is = "CdAudioExternalPlay" -> 259
    [] f.is = "DvdCss"              -> 262
    [] f.is = "DriveSerialNumber"   -> 264
    [] f.is = "Other"               -> f.code

Bit(flag, n)    == IF flag THEN n ELSE 0
ProfileBytes(p) == <<p.kind \div 256, p.kind % 256, Bit(p.active, 1), 0>>

\* The data that a feature has in every version of its descriptor.
FeatureData(f) ==
  CASE f.is = "ProfileList" ->
         [j \in 1..4 * Len(f.profiles) |-> ProfileBytes(f.profiles[(j + 3) \div 4])[((j + 3) % 4) + 1]]
    [] f.is = "Core" -> LET high == f.interface \div 65536
                            low  == f.interface % 65536
                        IN  <<high \div 256, high % 256, low \div 256, low % 256>>
    [] f.is = "Morphing" -> <<Bit(f.async_events, 1) + Bit(f.op_chg_events, 2)>>
    [] f.is = "RemovableMedium" ->
         <<Bit(f.lock, 1) + Bit(~f.prevent_jumper, 4) + Bit(f.eject, 8) + 32 * f.load_mech>>
    [] f.is = "CdRead" -> <<Bit(f.cd_text, 1) + Bit(f.c2_error, 2) + Bit(f.dap, 128)>>
    [] f.is = "CdAudioExternalPlay" ->
         <<Bit(f.sep_volume, 1) + Bit(f.sep_channel_mute, 2) + Bit(f.scan, 4), 0,
           f.volume_levels \div 256, f.volume_levels % 256>>
    [] f.is = "DvdCss"            -> <<0, 0, 0, f.version>>
    [] f.is = "DriveSerialNumber" -> f.sno
    [] f.is = "Other"             -> <<>>

\* The bytes are a descriptor of the feature f.  All data of a list and of a
\* serial number are their own; behind those of another feature there may be
\* more, in a later version of the standard.
Describes(bytes, f) ==
  /\ Len(bytes) >= 4 /\ Len(bytes) = bytes[4] + 4
  /\ 256 * bytes[1] + bytes[2] = FeatureCode(f)
  /\ "active" \in DOMAIN f => bytes[3] % 2 = Bit(f.active, 1)
  /\ Len(FeatureData(f)) <= bytes[4]
  /\ f.is \in {"ProfileList", "DriveSerialNumber"} => Len(FeatureData(f)) = bytes[4]
  /\ \A j \in DOMAIN FeatureData(f) : bytes[4 + j] = FeatureData(f)[j]

\* What a program should be told of the feature f, if anything.
ValueOf(f) ==
  CASE f.is = "ProfileList" ->
         [f EXCEPT !.profiles = Filter(@, {k \in DOMAIN @ : @[k].kind \in ProfileKinds})]
    [] f.is = "Core"              -> IF f.interface \in Interfaces THEN f ELSE NoFeature
    [] f.is = "RemovableMedium"   -> IF f.load_mech \in LoadMechanisms THEN f ELSE NoFeature
    [] f.is = "DriveSerialNumber" -> IF f.active /\ \A k \in DOMAIN f.sno : f.sno[k] < 128
                                     THEN [is |-> "DriveSerialNumber", sno |-> f.sno] ELSE NoFeature
    [] f.is = "Other"             -> NoFeature
    [] OTHER                      -> f
=============================================================================
