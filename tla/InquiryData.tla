---------------------------- MODULE InquiryData ----------------------------
(***************************************************************************)
(* INQUIRY (mmc/inquiry.rs): hardware_identifiers, and is_mmc_device, on    *)
(* which Mmc::new and Mmc::with_device (mmc.rs) accept a device.            *)
(***************************************************************************)
EXTENDS Answers, SequencesExt

\* Mmc::new and Mmc::with_device differ in their errors.
InquiryCalls == {"hardware_identifiers", "new", "with_device"}

Space == 32
Blank(text) == \A k \in DOMAIN text : text[k] = Space

-----------------------------------------------------------------------------
(***************************************************************************)
(* External: the answers of a device.                                       *)
(***************************************************************************)
\* Names of up to n characters, with a space inside but not at an end.
Names(n) == {<<>>, <<65, 32, 66>>, [k \in 1..n |-> 65 + k]}

InquiryAnswers ==
  [type : {0, 5, 31}, qualifier : {0, 1, 3}, format : {0, 1, 2, 3}, upper : {0, 1},
   vendor : Names(8), product : Names(16), revision : Names(4)]

\* A name is padded with spaces, or starts with one.
Padded(name, k) == IF k \in DOMAIN name THEN name[k] ELSE Space

InquiryBytes(a) ==
  [k \in 0..35 |->
     CASE k = 0 -> a.type + 32 * a.qualifier
       [] k = 3 -> a.format + 16 * a.upper
       [] k \in 8..15  -> Padded(a.vendor, k - 7)
       [] k \in 16..31 -> Padded(a.product, k - 15)
       [] k \in 32..35 -> Padded(a.revision, k - 31)
       [] OTHER -> 0]

-----------------------------------------------------------------------------
(***************************************************************************)
(* The methods.                                                             *)
(***************************************************************************)
\* inquiry(InquiryKind::Standard)
AskInquiry(c) ==
  LET r == [op |-> "inquiry", vital |-> FALSE, page |-> 0, len |-> 255] IN Ask(c, r, Inquiry(r))

AnswerInquiry == call \in InquiryCalls /\ \E a \in InquiryAnswers : Answer(a, InquiryBytes(a))

\* str::trim
Trim(text) ==
  IF Blank(text) THEN <<>>
  ELSE LET first == SelectInSeq(text, LAMBDA char : char # Space)
           last  == SelectLastInSeq(text, LAMBDA char : char # Space)
       IN  SubSeq(text, first, last)

\* Mutant: the end position is left out.
FieldShort(from, to) == Trim([k \in 1..to - from |-> data[from + k - 1]])

\* The bytes from..=to, as a string.
FieldText(from, to) == Trim([k \in 1..to - from + 1 |-> data[from + k - 1]])

HardwareIdentifiers ==
  Return("hardware_identifiers",
         IF Bits(data[3], 0, 4) # 2 THEN [status |-> "InvalidResponse"]
         ELSE [status |-> "Ok", value |-> [vendor |-> FieldText(8, 15), product |-> FieldText(16, 31),
                                           revision |-> FieldText(32, 35)]])

\* is_mmc_device
IsMmcDevice == Bits(data[0], 0, 5) = 5

\* The Mmc is returned if the device answers that it is one, or dropped.
MmcRefused(c) == IF c = "new" THEN "MmcNotFound" ELSE "MmcNotSupported"
MmcOpened(c) ==
  Return(c, IF IsMmcDevice THEN [status |-> "Ok", value |-> "Mmc"] ELSE [status |-> MmcRefused(c)])

InquiryNext == \/ \E c \in InquiryCalls : AskInquiry(c)
               \/ AnswerInquiry
               \/ HardwareIdentifiers \/ CommandFails("hardware_identifiers", "Cmd")
               \/ \E c \in {"new", "with_device"} : MmcOpened(c) \/ CommandFails(c, MmcRefused(c))

-----------------------------------------------------------------------------
\* The names of the device, and only a CD or DVD device is an Mmc.
InquirySays ==
  IF call = "hardware_identifiers"
    THEN result.value = [vendor |-> meant.vendor, product |-> meant.product, revision |-> meant.revision]
    ELSE meant.type = 5

InquiryUnderstood ==
  /\ call = "hardware_identifiers" /\ meant.format = 2 => result.status = "Ok"
  /\ call # "hardware_identifiers" /\ meant.type = 5 => result.status = "Ok"
=============================================================================
