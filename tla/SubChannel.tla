----------------------------- MODULE SubChannel -----------------------------
(***************************************************************************)
(* READ SUB-CHANNEL (mmc/read_subchannel.rs): audio_status,                 *)
(* media_catalog_number, isrc and cd_current_position.  A catalogue number  *)
(* and an ISRC are sequences of bytes, of which those from 128 on are not   *)
(* UTF-8 here.                                                              *)
(***************************************************************************)
EXTENDS Answers

CONSTANT Tracks   \* bound: the numbers that TrackNumber::try_from is given

ASSUME TracksAssumption == Tracks \subseteq 0..255

SubchannelCalls == {"audio_status", "media_catalog_number", "isrc", "cd_current_position"}

\* SubchannelParameter::discriminant
Position == 1
Mcn      == 2
Isrc     == 3
Parameter(c) == CASE c = "media_catalog_number" -> Mcn [] c = "isrc" -> Isrc [] OTHER -> Position

\* AddressFormat
Time(c) == c = "cd_current_position"

\* MmcAudioStatus, PlayInProgress to NoStatus; 0 is "not supported or valid".
AudioStatuses == 17..21
NotSupportedOrValid == 0

-----------------------------------------------------------------------------
(***************************************************************************)
(* External: the answers of a device.                                       *)
(***************************************************************************)
\* The bytes that a descriptor has behind the header.
FullLength(format) == IF format = Position THEN 12 ELSE 20

\* The digits of a number of n characters, or garbage.
CodeTexts(n) == {[k \in 1..n |-> 48 + (k % 10)], [k \in 1..n |-> IF k = n THEN 200 ELSE 65]}

\* A disc at 1:02:33 in the track, 5:06:07 from its start, by address format.
At(time) == IF time THEN <<0, 5, 6, 7, 0, 1, 2, 33>> ELSE <<0, 0, 89, 157, 0, 0, 18, 63>>

\* What the device means, with the odd cases: a status that is reserved,
\* another length, format or track than the command asks for, or garbage where
\* a zero should be.
SubchannelAnswers ==
  LET asked == Whole(cdb, 3)
      text  == IF asked = Position THEN {<<>>} ELSE CodeTexts(IF asked = Mcn THEN 13 ELSE 12)
      full  == FullLength(asked)
  IN  [audio : {0, 17, 20, 21}, len : {full}, format : {asked}, track : {IF asked = Isrc THEN Whole(cdb, 6) ELSE 7},
       valid : BOOLEAN, text : text, zero : {0}, time : {Flag(cdb, 1, 1)}]
      \union
      [audio : {0, 16, 17, 22}, len : {0, full - 1, full, 20, 21}, format : {asked, Mcn}, track : {1, 7},
       valid : {TRUE}, text : text, zero : {0, 1}, time : {Flag(cdb, 1, 1)}]

\* The bytes of an answer; from the eighth on, a position or a number.
CodeByte(a, k) ==
  CASE k = 8                     -> IF a.valid THEN 128 ELSE 0
    [] k - 8 \in 1..Len(a.text) -> a.text[k - 8]
    [] k = 9 + Len(a.text)       -> a.zero
    [] OTHER                     -> 0

SubchannelBytes(a) ==
  [k \in 0..23 |->
     CASE k = 1 -> a.audio
       [] k = 3 -> a.len
       [] k = 4 -> a.format
       [] k = 5 /\ a.format # Mcn -> 20
       [] k = 6 /\ a.format # Mcn -> a.track
       [] k = 7 /\ a.format = Position -> 1
       [] k \in 8..15 /\ a.format = Position -> At(a.time)[k - 7]
       [] k \in 8..23 /\ a.format # Position -> CodeByte(a, k)
       [] OTHER -> 0]

-----------------------------------------------------------------------------
(***************************************************************************)
(* The methods.                                                             *)
(***************************************************************************)
\* TrackNumber::try_from
ValidTrack(n) == n \in 1..99

\* read_subchannel(address_format, param)
AskSubchannel(c, track) ==
  LET r == [op |-> "read_subchannel", time |-> Time(c), param |-> Parameter(c), number |-> track, len |-> 24]
  IN  Ask(c, r, ReadSubchannel(r))

\* isrc takes a TrackNumber, so nothing is sent for another number.
AskIsrc(n) == ValidTrack(n) /\ AskSubchannel("isrc", n)

AnswerSubchannel ==
  call \in SubchannelCalls /\ \E a \in SubchannelAnswers : Answer(a, SubchannelBytes(a))

\* parse_header: length_take keeps the bytes that the length says.
SubHeader == InWord(2) <= 20

\* A status that is not zero has to be one of the enum.
StatusKnown == data[1] \in {NotSupportedOrValid} \union AudioStatuses

\* The answer has n bytes behind the header, and says what it was asked for.
Descriptor(n, param) == SubHeader /\ StatusKnown /\ InWord(2) >= n /\ data[4] = param

Text(from, n) == [k \in 1..n |-> data[from + k - 1]]

\* String::from_utf8(..).expect(..)
NumberResult(valid, text) ==
  IF ~valid THEN [status |-> "Ok", value |-> <<>>]
  ELSE IF \E k \in DOMAIN text : text[k] >= 128 THEN [status |-> "Panic"]
  ELSE [status |-> "Ok", value |-> text]

AudioStatus ==
  Return("audio_status",
         IF ~(SubHeader /\ StatusKnown) THEN [status |-> "InvalidResponse"]
         ELSE IF data[1] = NotSupportedOrValid THEN [status |-> "NotSupported"]
         ELSE [status |-> "Ok", value |-> data[1]])

\* Mutant: the reserved bytes before the MCVAL bit are two.
MediaCatalogNumberEarly ==
  Return("media_catalog_number",
         IF Descriptor(20, Mcn) /\ data[21] = 0 THEN NumberResult(Bits(data[7], 7, 1) = 1, Text(8, 13))
         ELSE [status |-> "InvalidResponse"])

MediaCatalogNumber ==
  Return("media_catalog_number",
         IF Descriptor(20, Mcn) /\ data[22] = 0 THEN NumberResult(Bits(data[8], 7, 1) = 1, Text(9, 13))
         ELSE [status |-> "InvalidResponse"])

IsrcOfTrack ==
  Return("isrc",
         IF Descriptor(19, Isrc) /\ data[6] = request.number /\ data[21] = 0
           THEN NumberResult(Bits(data[8], 7, 1) = 1, Text(9, 12))
         ELSE [status |-> "InvalidResponse"])

TimePosition(at) == [hour |-> data[at], minute |-> data[at + 1], second |-> data[at + 2], frame |-> data[at + 3]]

CdCurrentPosition ==
  Return("cd_current_position",
         IF Descriptor(12, Position)
           THEN [status |-> "Ok", value |-> [track |-> data[6], index |-> data[7],
                   absolute_position |-> TimePosition(8), relative_position |-> TimePosition(12)]]
         ELSE [status |-> "InvalidResponse"])

SubchannelNext ==
  \/ \E c \in SubchannelCalls \ {"isrc"} : AskSubchannel(c, 0)
  \/ \E n \in Tracks : AskIsrc(n)
  \/ \E c \in SubchannelCalls : CommandFails(c, "Cmd")
  \/ AnswerSubchannel
  \/ AudioStatus \/ MediaCatalogNumber \/ IsrcOfTrack \/ CdCurrentPosition

-----------------------------------------------------------------------------
\* The value a caller should get for what the device means; no number is <<>>.
SubchannelMeaning(c, a) ==
  CASE c = "audio_status" -> a.audio
    [] c \in {"media_catalog_number", "isrc"} -> IF a.valid THEN a.text ELSE <<>>
    [] c = "cd_current_position" ->
         [track |-> a.track, index |-> 1,
          absolute_position |-> [hour |-> 0, minute |-> 5, second |-> 6, frame |-> 7],
          relative_position |-> [hour |-> 0, minute |-> 1, second |-> 2, frame |-> 33]]

\* The value is about what was asked for, and so is the track of an ISRC.
SubchannelSays ==
  /\ result.value = SubchannelMeaning(call, meant)
  /\ call # "audio_status" => meant.format = Parameter(call)
  /\ call = "isrc" => meant.track = request.number

\* A regular answer is understood, but for the panic over a number that is not
\* text.
SubchannelUnderstood ==
  /\ meant.len = FullLength(Parameter(call)) /\ meant.format = Parameter(call) /\ meant.zero = 0
  /\ meant.audio \in {NotSupportedOrValid} \union AudioStatuses
  =>
  /\ call = "audio_status" => result.status = IF meant.audio = 0 THEN "NotSupported" ELSE "Ok"
  /\ call # "audio_status" /\ (call = "isrc" => meant.track = request.number)
       => result.status = IF meant.valid /\ \E k \in DOMAIN meant.text : meant.text[k] >= 128
                          THEN "Panic" ELSE "Ok"
=============================================================================
