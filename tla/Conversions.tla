---------------------------- MODULE Conversions ----------------------------
(***************************************************************************)
(* The conversions of the crate in both directions: requests to the command *)
(* blocks of MMC, the answers of a device and the structures of libcdio to  *)
(* values.  One call runs at a time; it keeps nothing for the next one.     *)
(***************************************************************************)
EXTENDS EventStatus, SubChannel, InquiryData, IsoAttributes, EntryFields, DriveInfo

vars == <<wireVars, answerVars>>

Init == WireInit /\ AnswerInit

\* The commands whose answers other modules are about, or that have none.
OtherCommand == pc = "idle" /\ WireNext /\ UNCHANGED answerVars

\* A method that reads a structure of libcdio.
Convert(c, a, structure, value) ==
  /\ pc = "idle" /\ Idle
  /\ pc' = "returned"
  /\ call' = c
  /\ meant' = a
  /\ data' = structure
  /\ result' = value
  /\ UNCHANGED wireVars

ConvertIso   == \E c \in IsoCalls : \E a \in IsoImages(c) :
                  Convert(c, a, IsoStructure(c, a), IsoResult(c, IsoStructure(c, a)))
ConvertEntry == \E c \in EntryCalls : \E f \in EntryFiles(c) : Convert(c, f, f, EntryResult(c, f))
ConvertDrive == \E c \in DriveCalls : \E a \in Drives(c) :
                  Convert(c, a, DriveStructure(c, a), DriveResult(c, DriveStructure(c, a)))

Next == OtherCommand \/ Forget \/ EventStatusNext \/ SubchannelNext
        \/ InquiryNext \/ ConvertIso \/ ConvertEntry \/ ConvertDrive

Spec == Init /\ [][Next]_vars

-----------------------------------------------------------------------------
\* A call that succeeds says what the device or the image means, about what was
\* asked for: no field is read as another's, and no answer about something
\* else, too short or with a reserved code is passed off as a value.
SaysWhatIsMeant ==
  result.status = "Ok" =>
    CASE call \in EventCalls      -> EventSays
      [] call \in SubchannelCalls -> SubchannelSays
      [] call \in InquiryCalls    -> InquirySays
      [] call \in IsoCalls        -> IsoSays(call, meant, result.value)
      [] call \in EntryCalls      -> EntrySays(call, meant, result.value)
      [] call \in DriveCalls      -> DriveSays(call, meant, result.value)

\* Every answer that the standard allows is understood: each of its codes has
\* a value in this crate, and a device that lacks what was asked for is told
\* apart from one that answers nonsense.
AllUnderstood ==
  pc = "returned" /\ meant # NoAnswer =>
    CASE call \in EventCalls      -> EventUnderstood
      [] call \in SubchannelCalls -> SubchannelUnderstood
      [] call \in InquiryCalls    -> InquiryUnderstood
      [] call \in IsoCalls        -> IsoUnderstood(call, meant, result.status)
      [] call \in EntryCalls      -> EntryUnderstood(call, meant, result.status)
      [] call \in DriveCalls      -> DriveUnderstood(call, meant, result.status)
=============================================================================
