---------------------------- MODULE MediaRemoval ----------------------------
(***************************************************************************)
(* Two or more Mmc handles on one device whose tray, lock and disc they and *)
(* a person move: prevent_media_removal, allow_media_removal, eject,        *)
(* close_tray, test_unit_ready and sense_data, through Mmc::run_command     *)
(* (mmc.rs), which fetches the sense data of a failed command by a second   *)
(* call.  A handle is used by one thread at a time.                         *)
(***************************************************************************)
EXTENDS MmcCdb

CONSTANT Mmcs   \* the handles

VARIABLES device,   \* external: the tray, the disc and the lock
          pc,       \* where run_command is: "idle", "sent" or "ran"
          call,     \* the method that executes, or executed last
          ret,      \* what mmc_run_cmd returned
          cached,   \* external: the sense data that libcdio has kept
          result,   \* what the method returned
          done,     \* auxiliary: what became of the command
          agreed,   \* auxiliary: what the calls that returned say of the lock
          alone     \* auxiliary: no call has changed the lock meanwhile

vars == <<device, pc, call, ret, cached, result, done, agreed, alone>>

Calls == {"prevent", "allow", "eject", "close_tray", "test_unit_ready"}

Block(c) ==
  CASE c = "prevent"         -> PreventAllowMediumRemoval([prevent |-> 1])
    [] c = "allow"           -> PreventAllowMediumRemoval([prevent |-> 0])
    [] c = "eject"           -> StartStopUnit([operation |-> "EjectDisc", arg |-> 0])
    [] c = "close_tray"      -> StartStopUnit([operation |-> "LoadStartDisc", arg |-> 0])
    [] c = "test_unit_ready" -> TestUnitReady

-----------------------------------------------------------------------------
(***************************************************************************)
(* External: a device and its sense data.                                   *)
(***************************************************************************)
Sense(key, asc, ascq) == [key |-> key, asc |-> asc, ascq |-> ascq]
NoSense      == Sense(0, 0, 0)
NotReady     == Sense(2, 58, 0)
InvalidField == Sense(5, 36, 0)
Prevented    == Sense(5, 83, 2)
Attention    == Sense(6, 40, 0)

Ready(d) == d.tray = "closed" /\ d.disc

\* The device after the command, and its sense data, by the bits of the block.
Executed(d, b) ==
  CASE d.attention -> <<[d EXCEPT !.attention = FALSE], Attention>>
    [] ~d.attention /\ b[0] = Byte(0) -> <<d, IF Ready(d) THEN NoSense ELSE NotReady>>
    [] ~d.attention /\ b[0] = Byte(30) -> <<[d EXCEPT !.locked = 0 \in b[4]], NoSense>>
    [] ~d.attention /\ b[0] = Byte(27) ->
         CASE b[4] = {1} /\ d.locked                 -> <<d, Prevented>>
           [] b[4] = {1} /\ ~d.locked /\ d.has_tray  -> <<[d EXCEPT !.tray = "open"], NoSense>>
           [] b[4] = {1} /\ ~d.locked /\ ~d.has_tray -> <<[d EXCEPT !.disc = FALSE], NoSense>>
           [] b[4] = {0, 1} /\ ~d.has_tray           -> <<d, InvalidField>>
           [] b[4] = {0, 1} /\ d.has_tray ->
                <<[d EXCEPT !.tray = "closed", !.attention = d.tray = "open" /\ d.disc], NoSense>>
           [] OTHER -> <<d, NoSense>>

\* What a call is for.
Achieved(c, d) ==
  CASE c = "prevent"         -> d.locked
    [] c = "allow"           -> ~d.locked
    [] c = "eject"           -> d.tray = "open" \/ (~d.has_tray /\ ~d.disc)
    [] c = "close_tray"      -> d.tray = "closed"
    [] c = "test_unit_ready" -> Ready(d)

\* A person pushes the button, closes the tray, or changes the disc in it; a
\* slot takes a disc when it has none.
PushButton ==
  /\ device.has_tray /\ ~device.locked /\ device.tray = "closed"
  /\ device' = [device EXCEPT !.tray = "open"]
  /\ UNCHANGED <<pc, call, ret, cached, result, done, agreed, alone>>

CloseByHand ==
  /\ device.tray = "open"
  /\ device' = [device EXCEPT !.tray = "closed", !.attention = device.disc]
  /\ UNCHANGED <<pc, call, ret, cached, result, done, agreed, alone>>

ChangeDisc ==
  /\ \/ device.tray = "open" /\ device' = [device EXCEPT !.disc = ~device.disc]
     \/ ~device.has_tray /\ ~device.disc /\ device' = [device EXCEPT !.disc = TRUE, !.attention = TRUE]
  /\ UNCHANGED <<pc, call, ret, cached, result, done, agreed, alone>>

-----------------------------------------------------------------------------
Unfinished == [kind |-> "none"]

Init ==
  /\ device \in [has_tray : BOOLEAN, tray : {"closed"}, disc : BOOLEAN, locked : BOOLEAN, attention : BOOLEAN]
  /\ pc = [h \in Mmcs |-> "idle"]
  /\ call = [h \in Mmcs |-> "none"]
  /\ ret = [h \in Mmcs |-> 0]
  /\ cached = [h \in Mmcs |-> NoSense]
  /\ result = [h \in Mmcs |-> Unfinished]
  /\ done = [h \in Mmcs |-> Unfinished]
  /\ agreed = "unknown"
  /\ alone = [h \in Mmcs |-> FALSE]

ChangesLock(c) == c \in {"prevent", "allow"}

\* A method builds its command block and enters run_command.
Call(h, c) ==
  /\ pc[h] = "idle"
  /\ pc' = [pc EXCEPT ![h] = "sent"]
  /\ call' = [call EXCEPT ![h] = c]
  /\ result' = [result EXCEPT ![h] = Unfinished]
  /\ done' = [done EXCEPT ![h] = Unfinished]
  /\ agreed' = IF ChangesLock(c) THEN "unknown" ELSE agreed
  /\ alone' = [g \in Mmcs |->
                 IF g = h THEN IF ChangesLock(c) THEN \A o \in Mmcs \ {h} : pc[o] # "idle" => ~ChangesLock(call[o])
                               ELSE agreed = "allowed"
                 ELSE alone[g] /\ ~ChangesLock(c)]
  /\ UNCHANGED <<device, ret, cached>>

Ran(h, code, sense, outcome) ==
  /\ pc[h] = "sent"
  /\ pc' = [pc EXCEPT ![h] = "ran"]
  /\ ret' = [ret EXCEPT ![h] = code]
  /\ cached' = [cached EXCEPT ![h] = sense]
  /\ done' = [done EXCEPT ![h] = outcome]
  /\ UNCHANGED <<call, result, agreed, alone>>

\* External: the device executes the command.  mmc_run_cmd forgets the sense
\* data it has and keeps that of a command that ends with CHECK CONDITION.
DeviceExecutes(h) ==
  pc[h] = "sent" /\
  LET after == Executed(device, Block(call[h]))
  IN  /\ device' = after[1]
      /\ IF after[2] = NoSense
         THEN Ran(h, 0, NoSense, [kind |-> "done", achieved |-> Achieved(call[h], after[1])])
         ELSE Ran(h, -1, after[2], [kind |-> "check", sense |-> after[2]])

\* External: the command is sent, and the answer does not come in time.
AnswerLost(h) ==
  /\ Ran(h, -1, NoSense, [kind |-> "os", code |-> -1])
  /\ \/ device' = Executed(device, Block(call[h]))[1]
     \/ UNCHANGED device

\* External: the driver or the operating system refuses the command, and sense
\* data of an earlier one may be left.
Refused(h) ==
  /\ \E code \in {-2, -4, -5, -6} : Ran(h, code, cached[h], [kind |-> "os", code |-> code])
  /\ UNCHANGED device

-----------------------------------------------------------------------------
\* SenseKey, by its discriminant.
SenseKey(n) ==
  CASE n = 0 -> "NoSense"        [] n = 1 -> "RecoveredError"  [] n = 2 -> "NotReady"
    [] n = 3 -> "MediumError"    [] n = 4 -> "HardwareError"   [] n = 5 -> "IllegalRequest"
    [] n = 6 -> "UnitAttention"  [] n = 7 -> "DataProtect"     [] n = 8 -> "BlankCheck"
    [] n = 9 -> "VendorSpecific" [] n = 10 -> "CopyAborted"    [] n = 11 -> "AbortedCommand"
    [] n = 13 -> "VolumeOverflow" [] n = 14 -> "Miscompare"    [] OTHER -> "Unknown"

\* OsError::from: the codes of libcdio that have a name.
OsError(code) ==
  CASE code = -2 -> "Unsupported" [] code = -4 -> "OperationNotPermitted"
    [] code = -5 -> "BadParameter" [] OTHER -> "Other"

\* sense_data: the sense data that libcdio keeps for the handle, if there is any.
SenseData(h) ==
  IF cached[h] = NoSense THEN Unfinished
  ELSE [kind |-> "sense", sense_key |-> SenseKey(cached[h].key), asc |-> cached[h].asc, ascq |-> cached[h].ascq]

\* Mutant: the sense data is asked for whenever a command fails.
CommandResultAnyError(h) ==
  CASE ret[h] >= 0 -> [kind |-> "Ok"]
    [] ret[h] < 0 /\ SenseData(h) # Unfinished -> [kind |-> "CheckCondition", sense |-> SenseData(h)]
    [] OTHER -> [kind |-> "Os", error |-> OsError(ret[h]), code |-> ret[h]]

\* The end of run_command.
CommandResult(h) ==
  CASE ret[h] >= 0 -> [kind |-> "Ok"]
    [] ret[h] = -1 /\ SenseData(h) # Unfinished -> [kind |-> "CheckCondition", sense |-> SenseData(h)]
    [] OTHER -> [kind |-> "Os", error |-> OsError(ret[h]), code |-> ret[h]]

\* The method returns what run_command does.
Returns(h) ==
  /\ pc[h] = "ran"
  /\ pc' = [pc EXCEPT ![h] = "idle"]
  /\ result' = [result EXCEPT ![h] = CommandResult(h)]
  /\ agreed' = IF CommandResult(h).kind = "Ok" /\ ChangesLock(call[h]) /\ alone[h]
               THEN IF call[h] = "prevent" THEN "prevented" ELSE "allowed"
               ELSE agreed
  /\ ret' = [ret EXCEPT ![h] = 0]
  /\ alone' = [alone EXCEPT ![h] = alone[h] /\ ~ChangesLock(call[h])]
  /\ UNCHANGED <<device, call, cached, done>>

Next ==
  \/ \E h \in Mmcs : \/ \E c \in Calls : Call(h, c)
                     \/ DeviceExecutes(h) \/ AnswerLost(h) \/ Refused(h) \/ Returns(h)
  \/ PushButton \/ CloseByHand \/ ChangeDisc

Spec == Init /\ [][Next]_vars

-----------------------------------------------------------------------------
\* A call that fails says why its own command failed: the sense data is what
\* the device gave for it, never that of an earlier command or another handle,
\* and a command that the device refused is never reported as anything else.
ErrorOfItsCommand ==
  \A h \in Mmcs : pc[h] = "idle" /\ call[h] # "none" =>
    CASE done[h].kind = "done"  -> result[h].kind = "Ok"
      [] done[h].kind = "check" ->
           result[h] = [kind |-> "CheckCondition",
                        sense |-> [kind |-> "sense", asc |-> done[h].sense.asc, ascq |-> done[h].sense.ascq,
                                   sense_key |-> CASE done[h].sense = NotReady -> "NotReady"
                                                   [] done[h].sense \in {InvalidField, Prevented} -> "IllegalRequest"
                                                   [] done[h].sense = Attention -> "UnitAttention"]]
      [] done[h].kind = "os"    -> result[h].kind = "Os" /\ result[h].code = done[h].code

\* A call that returns Ok did what it is for: the device was locked or not,
\* the tray open or closed, the disc ready, when it executed the command.
OkMeansDone ==
  \A h \in Mmcs : pc[h] = "idle" /\ result[h].kind = "Ok" => done[h].achieved

\* tests/media_removal.rs: after prevent_media_removal returned Ok, and until
\* somebody calls for another state of the lock, the medium stays where it is.
ShutWhilePrevented ==
  [][agreed = "prevented" /\ agreed' = "prevented" /\ device.tray = "closed" =>
       device'.tray = "closed" /\ (device.disc => device'.disc)]_vars

\* tests/media_removal.rs: once allow_media_removal returned Ok, and until
\* somebody calls for another state of the lock, no eject fails because of it.
EjectsOnceAllowed ==
  \A h \in Mmcs : pc[h] = "idle" /\ call[h] = "eject" /\ alone[h] =>
    ~(result[h].kind = "CheckCondition" /\ result[h].sense.asc = 83)
=============================================================================
