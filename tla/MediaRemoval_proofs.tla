------------------------ MODULE MediaRemoval_proofs -------------------------
(***************************************************************************)
(* However many handles share a device: the error of a call is that of its  *)
(* own command, Ok means that the device did it, and an agreed lock holds.  *)
(***************************************************************************)
EXTENDS MediaRemoval, TLAPS

Device == [has_tray : BOOLEAN, tray : {"open", "closed"}, disc : BOOLEAN, locked : BOOLEAN,
           attention : BOOLEAN]
Senses == {NoSense, NotReady, InvalidField, Prevented, Attention}

-----------------------------------------------------------------------------
(***************************************************************************)
(* The bits of the command blocks.                                          *)
(***************************************************************************)
Weight(k) == CASE k = 0 -> 1 [] k = 1 -> 2 [] k = 2 -> 4 [] k = 3 -> 8
               [] k = 4 -> 16 [] k = 5 -> 32 [] k = 6 -> 64 [] k = 7 -> 128

LEMMA Weights == \A k \in 0..7 : 2^k = Weight(k)
<1> SUFFICES ASSUME NEW k \in 0..7 PROVE 2^k = Weight(k)
  OBVIOUS
<1>1. 2^0 = 1 /\ 2^1 = 2 /\ 2^2 = 4 /\ 2^3 = 8 /\ 2^4 = 16 /\ 2^5 = 32 /\ 2^6 = 64 /\ 2^7 = 128
  OBVIOUS
<1>2. k \in {0, 1, 2, 3, 4, 5, 6, 7}
  OBVIOUS
<1> QED
  BY <1>1, <1>2, Zenon DEF Weight

LEMMA Bytes ==
  Byte(0) = {} /\ Byte(1) = {0} /\ Byte(27) = {0, 1, 3, 4} /\ Byte(30) = {1, 2, 3, 4}
<1>1. \A n \in Nat : Byte(n) = {k \in 0..7 : (n \div Weight(k)) % 2 = 1}
  BY Weights, Zenon DEF Byte
<1> QED
  BY <1>1 DEF Weight

LEMMA CommandBlocks ==
  /\ Block("prevent")[0] = Byte(30) /\ Block("prevent")[4] = {0}
  /\ Block("allow")[0] = Byte(30) /\ Block("allow")[4] = {}
  /\ Block("eject")[0] = Byte(27) /\ Block("eject")[4] = {1}
  /\ Block("close_tray")[0] = Byte(27) /\ Block("close_tray")[4] = {0, 1}
  /\ Block("test_unit_ready")[0] = Byte(0)
<1>1. /\ Block("prevent")[0] = Byte(30) /\ Block("prevent")[4] = {0}
      /\ Block("allow")[0] = Byte(30) /\ Block("allow")[4] = {}
  BY Bytes DEF Block, PreventAllowMediumRemoval, Cdb
<1>2. /\ Block("eject")[0] = Byte(27) /\ Block("eject")[4] = {1}
      /\ Block("close_tray")[0] = Byte(27) /\ Block("close_tray")[4] = {0, 1}
  BY DEF Block, StartStopUnit, Cdb, Bit, LoEjAndStart
<1>3. Block("test_unit_ready")[0] = Byte(0)
  BY DEF Block, TestUnitReady, Cdb
<1> QED
  BY <1>1, <1>2, <1>3

LEMMA Distinct ==
  /\ Byte(0) # Byte(27) /\ Byte(0) # Byte(30) /\ Byte(27) # Byte(30)
  /\ NoSense # NotReady /\ NoSense # InvalidField /\ NoSense # Prevented /\ NoSense # Attention
  /\ Prevented # NotReady /\ Prevented # InvalidField /\ Prevented # Attention
<1>1. Byte(0) # Byte(27) /\ Byte(0) # Byte(30) /\ Byte(27) # Byte(30)
  BY Bytes
<1> QED
  BY <1>1 DEF NoSense, NotReady, InvalidField, Prevented, Attention, Sense

\* What may become of a device d that executes the command of the call c.
Right(c, d, e, sense) ==
  /\ e \in Device /\ sense \in Senses
  /\ sense = NoSense => Achieved(c, e)
  /\ ~ChangesLock(c) => e.locked = d.locked
  /\ d.locked /\ ~ChangesLock(c) /\ d.tray = "closed" => e.tray = "closed" /\ (d.disc => e.disc)
  /\ ~d.locked => sense # Prevented

LEMMA DeviceFacts ==
  ASSUME NEW d \in Device, NEW c \in Calls, NEW after, after = Executed(d, Block(c))
  PROVE  Right(c, d, after[1], after[2])
<1>1. CASE d.attention
  <2>1. after = <<[d EXCEPT !.attention = FALSE], Attention>>
    BY <1>1 DEF Executed
  <2>2. Right(c, d, [d EXCEPT !.attention = FALSE], Attention)
    BY Distinct DEF Right, Device, Senses
  <2> QED
    BY <2>1, <2>2
<1>2. CASE ~d.attention /\ c = "test_unit_ready"
  <2>1. after = <<d, IF Ready(d) THEN NoSense ELSE NotReady>>
    BY <1>2, CommandBlocks, Distinct DEF Executed
  <2>2. Right(c, d, d, IF Ready(d) THEN NoSense ELSE NotReady)
    BY <1>2, Distinct DEF Right, Senses, Achieved
  <2> QED
    BY <2>1, <2>2
<1>3. CASE ~d.attention /\ c \in {"prevent", "allow"}
  <2>1. after = <<[d EXCEPT !.locked = (c = "prevent")], NoSense>>
    BY <1>3, CommandBlocks, Distinct DEF Executed
  <2>2. Right(c, d, [d EXCEPT !.locked = (c = "prevent")], NoSense)
    BY <1>3, Distinct DEF Right, Device, Senses, Achieved, ChangesLock
  <2> QED
    BY <2>1, <2>2
<1>4. CASE ~d.attention /\ c = "eject"
  <2>1. CASE d.locked
    <3>1. after = <<d, Prevented>>
      BY <1>4, <2>1, CommandBlocks, Distinct DEF Executed
    <3>2. Right(c, d, d, Prevented)
      BY <2>1, Distinct DEF Right, Senses
    <3> QED
      BY <3>1, <3>2
  <2>2. CASE ~d.locked /\ d.has_tray
    <3>1. after = <<[d EXCEPT !.tray = "open"], NoSense>>
      BY <1>4, <2>2, CommandBlocks, Distinct DEF Executed
    <3>2. Right(c, d, [d EXCEPT !.tray = "open"], NoSense)
      BY <1>4, <2>2, Distinct DEF Right, Device, Senses, Achieved
    <3> QED
      BY <3>1, <3>2
  <2>3. CASE ~d.locked /\ ~d.has_tray
    <3>0. {1} # {0, 1}
      <4>1. 0 \notin {1} /\ 0 \in {0, 1}
        OBVIOUS
      <4> QED
        BY <4>1, Zenon
    <3>1. after = <<[d EXCEPT !.disc = FALSE], NoSense>>
      BY <3>0, <1>4, <2>3, CommandBlocks, Distinct DEF Executed
    <3>2. Right(c, d, [d EXCEPT !.disc = FALSE], NoSense)
      BY <1>4, <2>3, Distinct DEF Right, Device, Senses, Achieved
    <3> QED
      BY <3>1, <3>2
  <2> QED
    BY <2>1, <2>2, <2>3
<1>5. CASE ~d.attention /\ c = "close_tray"
  <2>1. CASE ~d.has_tray
    <3>1. after = <<d, InvalidField>>
      BY <1>5, <2>1, CommandBlocks, Distinct DEF Executed
    <3>2. Right(c, d, d, InvalidField)
      BY Distinct DEF Right, Senses
    <3> QED
      BY <3>1, <3>2
  <2>2. CASE d.has_tray
    <3>1. after = <<[d EXCEPT !.tray = "closed", !.attention = (d.tray = "open" /\ d.disc)], NoSense>>
      BY <1>5, <2>2, CommandBlocks, Distinct DEF Executed
    <3>2. Right(c, d, [d EXCEPT !.tray = "closed", !.attention = (d.tray = "open" /\ d.disc)], NoSense)
      BY <1>5, <2>2, Distinct DEF Right, Device, Senses, Achieved
    <3> QED
      BY <3>1, <3>2
  <2> QED
    BY <2>1, <2>2
<1> QED
  BY <1>1, <1>2, <1>3, <1>4, <1>5 DEF Calls

-----------------------------------------------------------------------------
(***************************************************************************)
(* The inductive invariant: what a call that has run knows of its command,  *)
(* and what is agreed about the lock while calls are under way.             *)
(***************************************************************************)
Types ==
  /\ device \in Device
  /\ pc \in [Mmcs -> {"idle", "sent", "ran"}]
  /\ call \in [Mmcs -> Calls \union {"none"}]
  /\ cached \in [Mmcs -> Senses]
  /\ alone \in [Mmcs -> BOOLEAN]
  /\ DOMAIN ret = Mmcs /\ DOMAIN result = Mmcs /\ DOMAIN done = Mmcs
  /\ agreed \in {"unknown", "prevented", "allowed"}

\* After mmc_run_cmd: done, refused by the device, or by something else.
RanWell(h)    == ret[h] = 0 /\ done[h].kind = "done" /\ done[h].achieved
RanRefused(h) == /\ ret[h] = -1 /\ cached[h] # NoSense
                 /\ done[h] = [kind |-> "check", sense |-> cached[h]]
RanFailed(h)  == /\ ret[h] \in {-1, -2, -4, -5, -6} /\ (ret[h] = -1 => cached[h] = NoSense)
                 /\ done[h] = [kind |-> "os", code |-> ret[h]]

Busy(h)    == pc[h] # "idle"
Changer(h) == Busy(h) /\ ChangesLock(call[h])

Runs == \A h \in Mmcs :
  /\ Busy(h) => call[h] \in Calls
  /\ pc[h] = "ran" => RanWell(h) \/ RanRefused(h) \/ RanFailed(h)
  /\ call[h] = "none" => result[h] = Unfinished

\* What a call that returned has said.
Says(h) ==
  CASE done[h].kind = "done"  -> result[h].kind = "Ok" /\ done[h].achieved
    [] done[h].kind = "check" ->
         /\ done[h].sense \in Senses \ {NoSense}
         /\ result[h] = [kind |-> "CheckCondition",
                         sense |-> [kind |-> "sense", sense_key |-> SenseKey(done[h].sense.key),
                                    asc |-> done[h].sense.asc, ascq |-> done[h].sense.ascq]]
    [] done[h].kind = "os"    -> result[h].kind = "Os" /\ result[h].code = done[h].code

Returned == \A h \in Mmcs : pc[h] = "idle" /\ call[h] # "none" =>
  Says(h) /\ done[h].kind \in {"done", "check", "os"}

\* Nobody changes an agreed lock; one call at most changes it alone.
Lock ==
  /\ agreed # "unknown" => device.locked = (agreed = "prevented") /\ \A h \in Mmcs : ~Changer(h)
  /\ \A h \in Mmcs : alone[h] /\ Changer(h) =>
       /\ \A g \in Mmcs \ {h} : ~Changer(g)
       /\ pc[h] = "ran" /\ ret[h] = 0 => device.locked = (call[h] = "prevent")
  /\ \A h \in Mmcs : alone[h] /\ Busy(h) /\ ~Changer(h) =>
       /\ agreed = "allowed"
       /\ pc[h] = "ran" /\ ret[h] = -1 => cached[h] # Prevented
  /\ \A h \in Mmcs : alone[h] /\ pc[h] = "idle" /\ call[h] = "eject" /\ done[h].kind = "check" =>
       done[h].sense # Prevented

IInv == Types /\ Runs /\ Returned /\ Lock

LEMMA InvInit == Init => IInv
<1> SUFFICES ASSUME Init PROVE IInv
  OBVIOUS
<1>1. Types
  BY DEF Init, Types, Device, Senses
<1>2. Runs /\ Returned /\ Lock
  BY DEF Init, Runs, Returned, Lock, Busy, Changer
<1> QED
  BY <1>1, <1>2 DEF IInv

\* The tray and the disc move, and the lock does not.
LEMMA ByHand ==
  ASSUME IInv, device' \in Device, device'.locked = device.locked,
         UNCHANGED <<pc, call, ret, cached, result, done, agreed, alone>>
  PROVE  IInv'
BY DEF IInv, Types, Runs, RanWell, RanRefused, RanFailed, Busy, Returned, Says, Lock, Changer

LEMMA CallKeeps ==
  ASSUME IInv, NEW h \in Mmcs, NEW c \in Calls, Call(h, c)
  PROVE  IInv'
<1>1. Types'
  BY DEF IInv, Types, Call, Calls, ChangesLock
<1>2. /\ pc[h] = "idle" /\ pc'[h] = "sent" /\ call'[h] = c
      /\ \A g \in Mmcs \ {h} : /\ pc'[g] = pc[g] /\ call'[g] = call[g] /\ result'[g] = result[g]
                              /\ done'[g] = done[g]
      /\ UNCHANGED <<device, ret, cached>>
  BY DEF IInv, Types, Call
<1>3. Runs'
  BY <1>2 DEF IInv, Runs, RanWell, RanRefused, RanFailed, Busy, Calls
<1>4. Returned'
  <2>1. ASSUME NEW g \in Mmcs, pc'[g] = "idle", call'[g] # "none"
        PROVE  Says(g)' /\ done'[g].kind \in {"done", "check", "os"}
    <3>1. g # h /\ pc[g] = "idle" /\ call[g] # "none"
      BY <1>2, <2>1
    <3>2. done'[g] = done[g] /\ result'[g] = result[g]
      BY <1>2, <3>1
    <3>3. Says(g) /\ done[g].kind \in {"done", "check", "os"}
      BY <3>1 DEF IInv, Returned
    <3>4. Says(g)'
      BY <3>2, <3>3 DEF Says
    <3> QED
      BY <3>2, <3>3, <3>4
  <2> QED
    BY <2>1 DEF Returned
<1>5. \A g \in Mmcs : alone'[g] =
        IF g = h THEN IF ChangesLock(c) THEN \A o \in Mmcs \ {h} : ~Changer(o) ELSE agreed = "allowed"
        ELSE alone[g] /\ ~ChangesLock(c)
  BY DEF Call, Changer, Busy
<1>6. agreed' = IF ChangesLock(c) THEN "unknown" ELSE agreed
  BY DEF Call
<1>7. Changer(h)' <=> ChangesLock(c)
  BY <1>2 DEF Changer, Busy, ChangesLock
<1>8. \A g \in Mmcs \ {h} : (Changer(g)' <=> Changer(g)) /\ (Busy(g)' <=> Busy(g))
  BY <1>2 DEF Changer, Busy, ChangesLock
<1>9. ~Changer(h)
  BY <1>2 DEF Changer, Busy
<1>10. Lock'
  <2>1. agreed' # "unknown" => device'.locked = (agreed' = "prevented") /\ \A g \in Mmcs : ~Changer(g)'
    BY <1>2, <1>6, <1>7, <1>8 DEF IInv, Lock
  <2>2. ASSUME NEW g \in Mmcs, alone'[g], Changer(g)'
        PROVE  /\ \A o \in Mmcs \ {g} : ~Changer(o)'
               /\ pc'[g] = "ran" /\ ret'[g] = 0 => device'.locked = (call'[g] = "prevent")
    <3>1. CASE g = h
      <4>1. \A o \in Mmcs \ {h} : ~Changer(o)
        BY <1>5, <1>7, <2>2, <3>1
      <4> QED
        BY <1>2, <1>8, <3>1, <4>1
    <3>2. CASE g # h
      <4>1. alone[g] /\ ~ChangesLock(c) /\ Changer(g)
        BY <1>5, <1>8, <2>2, <3>2
      <4>2. /\ \A o \in Mmcs \ {g} : ~Changer(o)
            /\ pc[g] = "ran" /\ ret[g] = 0 => device.locked = (call[g] = "prevent")
        BY <4>1 DEF IInv, Lock
      <4>3. \A o \in Mmcs \ {g} : ~Changer(o)'
        BY <1>7, <1>8, <4>1, <4>2
      <4> QED
        BY <1>2, <3>2, <4>2, <4>3
    <3> QED
      BY <3>1, <3>2
  <2>3. ASSUME NEW g \in Mmcs, alone'[g], Busy(g)', ~Changer(g)'
        PROVE  /\ agreed' = "allowed"
               /\ pc'[g] = "ran" /\ ret'[g] = -1 => cached'[g] # Prevented
    BY <1>2, <1>5, <1>6, <1>7, <1>8, <2>3 DEF IInv, Lock
  <2>4. ASSUME NEW g \in Mmcs, alone'[g], pc'[g] = "idle", call'[g] = "eject", done'[g].kind = "check"
        PROVE  done'[g].sense # Prevented
    BY <1>2, <1>5, <2>4 DEF IInv, Lock
  <2> QED
    BY <2>1, <2>2, <2>3, <2>4 DEF Lock
<1> QED
  BY <1>1, <1>3, <1>4, <1>10 DEF IInv

\* The command has run, well or not: nobody else sees more than the device.
LEMMA RanKeeps ==
  ASSUME IInv, NEW h \in Mmcs, NEW code, NEW sense \in Senses, NEW outcome, Ran(h, code, sense, outcome),
         device' \in Device, ~ChangesLock(call[h]) => device'.locked = device.locked,
         (RanWell(h) \/ RanRefused(h) \/ RanFailed(h))',
         alone[h] /\ ChangesLock(call[h]) /\ code = 0 => device'.locked = (call[h] = "prevent"),
         ~device.locked /\ code = -1 => sense # Prevented
  PROVE  IInv'
<1>1. Types'
  BY DEF IInv, Types, Ran
<1>2. /\ pc[h] = "sent" /\ pc'[h] = "ran" /\ ret'[h] = code /\ cached'[h] = sense
      /\ \A g \in Mmcs \ {h} : /\ pc'[g] = pc[g] /\ ret'[g] = ret[g] /\ cached'[g] = cached[g]
                              /\ done'[g] = done[g]
      /\ UNCHANGED <<call, result, agreed, alone>>
  BY DEF IInv, Types, Ran
<1>3. Runs'
  <2>1. ASSUME NEW g \in Mmcs \ {h} PROVE (RanWell(g) \/ RanRefused(g) \/ RanFailed(g))' <=>
                                         (RanWell(g) \/ RanRefused(g) \/ RanFailed(g))
    BY <1>2 DEF RanWell, RanRefused, RanFailed
  <2> QED
    BY <1>2, <2>1 DEF IInv, Runs, Busy
<1>4. Returned'
  <2>1. ASSUME NEW g \in Mmcs, pc'[g] = "idle", call'[g] # "none"
        PROVE  Says(g)' /\ done'[g].kind \in {"done", "check", "os"}
    <3>1. g # h /\ pc[g] = "idle" /\ call[g] # "none"
      BY <1>2, <2>1
    <3>2. done'[g] = done[g] /\ result'[g] = result[g]
      BY <1>2, <3>1
    <3>3. Says(g) /\ done[g].kind \in {"done", "check", "os"}
      BY <3>1 DEF IInv, Returned
    <3>4. Says(g)'
      BY <3>2, <3>3 DEF Says
    <3> QED
      BY <3>2, <3>3, <3>4
  <2> QED
    BY <2>1 DEF Returned
<1>5. \A g \in Mmcs : (Changer(g)' <=> Changer(g)) /\ (Busy(g)' <=> Busy(g))
  BY <1>2 DEF Changer, Busy
<1>6. Changer(h) <=> ChangesLock(call[h])
  BY <1>2 DEF Changer, Busy
<1>7. Lock'
  <2>1. agreed' # "unknown" => device'.locked = (agreed' = "prevented") /\ \A g \in Mmcs : ~Changer(g)'
    BY <1>2, <1>5, <1>6 DEF IInv, Lock
  <2>2. ASSUME NEW g \in Mmcs, alone[g], Changer(g)
        PROVE  /\ \A o \in Mmcs \ {g} : ~Changer(o)'
               /\ pc'[g] = "ran" /\ ret'[g] = 0 => device'.locked = (call[g] = "prevent")
    <3>1. \A o \in Mmcs \ {g} : ~Changer(o)
      BY <2>2 DEF IInv, Lock
    <3>2. CASE g = h
      BY <1>2, <1>5, <1>6, <2>2, <3>1, <3>2
    <3>3. CASE g # h
      <4>1. device'.locked = device.locked
        BY <1>6, <3>1, <3>3
      <4>2. pc[g] = "ran" /\ ret[g] = 0 => device.locked = (call[g] = "prevent")
        BY <2>2 DEF IInv, Lock
      <4> QED
        BY <1>2, <1>5, <3>1, <3>3, <4>1, <4>2
    <3> QED
      BY <3>2, <3>3
  <2>3. ASSUME NEW g \in Mmcs, alone[g], Busy(g), ~Changer(g)
        PROVE  agreed = "allowed" /\ (pc'[g] = "ran" /\ ret'[g] = -1 => cached'[g] # Prevented)
    <3>1. agreed = "allowed" /\ (pc[g] = "ran" /\ ret[g] = -1 => cached[g] # Prevented)
      BY <2>3 DEF IInv, Lock
    <3>2. ~device.locked
      BY <3>1 DEF IInv, Lock
    <3> QED
      BY <1>2, <3>1, <3>2
  <2>4. \A g \in Mmcs : alone'[g] /\ pc'[g] = "idle" /\ call'[g] = "eject" /\ done'[g].kind = "check" =>
          done'[g].sense # Prevented
    BY <1>2 DEF IInv, Lock
  <2> QED
    BY <1>2, <1>5, <2>1, <2>2, <2>3, <2>4 DEF Lock
<1> QED
  BY <1>1, <1>3, <1>4, <1>7 DEF IInv

LEMMA DeviceExecutesKeeps ==
  ASSUME IInv, NEW h \in Mmcs, DeviceExecutes(h)
  PROVE  IInv'
<1>1. PICK after : after = Executed(device, Block(call[h]))
  OBVIOUS
<1>2. call[h] \in Calls /\ device \in Device /\ pc[h] = "sent"
  BY DEF IInv, Types, Runs, Busy, DeviceExecutes
<1>3. Right(call[h], device, after[1], after[2])
  BY <1>1, <1>2, DeviceFacts
<1>4. device' = after[1]
  BY <1>1 DEF DeviceExecutes
<1>5. CASE after[2] = NoSense
  <2>1. Ran(h, 0, NoSense, [kind |-> "done", achieved |-> Achieved(call[h], after[1])])
    BY <1>1, <1>5 DEF DeviceExecutes
  <2>2. RanWell(h)'
    BY <1>3, <1>5, <2>1 DEF IInv, Types, Ran, RanWell, Right
  <2>3. ChangesLock(call[h]) => device'.locked = (call[h] = "prevent")
    BY <1>2, <1>3, <1>4, <1>5 DEF Right, Achieved, ChangesLock, Device
  <2> QED
    BY <1>3, <1>4, <1>5, <2>1, <2>2, <2>3, RanKeeps DEF Right
<1>6. CASE after[2] # NoSense
  <2>1. Ran(h, -1, after[2], [kind |-> "check", sense |-> after[2]])
    BY <1>1, <1>6 DEF DeviceExecutes
  <2>2. RanRefused(h)'
    BY <1>6, <2>1 DEF IInv, Types, Ran, RanRefused
  <2> QED
    BY <1>3, <1>4, <2>1, <2>2, RanKeeps DEF Right
<1> QED
  BY <1>5, <1>6

LEMMA AnswerLostKeeps ==
  ASSUME IInv, NEW h \in Mmcs, AnswerLost(h)
  PROVE  IInv'
<1>1. PICK after : after = Executed(device, Block(call[h]))
  OBVIOUS
<1>2. Ran(h, -1, NoSense, [kind |-> "os", code |-> -1]) /\ (device' = after[1] \/ device' = device)
  BY <1>1 DEF AnswerLost
<1>3. call[h] \in Calls /\ device \in Device
  BY <1>2 DEF IInv, Types, Runs, Busy, Ran
<1>4. Right(call[h], device, after[1], after[2])
  BY <1>1, <1>3, DeviceFacts
<1>5. device' \in Device /\ (~ChangesLock(call[h]) => device'.locked = device.locked)
  BY <1>2, <1>3, <1>4 DEF Right
<1>6. RanFailed(h)'
  BY <1>2 DEF IInv, Types, Ran, RanFailed
<1>7. NoSense \in Senses /\ NoSense # Prevented
  BY Distinct DEF Senses
<1> QED
  BY <1>2, <1>5, <1>6, <1>7, RanKeeps

LEMMA RefusedKeeps ==
  ASSUME IInv, NEW h \in Mmcs, Refused(h)
  PROVE  IInv'
<1>1. PICK code \in {-2, -4, -5, -6} : Ran(h, code, cached[h], [kind |-> "os", code |-> code])
  BY DEF Refused
<1>2. device' = device /\ device \in Device /\ cached[h] \in Senses
  BY DEF Refused, IInv, Types
<1>3. RanFailed(h)'
  BY <1>1 DEF IInv, Types, Ran, RanFailed
<1> QED
  BY <1>1, <1>2, <1>3, RanKeeps

\* The end of run_command finds the sense data of its own command.
LEMMA ResultSays ==
  ASSUME IInv, NEW h \in Mmcs, pc[h] = "ran", result' = [result EXCEPT ![h] = CommandResult(h)],
         UNCHANGED done
  PROVE  Says(h)' /\ done'[h].kind \in {"done", "check", "os"}
<1>1. result'[h] = CommandResult(h) /\ done' = done
  BY DEF IInv, Types
<1>2. CASE RanWell(h)
  <2>1. CommandResult(h) = [kind |-> "Ok"]
    BY <1>2 DEF RanWell, CommandResult
  <2> QED
    BY <1>1, <1>2, <2>1 DEF RanWell, Says
<1>3. CASE RanRefused(h)
  <2>1. cached[h] \in Senses \ {NoSense}
    BY <1>3 DEF RanRefused, IInv, Types
  <2>2. SenseData(h) = [kind |-> "sense", sense_key |-> SenseKey(cached[h].key),
                        asc |-> cached[h].asc, ascq |-> cached[h].ascq]
    BY <2>1 DEF SenseData
  <2>3. SenseData(h) # Unfinished
    <3>1. SenseData(h).kind # Unfinished.kind
      BY <2>2 DEF Unfinished
    <3> QED
      BY <3>1
  <2>4. CommandResult(h) = [kind |-> "CheckCondition", sense |-> SenseData(h)]
    BY <1>3, <2>3 DEF RanRefused, CommandResult
  <2> QED
    BY <1>1, <1>3, <2>1, <2>2, <2>4 DEF RanRefused, Says
<1>4. CASE RanFailed(h)
  <2>1. ret[h] = -1 => SenseData(h) = Unfinished
    BY <1>4 DEF RanFailed, SenseData
  <2>2. CommandResult(h) = [kind |-> "Os", error |-> OsError(ret[h]), code |-> ret[h]]
    BY <1>4, <2>1 DEF RanFailed, CommandResult
  <2> QED
    BY <1>1, <1>4, <2>2 DEF RanFailed, Says
<1> QED
  BY <1>2, <1>3, <1>4 DEF IInv, Runs

LEMMA ReturnsKeeps ==
  ASSUME IInv, NEW h \in Mmcs, Returns(h)
  PROVE  IInv'
<1>1. Types'
  BY DEF IInv, Types, Returns
<1>2. /\ pc[h] = "ran" /\ pc'[h] = "idle" /\ alone'[h] = (alone[h] /\ ~ChangesLock(call[h]))
      /\ \A g \in Mmcs \ {h} : /\ pc'[g] = pc[g] /\ ret'[g] = ret[g] /\ result'[g] = result[g]
                              /\ alone'[g] = alone[g]
      /\ UNCHANGED <<device, call, cached, done>>
  BY DEF IInv, Types, Returns
<1>3. call[h] \in Calls /\ Busy(h) /\ (Changer(h) <=> ChangesLock(call[h]))
  BY <1>2 DEF IInv, Runs, Busy, Changer
<1>4. Runs'
  BY <1>2, <1>3 DEF IInv, Runs, RanWell, RanRefused, RanFailed, Busy, Calls
<1>5. Returned'
  <2>1. Says(h)' /\ done'[h].kind \in {"done", "check", "os"}
    BY <1>2, ResultSays DEF Returns
  <2>2. ASSUME NEW g \in Mmcs \ {h}, pc'[g] = "idle", call'[g] # "none"
        PROVE  Says(g)' /\ done'[g].kind \in {"done", "check", "os"}
    BY <1>2, <2>2 DEF IInv, Returned, Says
  <2> QED
    BY <2>1, <2>2 DEF Returned
<1>6. ~Changer(h)' /\ ~Busy(h)' /\ \A g \in Mmcs \ {h} : (Changer(g)' <=> Changer(g)) /\ (Busy(g)' <=> Busy(g))
  BY <1>2 DEF Changer, Busy
<1>7. \/ agreed' = agreed
      \/ /\ Changer(h) /\ alone[h] /\ ret[h] = 0
         /\ agreed' = IF call[h] = "prevent" THEN "prevented" ELSE "allowed"
  <2>1. CommandResult(h).kind = "Ok" => ret[h] = 0
    <3>1. ret[h] \in {0, -1, -2, -4, -5, -6}
      BY <1>2 DEF IInv, Runs, RanWell, RanRefused, RanFailed
    <3> QED
      BY <3>1 DEF CommandResult
  <2> QED
    BY <1>3, <2>1 DEF Returns
<1>8. Lock'
  <2>1. agreed' # "unknown" => device'.locked = (agreed' = "prevented") /\ \A g \in Mmcs : ~Changer(g)'
    <3>1. CASE agreed' = agreed
      BY <1>2, <1>6, <3>1 DEF IInv, Lock
    <3>2. CASE agreed' # agreed
      <4>1. device.locked = (call[h] = "prevent") /\ \A g \in Mmcs \ {h} : ~Changer(g)
        BY <1>2, <1>7, <3>2 DEF IInv, Lock
      <4>2. agreed' = "prevented" <=> call[h] = "prevent"
        BY <1>7, <3>2
      <4> QED
        BY <1>2, <1>6, <4>1, <4>2
    <3> QED
      BY <3>1, <3>2
  <2>2. ASSUME NEW g \in Mmcs, alone'[g], Changer(g)'
        PROVE  /\ \A o \in Mmcs \ {g} : ~Changer(o)'
               /\ pc'[g] = "ran" /\ ret'[g] = 0 => device'.locked = (call'[g] = "prevent")
    <3>1. g # h /\ alone[g] /\ Changer(g)
      BY <1>2, <1>6, <2>2
    <3> QED
      BY <1>2, <1>6, <3>1 DEF IInv, Lock
  <2>3. ASSUME NEW g \in Mmcs, alone'[g], Busy(g)', ~Changer(g)'
        PROVE  agreed' = "allowed" /\ (pc'[g] = "ran" /\ ret'[g] = -1 => cached'[g] # Prevented)
    <3>1. g # h /\ alone[g] /\ Busy(g) /\ ~Changer(g)
      BY <1>2, <1>6, <2>3
    <3>2. agreed = "allowed" /\ (pc[g] = "ran" /\ ret[g] = -1 => cached[g] # Prevented)
      BY <3>1 DEF IInv, Lock
    <3>3. agreed' = agreed
      BY <1>7, <3>2 DEF IInv, Lock
    <3> QED
      BY <1>2, <3>1, <3>2, <3>3
  <2>4. ASSUME NEW g \in Mmcs, alone'[g], pc'[g] = "idle", call'[g] = "eject", done'[g].kind = "check"
        PROVE  done'[g].sense # Prevented
    <3>1. CASE g = h
      <4>1. RanRefused(h)
        <5>1. RanWell(h) \/ RanRefused(h) \/ RanFailed(h)
          BY <1>2 DEF IInv, Runs
        <5>2. done[h].kind = "check"
          BY <1>2, <2>4, <3>1
        <5>3. RanFailed(h) => done[h].kind = "os"
          BY DEF RanFailed
        <5> QED
          BY <5>1, <5>2, <5>3 DEF RanWell
      <4>2. alone[h] /\ ~Changer(h)
        BY <1>2, <1>3, <2>4, <3>1
      <4>3. cached[h] # Prevented
        BY <1>2, <1>3, <4>1, <4>2 DEF IInv, Lock, RanRefused
      <4> QED
        BY <1>2, <3>1, <4>1, <4>3 DEF RanRefused
    <3>2. CASE g # h
      BY <1>2, <2>4, <3>2 DEF IInv, Lock
    <3> QED
      BY <3>1, <3>2
  <2> QED
    BY <2>1, <2>2, <2>3, <2>4 DEF Lock
<1> QED
  BY <1>1, <1>4, <1>5, <1>8 DEF IInv

LEMMA InvStep ==
  ASSUME IInv, [Next]_vars
  PROVE  IInv'
<1>1. CASE PushButton \/ CloseByHand \/ ChangeDisc
  <2>1. /\ device' \in Device /\ device'.locked = device.locked
        /\ UNCHANGED <<pc, call, ret, cached, result, done, agreed, alone>>
    BY <1>1 DEF IInv, Types, Device, PushButton, CloseByHand, ChangeDisc
  <2> QED
    BY <2>1, ByHand
<1>2. CASE UNCHANGED vars
  <2>1. /\ device' \in Device /\ device'.locked = device.locked
        /\ UNCHANGED <<pc, call, ret, cached, result, done, agreed, alone>>
    BY <1>2 DEF IInv, Types, vars
  <2> QED
    BY <2>1, ByHand
<1> QED
  BY <1>1, <1>2, CallKeeps, DeviceExecutesKeeps, AnswerLostKeeps, RefusedKeeps, ReturnsKeeps DEF Next

LEMMA Invariant == Spec => []IInv
BY InvInit, InvStep, PTL DEF Spec

-----------------------------------------------------------------------------
LEMMA Names ==
  /\ SenseKey(NotReady.key) = "NotReady" /\ SenseKey(InvalidField.key) = "IllegalRequest"
  /\ SenseKey(Prevented.key) = "IllegalRequest" /\ SenseKey(Attention.key) = "UnitAttention"
  /\ \A s \in Senses : s.asc = 83 => s = Prevented
BY DEF SenseKey, Senses, NoSense, NotReady, InvalidField, Prevented, Attention, Sense

\* Whatever the calls of other handles and a person do in between, a failed
\* call reports the sense data of its own command.
THEOREM ErrorsAreTheirOwn == Spec => []ErrorOfItsCommand
<1>1. ASSUME IInv, NEW h \in Mmcs, pc[h] = "idle", call[h] # "none"
      PROVE  CASE done[h].kind = "done"  -> result[h].kind = "Ok"
      [] done[h].kind = "check" ->
           result[h] = [kind |-> "CheckCondition",
                        sense |-> [kind |-> "sense", asc |-> done[h].sense.asc, ascq |-> done[h].sense.ascq,
                                   sense_key |-> CASE done[h].sense = NotReady -> "NotReady"
                                                   [] done[h].sense \in {InvalidField, Prevented} -> "IllegalRequest"
                                                   [] done[h].sense = Attention -> "UnitAttention"]]
      [] done[h].kind = "os"    -> result[h].kind = "Os" /\ result[h].code = done[h].code
  <2>1. Says(h) /\ done[h].kind \in {"done", "check", "os"}
    BY <1>1 DEF IInv, Returned
  <2>2. CASE done[h].kind = "check"
    <3>1. /\ done[h].sense \in {NotReady, InvalidField, Prevented, Attention}
          /\ result[h] = [kind |-> "CheckCondition",
                          sense |-> [kind |-> "sense", sense_key |-> SenseKey(done[h].sense.key),
                                     asc |-> done[h].sense.asc, ascq |-> done[h].sense.ascq]]
      BY <2>1, <2>2 DEF Says, Senses
    <3>2. SenseKey(done[h].sense.key) = CASE done[h].sense = NotReady -> "NotReady"
                                          [] done[h].sense \in {InvalidField, Prevented} -> "IllegalRequest"
                                          [] done[h].sense = Attention -> "UnitAttention"
      <4>1. NotReady # InvalidField /\ NotReady # Attention /\ InvalidField # Attention
        BY DEF NotReady, InvalidField, Attention, Sense
      <4> QED
        BY <3>1, <4>1, Names, Distinct
    <3> QED
      BY <2>2, <3>1, <3>2
  <2>3. CASE done[h].kind \in {"done", "os"}
    BY <2>1, <2>3 DEF Says
  <2> QED
    BY <2>1, <2>2, <2>3
<1>2. IInv => ErrorOfItsCommand
  BY <1>1 DEF ErrorOfItsCommand
<1> QED
  BY <1>2, Invariant, PTL

\* A call that returns Ok has done what it is for.
THEOREM OkIsDone == Spec => []OkMeansDone
<1>1. ASSUME IInv, NEW h \in Mmcs, pc[h] = "idle", result[h].kind = "Ok" PROVE done[h].achieved
  <2>1. call[h] # "none"
    BY <1>1 DEF IInv, Runs, Unfinished
  <2>2. Says(h) /\ done[h].kind \in {"done", "check", "os"}
    BY <1>1, <2>1 DEF IInv, Returned
  <2>3. done[h].kind = "check" => result[h].kind = "CheckCondition"
    BY <2>2 DEF Says
  <2>4. done[h].kind = "os" => result[h].kind = "Os"
    BY <2>2 DEF Says
  <2>5. done[h].kind = "done"
    BY <1>1, <2>2, <2>3, <2>4
  <2> QED
    BY <2>2, <2>5 DEF Says
<1>2. IInv => OkMeansDone
  BY <1>1 DEF OkMeansDone
<1> QED
  BY <1>2, Invariant, PTL

\* A device whose lock was opened, and left alone since, ejects.
THEOREM AllowedEjects == Spec => []EjectsOnceAllowed
<1>1. ASSUME IInv, NEW h \in Mmcs, pc[h] = "idle", call[h] = "eject", alone[h],
             result[h].kind = "CheckCondition", result[h].sense.asc = 83
      PROVE  FALSE
  <2>1. Says(h) /\ done[h].kind \in {"done", "check", "os"}
    BY <1>1 DEF IInv, Returned
  <2>2. done[h].kind = "check"
    BY <1>1, <2>1 DEF Says
  <2>3. done[h].sense \in Senses /\ done[h].sense.asc = 83
    BY <1>1, <2>1, <2>2 DEF Says
  <2> QED
    BY <1>1, <2>2, <2>3, Names DEF IInv, Lock
<1>2. IInv => EjectsOnceAllowed
  BY <1>1 DEF EjectsOnceAllowed
<1> QED
  BY <1>2, Invariant, PTL

\* While the medium is locked in, no call and no hand opens the tray.
THEOREM PreventedStaysShut == Spec => ShutWhilePrevented
<1>1. ASSUME IInv, [Next]_vars, agreed = "prevented", agreed' = "prevented", device.tray = "closed"
      PROVE  device'.tray = "closed" /\ (device.disc => device'.disc)
  <2>1. device \in Device /\ device.locked /\ \A h \in Mmcs : ~Changer(h)
    BY <1>1 DEF IInv, Types, Lock
  <2>2. ASSUME NEW h \in Mmcs, DeviceExecutes(h) \/ AnswerLost(h) PROVE
          device'.tray = "closed" /\ (device.disc => device'.disc)
    <3>1. PICK after : after = Executed(device, Block(call[h]))
      OBVIOUS
    <3>2. pc[h] = "sent" /\ (device' = after[1] \/ device' = device)
      BY <2>2, <3>1 DEF DeviceExecutes, AnswerLost, Ran
    <3>3. call[h] \in Calls /\ ~ChangesLock(call[h])
      BY <1>1, <2>1, <3>2 DEF IInv, Runs, Busy, Changer
    <3>4. Right(call[h], device, after[1], after[2])
      BY <2>1, <3>1, <3>3, DeviceFacts
    <3> QED
      BY <1>1, <2>1, <3>2, <3>3, <3>4 DEF Right
  <2>3. ASSUME PushButton \/ CloseByHand \/ ChangeDisc PROVE
          device'.tray = "closed" /\ (device.disc => device'.disc)
    BY <1>1, <2>1, <2>3 DEF PushButton, CloseByHand, ChangeDisc, Device
  <2>4. ASSUME NEW h \in Mmcs, Refused(h) \/ Returns(h) \/ \E c \in Calls : Call(h, c)
        PROVE  device' = device
    BY <2>4 DEF Refused, Returns, Call
  <2> QED
    BY <1>1, <2>2, <2>3, <2>4 DEF Next, vars
<1> QED
  BY <1>1, Invariant, InvStep, PTL DEF Spec, ShutWhilePrevented
=============================================================================
