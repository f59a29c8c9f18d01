------------------------------ MODULE Answers ------------------------------
(***************************************************************************)
(* A call of the crate that sends a command and makes a value of the bytes  *)
(* that come back.  The device reads the command block, chooses what it     *)
(* means, and writes that into the bytes of its answer as the standard      *)
(* says; the call reads the bytes.                                          *)
(***************************************************************************)
EXTENDS MmcWire, Sequences

VARIABLES pc,       \* "idle", "asked", "decode" or "returned"
          call,     \* the method that executes
          meant,    \* auxiliary: what the device means by its answer
          data,     \* the bytes of the answer
          result    \* what the method returned

answerVars == <<pc, call, meant, data, result>>

NoAnswer == [nothing |-> TRUE]
NoResult == [status |-> "none"]

AnswerInit ==
  /\ pc = "idle"
  /\ call = "none"
  /\ meant = NoAnswer
  /\ data = NoAnswer
  /\ result = NoResult

\* A method that makes the request r.
Ask(c, r, block) ==
  /\ pc = "idle" /\ Idle
  /\ pc' = "asked"
  /\ call' = c
  /\ Send(r, block)
  /\ UNCHANGED <<meant, data, result>>

\* run_command fails, and the method returns an error.
CommandFails(c, error) ==
  /\ pc = "asked" /\ call = c
  /\ pc' = "returned"
  /\ result' = [status |-> error]
  /\ UNCHANGED <<call, meant, data, wireVars>>

\* The device means a and writes bytes.
Answer(a, bytes) ==
  /\ pc = "asked"
  /\ pc' = "decode"
  /\ meant' = a
  /\ data' = bytes
  /\ UNCHANGED <<call, result, wireVars>>

\* The method returns r.
Return(c, r) ==
  /\ pc = "decode" /\ call = c
  /\ pc' = "returned"
  /\ result' = r
  /\ UNCHANGED <<call, meant, data, wireVars>>

\* The caller is done with the result; nothing of a call is left for the next.
Forget ==
  /\ pc = "returned"
  /\ pc' = "idle"
  /\ call' = "none"
  /\ meant' = NoAnswer /\ data' = NoAnswer /\ result' = NoResult
  /\ request' = NoRequest /\ cdb' = Cdb(0)

-----------------------------------------------------------------------------
\* n bits of a byte, from the bit `low` up; a word, the high byte first.
Bits(byte, low, n) == (byte \div 2^low) % 2^n
InWord(at)         == 256 * data[at] + data[at + 1]
=============================================================================
