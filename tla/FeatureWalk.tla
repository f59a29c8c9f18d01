---------------------------- MODULE FeatureWalk ----------------------------
(***************************************************************************)
(* Mmc::features (mmc/get_config.rs): the walk over the feature descriptors *)
(* of a GET CONFIGURATION answer, whose total length and whose descriptor   *)
(* lengths are the device's word.                                           *)
(***************************************************************************)
EXTENDS Features

CONSTANTS BUF,        \* ALLOC_BUF_SIZE, 4096 in the code
          Responses   \* what the device may answer: records [len, data, layout]

\* External: an answer has a length field, that need not be true, and bytes.
\* Its layout is what the device meant: descriptors, each with its place in the
\* data, its bytes and the feature that it is for.
ASSUME ResponsesAssumption ==
  /\ BUF \in Nat /\ BUF >= 8
  /\ \A r \in Responses :
       /\ r.len \in Nat /\ r.data \in Seq(0..255)
       /\ Len(r.layout) \in Nat /\ DOMAIN r.layout = 1..Len(r.layout)
       /\ \A k \in DOMAIN r.layout : r.layout[k].bytes \in Seq(0..255)

VARIABLES pc,        \* "call", "walk" or "done"
          dtors,     \* the bytes of the feature descriptors
          i,         \* where the walk is
          features,  \* the features found so far
          status,    \* how the call ended
          response   \* auxiliary: the answer of the device

vars == <<pc, dtors, i, features, status, response>>

-----------------------------------------------------------------------------
\* Mutant: the length field counts only the descriptors.
DescriptorsAll(r) == [k \in 1..r.len |-> IF k <= Len(r.data) THEN r.data[k] ELSE 0]

\* &buf[8..8 + dtors_len - 4]: the buffer was zero before the command.
Descriptors(r) == [k \in 1..r.len - 4 |-> IF k <= Len(r.data) THEN r.data[k] ELSE 0]

\* Mutant: a descriptor's header is not counted.
DtorLenDataOnly(d, at) == d[at + 4]

\* The descriptor's own length, and its header of four bytes.
DtorLen(d, at) == d[at + 4] + 4

Slice(d, at, len) == SubSeq(d, at + 1, at + len)

-----------------------------------------------------------------------------
Init ==
  /\ pc = "call"
  /\ dtors = <<>>
  /\ i = 0
  /\ features = <<>>
  /\ status = "none"
  /\ response \in Responses

Return(s) == pc' = "done" /\ status' = s

\* mmc_get_configuration returns a code other than zero.
CommandFails ==
  /\ pc = "call"
  /\ Return("Err")
  /\ UNCHANGED <<dtors, i, features, response>>

\* The length check, and the slice of the descriptors.
CommandAnswers ==
  /\ pc = "call"
  /\ \/ BUF < response.len + 4 /\ Return("Err") /\ UNCHANGED dtors
     \/ BUF >= response.len + 4 /\ response.len < 4 /\ Return("panic") /\ UNCHANGED dtors
     \/ /\ BUF >= response.len + 4 /\ response.len >= 4
        /\ pc' = "walk"
        /\ dtors' = Descriptors(response)
        /\ UNCHANGED status
  /\ UNCHANGED <<i, features, response>>

\* Mutant: a last descriptor without data is not seen.
MoreDescriptorsWithData == i + 4 < Len(dtors)

MoreDescriptors == i + 3 < Len(dtors)

\* One round: slice the descriptor, parse it, keep the feature, advance.
Step ==
  /\ pc = "walk" /\ MoreDescriptors
  /\ LET len  == DtorLen(dtors, i)
         dtor == Slice(dtors, i, len)
     IN  IF i + len > Len(dtors) \/ Panics(dtor)
         THEN Return("panic") /\ UNCHANGED <<i, features>>
         ELSE /\ features' = IF Parse(dtor) # NoFeature THEN Append(features, Parse(dtor))
                             ELSE features
              /\ i' = i + len
              /\ UNCHANGED <<pc, status>>
  /\ UNCHANGED <<dtors, response>>

WalkEnds ==
  /\ pc = "walk" /\ ~MoreDescriptors
  /\ Return("Ok")
  /\ UNCHANGED <<dtors, i, features, response>>

Next == CommandFails \/ CommandAnswers \/ Step \/ WalkEnds

\* The call runs on; the command is not obliged to fail.
Spec     == Init /\ [][Next]_vars
FairSpec == Spec /\ WF_vars(CommandAnswers \/ Step \/ WalkEnds)

-----------------------------------------------------------------------------
\* The walk never leaves the descriptors, and those never leave the buffer.
TypeOK ==
  /\ pc \in {"call", "walk", "done"}
  /\ dtors \in Seq(0..255) /\ Len(dtors) <= BUF - 8
  /\ i \in 0..Len(dtors)
  /\ status \in {"none", "Err", "panic", "Ok"}
  /\ response.len \in Nat /\ response.data \in Seq(0..255)

\* Every call of features() returns, whatever lengths the device has written.
CallReturns == <>(pc = "done")

\* Where the first k descriptors end.
End(layout, k) == IF k = 0 THEN 0 ELSE layout[k].at + Len(layout[k].bytes)

\* The data are the descriptors, one after another.
LaidOut(r) ==
  /\ Len(r.data) = End(r.layout, Len(r.layout))
  /\ \A k \in DOMAIN r.layout :
       /\ r.layout[k].at = End(r.layout, k - 1)
       /\ End(r.layout, k) <= Len(r.data)
       /\ SubSeq(r.data, r.layout[k].at + 1, End(r.layout, k)) = r.layout[k].bytes

\* An answer of descriptors by the standard, with the length that covers them
\* and fits.
WellBuilt ==
  /\ LaidOut(response)
  /\ \A k \in DOMAIN response.layout :
       LET item == response.layout[k] IN IsFeature(item.means) /\ Describes(item.bytes, item.means)
  /\ response.len = Len(response.data) + 4
  /\ response.len + 4 <= BUF

\* No CD Read feature has exactly one of C2 pointers and CD-Text, which MMC-6
\* has in bits 1 and 0 and the crate in 0 and 1.
BothOrNeither ==
  \A k \in DOMAIN response.layout :
    LET f == response.layout[k].means IN f.is = "CdRead" => f.c2_error = f.cd_text

\* What a program should be told of each descriptor, and which of them tell it
\* something.
Values(r) == [k \in DOMAIN r.layout |-> ValueOf(r.layout[k].means)]
Told(r)   == {k \in DOMAIN r.layout : Values(r)[k] # NoFeature}

\* The features of a well built answer are those that the device means, with
\* their values, each one once and in order: none is lost at an end, split or
\* merged with the next, and one that cannot be read or is not known costs
\* none of the others, nor an unknown profile the profiles around it.  A drive
\* that can do exactly one of C2 pointers and CD-Text is left out: the crate
\* says that it can do the other (get_config.rs:544).
FeaturesOfTheDevice ==
  pc = "done" /\ status # "Err" /\ WellBuilt /\ BothOrNeither
    => status = "Ok" /\ features = Filter(Values(response), Told(response))

\* get_config.rs:30: "Returns `None` on error", get_config.rs:462 and :472: a
\* descriptor shorter than it should be is reported and skipped.
MalformedIsSkipped == status # "panic"
=============================================================================
