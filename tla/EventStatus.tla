---------------------------- MODULE EventStatus ----------------------------
(***************************************************************************)
(* GET EVENT STATUS NOTIFICATION (mmc/get_event_status.rs): the header, the *)
(* descriptors of the six event classes and the calls that ask for them.    *)
(* An enum is the set of its discriminants.                                 *)
(***************************************************************************)
EXTENDS Answers

CONSTANT EventWords   \* bound: what the last two bytes of a descriptor may hold

ASSUME EventWordsAssumption == EventWords \subseteq U16

\* EventClass, by the position of its bit, and EventClass::empty().
Empty             == 0
OperationalChange == 1
PowerManagement   == 2
ExternalRequest   == 3
Media             == 4
MultiHost         == 5
DeviceBusy        == 6

EventCalls == {"supported_events", "operational_event_status", "power_status", "external_status",
          "media_status", "is_tray_open", "multihost_status", "busy_status"}

Class(c) == CASE c = "supported_events"                 -> Empty
              [] c = "operational_event_status"         -> OperationalChange
              [] c = "power_status"                     -> PowerManagement
              [] c = "external_status"                  -> ExternalRequest
              [] c \in {"media_status", "is_tray_open"} -> Media
              [] c = "multihost_status"                 -> MultiHost
              [] c = "busy_status"                      -> DeviceBusy

-----------------------------------------------------------------------------
(***************************************************************************)
(* External: the answers of a device.                                       *)
(***************************************************************************)
Prevents(class) == IF class \in {OperationalChange, ExternalRequest, MultiHost} THEN BOOLEAN ELSE {FALSE}

\* A descriptor of the class, with codes that may be reserved.
Descriptions(class) ==
  [len : {6}, nea : {FALSE}, class : {class}, supported : {18, 255},
   code : 0..7, prevent : Prevents(class), state : 0..5, word : EventWords]

\* Answers of another length or class, or that there is no such event.
OddAnswers ==
  [len : {0, 2, 3, 4, 5, 6, 10, 11}, nea : BOOLEAN, class : 0..7, supported : {18, 255},
   code : {0}, prevent : {FALSE}, state : {1}, word : {0}]

\* No event available: a header without a descriptor.
NotSupported(a) == a.nea /\ a.len = 2 /\ a.class = 0

\* The bytes of an answer.
Encoded(a) ==
  [k \in 0..11 |->
     CASE k = 1 -> a.len
       [] k = 2 -> a.class + (IF a.nea THEN 128 ELSE 0)
       [] k = 3 -> a.supported
       [] k = 4 -> a.code
       [] k = 5 -> a.state + (IF a.prevent THEN 128 ELSE 0)
       [] k = 6 -> a.word \div 256
       [] k = 7 -> a.word % 256
       [] OTHER -> 0]

\* The codes that the standard defines.
Defined(a) ==
  CASE a.class = OperationalChange -> a.state = 0 /\ a.code \in 0..2 /\ a.word \in 0..5
    [] a.class = PowerManagement   -> a.code \in 0..2 /\ a.state \in 1..4
    [] a.class = ExternalRequest   -> /\ a.code \in 0..3 /\ a.state \in 0..1
                                      /\ \/ a.word \in {0, 1, 257, 258, 259, 260, 262, 263}
                                         \/ a.word >= 61440
    [] a.class = Media             -> a.code \in 0..6 /\ a.state \in 0..3
    [] a.class = MultiHost         -> a.code \in 0..3 /\ a.state \in 0..1 /\ a.word \in 0..3
    [] a.class = DeviceBusy        -> a.code \in 0..2 /\ a.state \in 0..1
    [] OTHER                       -> FALSE

-----------------------------------------------------------------------------
(***************************************************************************)
(* The bytes, as the code reads them.                                       *)
(***************************************************************************)
\* Mutant: the nibbles of a byte are swapped.
EventCodeHigh == Bits(data[4], 4, 4)

\* parse_event_code
EventCode == Bits(data[4], 0, 4)

\* The length counts the bytes after itself: two of the header, then the rest.
HeaderParses == InWord(0) \in 2..10

\* parse_header
Header(expected) ==
  IF ~HeaderParses                                           THEN "InvalidResponse"
  ELSE IF expected # Empty /\ Bits(data[2], 7, 1) = 1        THEN "EventNotSupported"
  ELSE IF expected # Empty /\ Bits(data[2], 0, 3) # expected THEN "InvalidResponse"
  ELSE "Ok"

\* Mutant: a descriptor of four bytes wants one more.
HasBytesMore(n) == InWord(0) > 2 + n

\* A descriptor takes n bytes of what the header left.
HasBytes(n) == InWord(0) >= 2 + n

-----------------------------------------------------------------------------
\* get_event_status_notification(EventMode::Polled, class)
AskForEvents(c) ==
  LET classes == {Class(c)} \ {Empty}
      r == [op |-> "get_event_status", polled |-> TRUE, classes |-> classes, len |-> 12]
  IN  Ask(c, r, GetEventStatus(r))

\* External: the device describes an event of the class that the command asks
\* for, or answers oddly.
AnswerEvents ==
  call \in EventCalls /\ \E a \in OddAnswers \union UNION {Descriptions(class) : class \in cdb[4]} :
    Answer(a, Encoded(a))

\* The end of a call: the header, a descriptor of `length` bytes whose codes
\* are `good`, and the value that is made of it.
Described(c, length, good, value) ==
  Return(c, IF Header(Class(c)) # "Ok"         THEN [status |-> Header(Class(c))]
            ELSE IF ~(HasBytes(length) /\ good) THEN [status |-> "InvalidResponse"]
            ELSE [status |-> "Ok", value |-> value])

\* The enums of the descriptors; 0 is no event, request or priority.
Optional(codes)        == {0} \union codes
OperationalEvents      == 1..5
PowerEvents            == 1..2
PowerStates            == 1..4
ExternalRequestEvents  == 1..3
ExternalRequestStates  == 0..1
MediaEvents            == 1..6
MultiHostEvents        == 1..3
MultiHostStates        == 0..1
MultiHostPriorities    == 1..3
BusyEvents             == 1..2
BusyStates             == 0..1
NotBusy                == 0

SupportedEvents ==
  Described("supported_events", 0, TRUE, {k \in 1..6 : Bits(data[3], k, 1) = 1})

OperationalEventStatus ==
  Described("operational_event_status", 4, InWord(6) \in Optional(OperationalEvents),
         [event |-> InWord(6), persistent_prevent |-> Bits(data[5], 7, 1) = 1])

PowerStatus ==
  Described("power_status", 2, EventCode \in Optional(PowerEvents) /\ data[5] \in PowerStates,
         [event |-> EventCode, state |-> data[5]])

\* ExternalRequest: every vendor unique code is the one variant.
VendorUnique  == 61440
KnownRequests == {1, 257, 258, 259, 260, 262, 263} \union {word \in U16 : word >= VendorUnique}
Request(word) == IF word > VendorUnique THEN VendorUnique ELSE word

ExternalStatus ==
  Described("external_status", 4,
         /\ EventCode \in Optional(ExternalRequestEvents)
         /\ Bits(data[5], 0, 4) \in ExternalRequestStates
         /\ InWord(6) \in Optional(KnownRequests),
         [event |-> EventCode, state |-> Bits(data[5], 0, 4), request |-> Request(InWord(6))])

DoorOrTrayOpen == Bits(data[5], 0, 1) = 1
MediaPresent   == Bits(data[5], 1, 1) = 1

MediaStatus ==
  Described("media_status", 4, EventCode \in Optional(MediaEvents),
         [event |-> EventCode, open |-> DoorOrTrayOpen, present |-> MediaPresent,
          start_slot |-> data[6], end_slot |-> data[7]])

\* media_status, of which only the tray's bit is kept.
IsTrayOpen ==
  Described("is_tray_open", 4, EventCode \in Optional(MediaEvents), DoorOrTrayOpen)

MultihostStatus ==
  Described("multihost_status", 4,
         /\ EventCode \in Optional(MultiHostEvents)
         /\ Bits(data[5], 0, 4) \in MultiHostStates
         /\ InWord(6) \in Optional(MultiHostPriorities),
         [event |-> EventCode, state |-> Bits(data[5], 0, 4), priority |-> InWord(6)])

\* Duration::from_millis; an Option of a Duration is the set of it, or empty.
FromMillis(n) == [secs |-> n \div 1000, nanos |-> 1000000 * (n % 1000)]
NoTime        == {}

BusyStatus ==
  Described("busy_status", 4, EventCode \in Optional(BusyEvents) /\ data[5] \in BusyStates,
         [event |-> EventCode, state |-> data[5],
          busy_time |-> IF data[5] = NotBusy THEN NoTime ELSE {FromMillis(InWord(6))}])

EventStatusNext ==
  \/ \E c \in EventCalls : AskForEvents(c) \/ CommandFails(c, "Cmd")
  \/ AnswerEvents
  \/ SupportedEvents \/ OperationalEventStatus \/ PowerStatus \/ ExternalStatus
  \/ MediaStatus \/ IsTrayOpen \/ MultihostStatus \/ BusyStatus

-----------------------------------------------------------------------------
\* External: the Time field of a device busy event counts tenths of a second.
TimeLeft(word) == [secs |-> word \div 10, nanos |-> 100000000 * (word % 10)]

\* The value a caller should get for what the device means.
EventMeaning(c, a) ==
  CASE c = "supported_events"         -> {k \in 1..6 : (a.supported \div 2^k) % 2 = 1}
    [] c = "operational_event_status" -> [event |-> a.word, persistent_prevent |-> a.prevent]
    [] c = "power_status"             -> [event |-> a.code, state |-> a.state]
    [] c = "external_status"          -> [event |-> a.code, state |-> a.state,
                                          request |-> IF a.word >= 61440 THEN 61440 ELSE a.word]
    [] c = "media_status"             -> [event |-> a.code, open |-> a.state \in {1, 3, 5},
                                          present |-> a.state \in {2, 3}, start_slot |-> a.word \div 256,
                                          end_slot |-> a.word % 256]
    [] c = "is_tray_open"             -> a.state \in {1, 3, 5}
    [] c = "multihost_status"         -> [event |-> a.code, state |-> a.state, priority |-> a.word]
    [] c = "busy_status"              -> [event |-> a.code, state |-> a.state,
                                          busy_time |-> IF a.state = 1 THEN {TimeLeft(a.word)} ELSE NoTime]

\* The value says what the device means.  Of the time that it stays busy only
\* that there is one: how long it is comes out a hundredth of TimeLeft
\* (get_event_status.rs:225), and the length is left out.
Untimed(status) == [status EXCEPT !.busy_time = (@ # NoTime)]
ValueSays(c, a, value) ==
  IF c = "busy_status" THEN Untimed(value) = Untimed(EventMeaning(c, a)) ELSE value = EventMeaning(c, a)

\* What a status must say, and which answers must not be passed off as one.
EventSays ==
  /\ ValueSays(call, meant, result.value)
  /\ call # "supported_events" => meant.class = Class(call) /\ ~meant.nea

\* The result for an answer that the standard allows, which is understood, or
\* for one that says that there is no such event.
EventUnderstood ==
  /\ call = "supported_events" /\ meant.len \in 2..10 => result.status = "Ok"
  /\ call # "supported_events" =>
       /\ NotSupported(meant) => result.status = "EventNotSupported"
       /\ meant.class = Class(call) /\ ~meant.nea /\ meant.len = 6 /\ Defined(meant) => result.status = "Ok"
=============================================================================
