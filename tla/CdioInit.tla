------------------------------ MODULE CdioInit ------------------------------
(***************************************************************************)
(* The life of libcdio's native objects across the threads of a program:   *)
(* logging.rs (the Once around the log handler), cdio.rs (CDIO_INIT_LOCK), *)
(* and the constructors and destructors of Drive, Mmc, Udf and Iso.        *)
(*                                                                         *)
(* The handles hold NonNull pointers, so they are neither Send nor Sync:   *)
(* a handle stays with the thread that opened it.  Threads meet only in    *)
(* the Once, in the mutex and in libcdio's own static variables.           *)
(* A call into libcdio is two steps, entering and returning, so that two   *)
(* threads can be inside at once.                                          *)
(***************************************************************************)
EXTENDS Naturals

CONSTANTS Threads,    \* threads of the program
          Handles,    \* native objects that can be alive at one time
          MaxCalls,   \* bound: constructors and listings a thread may call
          None        \* no thread, no handle

ASSUME InitAssumption == /\ None \notin Threads \cup Handles
                         /\ MaxCalls \in Nat

VARIABLES once,     \* LOG_HANDLER: "new", "running" (closure executing), "done"
          logger,   \* libcdio's log globals written so far
          lock,     \* CDIO_INIT_LOCK: the thread that holds the guard, or None
          at,       \* where each thread is
          call,     \* the call a thread is in
          hand,     \* the native pointer the call in progress owns
          lists,    \* threads that own a device list returned by libcdio
          obj,      \* what each native object is; "free" before and after its life
          mmcDev,   \* objects whose device is an MMC device
          owner,    \* the thread whose Rust value owns the object
          calls     \* calls made so far, at most MaxCalls

vars == <<once, logger, lock, at, call, hand, lists, obj, mmcDev, owner, calls>>

CdioKinds  == {"drive", "mmc"}   \* Rust types around a Cdio
ImageKinds == {"udf", "iso"}     \* Rust types around their own native type
Kinds      == CdioKinds \cup ImageKinds
LogGlobals == {"handler", "level"}

Guarded == {"open", "list", "copy", "destroy", "unlock"}
Places  == Guarded \cup {"idle", "log", "handler", "level", "lock", "probe",
                         "path", "image", "close"}

TypeOK ==
  /\ once \in {"new", "running", "done"}
  /\ logger \subseteq LogGlobals
  /\ lock \in Threads \cup {None}
  /\ at \in [Threads -> Places]
  /\ call \in [Threads -> Kinds \cup {"drives", "drop"}]
  /\ hand \in [Threads -> Handles \cup {None}]
  /\ lists \subseteq Threads
  /\ obj \in [Handles -> Kinds \cup {"free"}]
  /\ mmcDev \subseteq Handles
  /\ owner \in [Handles -> Threads \cup {None}]
  /\ calls \in [Threads -> 0..MaxCalls]

Init ==
  /\ once = "new"
  /\ logger = {}
  /\ lock = None
  /\ at = [t \in Threads |-> "idle"]
  /\ call = [t \in Threads |-> "drop"]
  /\ hand = [t \in Threads |-> None]
  /\ lists = {}
  /\ obj = [h \in Handles |-> "free"]
  /\ mmcDev = {}
  /\ owner = [h \in Handles |-> None]
  /\ calls = [t \in Threads |-> 0]

-----------------------------------------------------------------------------
Goto(t, from, to) == at[t] = from /\ at' = [at EXCEPT ![t] = to]

objects == <<obj, mmcDev, owner>>

\* The calls of the API; each begins with init_logger().  A path with a NUL
\* byte is refused before that by Drive::with_drive and Mmc::with_device,
\* which changes nothing and is no step.
Begin(t, c) ==
  /\ calls[t] < MaxCalls
  /\ Goto(t, "idle", "log")
  /\ call' = [call EXCEPT ![t] = c]
  /\ calls' = [calls EXCEPT ![t] = @ + 1]
  /\ UNCHANGED <<once, logger, lock, hand, lists, objects>>

ListDrives(t) == Begin(t, "drives")
OpenDrive(t)  == Begin(t, "drive")
OpenMmc(t)    == Begin(t, "mmc")
OpenUdf(t)    == Begin(t, "udf")
OpenIso(t)    == Begin(t, "iso")

AfterLogger(t) == IF call[t] \in ImageKinds THEN "path" ELSE "lock"

\* Mutant: a plain flag instead of the Once does not wait for the closure.
LoggerDoneNoWait(t) ==
  /\ once # "new"
  /\ Goto(t, "log", AfterLogger(t))
  /\ UNCHANGED <<once, logger, lock, call, hand, lists, objects, calls>>

\* init_logger(): call_once returns at once when the closure has completed,
\* runs it when nobody has, and blocks while another thread runs it.
LoggerDone(t) ==
  /\ once = "done"
  /\ Goto(t, "log", AfterLogger(t))
  /\ UNCHANGED <<once, logger, lock, call, hand, lists, objects, calls>>

LoggerFirst(t) ==
  /\ once = "new"
  /\ once' = "running"
  /\ Goto(t, "log", "handler")
  /\ UNCHANGED <<logger, lock, call, hand, lists, objects, calls>>

SetHandler(t) ==
  /\ Goto(t, "handler", "level")
  /\ logger' = logger \cup {"handler"}
  /\ UNCHANGED <<once, lock, call, hand, lists, objects, calls>>

SetLevel(t) ==
  /\ Goto(t, "level", AfterLogger(t))
  /\ logger' = logger \cup {"level"}
  /\ once' = "done"
  /\ UNCHANGED <<lock, call, hand, lists, objects, calls>>

-----------------------------------------------------------------------------
\* CDIO_INIT_LOCK.lock().unwrap(), then the C routine the call is for.
Acquire(t) ==
  /\ lock = None
  /\ lock' = t
  /\ Goto(t, "lock", CASE call[t] = "drives"   -> "list"
                       [] call[t] = "drop"     -> "destroy"
                       [] call[t] \in CdioKinds -> "open")
  /\ UNCHANGED <<once, logger, call, hand, lists, objects, calls>>

\* Mutant: the NULL of a failed open is wrapped without the NonNull check.
CdioOpenedNull(t) ==
  /\ Goto(t, "open", "unlock")
  /\ hand' = [hand EXCEPT ![t] = "NULL"]
  /\ UNCHANGED <<once, logger, lock, call, lists, objects, calls>>

\* cdio_open_am: NULL, or a new CdIo_t of a device that speaks MMC or not.
CdioOpened(t) ==
  /\ Goto(t, "open", "unlock")
  /\ \/ UNCHANGED <<hand, obj, mmcDev>>
     \/ \E h \in Handles, speaksMmc \in BOOLEAN :
          /\ obj[h] = "free"
          /\ obj' = [obj EXCEPT ![h] = call[t]]
          /\ hand' = [hand EXCEPT ![t] = h]
          /\ mmcDev' = IF speaksMmc THEN mmcDev \cup {h} ELSE mmcDev \ {h}
  /\ UNCHANGED <<once, logger, lock, call, lists, owner, calls>>

\* cdio_get_devices: NULL and the early return, or a list to copy.
DevicesListed(t) ==
  /\ \/ Goto(t, "list", "unlock") /\ UNCHANGED lists
     \/ Goto(t, "list", "copy") /\ lists' = lists \cup {t}
  /\ UNCHANGED <<once, logger, lock, call, hand, objects, calls>>

\* The list is copied into the Vec and freed, still under the guard.
ListFreed(t) ==
  /\ Goto(t, "copy", "unlock")
  /\ lists' = lists \ {t}
  /\ UNCHANGED <<once, logger, lock, call, hand, objects, calls>>

CdioDestroyed(t) ==
  /\ Goto(t, "destroy", "unlock")
  /\ obj' = [obj EXCEPT ![hand[t]] = "free"]
  /\ hand' = [hand EXCEPT ![t] = None]
  /\ mmcDev' = mmcDev \ {hand[t]}
  /\ UNCHANGED <<once, logger, lock, call, lists, owner, calls>>

Give(t) == /\ owner' = [owner EXCEPT ![hand[t]] = t]
           /\ hand' = [hand EXCEPT ![t] = None]

\* The guard goes out of scope.  An open Drive is given to the caller; an
\* open Mmc is probed first, without the guard; everything else returns.
Unlock(t) ==
  /\ lock' = None
  /\ \/ /\ hand[t] = None
        /\ Goto(t, "unlock", "idle")
        /\ UNCHANGED <<hand, owner>>
     \/ /\ hand[t] # None /\ call[t] = "drive"
        /\ Goto(t, "unlock", "idle")
        /\ Give(t)
     \/ /\ hand[t] # None /\ call[t] = "mmc"
        /\ Goto(t, "unlock", "probe")
        /\ UNCHANGED <<hand, owner>>
  /\ UNCHANGED <<once, logger, call, lists, obj, mmcDev, calls>>

\* Mutant: is_ok() instead of is_ok_and().
ProbeYesAnyAnswer(t) ==
  /\ Goto(t, "probe", "idle")
  /\ Give(t)
  /\ UNCHANGED <<once, logger, lock, call, lists, obj, mmcDev, calls>>

\* is_mmc_device().is_ok_and(|is_mmc| is_mmc): only a device that speaks MMC
\* can answer yes.
ProbeYes(t) ==
  /\ hand[t] \in mmcDev
  /\ Goto(t, "probe", "idle")
  /\ Give(t)
  /\ UNCHANGED <<once, logger, lock, call, lists, obj, mmcDev, calls>>

\* Mutant: the failing branch returns without dropping the handle.
ProbeNoLeak(t) ==
  /\ Goto(t, "probe", "idle")
  /\ hand' = [hand EXCEPT ![t] = None]
  /\ UNCHANGED <<once, logger, lock, call, lists, objects, calls>>

\* Mutant: a failed probe opens and probes again instead of giving up.
ProbeNoRetry(t) ==
  /\ Goto(t, "probe", "lock")
  /\ UNCHANGED <<once, logger, lock, call, hand, lists, objects, calls>>

\* Not an MMC device, or the INQUIRY failed: the Mmc built around the handle
\* goes out of scope, and its destructor takes the lock again.
ProbeNo(t) ==
  /\ Goto(t, "probe", "lock")
  /\ call' = [call EXCEPT ![t] = "drop"]
  /\ UNCHANGED <<once, logger, lock, hand, lists, objects, calls>>

-----------------------------------------------------------------------------
\* Udf::new and Iso::new check the path after init_logger() and do not take
\* the lock.
RejectPath(t) ==
  /\ Goto(t, "path", "idle")
  /\ UNCHANGED <<once, logger, lock, call, hand, lists, objects, calls>>

EnterImage(t) ==
  /\ Goto(t, "path", "image")
  /\ UNCHANGED <<once, logger, lock, call, hand, lists, objects, calls>>

\* udf_open and iso9660_open_ext: NULL, or an object given to the caller.
ImageOpened(t) ==
  /\ Goto(t, "image", "idle")
  /\ \/ UNCHANGED <<obj, owner>>
     \/ \E h \in Handles :
          /\ obj[h] = "free"
          /\ obj' = [obj EXCEPT ![h] = call[t]]
          /\ owner' = [owner EXCEPT ![h] = t]
  /\ UNCHANGED <<once, logger, lock, call, hand, lists, mmcDev, calls>>

\* Mutant: the destructor of Cdio does not take the lock.
DropUnlocked(t, h) ==
  /\ owner[h] = t
  /\ Goto(t, "idle", IF obj[h] \in CdioKinds THEN "destroy" ELSE "close")
  /\ owner' = [owner EXCEPT ![h] = None]
  /\ hand' = [hand EXCEPT ![t] = h]
  /\ call' = [call EXCEPT ![t] = "drop"]
  /\ UNCHANGED <<once, logger, lock, lists, obj, mmcDev, calls>>

\* A handle goes out of scope: a Cdio's destructor waits for the lock, Udf's
\* and Iso's call into libcdio at once.
Drop(t, h) ==
  /\ owner[h] = t
  /\ Goto(t, "idle", IF obj[h] \in CdioKinds THEN "lock" ELSE "close")
  /\ owner' = [owner EXCEPT ![h] = None]
  /\ hand' = [hand EXCEPT ![t] = h]
  /\ call' = [call EXCEPT ![t] = "drop"]
  /\ UNCHANGED <<once, logger, lock, lists, obj, mmcDev, calls>>

ImageClosed(t) ==
  /\ Goto(t, "close", "idle")
  /\ obj' = [obj EXCEPT ![hand[t]] = "free"]
  /\ hand' = [hand EXCEPT ![t] = None]
  /\ UNCHANGED <<once, logger, lock, call, lists, mmcDev, owner, calls>>

\* The program ends: every call is made and every handle dropped.
Finished == /\ \A t \in Threads : at[t] = "idle" /\ calls[t] = MaxCalls
            /\ \A h \in Handles : owner[h] = None
            /\ UNCHANGED vars

-----------------------------------------------------------------------------
Log(t)   == LoggerDone(t) \/ LoggerFirst(t) \/ SetHandler(t) \/ SetLevel(t)
Cdio(t)  == \/ Acquire(t) \/ CdioOpened(t) \/ DevicesListed(t) \/ ListFreed(t)
            \/ CdioDestroyed(t) \/ Unlock(t) \/ ProbeYes(t) \/ ProbeNo(t)
Image(t) == RejectPath(t) \/ EnterImage(t) \/ ImageOpened(t) \/ ImageClosed(t)
Step(t)  == Log(t) \/ Cdio(t) \/ Image(t)

User(t)  == \/ ListDrives(t) \/ OpenDrive(t) \/ OpenMmc(t) \/ OpenUdf(t)
            \/ OpenIso(t) \/ \E h \in Handles : Drop(t, h)

Next == (\E t \in Threads : Step(t) \/ User(t)) \/ Finished

\* A thread inside a call keeps running; nobody is obliged to call or to drop.
Fairness == \A t \in Threads : WF_vars(Step(t))

Spec     == Init /\ [][Next]_vars
FairSpec == Spec /\ Fairness

-----------------------------------------------------------------------------
\* Threads executing a libcdio routine other than the two log globals.
Inside(t) == at[t] \in {"open", "list", "copy", "destroy", "probe", "image", "close"}

\* Threads in a routine that the lock's comment is about: it initializes or
\* destroys a CdIo_t and so uses CdIo_last_driver.
InInit(t) == at[t] \in {"open", "list", "destroy"}

\* External: libcdio's udf_open opens the path as a CdIo_t and udf_close
\* destroys that one; iso9660_open_ext reads the file without a CdIo_t.
InImageInit(t) == \/ at[t] = "image" /\ call[t] = "udf"
                  \/ at[t] = "close" /\ obj[hand[t]] = "udf"

\* The routines Cdio and Drive call to open, list and destroy never overlap,
\* whatever threads call them, in whatever order probes fail and handles are
\* dropped (cdio.rs:51, cdio.rs:70, drive.rs:50).
InitExclusive == \A t, u \in Threads : InInit(t) /\ InInit(u) => t = u

\* No thread is inside libcdio before both log globals are written, nobody
\* writes them while another thread is inside, and two threads never write
\* them together (logging.rs:31: "before using any other methods").
LoggerReady ==
  /\ \A t \in Threads : Inside(t) => once = "done" /\ logger = LogGlobals
  /\ \A t, u \in Threads : {at[t], at[u]} \subseteq {"handler", "level"} => t = u

\* Every live native object is held exactly once, by a Rust value of one
\* thread or by one call in progress: nothing leaks, and nothing is freed
\* twice or used after it was freed, also when a probe fails after the open.
Accounted ==
  /\ \A h \in Handles : obj[h] # "free" <=> \/ owner[h] # None
                                            \/ \E t \in Threads : hand[t] = h
  /\ \A t \in Threads : hand[t] # None => owner[hand[t]] = None
  /\ \A t, u \in Threads : hand[t] = hand[u] /\ hand[t] # None => t = u
  /\ \A t \in Threads : at[t] = "idle" => hand[t] = None /\ t \notin lists

\* Mmc::new and Mmc::with_device hand out an Mmc only for a device that
\* answered as an MMC device (mmc.rs:70, mmc.rs:92).
OnlyMmcExposed == \A h \in Handles : owner[h] # None /\ obj[h] = "mmc" => h \in mmcDev

\* Every call returns: no failure of an open, a listing or a probe leaves the
\* mutex locked or the Once running, and a destructor that takes the lock
\* again does not wait for its own thread.
CallsReturn == \A t \in Threads : at[t] # "idle" ~> at[t] = "idle"

\* cdio.rs:78: "A lock that must be held before any routine that initializes
\* or destroys `CdIo_t`."
LockHeldInInit == \A t \in Threads : InInit(t) \/ InImageInit(t) => lock = t
=============================================================================
