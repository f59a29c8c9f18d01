-------------------------- MODULE CdioInit_proofs --------------------------
(***************************************************************************)
(* Proofs about CdioInit for any set of threads and handles.               *)
(* The inductive invariant is built in layers, each proved from those      *)
(* before it: types and the call each place belongs to; the mutex; the     *)
(* Once; the ownership of native objects.                                  *)
(***************************************************************************)
EXTENDS CdioInit, TLAPS

\* The places a call passes through: what Acquire and the returns of libcdio
\* rely on.
CallInv ==
  \A t \in Threads :
    /\ at[t] \in {"log", "handler", "level"} => call[t] # "drop"
    /\ at[t] = "lock" => call[t] \notin ImageKinds
    /\ at[t] = "open" => call[t] \in CdioKinds
    /\ at[t] \in {"path", "image"} => call[t] \in ImageKinds

\* The guard is alive exactly while its thread is in a guarded region.
LockInv == \A t \in Threads : at[t] \in Guarded <=> lock = t

\* What the Once guarantees, whoever wins it.
OnceInv ==
  /\ once = "done" => logger = LogGlobals
  /\ \A t \in Threads : at[t] \in {"handler", "level"} => once = "running"
  /\ \A t \in Threads : at[t] = "level" => "handler" \in logger
  /\ \A t \in Threads : at[t] \notin {"idle", "log", "handler", "level"} => once = "done"
  /\ \A h \in Handles : owner[h] # None => once = "done"
  /\ \A t, u \in Threads : {at[t], at[u]} \subseteq {"handler", "level"} => t = u

\* Where a call in progress owns a native pointer, and of which kind.
HandInv ==
  \A t \in Threads :
    /\ at[t] \in {"destroy", "close", "probe"} => hand[t] # None
    /\ at[t] \in {"log", "handler", "level", "open", "list", "copy", "path", "image"}
         => hand[t] = None
    /\ at[t] = "lock" => (hand[t] # None <=> call[t] = "drop")
    /\ at[t] = "unlock" /\ hand[t] # None => obj[hand[t]] = call[t]
    /\ t \in lists <=> at[t] = "copy"

-----------------------------------------------------------------------------
LEMMA NoneIsNone == None \notin Threads /\ None \notin Handles
  BY InitAssumption

LEMMA TypingInit == Init => TypeOK /\ CallInv
  BY InitAssumption DEF Init, TypeOK, CallInv, Places, Guarded, LogGlobals

LEMMA TypingStep == TypeOK /\ CallInv /\ [Next]_vars => TypeOK' /\ CallInv'
<1> SUFFICES ASSUME TypeOK, CallInv, [Next]_vars
             PROVE  TypeOK' /\ CallInv'
  OBVIOUS
<1> USE InitAssumption DEF TypeOK, CallInv, Places, Guarded, LogGlobals, Kinds,
                           CdioKinds, ImageKinds, Goto, objects
<1>1. ASSUME NEW t \in Threads, NEW c \in Kinds \cup {"drives"}, Begin(t, c)
      PROVE  TypeOK' /\ CallInv'
  BY <1>1 DEF Begin
<1>2. ASSUME NEW t \in Threads, Log(t)
      PROVE  TypeOK' /\ CallInv'
  <2>1. CASE LoggerDone(t)
    BY <2>1 DEF LoggerDone, AfterLogger
  <2>2. CASE LoggerFirst(t)
    BY <2>2 DEF LoggerFirst
  <2>3. CASE SetHandler(t)
    BY <2>3 DEF SetHandler
  <2>4. CASE SetLevel(t)
    BY <2>4 DEF SetLevel, AfterLogger
  <2>5. QED
    BY <1>2, <2>1, <2>2, <2>3, <2>4 DEF Log
<1>3. ASSUME NEW t \in Threads, Cdio(t)
      PROVE  TypeOK' /\ CallInv'
  <2>1. CASE Acquire(t)
    BY <2>1 DEF Acquire
  <2>2. CASE CdioOpened(t)
    BY <2>2 DEF CdioOpened
  <2>3. CASE DevicesListed(t) \/ ListFreed(t)
    BY <2>3 DEF DevicesListed, ListFreed
  <2>4. CASE CdioDestroyed(t)
    BY <2>4 DEF CdioDestroyed
  <2>5. CASE Unlock(t)
    <3>1. \E p \in {"idle", "probe"} : at' = [at EXCEPT ![t] = p]
      BY <2>5 DEF Unlock
    <3>2. hand' \in [Threads -> Handles \cup {None}]
      BY <2>5 DEF Unlock, Give
    <3>3. owner' \in [Handles -> Threads \cup {None}]
      BY <2>5 DEF Unlock, Give
    <3>4. /\ lock' = None
          /\ UNCHANGED <<once, logger, call, lists, obj, mmcDev, calls>>
      BY <2>5 DEF Unlock
    <3>5. at' \in [Threads -> Places]
      BY <3>1
    <3>6. TypeOK'
      BY <3>2, <3>3, <3>4, <3>5
    <3>7. CallInv'
      BY <3>1, <3>4
    <3>8. QED
      BY <3>6, <3>7
  <2>6. CASE ProbeYes(t)
    BY <2>6 DEF ProbeYes, Give
  <2>7. CASE ProbeNo(t)
    BY <2>7 DEF ProbeNo
  <2>8. QED
    BY <1>3, <2>1, <2>2, <2>3, <2>4, <2>5, <2>6, <2>7 DEF Cdio
<1>4. ASSUME NEW t \in Threads, Image(t)
      PROVE  TypeOK' /\ CallInv'
  <2>1. CASE RejectPath(t)
    BY <2>1 DEF RejectPath
  <2>2. CASE EnterImage(t)
    BY <2>2 DEF EnterImage
  <2>3. CASE ImageOpened(t)
    BY <2>3 DEF ImageOpened
  <2>4. CASE ImageClosed(t)
    BY <2>4 DEF ImageClosed
  <2>5. QED
    BY <1>4, <2>1, <2>2, <2>3, <2>4 DEF Image
<1>5. ASSUME NEW t \in Threads, NEW h \in Handles, Drop(t, h)
      PROVE  TypeOK' /\ CallInv'
  BY <1>5 DEF Drop
<1>6. CASE UNCHANGED vars
  BY <1>6 DEF vars
<1>7. QED
  BY <1>1, <1>2, <1>3, <1>4, <1>5, <1>6
     DEF Next, Step, User, ListDrives, OpenDrive, OpenMmc, OpenUdf, OpenIso, Finished

\* Every variable keeps its type, for any threads, handles and bound, and each
\* place is reached only by the calls that may pass through it.
THEOREM Typing == Spec => [](TypeOK /\ CallInv)
  BY TypingInit, TypingStep, PTL DEF Spec

-----------------------------------------------------------------------------
LEMMA LockStep == TypeOK /\ CallInv /\ LockInv /\ [Next]_vars => LockInv'
<1> SUFFICES ASSUME TypeOK, CallInv, LockInv, [Next]_vars
             PROVE  LockInv'
  OBVIOUS
<1> USE InitAssumption DEF TypeOK, CallInv, LockInv, Guarded, Kinds, CdioKinds, ImageKinds, Goto
<1>1. ASSUME NEW t \in Threads, NEW c \in Kinds \cup {"drives"}, Begin(t, c)
      PROVE  LockInv'
  BY <1>1 DEF Begin
<1>2. ASSUME NEW t \in Threads, Log(t)
      PROVE  LockInv'
  BY <1>2 DEF Log, LoggerDone, LoggerFirst, SetHandler, SetLevel, AfterLogger
<1>3. ASSUME NEW t \in Threads, Cdio(t)
      PROVE  LockInv'
  <2>1. CASE Acquire(t)
    BY <2>1 DEF Acquire
  <2>2. CASE Unlock(t)
    BY <2>2 DEF Unlock
  <2>3. QED
    BY <1>3, <2>1, <2>2 DEF Cdio, CdioOpened, DevicesListed, ListFreed,
                            CdioDestroyed, ProbeYes, ProbeNo
<1>4. ASSUME NEW t \in Threads, Image(t)
      PROVE  LockInv'
  <2>1. \E p, q \in Places : p \notin Guarded /\ q \notin Guarded /\ Goto(t, p, q) /\ lock' = lock
    BY <1>4 DEF Image, RejectPath, EnterImage, ImageOpened, ImageClosed, Places
  <2>2. QED
    BY <2>1
<1>5. ASSUME NEW t \in Threads, NEW h \in Handles, Drop(t, h)
      PROVE  LockInv'
  BY <1>5 DEF Drop
<1>6. CASE UNCHANGED vars
  BY <1>6 DEF vars
<1>7. QED
  BY <1>1, <1>2, <1>3, <1>4, <1>5, <1>6
     DEF Next, Step, User, ListDrives, OpenDrive, OpenMmc, OpenUdf, OpenIso, Finished

\* The routines that open, list and destroy through Cdio and Drive never
\* overlap, for any number of threads.
THEOREM Exclusion == Spec => []InitExclusive
<1>1. Init => LockInv
  <2> SUFFICES ASSUME Init, NEW t \in Threads PROVE at[t] \notin Guarded /\ lock # t
    BY DEF LockInv
  <2> QED
    BY NoneIsNone DEF Init, Guarded
<1>2. TypeOK /\ CallInv /\ LockInv => InitExclusive
  BY DEF LockInv, InitExclusive, InInit, Guarded
<1>3. QED
  BY <1>1, <1>2, Typing, LockStep, PTL DEF Spec

-----------------------------------------------------------------------------
LEMMA OnceStep == TypeOK /\ CallInv /\ OnceInv /\ [Next]_vars => OnceInv'
<1> SUFFICES ASSUME TypeOK, CallInv, OnceInv, [Next]_vars
             PROVE  OnceInv'
  OBVIOUS
<1> USE NoneIsNone DEF TypeOK, OnceInv, Goto, objects
\* A step that leaves the Once, the log globals and the owners alone moves one
\* thread; past the logger only when the Once is done.
<1>0. ASSUME NEW t \in Threads, NEW p \in Places, at' = [at EXCEPT ![t] = p],
             p \notin {"handler", "level"}, p \notin {"idle", "log"} => once = "done",
             UNCHANGED <<once, logger>>,
             \A h \in Handles : owner'[h] # None => once = "done"
      PROVE  OnceInv'
  BY <1>0
<1>1. ASSUME NEW t \in Threads, NEW c \in Kinds \cup {"drives"}, Begin(t, c)
      PROVE  OnceInv'
  BY <1>1, <1>0 DEF Begin, Places
<1>2. ASSUME NEW t \in Threads, Log(t)
      PROVE  OnceInv'
  <2>1. CASE LoggerDone(t)
    BY <2>1, <1>0 DEF LoggerDone, AfterLogger, Places
  <2>2. CASE LoggerFirst(t)
    BY <2>2 DEF LoggerFirst
  <2>3. CASE SetHandler(t)
    BY <2>3 DEF SetHandler
  <2>4. CASE SetLevel(t)
    <3>1. logger' = LogGlobals
      <4>1. "handler" \in logger /\ logger' = logger \cup {"level"}
        BY <2>4 DEF SetLevel
      <4>2. QED
        BY <4>1 DEF LogGlobals
    <3>2. \E p \in {"path", "lock"} : at' = [at EXCEPT ![t] = p]
      BY <2>4 DEF SetLevel, AfterLogger
    <3>3. QED
      BY <2>4, <3>1, <3>2 DEF SetLevel
  <2>5. QED
    BY <1>2, <2>1, <2>2, <2>3, <2>4 DEF Log
<1>3. ASSUME NEW t \in Threads, Cdio(t)
      PROVE  OnceInv'
  <2>1. at[t] \notin {"idle", "log", "handler", "level"} /\ UNCHANGED <<once, logger>>
    BY <1>3 DEF Cdio, Acquire, CdioOpened, DevicesListed, ListFreed, CdioDestroyed,
                Unlock, ProbeYes, ProbeNo
  <2>2. \E p \in Places : at' = [at EXCEPT ![t] = p] /\ p \notin {"handler", "level"}
    <3>1. CASE Acquire(t)
      <4>1. call[t] = "drives" \/ call[t] = "drop" \/ call[t] \in CdioKinds
        BY <3>1 DEF Acquire, CallInv, Kinds
      <4>2. \E p \in {"list", "destroy", "open"} : at' = [at EXCEPT ![t] = p]
        BY <3>1, <4>1 DEF Acquire, CdioKinds
      <4>3. QED
        BY <4>2 DEF Places, Guarded
    <3>2. CASE CdioOpened(t) \/ DevicesListed(t) \/ ListFreed(t) \/ CdioDestroyed(t)
      <4>1. \E p \in {"unlock", "copy"} : at' = [at EXCEPT ![t] = p]
        BY <3>2 DEF CdioOpened, DevicesListed, ListFreed, CdioDestroyed
      <4>2. QED
        BY <4>1 DEF Places, Guarded
    <3>3. CASE Unlock(t) \/ ProbeYes(t) \/ ProbeNo(t)
      <4>1. \E p \in {"idle", "probe", "lock"} : at' = [at EXCEPT ![t] = p]
        BY <3>3 DEF Unlock, ProbeYes, ProbeNo
      <4>2. QED
        BY <4>1 DEF Places
    <3>4. QED
      BY <1>3, <3>1, <3>2, <3>3 DEF Cdio
  <2>3. QED
    BY <1>0, <2>1, <2>2
<1>4. ASSUME NEW t \in Threads, Image(t)
      PROVE  OnceInv'
  <2>1. at[t] \notin {"idle", "log", "handler", "level"} /\ UNCHANGED <<once, logger>>
    BY <1>4 DEF Image, RejectPath, EnterImage, ImageOpened, ImageClosed
  <2>2. \E p \in {"idle", "image"} : at' = [at EXCEPT ![t] = p]
    BY <1>4 DEF Image, RejectPath, EnterImage, ImageOpened, ImageClosed
  <2>3. QED
    BY <1>0, <2>1, <2>2 DEF Places
<1>5. ASSUME NEW t \in Threads, NEW h \in Handles, Drop(t, h)
      PROVE  OnceInv'
  BY <1>5, <1>0 DEF Drop, Places
<1>6. CASE UNCHANGED vars
  BY <1>6 DEF vars
<1>7. QED
  BY <1>1, <1>2, <1>3, <1>4, <1>5, <1>6
     DEF Next, Step, User, ListDrives, OpenDrive, OpenMmc, OpenUdf, OpenIso, Finished,
         Kinds, CdioKinds, ImageKinds

\* No thread is inside libcdio before the log handler and level are written,
\* and they are written by one thread, once, for any number of threads.
THEOREM LoggerFirstOfAll == Spec => []LoggerReady
<1>1. Init => OnceInv
  BY NoneIsNone DEF Init, OnceInv
<1>2. TypeOK /\ OnceInv => LoggerReady
  BY DEF OnceInv, LoggerReady, Inside
<1>3. QED
  BY <1>1, <1>2, Typing, OnceStep, PTL DEF Spec

-----------------------------------------------------------------------------
LEMMA HandStep ==
  TypeOK /\ CallInv /\ HandInv /\ Accounted /\ [Next]_vars => HandInv' /\ Accounted'
<1> SUFFICES ASSUME TypeOK, CallInv, HandInv, Accounted, [Next]_vars
             PROVE  HandInv' /\ Accounted'
  OBVIOUS
<1> USE NoneIsNone DEF TypeOK, CallInv, HandInv, Accounted, Goto, objects,
                       Kinds, CdioKinds, ImageKinds
<1>1. ASSUME NEW t \in Threads, NEW c \in Kinds \cup {"drives"}, Begin(t, c)
      PROVE  HandInv' /\ Accounted'
  BY <1>1 DEF Begin
<1>2. ASSUME NEW t \in Threads, Log(t)
      PROVE  HandInv' /\ Accounted'
  <2>1. CASE LoggerDone(t)
    BY <2>1 DEF LoggerDone, AfterLogger
  <2>2. CASE LoggerFirst(t)
    BY <2>2 DEF LoggerFirst
  <2>3. CASE SetHandler(t)
    BY <2>3 DEF SetHandler
  <2>4. CASE SetLevel(t)
    BY <2>4 DEF SetLevel, AfterLogger
  <2>5. QED
    BY <1>2, <2>1, <2>2, <2>3, <2>4 DEF Log
<1>3. ASSUME NEW t \in Threads, Cdio(t)
      PROVE  HandInv' /\ Accounted'
  <2>1. CASE Acquire(t)
    BY <2>1 DEF Acquire
  <2>2. CASE CdioOpened(t)
    <3>1. HandInv'
      BY <2>2 DEF CdioOpened
    <3>2. Accounted'
      BY <2>2 DEF CdioOpened
    <3>3. QED
      BY <3>1, <3>2
  <2>3. CASE DevicesListed(t)
    BY <2>3 DEF DevicesListed
  <2>4. CASE ListFreed(t)
    BY <2>4 DEF ListFreed
  <2>5. CASE CdioDestroyed(t)
    <3>1. HandInv'
      BY <2>5 DEF CdioDestroyed
    <3>2. Accounted'
      BY <2>5 DEF CdioDestroyed
    <3>3. QED
      BY <3>1, <3>2
  <2>6. CASE Unlock(t)
    <3>1. HandInv'
      BY <2>6 DEF Unlock, Give
    <3>2. Accounted'
      BY <2>6 DEF Unlock, Give
    <3>3. QED
      BY <3>1, <3>2
  <2>7. CASE ProbeYes(t)
    BY <2>7 DEF ProbeYes, Give
  <2>8. CASE ProbeNo(t)
    BY <2>8 DEF ProbeNo
  <2>9. QED
    BY <1>3, <2>1, <2>2, <2>3, <2>4, <2>5, <2>6, <2>7, <2>8 DEF Cdio
<1>4. ASSUME NEW t \in Threads, Image(t)
      PROVE  HandInv' /\ Accounted'
  <2>1. CASE RejectPath(t)
    BY <2>1 DEF RejectPath
  <2>2. CASE EnterImage(t)
    BY <2>2 DEF EnterImage
  <2>3. CASE ImageOpened(t)
    BY <2>3 DEF ImageOpened
  <2>4. CASE ImageClosed(t)
    <3>1. HandInv'
      BY <2>4 DEF ImageClosed
    <3>2. Accounted'
      BY <2>4 DEF ImageClosed
    <3>3. QED
      BY <3>1, <3>2
  <2>5. QED
    BY <1>4, <2>1, <2>2, <2>3, <2>4 DEF Image
<1>5. ASSUME NEW t \in Threads, NEW h \in Handles, Drop(t, h)
      PROVE  HandInv' /\ Accounted'
  <2>1. HandInv'
    BY <1>5 DEF Drop
  <2>2. Accounted'
    BY <1>5 DEF Drop
  <2>3. QED
    BY <2>1, <2>2
<1>6. CASE UNCHANGED vars
  BY <1>6 DEF vars
<1>7. QED
  BY <1>1, <1>2, <1>3, <1>4, <1>5, <1>6
     DEF Next, Step, User, ListDrives, OpenDrive, OpenMmc, OpenUdf, OpenIso, Finished

\* Every live native object is held exactly once, so nothing leaks and nothing
\* is freed twice, for any number of threads and handles.
THEOREM Ownership == Spec => []Accounted
<1>1. Init => HandInv /\ Accounted
  BY NoneIsNone DEF Init, HandInv, Accounted
<1>2. QED
  BY <1>1, Typing, HandStep, PTL DEF Spec

-----------------------------------------------------------------------------
LEMMA MmcStep ==
  TypeOK /\ CallInv /\ HandInv /\ Accounted /\ OnlyMmcExposed /\ [Next]_vars
    => OnlyMmcExposed'
<1> SUFFICES ASSUME TypeOK, CallInv, HandInv, Accounted, OnlyMmcExposed, [Next]_vars
             PROVE  OnlyMmcExposed'
  OBVIOUS
<1> USE NoneIsNone DEF TypeOK, OnlyMmcExposed, Goto, objects
<1>1. CASE UNCHANGED objects
  BY <1>1
<1>2. ASSUME NEW t \in Threads, CdioOpened(t)
      PROVE  OnlyMmcExposed'
  BY <1>2 DEF CdioOpened, Accounted
<1>3. ASSUME NEW t \in Threads, CdioDestroyed(t)
      PROVE  OnlyMmcExposed'
  BY <1>3 DEF CdioDestroyed, HandInv, Accounted
<1>4. ASSUME NEW t \in Threads, Unlock(t)
      PROVE  OnlyMmcExposed'
  BY <1>4 DEF Unlock, Give, HandInv
<1>5. ASSUME NEW t \in Threads, ProbeYes(t)
      PROVE  OnlyMmcExposed'
  BY <1>5 DEF ProbeYes, Give
<1>6. ASSUME NEW t \in Threads, ImageOpened(t)
      PROVE  OnlyMmcExposed'
  BY <1>6 DEF ImageOpened, CallInv, ImageKinds
<1>7. ASSUME NEW t \in Threads, ImageClosed(t)
      PROVE  OnlyMmcExposed'
  BY <1>7 DEF ImageClosed
<1>8. ASSUME NEW t \in Threads, NEW h \in Handles, Drop(t, h)
      PROVE  OnlyMmcExposed'
  BY <1>8 DEF Drop
<1>9. ASSUME NEW t \in Threads, Log(t) \/ Cdio(t) \/ Image(t)
      PROVE  OnlyMmcExposed'
  BY <1>9, <1>1, <1>2, <1>3, <1>4, <1>5, <1>6, <1>7
     DEF Log, LoggerDone, LoggerFirst, SetHandler, SetLevel, Cdio, Acquire, DevicesListed,
         ListFreed, ProbeNo, Image, RejectPath, EnterImage
<1>10. QED
  BY <1>1, <1>8, <1>9
     DEF Next, Step, User, ListDrives, OpenDrive, OpenMmc, OpenUdf, OpenIso, Begin,
         Finished, vars

\* An Mmc reaches the caller only for a device that answered as an MMC device.
THEOREM OnlyMmc == Spec => []OnlyMmcExposed
<1>1. Init => HandInv /\ Accounted /\ OnlyMmcExposed
  BY NoneIsNone DEF Init, HandInv, Accounted, OnlyMmcExposed
<1>2. QED
  BY <1>1, Typing, HandStep, MmcStep, PTL DEF Spec
=============================================================================
