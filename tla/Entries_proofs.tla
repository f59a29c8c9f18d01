--------------------------- MODULE Entries_proofs ---------------------------
(***************************************************************************)
(* However a program walks its images, and however large they are: every    *)
(* object of libcdio has one owner, libcdio is never given a pointer to     *)
(* something that is gone, and a closed handle leaves nothing behind.       *)
(***************************************************************************)
EXTENDS Entries, TLAPS

(***************************************************************************)
(* The inductive invariant.  Owned alone is not inductive: whether a call   *)
(* may fill or leave a place depends on where the call is.                  *)
(***************************************************************************)
HeapOK ==
  /\ heap \in [Blocks -> Kinds \union {"free"}]
  /\ owns \in [Places -> Blocks \union {None}]
  /\ fault = FALSE
  /\ Owned

UdfPhases ==
  /\ in_entry = "idle" <=> Empty(Root)
  /\ in_entry # "opened" => Empty(Found)
  /\ udf = "closed" => in_entry = "idle" /\ \A k \in 1..UdfValues : Empty(UdfEntry(k))

\* Where the loops are, the nodes that were taken and the items that were made
\* into entries are behind them.
IsoPhases ==
  /\ Empty(Identifier) <=> in_iso # "identifier"
  /\ Empty(List) <=> in_iso \notin {"listing", "collecting"}
  /\ in_iso \in {"idle", "identifier"} => nodes = 0
  /\ in_iso = "listing" => at = 0
  /\ \A k \in 1..MaxList : in_iso = "wrapping" \/ k <= at \/ k > nodes => Empty(Node(k))
  /\ \A k \in 1..MaxList : IF in_iso = "wrapping" THEN k <= at \/ k > nodes => Empty(Vec(k))
                           ELSE k > at => Empty(Vec(k))
  /\ iso = "closed" => in_iso = "idle" /\ \A j \in 1..IsoValues : Empty(IsoEntry(j))

IInv == HeapOK /\ UdfTypeOK /\ IsoTypeOK /\ UdfPhases /\ IsoPhases /\ FieldsOfTheFile

-----------------------------------------------------------------------------
(***************************************************************************)
(* The places, and what each call of libcdio does to them.                  *)
(***************************************************************************)
LEMMA PlaceFacts ==
  /\ Root \in Places /\ Found \in Places /\ List \in Places /\ Identifier \in Places
  /\ \A k \in 1..UdfValues : UdfEntry(k) \in Places
  /\ \A k \in 1..IsoValues : IsoEntry(k) \in Places
  /\ \A k \in 1..MaxList : Node(k) \in Places /\ Vec(k) \in Places
BY DEF Places, Root, Found, List, Identifier, UdfEntry, IsoEntry, Node, Vec

LEMMA KindFacts ==
  /\ Kind(Root) = "udf_dirent_t" /\ Kind(Found) = "udf_dirent_t"
  /\ Kind(List) = "CdioList_t" /\ Kind(Identifier) = "char *"
  /\ \A k : /\ Kind(UdfEntry(k)) = "udf_dirent_t" /\ Kind(IsoEntry(k)) = "iso9660_stat_t"
            /\ Kind(Node(k)) = "iso9660_stat_t" /\ Kind(Vec(k)) = "iso9660_stat_t"
BY DEF Kind, Root, Found, List, Identifier, UdfEntry, IsoEntry, Node, Vec

LEMMA KindType == \A p \in Places : Kind(p) \in Kinds
BY DEF Places, Kind, Kinds

\* Places of different names, or of different numbers, are different.
LEMMA Apart ==
  /\ Root # Found /\ Root # List /\ Root # Identifier
  /\ Found # List /\ Found # Identifier /\ List # Identifier
  /\ \A k : \A p \in {Root, Found, List, Identifier} :
       UdfEntry(k) # p /\ IsoEntry(k) # p /\ Node(k) # p /\ Vec(k) # p
  /\ \A j, k : /\ UdfEntry(j) # IsoEntry(k) /\ UdfEntry(j) # Node(k) /\ UdfEntry(j) # Vec(k)
               /\ IsoEntry(j) # Node(k) /\ IsoEntry(j) # Vec(k) /\ Node(j) # Vec(k)
  /\ \A j, k : j # k => /\ UdfEntry(j) # UdfEntry(k) /\ IsoEntry(j) # IsoEntry(k)
                        /\ Node(j) # Node(k) /\ Vec(j) # Vec(k)
BY DEF Root, Found, List, Identifier, UdfEntry, IsoEntry, Node, Vec

\* The places of an object, by what it is.
LEMMA Holders ==
  ASSUME NEW p \in Places
  PROVE  /\ Kind(p) = "udf_dirent_t" => p \in {Root, Found} \/ \E k \in 1..UdfValues : p = UdfEntry(k)
         /\ Kind(p) = "CdioList_t" => p = List
         /\ Kind(p) = "char *" => p = Identifier
         /\ Kind(p) = "iso9660_stat_t" => \/ \E k \in 1..IsoValues : p = IsoEntry(k)
                                          \/ \E k \in 1..MaxList : p = Node(k) \/ p = Vec(k)
<1>1. \/ p \in {Root, Found} \/ p = List \/ p = Identifier
      \/ \E k \in 1..UdfValues : p = UdfEntry(k)
      \/ \E k \in 1..IsoValues : p = IsoEntry(k)
      \/ \E k \in 1..MaxList : p = Node(k) \/ p = Vec(k)
  <2>1. PICK name, number : p = <<name, number>>
    BY DEF Places
  <2>2. \/ name = "udf_entry" /\ number \in 1..UdfValues
        \/ name = "iso_entry" /\ number \in 1..IsoValues
        \/ name \in {"node", "vec"} /\ number \in 1..MaxList
        \/ name \in {"root", "found", "list", "identifier"} /\ number = 0
    BY <2>1 DEF Places
  <2> QED
    BY <2>1, <2>2, Zenon DEF Root, Found, List, Identifier, UdfEntry, IsoEntry, Node, Vec
<1>2. CASE p \in {Root, Found} \/ \E k \in 1..UdfValues : p = UdfEntry(k)
  BY <1>2, KindFacts
<1>3. CASE p = List \/ p = Identifier
  BY <1>3, KindFacts
<1>4. CASE \/ \E k \in 1..IsoValues : p = IsoEntry(k)
           \/ \E k \in 1..MaxList : p = Node(k) \/ p = Vec(k)
  BY <1>4, KindFacts
<1> QED
  BY <1>1, <1>2, <1>3, <1>4

LEMMA FreeIsNoKind == "free" \notin Kinds
BY DEF Kinds

LEMMA ObtainKeeps ==
  ASSUME HeapOK, NEW p \in Places, NEW b \in Blocks, Obtain(p, b)
  PROVE  HeapOK' /\ owns' = [owns EXCEPT ![p] = b]
<1>1. /\ owns' = [owns EXCEPT ![p] = b] /\ heap' = [heap EXCEPT ![b] = Kind(p)]
      /\ heap[b] = "free" /\ owns[p] = None /\ b # None /\ fault' = fault
  BY HeapAssumption DEF Obtain, Allocate, Empty
<1>2. \A q \in Places : owns[q] # b
  BY <1>1, KindType, FreeIsNoKind DEF HeapOK, Owned, Empty, Valid
<1>3. /\ heap' \in [Blocks -> Kinds \union {"free"}]
      /\ owns' \in [Places -> Blocks \union {None}]
  BY <1>1, KindType DEF HeapOK
<1>4. Owned'
  <2>1. ASSUME NEW q \in Places, ~Empty(q)' PROVE Valid(q)'
    BY <1>1, <1>2, <2>1 DEF HeapOK, Owned, Empty, Valid
  <2>2. ASSUME NEW q \in Places, NEW r \in Places, owns'[q] = owns'[r], ~Empty(q)' PROVE q = r
    BY <1>1, <1>2, <2>2 DEF HeapOK, Owned, Empty
  <2>3. ASSUME NEW c \in Blocks, heap'[c] # "free" PROVE \E q \in Places : owns'[q] = c
    <3>1. CASE c = b
      BY <1>1, <3>1 DEF HeapOK
    <3>2. CASE c # b
      <4>1. PICK q \in Places : owns[q] = c
        BY <1>1, <2>3, <3>2 DEF HeapOK, Owned
      <4>2. q # p
        BY <1>1, <4>1, HeapAssumption
      <4> QED
        BY <1>1, <4>1, <4>2 DEF HeapOK
    <3> QED
      BY <3>1, <3>2
  <2> QED
    BY <2>1, <2>2, <2>3 DEF Owned, Empty
<1> QED
  BY <1>1, <1>3, <1>4 DEF HeapOK

\* A pointer that a place owns is a good one to give to libcdio.
LEMMA ObtainedFromOwned ==
  ASSUME HeapOK, NEW from \in Places, NEW p \in Places, NEW b \in Blocks, ~Empty(from), ObtainFrom(from, p, b)
  PROVE  Obtain(p, b)
BY DEF HeapOK, Owned, Faultless, ObtainFrom, Obtain

LEMMA ReleaseKeeps ==
  ASSUME HeapOK, NEW p \in Places, Release(p)
  PROVE  HeapOK' /\ owns' = [owns EXCEPT ![p] = None]
<1>1. /\ owns' = [owns EXCEPT ![p] = None] /\ heap' = [heap EXCEPT ![owns[p]] = "free"]
      /\ owns[p] \in Blocks /\ fault' = FALSE
  BY DEF Release, HeapOK, Owned, Empty, Valid
<1>2. \A q \in Places : q # p => owns[q] # owns[p]
  BY <1>1, HeapAssumption DEF HeapOK, Owned, Empty
<1>3. /\ heap' \in [Blocks -> Kinds \union {"free"}]
      /\ owns' \in [Places -> Blocks \union {None}]
  BY <1>1 DEF HeapOK
<1>4. Owned'
  <2>1. ASSUME NEW q \in Places, ~Empty(q)' PROVE Valid(q)'
    BY <1>1, <1>2, <2>1 DEF HeapOK, Owned, Empty, Valid
  <2>2. ASSUME NEW q \in Places, NEW r \in Places, owns'[q] = owns'[r], ~Empty(q)' PROVE q = r
    BY <1>1, <2>2 DEF HeapOK, Owned, Empty
  <2>3. ASSUME NEW c \in Blocks, heap'[c] # "free" PROVE \E q \in Places : owns'[q] = c
    <3>1. c # owns[p] /\ heap[c] # "free"
      BY <1>1, <2>3 DEF HeapOK
    <3> QED
      BY <1>1, <3>1 DEF HeapOK, Owned
  <2> QED
    BY <2>1, <2>2, <2>3 DEF Owned, Empty
<1> QED
  BY <1>1, <1>3, <1>4 DEF HeapOK

\* A pointer moves to an empty place of the same kind; a NULL may move as well.
LEMMA MoveKeeps ==
  ASSUME HeapOK, NEW p \in Places, NEW q \in Places, p # q, Kind(p) = Kind(q), Empty(q),
         owns' = [owns EXCEPT ![p] = None, ![q] = owns[p]], heap' = heap, fault' = FALSE
  PROVE  HeapOK'
<1>1. owns' \in [Places -> Blocks \union {None}]
  BY DEF HeapOK
<1>2. owns'[p] = None /\ owns'[q] = owns[p] /\ \A r \in Places \ {p, q} : owns'[r] = owns[r]
  BY DEF HeapOK
<1>3. ASSUME NEW r \in Places, ~Empty(r)' PROVE Valid(r)'
  BY <1>2, <1>3 DEF HeapOK, Owned, Empty, Valid
<1>4. ASSUME NEW r \in Places, NEW s \in Places, owns'[r] = owns'[s], ~Empty(r)' PROVE r = s
  BY <1>2, <1>4 DEF HeapOK, Owned, Empty
<1>5. ASSUME NEW c \in Blocks, heap'[c] # "free" PROVE \E r \in Places : owns'[r] = c
  <2>1. PICK r \in Places : owns[r] = c
    BY <1>5 DEF HeapOK, Owned
  <2>2. r # q
    BY <2>1, HeapAssumption DEF Empty
  <2> QED
    BY <1>2, <2>1, <2>2
<1> QED
  BY <1>1, <1>3, <1>4, <1>5 DEF HeapOK, Owned, Empty

LEMMA UseKeeps ==
  ASSUME HeapOK, NEW p \in Places, ~Empty(p), Use(p)
  PROVE  HeapOK' /\ owns' = owns /\ heap' = heap
BY DEF HeapOK, Use, Owned, Empty, Valid

-----------------------------------------------------------------------------
(***************************************************************************)
(* The UDF image.                                                           *)
(***************************************************************************)
IsoPlacesStay ==
  /\ owns'[List] = owns[List] /\ owns'[Identifier] = owns[Identifier]
  /\ \A k \in 1..IsoValues : owns'[IsoEntry(k)] = owns[IsoEntry(k)]
  /\ \A k \in 1..MaxList : owns'[Node(k)] = owns[Node(k)] /\ owns'[Vec(k)] = owns[Vec(k)]

UdfPlacesStay ==
  /\ owns'[Root] = owns[Root] /\ owns'[Found] = owns[Found]
  /\ \A k \in 1..UdfValues : owns'[UdfEntry(k)] = owns[UdfEntry(k)]

\* One place changes: the others of its image, and all of the other, do not.
LEMMA OneUdfPlace ==
  ASSUME HeapOK, NEW x,
         NEW p \in {Root, Found} \union {UdfEntry(k) : k \in 1..UdfValues}, owns' = [owns EXCEPT ![p] = x]
  PROVE  IsoPlacesStay /\ owns'[p] = x /\ \A q \in Places \ {p} : owns'[q] = owns[q]
BY PlaceFacts, Apart DEF HeapOK, IsoPlacesStay

LEMMA OneIsoPlace ==
  ASSUME HeapOK, NEW x,
         NEW p \in {List, Identifier} \union {IsoEntry(k) : k \in 1..IsoValues}
                   \union {Node(k) : k \in 1..MaxList}, owns' = [owns EXCEPT ![p] = x]
  PROVE  UdfPlacesStay /\ owns'[p] = x /\ \A q \in Places \ {p} : owns'[q] = owns[q]
BY PlaceFacts, Apart DEF HeapOK, UdfPlacesStay

LEMMA IsoFrame ==
  ASSUME IsoTypeOK, IsoPhases, UNCHANGED isoVars, IsoPlacesStay
  PROVE  IsoTypeOK' /\ IsoPhases'
BY DEF IsoTypeOK, IsoPhases, isoVars, IsoPlacesStay, Empty

LEMMA UdfFrame ==
  ASSUME UdfTypeOK, UdfPhases, FieldsOfTheFile, UNCHANGED udfVars, UdfPlacesStay
  PROVE  UdfTypeOK' /\ UdfPhases' /\ FieldsOfTheFile'
BY DEF UdfTypeOK, UdfPhases, FieldsOfTheFile, udfVars, UdfPlacesStay, Empty

\* A block that nobody owned can stand anywhere.
LEMMA NotAnEntrysBlock ==
  ASSUME HeapOK, UdfTypeOK, FieldsOfTheFile, NEW b \in Blocks, heap[b] = "free", NEW f,
         stands' = [stands EXCEPT ![b] = f]
  PROVE  \A k \in 1..UdfValues : ~Empty(UdfEntry(k)) =>
            stands'[owns[UdfEntry(k)]] = stands[owns[UdfEntry(k)]]
BY PlaceFacts, KindType, FreeIsNoKind DEF HeapOK, UdfTypeOK, Owned, Valid, Empty

LEMMA FreshUdfEntryKeeps ==
  ASSUME IInv, NEW k \in 1..UdfValues, NEW b \in Blocks, NEW f \in Files, FreshUdfEntry(k, b, f),
         Obtain(UdfEntry(k), b), UNCHANGED isoVars
  PROVE  IInv'
<1>1. HeapOK' /\ owns' = [owns EXCEPT ![UdfEntry(k)] = b]
  BY PlaceFacts, ObtainKeeps DEF FreshUdfEntry, IInv
<1>2. /\ IsoPlacesStay /\ owns'[UdfEntry(k)] = b
      /\ \A q \in Places \ {UdfEntry(k)} : owns'[q] = owns[q]
  BY <1>1, OneUdfPlace DEF IInv
<1>3. UdfTypeOK'
  BY DEF IInv, FreshUdfEntry, UdfTypeOK, NewUdfEntry
<1>4. UdfPhases'
  BY <1>2, PlaceFacts, Apart DEF IInv, UdfPhases, FreshUdfEntry, UdfIdle, Empty
<1>5. FieldsOfTheFile'
  <2> SUFFICES ASSUME NEW j \in 1..UdfValues, ~Empty(UdfEntry(j))'
               PROVE  copied'[j] = stands'[owns'[UdfEntry(j)]]
    BY DEF FieldsOfTheFile
  <2>1. CASE j = k
    BY <1>2, <2>1 DEF IInv, FreshUdfEntry, UdfTypeOK, NewUdfEntry
  <2>2. CASE j # k
    <3>1. owns'[UdfEntry(j)] = owns[UdfEntry(j)] /\ ~Empty(UdfEntry(j))
      BY <1>2, <2>2, PlaceFacts, Apart DEF Empty
    <3>2. copied'[j] = copied[j]
      BY <2>2 DEF IInv, FreshUdfEntry, UdfTypeOK, NewUdfEntry
    <3>3. stands'[owns[UdfEntry(j)]] = stands[owns[UdfEntry(j)]]
      BY <3>1, NotAnEntrysBlock DEF IInv, FreshUdfEntry, Obtain, Allocate
    <3> QED
      BY <3>1, <3>2, <3>3 DEF IInv, FieldsOfTheFile
  <2> QED
    BY <2>1, <2>2
<1> QED
  BY <1>1, <1>2, <1>3, <1>4, <1>5, IsoFrame DEF IInv

\* The locals of Udf::entry: no value of the program changes.
LEMMA EntryLocalKeeps ==
  ASSUME IInv, NEW p \in {Root, Found}, NEW b \in Blocks, NEW f \in Files, Obtain(p, b),
         stands' = [stands EXCEPT ![b] = f], UNCHANGED <<copied, isoVars>>
  PROVE  HeapOK' /\ IsoTypeOK' /\ IsoPhases' /\ FieldsOfTheFile' /\ owns' = [owns EXCEPT ![p] = b]
<1>1. HeapOK' /\ owns' = [owns EXCEPT ![p] = b]
  BY PlaceFacts, ObtainKeeps DEF IInv
<1>2. IsoPlacesStay /\ \A q \in Places \ {p} : owns'[q] = owns[q]
  BY <1>1, OneUdfPlace DEF IInv
<1>3. FieldsOfTheFile'
  <2> SUFFICES ASSUME NEW j \in 1..UdfValues, ~Empty(UdfEntry(j))'
               PROVE  copied'[j] = stands'[owns'[UdfEntry(j)]]
    BY DEF FieldsOfTheFile
  <2>1. owns'[UdfEntry(j)] = owns[UdfEntry(j)] /\ ~Empty(UdfEntry(j))
    BY <1>2, PlaceFacts, Apart DEF Empty
  <2>2. stands'[owns[UdfEntry(j)]] = stands[owns[UdfEntry(j)]]
    BY <2>1, NotAnEntrysBlock DEF IInv, Obtain, Allocate
  <2> QED
    BY <2>1, <2>2 DEF IInv, FieldsOfTheFile
<1> QED
  BY <1>1, <1>2, <1>3, IsoFrame DEF IInv

\* The destructor of an entry, and the end of a directory.
LEMMA EntryGoneKeeps ==
  ASSUME IInv, NEW k \in 1..UdfValues, UdfIdle, Release(UdfEntry(k)),
         UNCHANGED <<udf, in_entry, stands, copied, isoVars>>
  PROVE  IInv'
<1>1. HeapOK' /\ owns' = [owns EXCEPT ![UdfEntry(k)] = None]
  BY PlaceFacts, ReleaseKeeps DEF IInv
<1>2. /\ IsoPlacesStay /\ owns'[UdfEntry(k)] = None
      /\ \A q \in Places \ {UdfEntry(k)} : owns'[q] = owns[q]
  BY <1>1, OneUdfPlace DEF IInv
<1>3. UdfPhases' /\ UdfTypeOK'
  BY <1>2, PlaceFacts, Apart DEF IInv, UdfPhases, UdfTypeOK, UdfIdle, Empty
<1>4. FieldsOfTheFile'
  BY <1>2, PlaceFacts, Apart DEF IInv, FieldsOfTheFile, Empty
<1> QED
  BY <1>1, <1>2, <1>3, <1>4, IsoFrame DEF IInv

LEMMA NextFoundKeeps ==
  ASSUME IInv, NEW k \in 1..UdfValues, NEW f \in Files, NextFound(k, f), UNCHANGED isoVars
  PROVE  IInv'
<1>1. HeapOK' /\ owns' = owns
  BY PlaceFacts, UseKeeps DEF IInv, NextFound
<1>2. owns[UdfEntry(k)] \in Blocks
  BY PlaceFacts DEF IInv, HeapOK, NextFound, Empty
<1>3. UdfTypeOK' /\ UdfPhases'
  BY <1>1, <1>2 DEF IInv, NextFound, UdfTypeOK, UdfPhases, NewUdfEntry, Empty
<1>4. FieldsOfTheFile'
  <2> SUFFICES ASSUME NEW j \in 1..UdfValues, ~Empty(UdfEntry(j))
               PROVE  copied'[j] = stands'[owns[UdfEntry(j)]]
    BY <1>1 DEF FieldsOfTheFile, Empty
  <2>1. CASE j = k
    BY <1>2, <2>1 DEF IInv, NextFound, UdfTypeOK, NewUdfEntry
  <2>2. CASE j # k
    <3>1. owns[UdfEntry(j)] # owns[UdfEntry(k)]
      BY <2>2, PlaceFacts, Apart DEF IInv, HeapOK, Owned
    <3> QED
      BY <2>2, <3>1 DEF IInv, NextFound, UdfTypeOK, NewUdfEntry, FieldsOfTheFile
  <2> QED
    BY <2>1, <2>2
<1>5. IsoPlacesStay
  BY <1>1 DEF IsoPlacesStay
<1> QED
  BY <1>1, <1>3, <1>4, <1>5, IsoFrame DEF IInv

\* The root goes and the entry moves, in one step.
LEMMA EntryReturnsKeeps ==
  ASSUME IInv, NEW k \in 1..UdfValues, EntryReturns(k), UNCHANGED isoVars
  PROVE  IInv'
<1> DEFINE p == UdfEntry(k)
<1>1. /\ owns[Root] \in Blocks /\ Valid(Root) /\ Empty(p)
      /\ heap' = [heap EXCEPT ![owns[Root]] = "free"] /\ fault' = FALSE
      /\ owns' = [owns EXCEPT ![Root] = None, ![Found] = None, ![p] = owns[Found]]
  BY PlaceFacts DEF IInv, HeapOK, Owned, UdfPhases, EntryReturns, Empty
<1>2. /\ owns'[Root] = None /\ owns'[Found] = None /\ owns'[p] = owns[Found]
      /\ \A q \in Places \ {Root, Found, p} : owns'[q] = owns[q]
  BY <1>1, PlaceFacts, Apart DEF IInv, HeapOK
<1>3. \A q \in Places \ {Root} : owns[q] # owns[Root]
  BY <1>1, PlaceFacts, HeapAssumption DEF IInv, HeapOK, Owned, Empty
<1>4. HeapOK'
  <2>1. /\ heap' \in [Blocks -> Kinds \union {"free"}]
        /\ owns' \in [Places -> Blocks \union {None}]
    BY <1>1, PlaceFacts DEF IInv, HeapOK
  <2>2. ASSUME NEW q \in Places, ~Empty(q)' PROVE Valid(q)'
    <3>1. CASE q = p
      <4>1. owns'[q] = owns[Found] /\ ~Empty(Found)
        BY <1>2, <2>2, <3>1 DEF Empty
      <4>2. Valid(Found) /\ owns[Found] \in Blocks /\ owns[Found] # owns[Root]
        BY <1>3, <4>1, PlaceFacts, Apart DEF IInv, HeapOK, Owned, Empty
      <4>3. heap'[owns[Found]] = heap[owns[Found]]
        BY <1>1, <4>2 DEF IInv, HeapOK
      <4>4. Kind(q) = Kind(Found)
        BY <3>1, KindFacts
      <4> QED
        BY <4>1, <4>2, <4>3, <4>4 DEF Valid
    <3>2. CASE q # p
      <4>1. q \notin {Root, Found}
        BY <1>2, <2>2 DEF Empty
      <4>2. owns'[q] = owns[q] /\ ~Empty(q) /\ owns[q] # owns[Root]
        BY <1>2, <1>3, <2>2, <3>2, <4>1 DEF Empty
      <4>3. Valid(q) /\ owns[q] \in Blocks
        BY <4>2 DEF IInv, HeapOK, Owned, Empty
      <4>4. heap'[owns[q]] = heap[owns[q]]
        BY <1>1, <4>2, <4>3 DEF IInv, HeapOK
      <4> QED
        BY <4>2, <4>3, <4>4 DEF Valid
    <3> QED
      BY <3>1, <3>2
  <2>3. ASSUME NEW q \in Places, NEW r \in Places, owns'[q] = owns'[r], ~Empty(q)' PROVE q = r
    <3>1. \A s \in Places \ {p} : owns'[s] # None => owns'[s] = owns[s] /\ s # Found
      BY <1>2
    <3> QED
      BY <1>1, <1>2, <2>3, <3>1, PlaceFacts DEF IInv, HeapOK, Owned, Empty
  <2>4. ASSUME NEW c \in Blocks, heap'[c] # "free" PROVE \E q \in Places : owns'[q] = c
    <3>1. c # owns[Root] /\ heap[c] # "free"
      BY <1>1, <2>4 DEF IInv, HeapOK
    <3>2. PICK q \in Places : owns[q] = c
      BY <3>1 DEF IInv, HeapOK, Owned
    <3>3. q # Root /\ q # p
      BY <1>1, <3>1, <3>2, HeapAssumption DEF Empty
    <3> QED
      BY <1>2, <3>2, <3>3, PlaceFacts
  <2> QED
    BY <1>1, <2>1, <2>2, <2>3, <2>4 DEF HeapOK, Owned, Empty
<1>5. UdfPhases'
  BY <1>2, PlaceFacts, Apart DEF IInv, UdfPhases, EntryReturns, Empty
<1>6. UdfTypeOK' /\ FieldsOfTheFile'
  <2>1. CASE Empty(Found)
    <3>1. UNCHANGED <<udf, stands, copied>> /\ in_entry' = "idle"
      BY <2>1 DEF EntryReturns
    <3>2. \A j \in 1..UdfValues : ~Empty(UdfEntry(j))' => owns'[UdfEntry(j)] = owns[UdfEntry(j)]
      BY <1>2, <2>1, PlaceFacts, Apart DEF Empty
    <3> QED
      BY <3>1, <3>2 DEF IInv, UdfTypeOK, FieldsOfTheFile, Empty
  <2>2. CASE ~Empty(Found)
    <3>1. UNCHANGED <<udf, stands>> /\ in_entry' = "idle"
      BY DEF EntryReturns
    <3>2. copied' = [copied EXCEPT ![k] = stands[owns[Found]]] /\ owns[Found] \in Blocks
      BY <2>2, PlaceFacts DEF EntryReturns, NewUdfEntry, IInv, HeapOK, Empty
    <3>3. \A j \in 1..UdfValues : j # k => owns'[UdfEntry(j)] = owns[UdfEntry(j)] /\ copied'[j] = copied[j]
      BY <1>2, <3>2, PlaceFacts, Apart DEF IInv, UdfTypeOK
    <3>4. copied'[k] = stands[owns'[UdfEntry(k)]]
      BY <1>2, <3>2 DEF IInv, UdfTypeOK
    <3> QED
      BY <3>1, <3>2, <3>3, <3>4 DEF IInv, UdfTypeOK, FieldsOfTheFile, Empty
  <2> QED
    BY <2>1, <2>2
<1>7. IsoPlacesStay
  BY <1>2, PlaceFacts, Apart DEF IsoPlacesStay
<1> QED
  BY <1>4, <1>5, <1>6, <1>7, IsoFrame DEF IInv

LEMMA UdfStep ==
  ASSUME IInv, UdfNext, UNCHANGED isoVars
  PROVE  IInv'
<1>1. ASSUME NEW b \in Blocks, NEW f \in Files, NEW k \in 1..UdfValues,
             UdfRoot(k, b, f) \/ \E j \in 1..UdfValues : UdfOpenDir(j, k, b, f)
      PROVE  IInv'
  <2>1. FreshUdfEntry(k, b, f) /\ Obtain(UdfEntry(k), b)
    BY <1>1, PlaceFacts, ObtainedFromOwned DEF UdfRoot, UdfOpenDir, IInv
  <2> QED
    BY <2>1, FreshUdfEntryKeeps
<1>2. ASSUME NEW b \in Blocks, NEW f \in Files, EntryGetsRoot(b, f) PROVE IInv'
  <2>1. /\ HeapOK' /\ IsoTypeOK' /\ IsoPhases' /\ FieldsOfTheFile'
        /\ owns' = [owns EXCEPT ![Root] = b]
    BY <1>2, EntryLocalKeeps DEF EntryGetsRoot
  <2>2. owns'[Root] # None /\ owns'[Found] = owns[Found]
    BY <2>1, PlaceFacts, Apart, HeapAssumption DEF IInv, HeapOK
  <2>3. UdfPhases' /\ UdfTypeOK'
    BY <1>2, <2>2 DEF IInv, UdfPhases, UdfTypeOK, EntryGetsRoot, UdfIdle, Empty
  <2> QED
    BY <2>1, <2>3 DEF IInv
<1>3. ASSUME NEW b \in Blocks, NEW f \in Files, EntryOpens(b, f) PROVE IInv'
  <2>1. /\ HeapOK' /\ IsoTypeOK' /\ IsoPhases' /\ FieldsOfTheFile'
        /\ owns' = [owns EXCEPT ![Found] = b]
    <3>1. Obtain(Found, b)
      BY <1>3, PlaceFacts, ObtainedFromOwned DEF EntryOpens, IInv, UdfPhases
    <3> QED
      BY <1>3, <3>1, EntryLocalKeeps DEF EntryOpens
  <2>2. owns'[Root] = owns[Root]
    BY <2>1, PlaceFacts, Apart DEF IInv, HeapOK
  <2>3. UdfPhases' /\ UdfTypeOK'
    BY <1>3, <2>2 DEF IInv, UdfPhases, UdfTypeOK, EntryOpens, Empty
  <2> QED
    BY <2>1, <2>3 DEF IInv
<1>4. CASE EntryBadPath
  <2>1. HeapOK' /\ owns' = [owns EXCEPT ![Root] = None]
    BY <1>4, PlaceFacts, ReleaseKeeps DEF EntryBadPath, IInv
  <2>2. IsoPlacesStay /\ owns'[Root] = None /\ \A q \in Places \ {Root} : owns'[q] = owns[q]
    BY <2>1, OneUdfPlace DEF IInv
  <2>3. UdfPhases' /\ UdfTypeOK' /\ FieldsOfTheFile'
    BY <1>4, <2>2, PlaceFacts, Apart
    DEF IInv, UdfPhases, UdfTypeOK, FieldsOfTheFile, EntryBadPath, Empty
  <2> QED
    BY <2>1, <2>2, <2>3, IsoFrame DEF IInv
<1>5. CASE EntryOpensNothing
  <2>1. HeapOK' /\ owns' = owns
    BY <1>5, PlaceFacts, UseKeeps DEF EntryOpensNothing, IInv, UdfPhases
  <2>2. UdfPhases' /\ UdfTypeOK' /\ FieldsOfTheFile' /\ IsoPlacesStay
    BY <1>5, <2>1
    DEF IInv, UdfPhases, UdfTypeOK, FieldsOfTheFile, EntryOpensNothing, Empty, IsoPlacesStay
  <2> QED
    BY <2>1, <2>2, IsoFrame DEF IInv
<1>6. ASSUME NEW k \in 1..UdfValues, NextEnds(k) \/ DropUdfEntry(k) PROVE IInv'
  BY <1>6, EntryGoneKeeps DEF NextEnds, DropUdfEntry
<1>7. CASE DropUdf
  <2>1. /\ HeapOK' /\ UdfPhases' /\ UdfTypeOK' /\ FieldsOfTheFile' /\ IsoPlacesStay
    BY <1>7 DEF IInv, HeapOK, Owned, Valid, UdfPhases, UdfTypeOK, FieldsOfTheFile, DropUdf, UdfIdle,
       heapVars, Empty, IsoPlacesStay
  <2> QED
    BY <2>1, IsoFrame DEF IInv
<1> QED
  BY <1>1, <1>2, <1>3, <1>4, <1>5, <1>6, <1>7, EntryReturnsKeeps, NextFoundKeeps DEF UdfNext

-----------------------------------------------------------------------------
(***************************************************************************)
(* The ISO 9660 image.                                                      *)
(***************************************************************************)
LEMMA IsoNumbers ==
  ASSUME IsoTypeOK
  PROVE  at \in Nat /\ nodes \in Nat /\ MaxList \in Nat /\ nodes <= MaxList /\ at <= nodes
BY HeapAssumption DEF IsoTypeOK

\* The data of a node becomes an item of the Vec.
LEMMA CollectKeeps ==
  ASSUME IInv, Collect, UNCHANGED udfVars
  PROVE  IInv'
<1>0. at \in Nat /\ nodes \in Nat /\ MaxList \in Nat /\ nodes <= MaxList /\ at <= nodes
  BY IsoNumbers DEF IInv
<1>1. PICK k \in 1..MaxList : k = at + 1
  BY <1>0 DEF Collect
<1>2. /\ owns' = [owns EXCEPT ![Node(k)] = None, ![Vec(k)] = owns[Node(k)]]
      /\ heap' = heap /\ fault' = FALSE /\ Empty(Vec(k))
  <2>1. owns' = [owns EXCEPT ![Node(k)] = None, ![Vec(k)] = owns[Node(k)]] /\ heap' = heap
    BY <1>1 DEF Collect
  <2>2. ~Empty(List) /\ Valid(List)
    BY PlaceFacts DEF IInv, HeapOK, Owned, IsoPhases, Collect
  <2>3. k > at
    BY <1>1, <1>0
  <2> QED
    BY <2>1, <2>2, <2>3 DEF IInv, HeapOK, IsoPhases, Collect
<1>3. /\ owns'[Node(k)] = None
      /\ \A q \in Places \ {Node(k), Vec(k)} : owns'[q] = owns[q]
  BY <1>2, PlaceFacts, Apart DEF IInv, HeapOK
<1>4. HeapOK'
  BY <1>2, PlaceFacts, KindFacts, Apart, MoveKeeps DEF IInv
<1>5. UdfPlacesStay
  BY <1>3, PlaceFacts, Apart DEF UdfPlacesStay
<1>6. IsoTypeOK'
  BY DEF IInv, IsoTypeOK, Collect
<1>7. IsoPhases'
  <2>1. \A j \in 1..MaxList : j # k => owns'[Node(j)] = owns[Node(j)] /\ owns'[Vec(j)] = owns[Vec(j)]
    BY <1>3, PlaceFacts, Apart
  <2>2. owns'[List] = owns[List] /\ owns'[Identifier] = owns[Identifier]
    BY <1>3, PlaceFacts, Apart
  <2>3. \A j \in 1..MaxList : j <= at' \/ j > nodes' => Empty(Node(j))'
    <3>1. \A j \in 1..MaxList : (j <= at' \/ j > nodes') /\ j # k => j <= at \/ j > nodes
      BY <1>0, <1>1 DEF Collect
    <3>2. \A j \in 1..MaxList : j <= at \/ j > nodes => owns[Node(j)] = None
      BY DEF IInv, IsoPhases, Empty
    <3> QED
      BY <1>3, <2>1, <3>1, <3>2 DEF Empty
  <2>4. \A j \in 1..MaxList : j > at' => Empty(Vec(j))'
    <3>1. \A j \in 1..MaxList : j > at' => j > at /\ j # k
      BY <1>0, <1>1 DEF Collect
    <3>2. \A j \in 1..MaxList : j > at => owns[Vec(j)] = None
      BY DEF IInv, IsoPhases, Collect, Empty
    <3> QED
      BY <2>1, <3>1, <3>2 DEF Empty
  <2> QED
    BY <2>2, <2>3, <2>4 DEF IInv, IsoPhases, Collect, Empty
<1> QED
  BY <1>4, <1>5, <1>6, <1>7, UdfFrame DEF IInv

\* An item of the Vec becomes an entry.
LEMMA WrapKeeps ==
  ASSUME IInv, NEW j \in 1..IsoValues, Wrap(j), UNCHANGED udfVars
  PROVE  IInv'
<1>1. PICK k \in 1..MaxList : k = at + 1
  BY HeapAssumption DEF IInv, IsoTypeOK, Wrap
<1>2. /\ owns' = [owns EXCEPT ![Vec(k)] = None, ![IsoEntry(j)] = owns[Vec(k)]]
      /\ heap' = heap /\ fault' = FALSE /\ Empty(IsoEntry(j))
  BY <1>1 DEF IInv, HeapOK, Wrap, Move
<1>3. /\ owns'[Vec(k)] = None
      /\ \A q \in Places \ {Vec(k), IsoEntry(j)} : owns'[q] = owns[q]
  BY <1>2, PlaceFacts, Apart DEF IInv, HeapOK
<1>4. HeapOK'
  BY <1>2, PlaceFacts, KindFacts, Apart, MoveKeeps DEF IInv
<1>5. UdfPlacesStay
  BY <1>3, PlaceFacts, Apart DEF UdfPlacesStay
<1>6. IsoTypeOK'
  BY DEF IInv, IsoTypeOK, Wrap
<1>7. IsoPhases'
  <2>1. \A i \in 1..MaxList : owns'[Node(i)] = owns[Node(i)] /\ (i # k => owns'[Vec(i)] = owns[Vec(i)])
    BY <1>3, PlaceFacts, Apart
  <2>2. owns'[List] = owns[List] /\ owns'[Identifier] = owns[Identifier]
    BY <1>3, PlaceFacts, Apart
  <2>3. \A i \in 1..MaxList : i <= at' \/ i > nodes' => Empty(Vec(i))'
    BY <1>1, <1>3, <2>1 DEF IInv, IsoTypeOK, IsoPhases, Wrap, Empty
  <2> QED
    BY <2>1, <2>2, <2>3 DEF IInv, IsoPhases, Wrap, Empty
<1> QED
  BY <1>4, <1>5, <1>6, <1>7, UdfFrame DEF IInv

LEMMA IsoStep ==
  ASSUME IInv, IsoNext, UNCHANGED udfVars
  PROVE  IInv'
<1>1. ASSUME NEW b \in Blocks, ListStarts(b) PROVE IInv'
  <2>1. HeapOK' /\ owns' = [owns EXCEPT ![List] = b]
    BY <1>1, PlaceFacts, ObtainKeeps DEF ListStarts, IInv
  <2>2. UdfPlacesStay /\ owns'[List] # None /\ \A q \in Places \ {List} : owns'[q] = owns[q]
    BY <2>1, OneIsoPlace, HeapAssumption DEF IInv
  <2>3. IsoTypeOK' /\ IsoPhases'
    BY <1>1, <2>2, PlaceFacts, Apart DEF IInv, IsoTypeOK, IsoPhases, ListStarts, IsoIdle, Empty
  <2> QED
    BY <2>1, <2>2, <2>3, UdfFrame DEF IInv
<1>2. ASSUME NEW b \in Blocks, ListGrows(b) PROVE IInv'
  <2>1. PICK k \in 1..MaxList : k = nodes + 1
    BY <1>2, HeapAssumption DEF IInv, IsoTypeOK, ListGrows
  <2>2. /\ HeapOK' /\ UdfPlacesStay
        /\ \A q \in Places \ {Node(k)} : owns'[q] = owns[q]
    <3>1. CASE Obtain(Node(k), b)
      <4>1. HeapOK' /\ owns' = [owns EXCEPT ![Node(k)] = b]
        BY <3>1, PlaceFacts, ObtainKeeps DEF IInv
      <4> QED
        BY <4>1, OneIsoPlace DEF IInv
    <3>2. CASE UNCHANGED heapVars
      BY <3>2 DEF IInv, HeapOK, heapVars, Owned, Valid, Empty, UdfPlacesStay
    <3> QED
      BY <1>2, <2>1, <3>1, <3>2 DEF ListGrows
  <2>3. IsoTypeOK'
    BY <1>2, IsoNumbers DEF IInv, IsoTypeOK, ListGrows
  <2>4. IsoPhases'
    <3>1. owns'[List] = owns[List] /\ owns'[Identifier] = owns[Identifier]
      BY <2>2, PlaceFacts, Apart
    <3>2. \A i \in 1..MaxList : owns'[Vec(i)] = owns[Vec(i)] /\ (i # k => owns'[Node(i)] = owns[Node(i)])
      BY <2>2, PlaceFacts, Apart
    <3>3. \A i \in 1..MaxList : i <= at' \/ i > nodes' => Empty(Node(i))'
      BY <1>2, <2>1, <3>2 DEF IInv, IsoTypeOK, IsoPhases, ListGrows, Empty
    <3> QED
      BY <1>2, <3>1, <3>2, <3>3 DEF IInv, IsoPhases, ListGrows, Empty
  <2> QED
    BY <1>2, <2>2, <2>3, <2>4, UdfFrame DEF IInv
<1>3. CASE Begin
  <2>1. HeapOK' /\ owns' = owns
    BY <1>3, PlaceFacts, UseKeeps DEF Begin, IInv, IsoPhases
  <2>2. UdfPlacesStay /\ IsoTypeOK' /\ IsoPhases'
    BY <1>3, <2>1 DEF UdfPlacesStay, IInv, IsoTypeOK, IsoPhases, Begin, Empty
  <2> QED
    BY <1>3, <2>1, <2>2, UdfFrame DEF IInv
<1>4. CASE FreeList
  <2>1. HeapOK' /\ owns' = [owns EXCEPT ![List] = None]
    BY <1>4, PlaceFacts, ReleaseKeeps DEF FreeList, IInv
  <2>2. UdfPlacesStay /\ owns'[List] = None /\ \A q \in Places \ {List} : owns'[q] = owns[q]
    BY <2>1, OneIsoPlace DEF IInv
  <2>3. IsoTypeOK'
    BY <1>4 DEF IInv, IsoTypeOK, FreeList
  <2>4. IsoPhases'
    <3>1. \A k \in 1..MaxList : Empty(Node(k))' /\ (k > nodes => Empty(Vec(k))')
      BY <1>4, <2>2, PlaceFacts, Apart DEF IInv, IsoTypeOK, IsoPhases, FreeList, Empty
    <3> QED
      BY <1>4, <2>2, <3>1, PlaceFacts, Apart DEF IInv, IsoTypeOK, IsoPhases, FreeList, Empty
  <2> QED
    BY <1>4, <2>1, <2>2, <2>3, <2>4, UdfFrame DEF IInv
<1>5. CASE ReadDirReturns
  <2>1. HeapOK' /\ UdfPlacesStay /\ owns' = owns
    BY <1>5 DEF IInv, HeapOK, heapVars, Owned, Valid, Empty, UdfPlacesStay, ReadDirReturns
  <2>2. IsoTypeOK'
    BY <1>5, IsoNumbers DEF IInv, IsoTypeOK, ReadDirReturns
  <2>3. \A k \in 1..MaxList : Empty(Vec(k)) /\ Empty(Node(k))
    BY <1>5, IsoNumbers DEF IInv, IsoPhases, ReadDirReturns
  <2>4. IsoPhases'
    BY <1>5, <2>1, <2>3 DEF IInv, IsoPhases, ReadDirReturns, Empty
  <2> QED
    BY <1>5, <2>1, <2>2, <2>4, UdfFrame DEF IInv
<1>6. ASSUME NEW b \in Blocks, NEW j \in 1..IsoValues, IsoStat(j, b) PROVE IInv'
  <2>1. HeapOK' /\ owns' = [owns EXCEPT ![IsoEntry(j)] = b]
    BY <1>6, PlaceFacts, ObtainKeeps DEF IsoStat, IInv
  <2>2. UdfPlacesStay /\ \A q \in Places \ {IsoEntry(j)} : owns'[q] = owns[q]
    BY <2>1, OneIsoPlace DEF IInv
  <2>3. IsoTypeOK' /\ IsoPhases'
    BY <1>6, <2>2, PlaceFacts, Apart
    DEF IInv, IsoTypeOK, IsoPhases, IsoStat, IsoIdle, isoVars, Empty
  <2> QED
    BY <2>1, <2>2, <2>3, UdfFrame DEF IInv
<1>7. ASSUME NEW b \in Blocks, GetIdentifier(b) PROVE IInv'
  <2>1. HeapOK' /\ owns' = [owns EXCEPT ![Identifier] = b]
    BY <1>7, PlaceFacts, ObtainKeeps DEF GetIdentifier, IInv
  <2>2. UdfPlacesStay /\ owns'[Identifier] # None /\ \A q \in Places \ {Identifier} : owns'[q] = owns[q]
    BY <2>1, OneIsoPlace, HeapAssumption DEF IInv
  <2>3. IsoTypeOK' /\ IsoPhases'
    BY <1>7, <2>2, PlaceFacts, Apart DEF IInv, IsoTypeOK, IsoPhases, GetIdentifier, IsoIdle, Empty
  <2> QED
    BY <2>1, <2>2, <2>3, UdfFrame DEF IInv
<1>8. CASE IdentifierReturns
  <2>1. HeapOK' /\ owns' = [owns EXCEPT ![Identifier] = None]
    BY <1>8, PlaceFacts, ReleaseKeeps DEF IdentifierReturns, IInv
  <2>2. UdfPlacesStay /\ owns'[Identifier] = None /\ \A q \in Places \ {Identifier} : owns'[q] = owns[q]
    BY <2>1, OneIsoPlace DEF IInv
  <2>3. IsoTypeOK' /\ IsoPhases'
    BY <1>8, <2>2, PlaceFacts, Apart DEF IInv, IsoTypeOK, IsoPhases, IdentifierReturns, Empty
  <2> QED
    BY <1>8, <2>1, <2>2, <2>3, UdfFrame DEF IInv
<1>9. ASSUME NEW j \in 1..IsoValues, DropIsoEntry(j) PROVE IInv'
  <2>1. HeapOK' /\ owns' = [owns EXCEPT ![IsoEntry(j)] = None]
    BY <1>9, PlaceFacts, ReleaseKeeps DEF DropIsoEntry, IInv
  <2>2. /\ UdfPlacesStay /\ owns'[IsoEntry(j)] = None
        /\ \A q \in Places \ {IsoEntry(j)} : owns'[q] = owns[q]
    BY <2>1, OneIsoPlace DEF IInv
  <2>3. IsoTypeOK' /\ IsoPhases'
    BY <1>9, <2>2, PlaceFacts, Apart
    DEF IInv, IsoTypeOK, IsoPhases, DropIsoEntry, IsoIdle, isoVars, Empty
  <2> QED
    BY <2>1, <2>2, <2>3, UdfFrame DEF IInv
<1>10. CASE DropIso
  <2>1. HeapOK' /\ UdfPlacesStay /\ IsoTypeOK' /\ IsoPhases'
    BY <1>10 DEF IInv, HeapOK, heapVars, Owned, Valid, Empty, UdfPlacesStay, IsoTypeOK, IsoPhases,
       DropIso, IsoIdle
  <2> QED
    BY <1>10, <2>1, UdfFrame DEF IInv
<1> QED
  BY <1>1, <1>2, <1>3, <1>4, <1>5, <1>6, <1>7, <1>8, <1>9, <1>10, CollectKeeps, WrapKeeps DEF IsoNext

-----------------------------------------------------------------------------
LEMMA InvInit == Init => IInv
<1> SUFFICES ASSUME Init PROVE IInv
  OBVIOUS
<1>1. HeapOK
  BY FreeIsNoKind, HeapAssumption DEF Init, HeapInit, HeapOK, Owned, Empty, Valid
<1>2. \A p \in Places : Empty(p)
  BY DEF Init, HeapInit, Empty
<1>3. UdfTypeOK /\ UdfPhases /\ FieldsOfTheFile
  BY <1>2, PlaceFacts DEF Init, UdfInit, UdfTypeOK, UdfPhases, FieldsOfTheFile
<1>4. IsoTypeOK /\ IsoPhases
  BY <1>2, PlaceFacts, HeapAssumption DEF Init, IsoInit, IsoTypeOK, IsoPhases
<1> QED
  BY <1>1, <1>3, <1>4 DEF IInv

LEMMA InvStep ==
  ASSUME IInv, [Next]_vars
  PROVE  IInv'
<1>1. CASE UNCHANGED vars
  <2>1. HeapOK' /\ IsoPlacesStay /\ UdfPlacesStay
    BY <1>1 DEF IInv, HeapOK, vars, heapVars, Owned, Valid, Empty, IsoPlacesStay, UdfPlacesStay
  <2> QED
    BY <1>1, <2>1, IsoFrame, UdfFrame DEF IInv, vars
<1> QED
  BY <1>1, UdfStep, IsoStep DEF Next

LEMMA Invariant == Spec => []IInv
BY InvInit, InvStep, PTL DEF Spec

-----------------------------------------------------------------------------
\* The walk over an image keeps its variables in their sets.
THEOREM Typing == Spec => []TypeOK
<1>1. IInv => TypeOK
  BY DEF IInv, HeapOK, TypeOK
<1> QED
  BY <1>1, Invariant, PTL

\* Nothing that libcdio allocates leaks or is freed twice, and every entry of
\* the program, and every local of a call, has its object to itself.
THEOREM OneOwner == Spec => []Owned
<1>1. IInv => Owned
  BY DEF IInv, HeapOK
<1> QED
  BY <1>1, Invariant, PTL

\* libcdio is never given a pointer to an object that is gone.
THEOREM NoFault == Spec => []Faultless
<1>1. IInv => Faultless
  BY DEF IInv, HeapOK, Faultless
<1> QED
  BY <1>1, Invariant, PTL

\* An entry's public fields follow it from file to file.
THEOREM FieldsFollow == Spec => []FieldsOfTheFile
<1>1. IInv => FieldsOfTheFile
  BY DEF IInv
<1> QED
  BY <1>1, Invariant, PTL

\* A handle is closed when nothing that libcdio allocated refers to it.
THEOREM HandlesGoLast == Spec => []NothingOutlivesItsHandle
<1>1. ASSUME IInv PROVE NothingOutlivesItsHandle
  <2>1. ASSUME udf = "closed", NEW b \in Blocks, heap[b] = "udf_dirent_t" PROVE FALSE
    <3>1. PICK p \in Places : owns[p] = b /\ Kind(p) = "udf_dirent_t"
      BY <1>1, <2>1, HeapAssumption DEF IInv, HeapOK, Owned, Valid, Empty
    <3>2. ~Empty(p)
      BY <3>1, HeapAssumption DEF Empty
    <3> QED
      BY <1>1, <2>1, <3>1, <3>2, Holders DEF IInv, UdfPhases
  <2>2. ASSUME iso = "closed", NEW b \in Blocks,
               heap[b] \in {"iso9660_stat_t", "CdioList_t", "char *"} PROVE FALSE
    <3>0. PICK p \in Places : owns[p] = b
      BY <1>1, <2>2 DEF IInv, HeapOK, Owned
    <3>1. owns[p] = b /\ Kind(p) = heap[b]
      BY <1>1, <3>0, HeapAssumption DEF IInv, HeapOK, Owned, Valid, Empty
    <3>2. ~Empty(p)
      BY <3>1, HeapAssumption DEF Empty
    <3>3. /\ in_iso = "idle" /\ nodes = 0 /\ Empty(List) /\ Empty(Identifier)
          /\ \A j \in 1..IsoValues : Empty(IsoEntry(j))
          /\ \A k \in 1..MaxList : Empty(Node(k)) /\ Empty(Vec(k))
      <4>1. in_iso = "idle" /\ nodes = 0 /\ \A j \in 1..IsoValues : Empty(IsoEntry(j))
        BY <1>1, <2>2 DEF IInv, IsoPhases
      <4>2. Empty(List) /\ Empty(Identifier)
        BY <1>1, <4>1 DEF IInv, IsoPhases
      <4>3. at = 0 /\ \A k \in 1..MaxList : k > nodes /\ k > at
        BY <1>1, <4>1, IsoNumbers DEF IInv
      <4> QED
        BY <1>1, <4>1, <4>2, <4>3 DEF IInv, IsoPhases
    <3> QED
      BY <2>2, <3>1, <3>2, <3>3, Holders
  <2> QED
    BY <2>1, <2>2 DEF NothingOutlivesItsHandle
<1> QED
  BY <1>1, Invariant, PTL
=============================================================================
