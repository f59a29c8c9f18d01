------------------------------ MODULE Entries ------------------------------
(***************************************************************************)
(* A program that walks a UDF image and an ISO 9660 image, each on a thread *)
(* of its own: the handles and their entries cannot be shared, but the      *)
(* memory that libcdio allocates for both is one.                           *)
(***************************************************************************)
EXTENDS UdfEntries, IsoEntries

vars == <<heapVars, udfVars, isoVars>>

Init == HeapInit /\ UdfInit /\ IsoInit

Next == \/ UdfNext /\ UNCHANGED isoVars
        \/ IsoNext /\ UNCHANGED udfVars

Spec == Init /\ [][Next]_vars

-----------------------------------------------------------------------------
\* Every place holds a block or nothing, and each call is at one of its steps.
TypeOK ==
  /\ heap \in [Blocks -> Kinds \union {"free"}]
  /\ owns \in [Places -> Blocks \union {None}]
  /\ fault \in BOOLEAN
  /\ UdfTypeOK
  /\ IsoTypeOK

\* Closing a handle leaves nothing behind that refers to it: udf_dirent_t keeps
\* a pointer to the udf_t it came from, and an IsoEntry one to its Iso.
NothingOutlivesItsHandle ==
  /\ udf = "closed" => \A b \in Blocks : heap[b] # "udf_dirent_t"
  /\ iso = "closed" => \A b \in Blocks : heap[b] \notin {"iso9660_stat_t", "CdioList_t", "char *"}
=============================================================================
