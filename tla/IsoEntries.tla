----------------------------- MODULE IsoEntries -----------------------------
(***************************************************************************)
(* Iso::read_dir with cdiolist_to_vec, Iso::entry, Iso::get_identifier and  *)
(* the destructors (iso9660.rs, iso9660/entry.rs, iso9660/util.rs): who     *)
(* owns the iso9660_stat_t, the list and the string that libcdio returns.   *)
(* A call that libcdio answers with NULL changes nothing and is left out.   *)
(***************************************************************************)
EXTENDS NativeHeap

VARIABLES iso,     \* "open" or "closed"
          in_iso,  \* where a call of it is, "idle" between the calls
          nodes,   \* the length of the list of read_dir
          at       \* how far the loop over it, or over the Vec, has come

isoVars == <<iso, in_iso, nodes, at>>

IsoInit == iso = "open" /\ in_iso = "idle" /\ nodes = 0 /\ at = 0

IsoIdle == iso = "open" /\ in_iso = "idle"

-----------------------------------------------------------------------------
\* External: iso9660_ifs_readdir makes a list and fills it, with a NULL where
\* it has nothing.
ListStarts(block) ==
  /\ IsoIdle
  /\ in_iso' = "listing"
  /\ Obtain(List, block)
  /\ UNCHANGED <<iso, nodes, at>>

ListGrows(block) ==
  /\ in_iso = "listing" /\ nodes < MaxList
  /\ nodes' = nodes + 1
  /\ \/ Obtain(Node(nodes + 1), block)
     \/ UNCHANGED heapVars
  /\ UNCHANGED <<iso, in_iso, at>>

\* read_dir: _cdio_list_begin
Begin ==
  /\ in_iso = "listing"
  /\ in_iso' = "collecting"
  /\ Use(List)
  /\ UNCHANGED <<iso, nodes, at>>

\* Mutant: the loop tests the node before last.
CollectPastEnd ==
  /\ in_iso = "collecting" /\ at <= nodes
  /\ at' = at + 1
  /\ fault' = (fault \/ ~Valid(List))
  /\ UNCHANGED <<heap, owns, iso, in_iso, nodes>>

\* A round of the loop: the data of the node is pushed.
Collect ==
  /\ in_iso = "collecting" /\ at < nodes
  /\ at' = at + 1
  /\ owns' = [owns EXCEPT ![Node(at + 1)] = None, ![Vec(at + 1)] = owns[Node(at + 1)]]
  /\ fault' = (fault \/ ~Valid(List))
  /\ UNCHANGED <<heap, iso, in_iso, nodes>>

\* Mutant: the list is freed with its data.
FreeListAndData ==
  /\ in_iso = "collecting" /\ at = nodes
  /\ in_iso' = "wrapping"
  /\ at' = 0
  /\ heap' = [b \in Blocks |-> IF b = owns[List] \/ \E k \in 1..nodes : b = owns[Vec(k)]
                               THEN "free" ELSE heap[b]]
  /\ owns' = [owns EXCEPT ![List] = None]
  /\ UNCHANGED <<fault, iso, nodes>>

\* _cdio_list_free(cdio_list, 0, None): the nodes go, their data stays.
FreeList ==
  /\ in_iso = "collecting" /\ at = nodes
  /\ in_iso' = "wrapping"
  /\ at' = 0
  /\ Release(List)
  /\ UNCHANGED <<iso, nodes>>

\* filter_map: a pointer becomes an IsoEntry, unless it is NULL.
Wrap(j) ==
  /\ in_iso = "wrapping" /\ at < nodes
  /\ at' = at + 1
  /\ Move(Vec(at + 1), IsoEntry(j))
  /\ UNCHANGED <<iso, in_iso, nodes>>

\* Ok(dirlist)
ReadDirReturns ==
  /\ in_iso = "wrapping" /\ at = nodes
  /\ in_iso' = "idle"
  /\ nodes' = 0 /\ at' = 0
  /\ UNCHANGED <<heapVars, iso>>

\* Iso::entry
IsoStat(j, block) ==
  /\ IsoIdle
  /\ Obtain(IsoEntry(j), block)
  /\ UNCHANGED isoVars

\* get_identifier: a string of libcdio's, which is copied and freed.
GetIdentifier(block) ==
  /\ IsoIdle
  /\ in_iso' = "identifier"
  /\ Obtain(Identifier, block)
  /\ UNCHANGED <<iso, nodes, at>>

IdentifierReturns ==
  /\ in_iso = "identifier"
  /\ in_iso' = "idle"
  /\ Release(Identifier)
  /\ UNCHANGED <<iso, nodes, at>>

\* Drop for IsoEntry
DropIsoEntry(j) ==
  /\ IsoIdle
  /\ Release(IsoEntry(j))
  /\ UNCHANGED isoVars

\* Drop for Iso, which nothing borrows any more.
DropIso ==
  /\ IsoIdle
  /\ \A j \in 1..IsoValues : Empty(IsoEntry(j))
  /\ iso' = "closed"
  /\ UNCHANGED <<heapVars, in_iso, nodes, at>>

IsoNext ==
  \/ \E b \in Blocks : \/ ListStarts(b) \/ ListGrows(b) \/ GetIdentifier(b)
                       \/ \E j \in 1..IsoValues : IsoStat(j, b)
  \/ Begin \/ Collect \/ FreeList \/ ReadDirReturns \/ IdentifierReturns
  \/ \E j \in 1..IsoValues : Wrap(j) \/ DropIsoEntry(j)
  \/ DropIso

-----------------------------------------------------------------------------
IsoTypeOK ==
  /\ iso \in {"open", "closed"}
  /\ in_iso \in {"idle", "listing", "collecting", "wrapping", "identifier"}
  /\ nodes \in 0..MaxList
  /\ at \in 0..nodes
=============================================================================
