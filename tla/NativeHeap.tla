----------------------------- MODULE NativeHeap -----------------------------
(***************************************************************************)
(* The objects that libcdio allocates and this crate has to free, and the   *)
(* places of a program that own a pointer to one: a Rust value with a       *)
(* destructor, a local of a call that executes, a list of libcdio.  A place *)
(* is a pair of what it holds and a number.  libcdio's allocator is shared: *)
(* a block freed twice may be somebody else's by then.                      *)
(***************************************************************************)
EXTENDS Integers

CONSTANTS Blocks,     \* bound: the blocks of memory
          None,       \* a null pointer
          UdfValues,  \* bound: how many UdfEntry values the program keeps
          IsoValues,  \* bound: how many IsoEntry values the program keeps
          MaxList     \* bound: the longest directory of an image

ASSUME HeapAssumption ==
  /\ None \notin Blocks
  /\ UdfValues \in Nat /\ IsoValues \in Nat /\ MaxList \in Nat

VARIABLES heap,   \* what each block holds
          owns,   \* the pointer that each place owns
          fault   \* auxiliary: libcdio was given a pointer to something else

heapVars == <<heap, owns, fault>>

UdfEntry(k) == <<"udf_entry", k>>   \* UdfEntry.entry of a value
Root        == <<"root", 0>>        \* the local `root` of Udf::entry
Found       == <<"found", 0>>       \* what udf_fopen returned to it
IsoEntry(k) == <<"iso_entry", k>>   \* IsoEntry.stat of a value
List        == <<"list", 0>>        \* `dirlist` of Iso::read_dir
Node(k)     == <<"node", k>>        \* the data of a node of that list
Vec(k)      == <<"vec", k>>         \* an item of the Vec of cdiolist_to_vec
Identifier  == <<"identifier", 0>>  \* `identifier_ptr` of get_identifier

Places == ({"udf_entry"} \X (1..UdfValues)) \union ({"iso_entry"} \X (1..IsoValues))
          \union ({"node", "vec"} \X (1..MaxList))
          \union ({"root", "found", "list", "identifier"} \X {0})

\* The object that a place points to, when it points to one.
Kind(place) == CASE place[1] \in {"udf_entry", "root", "found"} -> "udf_dirent_t"
                 [] place[1] \in {"iso_entry", "node", "vec"}   -> "iso9660_stat_t"
                 [] place[1] = "list"                           -> "CdioList_t"
                 [] place[1] = "identifier"                     -> "char *"

Kinds == {"udf_dirent_t", "iso9660_stat_t", "CdioList_t", "char *"}

HeapInit ==
  /\ heap = [b \in Blocks |-> "free"]
  /\ owns = [p \in Places |-> None]
  /\ fault = FALSE

-----------------------------------------------------------------------------
Empty(place) == owns[place] = None

\* Whether the place points to what it should.
Valid(place) == owns[place] # None /\ heap[owns[place]] = Kind(place)

\* libcdio allocates an object, and the place gets it.
Allocate(place, block) ==
  /\ Empty(place)
  /\ heap[block] = "free"
  /\ heap' = [heap EXCEPT ![block] = Kind(place)]
  /\ owns' = [owns EXCEPT ![place] = block]

Obtain(place, block) == Allocate(place, block) /\ UNCHANGED fault

\* libcdio makes it from another object, whose pointer it is given.
ObtainFrom(from, place, block) ==
  /\ Allocate(place, block)
  /\ fault' = (fault \/ ~Valid(from))

\* The object of a place is freed, and the place is gone.
Release(place) ==
  /\ ~Empty(place)
  /\ heap' = [heap EXCEPT ![owns[place]] = "free"]
  /\ owns' = [owns EXCEPT ![place] = None]
  /\ fault' = (fault \/ ~Valid(place))

\* A pointer goes from one place to another.
Move(from, to) ==
  /\ Empty(to)
  /\ owns' = [owns EXCEPT ![from] = None, ![to] = owns[from]]
  /\ UNCHANGED <<heap, fault>>

\* libcdio is given the pointer and keeps the object.
Use(place) ==
  /\ fault' = (fault \/ ~Valid(place))
  /\ UNCHANGED <<heap, owns>>

-----------------------------------------------------------------------------
\* Every object that libcdio made and did not free has one owner, which takes
\* it for what it is; every owned pointer leads to such an object.  So nothing
\* leaks, nothing is freed twice, and no value outlives its object.
Owned ==
  /\ \A p \in Places : ~Empty(p) => Valid(p)
  /\ \A p, q \in Places : owns[p] = owns[q] /\ ~Empty(p) => p = q
  /\ \A b \in Blocks : heap[b] # "free" => \E p \in Places : owns[p] = b

\* libcdio is never given a pointer to an object that is gone or of another kind.
Faultless == ~fault
=============================================================================
