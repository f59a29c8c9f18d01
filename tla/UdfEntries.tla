----------------------------- MODULE UdfEntries -----------------------------
(***************************************************************************)
(* Udf::root, Udf::entry, UdfEntry::next and open_dir, and the destructors  *)
(* (udf.rs, udf/entry.rs): who owns the udf_dirent_t that libcdio returns.  *)
(* An entry borrows its Udf, and next() consumes it.  A call that fails     *)
(* before libcdio has returned anything changes nothing and is left out.    *)
(***************************************************************************)
EXTENDS NativeHeap

CONSTANT Files   \* the files and directories that an entry may stand at

VARIABLES udf,      \* "open" or "closed"
          in_entry, \* where Udf::entry is: "idle", "root" or "opened"
          stands,   \* external: the file each udf_dirent_t stands at
          copied    \* the file whose uid and gid each UdfEntry has

udfVars == <<udf, in_entry, stands, copied>>

UdfInit ==
  /\ udf = "open"
  /\ in_entry = "idle"
  /\ \E f \in Files : /\ stands = [b \in Blocks |-> f]
                      /\ copied = [k \in 1..UdfValues |-> f]

UdfIdle == udf = "open" /\ in_entry = "idle"

-----------------------------------------------------------------------------
\* UdfEntry::new of a block that stands at the file.
NewUdfEntry(k, file) == copied' = [copied EXCEPT ![k] = file]

\* udf_get_root and udf_opendir allocate an entry of their own.
FreshUdfEntry(k, block, file) ==
  /\ UdfIdle
  /\ stands' = [stands EXCEPT ![block] = file]
  /\ NewUdfEntry(k, file)
  /\ UNCHANGED <<udf, in_entry>>

\* root and root_from_partition
UdfRoot(k, block, file) == FreshUdfEntry(k, block, file) /\ Obtain(UdfEntry(k), block)

\* open_dir(&self): the entry of the directory stays as it is.
UdfOpenDir(j, k, block, file) ==
  /\ ~Empty(UdfEntry(j))
  /\ FreshUdfEntry(k, block, file)
  /\ ObtainFrom(UdfEntry(j), UdfEntry(k), block)

\* Udf::entry: self.root()?
EntryGetsRoot(block, file) ==
  /\ UdfIdle
  /\ in_entry' = "root"
  /\ Obtain(Root, block)
  /\ stands' = [stands EXCEPT ![block] = file]
  /\ UNCHANGED <<udf, copied>>

\* Mutant: the root is forgotten on the way out.
EntryBadPathForgets ==
  /\ in_entry = "root"
  /\ in_entry' = "idle"
  /\ owns' = [owns EXCEPT ![Root] = None]
  /\ UNCHANGED <<heap, fault, udf, stands, copied>>

\* CString::new(path) fails behind it, and `?` drops the root.
EntryBadPath ==
  /\ in_entry = "root"
  /\ in_entry' = "idle"
  /\ Release(Root)
  /\ UNCHANGED <<udf, stands, copied>>

\* udf_fopen(root, path), which may return NULL
EntryOpens(block, file) ==
  /\ in_entry = "root"
  /\ in_entry' = "opened"
  /\ ObtainFrom(Root, Found, block)
  /\ stands' = [stands EXCEPT ![block] = file]
  /\ UNCHANGED <<udf, copied>>

EntryOpensNothing ==
  /\ in_entry = "root"
  /\ in_entry' = "opened"
  /\ Use(Root)
  /\ UNCHANGED <<udf, stands, copied>>

\* The entry is returned, or an error, and the root goes out of scope.
EntryReturns(k) ==
  /\ in_entry = "opened"
  /\ in_entry' = "idle"
  /\ Empty(UdfEntry(k))
  /\ heap' = [heap EXCEPT ![owns[Root]] = "free"]
  /\ fault' = (fault \/ ~Valid(Root))
  /\ owns' = [owns EXCEPT ![Root] = None, ![Found] = None, ![UdfEntry(k)] = owns[Found]]
  /\ IF Empty(Found) THEN UNCHANGED copied ELSE NewUdfEntry(k, stands[owns[Found]])
  /\ UNCHANGED <<udf, stands>>

-----------------------------------------------------------------------------
\* Mutant: without mem::forget the consumed value's destructor runs.
NextFoundDropped(k, file) ==
  /\ UdfIdle /\ ~Empty(UdfEntry(k))
  /\ heap' = [heap EXCEPT ![owns[UdfEntry(k)]] = "free"]
  /\ fault' = (fault \/ ~Valid(UdfEntry(k)))
  /\ stands' = [stands EXCEPT ![owns[UdfEntry(k)]] = file]
  /\ NewUdfEntry(k, file)
  /\ UNCHANGED <<owns, udf, in_entry>>

\* Mutant: the value itself is returned, moved on.
NextFoundSame(k, file) ==
  /\ UdfIdle /\ ~Empty(UdfEntry(k))
  /\ Use(UdfEntry(k))
  /\ stands' = [stands EXCEPT ![owns[UdfEntry(k)]] = file]
  /\ UNCHANGED <<udf, in_entry, copied>>

\* next(self): udf_readdir moves the udf_dirent_t on and returns it; self is
\* forgotten, and a value is made of the same pointer.
NextFound(k, file) ==
  /\ UdfIdle /\ ~Empty(UdfEntry(k))
  /\ Use(UdfEntry(k))
  /\ stands' = [stands EXCEPT ![owns[UdfEntry(k)]] = file]
  /\ NewUdfEntry(k, file)
  /\ UNCHANGED <<udf, in_entry>>

\* At the end of the directory udf_readdir frees its argument.
NextEnds(k) ==
  /\ UdfIdle
  /\ Release(UdfEntry(k))
  /\ UNCHANGED <<udf, in_entry, stands, copied>>

\* Drop for UdfEntry
DropUdfEntry(k) ==
  /\ UdfIdle
  /\ Release(UdfEntry(k))
  /\ UNCHANGED <<udf, in_entry, stands, copied>>

\* Mutant: an entry does not borrow its Udf.
DropUdfUnborrowed ==
  /\ UdfIdle
  /\ udf' = "closed"
  /\ UNCHANGED <<heapVars, in_entry, stands, copied>>

\* Drop for Udf, which nothing borrows any more.
DropUdf ==
  /\ UdfIdle
  /\ \A k \in 1..UdfValues : Empty(UdfEntry(k))
  /\ udf' = "closed"
  /\ UNCHANGED <<heapVars, in_entry, stands, copied>>

UdfNext ==
  \/ \E b \in Blocks, f \in Files :
       \/ EntryGetsRoot(b, f) \/ EntryOpens(b, f)
       \/ \E k \in 1..UdfValues : UdfRoot(k, b, f) \/ \E j \in 1..UdfValues : UdfOpenDir(j, k, b, f)
  \/ EntryBadPath \/ EntryOpensNothing
  \/ \E k \in 1..UdfValues :
       \/ EntryReturns(k) \/ NextEnds(k) \/ DropUdfEntry(k)
       \/ \E f \in Files : NextFound(k, f)
  \/ DropUdf

-----------------------------------------------------------------------------
UdfTypeOK ==
  /\ udf \in {"open", "closed"}
  /\ in_entry \in {"idle", "root", "opened"}
  /\ stands \in [Blocks -> Files]
  /\ copied \in [1..UdfValues -> Files]

\* The public uid and gid of an entry are those of the file whose name, mode
\* and data its other methods read, however far the walk has gone.
FieldsOfTheFile ==
  \A k \in 1..UdfValues : ~Empty(UdfEntry(k)) => copied[k] = stands[owns[UdfEntry(k)]]
=============================================================================
