# TLA+ models of libcdio-rs

libcdio-rs is a safe Rust wrapper over the C library libcdio: it opens optical
drives and disc images, sends SCSI MMC commands, and reads ISO 9660 and UDF
file systems. The C library is outside the repository; where a model needs a
fact about it, the definition says *External* and is marked so in
`PROJECT.json`, and the facts are listed under "Assumptions about libcdio
and the devices".

## Inventory

Paths are relative to `src/src/` of the repository.

| part | source | state | operations | what makes it correct |
|---|---|---|---|---|
| `CdIo_t` handles | `cdio.rs` | the mutex `CDIO_INIT_LOCK`; libcdio's static `CdIo_last_driver` behind it | open, destroy | init routines of libcdio never overlap; each handle is destroyed once |
| log handler | `logging.rs` | the `Once`; two log globals of libcdio | `init_logger`, `log_handler` | set before anything else of libcdio runs, by one thread |
| `Drive` | `drive.rs` | a `CdIo_t` | list, open, identifiers, capabilities | the native device list is freed; conversions |
| `Mmc` | `mmc.rs` | a `CdIo_t`; sense data in the device | open and probe, `run_command`, `sense_data` | only MMC devices; an error carries the sense data of its own command |
| MMC commands | `mmc/*.rs` | none of their own; the device's tray, lock, events | CDB building, response decoding, two-step reads | the bits of each CDB, lengths that agree between the steps, no descriptor read past the response |
| `Udf`, `UdfEntry` | `udf.rs`, `udf/entry.rs` | `udf_t`, `udf_dirent_t`; a file position shared by the handle | open, root, entry, next, open_dir, drop | each native entry freed once and not used after |
| `UdfEntryReader` | `udf/entry.rs` | its position; the shared one | read, seek | a byte stream over the file |
| `Iso`, `IsoEntry` | `iso9660.rs`, `iso9660/entry.rs`, `rock.rs`, `xa.rs`, `util.rs` | `iso9660_t`, `iso9660_stat_t` | open, entry, read_dir, attributes | each stat and each list freed once; conversions |
| `IsoEntryReader` | `iso9660/entry.rs` | its position | read, seek | a byte stream over the file |

Interaction: every constructor calls `init_logger`, then either takes the mutex
and enters libcdio (`Cdio`, hence `Drive` and `Mmc`) or enters it directly
(`Udf`, `Iso`). `Mmc`'s constructor sends an INQUIRY through the handle it has
just opened and drops the handle when the answer is not MMC. libcdio calls
`log_handler` back. All handles, entries and readers hold `NonNull` pointers
and are neither `Send` nor `Sync`: a handle and all that borrows it live in one
thread, so there is no concurrency inside one handle, and the real concurrency
is between threads with handles of their own.

Hard behaviour: the interleavings around the mutex and the `Once`; failure
after a resource was acquired; who frees what libcdio allocated, when an entry
is consumed, a list taken apart or a constructor fails; a read that fails half
way; the position that UDF readers share; several handles and a person at one
drive, with commands that are refused or lost; sense data fetched by a second
call; lengths carried from one MMC command to a second one; a device that
answers with odd lengths; fields packed and unpacked by hand. `PROJECT.json`
lists each of these hazards at its line.

## Modules

| module | models | checked by |
|---|---|---|
| `CdioInit` | `logging.rs`, `cdio.rs`, constructors and destructors of all handles, the device listing | `MCCdioInit`, proofs in `CdioInit_proofs` |
| `ByteStream` | nothing of the code: what a reader promises through `io::Read` and `io::Seek` | through the readers |
| `BlockCopy` | the arithmetic both read loops share, and the saturating seek | through the readers, lemmas in their proof modules |
| `IsoReader` | `IsoEntryReader` | `MCIsoReader`, proofs in `IsoReader_proofs` |
| `UdfReader` | `UdfEntryReader`, several readers of one handle | `MCUdfReader`, proofs in `UdfReader_proofs` |
| `NativeHeap` | the objects that libcdio allocates, and the places that own a pointer to one | through `Entries` |
| `UdfEntries` | `Udf::root`, `Udf::entry`, `UdfEntry::next`, `open_dir`, the destructors | through `Entries` |
| `IsoEntries` | `Iso::read_dir` with `cdiolist_to_vec`, `Iso::entry`, `get_identifier`, the destructors | through `Entries` |
| `Entries` | the last two side by side, on one heap | `MCEntries`, proofs in `Entries_proofs` |
| `TwoPhaseRead` | `read_toc` with its three callers, `is_disc_erasable` | `MCTwoPhaseRead`, proofs in `TwoPhaseRead_proofs` |
| `Features` | the features of `get_config.rs` and the parsers with their bits; features and descriptors of MMC-6 | through `FeatureWalk` |
| `FeatureWalk` | `Mmc::features`: the call and the walk over the descriptors | `MCFeatureWalk`, proofs in `FeatureWalk_proofs` |
| `MmcCdb` | the command blocks of ten commands, as functions of their options | through `MmcWire`, `MediaRemoval` |
| `MediaRemoval` | `run_command`, `sense_data`, the errors, and prevent, allow, eject, close, test unit ready of several handles on one drive | `MCMediaRemoval`, proofs in `MediaRemoval_proofs` |
| `MmcWire` | sending the ten commands; the fields of the standard, to read them back | `MCConversions`, proofs in `Conversions_proofs` |
| `Answers` | a command that is answered, fails or is decoded, for the next three | `MCConversions` |
| `EventStatus` | `get_event_status.rs`: the header, six event classes, eight calls | `MCConversions` |
| `SubChannel` | `read_subchannel.rs`: four calls and their descriptors | `MCConversions` |
| `InquiryData` | `inquiry.rs`: `is_mmc_device` and the identifiers | `MCConversions` |
| `IsoAttributes` | `util.rs` (times), `rock.rs`, `xa.rs`, the Joliet level | `MCConversions` |
| `EntryFields` | names, times, sizes and modes of UDF and ISO entries | `MCConversions` |
| `DriveInfo` | `drive.rs`: the identifiers and the capability sets | `MCConversions` |
| `Conversions` | all of those as one machine that runs one call after another | `MCConversions`, proofs in `Conversions_proofs` |

### CdioInit

Each thread runs one call at a time; `at[t]` is the point it has reached,
`call[t]` which call it is, `hand[t]` the native pointer the call owns between
libcdio's return and the moment the Rust value reaches the caller. `obj[h]` is
what each native object is and `owner[h]` the thread whose Rust value holds it.

| place | code |
|---|---|
| `log`, `handler`, `level` | `LOG_HANDLER.call_once` and the two statements of its closure |
| `lock` | `CDIO_INIT_LOCK.lock().unwrap()` |
| `open`, `list`, `copy`, `destroy` | inside `cdio_open_am`, `cdio_get_devices`, the copying and freeing of the list, `cdio_destroy` |
| `unlock` | the guard goes out of scope |
| `probe` | `is_mmc_device()` |
| `path`, `image`, `close` | `CString::new`, `udf_open` or `iso9660_open_ext`, `udf_close` or `iso9660_close` |

Entering a C routine and returning from it are separate steps, so two threads
can be inside at once unless the code prevents it. The mutex is never poisoned:
no statement under the guard panics (a failing allocation aborts), so `unwrap`
is not a branch of the model. The `Finished` step lets a program end, so that
TLC's deadlock check, which is on, means "nobody waits forever".

### Readers

A call of `read` is a `Read` step, a `ReadBlock` or `ReadBlockFails` step per
round of the loop, and a `ReadReturns` step. `buf` is the caller's buffer as a
function from index to byte; a byte of an image is its address, a byte of a UDF
file is the pair of file and offset, so a wrong byte is always visible.
`start` is auxiliary: the position when the call began. The refinement maps the
position the caller observes to `start` while a call executes and to
`bytes_read` otherwise, and what the calls return to itself; the abstract step
is taken when the read returns.

### Native entries

`owns` gives for every place of the program that can own a native pointer (a
`UdfEntry` or `IsoEntry` value, a local of `Udf::entry` or `get_identifier`, a
node of the list of `read_dir`, an item of the `Vec` made of it) the block it
points to, `heap` what each block holds. A block that was freed is given out
again, as `malloc` does, so a pointer that is used too late is caught by the
wrong kind of object or by a second owner. `fault` remembers that libcdio was
handed such a pointer.

| action | code |
|---|---|
| `UdfRoot`, `UdfOpenDir` | `udf_get_root`, `udf_opendir` and `UdfEntry::new` |
| `EntryGetsRoot`, `EntryBadPath`, `EntryOpens`, `EntryOpensNothing`, `EntryReturns` | the steps of `Udf::entry` and its ways out |
| `NextFound`, `NextEnds` | `udf_readdir` with `mem::forget`: the entry moved on, or freed by libcdio |
| `ListStarts`, `ListGrows`, `Begin`, `Collect`, `FreeList`, `Wrap`, `ReadDirReturns` | `iso9660_ifs_readdir`, the loop of `cdiolist_to_vec`, `_cdio_list_free`, the `filter_map` |
| `IsoStat`, `GetIdentifier`, `IdentifierReturns` | `Iso::entry`; the string that is copied and freed |
| `DropUdfEntry`, `DropIsoEntry`, `DropUdf`, `DropIso` | the destructors, a handle's when nothing borrows it |

The UDF and the ISO side belong to threads of their own and share the
allocator; their steps interleave.

### The drive

`MediaRemoval` has one `run_command` per handle in three places: `idle`, `sent`,
`ran`. `DeviceExecutes`, `AnswerLost` and `Refused` are what becomes of a
command; the device acts on the bits of the block that `MmcCdb` builds, so a
wrong block is a wrong drive. `cached` is the sense data that libcdio keeps per
handle. `PushButton`, `CloseByHand` and `ChangeDisc` are the person. Three
variables are auxiliary: `done` (what became of the command), `agreed` (what
the calls that returned say of the lock, unknown from the moment a call for the
lock begins) and `alone` (no call for the lock overlaps this one), which let the
properties say to whom a promise was made and for how long.

### MMC commands

An `Mmc` has no state of its own between two calls, so each of these machines is
one call after another, with a device that may do anything the C library lets
through. What the device means is kept apart from the bytes it sends, and the
properties compare what the caller gets with what was meant.

* `TwoPhaseRead`: `FirstCommand` and `SecondCommand` are the two `run_command`
  of `read_toc` and `read_disc_information`, which differ in what they add to
  the length field (`HeaderSize`); `TableChanges` may happen between any two
  steps. A byte of an answer is the pair of table and place, so `NotTorn` can
  say where each byte of a result came from; the length field alone is read as
  numbers, in base `Radix`.
* `FeatureWalk`: `CommandAnswers` is the length check and the first slice,
  `Step` one round of the loop, which takes the feature that `Features` makes of
  a descriptor; a slice or an index out of bounds is the status `panic`. What a
  device has is `IsFeature`, which bytes are a descriptor of it `Describes`, and
  what the program should be told `ValueOf`; none of them mentions a parser.
* `MmcCdb`, `MmcWire`: a byte is the set of the positions of its one bits.
  `Send...` fills a block as the operation does; `Meaning` reads it by the field
  layouts of MMC-6 (`Number` of the bits of a `Field`, a `Flag`, a word), which
  are written down separately and marked external.
* `EventStatus`, `SubChannel`, `InquiryData`: `Ask` sends the block, `Answer`
  writes what the device means into bytes, reserved codes, foreign classes and
  short lengths included, and the action of each call is its decoder from those
  bytes.
* `IsoAttributes`, `EntryFields`, `DriveInfo`: a call reads a structure that
  libcdio filled; the structure is made from what the image or the drive is
  (`IsoStructure`, `EntryFiles`, `DriveStructure`), the value by the code.

`Conversions` runs all of these, one call at a time; `meant` is what the device
or the image means, `result` what the caller gets.

## Runs

| run | bounds | what it shows |
|---|---|---|
| `cdio` | 3 threads, 2 handles, 1 call each (drops are not counted) | no two init routines overlap, logger first, one owner per object, only MMC devices, no deadlock, every call returns |
| `cdio_udf` | 2 threads, 1 call each | **violated**: `udf_open` initializes a `CdIo_t` without the lock |
| `iso_reader` | blocks of 3 bytes; files of 0, 6 and 8 bytes; buffers to 7 bytes; positions to 9 | the ISO reader implements `ByteStream`, stays in the file's sectors, and returns |
| `iso_reader_error` | the same | **violated**: a failed read has consumed bytes |
| `udf_reader` | 2 readers, blocks of 2 bytes, files of 3 and 4 bytes, buffers to 4 | each UDF reader implements `ByteStream` whatever the others do, and returns |
| `two_phase_read` | a buffer of 17 bytes, bytes of 6 values, 17 tables of 2 to 37 bytes | answers are never torn, and complete while the table stays |
| `two_phase_text` | the same | **violated**: `cd_text` returns two bytes more than the media has |
| `feature_walk` | 196 features alone, lists of up to two of 18 odd descriptors, and of three of 6 (753 layouts), each with 5 total lengths (3764 answers) | the walk stays inside and ends; the features of a well built list are those that the device has, with their values (of drives with both or neither of C2 pointers and CD-Text) |
| `feature_walk_panic` | the same | **violated**: a malformed list makes `features` panic |
| `conversions` | all options, 3 sectors, 4 words, 4 numbers; every event class with 8 codes, 6 states, 14 words, 8 lengths; the sets of answers and files in the modules | a device reads in the block what was asked; a value says what was meant (but for the length of a busy time); everything the standards allow is understood |
| `entries` | 5 blocks, 2 UDF and 2 ISO values, directories of 2, 2 files | one owner per native object, nothing used after it is freed, handles closed last, copied fields not stale |
| `media_removal` | 2 handles | Ok means done, errors are of their own command, the lock keeps what was agreed |

Why the bounds are enough. Three threads are a holder, a waiter and one that is
elsewhere (in the `Once`, in a probe or in an image routine); two handles are
fewer than the three threads could open, so a failure for want of an object is
included, and a thread may drop its handle while the others open theirs. The
theorems remove these bounds for safety, that of one call included. For the
readers, the
files cover an empty one, one that ends on a block boundary and one that ends
inside a block; a buffer may start and end anywhere in a block and span three
blocks; the seeks reach below zero, to every alignment, past the end of the
file and past the largest position, which stands for `usize::MAX`. The tables of
`TwoPhaseRead` end before, at and behind every descriptor, the first buffer and
the largest allocation length. The descriptors of `FeatureWalk` have each value
of each field, and too little, enough and too much data for every parser. The
words of `MmcWire` have bits at both ends of their bytes; the codes, words and
times of the decoders lie on both sides of each range that is accepted, and the
files of `IsoAttributes` before, in and after a change of the offset from UTC.
Five blocks are fewer than the places that can own one, so memory runs out and
is reused in every call; two values let an entry be consumed, moved or dropped
while another is alive, and a directory of two has a first and a last entry,
either of them NULL. Two handles are a caller and a rival. Entries and drive
are proved for any number of each.

Fairness. `CdioInit` assumes weak fairness of each thread's steps inside a
call: the scheduler keeps running it, C routines return, and nobody is obliged
to call or drop anything. A `std::sync::Mutex` promises no order among waiters;
`CallsReturn` holds without one because each thread makes at most `MaxCalls`
calls, so the mutex is finally free for whoever still waits. The readers assume
that a `read` that is executing keeps running (weak fairness of `ReadBlock` and
`ReadReturns`), and no fetch is obliged to fail. `FeatureWalk` assumes the same
of the call of `features`: its loop goes on, the command need not fail.

The check for deadlock is off in `feature_walk` and `feature_walk_panic`, whose
one call ends, and in `entries`, where both handles may be closed.

## Findings

* `udf.rs:52`, `udf.rs:62`: `udf_open` and `udf_close` run outside the lock that
  `cdio.rs:78` demands for "any routine that initializes or destroys `CdIo_t`".
  It rests on a fact about libcdio: `udf_open` first opens the path as a
  `CdIo_t`, and `udf_close` destroys it.
* `iso9660/entry.rs:250`: a read whose later block fails returns an error after
  `bytes_read` has moved past the blocks already copied. An `io::Read` that
  returns an error must have read no bytes; here a retry continues behind bytes
  that were never delivered. `udf/entry.rs:293` does the same.
* `mmc/read_toc.rs:165`: the length field is taken to exclude all four header
  bytes, but it counts the last two of them. `cd_text` returns two bytes that no
  answer wrote. The other two callers look only at the first descriptor.
* `mmc/get_config.rs:60`, `:66` and the parsers: lengths written by the device
  are used to slice and index without a check, so a malformed answer panics
  instead of being skipped as `get_config.rs:459` and `:468` do.

Noticed while modelling, and without a run of their own:

* `mmc/get_config.rs:544`: C2 pointers are read from bit 0 and CD-Text from bit 1
  of the CD Read feature; MMC-6, the crate's reference (`lib.rs:23`), has them the
  other way round. A drive with exactly one of them is reported to have the other.
  It is left out of `FeaturesOfTheDevice` (`BothOrNeither`).
* `mmc/get_event_status.rs:225`: the Time field of a device busy event is taken
  for milliseconds, where MMC-6 counts in units of 100 ms, so the crate's
  `Duration` is a hundredth of the time that is left. `BusyStatus` makes the
  `Duration` (seconds and nanoseconds) that `from_millis` makes, `TimeLeft` the one
  that the device means. `SaysWhatIsMeant` checks only that there is a time when
  the device gives one, not how long it is.
* `mmc/read_disc_info.rs:34`: an announced length of zero makes
  `is_disc_erasable` index past a truncated buffer (`Return("panic", ...)` in
  `TwoPhaseRead`), where `InvalidResponse` was made for such answers.
* `mmc/set_cd_speed.rs:56`: `Cav` is sent as 0 and `Clv` as 1. In the rotational
  control field of SET CD SPEED 00b is CLV and non-pure CAV, 01b is pure CAV.
  `MmcWire` compares the field with the number only.
* `iso9660/util.rs:44`: `local_offset_at` is given the local time as if it were
  UTC. For some hours around a change of daylight saving time the offset is that
  of the other side, and the instant is an hour off (`TimeSays` exempts exactly
  those hours). Where the local offset cannot be determined, as `time` refuses to
  on some systems in programs of several threads, the attribute is an error.
* `mmc/read_subchannel.rs:75`, `:113`: a catalogue number or ISRC that is not
  UTF-8 panics; `SubchannelUnderstood` states when.
* `drive.rs:136`: a drive that libcdio knows nothing about has flags without a
  name in this crate, and `capabilities` is an error for it.
* `udf/entry.rs`: a modification time of -1, one second before 1970, is libcdio's
  sign for an error and reported as one.
* `mmc/get_event_status.rs:79`: a device reports a media event once, and
  `is_tray_open` drops the one that it is given; a later `media_status` has none.

## Proofs

TLAPS checks every theorem for all values of the constants, from the named
assumptions: `None` is neither a thread, a handle, a reader nor a block; a block
of a file has at least one byte; each file's size is a position, and the sectors
of its extent fit an `lsn_t`; a table is announced by a length field of two bytes
and the first buffer is shorter than the largest length; the buffer for features
has its header of eight bytes, and an answer has bytes; the bounds of
`NativeHeap` are numbers; a sector, a word, an event word, a track, an hour of
the clock and a zone fit the fields and ranges that they are for
(`WireAssumption`, `EventWordsAssumption`, `TracksAssumption`, `HoursAssumption`,
`ZonesAssumption`).

* `CdioInit_proofs`. The inductive invariant is built in layers. `TypeOK` with
  `CallInv` (which call may be at which place) is inductive; `LockInv` (the lock
  is held exactly by a thread in a guarded place) gives `Exclusion`; `OnceInv`
  (who may be in the closure, and that everybody past the logger found the
  `Once` done, including a thread that drops a handle and never calls
  `init_logger` again) gives `LoggerFirstOfAll`; `HandInv` (where a call owns a
  pointer) together with `Accounted` is inductive and gives `Ownership`, on
  which `OnlyMmc` rests.
* `IsoReader_proofs`. `LoopInv` says that the bytes copied so far are those that
  follow `start` and that `bytes_read` is past the last of them.
  `SectorsOfTheFile` follows from the types and the loop's guard,
  `ReaderIsByteStream` from `LoopInv`: each round is a stutter of the abstract
  stream, and the step that returns is its `Read`. The lemmas on `BlockCopy`,
  here and in `UdfReader_proofs`: a position is its block's start plus its place
  in the block, and a round takes at least one byte, from one block, of the file.
* `UdfReader_proofs`. The same loop invariant, for the one reader whose call
  executes. That `FetchPosition` depends on `bytes_read` alone, and not on where
  the last call left `i_position`, is what `FetchedBytes` shows;
  `ReadersAreByteStreams` then splits each step into the reader that takes it,
  whose stream steps or stutters, and the others, whose streams see nothing.
* `Entries_proofs`. `Owned` is not inductive: it does not say that `Udf::entry`
  has a root while it runs, or which nodes of a list have been moved to the
  `Vec`. `IInv` adds, per phase of each call, which places are empty
  (`UdfPhases`, `IsoPhases`), the types, and `FieldsOfTheFile`, which needs the
  distinctness of owners. Each operation of `NativeHeap` (`Obtain`, `Release`,
  `Move`, `Use`) has a lemma that it keeps the heap's part, and each action one
  that it keeps the rest; a step of one side leaves the places of the other
  alone. `HandlesGoLast` follows because a closed handle's places are empty and
  every object has an owner.
* `MediaRemoval_proofs`. `IInv` has the types; what `mmc_run_cmd` left behind in
  a handle that has run its command (`Runs`); that each returned call says what
  became of its command (`Returned`); and the lock (`Lock`): while a state is
  agreed the device is in it and no call for the lock is under way, and of
  calls that are alone there is only one. What the device does by the bits of
  the five blocks is proved once (`DeviceFacts`).
* `TwoPhaseRead_proofs`. `Typing` ties the size of the buffer to the announced
  size at each place. `NeverTorn` rests on an invariant that says, for every byte
  of the buffer, which table it is from: after the first command the first
  one's, after the second the last one's as far as that table and the allocation
  length reach, else the first one's or nothing. A decoder's answer then lies in
  the part that the last table wrote, because it needs the last table's length.
  `WholeTable` adds that the size is the first table's (`Sized`), so that the
  buffer has room for every place that a decoder wants.
* `FeatureWalk_proofs`. `Typing` is inductive: the guard against a descriptor
  past the end keeps `i` inside. `DeviceFeatures` is about every well built
  answer: any number of descriptors, any of the features of `IsFeature` (but CD
  Read with exactly one of C2 pointers and CD-Text), and data beyond those that a
  parser reads. For each kind of feature a lemma says that what `Parse` makes of
  a descriptor of it is `ValueOf` it. `ReadInv` says that after `k` rounds the
  walk is at the end of the `k`-th descriptor and has the values of the first
  `k`; a round appends the next one, or none (`Filter` up to `k + 1`). No
  induction over the list is needed, since the walk is the induction.
* `Conversions_proofs`, the blocks. `Understood` is inductive, being about the
  last request alone. Each command has a lemma that its block is read back as the
  request; they rest on `Bytes` (the number of the bits that `Byte` writes) and
  its like for words and fields, so `BlocksUnderstood` holds for every sector,
  length, track and speed that its field can hold.
* `Conversions_proofs`, the answers. A decoder is correct only for the answer to
  its own call, so `CallInv` says that: before a call returns there is no result,
  before the answer nothing is meant, and what is decoded are bytes that say what
  is meant by a device that was asked for it. With it `SaysWhatIsMeant` and
  `AllUnderstood` are inductive (of a busy time they say only that there is one).
  Below it, one lemma for each decoder and
  conversion (`...Right`, `...Fine`) has both halves: a value is what was meant,
  and what the standard allows has a value.

The proofs of the conversions take the sets of answers, files and names from the
modules, as the run does; sectors, words, event words, tracks, hours and zones
are any that the assumptions allow. They showed that some CASE expressions had
guards which overlap, where TLC takes the first and TLA+ any; those are now IF,
or have guards that exclude each other, in the order of the code.

Only model-checked: liveness (`CallsReturn`, `ReadsReturn`, `CallReturns`),
which the prover does not handle. Every invariant and every safety property of
a step that a passing run checks is a theorem.

## Assumptions about libcdio and the devices

* `udf_open` and `udf_close` initialize and destroy a `CdIo_t`;
  `iso9660_open_ext` and `iso9660_close` do not.
* `iso9660_iso_seek_read` either fills one block or fails, and depends only on
  the sector number (`iso9660/entry.rs:247` says the same).
* `udf_read_block` reads the block at the handle's position and moves it;
  `udf_setpos` to an offset inside the file succeeds.
* The extents of a multi-extent ISO file follow each other.
* `mmc_run_cmd` writes at most the allocation length, from the start of the
  buffer, and leaves the rest of it alone.
* `udf_readdir` moves the entry that it is given on and returns it, or frees it
  and returns NULL; `udf_get_root`, `udf_opendir` and `udf_fopen` return entries
  of their own; `iso9660_ifs_readdir` returns a list of its own whose data are
  the caller's (`util.rs` says so); freed memory may be given out again.
* `mmc_run_cmd` forgets the sense data of the handle when a command reaches the
  driver and keeps that of a command that ends with CHECK CONDITION, which is its
  only way to return -1 with sense data; other failures may leave older data.
* The drive of `MediaRemoval` obeys MMC-6: START STOP UNIT with LoEj, the prevent
  bit, and a unit attention that takes the place of the next command.
* A `struct tm` of libcdio is in the computer's local time;
  `iso9660_name_translate_ext` writes at most the name and a terminating zero.
* Of an answer to READ TOC or READ DISC INFORMATION the first two bytes count
  the bytes after them; the field layouts of `MmcWire`, `EventStatus`,
  `SubChannel`, `InquiryData` and `Features` are those of MMC-6 and SPC-3.

## Not modelled

* The wording of errors, `tracing` output and `Debug` and `Display`
  implementations: no state depends on them. Which error a call ends in is part
  of the models.
* `log_handler` beyond being set: it forwards a message and keeps nothing.
* The names of the profile numbers in `get_config.rs`: a table from numbers to
  names, left as numbers.
* What SET CD SPEED and the power conditions of START STOP UNIT do to a drive:
  their blocks are checked, and nothing in the crate depends on their effect.
* A device that answers READ TOC with 65532 bytes or more, for which the
  allocation length wraps: the wrap is in the model, the properties exclude it.

## Plan

Done: the handles and the lock; the readers and their refinement; the two-step
reads; features; command blocks; every decoder; native entries; the drive with
several handles; the proofs above, one for every safety property of the runs.

Left, in this order:

1. `MediaRemoval` with `is_tray_open` and `media_status` in two handles, to show
   which events the one takes from the other.
2. `TwoPhaseRead` composed with a run of `run_command` that fails between the
   commands with stale sense data.
3. The answers of `EventStatus` and `SubChannel` for every byte, in place of the
   codes on both sides of each range, with the theorems to match.
