---------------------------- MODULE EntryFields ----------------------------
(***************************************************************************)
(* The methods of UdfEntry and IsoEntry that read a file's name, time,      *)
(* place and attributes from the structures of libcdio (udf/entry.rs,       *)
(* iso9660/entry.rs).  A string is the sequence of its characters, of which *)
(* one stands for bytes that are not UTF-8.                                 *)
(***************************************************************************)
EXTENDS Integers, Sequences

NotUtf8 == "?"
Null    == <<"NULL">>   \* a null pointer
Utf8(text) == \A k \in DOMAIN text : text[k] # NotUtf8

\* CStr::to_str and String::from_utf8
Str(text) == IF Utf8(text) THEN [status |-> "Ok", value |-> text] ELSE [status |-> "InvalidEntry"]

-----------------------------------------------------------------------------
\* UdfEntry::filename: the entry that stands for its directory has no name.
UdfFilename(name) ==
  CASE name = Null -> [status |-> "InvalidEntry"]
    [] name = <<>>   -> [status |-> "Ok", value |-> <<".">>]
    [] OTHER         -> Str(name)

\* modify_time: a time is what from_unix_timestamp can represent, or not.
ModifyTime(time) ==
  IF time \in {"-1", "beyond"} THEN [status |-> "InvalidEntry"] ELSE [status |-> "Ok", value |-> time]

\* is_dir, file_length, mode and link_count
UdfMetadata(dirent) ==
  [status |-> "Ok", value |-> [is_dir |-> dirent.b_dir, file_length |-> dirent.info_len,
                               mode |-> dirent.mode, link_count |-> dirent.link_count]]

-----------------------------------------------------------------------------
\* External: iso9660_name_translate_ext drops a version of 1, with the dot of a
\* name that has no extension, and makes upper case lower unless there is
\* Joliet; it ends what it wrote with a zero.
Lower(char) == IF char = "A" THEN "a" ELSE char

Translated(raw, joliet) ==
  LET ends(tail) == Len(raw) >= Len(tail) /\ SubSeq(raw, Len(raw) - Len(tail) + 1, Len(raw)) = tail
      kept == CASE ends(<<".", ";", "1">>) -> Len(raw) - 3
                [] ~ends(<<".", ";", "1">>) /\ ends(<<";", "1">>) -> Len(raw) - 2
                [] OTHER -> Len(raw)
      case(char) == CASE char = ";" -> "." [] char # ";" /\ joliet > 0 -> char [] OTHER -> Lower(char)
  IN  [k \in 1..kept |-> case(raw[k])]

\* Mutant: the buffer has no room for the zero.
NameBufferFull(raw) == Len(raw)

\* The buffer for the translated name.
NameBuffer(raw) == Len(raw) + 1

\* IsoEntry::filename, with the Joliet level of the image
IsoFilename(raw, joliet) ==
  LET translated == Translated(raw, joliet)
  IN  IF Len(raw) > 0 /\ Len(translated) + 1 > NameBuffer(raw) THEN [status |-> "Overflow"]
      ELSE Str(translated)

\* IsoEntry::filename_raw
FilenameRaw(raw) == Str(raw)

\* total_size, lsn and is_dir
IsoMetadata(stat) ==
  [status |-> "Ok", value |-> [total_size |-> stat.total_size, lsn |-> stat.lsn,
                               is_dir |-> stat.type_ = "_STAT_DIR"]]

-----------------------------------------------------------------------------
(***************************************************************************)
(* What a file is, and the structures that libcdio makes of it.             *)
(***************************************************************************)
EntryCalls == {"UdfEntry::filename", "modify_time", "UdfEntry", "IsoEntry::filename", "filename_raw", "IsoEntry"}

Stems == {<<"A">>, <<"a", "A">>, <<"A", ".", "a">>, <<"1">>, <<"A", ";">>, <<"A", NotUtf8>>}

EntryFiles(c) ==
  CASE c = "UdfEntry::filename" -> [name : Stems \union {<<>>, Null}]
    [] c = "modify_time"        -> [time : {"-1", "now", "beyond"}]
    [] c = "UdfEntry"           -> [b_dir : BOOLEAN, info_len : {0, 2049}, mode : {16749, 33060}, link_count : {1, 2}]
    [] c \in {"IsoEntry::filename", "filename_raw"} ->
         [stem : Stems, version : BOOLEAN, joliet : 0..3]
    [] c = "IsoEntry" -> [total_size : {0, 4097}, lsn : {0, 23}, dir : BOOLEAN]

\* External: on an image that is not Joliet a name without a dot gets one before
\* the version.
RawName(f) ==
  IF ~f.version THEN f.stem
  ELSE f.stem \o (IF f.joliet = 0 /\ "." \notin {f.stem[k] : k \in DOMAIN f.stem}
                  THEN <<".", ";", "1">> ELSE <<";", "1">>)

EntryResult(c, f) ==
  CASE c = "UdfEntry::filename" -> UdfFilename(f.name)
    [] c = "modify_time"        -> ModifyTime(f.time)
    [] c = "UdfEntry"           -> UdfMetadata(f)
    [] c = "IsoEntry::filename" -> IsoFilename(RawName(f), f.joliet)
    [] c = "filename_raw"       -> FilenameRaw(RawName(f))
    [] c = "IsoEntry" -> IsoMetadata([total_size |-> f.total_size, lsn |-> f.lsn,
                                      type_ |-> IF f.dir THEN "_STAT_DIR" ELSE "_STAT_FILE"])

-----------------------------------------------------------------------------
\* A name as a user knows it: without the version, in lower case unless there
\* is Joliet, and with a dot for a semicolon.
Shown(f) == [k \in DOMAIN f.stem |->
               CASE f.stem[k] = ";" -> "." [] f.joliet = 0 /\ f.stem[k] = "A" -> "a" [] OTHER -> f.stem[k]]

EntrySays(c, f, value) ==
  CASE c = "UdfEntry::filename" -> value = IF f.name = <<>> THEN <<".">> ELSE f.name
    [] c = "modify_time"        -> f.time = "now" /\ value = "now"
    [] c = "UdfEntry"           -> value = [is_dir |-> f.b_dir, file_length |-> f.info_len,
                                            mode |-> f.mode, link_count |-> f.link_count]
    [] c = "IsoEntry::filename" -> value = Shown(f)
    [] c = "filename_raw"       -> value = RawName(f)
    [] c = "IsoEntry"           -> value = [total_size |-> f.total_size, lsn |-> f.lsn, is_dir |-> f.dir]

\* Only a name that is missing or not UTF-8, and a time that is, is an error.
EntryUnderstood(c, f, status) ==
  CASE c = "UdfEntry::filename" -> (f.name # Null /\ Utf8(f.name)) = (status = "Ok")
    [] c = "modify_time"        -> (f.time = "now") = (status = "Ok")
    [] c \in {"IsoEntry::filename", "filename_raw"} -> status = IF Utf8(f.stem) THEN "Ok" ELSE "InvalidEntry"
    [] OTHER -> status = "Ok"
=============================================================================
