--------------------------- MODULE IsoAttributes ---------------------------
(***************************************************************************)
(* What the methods of Iso and IsoEntry make of the structures that libcdio *)
(* fills: convert_tm_local (iso9660/util.rs), have_rock_ridge and           *)
(* rock_ridge (rock.rs), xa and mode2form2_size (xa.rs), joliet_level       *)
(* (iso9660.rs).  Time is counted in hours from the start of 2026; a time   *)
(* zone has one change of its offset from UTC.                              *)
(***************************************************************************)
EXTENDS Integers, Sequences, FiniteSets

CONSTANTS Hours,   \* bound: the instants of the files of an image
          Zones    \* bound: the time zones of the computer

ASSUME HoursAssumption == Hours \subseteq 24..8700
ASSUME ZonesAssumption == Zones \subseteq [change : Nat, before : -12..12, after : -12..12]

\* External: the offset of the zone at an instant.
OffsetAt(zone, instant) == IF instant < zone.change THEN zone.before ELSE zone.after

\* External: libcdio's `struct tm` of an instant, in the computer's local time.
Tm(zone, instant) ==
  LET local == instant + OffsetAt(zone, instant)
  IN  [year |-> 126, yday |-> local \div 24, hour |-> local % 24, min |-> 59, sec |-> 0]

\* External: one that is not a time, as a leap second or what a damaged image has.
OddTm(tm, odd) ==
  CASE odd = "none" -> tm [] odd = "sec" -> [tm EXCEPT !.sec = 60] [] odd = "yday" -> [tm EXCEPT !.yday = -1]

-----------------------------------------------------------------------------
\* Date::from_ordinal_date
LeapYear(y)   == y % 4 = 0 /\ (y % 100 # 0 \/ y % 400 = 0)
ValidDate(tm) == /\ tm.year + 1900 \in -9999..9999
                 /\ tm.yday + 1 \in 1..(IF LeapYear(tm.year + 1900) THEN 366 ELSE 365)

\* Time::from_hms
ValidTime(tm) == tm.hour \in 0..23 /\ tm.min \in 0..59 /\ tm.sec \in 0..59

\* Mutant: the day of the year is taken from 1.
ConvertTmLocalFromOne(tm, zone) ==
  IF ~(ValidDate(tm) /\ ValidTime(tm)) THEN [status |-> "InvalidEntry"]
  ELSE LET hours == 24 * (tm.yday - 1) + tm.hour
       IN  [status |-> "Ok", value |-> [local |-> hours, offset |-> OffsetAt(zone, hours), min |-> tm.min]]

\* convert_tm_local: the offset is looked up as if the local time were UTC.
ConvertTmLocal(tm, zone) ==
  IF ~(ValidDate(tm) /\ ValidTime(tm)) THEN [status |-> "InvalidEntry"]
  ELSE LET hours == 24 * tm.yday + tm.hour
       IN  [status |-> "Ok", value |-> [local |-> hours, offset |-> OffsetAt(zone, hours), min |-> tm.min]]

-----------------------------------------------------------------------------
\* convert_rock_timefield; iso9660_get_ltime and iso9660_get_dtime make a tm of
\* the half of the union that they read, which is garbage for the other one.
\* The error of the conversion is dropped.
RockTime(field, zone) ==
  LET tm   == IF field.b_longdate = field.long THEN OddTm(Tm(zone, field.instant), field.odd)
              ELSE [year |-> 0, yday |-> 400, hour |-> 99, min |-> 99, sec |-> 99]
      time == ConvertTmLocal(tm, zone)
  IN  IF field.b_used /\ time.status = "Ok" THEN time ELSE [status |-> "none"]

\* The link of a symlink: a null pointer, nothing, a path, or not UTF-8.
Symlinks == {"null", "empty", "path", "garbage"}

\* rock_ridge
RockRidge(rr, zone) ==
  IF rr.b3_rock # "yep" THEN [status |-> "none"]
  ELSE [status |-> "Ok",
        value |-> [create_time |-> RockTime(rr.create, zone), modify_time |-> RockTime(rr.modify, zone),
                   group_id |-> rr.st_gid, user_id |-> rr.st_uid,
                   hard_links |-> rr.st_nlinks, mode |-> rr.st_mode,
                   symlink_to |-> IF rr.psz_symlink = "path" THEN "path" ELSE "none"]]

\* External: iso9660_have_rr looks at `limit` files.
ScanForRockRidge(files, limit) ==
  IF \E k \in DOMAIN files : k <= limit /\ files[k] THEN "yep"
  ELSE IF Len(files) <= limit THEN "nope"
  ELSE "dunno"

\* have_rock_ridge; 0 stands for no limit, which becomes u64::MAX.
NoLimit == 0
Limits  == NoLimit..2
HaveRockRidge(files, limit) ==
  LET answer == ScanForRockRidge(files, IF limit = NoLimit THEN 1000 ELSE limit)
  IN  IF answer = "dunno" THEN [status |-> "SearchError"] ELSE [status |-> "Ok", value |-> answer = "yep"]

-----------------------------------------------------------------------------
\* u16::from_be of a field that a little-endian computer has read.
FromBe(n) == 256 * (n % 256) + n \div 256

\* xa
Xa(xa, total_size) ==
  IF ~xa.b_xa THEN [status |-> "none"]
  ELSE [status |-> "Ok",
        value |-> [file_attr |-> FromBe(xa.attributes), file_num |-> xa.filenum,
                   group_id |-> FromBe(xa.group_id), user_id |-> FromBe(xa.user_id), total_size |-> total_size]]

\* XaFileAttributes::Mode2Form2
Mode2Form2(file_attr) == (file_attr \div 4096) % 2 = 1

\* mode2form2_size: a file that is not in that form has none, which is -1.
Mode2Form2Size(value) ==
  IF Mode2Form2(value.file_attr) THEN ((value.total_size + 2047) \div 2048) * 2324 ELSE -1

\* joliet_level: JolietLevel is One, Two or Three.
JolietLevels == 1..3
JolietLevel(level) ==
  CASE level = 0              -> [status |-> "none"]
    [] level \in JolietLevels -> [status |-> "Ok", value |-> level]
    [] OTHER                  -> [status |-> "Panic"]

-----------------------------------------------------------------------------
(***************************************************************************)
(* What an image means, the structures that libcdio makes of it, and the    *)
(* method's value.                                                          *)
(***************************************************************************)
IsoCalls == {"timestamp", "rock_ridge", "have_rock_ridge", "xa", "joliet_level"}

RockFields(instants) ==
  [b_used : {TRUE}, b_longdate : BOOLEAN, instant : instants, odd : {"none", "sec"}] \union
  [b_used : {FALSE}, b_longdate : {FALSE}, instant : {24}, odd : {"none"}]

IsoImages(c) ==
  CASE c = "timestamp" -> [instant : Hours, zone : Zones, odd : {"none", "sec", "yday"}]
    [] c = "rock_ridge" ->
         [has : {"yep", "nope", "dunno"}, create : RockFields({48}), modify : RockFields({24, 72}),
          symlink : Symlinks, zone : {z \in Zones : z.before = z.after}]
    [] c = "have_rock_ridge" ->
         [files : UNION {[1..n -> BOOLEAN] : n \in 0..3}, limit : Limits]
    [] c = "xa" -> [b_xa : BOOLEAN, attributes : {2125, 4693, 34824}, group_id : {3000}, user_id : {1000},
                    filenum : {0, 7}, size : {0, 1, 2047, 2048, 2049, 4096}]
    [] c = "joliet_level" -> [level : 0..3]

\* External: the structures of libcdio.
BigEndian(n) == n \div 256 + 256 * (n % 256)

Rock(field) == [b_used |-> field.b_used, b_longdate |-> field.b_longdate, long |-> field.b_longdate,
                instant |-> field.instant, odd |-> field.odd]

IsoStructure(c, a) ==
  CASE c = "timestamp"  -> [tm |-> OddTm(Tm(a.zone, a.instant), a.odd), zone |-> a.zone]
    [] c = "rock_ridge" -> [rr |-> [b3_rock |-> a.has, create |-> Rock(a.create), modify |-> Rock(a.modify),
                                    st_gid |-> 1, st_uid |-> 2, st_nlinks |-> 3, st_mode |-> 4,
                                    psz_symlink |-> a.symlink], zone |-> a.zone]
    [] c = "xa" -> [xa |-> [b_xa |-> a.b_xa, attributes |-> BigEndian(a.attributes), filenum |-> a.filenum,
                            group_id |-> BigEndian(a.group_id), user_id |-> BigEndian(a.user_id)], size |-> a.size]
    [] OTHER -> a

IsoResult(c, d) ==
  CASE c = "timestamp"       -> ConvertTmLocal(d.tm, d.zone)
    [] c = "rock_ridge"      -> RockRidge(d.rr, d.zone)
    [] c = "have_rock_ridge" -> HaveRockRidge(d.files, d.limit)
    [] c = "xa"              -> Xa(d.xa, d.size)
    [] c = "joliet_level"    -> JolietLevel(d.level)

-----------------------------------------------------------------------------
\* The local time of an instant, and the instant itself unless the zone changes
\* its offset between the two.
TimeSays(value, instant, zone) ==
  /\ value.local = instant + OffsetAt(zone, instant)
  /\ \/ value.local - value.offset = instant
     \/ (instant < zone.change) # (value.local < zone.change)

RockTimeSays(time, field, zone) ==
  IF field.b_used /\ field.odd = "none"
  THEN time.status = "Ok" /\ TimeSays(time.value, field.instant, zone) ELSE time.status = "none"

\* The value says what the image means.
IsoSays(c, a, value) ==
  CASE c = "timestamp" -> a.odd = "none" /\ TimeSays(value, a.instant, a.zone)
    [] c = "rock_ridge" ->
         /\ a.has = "yep"
         /\ RockTimeSays(value.create_time, a.create, a.zone)
         /\ RockTimeSays(value.modify_time, a.modify, a.zone)
         /\ <<value.group_id, value.user_id, value.hard_links, value.mode>> = <<1, 2, 3, 4>>
         /\ (value.symlink_to = "path") = (a.symlink = "path")
    [] c = "have_rock_ridge" -> value = \E k \in DOMAIN a.files : a.files[k]
    [] c = "xa" ->
         /\ a.b_xa
         /\ <<value.file_attr, value.group_id, value.user_id, value.file_num>>
              = <<a.attributes, a.group_id, a.user_id, a.filenum>>
         /\ Mode2Form2Size(value) = IF a.attributes = 4693
                                    THEN 2324 * Cardinality({k \in 0..2 : 2048 * k < a.size}) ELSE -1
    [] c = "joliet_level" -> value = a.level

\* What has a value is given one: the scan of a whole image ends with an answer,
\* and there is no level that the crate does not know.
IsoUnderstood(c, a, status) ==
  CASE c = "timestamp"       -> a.odd = "none" => status = "Ok"
    [] c = "rock_ridge"      -> status = IF a.has = "yep" THEN "Ok" ELSE "none"
    [] c = "have_rock_ridge" -> a.limit = NoLimit \/ a.limit >= Len(a.files) => status = "Ok"
    [] c = "xa"              -> status = IF a.b_xa THEN "Ok" ELSE "none"
    [] c = "joliet_level"    -> status = IF a.level = 0 THEN "none" ELSE "Ok"
=============================================================================
