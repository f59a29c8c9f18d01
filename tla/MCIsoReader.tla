---------------------------- MODULE MCIsoReader ----------------------------
(* IsoReader for TLC: an empty file, one that fills its blocks, and one that *)
(* ends inside its third block, at different sectors of the image.           *)
EXTENDS IsoReader

MCEntries == {[lsn |-> 2, size |-> 0], [lsn |-> 1, size |-> 6], [lsn |-> 3, size |-> 8]}
MCOffsets == {-9, -8, -5, -1, 0, 1, 4, 7, 9}
=============================================================================
