---------------------------- MODULE MCUdfReader ----------------------------
(* UdfReader for TLC: two readers, over one file or two, of which one fills  *)
(* its blocks and one ends inside its second block.                          *)
EXTENDS UdfReader

MCEntries == {[id |-> "f", size |-> 3], [id |-> "g", size |-> 4]}
MCOffsets == {-5, -1, 0, 1, 3}
MCPositions == {0, BLOCK_SIZE}
=============================================================================
