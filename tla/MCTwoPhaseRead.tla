-------------------------- MODULE MCTwoPhaseRead ---------------------------
(* TwoPhaseRead for TLC: a buffer that holds some of the tables, bytes of 6   *)
(* values so that a length has 36, and tables that end before, at and behind  *)
(* the descriptors, the buffer, and the largest allocation length.            *)
EXTENDS TwoPhaseRead

MCSizes  == {2, 4, 12, 15, 17, 19, 22, 34, 37}
MCTables == [id : {1}, size : MCSizes, valid : {TRUE}]
            \union [id : {2}, size : {2, 12, 15, 22}, valid : BOOLEAN]
=============================================================================
