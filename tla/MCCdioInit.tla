----------------------------- MODULE MCCdioInit -----------------------------
(* CdioInit for TLC: threads and handles are model values. *)
EXTENDS CdioInit
=============================================================================
