----------------------------- MODULE MCEntries -----------------------------
\* Five blocks hold a list of two, an entry of the one image that is looked up
\* and one of the other that is kept.
EXTENDS Entries, TLC

CONSTANTS b1, b2, b3, b4, b5, f1, f2

MCBlocks == {b1, b2, b3, b4, b5}
MCFiles  == {f1, f2}
Symmetry == Permutations(MCBlocks) \union Permutations(MCFiles)
=============================================================================
