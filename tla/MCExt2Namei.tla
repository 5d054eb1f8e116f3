----------------------------- MODULE MCExt2Namei -----------------------------
(* An instance of Ext2Namei: two groups of two inodes, the first reserved. *)
EXTENDS Ext2Namei, TLC

CONSTANTS p1, p2, a, b

MCSymmetry == Permutations(Procs) \cup Permutations(Names)
=============================================================================
