---------------------------- MODULE MCExt2Balloc ----------------------------
(* An instance of Ext2Balloc: groups of a few blocks, the metadata first. *)
EXTENDS Ext2Balloc, TLC

CONSTANTS f1, f2

InFirst == [f \in Files |-> 0]
MCSymmetry == Permutations(Files)
=============================================================================
