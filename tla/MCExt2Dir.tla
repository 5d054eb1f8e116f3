------------------------------ MODULE MCExt2Dir ------------------------------
(* An instance of Ext2Dir: chunks of 64 bytes, two to a page. *)
EXTENDS Ext2Dir

CONSTANT r1

\* Records of 20, 40 and 44 bytes; 40 are left in the first chunk.
MCName_len == "a" :> 12 @@ "b" :> 32 @@ "c" :> 36
=============================================================================
