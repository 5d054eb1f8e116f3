---------------------------- MODULE MCLunixAttach ----------------------------
(* An instance of LunixAttach: two helpers on one line and one on another. *)
EXTENDS LunixAttach, TLC

CONSTANTS p1, p2, p3, ttyS0, ttyS1

TwoLines == p1 :> ttyS0 @@ p2 :> ttyS0 @@ p3 :> ttyS1
=============================================================================
