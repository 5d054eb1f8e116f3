---------------------------- MODULE MCLunixChrdev ----------------------------
(* A small instance of LunixChrdev. *)
EXTENDS LunixChrdev

CONSTANTS r1, r2, f1

\* Two raw values: one formatted as "+0,5", one as "+25,123".
MCRaw == {5, 25123}
MCTextLen == [v \in MCRaw |-> IF v = 5 THEN 4 ELSE 7]

\* Two threads on one open file.
Shared == [r \in {r1, r2} |-> f1]
=============================================================================
