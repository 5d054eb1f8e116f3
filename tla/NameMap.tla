------------------------------ MODULE NameMap ------------------------------
(***************************************************************************)
(* What a directory promises to the calls that change it: it is a map from *)
(* names to inode numbers, each call changes the names it was asked to     *)
(* change, and no other.                                                   *)
(***************************************************************************)
EXTENDS TLC

CONSTANTS
  Names,   \* names an entry can have
  Inodes   \* inode numbers an entry can point to

VARIABLE map

\* map without the name n
Without(n) == [m \in DOMAIN map \ {n} |-> map[m]]

Init == map = <<>>

\* A link to inode i under a name that is not taken.
Add(n, i) == n \notin DOMAIN map /\ map' = map @@ (n :> i)

\* A name goes.
Remove(n) == n \in DOMAIN map /\ map' = Without(n)

\* An inode moves from one name to another one, which may be taken.
Move(n, m) ==
  /\ n \in DOMAIN map /\ n # m
  /\ map' = (m :> map[n]) @@ Without(n)

Next ==
  \E n \in Names :
    \/ \E i \in Inodes : Add(n, i)
    \/ Remove(n)
    \/ \E m \in Names : Move(n, m)

Spec == Init /\ [][Next]_map
=============================================================================
