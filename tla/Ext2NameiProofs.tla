-------------------------- MODULE Ext2NameiProofs --------------------------
(***************************************************************************)
(* Proofs about Ext2Namei and the inode allocator under it, for any number *)
(* of processes, groups, inodes and names: whatever the calls of namei.c   *)
(* do at the same time and wherever they fail, no two processes own the    *)
(* same new inode, link counts, entries and ".." agree, no inode is lost   *)
(* but by a directory removed with names in it that could not be read,     *)
(* and the counters of ialloc.c stand for its bitmaps.                     *)
(*                                                                         *)
(* The invariant IInv says what every call relies on between two of its    *)
(* steps: the inode it makes or takes apart is its own (Privacy, Owned),   *)
(* the ones it has locked are as it left them (MakingInv ... MoveDirs),    *)
(* and a link count differs from the links there are by what the calls     *)
(* under way still owe (Counts).  Each action has a lemma saying that it   *)
(* keeps IInv.  CInv adds what the counters of ialloc.c stand for.         *)
(***************************************************************************)
EXTENDS Ext2Namei, FiniteSetTheorems, TLAPS

(* Types *)

Alloc ==
  /\ bitmap \subseteq Inodes /\ dirs \subseteq bitmap
  /\ leaked \subseteq Inodes /\ live \subseteq Inodes
  /\ bg_free_inodes_count \in [Groups -> 0 .. U16 - 1]
  /\ bg_used_dirs_count \in [Groups -> 0 .. U16 - 1]
  /\ s_freeinodes_counter \in Int /\ s_dirs_counter \in Int
  /\ fs_error \in BOOLEAN

CurRec == [group : Groups, tries : 0 .. s_groups_count, bit : Bits, ino : Inodes, dir : BOOLEAN]
OpRec ==
  {o \in [call : Calls, dir : Inodes, name : Names \cup {NoName}, ino : Inodes,
          to : Inodes, victim : SUBSET Inodes] : o.call # "rename" => o.victim = {}}

Locals == pc \in [Procs -> Labels] /\ cur \in [Procs -> CurRec] /\ op \in [Procs -> OpRec]

Trees ==
  /\ nlink \in [Inodes -> Int]
  /\ DOMAIN ent \subseteq Inodes \X Names /\ IsFiniteSet(DOMAIN ent)
  /\ DOMAIN dotdot \subseteq Inodes
  /\ lock \in [Inodes -> Procs \cup {NoProc}]
  /\ opened \subseteq Inodes
  /\ vanished \in [Inodes -> Nat]

-----------------------------------------------------------------------------
(* Who does what *)

Taking == {"count", "desc", "insert"}
Allocating == {"new", "scan", "set", "got", "failed"} \cup Taking
Evicting == {"evict", "clear", "release", "uncount", "freed"}

\* The process makes the inode cur.ino, or takes it apart.
Mine(p) ==
  \/ pc[p] \in Taking \cup {"got", "evict", "clear"}
  \/ op[p].call = "mkdir" /\ pc[p] \in {"add", "undo"}
Owns(p, i) == Mine(p) /\ cur[p].ino = i
Private(i) == \E p \in Procs : Owns(p, i)

\* ... and it is not hashed.
Unhashed(p, i) == pc[p] \in Taking \cup {"clear"} /\ cur[p].ino = i

\* Calls that hold their locks, and are about op.dir.
Making(p) == op[p].call \in {"create", "mkdir"}
Linking(p) == op[p].call = "link"
Removing(p) == pc[p] = "dec"
Moving(p) == pc[p] \in {"drop", "delete", "reparent"}

\* A call that relies on inode i
Uses(p, i) ==
  \/ (Making(p) \/ Linking(p) \/ Removing(p) \/ Moving(p)) /\ op[p].dir = i
  \/ Moving(p) /\ op[p].to = i
  \/ (Linking(p) \/ Removing(p) \/ Moving(p)) /\ op[p].ino = i
  \/ Moving(p) /\ i \in op[p].victim

\* Which call is at which label.
Phases ==
  \A p \in Procs :
    /\ pc[p] = "idle" <=> op[p].call = "none"
    /\ pc[p] \in Allocating => Making(p)
    /\ pc[p] = "add" => op[p].call \in {"mkdir", "link"}
    /\ op[p].call = "link" => pc[p] = "add"
    /\ pc[p] = "undo" => op[p].call = "mkdir"
    /\ pc[p] = "dec" => op[p].call \in {"unlink", "rmdir"}
    /\ Moving(p) => op[p].call = "rename"
    /\ Making(p) => pc[p] \in Allocating \cup Evicting \cup {"add", "undo"}
    /\ pc[p] \in {"scan", "set"} => cur[p].tries < s_groups_count

-----------------------------------------------------------------------------
(* Inodes nobody can come to *)

\* No entry leads to i or is in it, nothing is below it, no file and no call has it.
Unused(i) ==
  /\ \A e \in DOMAIN ent : ent[e] # i /\ e[1] # i
  /\ \A d \in DOMAIN dotdot : d # i => dotdot[d] # i
  /\ i \notin opened
  /\ \A q \in Procs : ~Uses(q, i)

Single == \A p, q \in Procs : Mine(p) /\ Mine(q) /\ cur[p].ino = cur[q].ino => p = q

Privacy == \A p \in Procs : Mine(p) => Unused(cur[p].ino)

Marks(p) ==
  LET i == cur[p].ino
  IN  /\ i \in bitmap /\ i >= EXT2_FIRST_INO /\ i \notin leaked
      /\ i \in live <=> pc[p] \in {"got", "evict", "add", "undo"}
      /\ nlink[i] = IF pc[p] \in {"add", "undo"} THEN 2 ELSE 0
      /\ vanished[i] = 0
      /\ pc[p] = "add" => i \in DOMAIN dotdot
      /\ i \in DOMAIN dotdot => pc[p] \in {"add", "undo"} /\ dotdot[i] = op[p].dir
      /\ pc[p] \in {"add", "undo"} => op[p].ino = i
      /\ Making(p) /\ pc[p] \notin Evicting => (i \in dirs <=> op[p].call = "mkdir")

Owned == \A p \in Procs : Mine(p) => Marks(p)

Gone ==
  \A i \in Inodes \ live : Unused(i) /\ i \notin DOMAIN dotdot /\ nlink[i] = 0 /\ vanished[i] = 0

Sets ==
  /\ \A i \in Inodes : i < EXT2_FIRST_INO => i \in bitmap
  /\ EXT2_ROOT_INO \in live /\ EXT2_ROOT_INO \in dirs
  /\ \A i \in live : i >= EXT2_FIRST_INO \/ i = EXT2_ROOT_INO
  /\ \A i \in live : i \in bitmap /\ i \notin leaked
  /\ \A i \in bitmap : \/ i < EXT2_FIRST_INO \/ i \in leaked \/ i \in live
                       \/ \E p \in Procs : Unhashed(p, i)
  /\ leaked \subseteq bitmap

-----------------------------------------------------------------------------
(* What a call that is under way relies on *)

MakingInv ==
  \A p \in Procs : Making(p) =>
    /\ lock[op[p].dir] = p /\ op[p].dir \in DOMAIN dotdot
    /\ <<op[p].dir, op[p].name>> \notin DOMAIN ent
    /\ op[p].name \in Names
    /\ pc[p] \in Allocating => (cur[p].dir <=> op[p].call = "mkdir")

LinkingInv ==
  \A p \in Procs : Linking(p) =>
    /\ lock[op[p].dir] = p /\ op[p].dir \in DOMAIN dotdot
    /\ <<op[p].dir, op[p].name>> \notin DOMAIN ent
    /\ op[p].name \in Names
    /\ lock[op[p].ino] = p /\ op[p].ino \in live \ dirs
    /\ (\E e \in DOMAIN ent : ent[e] = op[p].ino) \/ vanished[op[p].ino] > 0

\* Directory i has no entry; there may be names in it, and directories below.
Detached(i) ==
  /\ i \in DOMAIN dotdot /\ i # EXT2_ROOT_INO
  /\ \A e \in DOMAIN ent : ent[e] # i

RemovingInv ==
  \A p \in Procs : Removing(p) =>
    /\ lock[op[p].dir] = p /\ op[p].dir \in DOMAIN dotdot
    /\ lock[op[p].ino] = p /\ op[p].ino \in live
    /\ op[p].ino \in dirs <=> op[p].call = "rmdir"
    /\ op[p].call = "rmdir" => Detached(op[p].ino) /\ dotdot[op[p].ino] = op[p].dir

MoveLocks ==
  \A p \in Procs : Moving(p) =>
    /\ lock[op[p].dir] = p /\ op[p].dir \in DOMAIN dotdot
    /\ lock[op[p].to] = p /\ op[p].to \in DOMAIN dotdot
    /\ op[p].ino \in live
    /\ op[p].ino \notin dirs => lock[op[p].ino] = p /\ pc[p] # "reparent"
    /\ pc[p] = "drop" => op[p].victim # {}

MoveVictims ==
  \A p \in Procs : Moving(p) =>
    \A v \in op[p].victim :
      /\ op[p].victim = {v} /\ v # op[p].ino /\ v # EXT2_ROOT_INO
      /\ v # op[p].dir /\ v # op[p].to
      /\ lock[v] = p /\ v \in live
      /\ v \in dirs <=> op[p].ino \in dirs
      /\ v \in dirs /\ pc[p] = "drop" => Detached(v) /\ dotdot[v] = op[p].to
      /\ pc[p] # "drop" => v \notin DOMAIN dotdot

MoveOld ==
  \A p \in Procs : pc[p] \in {"drop", "delete"} =>
    <<op[p].dir, op[p].name>> \in DOMAIN ent /\ ent[<<op[p].dir, op[p].name>>] = op[p].ino

MoveNew ==
  \A p \in Procs : Moving(p) =>
    \E e \in DOMAIN ent : /\ e[1] = op[p].to /\ ent[e] = op[p].ino
                          /\ pc[p] # "reparent" => e # <<op[p].dir, op[p].name>>

MoveDirs ==
  \A p \in Procs : Moving(p) /\ op[p].ino \in dirs =>
    /\ op[p].ino \in DOMAIN dotdot /\ dotdot[op[p].ino] = op[p].dir
    /\ op[p].ino # op[p].to /\ op[p].ino # EXT2_ROOT_INO
    /\ \A e \in DOMAIN ent : ent[e] = op[p].ino =>
         \/ e[1] = op[p].to
         \/ e = <<op[p].dir, op[p].name>> /\ pc[p] # "reparent"

-----------------------------------------------------------------------------
(* Entries and directories *)

\* The rename of p has made a second entry of i and not yet deleted the first,
\* or has moved directory i to d and not yet its "..".
Doubles(p, i) == pc[p] \in {"drop", "delete"} /\ op[p].ino = i
MovesTo(p, i, d) == Moving(p) /\ op[p].ino = i /\ op[p].to = d

Entries ==
  \A e \in DOMAIN ent :
    /\ ent[e] \in live /\ ent[e] # EXT2_ROOT_INO
    /\ e[1] \in DOMAIN dotdot
    /\ ent[e] \in dirs =>
         /\ ent[e] \in DOMAIN dotdot
         /\ dotdot[ent[e]] = e[1] \/ \E p \in Procs : MovesTo(p, ent[e], e[1])

OneEntry ==
  \A e, f \in DOMAIN ent :
    ent[e] = ent[f] /\ ent[e] \in dirs /\ e # f =>
      \E p \in Procs : Doubles(p, ent[e]) /\ <<op[p].dir, op[p].name>> \in {e, f}

\* Directory d is not where ".." says it is because of the call of p.
Loose(p, d) ==
  \/ op[p].call = "mkdir" /\ pc[p] \in {"add", "undo"} /\ cur[p].ino = d
  \/ Removing(p) /\ op[p].ino = d
  \/ pc[p] = "drop" /\ d \in op[p].victim
  \/ pc[p] = "reparent" /\ op[p].ino = d

Tree ==
  /\ EXT2_ROOT_INO \in DOMAIN dotdot /\ dotdot[EXT2_ROOT_INO] = EXT2_ROOT_INO
  /\ \A d \in DOMAIN dotdot :
       /\ d \in live /\ d \in dirs /\ dotdot[d] \in live /\ dotdot[d] \in dirs
       /\ d # EXT2_ROOT_INO => dotdot[d] # d

Rooted ==
  \A d \in DOMAIN dotdot \ {EXT2_ROOT_INO} :
    \/ \E e \in DOMAIN ent : e[1] = dotdot[d] /\ ent[e] = d
    \/ vanished[d] > 0
    \/ \E p \in Procs : Loose(p, d)

-----------------------------------------------------------------------------
(* Link counts *)

\* What the call of p still owes to the count of i: a link more than there is one
\* for, a link less (Doubles), or one for a ".." that is not there yet, or no longer.
Plus(p, i) ==
  \/ (Linking(p) \/ Removing(p)) /\ op[p].ino = i
  \/ pc[p] = "drop" /\ i \in op[p].victim
Dot(p, i) ==
  \/ /\ op[p].call = "mkdir" /\ op[p].dir = i /\ pc[p] # "add"
     /\ pc[p] = "undo" => cur[p].ino \notin DOMAIN dotdot
  \/ pc[p] \in {"delete", "reparent"} /\ op[p].ino \in dirs /\ op[p].to = i

One(b) == IF b THEN 1 ELSE 0
Owed(i) == One(\E p \in Procs : Plus(p, i)) - One(\E p \in Procs : Doubles(p, i))
             + One(\E p \in Procs : Dot(p, i))

Counts == \A i \in live : Private(i) \/ nlink[i] = LinksTo(i) + Owed(i)

\* The call of p has taken the last link of i and still refers to it.
Dropped(p, i) == pc[p] \in {"delete", "reparent"} /\ i \in op[p].victim

Kept ==
  \A i \in live :
    nlink[i] > 0 \/ i \in opened \/ Private(i) \/ \E p \in Procs : Dropped(p, i)

\* All but the counts
Shape ==
  /\ Alloc /\ Locals /\ Trees /\ ~fs_error
  /\ Phases /\ Single /\ Privacy /\ Owned /\ Gone /\ Sets
  /\ MakingInv /\ LinkingInv /\ RemovingInv /\ MoveLocks /\ MoveVictims /\ MoveOld /\ MoveNew /\ MoveDirs
  /\ Entries /\ OneEntry /\ Tree /\ Rooted

\* The inductive invariant
IInv == Shape /\ Counts /\ Kept

\* A bit of a group is an inode.
LEMMA InoRange == \A g \in Groups, b \in Bits : InoOf(g, b) \in Inodes
<1> SUFFICES ASSUME NEW g \in Groups, NEW b \in Bits PROVE InoOf(g,b) \in Inodes
  OBVIOUS
<1>1. (g + 1) * s_inodes_per_group <= s_groups_count * s_inodes_per_group
  BY IallocAssumption DEF Groups
<1>2. (g + 1) * s_inodes_per_group = g * s_inodes_per_group + s_inodes_per_group
  BY IallocAssumption DEF Groups
<1> QED BY <1>1, <1>2, IallocAssumption DEF Groups, Bits, Inodes, InoOf

\* Every inode is in a group.
LEMMA GroupRange == \A i \in Inodes : GroupOf(i) \in Groups
<1> SUFFICES ASSUME NEW i \in Inodes PROVE GroupOf(i) \in Groups
  OBVIOUS
<1>0. i \in Int /\ i >= 1 /\ i <= s_groups_count * s_inodes_per_group
  BY IallocAssumption DEF Inodes
<1>1. GroupOf(i) \in Int /\ s_inodes_per_group * GroupOf(i) <= i - 1 /\ i - 1 < s_inodes_per_group * (GroupOf(i) + 1)
  BY <1>0, IallocAssumption DEF GroupOf
<1>2. GroupOf(i) >= 0
  BY <1>0, <1>1, IallocAssumption
<1>3. GroupOf(i) < s_groups_count
  BY <1>0, <1>1, IallocAssumption
<1> QED BY <1>1, <1>2, <1>3, IallocAssumption DEF Groups

\* Adding to a 16-bit count leaves a 16-bit count.
LEMMA Add16Range == \A x, d \in Int : Add16(x, d) \in 0 .. U16 - 1
BY IallocAssumption DEF Add16

\* A group has no more inodes than s_inodes_per_group.
LEMMA InGroupSize == ASSUME NEW S \in SUBSET Inodes, NEW g \in Groups
  PROVE IsFiniteSet(InGroup(S,g)) /\ Cardinality(InGroup(S,g)) \in 0 .. s_inodes_per_group
<1> DEFINE lo == s_inodes_per_group * g + 1
           hi == s_inodes_per_group * g + s_inodes_per_group
<1>0. lo \in Int /\ hi \in Int /\ hi - lo + 1 = s_inodes_per_group /\ lo <= hi
  BY IallocAssumption DEF Groups
<1>1. ASSUME NEW i \in InGroup(S, g) PROVE i \in lo .. hi
  <2>0. i \in Int /\ i >= 1 /\ GroupOf(i) = g
    BY IallocAssumption DEF Inodes, InGroup
  <2>1. s_inodes_per_group * GroupOf(i) <= i - 1 /\ i - 1 < s_inodes_per_group * (GroupOf(i) + 1)
    BY <2>0, IallocAssumption DEF GroupOf
  <2> QED BY <2>0, <2>1, IallocAssumption DEF Groups
<1>2. IsFiniteSet(lo .. hi) /\ Cardinality(lo .. hi) = s_inodes_per_group
  <2> HIDE DEF lo, hi
  <2> QED BY <1>0, FS_Interval
<1>3. InGroup(S, g) \in SUBSET (lo .. hi)
  BY <1>1
<1> HIDE DEF lo, hi
<1>4. IsFiniteSet(InGroup(S,g)) /\ Cardinality(InGroup(S,g)) <= s_inodes_per_group
  BY <1>2, <1>3, FS_Subset
<1> QED BY <1>4, FS_CardinalityType, IallocAssumption

\* The root directory is an inode.
LEMMA RootIno == EXT2_ROOT_INO \in Inodes
BY IallocAssumption DEF Inodes

\* What a process remembers of its inode
LEMMA CurFields ==
  ASSUME NEW r \in CurRec
  PROVE  /\ r.group \in Groups /\ r.tries \in 0 .. s_groups_count /\ r.bit \in Bits
         /\ r.ino \in Inodes /\ r.dir \in BOOLEAN
BY DEF CurRec

\* What a process remembers of its call
LEMMA OpFields ==
  ASSUME NEW r \in OpRec
  PROVE  /\ r.call \in Calls /\ r.dir \in Inodes /\ r.ino \in Inodes /\ r.to \in Inodes
         /\ r.victim \subseteq Inodes /\ (r.call # "rename" => r.victim = {})
BY DEF OpRec

\* An idle process has a record like the others ...
LEMMA NoInodeType == NoInode \in CurRec
BY RootIno, IallocAssumption DEF NoInode, CurRec, Groups, Bits

\* ... the arguments of create, mkdir, link, unlink and rmdir make a call,
LEMMA CallType ==
  ASSUME NEW c \in Calls, NEW d \in Inodes, NEW i \in Inodes, NEW n \in Names \cup {NoName}
  PROVE  Call(c, d, n, i) \in OpRec
BY DEF Call, OpRec

\* ... so do those of rename,
LEMMA RenameType ==
  ASSUME NEW d \in Inodes, NEW i \in Inodes, NEW n \in Names,
         NEW t \in Inodes, NEW v \in SUBSET Inodes
  PROVE  [Call("rename", d, n, i) EXCEPT !.to = t, !.victim = v] \in OpRec
BY DEF Call, OpRec, Calls

\* ... and so does no call.
LEMMA NoOpType == NoOp \in OpRec
BY CallType, RootIno DEF NoOp, Calls

\* Each field of what a process remembers can be set by itself.
LEMMA CurIno == ASSUME NEW r \in CurRec, NEW i \in Inodes PROVE [r EXCEPT !.ino = i] \in CurRec
BY DEF CurRec
\* The kind of the new inode is set.
LEMMA CurDir == ASSUME NEW r \in CurRec, NEW b \in BOOLEAN PROVE [r EXCEPT !.dir = b] \in CurRec
BY DEF CurRec
\* The bit looked at is set.
LEMMA CurBit == ASSUME NEW r \in CurRec, NEW b \in Bits PROVE [r EXCEPT !.bit = b] \in CurRec
BY DEF CurRec
\* The group looked at is set, and the number of groups tried.
LEMMA CurGroup ==
  ASSUME NEW r \in CurRec, NEW g \in Groups, NEW t \in 0 .. s_groups_count, NEW b \in Bits
  PROVE [r EXCEPT !.group = g, !.tries = t, !.bit = b] \in CurRec
BY DEF CurRec
\* The inode of the call is set.
LEMMA OpIno == ASSUME NEW r \in OpRec, NEW i \in Inodes PROVE [r EXCEPT !.ino = i] \in OpRec
BY DEF OpRec

\* The other processes stay where they are.
Others(p) == \A q \in Procs \ {p} : pc'[q] = pc[q] /\ op'[q] = op[q] /\ cur'[q] = cur[q]

\* The steps of the allocator that give and take nothing
Quiet(p) ==
  /\ Others(p)
  /\ op'[p] = op[p] /\ cur'[p].ino = cur[p].ino /\ cur'[p].dir = cur[p].dir
  /\ \/ pc[p] \in {"new", "scan", "set"} /\ pc'[p] \in {"scan", "set", "failed"}
     \/ pc[p] \in {"count", "desc"} /\ pc'[p] \in {"desc", "insert"}
     \/ pc[p] \in {"release", "uncount"} /\ pc'[p] \in {"uncount", "freed"}
  /\ pc'[p] \in {"scan", "set"} => cur'[p].tries < s_groups_count
  /\ UNCHANGED <<bitmap, dirs, leaked, live, fs_error, nlink, ent, dotdot, lock, opened, vanished>>

\* Where inodes and processes come from
Ranges ==
  /\ \A q \in Procs : /\ op[q].dir \in Inodes /\ op[q].ino \in Inodes /\ op[q].to \in Inodes
                      /\ op[q].victim \subseteq Inodes /\ cur[q].ino \in Inodes /\ q # NoProc
  /\ live \subseteq Inodes /\ bitmap \subseteq Inodes /\ opened \subseteq Inodes
  /\ DOMAIN dotdot \subseteq Inodes

\* The inodes a process speaks of are inodes.
LEMMA RangesHold ==
  ASSUME Shape
  PROVE  Ranges
BY CurFields, OpFields, NameiAssumption DEF Shape, Ranges, Locals, Alloc, Trees

\* What the process that owns an inode knows of it
Owner(p) ==
  /\ Mine(p) /\ cur[p].ino \in Inodes
  /\ \A e \in DOMAIN ent : ent[e] # cur[p].ino /\ e[1] # cur[p].ino
  /\ \A d \in DOMAIN dotdot : d # cur[p].ino => dotdot[d] # cur[p].ino
  /\ cur[p].ino \notin opened
  /\ \A q \in Procs : ~Uses(q, cur[p].ino)
  /\ \A q \in Procs \ {p} : Mine(q) => cur[q].ino # cur[p].ino
  /\ cur[p].ino \in bitmap /\ cur[p].ino >= EXT2_FIRST_INO /\ cur[p].ino \notin leaked
  /\ cur[p].ino # EXT2_ROOT_INO
  /\ cur[p].ino \in live <=> pc[p] \in {"got", "evict", "add", "undo"}
  /\ nlink[cur[p].ino] = IF pc[p] \in {"add", "undo"} THEN 2 ELSE 0
  /\ vanished[cur[p].ino] = 0
  /\ pc[p] \notin {"add", "undo"} => cur[p].ino \notin DOMAIN dotdot

\* It follows from the invariant.
LEMMA OwnerKnows ==
  ASSUME Shape, NEW p \in Procs, Mine(p)
  PROVE  Owner(p)
<1>1. /\ Unused(cur[p].ino) /\ Owned /\ Single /\ Sets /\ cur[p].ino \in Inodes
  BY RangesHold DEF Shape, Privacy, Ranges
<1>2. EXT2_ROOT_INO < EXT2_FIRST_INO /\ EXT2_FIRST_INO \in Nat /\ EXT2_ROOT_INO \in Nat
  BY IallocAssumption
<1> QED
  BY <1>1, <1>2 DEF Owner, Unused, Owned, Marks, Single

\* No call changes the directory of entry e: if it leads to a directory it is the
\* only one that does, and where ".." leads to.
LEMMA SettledEntry ==
  ASSUME Shape, NEW e \in DOMAIN ent, lock[e[1]] = NoProc, ent[e] \in dirs
  PROVE  /\ ent[e] \in DOMAIN dotdot /\ dotdot[ent[e]] = e[1] /\ ent[e] # EXT2_ROOT_INO
         /\ \A f \in DOMAIN ent : ent[f] = ent[e] => f = e
         /\ \A q \in Procs : Moving(q) => op[q].ino # ent[e]
<1>1. \A q \in Procs : Moving(q) => op[q].ino # ent[e]
  <2>1. SUFFICES ASSUME NEW q \in Procs, Moving(q), op[q].ino = ent[e]
                 PROVE  FALSE
    OBVIOUS
  <2>2. e[1] = op[q].to \/ e = <<op[q].dir, op[q].name>>
    BY <2>1 DEF Shape, MoveDirs
  <2>3. lock[e[1]] = q
    BY <2>1, <2>2 DEF Shape, MoveLocks
  <2> QED
    BY <2>3, RangesHold DEF Ranges
<1> QED
  BY <1>1 DEF Shape, Entries, OneEntry, MovesTo, Doubles, Moving

-----------------------------------------------------------------------------
(* Links and who may have them *)

\* What leads to i
Ents(i) == {e \in DOMAIN ent : ent[e] = i}
Below(i) == {d \in DOMAIN dotdot : dotdot[d] = i}

\* The links to an inode are the entries that lead to it, the "." of a directory,
\* the ".." of those below it, and the names that went with their directory.
LEMMA LinksSum ==
  ASSUME Trees, NEW i
  PROVE  /\ IsFiniteSet(Ents(i)) /\ Cardinality(Ents(i)) \in Nat
         /\ IsFiniteSet(Below(i)) /\ Cardinality(Below(i)) \in Nat
         /\ LinksTo(i) = Cardinality(Ents(i)) + One(i \in DOMAIN dotdot) + Cardinality(Below(i)) + vanished[i]
<1>1. IsFiniteSet(Ents(i)) /\ Cardinality(Ents(i)) \in Nat
  BY FS_Subset, FS_CardinalityType DEF Trees, Ents
<1>2. IsFiniteSet(Inodes)
  BY FS_Interval, IallocAssumption DEF Inodes
<1>3. IsFiniteSet(Below(i)) /\ Cardinality(Below(i)) \in Nat
  BY <1>2, FS_Subset, FS_CardinalityType DEF Trees, Below
<1>4. Cardinality({i} \cap DOMAIN dotdot) = One(i \in DOMAIN dotdot)
  <2>1. CASE i \in DOMAIN dotdot
    <3>1. {i} \cap DOMAIN dotdot = {i}
      BY <2>1
    <3> QED
      BY <2>1, <3>1, FS_Singleton DEF One
  <2>2. CASE i \notin DOMAIN dotdot
    <3>1. {i} \cap DOMAIN dotdot = {}
      BY <2>2
    <3> QED
      BY <2>2, <3>1, FS_EmptySet DEF One
  <2> QED
    BY <2>1, <2>2
<1>5. LinksTo(i) = Cardinality(Ents(i)) + Cardinality({i} \cap DOMAIN dotdot) + Cardinality(Below(i))
                     + vanished[i]
  BY DEF LinksTo, Ents, Below
<1> QED
  BY <1>1, <1>3, <1>4, <1>5

\* The links to an inode are counted by a number, zero when nothing leads to it.
LEMMA LinksZero ==
  ASSUME Trees, NEW i \in Inodes
  PROVE  /\ LinksTo(i) \in Nat
         /\ LinksTo(i) = 0 <=> /\ \A e \in DOMAIN ent : ent[e] # i
                               /\ i \notin DOMAIN dotdot /\ vanished[i] = 0
                               /\ \A d \in DOMAIN dotdot : dotdot[d] # i
<1> DEFINE E == Cardinality(Ents(i))
           B == Cardinality(Below(i))
<1>1. /\ IsFiniteSet(Ents(i)) /\ IsFiniteSet(Below(i)) /\ E \in Nat /\ B \in Nat
      /\ LinksTo(i) = E + One(i \in DOMAIN dotdot) + B + vanished[i]
  BY LinksSum
<1>2. E = 0 <=> \A e \in DOMAIN ent : ent[e] # i
  <2>1. Ents(i) = {} <=> \A e \in DOMAIN ent : ent[e] # i
    BY DEF Ents
  <2> QED
    BY <1>1, <2>1, FS_EmptySet
<1>3. B = 0 <=> \A d \in DOMAIN dotdot : dotdot[d] # i
  <2>1. Below(i) = {} <=> \A d \in DOMAIN dotdot : dotdot[d] # i
    BY DEF Below
  <2> QED
    BY <1>1, <2>1, FS_EmptySet
<1>4. vanished[i] \in Nat
  BY DEF Trees
<1> HIDE DEF E, B
<1>5. /\ LinksTo(i) \in Nat
      /\ LinksTo(i) = 0 <=> E = 0 /\ i \notin DOMAIN dotdot /\ B = 0 /\ vanished[i] = 0
  BY <1>1, <1>4 DEF One
<1> QED
  BY <1>2, <1>3, <1>5

\* An inode with two entries has two links at least.
LEMMA LinksTwo ==
  ASSUME Trees, NEW i \in Inodes, NEW e \in DOMAIN ent, NEW f \in DOMAIN ent, e # f, ent[e] = i, ent[f] = i
  PROVE  LinksTo(i) >= 2
<1>1. Cardinality(Ents(i)) >= 2
  <2>0. e \in Ents(i) /\ IsFiniteSet(Ents(i))
    BY LinksSum DEF Ents
  <2>1. IsFiniteSet(Ents(i) \ {e}) /\ Cardinality(Ents(i) \ {e}) = Cardinality(Ents(i)) - 1
    BY <2>0, FS_RemoveElement
  <2>2. f \in Ents(i) \ {e}
    BY DEF Ents
  <2>3. Cardinality(Ents(i) \ {e}) # 0 /\ Cardinality(Ents(i) \ {e}) \in Nat
    BY <2>1, <2>2, FS_EmptySet, FS_CardinalityType
  <2> QED
    BY <2>1, <2>3, LinksSum
<1>2. vanished[i] \in Nat
  BY DEF Trees
<1> QED
  BY <1>1, <1>2, LinksSum DEF One

\* Nothing leads to i.
Linkless(i) ==
  /\ \A e \in DOMAIN ent : ent[e] # i
  /\ i \notin DOMAIN dotdot
  /\ \A d \in DOMAIN dotdot : dotdot[d] # i
  /\ vanished[i] = 0
  /\ \A q \in Procs : ~Doubles(q, i) /\ ~Dot(q, i)

\* When drop_nlink has taken a count to zero nothing leads to the inode, and no
\* call has a link of it to drop.
LEMMA LastLink ==
  ASSUME Shape, Counts, NEW i \in live, ~Private(i)
  PROVE  /\ nlink[i] \in Nat
         /\ nlink[i] = 0 => Linkless(i) /\ \A q \in Procs : ~Plus(q, i)
         /\ nlink[i] = 1 => (\A q \in Procs : ~Plus(q, i)) \/ Linkless(i)
<1>1. nlink[i] = LinksTo(i) + Owed(i) /\ Trees /\ i \in Inodes
  BY DEF Shape, Counts, Alloc
<1>2. LinksTo(i) \in Nat
  BY <1>1, LinksZero
<1>3. ASSUME NEW q \in Procs, Doubles(q, i)
      PROVE  LinksTo(i) >= 2
  <2>1. /\ <<op[q].dir, op[q].name>> \in DOMAIN ent /\ ent[<<op[q].dir, op[q].name>>] = i
    BY <1>3 DEF Shape, MoveOld, Doubles
  <2>2. \E e \in DOMAIN ent : ent[e] = i /\ e # <<op[q].dir, op[q].name>>
    BY <1>3 DEF Shape, MoveNew, Moving, Doubles
  <2> QED
    BY <1>1, <2>1, <2>2, LinksTwo
<1>4. CASE \E q \in Procs : Doubles(q, i)
  BY <1>1, <1>2, <1>3, <1>4 DEF Owed, One
<1>5. CASE \A q \in Procs : ~Doubles(q, i)
  <2>1. nlink[i] = LinksTo(i) + One(\E q \in Procs : Plus(q, i)) + One(\E q \in Procs : Dot(q, i))
    BY <1>1, <1>2, <1>5 DEF Owed, One
  <2>2. CASE nlink[i] = One(\E q \in Procs : Plus(q, i))
    <3>1. LinksTo(i) = 0 /\ \A q \in Procs : ~Dot(q, i)
      BY <1>2, <2>1, <2>2 DEF One
    <3>2. Linkless(i)
      BY <1>1, <1>5, <3>1, LinksZero DEF Linkless
    <3> QED
      BY <2>2, <3>2 DEF One
  <2>3. CASE nlink[i] # One(\E q \in Procs : Plus(q, i))
    BY <1>2, <2>1, <2>3 DEF One
  <2> QED
    BY <2>2, <2>3
<1> QED
  BY <1>4, <1>5

\* An inode a process has locked, and no entry leads to, is of no use to others.
LEMMA LockedApart ==
  ASSUME Shape, NEW p \in Procs, NEW i, lock[i] = p, \A e \in DOMAIN ent : ent[e] # i
  PROVE  \A q \in Procs \ {p} : ~Uses(q, i)
<1>1. SUFFICES ASSUME NEW q \in Procs \ {p}, Uses(q, i)
               PROVE  FALSE
  OBVIOUS
<1>2. CASE Making(q)
  <2>1. ~Linking(q) /\ ~Removing(q) /\ ~Moving(q)
    BY <1>2 DEF Shape, Phases, Making, Linking, Removing, Moving, Allocating, Evicting, Taking
  <2>2. op[q].dir = i
    BY <1>1, <2>1 DEF Uses
  <2> QED
    BY <1>2, <2>2 DEF Shape, MakingInv
<1>3. CASE Linking(q)
  <2>1. ~Removing(q) /\ ~Moving(q) /\ pc[q] = "add"
    BY <1>3 DEF Shape, Phases, Linking, Removing, Moving
  <2>2. op[q].dir = i \/ op[q].ino = i
    BY <1>1, <2>1 DEF Uses
  <2> QED
    BY <1>3, <2>1, <2>2 DEF Shape, LinkingInv
<1>4. CASE Removing(q)
  BY <1>1, <1>4 DEF Shape, RemovingInv, Making, Uses, Phases, Linking, Removing, Moving
<1>5. CASE Moving(q)
  <2>1. op[q].ino # i
    BY <1>5 DEF Shape, MoveNew
  <2> QED
    BY <1>1, <1>5, <2>1 DEF Shape, MoveLocks, MoveVictims, Making, Uses, Phases, Linking, Removing, Moving
<1> QED
  BY <1>1, <1>2, <1>3, <1>4, <1>5 DEF Uses

\* So is one without links that no call holds.
LEMMA ForgottenApart ==
  ASSUME Shape, NEW i, i \notin DOMAIN dotdot, ~Held(i)
  PROVE  \A q \in Procs : ~Uses(q, i)
<1>1. SUFFICES ASSUME NEW q \in Procs, Uses(q, i)
               PROVE  FALSE
  OBVIOUS
<1>2. CASE Making(q)
  <2>1. ~Linking(q) /\ ~Removing(q) /\ ~Moving(q)
    BY <1>2 DEF Shape, Phases, Making, Linking, Removing, Moving, Allocating, Evicting, Taking
  <2>2. op[q].dir = i
    BY <1>1, <2>1 DEF Uses
  <2> QED
    BY <1>2, <2>2 DEF Shape, MakingInv
<1>3. CASE Linking(q)
  <2>1. ~Removing(q) /\ ~Moving(q) /\ pc[q] = "add"
    BY <1>3 DEF Shape, Phases, Linking, Removing, Moving
  <2>2. op[q].dir = i \/ op[q].ino = i
    BY <1>1, <2>1 DEF Uses
  <2>3. CASE op[q].dir = i
    BY <1>3, <2>3 DEF Shape, LinkingInv
  <2>4. CASE op[q].ino = i
    BY <2>1, <2>4 DEF Held
  <2> QED
    BY <2>2, <2>3, <2>4
<1>4. CASE Removing(q)
  BY <1>1, <1>4 DEF Shape, RemovingInv, Making, Uses, Phases, Linking, Removing, Moving, Held
<1>5. CASE Moving(q)
  BY <1>1, <1>5 DEF Shape, MoveLocks, Making, Uses, Phases, Linking, Removing, Moving, Held
<1> QED
  BY <1>1, <1>2, <1>3, <1>4, <1>5 DEF Uses

\* An inode a call uses, that has an entry or is open belongs to nobody.
LEMMA NotPrivate ==
  ASSUME Shape, NEW i,
         (\E q \in Procs : Uses(q, i)) \/ (\E e \in DOMAIN ent : ent[e] = i) \/ i \in opened
         \/ i = EXT2_ROOT_INO \/ vanished[i] > 0
  PROVE  ~Private(i)
<1>1. SUFFICES ASSUME NEW p \in Procs, Owns(p, i)
               PROVE  FALSE
  BY DEF Private
<1>2. Owner(p) /\ cur[p].ino = i
  BY <1>1, OwnerKnows DEF Owns
<1> QED
  BY <1>2 DEF Owner

\* The last link of a directory that is being removed is its own ".": nothing is
\* below it, and it has not gone with another.
LEMMA LastDirectory ==
  ASSUME Shape, Counts, NEW p \in Procs, NEW i \in live, ~Private(i),
         Plus(p, i), Detached(i), nlink[i] = 2
  PROVE  vanished[i] = 0 /\ \A d \in DOMAIN dotdot : dotdot[d] # i
<1>1. /\ nlink[i] = LinksTo(i) + Owed(i) /\ Trees
      /\ i \in Inodes /\ i \in DOMAIN dotdot /\ \A e \in DOMAIN ent : ent[e] # i
  BY DEF Shape, Counts, Alloc, Detached
<1>2. \A q \in Procs : ~Doubles(q, i)
  BY <1>1 DEF Shape, MoveOld, Doubles
<1>3. Owed(i) >= 1 /\ Owed(i) \in Int
  BY <1>2 DEF Owed, One
<1> DEFINE E == Cardinality(Ents(i))
           B == Cardinality(Below(i))
<1>4. E \in Nat /\ B \in Nat /\ LinksTo(i) = E + 1 + B + vanished[i] /\ vanished[i] \in Nat
  BY <1>1, LinksSum DEF One, Trees
<1>5. vanished[i] = 0 /\ B = 0
  <2> HIDE DEF E, B
  <2> QED
    BY <1>1, <1>3, <1>4
<1>6. Below(i) = {}
  BY <1>1, <1>5, LinksSum, FS_EmptySet
<1> QED
  BY <1>5, <1>6 DEF Below

\* What a call that returns changes: its locks and its own record.
LEMMA ReturnEffect ==
  ASSUME Locals, NEW p \in Procs, Return(p)
  PROVE  /\ Locals' /\ Others(p) /\ pc'[p] = "idle" /\ op'[p].call = "none"
         /\ \A x \in Inodes : lock'[x] = IF lock[x] = p THEN NoProc ELSE lock[x]
<1>1. NoOp \in OpRec /\ NoInode \in CurRec /\ NoOp.call = "none"
  BY NoOpType, NoInodeType DEF NoOp, Call
<1> QED
  BY <1>1 DEF Return, Release, Goto, Locals, Others, Labels

\* What iput changes: the process goes to ext2_evict_inode when the inode has no
\* link and is not open, and is done otherwise.
LEMMA IputEffect ==
  ASSUME Locals, NEW p \in Procs, NEW i \in Inodes, NEW k, Iput(p, i, k)
  PROVE  /\ Locals' /\ Others(p)
         /\ \/ /\ pc'[p] = "evict" /\ cur'[p].ino = i /\ op'[p].ino = i
               /\ op'[p].call = op[p].call /\ k = 0 /\ i \notin opened
            \/ /\ pc'[p] = "idle" /\ op'[p].call = "none"
               /\ k # 0 \/ i \in opened
<1>1. NoOp \in OpRec /\ NoInode \in CurRec /\ NoOp.call = "none"
  BY NoOpType, NoInodeType DEF NoOp, Call
<1>2. CASE k = 0 /\ i \notin opened
  <2> DEFINE r == [cur[p] EXCEPT !.ino = i]
             o == [op[p] EXCEPT !.ino = i]
  <2>1. r \in CurRec /\ o \in OpRec
    BY CurIno, OpIno DEF Locals
  <2>2. r.ino = i /\ o.ino = i /\ o.call = op[p].call
    BY DEF Locals, CurRec, OpRec
  <2>3. cur' = [cur EXCEPT ![p] = r] /\ op' = [op EXCEPT ![p] = o] /\ pc' = [pc EXCEPT ![p] = "evict"]
    BY <1>2 DEF Iput, Goto
  <2> HIDE DEF r, o
  <2> QED
    BY <1>2, <2>1, <2>2, <2>3 DEF Locals, Others, Labels
<1>3. CASE ~(k = 0 /\ i \notin opened)
  BY <1>1, <1>3 DEF Iput, Goto, Locals, Others, Labels
<1> QED
  BY <1>2, <1>3

\* A rename ends by returning, or by deleting the victim of which it has
\* taken the last link.
LEMMA RenameEndEffect ==
  ASSUME Locals, NEW p \in Procs, RenameEnd(p)
  PROVE  /\ Locals' /\ Others(p)
         /\ \A x \in Inodes : lock'[x] = IF lock[x] = p THEN NoProc ELSE lock[x]
         /\ \/ \E v \in op[p].victim :
                 \/ /\ pc'[p] = "evict" /\ cur'[p].ino = v /\ op'[p].ino = v /\ op'[p].call = op[p].call
                    /\ nlink[v] = 0 /\ v \notin opened
                 \/ /\ pc'[p] = "idle" /\ op'[p].call = "none" /\ (nlink[v] # 0 \/ v \in opened)
            \/ pc'[p] = "idle" /\ op'[p].call = "none" /\ op[p].victim = {}
<1>1. ASSUME NEW v \in op[p].victim, Release(p), Iput(p, v, nlink[v])
      PROVE  /\ Locals' /\ Others(p)
             /\ \A x \in Inodes : lock'[x] = IF lock[x] = p THEN NoProc ELSE lock[x]
             /\ \/ /\ pc'[p] = "evict" /\ cur'[p].ino = v /\ op'[p].ino = v /\ op'[p].call = op[p].call
                   /\ nlink[v] = 0 /\ v \notin opened
                \/ /\ pc'[p] = "idle" /\ op'[p].call = "none" /\ (nlink[v] # 0 \/ v \in opened)
  <2>1. v \in Inodes
    BY OpFields DEF Locals
  <2>2. \A x \in Inodes : lock'[x] = IF lock[x] = p THEN NoProc ELSE lock[x]
    BY <1>1 DEF Release
  <2> DEFINE k == nlink[v]
  <2>3. Iput(p, v, k)
    BY <1>1
  <2> HIDE DEF k
  <2>4. /\ Locals' /\ Others(p)
        /\ \/ /\ pc'[p] = "evict" /\ cur'[p].ino = v /\ op'[p].ino = v
              /\ op'[p].call = op[p].call /\ k = 0 /\ v \notin opened
           \/ /\ pc'[p] = "idle" /\ op'[p].call = "none"
              /\ k # 0 \/ v \in opened
    BY <2>1, <2>3, IputEffect
  <2> QED
    BY <2>2, <2>4 DEF k
<1> QED
  BY <1>1, ReturnEffect DEF RenameEnd

\* A file nobody has locked has a name if it has a link, or has lost one.
LEMMA Named ==
  ASSUME Shape, Counts, NEW i \in live, ~Private(i), i \notin dirs, lock[i] = NoProc, nlink[i] > 0
  PROVE  (\E e \in DOMAIN ent : ent[e] = i) \/ vanished[i] > 0
<1>1. nlink[i] = LinksTo(i) + Owed(i) /\ Trees /\ i \in Inodes /\ vanished[i] \in Nat
  BY DEF Shape, Counts, Alloc, Trees
<1>2. LinksTo(i) \in Nat
  BY <1>1, LinksZero
<1>3. \A q \in Procs : ~Plus(q, i) /\ ~Dot(q, i)
  <2>1. SUFFICES ASSUME NEW q \in Procs, Plus(q, i) \/ Dot(q, i)
                 PROVE  FALSE
    OBVIOUS
  <2>2. i \notin DOMAIN dotdot /\ q # NoProc
    BY RangesHold DEF Shape, Tree, Ranges
  <2>3. CASE Plus(q, i)
    <3>1. CASE (Linking(q) \/ Removing(q)) /\ op[q].ino = i
      BY <2>2, <3>1 DEF Shape, LinkingInv, RemovingInv
    <3>2. CASE pc[q] = "drop" /\ i \in op[q].victim
      BY <2>2, <3>2 DEF Shape, MoveVictims, Moving
    <3> QED
      BY <2>3, <3>1, <3>2 DEF Plus
  <2>4. CASE Dot(q, i)
    BY <2>2, <2>4 DEF Shape, Dot, MakingInv, Making, MoveLocks, Moving
  <2> QED
    BY <2>1, <2>3, <2>4
<1>4. LinksTo(i) > 0
  BY <1>1, <1>2, <1>3 DEF Owed, One
<1>5. i \notin DOMAIN dotdot /\ \A d \in DOMAIN dotdot : dotdot[d] # i
  BY DEF Shape, Tree
<1> QED
  BY <1>1, <1>2, <1>4, <1>5, LinksZero

-----------------------------------------------------------------------------
(* How a step changes what is owed to a link count *)

\* Two calls owe nothing to the same count for the same reason: they would have
\* locked the same inode.
LEMMA OweApart ==
  ASSUME Shape
  PROVE  \A p, q \in Procs, i \in Inodes :
           \/ Plus(p, i) /\ Plus(q, i)
           \/ Doubles(p, i) /\ Doubles(q, i)
           \/ Dot(p, i) /\ Dot(q, i)
           => p = q
<1>1. SUFFICES ASSUME NEW p \in Procs, NEW q \in Procs, NEW i \in Inodes
               PROVE  /\ Plus(p, i) /\ Plus(q, i) => p = q
                      /\ Doubles(p, i) /\ Doubles(q, i) => p = q
                      /\ Dot(p, i) /\ Dot(q, i) => p = q
  OBVIOUS
<1>2. ASSUME NEW r \in Procs, Plus(r, i)
      PROVE  lock[i] = r
  <2>1. CASE (Linking(r) \/ Removing(r)) /\ op[r].ino = i
    BY <2>1 DEF Shape, LinkingInv, RemovingInv
  <2>2. CASE pc[r] = "drop" /\ i \in op[r].victim
    BY <2>2 DEF Shape, MoveVictims, Moving
  <2> QED
    BY <1>2, <2>1, <2>2 DEF Plus
<1>3. ASSUME NEW r \in Procs, Dot(r, i)
      PROVE  lock[i] = r
  <2>1. CASE op[r].call = "mkdir" /\ op[r].dir = i
    BY <2>1 DEF Shape, MakingInv, Making
  <2>2. CASE pc[r] \in {"delete", "reparent"} /\ op[r].to = i
    BY <2>2 DEF Shape, MoveLocks, Moving
  <2> QED
    BY <1>3, <2>1, <2>2 DEF Dot
<1>4. ASSUME Doubles(p, i), Doubles(q, i)
      PROVE  p = q
  <2>1. Moving(p) /\ Moving(q) /\ op[p].ino = i /\ op[q].ino = i
    BY <1>4 DEF Doubles, Moving
  <2>2. CASE i \in dirs
    BY <2>1, <2>2 DEF Shape, MoveDirs, MoveLocks
  <2>3. CASE i \notin dirs
    BY <2>1, <2>3 DEF Shape, MoveLocks
  <2> QED
    BY <2>2, <2>3
<1> QED
  BY <1>2, <1>3, <1>4

\* What the call of p owes to i, and what the others do
OwedBy(p, i) == One(Plus(p, i)) - One(Doubles(p, i)) + One(Dot(p, i))
Rest(p, i) ==
  One(\E q \in Procs \ {p} : Plus(q, i)) - One(\E q \in Procs \ {p} : Doubles(q, i))
    + One(\E q \in Procs \ {p} : Dot(q, i))

\* What the calls owe a count is what one of them owes and what the rest do.
LEMMA OwedSplit ==
  ASSUME Shape
  PROVE  \A p \in Procs, i \in Inodes : Owed(i) = OwedBy(p, i) + Rest(p, i)
<1>1. SUFFICES ASSUME NEW p \in Procs, NEW i \in Inodes
               PROVE  Owed(i) = OwedBy(p, i) + Rest(p, i)
  OBVIOUS
<1>2. One(\E q \in Procs : Plus(q, i)) = One(Plus(p, i)) + One(\E q \in Procs \ {p} : Plus(q, i))
  BY OweApart DEF One
<1>3. One(\E q \in Procs : Doubles(q, i)) = One(Doubles(p, i)) + One(\E q \in Procs \ {p} : Doubles(q, i))
  BY OweApart DEF One
<1>4. One(\E q \in Procs : Dot(q, i)) = One(Dot(p, i)) + One(\E q \in Procs \ {p} : Dot(q, i))
  BY OweApart DEF One
<1> QED
  BY <1>2, <1>3, <1>4 DEF Owed, OwedBy, Rest, One

\* So for every process and inode ...
LEMMA OwedSplits == Shape => \A p \in Procs, i \in Inodes : Owed(i) = OwedBy(p, i) + Rest(p, i)
BY OwedSplit

\* ... and after the step.
LEMMA OwedSplitNext == Shape' => \A p \in Procs, i \in Inodes : Owed(i)' = OwedBy(p, i)' + Rest(p, i)'
<1>1. (Shape => \A p \in Procs, i \in Inodes : Owed(i) = OwedBy(p, i) + Rest(p, i))'
  BY OwedSplits, PTL
<1> QED BY <1>1

\* The arguments that lead to i
Into(f, i) == {x \in DOMAIN f : f[x] = i}

\* Two functions that differ at x only
Elsewhere(f, g, x) ==
  \A y : y # x => (y \in DOMAIN f <=> y \in DOMAIN g) /\ (y \in DOMAIN f => g[y] = f[y])

\* x is one of them.
At1(f, x, i) == x \in DOMAIN f /\ f[x] = i

\* One argument of a function counts for one at most.
LEMMA IntoWithout ==
  ASSUME NEW f, NEW x, NEW i, IsFiniteSet(DOMAIN f)
  PROVE  /\ IsFiniteSet(Into(f, i) \ {x}) /\ Cardinality(Into(f, i) \ {x}) \in Nat
         /\ Cardinality(Into(f, i)) = Cardinality(Into(f, i) \ {x}) + One(At1(f, x, i))
<1>1. IsFiniteSet(Into(f, i)) /\ Cardinality(Into(f, i)) \in Nat
  BY FS_Subset, FS_CardinalityType DEF Into
<1>2. CASE At1(f, x, i)
  <2>1. x \in Into(f, i)
    BY <1>2 DEF Into, At1
  <2>2. /\ IsFiniteSet(Into(f, i) \ {x})
        /\ Cardinality(Into(f, i) \ {x}) = Cardinality(Into(f, i)) - 1
    BY <1>1, <2>1, FS_RemoveElement
  <2> QED
    BY <1>1, <1>2, <2>2, FS_CardinalityType DEF One
<1>3. CASE ~At1(f, x, i)
  <2>1. Into(f, i) \ {x} = Into(f, i)
    BY <1>3 DEF Into, At1
  <2> QED
    BY <1>1, <1>3, <2>1 DEF One
<1> QED
  BY <1>2, <1>3

\* Only the changed argument can change how many lead to i.
LEMMA IntoChanges ==
  ASSUME NEW f, NEW g, NEW x, NEW i, IsFiniteSet(DOMAIN f), IsFiniteSet(DOMAIN g), Elsewhere(f, g, x)
  PROVE  Cardinality(Into(g, i)) - One(At1(g, x, i)) = Cardinality(Into(f, i)) - One(At1(f, x, i))
<1>1. Into(f, i) \ {x} = Into(g, i) \ {x}
  BY DEF Into, Elsewhere
<1> DEFINE F == Cardinality(Into(f, i) \ {x})
           G == Cardinality(Into(g, i) \ {x})
<1>2. Cardinality(Into(f, i)) = F + One(At1(f, x, i)) /\ F \in Nat
  BY IntoWithout
<1>3. Cardinality(Into(g, i)) = G + One(At1(g, x, i)) /\ G \in Nat
  BY IntoWithout
<1>4. F = G
  BY <1>1
<1> HIDE DEF F, G
<1> QED
  BY <1>2, <1>3, <1>4 DEF One

\* LinksSum, for every inode
LEMMA LinksSums ==
  Trees => \A j \in Inodes :
    /\ IsFiniteSet(DOMAIN ent) /\ IsFiniteSet(DOMAIN dotdot)
    /\ Cardinality(Into(ent, j)) \in Nat /\ Cardinality(Into(dotdot, j)) \in Nat
    /\ LinksTo(j) = Cardinality(Into(ent, j)) + One(j \in DOMAIN dotdot) + Cardinality(Into(dotdot, j)) + vanished[j]
<1>1. IsFiniteSet(Inodes)
  BY FS_Interval, IallocAssumption DEF Inodes
<1>2. Trees => IsFiniteSet(DOMAIN ent) /\ IsFiniteSet(DOMAIN dotdot)
  BY <1>1, FS_Subset DEF Trees
<1> QED
  BY <1>2, LinksSum DEF Into, Ents, Below

\* ... and after the step.
LEMMA LinksSumsNext ==
  Trees' => \A j \in Inodes :
    /\ IsFiniteSet(DOMAIN ent') /\ IsFiniteSet(DOMAIN dotdot')
    /\ Cardinality(Into(ent', j)) \in Nat /\ Cardinality(Into(dotdot', j)) \in Nat
    /\ LinksTo(j)' = Cardinality(Into(ent', j)) + One(j \in DOMAIN dotdot') + Cardinality(Into(dotdot', j)) + vanished'[j]
<1>1. (Trees => \A j \in Inodes :
         /\ IsFiniteSet(DOMAIN ent) /\ IsFiniteSet(DOMAIN dotdot)
         /\ Cardinality(Into(ent, j)) \in Nat /\ Cardinality(Into(dotdot, j)) \in Nat
         /\ LinksTo(j) = Cardinality(Into(ent, j)) + One(j \in DOMAIN dotdot) + Cardinality(Into(dotdot, j)) + vanished[j])'
  BY LinksSums, PTL
<1> QED BY <1>1

\* The calls of the others owe what they owed.
SameRest(p, i) ==
  \A q \in Procs \ {p} : /\ Plus(q, i)' <=> Plus(q, i)
                         /\ Doubles(q, i)' <=> Doubles(q, i)
                         /\ Dot(q, i)' <=> Dot(q, i)

\* A step of one process changes nothing of what the others owe.
LEMMA OthersOwe ==
  ASSUME NEW p \in Procs, Others(p), NEW i,
         \A q \in Procs \ {p} : Moving(q) => (op[q].ino \in dirs' <=> op[q].ino \in dirs),
         \A q \in Procs \ {p} : op[q].call = "mkdir" /\ pc[q] = "undo" =>
             (cur[q].ino \in DOMAIN dotdot' <=> cur[q].ino \in DOMAIN dotdot)
  PROVE  SameRest(p, i)
<1>1. SUFFICES ASSUME NEW q \in Procs \ {p}
               PROVE  /\ Plus(q, i)' <=> Plus(q, i)
                      /\ Doubles(q, i)' <=> Doubles(q, i)
                      /\ Dot(q, i)' <=> Dot(q, i)
  BY DEF SameRest
<1>2. pc'[q] = pc[q] /\ op'[q] = op[q] /\ cur'[q] = cur[q]
  BY DEF Others
<1> QED
  BY <1>2 DEF Plus, Doubles, Dot, Linking, Removing, Moving

\* The link count of i less the links the step changes: the entry e, i's own ".",
\* and the ".." of d
Balance(nl, en, dd, e, d, i, owed) ==
  nl[i] - One(At1(en, e, i)) - One(i \in DOMAIN dd) - One(At1(dd, d, i)) - owed

\* The names there are of i and those that are gone, but for e
NamesBut(en, va, e, i) == (Cardinality(Into(en, i)) + va[i]) - One(At1(en, e, i))

\* A count is right after a step that sets right what was wrong by k before, when
\* the names but one are as many as before.
LEMMA CountsAfter ==
  ASSUME Shape, Shape', NEW p \in Procs, Others(p), NEW i \in Inodes, NEW e, NEW d, NEW k \in Int,
         nlink[i] = LinksTo(i) + Owed(i) + k,
         NamesBut(ent', vanished', e, i) = NamesBut(ent, vanished, e, i), Elsewhere(dotdot, dotdot', d),
         Balance(nlink', ent', dotdot', e, d, i, OwedBy(p, i)') = Balance(nlink, ent, dotdot, e, d, i, OwedBy(p, i)) - k,
         SameRest(p, i)
  PROVE  nlink'[i] = LinksTo(i)' + Owed(i)'
<1>1. /\ IsFiniteSet(DOMAIN ent) /\ IsFiniteSet(DOMAIN dotdot)
      /\ Cardinality(Into(ent, i)) \in Nat /\ Cardinality(Into(dotdot, i)) \in Nat
      /\ LinksTo(i) = Cardinality(Into(ent, i)) + One(i \in DOMAIN dotdot) + Cardinality(Into(dotdot, i)) + vanished[i]
  BY LinksSums DEF Shape
<1>2. /\ IsFiniteSet(DOMAIN ent') /\ IsFiniteSet(DOMAIN dotdot')
      /\ Cardinality(Into(ent', i)) \in Nat /\ Cardinality(Into(dotdot', i)) \in Nat
      /\ LinksTo(i)' = Cardinality(Into(ent', i)) + One(i \in DOMAIN dotdot') + Cardinality(Into(dotdot', i)) + vanished'[i]
  <2> QED
    BY LinksSumsNext DEF Shape
<1>3. Cardinality(Into(dotdot', i)) - One(At1(dotdot', d, i))
        = Cardinality(Into(dotdot, i)) - One(At1(dotdot, d, i))
  BY <1>1, <1>2, IntoChanges
<1>4. Owed(i) = OwedBy(p, i) + Rest(p, i) /\ Owed(i)' = OwedBy(p, i)' + Rest(p, i)'
  BY OwedSplits, OwedSplitNext
<1>5. Rest(p, i)' = Rest(p, i) /\ Rest(p, i) \in Int
  BY DEF Rest, One, SameRest
<1>6. /\ OwedBy(p, i) \in Int /\ OwedBy(p, i)' \in Int
      /\ nlink[i] \in Int /\ nlink'[i] \in Int /\ vanished[i] \in Nat /\ vanished'[i] \in Nat
  BY DEF OwedBy, One, Shape, Trees
<1>7. /\ One(At1(ent', e, i)) \in Int /\ One(i \in DOMAIN dotdot') \in Int /\ One(At1(dotdot', d, i)) \in Int
      /\ One(At1(ent, e, i)) \in Int /\ One(i \in DOMAIN dotdot) \in Int /\ One(At1(dotdot, d, i)) \in Int
  BY DEF One
<1>8. nlink'[i] - One(At1(ent', e, i)) - One(i \in DOMAIN dotdot') - One(At1(dotdot', d, i))
        - OwedBy(p, i)'
      = nlink[i] - One(At1(ent, e, i)) - One(i \in DOMAIN dotdot) - One(At1(dotdot, d, i))
        - OwedBy(p, i) - k
  BY DEF Balance
<1>9. (Cardinality(Into(ent', i)) + vanished'[i]) - One(At1(ent', e, i))
        = (Cardinality(Into(ent, i)) + vanished[i]) - One(At1(ent, e, i))
  BY DEF NamesBut
<1> DEFINE E == Cardinality(Into(ent, i)) + vanished[i]
           F == Cardinality(Into(ent', i)) + vanished'[i]
           D == Cardinality(Into(dotdot, i))
           G == Cardinality(Into(dotdot', i))
           ee == One(At1(ent', e, i))
           dd == One(At1(dotdot', d, i))
           ii == One(i \in DOMAIN dotdot')
           e0 == One(At1(ent, e, i))
           d0 == One(At1(dotdot, d, i))
           i0 == One(i \in DOMAIN dotdot)
           n0 == nlink[i]
           nn == nlink'[i]
           o0 == OwedBy(p, i)
           oo == OwedBy(p, i)'
           r  == Rest(p, i)
<1>10. E \in Nat /\ D \in Nat /\ F \in Nat /\ G \in Nat
  BY <1>1, <1>2, <1>6
<1>11. F - ee = E - e0 /\ G - dd = D - d0
  <2>1. F - ee = E - e0
    BY <1>9
  <2>2. G - dd = D - d0
    BY <1>3
  <2> QED
    BY <2>1, <2>2
<1>12. LinksTo(i) = E + i0 + D /\ LinksTo(i)' = F + ii + G
  BY <1>1, <1>2, <1>6, <1>7
<1>13. n0 = E + i0 + D + o0 + r + k
  BY <1>4, <1>6, <1>5, <1>7, <1>10, <1>12
<1>14. SUFFICES nn = F + ii + G + oo + r
  BY <1>4, <1>5, <1>6, <1>7, <1>10, <1>12
<1>15. nn - ee - ii - dd - oo = n0 - e0 - i0 - d0 - o0 - k
  BY <1>8
<1>16. /\ ee \in Int /\ dd \in Int /\ ii \in Int /\ e0 \in Int /\ d0 \in Int /\ i0 \in Int
       /\ n0 \in Int /\ nn \in Int /\ o0 \in Int /\ oo \in Int /\ r \in Int
  BY <1>5, <1>6, <1>7
<1> HIDE DEF E, D, F, G, ee, dd, ii, e0, d0, i0, n0, nn, o0, oo, r
<1> QED
  BY <1>10, <1>11, <1>13, <1>15, <1>16

\* So it is when only the entry e has changed.
LEMMA CountsFrom ==
  ASSUME Shape, Shape', NEW p \in Procs, Others(p), NEW i \in Inodes, NEW e, NEW d, NEW k \in Int,
         nlink[i] = LinksTo(i) + Owed(i) + k,
         Elsewhere(ent, ent', e), vanished' = vanished, Elsewhere(dotdot, dotdot', d),
         Balance(nlink', ent', dotdot', e, d, i, OwedBy(p, i)') = Balance(nlink, ent, dotdot, e, d, i, OwedBy(p, i)) - k,
         SameRest(p, i)
  PROVE  nlink'[i] = LinksTo(i)' + Owed(i)'
<1>1. /\ IsFiniteSet(DOMAIN ent) /\ IsFiniteSet(DOMAIN ent')
      /\ Cardinality(Into(ent, i)) \in Nat /\ Cardinality(Into(ent', i)) \in Nat
  BY LinksSums, LinksSumsNext DEF Shape
<1>2. Cardinality(Into(ent', i)) - One(At1(ent', e, i)) = Cardinality(Into(ent, i)) - One(At1(ent, e, i))
  BY <1>1, IntoChanges
<1> DEFINE E == Cardinality(Into(ent, i))
           F == Cardinality(Into(ent', i))
           e0 == One(At1(ent, e, i))
           e1 == One(At1(ent', e, i))
           v == vanished[i]
<1>3. E \in Nat /\ F \in Nat /\ e0 \in Int /\ e1 \in Int /\ v \in Int /\ F - e1 = E - e0
  BY <1>1, <1>2 DEF One, Shape, Trees
<1>4. (F + v) - e1 = (E + v) - e0
  <2> HIDE DEF E, F, e0, e1, v
  <2> QED BY <1>3
<1>5. NamesBut(ent', vanished', e, i) = NamesBut(ent, vanished, e, i)
  BY <1>4 DEF NamesBut
<1> HIDE DEF E, F, e0, e1, v
<1> QED
  BY <1>5, CountsAfter

\* A count stays right when it changes as the links and the debt of the
\* process that takes the step do.
LEMMA CountsStep ==
  ASSUME Shape, Shape', NEW p \in Procs, Others(p), NEW i \in Inodes, NEW e, NEW d,
         nlink[i] = LinksTo(i) + Owed(i),
         Elsewhere(ent, ent', e), vanished' = vanished, Elsewhere(dotdot, dotdot', d),
         Balance(nlink', ent', dotdot', e, d, i, OwedBy(p, i)') = Balance(nlink, ent, dotdot, e, d, i, OwedBy(p, i)),
         SameRest(p, i)
  PROVE  nlink'[i] = LinksTo(i)' + Owed(i)'
<1>1. LinksTo(i) + Owed(i) + 0 = LinksTo(i) + Owed(i)
  BY LinksZero DEF Owed, One, Shape
<1>2. Balance(nlink, ent, dotdot, e, d, i, OwedBy(p, i)) - 0 = Balance(nlink, ent, dotdot, e, d, i, OwedBy(p, i))
  BY DEF Balance, One, OwedBy, Shape, Trees
<1> QED
  BY <1>1, <1>2, CountsFrom

\* The names of a directory that goes are counted as gone.
LEMMA NamesBuried ==
  ASSUME Trees, NEW S, NEW i \in Inodes, Bury(S)
  PROVE  Cardinality(Into(ent', i)) + vanished'[i] = Cardinality(Into(ent, i)) + vanished[i]
<1> DEFINE I == {e \in DOMAIN ent : e[1] \in S /\ ent[e] = i}
<1>1. /\ DOMAIN ent' = {f \in DOMAIN ent : f[1] \notin S}
      /\ \A e \in DOMAIN ent' : ent'[e] = ent[e]
      /\ vanished'[i] = vanished[i] + Cardinality(I)
  BY DEF Bury
<1>2. IsFiniteSet(Into(ent, i)) /\ IsFiniteSet(I) /\ IsFiniteSet(Into(ent', i))
  <2>1. Into(ent, i) \subseteq DOMAIN ent /\ I \subseteq DOMAIN ent /\ Into(ent', i) \subseteq DOMAIN ent
    BY <1>1 DEF Into
  <2> QED
    BY <2>1, FS_Subset DEF Trees
<1>3. Into(ent, i) = Into(ent', i) \cup I /\ Into(ent', i) \cap I = {}
  BY <1>1 DEF Into
<1>4. Cardinality(Into(ent, i)) = Cardinality(Into(ent', i)) + Cardinality(I)
  <2> DEFINE A == Into(ent', i)
  <2>1. IsFiniteSet(A) /\ IsFiniteSet(I) /\ A \cap I = {} /\ Into(ent, i) = A \cup I
    BY <1>2, <1>3
  <2> HIDE DEF A, I
  <2>2. Cardinality(A \cup I) = Cardinality(A) + Cardinality(I) - Cardinality(A \cap I)
    BY <2>1, FS_Union
  <2>3. Cardinality(A \cap I) = 0 /\ Cardinality(A) \in Nat /\ Cardinality(I) \in Nat
    BY <2>1, FS_EmptySet, FS_CardinalityType
  <2>4. Cardinality(Into(ent, i)) = Cardinality(A) + Cardinality(I)
    BY <2>1, <2>2, <2>3
  <2> QED
    BY <2>4 DEF A
<1>5. /\ Cardinality(Into(ent', i)) \in Nat /\ Cardinality(I) \in Nat /\ vanished[i] \in Nat
  BY <1>2, FS_CardinalityType DEF Trees
<1> HIDE DEF I
<1> QED
  BY <1>1, <1>4, <1>5

\* No inode gets a name back, and one that loses an entry has lost a name.
Gained(i) ==
  /\ vanished'[i] >= vanished[i]
  /\ (\A e \in DOMAIN ent : ent[e] # i) => vanished'[i] = vanished[i]
  /\ \A e \in DOMAIN ent : ent[e] = i => e \in DOMAIN ent' \/ vanished'[i] > 0

\* That is how names go.
LEMMA Buried ==
  ASSUME Trees, NEW S, Bury(S)
  PROVE  vanished' \in [Inodes -> Nat] /\ \A i \in Inodes : Gained(i)
<1> DEFINE I(i) == {e \in DOMAIN ent : e[1] \in S /\ ent[e] = i}
<1>1. ASSUME NEW i \in Inodes
      PROVE  IsFiniteSet(I(i)) /\ Cardinality(I(i)) \in Nat /\ (Cardinality(I(i)) = 0 <=> I(i) = {})
  <2>1. I(i) \subseteq DOMAIN ent
    OBVIOUS
  <2>2. IsFiniteSet(I(i))
    BY <2>1, FS_Subset DEF Trees
  <2> HIDE DEF I
  <2> QED
    BY <2>2, FS_CardinalityType, FS_EmptySet
<1>2. vanished' = [i \in Inodes |-> vanished[i] + Cardinality(I(i))]
  BY DEF Bury
<1>3. vanished' \in [Inodes -> Nat]
  <2> HIDE DEF I
  <2> QED
    BY <1>1, <1>2 DEF Trees
<1>4. ASSUME NEW i \in Inodes
      PROVE  Gained(i)
  <2>1. \A e \in DOMAIN ent : ent[e] = i => e \in DOMAIN ent' \/ e \in I(i)
    BY DEF Bury
  <2>2. (\A e \in DOMAIN ent : ent[e] # i) => I(i) = {}
    OBVIOUS
  <2>3. vanished'[i] = vanished[i] + Cardinality(I(i)) /\ vanished[i] \in Nat
    BY <1>2 DEF Trees
  <2> HIDE DEF I
  <2> QED
    BY <1>1, <2>1, <2>2, <2>3 DEF Gained
<1> QED
  BY <1>3, <1>4

\* There is no inode 0.
LEMMA NoZero == (Trees => <<0, 0>> \notin DOMAIN ent) /\ (Trees' => <<0, 0>> \notin DOMAIN ent')
<1>1. <<0, 0>> \notin Inodes \X Names
  BY IallocAssumption DEF Inodes
<1> QED
  BY <1>1 DEF Trees

\* So the counts stay right when the directories S go.
LEMMA CountsBuried ==
  ASSUME Shape, Shape', NEW p \in Procs, Others(p), NEW i \in Inodes, NEW S, NEW d,
         nlink[i] = LinksTo(i) + Owed(i),
         Bury(S), Elsewhere(dotdot, dotdot', d),
         Balance(nlink', ent', dotdot', <<0, 0>>, d, i, OwedBy(p, i)')
           = Balance(nlink, ent, dotdot, <<0, 0>>, d, i, OwedBy(p, i)),
         SameRest(p, i)
  PROVE  nlink'[i] = LinksTo(i)' + Owed(i)'
<1>1. LinksTo(i) + Owed(i) + 0 = LinksTo(i) + Owed(i)
  BY LinksZero DEF Owed, One, Shape
<1>2. Balance(nlink, ent, dotdot, <<0, 0>>, d, i, OwedBy(p, i)) - 0
        = Balance(nlink, ent, dotdot, <<0, 0>>, d, i, OwedBy(p, i))
  BY DEF Balance, One, OwedBy, Shape, Trees
<1>3. One(At1(ent, <<0, 0>>, i)) = 0 /\ One(At1(ent', <<0, 0>>, i)) = 0
  BY NoZero DEF Shape, At1, One
<1>4. NamesBut(ent', vanished', <<0, 0>>, i) = NamesBut(ent, vanished, <<0, 0>>, i)
  <2>1. Cardinality(Into(ent', i)) + vanished'[i] = Cardinality(Into(ent, i)) + vanished[i]
    BY NamesBuried DEF Shape
  <2> DEFINE F == Cardinality(Into(ent', i)) + vanished'[i]
             E == Cardinality(Into(ent, i)) + vanished[i]
             e0 == One(At1(ent, <<0, 0>>, i))
             e1 == One(At1(ent', <<0, 0>>, i))
  <2>2. F = E /\ e0 = e1
    BY <1>3, <2>1
  <2>3. NamesBut(ent', vanished', <<0, 0>>, i) = F - e1
    BY DEF NamesBut
  <2>4. NamesBut(ent, vanished, <<0, 0>>, i) = E - e0
    BY DEF NamesBut
  <2> HIDE DEF E, F, e0, e1
  <2> QED
    BY <2>2, <2>3, <2>4
<1> QED
  BY <1>1, <1>2, <1>4, CountsAfter

\* Nothing leads to an inode of a process but its own ".".
LEMMA OwnerOwes ==
  ASSUME Shape, NEW p \in Procs, Owner(p), cur[p].ino \in DOMAIN dotdot => Making(p)
  PROVE  /\ Owed(cur[p].ino) = 0
         /\ LinksTo(cur[p].ino) = One(cur[p].ino \in DOMAIN dotdot)
         /\ \A q \in Procs : ~Plus(q, cur[p].ino) /\ ~Doubles(q, cur[p].ino) /\ ~Dot(q, cur[p].ino)
<1> DEFINE i == cur[p].ino
<1>1. \A q \in Procs : ~Plus(q, i) /\ ~Doubles(q, i) /\ ~Dot(q, i)
  BY DEF Owner, Uses, Plus, Doubles, Dot, Moving, Making
<1>2. Owed(i) = 0
  BY <1>1 DEF Owed, One
<1>3. \A d \in DOMAIN dotdot : dotdot[d] # i
  <2>1. SUFFICES ASSUME i \in DOMAIN dotdot PROVE dotdot[i] # i
    BY DEF Owner
  <2>2. dotdot[i] = op[p].dir
    BY <2>1 DEF Owner, Shape, Owned, Marks
  <2>3. Uses(p, op[p].dir)
    BY <2>1 DEF Uses
  <2> QED
    BY <2>2, <2>3 DEF Owner
<1>4. Cardinality(Ents(i)) = 0 /\ Cardinality(Below(i)) = 0
  <2>1. Ents(i) = {} /\ Below(i) = {}
    BY <1>3 DEF Owner, Ents, Below
  <2> QED
    BY <2>1, FS_EmptySet
<1>5. LinksTo(i) = One(i \in DOMAIN dotdot)
  BY <1>4, LinksSum DEF Shape, One, Owner
<1> QED
  BY <1>1, <1>2, <1>5

\* LastLink, for every inode
LEMMA LastLinks ==
  Shape /\ Counts => \A i \in live : ~Private(i) =>
    nlink[i] \in Nat /\ (nlink[i] = 0 => Linkless(i))
BY LastLink

\* ... and after the step.
LEMMA LastLinksNext ==
  Shape' /\ Counts' => \A i \in live' : ~Private(i)' =>
    nlink'[i] \in Nat /\ (nlink'[i] = 0 => Linkless(i)')
<1>1. (Shape /\ Counts => \A i \in live : ~Private(i) =>
         nlink[i] \in Nat /\ (nlink[i] = 0 => Linkless(i)))'
  BY LastLinks, PTL
<1> QED BY <1>1

-----------------------------------------------------------------------------
(* The steps of the allocator that take no inode and give none back *)

\* Looking at a group changes nothing but what the process looks at.
LEMMA LookAtKeeps ==
  ASSUME Locals, NEW p \in Procs, NEW g \in Groups, NEW t \in 0 .. s_groups_count,
         LookAt(p, g, t)
  PROVE  /\ cur' \in [Procs -> CurRec]
         /\ \A q \in Procs \ {p} : cur'[q] = cur[q]
         /\ cur'[p].ino = cur[p].ino /\ cur'[p].dir = cur[p].dir /\ cur'[p].tries = t
<1> DEFINE r == [cur[p] EXCEPT !.group = g, !.tries = t, !.bit = 0]
<1>1. 0 \in Bits
  BY IallocAssumption DEF Bits
<1>2. r \in CurRec
  <2>1. cur[p] \in CurRec
    BY DEF Locals
  <2> QED
    BY <1>1, <2>1 DEF CurRec
<1>3. r.ino = cur[p].ino /\ r.dir = cur[p].dir /\ r.tries = t
  BY DEF Locals, CurRec
<1>4. cur' = [cur EXCEPT ![p] = r]
  BY DEF LookAt
<1> HIDE DEF r
<1> QED
  BY <1>2, <1>3, <1>4 DEF Locals

\* The loop over the groups goes to a group, or fails.
LEMMA NextGroupKeeps ==
  ASSUME Locals, NEW p \in Procs, NextGroup(p), cur[p].tries < s_groups_count
  PROVE  /\ pc' \in [Procs -> Labels] /\ cur' \in [Procs -> CurRec]
         /\ \A q \in Procs \ {p} : pc'[q] = pc[q] /\ cur'[q] = cur[q]
         /\ cur'[p].ino = cur[p].ino /\ cur'[p].dir = cur[p].dir
         /\ pc'[p] \in {"scan", "failed"}
         /\ pc'[p] = "scan" => cur'[p].tries < s_groups_count
<1>1. cur[p].group \in Groups /\ cur[p].tries \in 0 .. s_groups_count
  BY CurFields DEF Locals
<1>2. (cur[p].group + 1) % s_groups_count \in Groups /\ cur[p].tries + 1 \in 0 .. s_groups_count
  BY <1>1, IallocAssumption DEF Groups
<1>3. LookAt(p, (cur[p].group + 1) % s_groups_count, cur[p].tries + 1)
  BY DEF NextGroup
<1>4. pc' = [pc EXCEPT ![p] = IF cur[p].tries + 1 < s_groups_count THEN "scan" ELSE "failed"]
  BY DEF NextGroup, Goto
<1>5. /\ cur' \in [Procs -> CurRec]
      /\ \A q \in Procs \ {p} : cur'[q] = cur[q]
      /\ cur'[p].ino = cur[p].ino /\ cur'[p].dir = cur[p].dir /\ cur'[p].tries = cur[p].tries + 1
  BY <1>2, <1>3, LookAtKeeps
<1> QED
  BY <1>4, <1>5 DEF Locals, Labels

\* The probes of find_group_other are groups.
LEMMA ProbeRange == \A s \in Nat, k \in Nat : Probe(s, k) \in Groups
<1> SUFFICES ASSUME NEW s \in Nat, NEW k \in Nat PROVE Probe(s, k) \in Groups
  OBVIOUS
<1>1. s + 2^k - 1 \in Int
  OBVIOUS
<1> DEFINE n == s + 2^k - 1
<1>2. n \in Int
  BY <1>1
<1> HIDE DEF n
<1>3. n % s_groups_count \in Groups
  BY <1>2, IallocAssumption DEF Groups
<1> QED
  BY <1>3 DEF Probe, n

\* find_group returns groups.
LEMMA find_groupRange == \A i \in Inodes : find_group(i) \subseteq Groups
<1> SUFFICES ASSUME NEW i \in Inodes PROVE find_group(i) \subseteq Groups
  OBVIOUS
<1>1. GroupOf(i) \in Groups
  BY GroupRange
<1> DEFINE pg    == GroupOf(i)
           start == (pg + i) % s_groups_count
<1>2. pg \in Nat /\ start \in Nat
  BY <1>1, IallocAssumption DEF Groups, Inodes
<1>3. \A k \in 1 .. s_groups_count : (pg + k) % s_groups_count \in Groups
  BY <1>2, IallocAssumption DEF Groups
<1>4. \A k \in Probes : Probe(start, k) \in Groups
  BY <1>2, ProbeRange DEF Probes
<1> HIDE DEF start
<1> QED
  BY <1>1, <1>3, <1>4 DEF find_group, Least, start

\* The search for a group takes nothing.
LEMMA FindGroupQuiet ==
  ASSUME Shape, NEW p \in Procs, FindGroup(p, op[p].dir), UNCHANGED nameVars
  PROVE  Quiet(p) /\ Locals' /\ Alloc'
<1>1. /\ pc[p] = "new" /\ UNCHANGED countVars
      /\ UNCHANGED <<bitmap, dirs, leaked, live, fs_error, nlink, ent, dotdot, lock, opened, op, vanished>>
  BY DEF FindGroup, diskVars, nameVars
<1>2. Alloc'
  BY <1>1 DEF Shape, Alloc, countVars
<1>3. CASE Goto(p, "failed") /\ UNCHANGED cur
  BY <1>1, <1>2, <1>3 DEF Goto, Quiet, Others, Shape, Locals, Labels
<1>4. ASSUME NEW g \in find_group(op[p].dir), Goto(p, "scan"), LookAt(p, g, 0)
      PROVE  Quiet(p) /\ Locals'
  <2>1. g \in Groups /\ 0 \in 0 .. s_groups_count /\ 0 < s_groups_count
    BY OpFields, find_groupRange, IallocAssumption DEF Shape, Locals
  <2>2. /\ cur' \in [Procs -> CurRec] /\ \A q \in Procs \ {p} : cur'[q] = cur[q]
        /\ cur'[p].ino = cur[p].ino /\ cur'[p].dir = cur[p].dir /\ cur'[p].tries = 0
    BY <1>4, <2>1, LookAtKeeps DEF Shape
  <2>3. pc' \in [Procs -> Labels] /\ pc'[p] = "scan" /\ \A q \in Procs \ {p} : pc'[q] = pc[q]
    BY <1>4 DEF Shape, Locals, Goto, Labels
  <2> QED
    BY <1>1, <2>1, <2>2, <2>3 DEF Quiet, Others, Shape, Locals
<1> QED
  BY <1>2, <1>3, <1>4 DEF FindGroup

\* Neither does the search for a zero bit.
LEMMA ScanQuiet ==
  ASSUME Shape, NEW p \in Procs, Scan(p), UNCHANGED nameVars
  PROVE  Quiet(p) /\ Locals' /\ Alloc'
<1>1. pc[p] = "scan" /\ cur[p].tries < s_groups_count
  BY DEF Scan, Shape, Phases
<1>2. /\ UNCHANGED countVars
      /\ UNCHANGED <<bitmap, dirs, leaked, live, fs_error, nlink, ent, dotdot, lock, opened, op, vanished>>
  BY DEF Scan, diskVars, nameVars
<1>3. Alloc'
  BY <1>2 DEF Shape, Alloc, countVars
<1>4. CASE NextGroup(p)
  <2>1. /\ pc' \in [Procs -> Labels] /\ cur' \in [Procs -> CurRec]
        /\ \A q \in Procs \ {p} : pc'[q] = pc[q] /\ cur'[q] = cur[q]
        /\ cur'[p].ino = cur[p].ino /\ cur'[p].dir = cur[p].dir
        /\ pc'[p] \in {"scan", "failed"}
        /\ pc'[p] = "scan" => cur'[p].tries < s_groups_count
    BY <1>1, <1>4, NextGroupKeeps DEF Shape
  <2>2. Locals'
    BY <1>2, <2>1 DEF Shape, Locals
  <2>3. Others(p) /\ op'[p] = op[p]
    BY <1>2, <2>1 DEF Others
  <2> QED
    BY <1>1, <1>2, <1>3, <2>1, <2>2, <2>3 DEF Quiet
<1>5. ASSUME NEW b \in Zeros(p), cur' = [cur EXCEPT ![p].bit = b], Goto(p, "set")
      PROVE  Quiet(p) /\ Locals'
  <2>1. [cur[p] EXCEPT !.bit = b] \in CurRec
    BY CurBit DEF Shape, Locals, Zeros
  <2>2. cur' \in [Procs -> CurRec] /\ \A q \in Procs \ {p} : cur'[q] = cur[q]
    BY <1>5, <2>1 DEF Shape, Locals
  <2>3. cur'[p].ino = cur[p].ino /\ cur'[p].dir = cur[p].dir /\ cur'[p].tries = cur[p].tries
    BY <1>5 DEF Shape, Locals, CurRec
  <2>4. pc' \in [Procs -> Labels] /\ pc'[p] = "set" /\ \A q \in Procs \ {p} : pc'[q] = pc[q]
    BY <1>5 DEF Shape, Locals, Goto, Labels
  <2> QED
    BY <1>1, <1>2, <2>2, <2>3, <2>4 DEF Quiet, Others, Shape, Locals
<1> QED
  BY <1>3, <1>4, <1>5 DEF Scan, Least

\* Somebody else has set the bit.
LEMMA RetryQuiet ==
  ASSUME Shape, NEW p \in Procs, SetBit(p), UNCHANGED nameVars,
         InoOf(cur[p].group, cur[p].bit) \in bitmap
  PROVE  Quiet(p) /\ Locals' /\ Alloc'
<1>1. pc[p] = "set" /\ cur[p].tries < s_groups_count
  BY DEF SetBit, Shape, Phases
<1>2. /\ UNCHANGED countVars
      /\ UNCHANGED <<bitmap, dirs, leaked, live, fs_error, nlink, ent, dotdot, lock, opened, op, vanished>>
  BY DEF SetBit, nameVars
<1>3. Alloc'
  BY <1>2 DEF Shape, Alloc, countVars
<1>4. CASE NextGroup(p)
  <2>1. /\ pc' \in [Procs -> Labels] /\ cur' \in [Procs -> CurRec]
        /\ \A q \in Procs \ {p} : pc'[q] = pc[q] /\ cur'[q] = cur[q]
        /\ cur'[p].ino = cur[p].ino /\ cur'[p].dir = cur[p].dir
        /\ pc'[p] \in {"scan", "failed"}
        /\ pc'[p] = "scan" => cur'[p].tries < s_groups_count
    BY <1>1, <1>4, NextGroupKeeps DEF Shape
  <2>2. Locals'
    BY <1>2, <2>1 DEF Shape, Locals
  <2>3. Others(p) /\ op'[p] = op[p]
    BY <1>2, <2>1 DEF Others
  <2> QED
    BY <1>1, <1>2, <1>3, <2>1, <2>2, <2>3 DEF Quiet
<1>5. CASE cur[p].bit + 1 \in Bits /\ cur' = [cur EXCEPT ![p].bit = @ + 1] /\ Goto(p, "scan")
  <2> DEFINE b == cur[p].bit + 1
  <2>0. b \in Bits /\ cur' = [cur EXCEPT ![p].bit = b]
    BY <1>5
  <2> HIDE DEF b
  <2>1. [cur[p] EXCEPT !.bit = b] \in CurRec
    BY <2>0, CurBit DEF Shape, Locals
  <2>2. cur' \in [Procs -> CurRec] /\ \A q \in Procs \ {p} : cur'[q] = cur[q]
    BY <2>0, <2>1 DEF Shape, Locals
  <2>3. cur'[p].ino = cur[p].ino /\ cur'[p].dir = cur[p].dir /\ cur'[p].tries = cur[p].tries
    BY <2>0 DEF Shape, Locals, CurRec
  <2>4. pc' \in [Procs -> Labels] /\ pc'[p] = "scan" /\ \A q \in Procs \ {p} : pc'[q] = pc[q]
    BY <1>5 DEF Shape, Locals, Goto, Labels
  <2>5. Locals'
    BY <1>2, <2>2, <2>4 DEF Shape, Locals
  <2>6. Others(p) /\ op'[p] = op[p]
    BY <1>2, <2>2, <2>4 DEF Others
  <2> QED
    BY <1>1, <1>2, <1>3, <2>3, <2>4, <2>5, <2>6 DEF Quiet
<1> QED
  BY <1>3, <1>4, <1>5 DEF SetBit

\* A counter keeps its type.
LEMMA Add16Type ==
  ASSUME NEW f \in [Groups -> 0 .. U16 - 1], NEW g, NEW d \in Int
  PROVE  [f EXCEPT ![g] = Add16(@, d)] \in [Groups -> 0 .. U16 - 1]
<1>1. \A x \in 0 .. U16 - 1 : Add16(x, d) \in 0 .. U16 - 1
  BY Add16Range, IallocAssumption
<1> QED
  BY <1>1

\* The steps that count, and the one that fails, move no inode.
LEMMA CountingQuiet ==
  ASSUME Shape, NEW p \in Procs, UNCHANGED nameVars,
         ScanFails(p) \/ CountNew(p) \/ DescNew(p) \/ ReleaseDesc(p) \/ ReleaseCounter(p)
  PROVE  Quiet(p) /\ Locals' /\ Alloc'
<1>1. /\ UNCHANGED <<bitmap, dirs, leaked, live, fs_error, nlink, ent, dotdot, lock, opened, op, cur, vanished>>
  BY DEF ScanFails, CountNew, DescNew, ReleaseDesc, ReleaseCounter, diskVars, nameVars
<1>2. \/ pc[p] = "scan" /\ Goto(p, "failed")
      \/ pc[p] = "count" /\ Goto(p, "desc")
      \/ pc[p] = "desc" /\ Goto(p, "insert")
      \/ pc[p] = "release" /\ Goto(p, "uncount")
      \/ pc[p] = "uncount" /\ Goto(p, "freed")
  BY DEF ScanFails, CountNew, DescNew, ReleaseDesc, ReleaseCounter
<1>3. /\ bg_free_inodes_count' \in [Groups -> 0 .. U16 - 1]
      /\ bg_used_dirs_count' \in [Groups -> 0 .. U16 - 1]
  <2>1. /\ bg_free_inodes_count \in [Groups -> 0 .. U16 - 1]
        /\ bg_used_dirs_count \in [Groups -> 0 .. U16 - 1]
    BY DEF Shape, Alloc
  <2>2. IsDir(cur[p].dir) \in Int /\ -IsDir(cur[p].dir) \in Int /\ 1 \in Int /\ -1 \in Int
    BY DEF IsDir
  <2>3. CASE DescNew(p)
    BY <2>1, <2>2, <2>3, Add16Type DEF DescNew
  <2>4. CASE ReleaseDesc(p)
    BY <2>1, <2>2, <2>4, Add16Type DEF ReleaseDesc
  <2> QED
    BY <2>1, <2>3, <2>4 DEF ScanFails, CountNew, ReleaseCounter, countVars
<1>4. s_freeinodes_counter' \in Int /\ s_dirs_counter' \in Int
  BY DEF ScanFails, CountNew, DescNew, ReleaseDesc, ReleaseCounter, IsDir, countVars, Shape, Alloc
<1>5. Alloc'
  BY <1>1, <1>3, <1>4 DEF Shape, Alloc
<1> QED
  BY <1>1, <1>2, <1>5 DEF Goto, Quiet, Others, Shape, Locals, Labels

\* A step that takes nothing and gives nothing back keeps the invariant.
LEMMA QuietKeeps ==
  ASSUME Shape, Counts, Kept, NEW p \in Procs, Quiet(p), Locals', Alloc'
  PROVE  Shape' /\ Counts' /\ Kept'
<1>1. Quiet(p) /\ ~fs_error' /\ Trees'
  BY DEF Quiet, Shape, Trees
<1>2. Phases'
  BY DEF Quiet, Others, Shape, Phases, Making, Moving, Allocating, Evicting, Taking
<1>3. \A q \in Procs : (Mine(q)' <=> Mine(q)) /\ cur'[q].ino = cur[q].ino /\ op'[q] = op[q]
  BY DEF Quiet, Others, Shape, Phases, Mine, Making, Allocating, Taking
<1>4. \A q \in Procs : /\ Making(q)' <=> Making(q)
                       /\ Linking(q)' <=> Linking(q)
                       /\ Removing(q)' <=> Removing(q)
                       /\ Moving(q)' <=> Moving(q)
  BY DEF Quiet, Others, Making, Linking, Removing, Moving
<1>5. Single' /\ Privacy'
  BY <1>3, <1>4 DEF Quiet, Shape, Single, Privacy, Unused, Uses
<1>6. Owned'
  BY <1>3, <1>4 DEF Quiet, Others, Shape, Owned, Marks, Phases, Making, Taking, Allocating, Evicting
<1>7. Gone'
  BY <1>3, <1>4 DEF Quiet, Shape, Gone, Unused, Uses
<1>8. Sets'
  BY DEF Quiet, Others, Shape, Sets, Unhashed, Taking
<1>9. MakingInv'
  BY <1>3, <1>4 DEF Quiet, Others, Shape, MakingInv, Allocating, Taking
<1>10. LinkingInv' /\ RemovingInv'
  BY <1>3, <1>4 DEF Quiet, Shape, LinkingInv, RemovingInv, Detached
<1>11. MoveLocks' /\ MoveVictims'
  BY <1>3, <1>4 DEF Quiet, Others, Shape, MoveLocks, MoveVictims, Detached
<1>12. MoveOld' /\ MoveNew' /\ MoveDirs'
  BY <1>3, <1>4 DEF Quiet, Others, Shape, MoveOld, MoveNew, MoveDirs
<1>13. Entries' /\ OneEntry' /\ Tree'
  BY <1>3, <1>4 DEF Quiet, Others, Shape, Entries, MovesTo, OneEntry, Doubles, Tree
<1>14. Rooted'
  BY <1>3, <1>4 DEF Quiet, Others, Shape, Rooted, Loose
<1>15. Shape'
  BY <1>1, <1>2, <1>5, <1>6, <1>7, <1>8, <1>9, <1>10, <1>11, <1>12, <1>13, <1>14 DEF Shape
<1>16. \A i : Private(i)' <=> Private(i)
  BY <1>3 DEF Private, Owns
<1>17. ASSUME NEW i
       PROVE  Owed(i)' = Owed(i)
  <2>1. \A q \in Procs : /\ Plus(q, i)' <=> Plus(q, i)
                         /\ Doubles(q, i)' <=> Doubles(q, i)
                         /\ Dot(q, i)' <=> Dot(q, i)
    BY <1>3, <1>4 DEF Quiet, Others, Plus, Doubles, Dot, Making
  <2> QED
    BY <2>1 DEF Owed
<1>18. \A i : LinksTo(i)' = LinksTo(i)
  BY DEF Quiet, LinksTo
<1>19. Counts'
  BY <1>16, <1>17, <1>18 DEF Quiet, Counts
<1>20. Kept'
  BY <1>3, <1>4, <1>16 DEF Quiet, Others, Kept, Dropped
<1> QED
  BY <1>15, <1>19, <1>20

-----------------------------------------------------------------------------
(* The other steps, one by one *)

\* A directory is among those above it.
LEMMA AboveSelf == ASSUME Shape PROVE \A d \in DOMAIN dotdot : d \in Above(d)
BY DEF Shape, Trees, Above

\* ext2_new_inode: the bit is set.
LEMMA TakeKeeps ==
  ASSUME Shape, Counts, Kept, NEW p \in Procs,
         SetBit(p), UNCHANGED nameVars,
         InoOf(cur[p].group, cur[p].bit) \notin bitmap
  PROVE  Shape' /\ Counts' /\ Kept'
<1>1. /\ Others(p) /\ op'[p] = op[p] /\ cur'[p].dir = cur[p].dir
      /\ pc[p] = "set" /\ pc'[p] = "count"
      /\ cur'[p].ino \in Inodes \ bitmap /\ bitmap' = bitmap \cup {cur'[p].ino}
      /\ \A x : x \in dirs' <=> x \in dirs \/ (x = cur'[p].ino /\ cur[p].dir)
      /\ UNCHANGED <<leaked, live, fs_error, nlink, ent, dotdot, lock, opened, vanished>>
  <2> DEFINE i == InoOf(cur[p].group, cur[p].bit)
             r == [cur[p] EXCEPT !.ino = i]
  <2>1. i \in Inodes
    BY CurFields, InoRange DEF Shape, Locals
  <2>2. r \in CurRec /\ r.ino = i /\ r.dir = cur[p].dir
    BY <2>1, CurIno DEF Shape, Locals, CurRec
  <2>3. /\ pc[p] = "set" /\ bitmap' = bitmap \cup {i} /\ i \notin bitmap
        /\ dirs' = IF cur[p].dir THEN dirs \cup {i} ELSE dirs
        /\ cur' = [cur EXCEPT ![p] = r] /\ Goto(p, "count")
        /\ UNCHANGED <<countVars, live, fs_error, leaked>>
    BY DEF SetBit
  <2> HIDE DEF i, r
  <2> QED
    BY <2>1, <2>2, <2>3 DEF Goto, Others, nameVars, Shape, Locals
<1>2. Ranges
  BY RangesHold
<1>3. /\ Unused(cur'[p].ino) /\ cur'[p].ino \notin DOMAIN dotdot /\ nlink[cur'[p].ino] = 0
      /\ vanished[cur'[p].ino] = 0 /\ cur'[p].ino \notin live /\ cur'[p].ino \notin dirs /\ cur'[p].ino \notin leaked
      /\ cur'[p].ino >= EXT2_FIRST_INO /\ cur'[p].ino # EXT2_ROOT_INO
  <2>1. cur'[p].ino \notin live /\ cur'[p].ino \notin leaked /\ cur'[p].ino \notin dirs
    BY <1>1 DEF Shape, Sets, Alloc
  <2>2. /\ Unused(cur'[p].ino) /\ cur'[p].ino \notin DOMAIN dotdot
        /\ nlink[cur'[p].ino] = 0 /\ vanished[cur'[p].ino] = 0
    BY <1>1, <2>1 DEF Shape, Gone
  <2>3. cur'[p].ino >= EXT2_FIRST_INO
    BY <1>1, IallocAssumption DEF Shape, Sets, Inodes
  <2> QED
    BY <2>1, <2>2, <2>3, IallocAssumption
<1>4. \A q \in Procs : Mine(q) => cur[q].ino # cur'[p].ino
  BY <1>1 DEF Shape, Owned, Marks
<1>5. Making(p) /\ (cur[p].dir <=> op[p].call = "mkdir")
  BY <1>1 DEF Shape, Phases, Allocating, MakingInv
<1>6. \A x \in live : x \in dirs' <=> x \in dirs
  BY <1>1, <1>3
<1>7. Alloc' /\ ~fs_error'
  BY <1>1 DEF SetBit, countVars, Shape, Alloc
<1>8. Locals'
  <2> DEFINE r == [cur[p] EXCEPT !.ino = InoOf(cur[p].group, cur[p].bit)]
  <2>1. r \in CurRec
    BY CurFields, CurIno, InoRange DEF Shape, Locals
  <2>2. cur' = [cur EXCEPT ![p] = r] /\ Goto(p, "count") /\ op' = op
    BY <1>1 DEF SetBit, nameVars
  <2> HIDE DEF r
  <2> QED
    BY <2>1, <2>2 DEF Goto, Shape, Locals, Labels
<1>9. Trees'
  BY <1>1 DEF Shape, Trees
<1>10. Phases'
  BY <1>1 DEF Others, Shape, Phases, Making, Moving, Allocating, Taking
<1>11. Single'
  BY <1>1, <1>2, <1>3, <1>4, <1>5, <1>6 DEF Others, Shape, Ranges, Single, Phases, Mine,
     Making, Taking
<1>12. Privacy'
  BY <1>1, <1>2, <1>3, <1>4, <1>5, <1>6 DEF Others, Shape, Ranges, Privacy, Phases, Unused,
     Uses, Mine, Making, Linking, Removing, Moving, Taking
<1>13. Owned'
  <2>1. ASSUME NEW q \in Procs \ {p}, Mine(q)'
        PROVE  Marks(q)'
    <3>1. Mine(q) /\ cur'[q] = cur[q] /\ pc'[q] = pc[q] /\ op'[q] = op[q]
      BY <1>1, <2>1 DEF Others, Mine
    <3>2. Marks(q) /\ cur[q].ino \in Inodes /\ Owns(q, cur[q].ino)
      BY <1>2, <3>1 DEF Shape, Owned, Ranges, Owns
    <3> QED
      BY <1>1, <3>1, <3>2 DEF Marks, Making
  <2>2. ASSUME Mine(p)'
        PROVE  Marks(p)'
    <3> QED
      BY <1>1, <1>3, <1>5 DEF Marks
  <2> QED
    BY <2>1, <2>2 DEF Owned
<1>14. Gone'
  BY <1>1 DEF Others, Shape, Gone, Unused, Uses, Making, Linking, Removing, Moving
<1>15. Sets'
  BY <1>1 DEF Others, Shape, Sets, Unhashed, Taking
<1>16. MakingInv'
  BY <1>1 DEF Others, Shape, MakingInv, Making, Allocating
<1>17. LinkingInv'
  BY <1>1, <1>3 DEF Others, Shape, LinkingInv, Linking
<1>18. RemovingInv'
  BY <1>1, <1>3 DEF Others, Shape, RemovingInv, Removing, Detached
<1>19. MoveLocks'
  BY <1>1 DEF Others, Shape, MoveLocks, Moving
<1>20. MoveVictims'
  BY <1>1, <1>6 DEF Others, Shape, MoveVictims, MoveLocks, Moving, Detached
<1>21. MoveOld'
  BY <1>1 DEF Others, Shape, MoveOld
<1>22. MoveNew'
  BY <1>1 DEF Others, Shape, MoveNew, Moving
<1>23. MoveDirs'
  BY <1>1, <1>6 DEF Others, Shape, MoveDirs, MoveLocks, Moving
<1>24. Entries'
  BY <1>1, <1>3 DEF Others, Shape, Entries, MovesTo, Moving
<1>25. OneEntry'
  BY <1>1, <1>6 DEF Others, Shape, OneEntry, Entries, Doubles
<1>26. Tree'
  BY <1>1 DEF Others, Shape, Tree
<1>27. Rooted'
  BY <1>1 DEF Others, Shape, Rooted, Loose, Removing
<1>28. Shape'
  BY <1>7, <1>8, <1>9, <1>10, <1>11, <1>12, <1>13, <1>14, <1>15, <1>16, <1>17, <1>18, <1>19,
     <1>20, <1>21, <1>22, <1>23, <1>24, <1>25, <1>26, <1>27 DEF Shape
<1>29. Counts'
  <2>1. SUFFICES ASSUME NEW x \in live', ~Private(x)'
                 PROVE  nlink'[x] = LinksTo(x)' + Owed(x)'
    BY DEF Counts
  <2>2. x \in Inodes /\ x \in live /\ ~Private(x) /\ nlink[x] = LinksTo(x) + Owed(x)
    BY <1>1, <1>2, <1>3, <1>4, <1>5, <1>6, <2>1 DEF Private, Owns, Mine, Taking, Others,
       Counts, Shape, Alloc, Owner
  <2>3. SameRest(p, x)
    BY <1>1, <1>6, OthersOwe DEF Others, Shape, MoveLocks
  <2>4. Elsewhere(ent, ent', <<0, 0>>) /\ Elsewhere(dotdot, dotdot', 0)
    BY <1>1 DEF Elsewhere
  <2>5. Balance(nlink', ent', dotdot', <<0, 0>>, 0, x, OwedBy(p, x)')
          = Balance(nlink, ent, dotdot, <<0, 0>>, 0, x, OwedBy(p, x))
    BY <1>1 DEF OwedBy, Plus, Doubles, Dot, Linking, Removing, Shape
  <2> QED
    BY <1>28, <1>1, <2>2, <2>3, <2>4, <2>5, CountsStep
<1>30. Kept'
  BY <1>1, <1>2, <1>3, <1>4, <1>5, <1>6 DEF Kept, Private, Owns, Mine, Taking, Dropped,
     Others, Shape, Owner
<1> QED
  BY <1>28, <1>29, <1>30

\* ext2_new_inode: the inode is hashed, or leaks because it cannot be.
LEMMA InsertKeeps ==
  ASSUME Shape, Counts, Kept, NEW p \in Procs,
         Insert(p), UNCHANGED nameVars
  PROVE  Shape' /\ Counts' /\ Kept'
<1>1. /\ Others(p) /\ op'[p] = op[p] /\ cur'[p] = cur[p]
      /\ pc[p] = "insert" /\ pc'[p] = "got"
      /\ live' = live \cup {cur[p].ino} /\ cur[p].ino \in Inodes
      /\ UNCHANGED <<bitmap, dirs, leaked, fs_error, nlink, ent, dotdot, lock, opened, vanished>>
  BY CurFields DEF Others, Shape, Ranges, Owner, Uses, Making, Linking, Removing, Moving,
     Locals, Alloc, Insert, Owned, Marks, Mine, Taking, diskVars, nameVars, Goto
<1>2. Ranges /\ Owner(p)
  BY RangesHold, OwnerKnows, <1>1 DEF Mine, Taking
<1>3. Alloc' /\ ~fs_error'
  BY <1>1 DEF Shape, Alloc, Insert, countVars
<1>4. Locals'
  BY DEF Insert, Goto, Shape, Locals, Labels, nameVars
<1>5. Trees'
  BY <1>1 DEF Insert, Shape, Trees
<1>6. Phases'
  BY <1>1 DEF Others, Shape, Making, Linking, Removing, Moving, Phases, Allocating, Taking
<1>7. Single'
  BY <1>1, <1>2 DEF Others, Shape, Ranges, Owner, Uses, Making, Linking, Removing, Moving,
     Single, Phases, Mine, Taking
<1>8. Privacy'
  BY <1>1, <1>2 DEF Others, Shape, Ranges, Owner, Uses, Making, Linking, Removing, Moving,
     Privacy, Phases, Unused, Mine, Taking
<1>9. Owned'
  BY <1>1, <1>2 DEF Others, Shape, Ranges, Owner, Uses, Making, Linking, Removing, Moving,
     Owned, Marks, Phases, Mine, Taking, Evicting
<1>10. Gone'
  BY <1>1 DEF Others, Shape, Owner, Uses, Making, Linking, Removing, Moving, Gone, Unused
<1>11. Sets'
  BY <1>1, <1>2 DEF Others, Shape, Owner, Uses, Sets, Unhashed
<1>12. MakingInv'
  <2>1. SUFFICES ASSUME NEW q \in Procs, Making(q)'
                 PROVE  /\ lock'[op'[q].dir] = q /\ op'[q].dir \in DOMAIN dotdot'
                        /\ <<op'[q].dir, op'[q].name>> \notin DOMAIN ent'
                        /\ op'[q].name \in Names
                        /\ pc'[q] \in Allocating => (cur'[q].dir <=> op'[q].call = "mkdir")
    BY DEF MakingInv
  <2>2. Making(q)
    BY <1>1, <2>1 DEF Others, Making
  <2>3. /\ lock[op[q].dir] = q /\ op[q].dir \in DOMAIN dotdot
        /\ <<op[q].dir, op[q].name>> \notin DOMAIN ent
        /\ op[q].name \in Names /\ op[q].dir \in Inodes
        /\ pc[q] \in Allocating => (cur[q].dir <=> op[q].call = "mkdir")
    BY <1>2, <2>2 DEF Shape, MakingInv, Ranges
  <2>4. CASE q # p
    BY <1>1, <2>3, <2>4 DEF Others
  <2>5. CASE q = p
    BY <1>1, <2>3, <2>5 DEF Allocating, Taking
  <2> QED
    BY <2>4, <2>5
<1>13. LinkingInv'
  BY <1>1 DEF Others, Shape, Making, Linking, Removing, Moving, LinkingInv
<1>14. RemovingInv'
  BY <1>1 DEF Others, Shape, Making, Linking, Removing, Moving, RemovingInv, Detached
<1>15. MoveLocks'
  BY <1>1 DEF Others, Shape, Making, Linking, Removing, Moving, MoveLocks
<1>16. MoveVictims'
  BY <1>1 DEF Others, Shape, Making, Linking, Removing, Moving, MoveVictims, Detached
<1>17. MoveOld'
  BY <1>1 DEF Others, Shape, MoveOld
<1>18. MoveNew'
  BY <1>1 DEF Others, Shape, Making, Linking, Removing, Moving, MoveNew
<1>19. MoveDirs'
  BY <1>1 DEF Others, Shape, Making, Linking, Removing, Moving, MoveDirs
<1>20. Entries'
  BY <1>1 DEF Others, Shape, Making, Linking, Removing, Moving, Entries, MovesTo
<1>21. OneEntry'
  BY <1>1 DEF Others, Shape, OneEntry, Doubles
<1>22. Tree'
  BY <1>1 DEF Others, Shape, Tree
<1>23. Rooted'
  BY <1>1 DEF Others, Shape, Making, Linking, Removing, Moving, Rooted, Loose
<1>24. Shape'
  BY <1>3, <1>4, <1>5, <1>6, <1>7, <1>8, <1>9, <1>10, <1>11, <1>12, <1>13, <1>14, <1>15,
     <1>16, <1>17, <1>18, <1>19, <1>20, <1>21, <1>22, <1>23 DEF Shape
<1>25. Counts'
  <2>1. SUFFICES ASSUME NEW x \in live', ~Private(x)'
                 PROVE  nlink'[x] = LinksTo(x)' + Owed(x)'
    BY DEF Counts
  <2>2. x \in Inodes /\ x \in live /\ ~Private(x) /\ nlink[x] = LinksTo(x) + Owed(x)
    BY <1>1, <1>2, <2>1 DEF Private, Owns, Mine, Taking, Others, Counts, Shape, Alloc, Owner
  <2>3. SameRest(p, x)
    BY <1>1, OthersOwe DEF Others
  <2>4. Elsewhere(ent, ent', <<0, 0>>) /\ Elsewhere(dotdot, dotdot', 0)
    BY <1>1 DEF Elsewhere
  <2>5. Balance(nlink', ent', dotdot', <<0, 0>>, 0, x, OwedBy(p, x)')
          = Balance(nlink, ent, dotdot, <<0, 0>>, 0, x, OwedBy(p, x))
    BY <1>1 DEF OwedBy, Plus, Doubles, Dot, Linking, Removing, Shape
  <2> QED
    BY <1>24, <1>1, <2>2, <2>3, <2>4, <2>5, CountsStep
<1>26. Kept'
  BY <1>1, <1>2 DEF Kept, Private, Owns, Mine, Taking, Dropped, Others, Shape, Owner
<1> QED
  BY <1>24, <1>25, <1>26

\* ext2_evict_inode: the inode leaves the inode cache.
LEMMA EvictKeeps ==
  ASSUME Shape, Counts, Kept, NEW p \in Procs,
         Evict(p), UNCHANGED nameVars
  PROVE  Shape' /\ Counts' /\ Kept'
<1>1. /\ Others(p) /\ op'[p] = op[p] /\ cur'[p] = cur[p]
      /\ pc[p] = "evict" /\ pc'[p] = "clear"
      /\ live' = live \ {cur[p].ino}
      /\ UNCHANGED <<bitmap, dirs, leaked, fs_error, nlink, ent, dotdot, lock, opened, vanished>>
  BY DEF Others, Shape, Locals, Evict, diskVars, nameVars, Goto
<1>2. Ranges /\ Owner(p)
  BY RangesHold, OwnerKnows, <1>1 DEF Mine, Taking
<1>3. Alloc' /\ ~fs_error'
  BY <1>1 DEF Shape, Alloc, Evict, countVars
<1>4. Locals'
  BY DEF Evict, Goto, Shape, Locals, Labels, nameVars
<1>5. Trees'
  BY <1>1 DEF Evict, Shape, Trees
<1>6. Phases'
  BY <1>1 DEF Others, Shape, Making, Linking, Removing, Moving, Phases, Allocating,
     Evicting, Taking
<1>7. Single'
  BY <1>1, <1>2 DEF Others, Shape, Ranges, Owner, Uses, Making, Linking, Removing, Moving,
     Single, Phases, Mine, Taking
<1>8. Privacy'
  BY <1>1, <1>2 DEF Others, Shape, Ranges, Owner, Uses, Making, Linking, Removing, Moving,
     Privacy, Phases, Unused, Mine, Taking
<1>9. Owned'
  BY <1>1, <1>2 DEF Others, Shape, Ranges, Owner, Uses, Making, Linking, Removing, Moving,
     Owned, Marks, Phases, Mine, Taking, Evicting
<1>10. Gone'
  BY <1>1, <1>2 DEF Others, Shape, Owner, Uses, Making, Linking, Removing, Moving, Gone,
     Unused
<1>11. Sets'
  BY <1>1, <1>2 DEF Others, Shape, Owner, Uses, Sets, Unhashed
<1>12. MakingInv'
  <2>1. SUFFICES ASSUME NEW q \in Procs, Making(q)'
                 PROVE  /\ lock'[op'[q].dir] = q /\ op'[q].dir \in DOMAIN dotdot'
                        /\ <<op'[q].dir, op'[q].name>> \notin DOMAIN ent'
                        /\ op'[q].name \in Names
                        /\ pc'[q] \in Allocating => (cur'[q].dir <=> op'[q].call = "mkdir")
    BY DEF MakingInv
  <2>2. Making(q)
    BY <1>1, <2>1 DEF Others, Making
  <2>3. /\ lock[op[q].dir] = q /\ op[q].dir \in DOMAIN dotdot
        /\ <<op[q].dir, op[q].name>> \notin DOMAIN ent
        /\ op[q].name \in Names /\ op[q].dir \in Inodes
        /\ pc[q] \in Allocating => (cur[q].dir <=> op[q].call = "mkdir")
    BY <1>2, <2>2 DEF Shape, MakingInv, Ranges
  <2>4. CASE q # p
    BY <1>1, <2>3, <2>4 DEF Others
  <2>5. CASE q = p
    BY <1>1, <2>3, <2>5 DEF Allocating, Taking
  <2> QED
    BY <2>4, <2>5
<1>13. LinkingInv'
  BY SMTT(30), <1>1, <1>2 DEF Others, Shape, Owner, Uses, Making, Linking, Removing, Moving,
     LinkingInv, Phases
<1>14. RemovingInv'
  BY <1>1, <1>2 DEF Others, Shape, Owner, Uses, Making, Linking, Removing, Moving,
     RemovingInv, Detached
<1>15. MoveLocks'
  BY <1>1, <1>2 DEF Others, Shape, Owner, Uses, Making, Linking, Removing, Moving, MoveLocks
<1>16. MoveVictims'
  BY <1>1, <1>2 DEF Others, Shape, Owner, Uses, Making, Linking, Removing, Moving,
     MoveVictims, Detached
<1>17. MoveOld'
  BY <1>1 DEF Others, Shape, MoveOld
<1>18. MoveNew'
  BY <1>1 DEF Others, Shape, Making, Linking, Removing, Moving, MoveNew
<1>19. MoveDirs'
  BY <1>1 DEF Others, Shape, Making, Linking, Removing, Moving, MoveDirs
<1>20. Entries'
  BY <1>1, <1>2 DEF Others, Shape, Owner, Uses, Making, Linking, Removing, Moving, Entries,
     MovesTo
<1>21. OneEntry'
  BY <1>1 DEF Others, Shape, OneEntry, Doubles
<1>22. Tree'
  BY <1>1, <1>2 DEF Others, Shape, Owner, Uses, Tree
<1>23. Rooted'
  BY <1>1 DEF Others, Shape, Making, Linking, Removing, Moving, Rooted, Loose
<1>24. Shape'
  BY <1>3, <1>4, <1>5, <1>6, <1>7, <1>8, <1>9, <1>10, <1>11, <1>12, <1>13, <1>14, <1>15,
     <1>16, <1>17, <1>18, <1>19, <1>20, <1>21, <1>22, <1>23 DEF Shape
<1>25. Counts'
  <2>1. SUFFICES ASSUME NEW x \in live', ~Private(x)'
                 PROVE  nlink'[x] = LinksTo(x)' + Owed(x)'
    BY DEF Counts
  <2>2. x \in Inodes /\ x \in live /\ ~Private(x) /\ nlink[x] = LinksTo(x) + Owed(x)
    BY <1>1, <1>2, <2>1 DEF Private, Owns, Mine, Taking, Others, Counts, Shape, Alloc, Owner
  <2>3. SameRest(p, x)
    BY <1>1, OthersOwe DEF Others
  <2>4. Elsewhere(ent, ent', <<0, 0>>) /\ Elsewhere(dotdot, dotdot', 0)
    BY <1>1 DEF Elsewhere
  <2>5. Balance(nlink', ent', dotdot', <<0, 0>>, 0, x, OwedBy(p, x)')
          = Balance(nlink, ent, dotdot, <<0, 0>>, 0, x, OwedBy(p, x))
    BY <1>1 DEF OwedBy, Plus, Doubles, Dot, Linking, Removing, Shape
  <2> QED
    BY <1>24, <1>1, <2>2, <2>3, <2>4, <2>5, CountsStep
<1>26. Kept'
  BY <1>1, <1>2 DEF Kept, Private, Owns, Mine, Taking, Dropped, Others, Shape, Owner
<1> QED
  BY <1>24, <1>25, <1>26

\* ext2_free_inode: the bit is cleared.
LEMMA ClearBitKeeps ==
  ASSUME Shape, Counts, Kept, NEW p \in Procs,
         ClearBit(p), UNCHANGED nameVars
  PROVE  Shape' /\ Counts' /\ Kept'
<1>1. /\ Others(p) /\ op'[p] = op[p] /\ cur'[p].ino = cur[p].ino
      /\ pc[p] = "clear" /\ pc'[p] = "release"
      /\ bitmap' = bitmap \ {cur[p].ino} /\ dirs' = dirs \ {cur[p].ino}
      /\ cur[p].ino \in bitmap
      /\ UNCHANGED <<leaked, live, fs_error, nlink, ent, dotdot, lock, opened, vanished>>
  BY DEF Others, Shape, Ranges, Owner, Uses, Making, Linking, Removing, Moving, Locals,
     Alloc, ClearBit, Owned, Marks, Mine, CurRec, nameVars, Goto
<1>2. Ranges /\ Owner(p)
  BY RangesHold, OwnerKnows, <1>1 DEF Mine, Taking
<1>3. Alloc' /\ ~fs_error'
  BY <1>1 DEF Shape, Alloc, ClearBit, countVars
<1>4. Locals'
  <2>1. [cur[p] EXCEPT !.dir = cur[p].ino \in dirs] \in CurRec
    <3>1. (cur[p].ino \in dirs) \in BOOLEAN
      OBVIOUS
    <3> QED
      BY <3>1, CurDir DEF Shape, Locals
  <2> QED
    BY <2>1 DEF ClearBit, Goto, Shape, Locals, Labels, nameVars
<1>5. Trees'
  BY <1>1 DEF ClearBit, Shape, Trees
<1>6. Phases'
  BY <1>1 DEF Others, Shape, Making, Linking, Removing, Moving, Phases, Allocating,
     Evicting, Taking
<1>7. Single'
  BY <1>1, <1>2 DEF Others, Shape, Ranges, Owner, Uses, Making, Linking, Removing, Moving,
     Single, Phases, Mine, Taking
<1>8. Privacy'
  BY <1>1, <1>2 DEF Others, Shape, Ranges, Owner, Uses, Making, Linking, Removing, Moving,
     Privacy, Phases, Unused, Mine, Taking
<1>9. Owned'
  BY <1>1, <1>2 DEF Others, Shape, Ranges, Owner, Uses, Making, Linking, Removing, Moving,
     Owned, Marks, Phases, Mine, Taking
<1>10. Gone'
  BY <1>1 DEF Others, Shape, Owner, Uses, Making, Linking, Removing, Moving, Gone, Unused
<1>11. Sets'
  <2>1. \A i \in Inodes : i < EXT2_FIRST_INO => i \in bitmap'
    BY <1>1, <1>2, IallocAssumption DEF Shape, Sets, Owner, Inodes
  <2>2. \A i \in live : i \in bitmap' /\ i \notin leaked
    BY <1>1, <1>2 DEF Shape, Sets, Owner
  <2>3. ASSUME NEW i \in bitmap'
        PROVE  \/ i < EXT2_FIRST_INO \/ i \in leaked \/ i \in live
               \/ \E q \in Procs : Unhashed(q, i)'
    <3>1. i # cur[p].ino /\ i \in bitmap
      BY <1>1
    <3>2. CASE \E q \in Procs : Unhashed(q, i)
      BY <1>1, <3>2 DEF Unhashed, Others
    <3> QED
      BY <3>1, <3>2 DEF Shape, Sets
  <2>4. leaked \subseteq bitmap' /\ EXT2_ROOT_INO \in dirs'
    BY <1>1, <1>2 DEF Shape, Sets, Owner
  <2>5. /\ EXT2_ROOT_INO \in live
        /\ \A i \in live : i >= EXT2_FIRST_INO \/ i = EXT2_ROOT_INO
    BY DEF Shape, Sets
  <2> QED
    BY <1>1, <2>1, <2>2, <2>3, <2>4, <2>5 DEF Sets
<1>12. MakingInv'
  <2>1. SUFFICES ASSUME NEW q \in Procs, Making(q)'
                 PROVE  /\ lock'[op'[q].dir] = q /\ op'[q].dir \in DOMAIN dotdot'
                        /\ <<op'[q].dir, op'[q].name>> \notin DOMAIN ent'
                        /\ op'[q].name \in Names
                        /\ pc'[q] \in Allocating => (cur'[q].dir <=> op'[q].call = "mkdir")
    BY DEF MakingInv
  <2>2. Making(q)
    BY <1>1, <2>1 DEF Others, Making
  <2>3. /\ lock[op[q].dir] = q /\ op[q].dir \in DOMAIN dotdot
        /\ <<op[q].dir, op[q].name>> \notin DOMAIN ent
        /\ op[q].name \in Names /\ op[q].dir \in Inodes
        /\ pc[q] \in Allocating => (cur[q].dir <=> op[q].call = "mkdir")
    BY <1>2, <2>2 DEF Shape, MakingInv, Ranges
  <2>4. CASE q # p
    BY <1>1, <2>3, <2>4 DEF Others
  <2>5. CASE q = p
    BY <1>1, <2>3, <2>5 DEF Allocating, Taking
  <2> QED
    BY <2>4, <2>5
<1>13. LinkingInv'
  BY <1>1 DEF Others, Shape, Making, Linking, Removing, Moving, LinkingInv
<1>14. RemovingInv'
  BY <1>1, <1>2 DEF Others, Shape, Owner, Uses, Making, Linking, Removing, Moving,
     RemovingInv, Detached
<1>15. MoveLocks'
  BY <1>1, <1>2 DEF Others, Shape, Owner, Uses, Making, Linking, Removing, Moving, MoveLocks
<1>16. MoveVictims'
  BY <1>1, <1>2 DEF Others, Shape, Owner, Uses, Making, Linking, Removing, Moving,
     MoveVictims, Detached
<1>17. MoveOld'
  BY <1>1 DEF Others, Shape, MoveOld
<1>18. MoveNew'
  BY <1>1 DEF Others, Shape, Making, Linking, Removing, Moving, MoveNew
<1>19. MoveDirs'
  BY <1>1 DEF Others, Shape, Making, Linking, Removing, Moving, MoveDirs
<1>20. Entries'
  BY <1>1 DEF Others, Shape, Making, Linking, Removing, Moving, Entries, MovesTo
<1>21. OneEntry'
  BY <1>1 DEF Others, Shape, OneEntry, Doubles
<1>22. Tree'
  BY <1>1, <1>2 DEF Others, Shape, Owner, Uses, Tree
<1>23. Rooted'
  BY <1>1 DEF Others, Shape, Making, Linking, Removing, Moving, Rooted, Loose
<1>24. Shape'
  BY <1>3, <1>4, <1>5, <1>6, <1>7, <1>8, <1>9, <1>10, <1>11, <1>12, <1>13, <1>14, <1>15,
     <1>16, <1>17, <1>18, <1>19, <1>20, <1>21, <1>22, <1>23 DEF Shape
<1>25. Counts'
  <2>1. SUFFICES ASSUME NEW x \in live', ~Private(x)'
                 PROVE  nlink'[x] = LinksTo(x)' + Owed(x)'
    BY DEF Counts
  <2>2. x \in Inodes /\ x \in live /\ ~Private(x) /\ nlink[x] = LinksTo(x) + Owed(x)
    BY <1>1, <1>2, <2>1 DEF Private, Owns, Mine, Taking, Others, Counts, Shape, Alloc, Owner
  <2>3. SameRest(p, x)
    BY <1>1, <1>2, OthersOwe DEF Others, Owner, Uses
  <2>4. Elsewhere(ent, ent', <<0, 0>>) /\ Elsewhere(dotdot, dotdot', 0)
    BY <1>1 DEF Elsewhere
  <2>5. Balance(nlink', ent', dotdot', <<0, 0>>, 0, x, OwedBy(p, x)')
          = Balance(nlink, ent, dotdot, <<0, 0>>, 0, x, OwedBy(p, x))
    BY <1>1 DEF OwedBy, Plus, Doubles, Dot, Linking, Removing, Shape
  <2> QED
    BY <1>24, <1>1, <2>2, <2>3, <2>4, <2>5, CountsStep
<1>26. Kept'
  BY <1>1, <1>2 DEF Kept, Private, Owns, Mine, Taking, Dropped, Others, Shape, Owner
<1> QED
  BY <1>24, <1>25, <1>26

\* ext2_free_inode: the bitmap cannot be read and the inode leaks.
LEMMA FreeFailsKeeps ==
  ASSUME Shape, Counts, Kept, NEW p \in Procs,
         FreeFails(p), UNCHANGED nameVars
  PROVE  Shape' /\ Counts' /\ Kept'
<1>1. /\ Others(p) /\ op'[p] = op[p] /\ cur'[p] = cur[p]
      /\ pc[p] = "clear" /\ pc'[p] = "freed"
      /\ leaked' = leaked \cup {cur[p].ino}
      /\ UNCHANGED <<bitmap, dirs, live, fs_error, nlink, ent, dotdot, lock, opened, vanished>>
  BY DEF Others, Shape, Locals, FreeFails, nameVars, Goto
<1>2. Ranges /\ Owner(p)
  BY RangesHold, OwnerKnows, <1>1 DEF Mine, Taking
<1>3. Alloc' /\ ~fs_error'
  BY <1>1, <1>2 DEF Shape, Alloc, Ranges, FreeFails, countVars
<1>4. Locals'
  BY DEF FreeFails, Goto, Shape, Locals, Labels, nameVars
<1>5. Trees'
  BY <1>1 DEF FreeFails, Shape, Trees
<1>6. Phases'
  BY <1>1 DEF Others, Shape, Making, Linking, Removing, Moving, Phases, Allocating,
     Evicting, Taking
<1>7. Single'
  BY <1>1, <1>2 DEF Others, Shape, Ranges, Owner, Uses, Making, Linking, Removing, Moving,
     Single, Phases, Mine, Taking
<1>8. Privacy'
  BY <1>1, <1>2 DEF Others, Shape, Ranges, Owner, Uses, Making, Linking, Removing, Moving,
     Privacy, Phases, Unused, Mine, Taking
<1>9. Owned'
  BY <1>1, <1>2 DEF Others, Shape, Ranges, Owner, Uses, Making, Linking, Removing, Moving,
     Owned, Marks, Phases, Mine, Taking
<1>10. Gone'
  BY <1>1 DEF Others, Shape, Owner, Uses, Making, Linking, Removing, Moving, Gone, Unused
<1>11. Sets'
  BY <1>1, <1>2 DEF Others, Shape, Owner, Uses, Sets, Unhashed
<1>12. MakingInv'
  BY <1>1 DEF Others, Shape, Making, Linking, Removing, Moving, MakingInv, Allocating,
     Taking
<1>13. LinkingInv'
  BY <1>1 DEF Others, Shape, Making, Linking, Removing, Moving, LinkingInv
<1>14. RemovingInv'
  BY <1>1 DEF Others, Shape, Making, Linking, Removing, Moving, RemovingInv, Detached
<1>15. MoveLocks'
  BY <1>1 DEF Others, Shape, Making, Linking, Removing, Moving, MoveLocks
<1>16. MoveVictims'
  BY <1>1 DEF Others, Shape, Making, Linking, Removing, Moving, MoveVictims, Detached
<1>17. MoveOld'
  BY <1>1 DEF Others, Shape, MoveOld
<1>18. MoveNew'
  BY <1>1 DEF Others, Shape, Making, Linking, Removing, Moving, MoveNew
<1>19. MoveDirs'
  BY <1>1 DEF Others, Shape, Making, Linking, Removing, Moving, MoveDirs
<1>20. Entries'
  BY <1>1 DEF Others, Shape, Making, Linking, Removing, Moving, Entries, MovesTo
<1>21. OneEntry'
  BY <1>1 DEF Others, Shape, OneEntry, Doubles
<1>22. Tree'
  BY <1>1 DEF Others, Shape, Tree
<1>23. Rooted'
  BY <1>1 DEF Others, Shape, Making, Linking, Removing, Moving, Rooted, Loose
<1>24. Shape'
  BY <1>3, <1>4, <1>5, <1>6, <1>7, <1>8, <1>9, <1>10, <1>11, <1>12, <1>13, <1>14, <1>15,
     <1>16, <1>17, <1>18, <1>19, <1>20, <1>21, <1>22, <1>23 DEF Shape
<1>25. Counts'
  <2>1. SUFFICES ASSUME NEW x \in live', ~Private(x)'
                 PROVE  nlink'[x] = LinksTo(x)' + Owed(x)'
    BY DEF Counts
  <2>2. x \in Inodes /\ x \in live /\ ~Private(x) /\ nlink[x] = LinksTo(x) + Owed(x)
    BY <1>1, <1>2, <2>1 DEF Private, Owns, Mine, Taking, Others, Counts, Shape, Alloc, Owner
  <2>3. SameRest(p, x)
    BY <1>1, OthersOwe DEF Others
  <2>4. Elsewhere(ent, ent', <<0, 0>>) /\ Elsewhere(dotdot, dotdot', 0)
    BY <1>1 DEF Elsewhere
  <2>5. Balance(nlink', ent', dotdot', <<0, 0>>, 0, x, OwedBy(p, x)')
          = Balance(nlink, ent, dotdot, <<0, 0>>, 0, x, OwedBy(p, x))
    BY <1>1 DEF OwedBy, Plus, Doubles, Dot, Linking, Removing, Shape
  <2> QED
    BY <1>24, <1>1, <2>2, <2>3, <2>4, <2>5, CountsStep
<1>26. Kept'
  BY <1>1, <1>2 DEF Kept, Private, Owns, Mine, Taking, Dropped, Others, Shape, Owner
<1> QED
  BY <1>24, <1>25, <1>26

\* ext2_create takes its lock.
LEMMA CreateKeeps ==
  ASSUME Shape, Counts, Kept, NEW p \in Procs, NEW d \in Usable, NEW n \in Names,
         Create(p, d, n)
  PROVE  Shape' /\ Counts' /\ Kept'
<1>1. /\ Others(p) /\ cur'[p].dir = FALSE
      /\ pc[p] = "idle" /\ pc'[p] = "new"
      /\ op'[p].call = "create" /\ op'[p].dir = d /\ op'[p].name = n
      /\ d \in DOMAIN dotdot /\ d \in Inodes /\ <<d, n>> \notin DOMAIN ent
      /\ d = EXT2_ROOT_INO \/ vanished[d] > 0 \/ \E e \in DOMAIN ent : ent[e] = d
      /\ lock[d] = NoProc /\ \A x \in Inodes : lock'[x] = IF x = d THEN p ELSE lock[x]
      /\ UNCHANGED <<bitmap, dirs, leaked, live, fs_error, nlink, ent, dotdot, opened, vanished>>
  BY DEF Others, Shape, Locals, Trees, Create, Usable, Begin, Call, Acquire, CurRec,
     diskVars, ialloc, calm, Goto
<1>2. Ranges
  BY RangesHold
<1>3. ~Private(d)
  BY <1>1, NotPrivate
<1>4. Alloc' /\ ~fs_error'
  BY <1>1 DEF Shape, Alloc, Create, countVars, ialloc, calm
<1>5. Locals'
  <2>1. Call("create", d, n, d) \in OpRec
    BY <1>1, CallType DEF Calls
  <2>2. [cur[p] EXCEPT !.dir = FALSE] \in CurRec
    BY <1>1, CurDir, CurIno DEF Shape, Locals
  <2> QED
    BY <1>1, <2>1, <2>2 DEF Create, Begin, Goto, Shape, Locals, Labels
<1>6. Trees'
  BY <1>1 DEF Create, Shape, Trees, Acquire
<1>7. Phases'
  BY <1>1 DEF Others, Shape, Phases, Making, Moving, Allocating
<1>8. Single'
  BY <1>1, <1>2, <1>3 DEF Others, Shape, Ranges, Private, Owns, Single, Phases, Mine,
     Making, Taking
<1>9. Privacy'
  BY <1>1, <1>2, <1>3 DEF Others, Shape, Ranges, Private, Owns, Privacy, Phases, Unused,
     Uses, Mine, Making, Linking, Removing, Moving, Taking
<1>10. Owned'
  BY <1>1, <1>2, <1>3 DEF Others, Shape, Ranges, Private, Owns, Owned, Marks, Single,
     Phases, Mine, Making, Taking
<1>11. Gone'
  BY <1>1 DEF Others, Shape, Gone, Unused, Uses, Making, Linking, Removing, Moving
<1>12. Sets'
  BY <1>1 DEF Others, Shape, Sets, Unhashed, Taking
<1>13. MakingInv'
  BY <1>1, <1>2, <1>3 DEF Others, Shape, Ranges, MakingInv, Making
<1>14. LinkingInv'
  BY <1>1, <1>2 DEF Others, Shape, Ranges, LinkingInv, Phases, Linking
<1>15. RemovingInv'
  BY <1>1, <1>2 DEF Others, Shape, Ranges, RemovingInv, Removing, Detached
<1>16. MoveLocks'
  BY <1>1, <1>2 DEF Others, Shape, Ranges, MoveLocks, Moving
<1>17. MoveVictims'
  BY <1>1, <1>2 DEF Others, Shape, Ranges, MoveVictims, Moving, Detached
<1>18. MoveOld'
  BY <1>1 DEF Others, Shape, MoveOld
<1>19. MoveNew'
  BY <1>1 DEF Others, Shape, MoveNew, Moving
<1>20. MoveDirs'
  BY <1>1 DEF Others, Shape, MoveDirs, Moving
<1>21. Entries'
  BY <1>1 DEF Others, Shape, Entries, MovesTo, Moving
<1>22. OneEntry'
  BY <1>1 DEF Others, Shape, OneEntry, Doubles
<1>23. Tree'
  BY <1>1 DEF Others, Shape, Tree
<1>24. Rooted'
  BY <1>1 DEF Others, Shape, Rooted, Loose, Removing
<1>25. Shape'
  BY <1>4, <1>5, <1>6, <1>7, <1>8, <1>9, <1>10, <1>11, <1>12, <1>13, <1>14, <1>15, <1>16,
     <1>17, <1>18, <1>19, <1>20, <1>21, <1>22, <1>23, <1>24 DEF Shape
<1>26. Counts'
  <2>1. SUFFICES ASSUME NEW x \in live', ~Private(x)'
                 PROVE  nlink'[x] = LinksTo(x)' + Owed(x)'
    BY DEF Counts
  <2>2. x \in Inodes /\ x \in live /\ ~Private(x) /\ nlink[x] = LinksTo(x) + Owed(x)
    BY <1>1, <1>2, <1>3, <2>1 DEF Private, Owns, Mine, Taking, Others, Counts, Shape, Alloc,
       Owner
  <2>3. SameRest(p, x)
    BY <1>1, OthersOwe DEF Others
  <2>4. Elsewhere(ent, ent', <<0, 0>>) /\ Elsewhere(dotdot, dotdot', 0)
    BY <1>1 DEF Elsewhere
  <2>5. Balance(nlink', ent', dotdot', <<0, 0>>, 0, x, OwedBy(p, x)')
          = Balance(nlink, ent, dotdot, <<0, 0>>, 0, x, OwedBy(p, x))
    BY <1>1 DEF Phases, OwedBy, Plus, Doubles, Dot, Linking, Removing, Shape
  <2> QED
    BY <1>25, <1>1, <2>2, <2>3, <2>4, <2>5, CountsStep
<1>27. Kept'
  BY <1>1, <1>2, <1>3 DEF Kept, Private, Owns, Mine, Taking, Dropped, Others, Shape, Owner
<1> QED
  BY <1>25, <1>26, <1>27

\* ext2_mkdir takes its lock and counts the ".." to come.
LEMMA MkdirKeeps ==
  ASSUME Shape, Counts, Kept, NEW p \in Procs, NEW d \in Usable, NEW n \in Names,
         Mkdir(p, d, n)
  PROVE  Shape' /\ Counts' /\ Kept'
<1>1. /\ Others(p) /\ cur'[p].dir = TRUE
      /\ pc[p] = "idle" /\ pc'[p] = "new"
      /\ op'[p].call = "mkdir" /\ op'[p].dir = d /\ op'[p].name = n
      /\ d \in DOMAIN dotdot /\ d \in Inodes /\ <<d, n>> \notin DOMAIN ent
      /\ d = EXT2_ROOT_INO \/ vanished[d] > 0 \/ \E e \in DOMAIN ent : ent[e] = d
      /\ lock[d] = NoProc /\ \A x \in Inodes : lock'[x] = IF x = d THEN p ELSE lock[x]
      /\ \A x \in Inodes : nlink'[x] = IF x = d THEN nlink[x] + 1 ELSE nlink[x]
      /\ UNCHANGED <<bitmap, dirs, leaked, live, fs_error, ent, dotdot, opened, vanished>>
  BY DEF Others, Shape, Locals, Trees, Mkdir, Usable, Begin, Call, Acquire, Links, CurRec,
     diskVars, ialloc, calm, Goto
<1>2. Ranges
  BY RangesHold
<1>3. ~Private(d)
  BY <1>1, NotPrivate
<1>4. Alloc' /\ ~fs_error'
  BY <1>1 DEF Shape, Alloc, Mkdir, countVars, ialloc, calm
<1>5. Locals'
  <2>1. Call("mkdir", d, n, d) \in OpRec
    BY <1>1, CallType DEF Calls
  <2>2. [cur[p] EXCEPT !.dir = TRUE] \in CurRec
    BY <1>1, CurDir, CurIno DEF Shape, Locals
  <2> QED
    BY <1>1, <2>1, <2>2 DEF Mkdir, Begin, Goto, Shape, Locals, Labels
<1>6. Trees'
  BY <1>1 DEF Mkdir, Shape, Trees, Links, Acquire
<1>7. Phases'
  BY <1>1 DEF Others, Shape, Phases, Making, Moving, Allocating
<1>8. Single'
  BY <1>1, <1>2, <1>3 DEF Others, Shape, Ranges, Private, Owns, Single, Phases, Mine,
     Making, Taking
<1>9. Privacy'
  BY <1>1, <1>2, <1>3 DEF Others, Shape, Ranges, Private, Owns, Privacy, Phases, Unused,
     Uses, Mine, Making, Linking, Removing, Moving, Taking
<1>10. Owned'
  BY <1>1, <1>2, <1>3 DEF Others, Shape, Ranges, Private, Owns, Owned, Marks, Phases, Mine,
     Making, Taking
<1>11. Gone'
  BY <1>1 DEF Others, Shape, Gone, Unused, Uses, Making, Linking, Removing, Moving
<1>12. Sets'
  BY <1>1 DEF Others, Shape, Sets, Unhashed, Taking
<1>13. MakingInv'
  BY <1>1, <1>2, <1>3 DEF Others, Shape, Ranges, Private, Owns, MakingInv, Making
<1>14. LinkingInv'
  BY SMTT(30), <1>1, <1>2, <1>3 DEF Others, Shape, Ranges, Private, Owns, LinkingInv, Phases, Linking
<1>15. RemovingInv'
  BY <1>1, <1>2 DEF Others, Shape, Ranges, RemovingInv, Removing, Detached
<1>16. MoveLocks'
  BY <1>1, <1>2 DEF Others, Shape, Ranges, MoveLocks, Moving
<1>17. MoveVictims'
  BY <1>1, <1>2 DEF Others, Shape, Ranges, MoveVictims, Moving, Detached
<1>18. MoveOld'
  BY <1>1 DEF Others, Shape, MoveOld
<1>19. MoveNew'
  BY <1>1 DEF Others, Shape, MoveNew, Moving
<1>20. MoveDirs'
  BY <1>1 DEF Others, Shape, MoveDirs, Moving
<1>21. Entries'
  BY <1>1 DEF Others, Shape, Entries, MovesTo, Moving
<1>22. OneEntry'
  BY <1>1 DEF Others, Shape, OneEntry, Doubles
<1>23. Tree'
  BY <1>1 DEF Others, Shape, Tree
<1>24. Rooted'
  BY <1>1 DEF Others, Shape, Rooted, Loose, Removing
<1>25. Shape'
  BY <1>4, <1>5, <1>6, <1>7, <1>8, <1>9, <1>10, <1>11, <1>12, <1>13, <1>14, <1>15, <1>16,
     <1>17, <1>18, <1>19, <1>20, <1>21, <1>22, <1>23, <1>24 DEF Shape
<1>26. Counts'
  <2>1. SUFFICES ASSUME NEW x \in live', ~Private(x)'
                 PROVE  nlink'[x] = LinksTo(x)' + Owed(x)'
    BY DEF Counts
  <2>2. x \in Inodes /\ x \in live /\ ~Private(x) /\ nlink[x] = LinksTo(x) + Owed(x)
    BY <1>1, <1>2, <1>3, <2>1 DEF Private, Owns, Mine, Taking, Others, Counts, Shape, Alloc,
       Owner
  <2>3. SameRest(p, x)
    BY <1>1, OthersOwe DEF Others
  <2>4. Elsewhere(ent, ent', <<0, 0>>) /\ Elsewhere(dotdot, dotdot', 0)
    BY <1>1 DEF Elsewhere
  <2>5. Balance(nlink', ent', dotdot', <<0, 0>>, 0, x, OwedBy(p, x)')
          = Balance(nlink, ent, dotdot, <<0, 0>>, 0, x, OwedBy(p, x))
    BY <1>1, <2>2 DEF Balance, Phases, OwedBy, Plus, Doubles, Dot, Linking, Removing, One,
       Shape, Trees
  <2> QED
    BY <1>25, <1>1, <2>2, <2>3, <2>4, <2>5, CountsStep
<1>27. Kept'
  <2>1. SUFFICES ASSUME NEW x \in live', ~(nlink'[x] > 0), x \notin opened', ~Private(x)',
                        \A q \in Procs : ~Dropped(q, x)'
                 PROVE  FALSE
    BY DEF Kept
  <2>2. nlink'[x] = 0 /\ Linkless(x)' /\ x \in Inodes /\ x \in live
    BY <1>25, <1>26, <1>1, <2>1, LastLinksNext DEF Shape, Alloc
  <2> QED
    BY <1>1, <1>2, <1>3, <2>1, <2>2 DEF Kept, Linkless, Dropped, Private, Owns, Mine,
       Taking, Others, Shape
<1> QED
  BY <1>25, <1>26, <1>27

\* ext2_unlink takes its locks and deletes the entry.
LEMMA UnlinkKeeps ==
  ASSUME Shape, Counts, Kept, NEW p \in Procs, NEW d \in Usable, NEW n \in Names,
         Unlink(p, d, n)
  PROVE  Shape' /\ Counts' /\ Kept'
<1>1. /\ Others(p)
      /\ pc[p] = "idle" /\ pc'[p] = "dec"
      /\ op'[p].call = "unlink" /\ op'[p].dir = d /\ op'[p].ino = ent[<<d, n>>]
      /\ d \in DOMAIN dotdot /\ d \in Inodes /\ <<d, n>> \in DOMAIN ent
      /\ ent[<<d, n>>] \in Inodes
      /\ ent[<<d, n>>] \notin dirs
      /\ lock[d] = NoProc /\ lock[ent[<<d, n>>]] = NoProc
      /\ \A x \in Inodes : lock'[x] = IF x \in {d, ent[<<d, n>>]} THEN p ELSE lock[x]
      /\ DOMAIN ent' = DOMAIN ent \ {<<d, n>>} /\ \A e \in DOMAIN ent' : ent'[e] = ent[e]
      /\ UNCHANGED <<bitmap, dirs, leaked, live, fs_error, nlink, dotdot, opened, vanished>>
  BY DEF Others, Shape, Locals, Trees, Alloc, Unlink, Usable, Begin, Call, Acquire,
     DropEntry, ext2_empty_dir, Entries, diskVars, ialloc, calm, Goto
<1>2. Ranges
  BY RangesHold
<1>3. ~Private(d) /\ ~Private(ent[<<d, n>>])
  BY <1>1, NotPrivate DEF Usable
<1>4. ent[<<d, n>>] \in live
  BY <1>1 DEF Shape, Entries
<1>5. Alloc' /\ ~fs_error'
  BY <1>1 DEF Shape, Alloc, Unlink, countVars, ialloc, calm
<1>6. Locals'
  <2>1. Call("unlink", d, n, ent[<<d, n>>]) \in OpRec
    BY <1>1, CallType DEF Calls
  <2> QED
    BY <1>1, <2>1 DEF Unlink, Begin, Goto, Shape, Locals, Labels
<1>7. Trees'
  <2>1. nlink' \in [Inodes -> Int]
    BY <1>1 DEF Unlink, Shape, Trees
  <2>2. DOMAIN ent' \subseteq Inodes \X Names /\ IsFiniteSet(DOMAIN ent')
    BY FS_Subset DEF Unlink, DropEntry, Shape, Trees
  <2>3. lock' \in [Inodes -> Procs \cup {NoProc}]
    BY <1>1 DEF Unlink, Acquire, Shape, Trees
  <2> QED
    BY <1>1, <2>2, <2>3 DEF Shape, Trees
<1>8. Phases'
  BY <1>1 DEF Others, Shape, Phases, Making, Moving, Allocating, Taking
<1>9. Single'
  BY <1>1, <1>2, <1>3, <1>4 DEF Others, Shape, Ranges, Private, Owns, Single, Phases, Mine,
     Making, Taking
<1>10. Privacy'
  BY <1>1, <1>2, <1>3, <1>4 DEF Others, Shape, Ranges, Private, Owns, Privacy, Phases,
     Unused, Uses, Mine, Making, Linking, Removing, Moving, Taking
<1>11. Owned'
  BY <1>1, <1>2, <1>3, <1>4 DEF Others, Shape, Ranges, Private, Owns, Owned, Marks, Phases,
     Mine, Making, Taking
<1>12. Gone'
  BY <1>1 DEF Others, Shape, Gone, Unused, Uses, Making, Linking, Removing, Moving
<1>13. Sets'
  BY <1>1 DEF Others, Shape, Sets, Unhashed, Taking
<1>14. MakingInv'
  BY <1>1, <1>2, <1>3, <1>4 DEF Others, Shape, Ranges, Private, Owns, MakingInv, Making
<1>15. LinkingInv'
  BY <1>1, <1>2, <1>3, <1>4 DEF Others, Shape, Ranges, LinkingInv, Phases, Linking
<1>16. RemovingInv'
  BY <1>1, <1>2, <1>4 DEF Others, Shape, Ranges, RemovingInv, Removing, Detached
<1>17. MoveLocks'
  BY <1>1, <1>2 DEF Others, Shape, Ranges, MoveLocks, Moving
<1>18. MoveVictims'
  BY <1>1, <1>2 DEF Others, Shape, Ranges, MoveVictims, Moving, Detached
<1>19. MoveOld'
  <2>1. SUFFICES ASSUME NEW q \in Procs, pc'[q] \in {"drop", "delete"}
                 PROVE  /\ <<op'[q].dir, op'[q].name>> \in DOMAIN ent'
                        /\ ent'[<<op'[q].dir, op'[q].name>>] = op'[q].ino
    BY DEF MoveOld
  <2>2. CASE q = p
    BY <1>1, <2>1, <2>2
  <2>3. CASE q # p
    <3>1. /\ op'[q] = op[q] /\ lock[op[q].dir] = q
          /\ <<op[q].dir, op[q].name>> \in DOMAIN ent
          /\ ent[<<op[q].dir, op[q].name>>] = op[q].ino
      BY <1>1, <2>1 DEF Others, Shape, MoveOld, MoveLocks, Moving
    <3>2. op[q].dir # d
      BY <1>1, <1>2, <3>1 DEF Ranges
    <3> QED
      BY <1>1, <3>1, <3>2
  <2> QED
    BY <2>2, <2>3
<1>20. MoveNew'
  BY <1>1, <1>2 DEF Others, Shape, Ranges, MoveNew, Moving, MoveLocks
<1>21. MoveDirs'
  BY <1>1 DEF Others, Shape, MoveDirs, Moving
<1>22. Entries'
  BY <1>1 DEF Others, Shape, Entries, MovesTo, Moving
<1>23. OneEntry'
  BY <1>1 DEF Others, Shape, OneEntry, Doubles
<1>24. Tree'
  BY <1>1 DEF Others, Shape, Tree
<1>25. Rooted'
  BY <1>1 DEF Others, Shape, Rooted, Loose, Removing
<1>26. Shape'
  BY <1>5, <1>6, <1>7, <1>8, <1>9, <1>10, <1>11, <1>12, <1>13, <1>14, <1>15, <1>16, <1>17,
     <1>18, <1>19, <1>20, <1>21, <1>22, <1>23, <1>24, <1>25 DEF Shape
<1>27. Counts'
  <2>1. SUFFICES ASSUME NEW x \in live', ~Private(x)'
                 PROVE  nlink'[x] = LinksTo(x)' + Owed(x)'
    BY DEF Counts
  <2>2. x \in Inodes /\ x \in live /\ ~Private(x) /\ nlink[x] = LinksTo(x) + Owed(x)
    BY <1>1, <1>2, <1>3, <1>4, <2>1 DEF Private, Owns, Mine, Taking, Others, Counts, Shape,
       Alloc, Owner
  <2>3. SameRest(p, x)
    BY <1>1, OthersOwe DEF Others
  <2>4. Elsewhere(ent, ent', <<d, n>>) /\ Elsewhere(dotdot, dotdot', 0)
    BY <1>1 DEF Elsewhere
  <2>5. Balance(nlink', ent', dotdot', <<d, n>>, 0, x, OwedBy(p, x)')
          = Balance(nlink, ent, dotdot, <<d, n>>, 0, x, OwedBy(p, x))
    BY <1>1 DEF Balance, Phases, OwedBy, Plus, Doubles, Dot, Linking, Removing, One, At1,
       Shape, Trees
  <2> QED
    BY <1>26, <1>1, <2>2, <2>3, <2>4, <2>5, CountsStep
<1>28. Kept'
  BY <1>1, <1>2, <1>3, <1>4 DEF Kept, Private, Owns, Mine, Taking, Dropped, Others, Shape,
     Owner
<1> QED
  BY <1>26, <1>27, <1>28

\* ext2_rmdir takes its locks and deletes the entry of an empty directory.
LEMMA RmdirKeeps ==
  ASSUME Shape, Counts, Kept, NEW p \in Procs, NEW d \in Usable, NEW n \in Names,
         Rmdir(p, d, n)
  PROVE  Shape' /\ Counts' /\ Kept'
<1>1. /\ Others(p)
      /\ pc[p] = "idle" /\ pc'[p] = "dec"
      /\ op'[p].call = "rmdir" /\ op'[p].dir = d /\ op'[p].ino = ent[<<d, n>>]
      /\ d \in DOMAIN dotdot /\ d \in Inodes /\ <<d, n>> \in DOMAIN ent
      /\ ent[<<d, n>>] \in Inodes
      /\ ent[<<d, n>>] \in dirs
      /\ lock[d] = NoProc /\ lock[ent[<<d, n>>]] = NoProc
      /\ \A x \in Inodes : lock'[x] = IF x \in {d, ent[<<d, n>>]} THEN p ELSE lock[x]
      /\ DOMAIN ent' = DOMAIN ent \ {<<d, n>>} /\ \A e \in DOMAIN ent' : ent'[e] = ent[e]
      /\ UNCHANGED <<bitmap, dirs, leaked, live, fs_error, nlink, dotdot, opened, vanished>>
  BY DEF Others, Shape, Locals, Trees, Rmdir, Usable, Begin, Call, Acquire, DropEntry,
     Entries, diskVars, ialloc, calm, Goto
<1>2. Ranges
  BY RangesHold
<1>3. ~Private(d) /\ ~Private(ent[<<d, n>>])
  BY <1>1, NotPrivate DEF Usable
<1>4. ent[<<d, n>>] \in live
  BY <1>1 DEF Shape, Entries
<1>5. /\ ent[<<d, n>>] \in DOMAIN dotdot /\ dotdot[ent[<<d, n>>]] = d /\ ent[<<d, n>>] # EXT2_ROOT_INO
      /\ \A f \in DOMAIN ent : ent[f] = ent[<<d, n>>] => f = <<d, n>>
  BY <1>1, SettledEntry
<1>6. ent[<<d, n>>] # d
  BY <1>5 DEF Shape, Tree
<1>7. Alloc' /\ ~fs_error'
  BY <1>1 DEF Shape, Alloc, Rmdir, countVars, ialloc, calm
<1>8. Locals'
  <2>1. Call("rmdir", d, n, ent[<<d, n>>]) \in OpRec
    BY <1>1, CallType DEF Calls
  <2> QED
    BY <1>1, <2>1 DEF Rmdir, Begin, Goto, Shape, Locals, Labels
<1>9. Trees'
  <2>1. nlink' \in [Inodes -> Int]
    BY <1>1 DEF Rmdir, Shape, Trees
  <2>2. DOMAIN ent' \subseteq Inodes \X Names /\ IsFiniteSet(DOMAIN ent')
    BY FS_Subset DEF Rmdir, DropEntry, Shape, Trees
  <2>3. lock' \in [Inodes -> Procs \cup {NoProc}]
    BY <1>1 DEF Rmdir, Acquire, Shape, Trees
  <2> QED
    BY <1>1, <2>2, <2>3 DEF Shape, Trees
<1>10. Phases'
  BY <1>1 DEF Others, Shape, Phases, Making, Moving, Allocating, Taking
<1>11. Single'
  BY <1>1, <1>2, <1>3, <1>4, <1>5, <1>6 DEF Others, Shape, Ranges, Private, Owns, Single,
     Phases, Mine, Making, Taking
<1>12. Privacy'
  BY <1>1, <1>2, <1>3, <1>4, <1>5, <1>6 DEF Others, Shape, Ranges, Private, Owns, Privacy,
     Phases, Unused, Uses, Mine, Making, Linking, Removing, Moving, Taking
<1>13. Owned'
  BY <1>1, <1>2, <1>3, <1>4, <1>5, <1>6 DEF Others, Shape, Ranges, Private, Owns, Owned,
     Marks, Phases, Mine, Making, Taking
<1>14. Gone'
  BY <1>1 DEF Others, Shape, Gone, Unused, Uses, Making, Linking, Removing, Moving
<1>15. Sets'
  BY <1>1 DEF Others, Shape, Sets, Unhashed, Taking
<1>16. MakingInv'
  BY <1>1, <1>2, <1>4, <1>5, <1>6 DEF Others, Shape, Ranges, MakingInv, Making
<1>17. LinkingInv'
  BY <1>1, <1>2, <1>3, <1>4, <1>5, <1>6 DEF Others, Shape, Ranges, Private, Owns,
     LinkingInv, Phases, Linking
<1>18. RemovingInv'
  BY <1>1, <1>2, <1>4, <1>5, <1>6 DEF Others, Shape, Ranges, RemovingInv, Removing, Detached
<1>19. MoveLocks'
  BY <1>1, <1>2 DEF Others, Shape, Ranges, MoveLocks, Moving
<1>20. MoveVictims'
  BY <1>1, <1>2 DEF Others, Shape, Ranges, MoveVictims, Moving, Detached
<1>21. MoveOld'
  BY <1>1, <1>2, <1>3, <1>4, <1>5, <1>6 DEF Others, Shape, Ranges, Private, Owns, MoveOld,
     Moving, MoveLocks
<1>22. MoveNew'
  BY <1>1, <1>2 DEF Others, Shape, Ranges, MoveNew, Moving, MoveLocks
<1>23. MoveDirs'
  BY <1>1 DEF Others, Shape, MoveDirs, Moving
<1>24. Entries'
  BY <1>1 DEF Others, Shape, Entries, MovesTo, Moving
<1>25. OneEntry'
  BY <1>1, <1>2, <1>6 DEF Others, Shape, Ranges, OneEntry, Doubles
<1>26. Tree'
  BY <1>1 DEF Others, Shape, Tree
<1>27. Rooted'
  BY <1>1 DEF Others, Shape, Rooted, Loose, Removing
<1>28. Shape'
  BY <1>7, <1>8, <1>9, <1>10, <1>11, <1>12, <1>13, <1>14, <1>15, <1>16, <1>17, <1>18, <1>19,
     <1>20, <1>21, <1>22, <1>23, <1>24, <1>25, <1>26, <1>27 DEF Shape
<1>29. Counts'
  <2>1. SUFFICES ASSUME NEW x \in live', ~Private(x)'
                 PROVE  nlink'[x] = LinksTo(x)' + Owed(x)'
    BY DEF Counts
  <2>2. x \in Inodes /\ x \in live /\ ~Private(x) /\ nlink[x] = LinksTo(x) + Owed(x)
    BY <1>1, <1>2, <1>3, <1>4, <1>5, <1>6, <2>1 DEF Private, Owns, Mine, Taking, Others,
       Counts, Shape, Alloc, Owner
  <2>3. SameRest(p, x)
    BY <1>1, OthersOwe DEF Others
  <2>4. Elsewhere(ent, ent', <<d, n>>) /\ Elsewhere(dotdot, dotdot', 0)
    BY <1>1 DEF Elsewhere
  <2>5. Balance(nlink', ent', dotdot', <<d, n>>, 0, x, OwedBy(p, x)')
          = Balance(nlink, ent, dotdot, <<d, n>>, 0, x, OwedBy(p, x))
    BY <1>1 DEF Balance, Phases, OwedBy, Plus, Doubles, Dot, Linking, Removing, One, At1,
       Shape, Trees
  <2> QED
    BY <1>28, <1>1, <2>2, <2>3, <2>4, <2>5, CountsStep
<1>30. Kept'
  BY <1>1, <1>2, <1>3, <1>4, <1>5, <1>6 DEF Kept, Private, Owns, Mine, Taking, Dropped,
     Others, Shape, Owner
<1> QED
  BY <1>28, <1>29, <1>30

\* ext2_link takes its locks and counts the link to come.
LEMMA LinkKeeps ==
  ASSUME Shape, Counts, Kept, NEW p \in Procs, NEW d \in Usable, NEW n \in Names, NEW i \in live,
         Link(p, i, d, n)
  PROVE  Shape' /\ Counts' /\ Kept'
<1>1. /\ Others(p) /\ cur'[p] = cur[p]
      /\ pc[p] = "idle" /\ pc'[p] = "add"
      /\ op'[p].call = "link" /\ op'[p].dir = d /\ op'[p].name = n /\ op'[p].ino = i
      /\ d \in DOMAIN dotdot /\ d \in Inodes /\ <<d, n>> \notin DOMAIN ent
      /\ d = EXT2_ROOT_INO \/ vanished[d] > 0 \/ \E e \in DOMAIN ent : ent[e] = d
      /\ i \in Inodes /\ i \notin dirs /\ nlink[i] > 0
      /\ lock[d] = NoProc /\ lock[i] = NoProc
      /\ \A x \in Inodes : lock'[x] = IF x \in {d, i} THEN p ELSE lock[x]
      /\ \A x \in Inodes : nlink'[x] = IF x = i THEN nlink[x] + 1 ELSE nlink[x]
      /\ UNCHANGED <<bitmap, dirs, leaked, live, fs_error, ent, dotdot, opened, vanished>>
  BY DEF Others, Shape, Locals, Trees, Alloc, Link, Usable, Begin, Call, Acquire, Links,
     diskVars, ialloc, calm, Goto
<1>2. Ranges
  BY RangesHold
<1>3. ~Private(d)
  BY <1>1, NotPrivate
<1>4. ~Private(i)
  <2>1. SUFFICES ASSUME NEW q \in Procs, Mine(q), cur[q].ino = i
                 PROVE  FALSE
    BY DEF Private, Owns
  <2>2. Marks(q)
    BY <2>1 DEF Shape, Owned
  <2>3. pc[q] \in {"add", "undo"}
    BY <1>1, <2>1, <2>2 DEF Marks
  <2>4. op[q].call = "mkdir"
    BY <2>1, <2>3 DEF Mine, Taking
  <2> QED
    BY <1>1, <2>1, <2>2, <2>4 DEF Marks, Making, Evicting
<1>5. (\E e \in DOMAIN ent : ent[e] = i) \/ vanished[i] > 0
  BY <1>1, <1>4, Named
<1>6. Alloc' /\ ~fs_error'
  BY <1>1 DEF Shape, Alloc, Link, countVars, ialloc, calm
<1>7. Locals'
  <2>1. Call("link", d, n, i) \in OpRec
    BY <1>1, CallType DEF Calls
  <2> QED
    BY <1>1, <2>1 DEF Link, Begin, Goto, Shape, Locals, Labels
<1>8. Trees'
  BY <1>1 DEF Link, Shape, Trees, Links, Acquire
<1>9. Phases'
  BY <1>1 DEF Others, Shape, Phases, Making, Moving, Allocating, Taking
<1>10. Single'
  BY <1>1, <1>2, <1>3, <1>4, <1>5 DEF Others, Shape, Ranges, Private, Owns, Single, Phases,
     Mine, Making, Taking
<1>11. Privacy'
  BY <1>1, <1>2, <1>3, <1>4, <1>5 DEF Others, Shape, Ranges, Private, Owns, Privacy, Phases,
     Unused, Uses, Mine, Making, Linking, Removing, Moving, Taking
<1>12. Owned'
  BY <1>1, <1>2, <1>3, <1>4, <1>5 DEF Others, Shape, Ranges, Private, Owns, Owned, Marks,
     Phases, Mine, Making, Taking
<1>13. Gone'
  BY <1>1 DEF Others, Shape, Gone, Unused, Uses, Making, Linking, Removing, Moving
<1>14. Sets'
  BY <1>1 DEF Others, Shape, Sets, Unhashed, Taking
<1>15. MakingInv'
  <2>1. SUFFICES ASSUME NEW q \in Procs, Making(q)'
                 PROVE  /\ lock'[op'[q].dir] = q /\ op'[q].dir \in DOMAIN dotdot'
                        /\ <<op'[q].dir, op'[q].name>> \notin DOMAIN ent'
                        /\ op'[q].name \in Names
                        /\ pc'[q] \in Allocating => (cur'[q].dir <=> op'[q].call = "mkdir")
    BY DEF MakingInv
  <2>2. Making(q) /\ q # p
    BY <1>1, <2>1 DEF Others, Making
  <2>3. /\ lock[op[q].dir] = q /\ op[q].dir \in DOMAIN dotdot
        /\ <<op[q].dir, op[q].name>> \notin DOMAIN ent
        /\ op[q].name \in Names /\ op[q].dir \in Inodes
        /\ pc[q] \in Allocating => (cur[q].dir <=> op[q].call = "mkdir")
    BY <1>2, <2>2 DEF Shape, MakingInv, Ranges
  <2>4. CASE q # p
    BY <1>1, <1>2, <2>3, <2>4 DEF Others, Ranges
  <2>5. CASE q = p
    BY <1>1, <2>5 DEF Allocating, Taking
  <2> QED
    BY <2>4, <2>5
<1>16. LinkingInv'
  BY SMTT(30), <1>1, <1>2, <1>3, <1>4, <1>5 DEF Others, Shape, Ranges, Private, Owns, LinkingInv,
     Phases, Linking
<1>17. RemovingInv'
  BY <1>1, <1>2 DEF Others, Shape, Ranges, RemovingInv, Removing, Detached
<1>18. MoveLocks'
  BY <1>1, <1>2 DEF Others, Shape, Ranges, MoveLocks, Moving
<1>19. MoveVictims'
  BY <1>1, <1>2 DEF Others, Shape, Ranges, MoveVictims, Moving, Detached
<1>20. MoveOld'
  BY <1>1 DEF Others, Shape, MoveOld
<1>21. MoveNew'
  BY <1>1 DEF Others, Shape, MoveNew, Moving
<1>22. MoveDirs'
  BY <1>1 DEF Others, Shape, MoveDirs, Moving
<1>23. Entries'
  BY <1>1 DEF Others, Shape, Entries, MovesTo, Moving
<1>24. OneEntry'
  BY <1>1 DEF Others, Shape, OneEntry, Doubles
<1>25. Tree'
  BY <1>1 DEF Others, Shape, Tree
<1>26. Rooted'
  BY <1>1 DEF Others, Shape, Rooted, Loose, Removing
<1>27. Shape'
  BY <1>6, <1>7, <1>8, <1>9, <1>10, <1>11, <1>12, <1>13, <1>14, <1>15, <1>16, <1>17, <1>18,
     <1>19, <1>20, <1>21, <1>22, <1>23, <1>24, <1>25, <1>26 DEF Shape
<1>28. Counts'
  <2>1. SUFFICES ASSUME NEW x \in live', ~Private(x)'
                 PROVE  nlink'[x] = LinksTo(x)' + Owed(x)'
    BY DEF Counts
  <2>2. x \in Inodes /\ x \in live /\ ~Private(x) /\ nlink[x] = LinksTo(x) + Owed(x)
    BY <1>1, <1>2, <1>3, <1>4, <1>5, <2>1 DEF Private, Owns, Mine, Taking, Others, Counts,
       Shape, Alloc, Owner
  <2>3. SameRest(p, x)
    BY <1>1, OthersOwe DEF Others
  <2>4. Elsewhere(ent, ent', <<0, 0>>) /\ Elsewhere(dotdot, dotdot', 0)
    BY <1>1 DEF Elsewhere
  <2>5. Balance(nlink', ent', dotdot', <<0, 0>>, 0, x, OwedBy(p, x)')
          = Balance(nlink, ent, dotdot, <<0, 0>>, 0, x, OwedBy(p, x))
    BY <1>1, <2>2 DEF Balance, Phases, OwedBy, Plus, Doubles, Dot, Linking, Removing, One,
       Shape, Trees
  <2> QED
    BY <1>27, <1>1, <2>2, <2>3, <2>4, <2>5, CountsStep
<1>29. Kept'
  <2>1. SUFFICES ASSUME NEW x \in live', ~(nlink'[x] > 0), x \notin opened', ~Private(x)',
                        \A q \in Procs : ~Dropped(q, x)'
                 PROVE  FALSE
    BY DEF Kept
  <2>2. nlink'[x] = 0 /\ Linkless(x)' /\ x \in Inodes /\ x \in live
    BY <1>27, <1>28, <1>1, <2>1, LastLinksNext DEF Shape, Alloc
  <2> QED
    BY <1>1, <1>2, <1>3, <1>4, <1>5, <2>1, <2>2 DEF Kept, Linkless, Dropped, Private, Owns,
       Mine, Taking, Others, Shape
<1> QED
  BY <1>27, <1>28, <1>29

\* ext2_new_inode has failed: the call returns.
LEMMA NewFailsKeeps ==
  ASSUME Shape, Counts, Kept, NEW p \in Procs,
         NewFails(p)
  PROVE  Shape' /\ Counts' /\ Kept'
<1>1. /\ Others(p) /\ pc[p] = "failed" /\ Making(p)
      /\ pc'[p] = "idle" /\ op'[p].call = "none"
      /\ \A x \in Inodes : lock'[x] = IF lock[x] = p THEN NoProc ELSE lock[x]
      /\ op[p].dir \in Inodes
      /\ \A x \in Inodes : nlink'[x] = nlink[x] - One(x = op[p].dir /\ op[p].call = "mkdir")
      /\ UNCHANGED <<bitmap, dirs, leaked, live, fs_error, ent, dotdot, opened, vanished>>
  BY OpFields DEF Others, Shape, Locals, Trees, NewFails, Links, IsDir, One, Phases,
     Allocating, Return, Release, NoOp, Call, diskVars, ialloc, calm, Goto
<1>2. Ranges
  BY RangesHold
<1>3. ~Private(op[p].dir)
  BY <1>1, NotPrivate DEF Uses
<1>4. lock[op[p].dir] = p
  BY <1>1 DEF Shape, MakingInv
<1>5. Alloc' /\ ~fs_error'
  BY <1>1 DEF Shape, Alloc, NewFails, countVars, ialloc, calm
<1>6. Locals'
  BY ReturnEffect DEF NewFails, Shape
<1>7. Trees'
  <2>1. nlink' \in [Inodes -> Int]
    BY <1>1 DEF NewFails, Links, IsDir, Shape, Trees
  <2>2. DOMAIN ent' \subseteq Inodes \X Names /\ IsFiniteSet(DOMAIN ent')
    BY <1>1, FS_AddElement DEF Shape, Trees
  <2>3. lock' \in [Inodes -> Procs \cup {NoProc}]
    BY <1>1 DEF NewFails, Return, Release, Shape, Trees
  <2> QED
    BY <1>1, <2>1, <2>3 DEF Shape, Trees
<1>8. Phases'
  BY <1>1 DEF Others, Shape, Phases, Making, Moving, Allocating, Taking
<1>9. Single'
  BY <1>1, <1>2, <1>3, <1>4 DEF Others, Shape, Ranges, Private, Owns, Single, Phases, Mine,
     Making, Taking
<1>10. Privacy'
  BY <1>1, <1>2, <1>3, <1>4 DEF Others, Shape, Ranges, Private, Owns, Privacy, Phases,
     Unused, Uses, Mine, Making, Linking, Removing, Moving, Taking
<1>11. Owned'
  BY <1>1, <1>2, <1>3, <1>4 DEF Others, Shape, Ranges, Private, Owns, Owned, Marks, Phases,
     Mine, Making, Taking, One
<1>12. Gone'
  BY <1>1 DEF Others, Shape, Gone, Unused, Uses, Making, Linking, Removing, Moving, One
<1>13. Sets'
  BY <1>1 DEF Others, Shape, Sets, Unhashed, Taking
<1>14. MakingInv'
  BY <1>1, <1>2 DEF Others, Shape, Ranges, MakingInv, Making
<1>15. LinkingInv'
  BY <1>1, <1>2 DEF Others, Shape, Ranges, LinkingInv, Linking
<1>16. RemovingInv'
  BY <1>1, <1>2 DEF Others, Shape, Ranges, RemovingInv, Removing, Detached
<1>17. MoveLocks'
  BY <1>1, <1>2 DEF Others, Shape, Ranges, MoveLocks, Moving
<1>18. MoveVictims'
  BY <1>1, <1>2 DEF Others, Shape, Ranges, MoveVictims, Moving, Detached
<1>19. MoveOld'
  BY <1>1 DEF Others, Shape, MoveOld
<1>20. MoveNew'
  BY <1>1 DEF Others, Shape, MoveNew, Moving
<1>21. MoveDirs'
  BY <1>1 DEF Others, Shape, MoveDirs, Moving
<1>22. Entries'
  BY <1>1 DEF Others, Shape, Entries, MovesTo, Moving
<1>23. OneEntry'
  BY <1>1 DEF Others, Shape, OneEntry, Doubles
<1>24. Tree'
  BY <1>1 DEF Others, Shape, Tree
<1>25. Rooted'
  BY <1>1 DEF Others, Shape, Rooted, Loose, Removing
<1>26. Shape'
  BY <1>5, <1>6, <1>7, <1>8, <1>9, <1>10, <1>11, <1>12, <1>13, <1>14, <1>15, <1>16, <1>17,
     <1>18, <1>19, <1>20, <1>21, <1>22, <1>23, <1>24, <1>25 DEF Shape
<1>27. Counts'
  <2>1. SUFFICES ASSUME NEW x \in live', ~Private(x)'
                 PROVE  nlink'[x] = LinksTo(x)' + Owed(x)'
    BY DEF Counts
  <2>2. x \in Inodes /\ x \in live /\ ~Private(x) /\ nlink[x] = LinksTo(x) + Owed(x)
    BY <1>1, <1>2, <1>3, <1>4, <2>1 DEF Private, Owns, Mine, Taking, Others, Counts, Shape,
       Alloc, Owner
  <2>3. SameRest(p, x)
    BY <1>1, OthersOwe DEF Others
  <2>4. Elsewhere(ent, ent', <<0, 0>>) /\ Elsewhere(dotdot, dotdot', 0)
    BY <1>1 DEF Elsewhere
  <2>5. Balance(nlink', ent', dotdot', <<0, 0>>, 0, x, OwedBy(p, x)')
          = Balance(nlink, ent, dotdot, <<0, 0>>, 0, x, OwedBy(p, x))
    BY <1>1, <2>2 DEF Balance, Phases, OwedBy, Plus, Doubles, Dot, Linking, Removing, One,
       Shape, Trees
  <2> QED
    BY <1>26, <1>1, <2>2, <2>3, <2>4, <2>5, CountsStep
<1>28. Kept'
  <2>1. SUFFICES ASSUME NEW x \in live', ~(nlink'[x] > 0), x \notin opened', ~Private(x)',
                        \A q \in Procs : ~Dropped(q, x)'
                 PROVE  FALSE
    BY DEF Kept
  <2>2. nlink'[x] = 0 /\ Linkless(x)' /\ x \in Inodes /\ x \in live
    BY <1>26, <1>27, <1>1, <2>1, LastLinksNext DEF Shape, Alloc
  <2>3. nlink[x] = 0
    <3>1. op[p].call = "mkdir" => op[p].dir \in DOMAIN dotdot
      BY DEF Shape, MakingInv, Making
    <3> QED
      BY <1>1, <2>2, <3>1 DEF Linkless, One, Shape, Trees
  <2> QED
    BY <1>1, <1>2, <1>3, <1>4, <2>1, <2>3 DEF Kept, Linkless, Dropped, Private, Owns, Mine,
       Taking, Others, Shape
<1> QED
  BY <1>26, <1>27, <1>28

\* The call that gave its inode back returns.
LEMMA FreedKeeps ==
  ASSUME Shape, Counts, Kept, NEW p \in Procs,
         Freed(p)
  PROVE  Shape' /\ Counts' /\ Kept'
<1>1. /\ Others(p) /\ pc[p] = "freed"
      /\ pc'[p] = "idle" /\ op'[p].call = "none"
      /\ \A x \in Inodes : lock'[x] = IF lock[x] = p THEN NoProc ELSE lock[x]
      /\ op[p].dir \in Inodes
      /\ \A x \in Inodes : nlink'[x] = nlink[x] - One(x = op[p].dir /\ op[p].call = "mkdir")
      /\ UNCHANGED <<bitmap, dirs, leaked, live, fs_error, ent, dotdot, opened, vanished>>
  BY OpFields DEF Others, Shape, Locals, Trees, Freed, Links, IsDir, One, Return, Release,
     NoOp, Call, diskVars, ialloc, calm, Goto
<1>2. Ranges
  BY RangesHold
<1>3. op[p].call = "mkdir" => ~Private(op[p].dir)
  BY <1>1, NotPrivate DEF Uses, Making
<1>4. Alloc' /\ ~fs_error'
  BY <1>1 DEF Shape, Alloc, Freed, countVars, ialloc, calm
<1>5. Locals'
  BY ReturnEffect DEF Freed, Shape
<1>6. Trees'
  <2>1. nlink' \in [Inodes -> Int]
    BY <1>1 DEF Freed, Links, IsDir, Shape, Trees
  <2>2. DOMAIN ent' \subseteq Inodes \X Names /\ IsFiniteSet(DOMAIN ent')
    BY <1>1, FS_AddElement DEF Shape, Trees
  <2>3. lock' \in [Inodes -> Procs \cup {NoProc}]
    BY <1>1 DEF Freed, Return, Release, Shape, Trees
  <2> QED
    BY <1>1, <2>1, <2>3 DEF Shape, Trees
<1>7. Phases'
  BY <1>1 DEF Others, Shape, Phases, Making, Moving, Allocating, Taking
<1>8. Single'
  BY <1>1, <1>2, <1>3 DEF Others, Shape, Ranges, Private, Owns, Single, Phases, Mine,
     Making, Taking
<1>9. Privacy'
  BY <1>1, <1>2, <1>3 DEF Others, Shape, Ranges, Private, Owns, Privacy, Phases, Unused,
     Uses, Mine, Making, Linking, Removing, Moving, Taking
<1>10. Owned'
  BY <1>1, <1>2, <1>3 DEF Others, Shape, Ranges, Private, Owns, Owned, Marks, Phases, Mine,
     Making, Taking, One
<1>11. Gone'
  BY <1>1 DEF Others, Shape, Gone, Unused, Uses, Making, Linking, Removing, Moving, One
<1>12. Sets'
  BY <1>1 DEF Others, Shape, Sets, Unhashed, Taking
<1>13. MakingInv'
  BY <1>1, <1>2 DEF Others, Shape, Ranges, MakingInv, Making
<1>14. LinkingInv'
  BY <1>1, <1>2 DEF Others, Shape, Ranges, LinkingInv, Linking
<1>15. RemovingInv'
  BY <1>1, <1>2 DEF Others, Shape, Ranges, RemovingInv, Removing, Detached
<1>16. MoveLocks'
  BY <1>1, <1>2 DEF Others, Shape, Ranges, MoveLocks, Moving
<1>17. MoveVictims'
  BY <1>1, <1>2 DEF Others, Shape, Ranges, MoveVictims, Moving, Detached
<1>18. MoveOld'
  BY <1>1 DEF Others, Shape, MoveOld
<1>19. MoveNew'
  BY <1>1 DEF Others, Shape, MoveNew, Moving
<1>20. MoveDirs'
  BY <1>1 DEF Others, Shape, MoveDirs, Moving
<1>21. Entries'
  BY <1>1 DEF Others, Shape, Entries, MovesTo, Moving
<1>22. OneEntry'
  BY <1>1 DEF Others, Shape, OneEntry, Doubles
<1>23. Tree'
  BY <1>1 DEF Others, Shape, Tree
<1>24. Rooted'
  BY <1>1 DEF Others, Shape, Rooted, Loose, Removing
<1>25. Shape'
  BY <1>4, <1>5, <1>6, <1>7, <1>8, <1>9, <1>10, <1>11, <1>12, <1>13, <1>14, <1>15, <1>16,
     <1>17, <1>18, <1>19, <1>20, <1>21, <1>22, <1>23, <1>24 DEF Shape
<1>26. Counts'
  <2>1. SUFFICES ASSUME NEW x \in live', ~Private(x)'
                 PROVE  nlink'[x] = LinksTo(x)' + Owed(x)'
    BY DEF Counts
  <2>2. x \in Inodes /\ x \in live /\ ~Private(x) /\ nlink[x] = LinksTo(x) + Owed(x)
    BY <1>1, <1>2, <1>3, <2>1 DEF Private, Owns, Mine, Taking, Others, Counts, Shape, Alloc,
       Owner
  <2>3. SameRest(p, x)
    BY <1>1, OthersOwe DEF Others
  <2>4. Elsewhere(ent, ent', <<0, 0>>) /\ Elsewhere(dotdot, dotdot', 0)
    BY <1>1 DEF Elsewhere
  <2>5. Balance(nlink', ent', dotdot', <<0, 0>>, 0, x, OwedBy(p, x)')
          = Balance(nlink, ent, dotdot, <<0, 0>>, 0, x, OwedBy(p, x))
    BY <1>1, <2>2 DEF Balance, Phases, OwedBy, Plus, Doubles, Dot, Linking, Removing, One,
       Shape, Trees
  <2> QED
    BY <1>25, <1>1, <2>2, <2>3, <2>4, <2>5, CountsStep
<1>27. Kept'
  <2>1. SUFFICES ASSUME NEW x \in live', ~(nlink'[x] > 0), x \notin opened', ~Private(x)',
                        \A q \in Procs : ~Dropped(q, x)'
                 PROVE  FALSE
    BY DEF Kept
  <2>2. nlink'[x] = 0 /\ Linkless(x)' /\ x \in Inodes /\ x \in live
    BY <1>25, <1>26, <1>1, <2>1, LastLinksNext DEF Shape, Alloc
  <2>3. nlink[x] = 0
    <3>1. op[p].call = "mkdir" => op[p].dir \in DOMAIN dotdot
      BY DEF Shape, MakingInv, Making
    <3> QED
      BY <1>1, <2>2, <3>1 DEF Linkless, One, Shape, Trees
  <2> QED
    BY <1>1, <1>2, <1>3, <2>1, <2>3 DEF Kept, Linkless, Dropped, Private, Owns, Mine,
       Taking, Others, Shape
<1> QED
  BY <1>25, <1>26, <1>27

\* ext2_create adds the entry.
LEMMA AddNondirKeeps ==
  ASSUME Shape, Counts, Kept, NEW p \in Procs,
         AddNondir(p)
  PROVE  Shape' /\ Counts' /\ Kept'
<1>1. /\ Others(p) /\ pc[p] = "got" /\ op[p].call = "create" /\ Mine(p)
      /\ pc'[p] = "idle" /\ op'[p].call = "none"
      /\ \A x \in Inodes : lock'[x] = IF lock[x] = p THEN NoProc ELSE lock[x]
      /\ <<op[p].dir, op[p].name>> \notin DOMAIN ent /\ op[p].dir \in Inodes /\ op[p].name \in Names
      /\ cur[p].ino \in Inodes
      /\ \A x \in Inodes : nlink'[x] = IF x = cur[p].ino THEN 1 ELSE nlink[x]
      /\ DOMAIN ent' = DOMAIN ent \cup {<<op[p].dir, op[p].name>>}
      /\ ent'[<<op[p].dir, op[p].name>>] = cur[p].ino
      /\ \A e \in DOMAIN ent : ent'[e] = ent[e]
      /\ UNCHANGED <<bitmap, dirs, leaked, live, fs_error, dotdot, opened, vanished>>
  BY CurFields DEF Others, Shape, Making, Locals, Trees, AddNondir, AddEntry, MakingInv,
     Mine, Return, Release, NoOp, Call, diskVars, ialloc, calm, Goto
<1>2. Ranges /\ Owner(p)
  BY RangesHold, OwnerKnows, <1>1
<1>3. /\ lock[op[p].dir] = p /\ op[p].dir \in DOMAIN dotdot /\ op[p].dir # cur[p].ino
      /\ cur[p].ino \notin dirs
  BY <1>1 DEF Shape, MakingInv, Making, Owned, Marks, Evicting
<1>4. Alloc' /\ ~fs_error'
  BY <1>1 DEF Shape, Alloc, AddNondir, countVars, ialloc, calm
<1>5. Locals'
  BY ReturnEffect DEF AddNondir, Shape
<1>6. Trees'
  <2>1. nlink' \in [Inodes -> Int]
    BY <1>1 DEF AddNondir, Shape, Trees
  <2>2. DOMAIN ent' \subseteq Inodes \X Names /\ IsFiniteSet(DOMAIN ent')
    <3>1. DOMAIN ent \subseteq Inodes \X Names /\ IsFiniteSet(DOMAIN ent)
      BY DEF Shape, Trees
    <3>2. IsFiniteSet(DOMAIN ent \cup {<<op[p].dir, op[p].name>>})
      BY <3>1, FS_AddElement
    <3> QED
      BY <1>1, <3>1, <3>2
  <2>3. lock' \in [Inodes -> Procs \cup {NoProc}]
    BY <1>1 DEF AddNondir, Return, Release, Shape, Trees
  <2> QED
    BY <1>1, <2>1, <2>2, <2>3 DEF Shape, Trees
<1>7. Phases'
  BY <1>1 DEF Others, Shape, Making, Moving, Phases, Allocating, Taking
<1>8. Single'
  BY <1>1 DEF Others, Shape, Single, Mine, Taking
<1>9. Privacy'
  BY <1>1, <1>2, <1>3 DEF Others, Shape, Owner, Uses, Making, Linking, Removing, Moving,
     Privacy, Unused, Mine, Taking
<1>10. Owned'
  BY <1>1, <1>2 DEF Others, Shape, Ranges, Making, Owned, Marks, Single, Mine, Taking
<1>11. Gone'
  BY <1>1, <1>2, <1>3 DEF Others, Shape, Owner, Uses, Making, Linking, Removing, Moving,
     Gone, Unused
<1>12. Sets'
  BY <1>1 DEF Others, Shape, Sets, Unhashed, Taking
<1>13. MakingInv'
  <2>1. SUFFICES ASSUME NEW q \in Procs, Making(q)'
                 PROVE  /\ lock'[op'[q].dir] = q /\ op'[q].dir \in DOMAIN dotdot'
                        /\ <<op'[q].dir, op'[q].name>> \notin DOMAIN ent'
                        /\ op'[q].name \in Names
                        /\ pc'[q] \in Allocating => (cur'[q].dir <=> op'[q].call = "mkdir")
    BY DEF MakingInv
  <2>2. Making(q)
    BY <1>1, <2>1 DEF Others, Making
  <2>3. /\ lock[op[q].dir] = q /\ op[q].dir \in DOMAIN dotdot
        /\ <<op[q].dir, op[q].name>> \notin DOMAIN ent
        /\ op[q].name \in Names /\ op[q].dir \in Inodes
        /\ pc[q] \in Allocating => (cur[q].dir <=> op[q].call = "mkdir")
    BY <1>2, <2>2 DEF Shape, MakingInv, Ranges
  <2>4. CASE q # p
    BY <1>1, <1>3, <2>3, <2>4 DEF Others
  <2>5. CASE q = p
    BY <1>1, <2>1, <2>5 DEF Making
  <2> QED
    BY <2>4, <2>5
<1>14. LinkingInv'
  <2>1. SUFFICES ASSUME NEW q \in Procs, Linking(q)'
                 PROVE  /\ lock'[op'[q].dir] = q /\ op'[q].dir \in DOMAIN dotdot'
                        /\ <<op'[q].dir, op'[q].name>> \notin DOMAIN ent'
                        /\ op'[q].name \in Names
                        /\ lock'[op'[q].ino] = q /\ op'[q].ino \in live' \ dirs'
                        /\ (\E e \in DOMAIN ent' : ent'[e] = op'[q].ino) \/ vanished'[op'[q].ino] > 0
    BY DEF LinkingInv
  <2>2. Linking(q) /\ q # p /\ op'[q] = op[q]
    BY <1>1, <2>1 DEF Others, Linking
  <2>3. /\ lock[op[q].dir] = q /\ op[q].dir \in DOMAIN dotdot
        /\ <<op[q].dir, op[q].name>> \notin DOMAIN ent
        /\ op[q].name \in Names /\ op[q].dir \in Inodes /\ op[q].ino \in Inodes
        /\ lock[op[q].ino] = q /\ op[q].ino \in live \ dirs
        /\ (\E e \in DOMAIN ent : ent[e] = op[q].ino) \/ vanished[op[q].ino] > 0
    BY <1>2, <2>2 DEF Shape, LinkingInv, Ranges
  <2> QED
    BY <1>1, <1>3, <2>2, <2>3
<1>15. RemovingInv'
  BY <1>1, <1>2, <1>3 DEF Others, Shape, Ranges, Removing, RemovingInv, Detached
<1>16. MoveLocks'
  BY <1>1, <1>2 DEF Others, Shape, Ranges, Moving, MoveLocks
<1>17. MoveVictims'
  BY <1>1, <1>2, <1>3 DEF Others, Shape, Ranges, Moving, MoveVictims, Detached
<1>18. MoveOld'
  BY <1>1 DEF Others, Shape, MoveOld
<1>19. MoveNew'
  BY <1>1 DEF Others, Shape, Moving, MoveNew
<1>20. MoveDirs'
  BY <1>1, <1>3 DEF Others, Shape, Moving, MoveDirs
<1>21. Entries'
  BY <1>1, <1>2, <1>3 DEF Others, Shape, Owner, Moving, Entries, MovesTo
<1>22. OneEntry'
  <2>1. SUFFICES ASSUME NEW e \in DOMAIN ent', NEW f \in DOMAIN ent',
                        ent'[e] = ent'[f], ent'[e] \in dirs', e # f
                 PROVE  \E q \in Procs : Doubles(q, ent[e])' /\ <<op'[q].dir, op'[q].name>> \in {e, f}
    BY DEF OneEntry
  <2>2. e \in DOMAIN ent /\ f \in DOMAIN ent /\ ent'[e] = ent[e] /\ ent'[f] = ent[f] /\ ent[e] \in dirs
    BY <1>1, <1>3, <2>1
  <2>3. PICK q \in Procs : Doubles(q, ent[e]) /\ <<op[q].dir, op[q].name>> \in {e, f}
    BY <2>1, <2>2 DEF Shape, OneEntry
  <2>4. q # p /\ op'[q] = op[q] /\ pc'[q] = pc[q]
    BY <1>1, <2>3 DEF Doubles, Others
  <2> QED
    BY <2>2, <2>3, <2>4 DEF Doubles
<1>23. Tree'
  BY <1>1 DEF Others, Shape, Tree
<1>24. Rooted'
  BY <1>1 DEF Others, Shape, Removing, Rooted, Loose
<1>25. Shape'
  BY <1>4, <1>5, <1>6, <1>7, <1>8, <1>9, <1>10, <1>11, <1>12, <1>13, <1>14, <1>15, <1>16,
     <1>17, <1>18, <1>19, <1>20, <1>21, <1>22, <1>23, <1>24 DEF Shape
<1>26. Counts'
  <2>1. SUFFICES ASSUME NEW x \in live', ~Private(x)'
                 PROVE  nlink'[x] = LinksTo(x)' + Owed(x)'
    BY DEF Counts
  <2>2. x \in Inodes /\ x \in live
    BY <1>1 DEF Shape, Alloc
  <2>3. SameRest(p, x)
    BY <1>1, OthersOwe
  <2> DEFINE e == <<op[p].dir, op[p].name>>
  <2>4. Elsewhere(ent, ent', e) /\ Elsewhere(dotdot, dotdot', 0)
    BY <1>1 DEF Elsewhere
  <2>5. OwedBy(p, x)' = 0
    BY <1>1 DEF OwedBy, Plus, Doubles, Dot, Linking, Removing, One
  <2>6. CASE x = cur[p].ino
    <3>1. Owed(x) = 0 /\ LinksTo(x) = 0 /\ nlink[x] = 0 /\ OwedBy(p, x) = 0
      BY <1>1, <1>2, <1>3, <2>6, OwnerOwes DEF Owner, One, OwedBy
    <3>2. At1(ent', e, x) /\ ~At1(ent, e, x)
      BY <1>1, <2>6 DEF At1
    <3>3. Balance(nlink', ent', dotdot', e, 0, x, OwedBy(p, x)')
            = Balance(nlink, ent, dotdot, e, 0, x, OwedBy(p, x))
      <4> HIDE DEF e
      <4> QED
        BY <1>1, <2>5, <2>6, <3>1, <3>2 DEF Balance, One
    <3> QED
      BY <1>25, <1>1, <2>2, <2>3, <2>4, <3>1, <3>3, CountsStep
  <2>7. CASE x # cur[p].ino
    <3>1. ~Private(x) /\ nlink[x] = LinksTo(x) + Owed(x)
      BY <1>1, <2>1, <2>7 DEF Private, Owns, Mine, Others, Counts
    <3>2. OwedBy(p, x) = 0
      BY <1>1 DEF OwedBy, Plus, Doubles, Dot, Linking, Removing, One, Shape
    <3>3. Balance(nlink', ent', dotdot', e, 0, x, OwedBy(p, x)')
            = Balance(nlink, ent, dotdot, e, 0, x, OwedBy(p, x))
      BY <1>1, <2>2, <2>5, <2>7, <3>2 DEF Balance, At1
    <3> QED
      BY <1>25, <1>1, <2>2, <2>3, <2>4, <3>1, <3>3, CountsStep
  <2> QED
    BY <2>6, <2>7
<1>27. Kept'
  BY <1>1 DEF Kept, Private, Owns, Mine, Dropped, Others, Shape, Alloc
<1> QED
  BY <1>25, <1>26, <1>27

\* ext2_create cannot add the entry and drops its inode.
LEMMA AddNondirFailsKeeps ==
  ASSUME Shape, Counts, Kept, NEW p \in Procs,
         AddNondirFails(p)
  PROVE  Shape' /\ Counts' /\ Kept'
<1>1. /\ Others(p) /\ pc[p] = "got" /\ op[p].call = "create" /\ pc'[p] = "evict"
      /\ cur'[p] = cur[p] /\ op'[p].call = op[p].call /\ op'[p].dir = op[p].dir /\ op'[p].name = op[p].name
      /\ UNCHANGED <<bitmap, dirs, leaked, live, fs_error, nlink, ent, dotdot, lock, opened, vanished>>
  BY DEF Others, Shape, Locals, AddNondirFails, OpRec, diskVars, ialloc, calm, Goto
<1>2. Ranges /\ Owner(p)
  BY RangesHold, OwnerKnows, <1>1 DEF Mine
<1>3. Alloc' /\ ~fs_error'
  BY <1>1 DEF Shape, Alloc, AddNondirFails, countVars, ialloc, calm
<1>4. Locals'
  <2>1. [op[p] EXCEPT !.ino = cur[p].ino] \in OpRec
    BY <1>2, OpIno DEF Shape, Locals, Ranges
  <2> QED
    BY <2>1 DEF AddNondirFails, MakeEmpty, Goto, Shape, Locals, Labels
<1>5. Trees'
  BY <1>1 DEF AddNondirFails, Shape, Trees
<1>6. Phases'
  BY <1>1 DEF Others, Shape, Making, Moving, Phases, Evicting
<1>7. Single'
  BY <1>1 DEF Others, Shape, Single, Mine
<1>8. Privacy'
  BY <1>1 DEF Others, Shape, Uses, Making, Linking, Removing, Moving, Privacy, Unused, Mine
<1>9. Owned'
  BY <1>1 DEF Others, Shape, Making, Owned, Marks, Mine, Evicting
<1>10. Gone'
  BY <1>1 DEF Others, Shape, Uses, Making, Linking, Removing, Moving, Gone, Unused
<1>11. Sets'
  BY <1>1 DEF Others, Shape, Sets, Unhashed, Taking
<1>12. MakingInv'
  <2>1. SUFFICES ASSUME NEW q \in Procs, Making(q)'
                 PROVE  /\ lock'[op'[q].dir] = q /\ op'[q].dir \in DOMAIN dotdot'
                        /\ <<op'[q].dir, op'[q].name>> \notin DOMAIN ent'
                        /\ op'[q].name \in Names
                        /\ pc'[q] \in Allocating => (cur'[q].dir <=> op'[q].call = "mkdir")
    BY DEF MakingInv
  <2>2. Making(q)
    BY <1>1, <2>1 DEF Others, Making
  <2>3. /\ lock[op[q].dir] = q /\ op[q].dir \in DOMAIN dotdot
        /\ <<op[q].dir, op[q].name>> \notin DOMAIN ent
        /\ op[q].name \in Names /\ op[q].dir \in Inodes
        /\ pc[q] \in Allocating => (cur[q].dir <=> op[q].call = "mkdir")
    BY <1>2, <2>2 DEF Shape, MakingInv, Ranges
  <2>4. CASE q # p
    BY <1>1, <2>3, <2>4 DEF Others
  <2>5. CASE q = p
    BY <1>1, <2>3, <2>5 DEF Allocating
  <2> QED
    BY <2>4, <2>5
<1>13. LinkingInv'
  BY <1>1 DEF Others, Shape, Linking, LinkingInv
<1>14. RemovingInv'
  BY <1>1 DEF Others, Shape, Removing, RemovingInv, Detached
<1>15. MoveLocks'
  BY <1>1 DEF Others, Shape, Moving, MoveLocks
<1>16. MoveVictims'
  BY <1>1 DEF Others, Shape, Moving, MoveVictims, Detached
<1>17. MoveOld'
  BY <1>1 DEF Others, Shape, MoveOld
<1>18. MoveNew'
  BY <1>1 DEF Others, Shape, Moving, MoveNew
<1>19. MoveDirs'
  BY <1>1 DEF Others, Shape, Moving, MoveDirs
<1>20. Entries'
  BY <1>1 DEF Others, Shape, Moving, Entries, MovesTo
<1>21. OneEntry'
  BY <1>1 DEF Others, Shape, OneEntry, Doubles
<1>22. Tree'
  BY <1>1 DEF Others, Shape, Tree
<1>23. Rooted'
  BY <1>1 DEF Others, Shape, Removing, Rooted, Loose
<1>24. Shape'
  BY <1>3, <1>4, <1>5, <1>6, <1>7, <1>8, <1>9, <1>10, <1>11, <1>12, <1>13, <1>14, <1>15,
     <1>16, <1>17, <1>18, <1>19, <1>20, <1>21, <1>22, <1>23 DEF Shape
<1>25. Counts'
  <2>1. SUFFICES ASSUME NEW x \in live', ~Private(x)'
                 PROVE  nlink'[x] = LinksTo(x)' + Owed(x)'
    BY DEF Counts
  <2>2. x \in Inodes /\ x \in live /\ ~Private(x) /\ nlink[x] = LinksTo(x) + Owed(x)
    BY <1>1, <2>1 DEF Private, Owns, Mine, Others, Counts, Shape, Alloc
  <2>3. SameRest(p, x)
    BY <1>1, OthersOwe DEF Others
  <2>4. Elsewhere(ent, ent', <<0, 0>>) /\ Elsewhere(dotdot, dotdot', 0)
    BY <1>1 DEF Elsewhere
  <2>5. Balance(nlink', ent', dotdot', <<0, 0>>, 0, x, OwedBy(p, x)')
          = Balance(nlink, ent, dotdot, <<0, 0>>, 0, x, OwedBy(p, x))
    BY <1>1 DEF OwedBy, Plus, Doubles, Dot, Linking, Removing, Shape
  <2> QED
    BY <1>24, <1>1, <2>2, <2>3, <2>4, <2>5, CountsStep
<1>26. Kept'
  BY <1>1 DEF Kept, Private, Owns, Mine, Dropped, Others, Shape
<1> QED
  BY <1>24, <1>25, <1>26

\* ext2_mkdir writes "." and "..", or fails.
LEMMA MakeEmptyKeeps ==
  ASSUME Shape, Counts, Kept, NEW p \in Procs,
         MakeEmpty(p)
  PROVE  Shape' /\ Counts' /\ Kept'
<1>1. /\ Others(p) /\ pc[p] = "got" /\ op[p].call = "mkdir" /\ Mine(p) /\ cur[p].ino \in Inodes
      /\ cur'[p] = cur[p] /\ op'[p].call = "mkdir" /\ op'[p].dir = op[p].dir /\ op'[p].name = op[p].name
      /\ op'[p].ino = cur[p].ino
      /\ \A x \in Inodes : nlink'[x] = IF x = cur[p].ino THEN 2 ELSE nlink[x]
      /\ \/ /\ pc'[p] = "add" /\ DOMAIN dotdot' = DOMAIN dotdot \cup {cur[p].ino}
            /\ dotdot'[cur[p].ino] = op[p].dir
            /\ \A x \in DOMAIN dotdot : x # cur[p].ino => dotdot'[x] = dotdot[x]
         \/ pc'[p] = "undo" /\ dotdot' = dotdot
      /\ UNCHANGED <<bitmap, dirs, leaked, live, fs_error, ent, lock, opened, vanished>>
  BY CurFields DEF Others, Shape, Locals, Trees, MakeEmpty, WithDir, Mine, OpRec, diskVars,
     ialloc, calm, Goto
<1>2. Ranges /\ Owner(p)
  BY RangesHold, OwnerKnows, <1>1
<1>3. /\ lock[op[p].dir] = p /\ op[p].dir \in DOMAIN dotdot /\ op[p].dir # cur[p].ino
      /\ cur[p].ino \in dirs
  BY <1>1 DEF Shape, MakingInv, Making, Owned, Marks, Evicting
<1>4. Alloc' /\ ~fs_error'
  BY <1>1 DEF Shape, Alloc, MakeEmpty, countVars, ialloc, calm
<1>5. Locals'
  <2>1. [op[p] EXCEPT !.ino = cur[p].ino] \in OpRec
    BY <1>2, OpIno DEF Shape, Locals, Ranges
  <2> QED
    BY <2>1 DEF AddNondirFails, MakeEmpty, Goto, Shape, Locals, Labels
<1>6. Trees'
  BY <1>1 DEF MakeEmpty, Shape, Trees
<1>7. Phases'
  BY <1>1 DEF Others, Shape, Making, Moving, Phases
<1>8. Single'
  BY <1>1 DEF Others, Shape, Single, Mine
<1>9. Privacy'
  BY <1>1, <1>3 DEF Others, Shape, Uses, Making, Linking, Removing, Moving, Privacy, Unused,
     Mine
<1>10. Owned'
  BY <1>1, <1>2 DEF Others, Shape, Ranges, Making, Owned, Marks, Single, Mine, Evicting
<1>11. Gone'
  BY <1>1, <1>2, <1>3 DEF Others, Shape, Owner, Uses, Making, Linking, Removing, Moving,
     Gone, Unused
<1>12. Sets'
  BY <1>1 DEF Others, Shape, Sets, Unhashed, Taking
<1>13. MakingInv'
  <2>1. SUFFICES ASSUME NEW q \in Procs, Making(q)'
                 PROVE  /\ lock'[op'[q].dir] = q /\ op'[q].dir \in DOMAIN dotdot'
                        /\ <<op'[q].dir, op'[q].name>> \notin DOMAIN ent'
                        /\ op'[q].name \in Names
                        /\ pc'[q] \in Allocating => (cur'[q].dir <=> op'[q].call = "mkdir")
    BY DEF MakingInv
  <2>2. Making(q)
    BY <1>1, <2>1 DEF Others, Making
  <2>3. /\ lock[op[q].dir] = q /\ op[q].dir \in DOMAIN dotdot
        /\ <<op[q].dir, op[q].name>> \notin DOMAIN ent
        /\ op[q].name \in Names /\ op[q].dir \in Inodes
        /\ pc[q] \in Allocating => (cur[q].dir <=> op[q].call = "mkdir")
    BY <1>2, <2>2 DEF Shape, MakingInv, Ranges
  <2>4. CASE q # p
    BY <1>1, <2>3, <2>4 DEF Others
  <2>5. CASE q = p
    BY <1>1, <2>3, <2>5 DEF Allocating
  <2> QED
    BY <2>4, <2>5
<1>14. LinkingInv'
  <2>1. SUFFICES ASSUME NEW q \in Procs, Linking(q)'
                 PROVE  /\ lock'[op'[q].dir] = q /\ op'[q].dir \in DOMAIN dotdot'
                        /\ <<op'[q].dir, op'[q].name>> \notin DOMAIN ent'
                        /\ op'[q].name \in Names
                        /\ lock'[op'[q].ino] = q /\ op'[q].ino \in live' \ dirs'
                        /\ (\E e \in DOMAIN ent' : ent'[e] = op'[q].ino) \/ vanished'[op'[q].ino] > 0
    BY DEF LinkingInv
  <2>2. Linking(q) /\ q # p /\ op'[q] = op[q]
    BY <1>1, <2>1 DEF Others, Linking
  <2>3. /\ lock[op[q].dir] = q /\ op[q].dir \in DOMAIN dotdot
        /\ <<op[q].dir, op[q].name>> \notin DOMAIN ent
        /\ op[q].name \in Names /\ op[q].dir \in Inodes /\ op[q].ino \in Inodes
        /\ lock[op[q].ino] = q /\ op[q].ino \in live \ dirs
        /\ (\E e \in DOMAIN ent : ent[e] = op[q].ino) \/ vanished[op[q].ino] > 0
    BY <1>2, <2>2 DEF Shape, LinkingInv, Ranges
  <2> QED
    BY <1>1, <2>2, <2>3
<1>15. RemovingInv'
  BY <1>1, <1>2, <1>3 DEF Others, Shape, Owner, Removing, RemovingInv, Detached
<1>16. MoveLocks'
  BY <1>1 DEF Others, Shape, Moving, MoveLocks
<1>17. MoveVictims'
  BY <1>1, <1>2, <1>3 DEF Others, Shape, Owner, Uses, Moving, MoveVictims, Detached
<1>18. MoveOld'
  BY <1>1 DEF Others, Shape, MoveOld
<1>19. MoveNew'
  BY <1>1 DEF Others, Shape, Moving, MoveNew
<1>20. MoveDirs'
  BY <1>1, <1>2, <1>3 DEF Others, Shape, Owner, Moving, MoveDirs
<1>21. Entries'
  BY <1>1, <1>2, <1>3 DEF Others, Shape, Owner, Moving, Entries, MovesTo
<1>22. OneEntry'
  BY <1>1 DEF Others, Shape, OneEntry, Doubles
<1>23. Tree'
  BY <1>1, <1>2, <1>3 DEF Others, Shape, Owner, Tree
<1>24. Rooted'
  BY <1>1 DEF Others, Shape, Removing, Rooted, Loose
<1>25. Shape'
  BY <1>4, <1>5, <1>6, <1>7, <1>8, <1>9, <1>10, <1>11, <1>12, <1>13, <1>14, <1>15, <1>16,
     <1>17, <1>18, <1>19, <1>20, <1>21, <1>22, <1>23, <1>24 DEF Shape
<1>26. Counts'
  <2>1. SUFFICES ASSUME NEW x \in live', ~Private(x)'
                 PROVE  nlink'[x] = LinksTo(x)' + Owed(x)'
    BY DEF Counts
  <2>2. x \in Inodes /\ x \in live /\ ~Private(x) /\ nlink[x] = LinksTo(x) + Owed(x)
    BY <1>1, <2>1 DEF Private, Owns, Mine, Others, Counts, Shape, Alloc
  <2>3. SameRest(p, x)
    BY <1>1, <1>2, OthersOwe DEF Others, Owner, Mine
  <2>4. Elsewhere(ent, ent', <<0, 0>>) /\ Elsewhere(dotdot, dotdot', cur[p].ino)
    BY <1>1 DEF Elsewhere
  <2>5. Balance(nlink', ent', dotdot', <<0, 0>>, cur[p].ino, x, OwedBy(p, x)')
          = Balance(nlink, ent, dotdot, <<0, 0>>, cur[p].ino, x, OwedBy(p, x))
    <3>0. x # cur[p].ino /\ op[p].dir # cur[p].ino /\ cur[p].ino \notin DOMAIN dotdot
      BY <1>1, <1>2, <1>3, <2>2 DEF Private, Owns, Owner
    <3>1. OwedBy(p, x) = One(op[p].dir = x)
      BY <1>1 DEF OwedBy, Plus, Doubles, Dot, Linking, Removing, One, Shape
    <3>2. OwedBy(p, x)' = One(op[p].dir = x /\ pc'[p] = "undo")
      BY <1>1, <3>0 DEF OwedBy, Plus, Doubles, Dot, One, Shape
    <3> QED
      BY <1>1, <2>2, <3>0, <3>1, <3>2 DEF Balance, One, At1, Shape, Trees
  <2> QED
    BY <1>25, <1>1, <2>2, <2>3, <2>4, <2>5, CountsStep
<1>27. Kept'
  BY <1>1 DEF Kept, Private, Owns, Mine, Dropped, Others, Shape, Alloc
<1> QED
  BY <1>25, <1>26, <1>27

\* ext2_mkdir adds the entry, or fails.
LEMMA AddDirKeeps ==
  ASSUME Shape, Counts, Kept, NEW p \in Procs,
         AddDir(p)
  PROVE  Shape' /\ Counts' /\ Kept'
<1>1. /\ Others(p) /\ pc[p] = "add" /\ op[p].call = "mkdir" /\ Mine(p)
      /\ <<op[p].dir, op[p].name>> \notin DOMAIN ent /\ op[p].dir \in Inodes /\ op[p].name \in Names
      /\ op[p].ino = cur[p].ino /\ cur[p].ino \in Inodes
      /\ \/ /\ pc'[p] = "idle" /\ op'[p].call = "none"
            /\ \A x \in Inodes : lock'[x] = IF lock[x] = p THEN NoProc ELSE lock[x]
            /\ DOMAIN ent' = DOMAIN ent \cup {<<op[p].dir, op[p].name>>}
            /\ ent'[<<op[p].dir, op[p].name>>] = cur[p].ino
            /\ \A e \in DOMAIN ent : ent'[e] = ent[e]
         \/ pc'[p] = "undo" /\ UNCHANGED <<ent, lock, op, cur>>
      /\ UNCHANGED <<bitmap, dirs, leaked, live, fs_error, nlink, dotdot, opened, vanished>>
  BY CurFields, OpFields DEF Others, Shape, Making, Locals, AddDir, AddEntry, MakingInv,
     Mine, Owned, Marks, Return, Release, NoOp, Call, diskVars, ialloc, calm, Goto
<1>2. Ranges /\ Owner(p)
  BY RangesHold, OwnerKnows, <1>1
<1>3. /\ lock[op[p].dir] = p /\ op[p].dir \in DOMAIN dotdot /\ op[p].dir # cur[p].ino
      /\ cur[p].ino \in dirs /\ cur[p].ino \in DOMAIN dotdot /\ dotdot[cur[p].ino] = op[p].dir
  BY <1>1, <1>2 DEF Owner, Uses, Shape, MakingInv, Making, Owned, Marks, Evicting
<1>4. Alloc' /\ ~fs_error'
  BY <1>1 DEF Shape, Alloc, AddDir, countVars, ialloc, calm
<1>5. Locals'
  <2>1. CASE Return(p)
    BY <2>1, ReturnEffect DEF Shape
  <2>2. CASE Goto(p, "undo") /\ UNCHANGED <<op, cur>>
    BY <2>2 DEF Goto, Shape, Locals, Labels
  <2> QED
    BY <2>1, <2>2 DEF AddDir
<1>6. Trees'
  <2>1. nlink' \in [Inodes -> Int]
    BY <1>1 DEF AddDir, Shape, Trees
  <2>2. DOMAIN ent' \subseteq Inodes \X Names /\ IsFiniteSet(DOMAIN ent')
    BY SMTT(30), <1>1, FS_AddElement DEF Shape, Trees
  <2>3. lock' \in [Inodes -> Procs \cup {NoProc}]
    BY <1>1 DEF AddDir, Return, Release, Shape, Trees
  <2> QED
    BY <1>1, <2>2, <2>3 DEF Shape, Trees
<1>7. Phases'
  BY <1>1 DEF Others, Shape, Making, Moving, Phases, Allocating, Taking
<1>8. Single'
  BY <1>1 DEF Others, Shape, Single, Mine, Taking
<1>9. Privacy'
  BY <1>1, <1>2, <1>3 DEF Others, Shape, Owner, Uses, Making, Linking, Removing, Moving,
     Privacy, Unused, Mine, Taking
<1>10. Owned'
  BY <1>1 DEF Others, Shape, Making, Owned, Marks, Mine, Taking, Evicting
<1>11. Gone'
  BY <1>1, <1>3 DEF Others, Shape, Uses, Making, Linking, Removing, Moving, Gone, Unused
<1>12. Sets'
  BY <1>1 DEF Others, Shape, Sets, Unhashed, Taking
<1>13. MakingInv'
  BY <1>1, <1>2, <1>3 DEF Others, Shape, Ranges, Making, Moving, MakingInv, Allocating,
     Taking
<1>14. LinkingInv'
  <2>1. SUFFICES ASSUME NEW q \in Procs, Linking(q)'
                 PROVE  /\ lock'[op'[q].dir] = q /\ op'[q].dir \in DOMAIN dotdot'
                        /\ <<op'[q].dir, op'[q].name>> \notin DOMAIN ent'
                        /\ op'[q].name \in Names
                        /\ lock'[op'[q].ino] = q /\ op'[q].ino \in live' \ dirs'
                        /\ (\E e \in DOMAIN ent' : ent'[e] = op'[q].ino) \/ vanished'[op'[q].ino] > 0
    BY DEF LinkingInv
  <2>2. Linking(q) /\ q # p /\ op'[q] = op[q]
    BY <1>1, <2>1 DEF Others, Linking
  <2>3. /\ lock[op[q].dir] = q /\ op[q].dir \in DOMAIN dotdot
        /\ <<op[q].dir, op[q].name>> \notin DOMAIN ent
        /\ op[q].name \in Names /\ op[q].dir \in Inodes /\ op[q].ino \in Inodes
        /\ lock[op[q].ino] = q /\ op[q].ino \in live \ dirs
        /\ (\E e \in DOMAIN ent : ent[e] = op[q].ino) \/ vanished[op[q].ino] > 0
    BY <1>2, <2>2 DEF Shape, LinkingInv, Ranges
  <2> QED
    BY <1>1, <1>3, <2>2, <2>3
<1>15. RemovingInv'
  BY <1>1, <1>2, <1>3 DEF Others, Shape, Ranges, Removing, RemovingInv, Detached
<1>16. MoveLocks'
  BY <1>1, <1>2 DEF Others, Shape, Ranges, Moving, MoveLocks
<1>17. MoveVictims'
  BY <1>1, <1>2, <1>3 DEF Others, Shape, Ranges, Owner, Uses, Moving, MoveVictims, Detached
<1>18. MoveOld'
  BY <1>1 DEF Others, Shape, MoveOld
<1>19. MoveNew'
  BY <1>1 DEF Others, Shape, Moving, MoveNew
<1>20. MoveDirs'
  BY <1>1, <1>2, <1>3 DEF Others, Shape, Owner, Uses, Moving, MoveDirs
<1>21. Entries'
  BY <1>1, <1>2, <1>3 DEF Others, Shape, Owner, Moving, Entries, MovesTo
<1>22. OneEntry'
  BY <1>1, <1>2, <1>3 DEF Others, Shape, Owner, OneEntry, Doubles
<1>23. Tree'
  BY <1>1 DEF Others, Shape, Tree
<1>24. Rooted'
  BY <1>1, <1>3 DEF Others, Shape, Removing, Rooted, Loose
<1>25. Shape'
  BY <1>4, <1>5, <1>6, <1>7, <1>8, <1>9, <1>10, <1>11, <1>12, <1>13, <1>14, <1>15, <1>16,
     <1>17, <1>18, <1>19, <1>20, <1>21, <1>22, <1>23, <1>24 DEF Shape
<1>26. Counts'
  <2>1. SUFFICES ASSUME NEW x \in live', ~Private(x)'
                 PROVE  nlink'[x] = LinksTo(x)' + Owed(x)'
    BY DEF Counts
  <2>2. x \in Inodes /\ x \in live
    BY <1>1 DEF Shape, Alloc
  <2>3. SameRest(p, x)
    BY <1>1, OthersOwe
  <2> DEFINE e == <<op[p].dir, op[p].name>>
  <2>4. Elsewhere(ent, ent', e) /\ Elsewhere(dotdot, dotdot', 0)
    BY <1>1 DEF Elsewhere
  <2>5. OwedBy(p, x)' = 0
    BY <1>1, <1>3 DEF OwedBy, Plus, Doubles, Dot, Linking, Removing, One
  <2>6. CASE x = cur[p].ino
    <3>1. Owed(x) = 0 /\ LinksTo(x) = 1 /\ nlink[x] = 2 /\ OwedBy(p, x) = 0
      BY <1>1, <1>2, <1>3, <2>6, OwnerOwes DEF Making, Owner, One, OwedBy
    <3>2. pc'[p] = "idle"
      BY <1>1, <2>1, <2>6 DEF Private, Owns, Mine
    <3>4. At1(ent', e, x) /\ ~At1(ent, e, x) /\ x \in DOMAIN dotdot /\ x # 0
      BY <1>1, <1>3, <2>6, <3>2, IallocAssumption DEF At1, Inodes
    <3>3. Balance(nlink', ent', dotdot', e, 0, x, OwedBy(p, x)')
            = Balance(nlink, ent, dotdot, e, 0, x, OwedBy(p, x)) - 1
      <4> HIDE DEF e
      <4> QED
        BY <1>1, <2>5, <3>1, <3>4 DEF Balance, One
    <3> QED
      BY <1>25, <1>1, <2>2, <2>3, <2>4, <3>1, <3>3, CountsFrom
  <2>7. CASE x # cur[p].ino
    <3>1. ~Private(x) /\ nlink[x] = LinksTo(x) + Owed(x)
      BY <1>1, <2>1, <2>7 DEF Private, Owns, Mine, Others, Counts
    <3>2. OwedBy(p, x) = 0
      BY <1>1 DEF OwedBy, Plus, Doubles, Dot, Linking, Removing, One, Shape
    <3>3. Balance(nlink', ent', dotdot', e, 0, x, OwedBy(p, x)')
            = Balance(nlink, ent, dotdot, e, 0, x, OwedBy(p, x))
      BY <1>1, <2>5, <2>7, <3>2 DEF Balance, At1
    <3> QED
      BY <1>25, <1>1, <2>2, <2>3, <2>4, <3>1, <3>3, CountsStep
  <2> QED
    BY <2>6, <2>7
<1>27. Kept'
  BY <1>1, <1>2, <1>3 DEF Kept, Private, Owns, Mine, Dropped, Others, Shape, Owner
<1> QED
  BY <1>25, <1>26, <1>27

\* ext2_mkdir takes back what it counted.
LEMMA MkdirUndoKeeps ==
  ASSUME Shape, Counts, Kept, NEW p \in Procs,
         MkdirUndo(p)
  PROVE  Shape' /\ Counts' /\ Kept'
<1>1. /\ Others(p) /\ pc[p] = "undo" /\ op[p].call = "mkdir" /\ Mine(p) /\ pc'[p] = "evict"
      /\ cur'[p] = cur[p] /\ op'[p] = op[p]
      /\ op[p].ino = cur[p].ino /\ cur[p].ino \in Inodes
      /\ \A x \in Inodes : nlink'[x] = IF x = cur[p].ino THEN nlink[x] - 2 ELSE nlink[x]
      /\ DOMAIN dotdot' = DOMAIN dotdot \ {cur[p].ino} /\ \A x \in DOMAIN dotdot' : dotdot'[x] = dotdot[x]
      /\ UNCHANGED <<bitmap, dirs, leaked, live, fs_error, ent, lock, opened, vanished>>
  BY CurFields DEF Others, Shape, Locals, Trees, MkdirUndo, Links, WithoutDirs, Phases,
     Mine, Owned, Marks, diskVars, ialloc, calm, Goto
<1>2. Ranges /\ Owner(p)
  BY RangesHold, OwnerKnows, <1>1
<1>3. Alloc' /\ ~fs_error'
  BY <1>1 DEF Shape, Alloc, MkdirUndo, countVars, ialloc, calm
<1>4. Locals'
  BY DEF MkdirUndo, Goto, Shape, Locals, Labels
<1>5. Trees'
  BY <1>1 DEF MkdirUndo, Shape, Trees, Links
<1>6. Phases'
  BY <1>1 DEF Others, Shape, Making, Moving, Phases, Evicting
<1>7. Single'
  BY <1>1 DEF Others, Shape, Single, Mine
<1>8. Privacy'
  BY <1>1 DEF Others, Shape, Uses, Making, Linking, Removing, Moving, Privacy, Unused, Mine
<1>9. Owned'
  BY <1>1, <1>2 DEF Others, Shape, Ranges, Making, Owned, Marks, Single, Mine, Evicting
<1>10. Gone'
  BY <1>1, <1>2 DEF Others, Shape, Owner, Uses, Making, Linking, Removing, Moving, Gone,
     Unused
<1>11. Sets'
  BY <1>1 DEF Others, Shape, Sets, Unhashed, Taking
<1>12. MakingInv'
  BY <1>1, <1>2 DEF Others, Shape, Owner, Uses, Making, MakingInv, Allocating, Taking
<1>13. LinkingInv'
  BY <1>1, <1>2 DEF Others, Shape, Owner, Uses, Linking, Removing, Moving, LinkingInv
<1>14. RemovingInv'
  BY <1>1, <1>2 DEF Others, Shape, Owner, Uses, Removing, RemovingInv, Detached
<1>15. MoveLocks'
  BY <1>1, <1>2 DEF Others, Shape, Owner, Uses, Moving, MoveLocks
<1>16. MoveVictims'
  BY <1>1, <1>2 DEF Others, Shape, Owner, Uses, Moving, MoveVictims, Detached
<1>17. MoveOld'
  BY <1>1 DEF Others, Shape, MoveOld
<1>18. MoveNew'
  BY <1>1 DEF Others, Shape, Moving, MoveNew
<1>19. MoveDirs'
  BY <1>1, <1>2 DEF Others, Shape, Owner, Uses, Moving, MoveDirs
<1>20. Entries'
  BY <1>1, <1>2 DEF Others, Shape, Owner, Moving, Entries, MovesTo
<1>21. OneEntry'
  BY <1>1 DEF Others, Shape, OneEntry, Doubles
<1>22. Tree'
  BY <1>1, <1>2 DEF Others, Shape, Owner, Tree
<1>23. Rooted'
  BY <1>1 DEF Others, Shape, Removing, Rooted, Loose
<1>24. Shape'
  BY <1>3, <1>4, <1>5, <1>6, <1>7, <1>8, <1>9, <1>10, <1>11, <1>12, <1>13, <1>14, <1>15,
     <1>16, <1>17, <1>18, <1>19, <1>20, <1>21, <1>22, <1>23 DEF Shape
<1>25. Counts'
  <2>1. SUFFICES ASSUME NEW x \in live', ~Private(x)'
                 PROVE  nlink'[x] = LinksTo(x)' + Owed(x)'
    BY DEF Counts
  <2>2. x \in Inodes /\ x \in live /\ ~Private(x) /\ nlink[x] = LinksTo(x) + Owed(x)
    BY <1>1, <2>1 DEF Private, Owns, Mine, Others, Counts, Shape, Alloc
  <2>3. SameRest(p, x)
    BY <1>1, <1>2, OthersOwe DEF Others, Owner, Mine
  <2>4. Elsewhere(ent, ent', <<0, 0>>) /\ Elsewhere(dotdot, dotdot', cur[p].ino)
    BY <1>1 DEF Elsewhere
  <2>5. Balance(nlink', ent', dotdot', <<0, 0>>, cur[p].ino, x, OwedBy(p, x)')
          = Balance(nlink, ent, dotdot, <<0, 0>>, cur[p].ino, x, OwedBy(p, x))
    <3>0. x # cur[p].ino /\ (cur[p].ino \in DOMAIN dotdot => dotdot[cur[p].ino] = op[p].dir)
      BY <1>1, <2>2 DEF Private, Owns, Shape, Owned, Marks
    <3>1. OwedBy(p, x) = One(op[p].dir = x /\ cur[p].ino \notin DOMAIN dotdot)
      BY <1>1 DEF OwedBy, Plus, Doubles, Dot, Linking, Removing, One, Shape
    <3>2. OwedBy(p, x)' = One(op[p].dir = x)
      BY <1>1 DEF OwedBy, Plus, Doubles, Dot, Linking, Removing, One, Shape
    <3> QED
      BY <1>1, <2>2, <3>0, <3>1, <3>2 DEF Balance, One, At1, Shape, Trees
  <2> QED
    BY <1>24, <1>1, <2>2, <2>3, <2>4, <2>5, CountsStep
<1>26. Kept'
  BY <1>1 DEF Kept, Private, Owns, Mine, Dropped, Others, Shape, Alloc
<1> QED
  BY <1>24, <1>25, <1>26

\* ext2_link adds the entry, or takes back what it counted.
LEMMA AddLinkKeeps ==
  ASSUME Shape, Counts, Kept, NEW p \in Procs,
         AddLink(p)
  PROVE  Shape' /\ Counts' /\ Kept'
<1>1. /\ Others(p) /\ pc[p] = "add" /\ op[p].call = "link"
      /\ pc'[p] = "idle" /\ op'[p].call = "none"
      /\ \A x \in Inodes : lock'[x] = IF lock[x] = p THEN NoProc ELSE lock[x]
      /\ <<op[p].dir, op[p].name>> \notin DOMAIN ent /\ op[p].dir \in Inodes /\ op[p].name \in Names
      /\ op[p].ino \in Inodes
      /\ \/ /\ DOMAIN ent' = DOMAIN ent \cup {<<op[p].dir, op[p].name>>}
            /\ ent'[<<op[p].dir, op[p].name>>] = op[p].ino
            /\ \A e \in DOMAIN ent : ent'[e] = ent[e]
            /\ nlink' = nlink
         \/ /\ ent' = ent
            /\ \A x \in Inodes : nlink'[x] = IF x = op[p].ino THEN nlink[x] - 1 ELSE nlink[x]
      /\ UNCHANGED <<bitmap, dirs, leaked, live, fs_error, dotdot, opened, vanished>>
  BY OpFields DEF Others, Shape, Locals, Trees, AddLink, AddEntry, Links, LinkingInv,
     Linking, Return, Release, NoOp, Call, diskVars, ialloc, calm, Goto
<1>2. Ranges
  BY RangesHold
<1>3. /\ lock[op[p].dir] = p /\ op[p].dir \in DOMAIN dotdot /\ lock[op[p].ino] = p
      /\ op[p].ino \in live /\ op[p].ino \notin dirs
  BY <1>1 DEF Shape, LinkingInv, Linking
<1>4. ~Private(op[p].ino) /\ ~Private(op[p].dir)
  BY <1>1, NotPrivate DEF Uses, Linking
<1>5. Alloc' /\ ~fs_error'
  BY <1>1 DEF Shape, Alloc, AddLink, countVars, ialloc, calm
<1>6. Locals'
  BY ReturnEffect DEF AddLink, Shape
<1>7. Trees'
  <2>1. nlink' \in [Inodes -> Int]
    BY <1>1 DEF AddLink, Links, Shape, Trees
  <2>2. DOMAIN ent' \subseteq Inodes \X Names /\ IsFiniteSet(DOMAIN ent')
    BY SMTT(30), <1>1, FS_AddElement DEF Shape, Trees
  <2>3. lock' \in [Inodes -> Procs \cup {NoProc}]
    BY <1>1 DEF AddLink, Return, Release, Shape, Trees
  <2> QED
    BY <1>1, <2>1, <2>2, <2>3 DEF Shape, Trees
<1>8. Phases'
  BY <1>1 DEF Others, Shape, Phases, Making, Moving, Allocating, Taking
<1>9. Single'
  BY <1>1 DEF Others, Shape, Single, Mine, Taking
<1>10. Privacy'
  BY <1>1, <1>3, <1>4 DEF Others, Shape, Private, Owns, Privacy, Unused, Uses, Mine, Making,
     Linking, Removing, Moving, Taking
<1>11. Owned'
  BY <1>1, <1>2, <1>4 DEF Others, Shape, Ranges, Private, Owns, Owned, Marks, Mine, Making,
     Taking
<1>12. Gone'
  BY <1>1, <1>3, <1>4 DEF Others, Shape, Private, Owns, Gone, Unused, Uses, Making, Linking,
     Removing, Moving
<1>13. Sets'
  BY <1>1 DEF Others, Shape, Sets, Unhashed, Taking
<1>14. MakingInv'
  BY <1>1, <1>2, <1>3 DEF Others, Shape, Ranges, MakingInv, Making
<1>15. LinkingInv'
  BY <1>1, <1>2, <1>3, <1>4 DEF Others, Shape, Ranges, Private, Owns, LinkingInv, Phases,
     Linking
<1>16. RemovingInv'
  BY <1>1, <1>2, <1>3 DEF Others, Shape, Ranges, RemovingInv, Removing, Detached
<1>17. MoveLocks'
  BY <1>1, <1>2 DEF Others, Shape, Ranges, MoveLocks, Moving
<1>18. MoveVictims'
  BY <1>1, <1>2, <1>3 DEF Others, Shape, Ranges, MoveVictims, Moving, Detached
<1>19. MoveOld'
  BY <1>1 DEF Others, Shape, MoveOld
<1>20. MoveNew'
  BY <1>1 DEF Others, Shape, MoveNew, Moving
<1>21. MoveDirs'
  BY <1>1, <1>3 DEF Others, Shape, MoveDirs, Moving
<1>22. Entries'
  BY <1>1, <1>3 DEF Others, Shape, Entries, MovesTo, Moving, Sets
<1>23. OneEntry'
  BY <1>1, <1>3 DEF Others, Shape, OneEntry, Doubles
<1>24. Tree'
  BY <1>1 DEF Others, Shape, Tree
<1>25. Rooted'
  BY <1>1 DEF Others, Shape, Rooted, Loose, Removing
<1>26. Shape'
  BY <1>5, <1>6, <1>7, <1>8, <1>9, <1>10, <1>11, <1>12, <1>13, <1>14, <1>15, <1>16, <1>17,
     <1>18, <1>19, <1>20, <1>21, <1>22, <1>23, <1>24, <1>25 DEF Shape
<1>27. Counts'
  <2>1. SUFFICES ASSUME NEW x \in live', ~Private(x)'
                 PROVE  nlink'[x] = LinksTo(x)' + Owed(x)'
    BY DEF Counts
  <2>2. x \in Inodes /\ x \in live /\ ~Private(x) /\ nlink[x] = LinksTo(x) + Owed(x)
    BY <1>1, <2>1 DEF Private, Owns, Mine, Taking, Others, Counts, Shape, Alloc
  <2>3. SameRest(p, x)
    BY <1>1, OthersOwe DEF Others
  <2>4. Elsewhere(ent, ent', <<op[p].dir, op[p].name>>) /\ Elsewhere(dotdot, dotdot', 0)
    BY <1>1 DEF Elsewhere
  <2>5. Balance(nlink', ent', dotdot', <<op[p].dir, op[p].name>>, 0, x, OwedBy(p, x)')
          = Balance(nlink, ent, dotdot, <<op[p].dir, op[p].name>>, 0, x, OwedBy(p, x))
    BY <1>1, <2>2 DEF Balance, OwedBy, Plus, Doubles, Dot, Linking, Removing, One, At1,
       Shape, Trees
  <2> QED
    BY <1>26, <1>1, <2>2, <2>3, <2>4, <2>5, CountsStep
<1>28. Kept'
  <2>1. SUFFICES ASSUME NEW x \in live', ~(nlink'[x] > 0), x \notin opened', ~Private(x)',
                        \A q \in Procs : ~Dropped(q, x)'
                 PROVE  FALSE
    BY DEF Kept
  <2>2. nlink'[x] = 0 /\ Linkless(x)' /\ x \in Inodes /\ x \in live
    BY <1>26, <1>27, <1>1, <2>1, LastLinksNext DEF Shape, Alloc
  <2>3. nlink[x] = 0
    <3>1. (\E e \in DOMAIN ent : ent[e] = op[p].ino) \/ vanished[op[p].ino] > 0
      BY <1>1 DEF Shape, LinkingInv, Linking
    <3> QED
      BY <1>1, <2>2, <3>1 DEF Linkless, Shape
  <2> QED
    BY <1>1, <1>3, <2>1, <2>3 DEF Kept, Dropped, Private, Owns, Mine, Taking, Others, Shape
<1> QED
  BY <1>26, <1>27, <1>28

\* ext2_unlink drops the link of the entry it has deleted.
LEMMA UnlinkDecKeeps ==
  ASSUME Shape, Counts, Kept, NEW p \in Procs,
         UnlinkDec(p)
  PROVE  Shape' /\ Counts' /\ Kept'
<1>1. /\ Others(p) /\ pc[p] = "dec" /\ op[p].call = "unlink" /\ op[p].ino \in Inodes
      /\ \A x \in Inodes : lock'[x] = IF lock[x] = p THEN NoProc ELSE lock[x]
      /\ \/ /\ pc'[p] = "evict" /\ cur'[p].ino = op[p].ino /\ op'[p].ino = op[p].ino
            /\ op'[p].call = op[p].call /\ nlink[op[p].ino] - 1 = 0 /\ op[p].ino \notin opened
         \/ /\ pc'[p] = "idle" /\ op'[p].call = "none"
            /\ nlink[op[p].ino] - 1 # 0 \/ op[p].ino \in opened
      /\ \A x \in Inodes : nlink'[x] = IF x = op[p].ino THEN nlink[x] - 1 ELSE nlink[x]
      /\ UNCHANGED <<bitmap, dirs, leaked, live, fs_error, ent, dotdot, opened, vanished>>
  BY DEF Others, Shape, Locals, Trees, UnlinkDec, Links, Iput, Release, NoOp, Call, OpRec,
     CurRec, diskVars, ialloc, calm, Goto
<1>2. Ranges
  BY RangesHold
<1>3. /\ lock[op[p].ino] = p /\ op[p].ino \in live /\ op[p].ino \notin dirs
  BY <1>1 DEF Shape, RemovingInv, Removing
<1>4. ~Private(op[p].ino)
  BY <1>1, NotPrivate DEF Uses, Removing
<1>5. nlink[op[p].ino] = 1 => Linkless(op[p].ino)
  BY <1>1, <1>3, <1>4, LastLink DEF Plus, Removing
<1>6. nlink[op[p].ino] = 1 => \A q \in Procs \ {p} : ~Uses(q, op[p].ino)
  BY <1>3, <1>5, LockedApart DEF Linkless
<1>7. Alloc' /\ ~fs_error'
  BY <1>1 DEF Shape, Alloc, UnlinkDec, countVars, ialloc, calm
<1>8. Locals'
  BY <1>1, IputEffect DEF UnlinkDec, Shape
<1>9. Trees'
  BY <1>1 DEF UnlinkDec, Shape, Trees, Links, Release
<1>10. Phases'
  BY <1>1 DEF Others, Shape, Phases, Making, Moving, Allocating, Taking
<1>11. Single'
  BY <1>1 DEF Others, Shape, Single, Owned, Marks, Mine, Taking
<1>12. Privacy'
  <2>1. ASSUME NEW q \in Procs \ {p}, Mine(q)'
        PROVE  Unused(cur[q].ino)'
    <3>1. Mine(q) /\ cur'[q] = cur[q]
      BY <1>1, <2>1 DEF Others, Mine
    <3>2. Owner(q)
      BY <3>1, OwnerKnows
    <3> QED
      BY <1>1, <3>2 DEF Others, Owner, Unused, Uses, Making, Linking, Removing, Moving
  <2>2. ASSUME Mine(p)'
        PROVE  Unused(cur[p].ino)'
    <3>1. pc'[p] = "evict" /\ cur'[p].ino = op[p].ino /\ Linkless(op[p].ino) /\ op[p].ino \notin opened
          /\ \A q \in Procs \ {p} : ~Uses(q, op[p].ino)
      BY <1>1, <1>5, <1>6, <2>2, LastLink DEF Mine, Taking
    <3> QED
      BY <1>1, <3>1 DEF Others, Unused, Uses, Making, Linking, Removing, Moving, Linkless,
         Shape, Entries
  <2> QED
    BY <2>1, <2>2 DEF Privacy
<1>13. Owned'
  <2>1. ASSUME NEW q \in Procs \ {p}, Mine(q)'
        PROVE  Marks(q)'
    <3>1. Mine(q) /\ cur'[q] = cur[q] /\ pc'[q] = pc[q] /\ op'[q] = op[q]
      BY <1>1, <2>1 DEF Others, Mine
    <3>2. Marks(q) /\ cur[q].ino \in Inodes /\ Owns(q, cur[q].ino)
      BY <1>2, <3>1 DEF Shape, Owned, Ranges, Owns
    <3> QED
      BY <1>1, <3>1, <3>2, <1>4 DEF Marks, Making, Private
  <2>2. ASSUME Mine(p)'
        PROVE  Marks(p)'
    <3>1. pc'[p] = "evict" /\ cur'[p].ino = op[p].ino /\ op'[p].call = "unlink" /\ nlink[op[p].ino] = 1
          /\ Linkless(op[p].ino) /\ op[p].ino \in bitmap \ leaked
      BY <1>1, <1>3, <1>5, <2>2, LastLink DEF Mine, Taking, Shape, Sets
    <3>2. op[p].ino >= EXT2_FIRST_INO
      BY <1>1, <1>3 DEF Shape, Sets
    <3> QED
      BY <1>1, <1>3, <3>1, <3>2 DEF Marks, Linkless
  <2> QED
    BY <2>1, <2>2 DEF Owned
<1>14. Gone'
  BY <1>1, <1>3, <1>4, <1>5, <1>6 DEF Others, Shape, Private, Owns, Gone, Unused, Uses,
     Making, Linking, Removing, Moving
<1>15. Sets'
  BY <1>1 DEF Others, Shape, Sets, Unhashed, Taking
<1>16. MakingInv'
  BY <1>1, <1>2 DEF Others, Shape, Ranges, MakingInv, Making
<1>17. LinkingInv'
  BY <1>1, <1>2, <1>3, <1>5 DEF Others, Shape, Ranges, LinkingInv, Linking
<1>18. RemovingInv'
  BY <1>1, <1>2 DEF Others, Shape, Ranges, RemovingInv, Removing, Detached
<1>19. MoveLocks'
  BY <1>1, <1>2 DEF Others, Shape, Ranges, MoveLocks, Moving
<1>20. MoveVictims'
  BY <1>1, <1>2 DEF Others, Shape, Ranges, MoveVictims, Moving, Detached
<1>21. MoveOld'
  BY <1>1 DEF Others, Shape, MoveOld
<1>22. MoveNew'
  BY <1>1 DEF Others, Shape, MoveNew, Moving
<1>23. MoveDirs'
  BY <1>1 DEF Others, Shape, MoveDirs, Moving
<1>24. Entries'
  BY <1>1 DEF Others, Shape, Entries, MovesTo, Moving
<1>25. OneEntry'
  BY <1>1 DEF Others, Shape, OneEntry, Doubles
<1>26. Tree'
  BY <1>1 DEF Others, Shape, Tree
<1>27. Rooted'
  BY <1>1, <1>3 DEF Others, Shape, Rooted, Loose, Removing, Tree
<1>28. Shape'
  BY <1>7, <1>8, <1>9, <1>10, <1>11, <1>12, <1>13, <1>14, <1>15, <1>16, <1>17, <1>18, <1>19,
     <1>20, <1>21, <1>22, <1>23, <1>24, <1>25, <1>26, <1>27 DEF Shape
<1>29. Counts'
  <2>1. SUFFICES ASSUME NEW x \in live', ~Private(x)'
                 PROVE  nlink'[x] = LinksTo(x)' + Owed(x)'
    BY DEF Counts
  <2>2. x \in Inodes /\ x \in live /\ ~Private(x) /\ nlink[x] = LinksTo(x) + Owed(x)
    BY <1>1, <2>1 DEF Private, Owns, Mine, Taking, Others, Counts, Shape, Alloc
  <2>3. SameRest(p, x)
    BY <1>1, OthersOwe DEF Others
  <2>4. Elsewhere(ent, ent', <<0, 0>>) /\ Elsewhere(dotdot, dotdot', 0)
    BY <1>1 DEF Elsewhere
  <2>5. Balance(nlink', ent', dotdot', <<0, 0>>, 0, x, OwedBy(p, x)')
          = Balance(nlink, ent, dotdot, <<0, 0>>, 0, x, OwedBy(p, x))
    <3>1. OwedBy(p, x) = One(x = op[p].ino)
      BY <1>1 DEF OwedBy, Plus, Doubles, Dot, Removing, One, Shape
    <3>2. OwedBy(p, x)' = 0
      BY <1>1 DEF OwedBy, Plus, Doubles, Dot, Linking, Removing, One, Shape
    <3> QED
      BY <1>1, <2>2, <3>1, <3>2 DEF Balance, One, Shape, Trees
  <2> QED
    BY <1>28, <1>1, <2>2, <2>3, <2>4, <2>5, CountsStep
<1>30. Kept'
  <2>1. SUFFICES ASSUME NEW x \in live', ~(nlink'[x] > 0), x \notin opened', ~Private(x)',
                        \A q \in Procs : ~Dropped(q, x)'
                 PROVE  FALSE
    BY DEF Kept
  <2>2. nlink'[x] = 0 /\ Linkless(x)' /\ x \in Inodes /\ x \in live
    BY <1>28, <1>29, <1>1, <2>1, LastLinksNext DEF Shape, Alloc
  <2>3. x # op[p].ino
    BY <1>1, <2>1, <2>2 DEF Private, Owns, Mine
  <2> QED
    BY <1>1, <2>1, <2>2, <2>3 DEF Kept, Dropped, Private, Owns, Mine, Taking, Others, Shape
<1> QED
  BY <1>28, <1>29, <1>30

\* ext2_rmdir drops the links of the directory and of its parent.
LEMMA RmdirDecKeeps ==
  ASSUME Shape, Counts, Kept, NEW p \in Procs,
         RmdirDec(p)
  PROVE  Shape' /\ Counts' /\ Kept'
<1>1. /\ Others(p) /\ pc[p] = "dec" /\ op[p].call = "rmdir" /\ op[p].ino \in Inodes /\ op[p].dir \in Inodes
      /\ \A x \in Inodes : lock'[x] = IF lock[x] = p THEN NoProc ELSE lock[x]
      /\ \/ /\ pc'[p] = "evict" /\ cur'[p].ino = op[p].ino /\ op'[p].ino = op[p].ino
            /\ op'[p].call = op[p].call /\ nlink[op[p].ino] - 2 = 0 /\ op[p].ino \notin opened
         \/ /\ pc'[p] = "idle" /\ op'[p].call = "none"
            /\ nlink[op[p].ino] - 2 # 0 \/ op[p].ino \in opened
      /\ op[p].ino # op[p].dir
      /\ \A x \in Inodes : nlink'[x] = IF x = op[p].ino THEN nlink[x] - 2
                                     ELSE IF x = op[p].dir THEN nlink[x] - 1 ELSE nlink[x]
      /\ DOMAIN dotdot' = DOMAIN dotdot \ {op[p].ino} /\ \A x \in DOMAIN dotdot' : dotdot'[x] = dotdot[x]
      /\ DOMAIN ent' = {f \in DOMAIN ent : f[1] # op[p].ino} /\ \A e \in DOMAIN ent' : ent'[e] = ent[e]
      /\ UNCHANGED <<bitmap, dirs, leaked, live, fs_error, opened>>
  BY DEF Others, Shape, Locals, Trees, RmdirDec, WithoutDirs, Bury, Iput, Release, NoOp, Call,
     OpRec, CurRec, diskVars, ialloc, calm, Goto
<1>2. Ranges
  BY RangesHold
<1>3. /\ lock[op[p].ino] = p /\ lock[op[p].dir] = p /\ op[p].ino \in live /\ op[p].ino \in dirs
      /\ Detached(op[p].ino) /\ dotdot[op[p].ino] = op[p].dir
  BY <1>1 DEF Shape, RemovingInv, Removing
<1>4. ~Private(op[p].ino) /\ ~Private(op[p].dir)
  BY <1>1, NotPrivate DEF Uses, Removing
<1>5. \A q \in Procs \ {p} : ~Uses(q, op[p].ino)
  BY <1>3, LockedApart DEF Detached
<1>6. Bury({op[p].ino})
  BY DEF RmdirDec
<1>7. vanished' \in [Inodes -> Nat] /\ \A x \in Inodes : Gained(x)
  BY <1>6, Buried DEF Shape
<1>8. \A e \in DOMAIN ent : ent[e] # op[p].ino
  BY <1>3 DEF Detached
<1>9. vanished'[op[p].ino] = vanished[op[p].ino]
  BY <1>1, <1>7, <1>8 DEF Gained
<1>10. nlink[op[p].ino] = 2 => /\ vanished[op[p].ino] = 0
                               /\ \A d \in DOMAIN dotdot : dotdot[d] # op[p].ino
  BY <1>1, <1>3, <1>4, LastDirectory DEF Plus, Removing
<1>11. Alloc' /\ ~fs_error'
  BY <1>1 DEF Shape, Alloc, RmdirDec, countVars, ialloc, calm
<1>12. Locals'
  BY <1>1, IputEffect DEF RmdirDec, Shape
<1>13. Trees'
  <2>1. lock' \in [Inodes -> Procs \cup {NoProc}]
    BY DEF RmdirDec, Shape, Trees, Release
  <2>2. DOMAIN ent' \subseteq Inodes \X Names /\ IsFiniteSet(DOMAIN ent')
    BY <1>1, FS_Subset DEF Shape, Trees
  <2>3. nlink' \in [Inodes -> Int]
    BY <1>1 DEF RmdirDec, Shape, Trees
  <2> QED
    BY <1>1, <1>7, <2>1, <2>2, <2>3 DEF Shape, Trees
<1>14. Phases'
  BY <1>1 DEF Others, Shape, Phases, Making, Moving, Allocating, Taking
<1>15. Single'
  BY <1>1, <1>4 DEF Others, Shape, Private, Owns, Single, Mine, Taking
<1>16. Privacy'
  <2>1. ASSUME NEW q \in Procs \ {p}, Mine(q)'
        PROVE  Unused(cur[q].ino)'
    <3>1. Mine(q) /\ cur'[q] = cur[q]
      BY <1>1, <2>1 DEF Others, Mine
    <3>2. Owner(q)
      BY <3>1, OwnerKnows
    <3> QED
      BY <1>1, <3>2 DEF Others, Owner, Unused, Uses, Making, Linking, Removing, Moving
  <2>2. ASSUME Mine(p)'
        PROVE  Unused(cur[p].ino)'
    <3>1. pc'[p] = "evict" /\ cur'[p].ino = op[p].ino /\ op[p].ino \notin opened
      BY <1>1, <2>2 DEF Mine, Taking
    <3>2. nlink[op[p].ino] = 2
      BY <1>1, <3>1 DEF Shape, Trees
    <3> QED
      BY <1>1, <1>5, <1>8, <1>10, <3>1, <3>2 DEF Others, Unused, Uses, Making, Linking, Removing, Moving
  <2> QED
    BY <2>1, <2>2 DEF Privacy
<1>17. Owned'
  <2>1. ASSUME NEW q \in Procs \ {p}, Mine(q)'
        PROVE  Marks(q)'
    <3>1. Mine(q) /\ cur'[q] = cur[q] /\ pc'[q] = pc[q] /\ op'[q] = op[q]
      BY <1>1, <2>1 DEF Others, Mine
    <3>2. Marks(q) /\ cur[q].ino \in Inodes /\ Owns(q, cur[q].ino)
      BY <1>2, <3>1 DEF Shape, Owned, Ranges, Owns
    <3>3. vanished'[cur[q].ino] = 0
      BY <1>7, <3>1, OwnerKnows DEF Owner, Gained
    <3> QED
      BY <1>1, <3>1, <3>2, <3>3, <1>4 DEF Marks, Making, Private
  <2>2. ASSUME Mine(p)'
        PROVE  Marks(p)'
    <3>1. /\ pc'[p] = "evict" /\ cur'[p].ino = op[p].ino /\ op'[p].call = "rmdir"
          /\ nlink[op[p].ino] - 2 = 0 /\ op[p].ino \in bitmap \ leaked
      BY <1>1, <1>3, <2>2 DEF Mine, Taking, Shape, Sets
    <3>2. op[p].ino >= EXT2_FIRST_INO
      BY <1>1, <1>3 DEF Shape, Sets, Detached
    <3>3. vanished'[op[p].ino] = 0
      BY <1>1, <1>9, <1>10, <3>1 DEF Shape, Trees
    <3> QED
      BY <1>1, <1>3, <3>1, <3>2, <3>3 DEF Marks, Evicting
  <2> QED
    BY <2>1, <2>2 DEF Owned
<1>18. Gone'
  <2>1. SUFFICES ASSUME NEW x \in Inodes \ live
                 PROVE  Unused(x)' /\ x \notin DOMAIN dotdot' /\ nlink'[x] = 0 /\ vanished'[x] = 0
    BY <1>1 DEF Gone
  <2>2. Unused(x) /\ x \notin DOMAIN dotdot /\ nlink[x] = 0 /\ vanished[x] = 0
    BY DEF Shape, Gone
  <2>3. x # op[p].ino /\ x # op[p].dir
    BY <1>1, <1>3, <2>2 DEF Unused, Uses, Removing
  <2>4. vanished'[x] = 0
    BY <1>7, <2>2 DEF Unused, Gained
  <2> QED
    BY <1>1, <2>2, <2>3, <2>4 DEF Others, Unused, Uses, Making, Linking, Removing, Moving
<1>19. Sets'
  BY <1>1 DEF Others, Shape, Sets, Unhashed, Taking
<1>20. MakingInv'
  BY <1>1, <1>2, <1>3, <1>4, <1>5 DEF Others, Shape, Ranges, Private, Owns, MakingInv,
     Making
<1>21. LinkingInv'
  <2>1. SUFFICES ASSUME NEW q \in Procs, Linking(q)'
                 PROVE  /\ lock'[op'[q].dir] = q /\ op'[q].dir \in DOMAIN dotdot'
                        /\ <<op'[q].dir, op'[q].name>> \notin DOMAIN ent'
                        /\ op'[q].name \in Names
                        /\ lock'[op'[q].ino] = q /\ op'[q].ino \in live' \ dirs'
                        /\ (\E e \in DOMAIN ent' : ent'[e] = op'[q].ino) \/ vanished'[op'[q].ino] > 0
    BY DEF LinkingInv
  <2>2. Linking(q) /\ q # p /\ op'[q] = op[q]
    BY <1>1, <2>1 DEF Others, Linking, Shape, Phases
  <2>3. /\ lock[op[q].dir] = q /\ op[q].dir \in DOMAIN dotdot
        /\ <<op[q].dir, op[q].name>> \notin DOMAIN ent
        /\ op[q].name \in Names /\ op[q].dir \in Inodes /\ op[q].ino \in Inodes
        /\ lock[op[q].ino] = q /\ op[q].ino \in live \ dirs
        /\ (\E e \in DOMAIN ent : ent[e] = op[q].ino) \/ vanished[op[q].ino] > 0
    BY <1>2, <2>2 DEF Shape, LinkingInv, Ranges
  <2>4. op[q].dir # op[p].ino
    BY <1>5, <2>2 DEF Uses
  <2>5. /\ vanished'[op[q].ino] >= vanished[op[q].ino]
        /\ vanished[op[q].ino] \in Nat /\ vanished'[op[q].ino] \in Nat
        /\ \A e \in DOMAIN ent : ent[e] = op[q].ino => e \in DOMAIN ent' \/ vanished'[op[q].ino] > 0
    BY <1>7, <2>3 DEF Gained, Shape, Trees
  <2> QED
    BY <1>1, <2>2, <2>3, <2>4, <2>5
<1>22. RemovingInv'
  BY <1>1, <1>2 DEF Others, Shape, Ranges, RemovingInv, Removing, Detached
<1>23. MoveLocks'
  BY <1>1, <1>2, <1>3 DEF Others, Shape, Ranges, MoveLocks, Moving
<1>24. MoveVictims'
  BY <1>1, <1>2, <1>3 DEF Others, Shape, Ranges, MoveVictims, Moving, Detached
<1>25. MoveOld'
  BY <1>1, <1>5 DEF Uses, Moving, Others, Shape, MoveOld
<1>26. MoveNew'
  BY <1>1, <1>5 DEF Uses, Others, Shape, MoveNew, Moving
<1>27. MoveDirs'
  BY <1>1, <1>3 DEF Others, Shape, MoveDirs, Moving, Detached, MoveNew
<1>28. Entries'
  BY <1>1, <1>8 DEF Others, Shape, Entries, MovesTo, Moving, Detached
<1>29. OneEntry'
  BY <1>1 DEF Others, Shape, OneEntry, Doubles
<1>30. Tree'
  BY <1>1, <1>3 DEF Others, Shape, Tree, Detached
<1>31. Rooted'
  <2>1. SUFFICES ASSUME NEW x \in DOMAIN dotdot' \ {EXT2_ROOT_INO}
                 PROVE  \/ \E e \in DOMAIN ent' : e[1] = dotdot'[x] /\ ent'[e] = x
                        \/ vanished'[x] > 0
                        \/ \E q \in Procs : Loose(q, x)'
    BY DEF Rooted
  <2>2. /\ x \in Inodes /\ x # op[p].ino /\ dotdot'[x] = dotdot[x]
        /\ vanished[x] \in Nat /\ vanished'[x] \in Nat
    BY <1>1, <1>2, <1>7 DEF Shape, Trees, Ranges
  <2>3. CASE \E e \in DOMAIN ent : e[1] = dotdot[x] /\ ent[e] = x
    BY <1>1, <1>7, <2>2, <2>3 DEF Gained
  <2>4. CASE vanished[x] > 0
    BY <1>7, <2>2, <2>4 DEF Gained
  <2>5. CASE \E q \in Procs : Loose(q, x)
    <3>1. PICK q \in Procs : Loose(q, x)
      BY <2>5
    <3>2. q # p
      BY <1>1, <2>2, <3>1 DEF Loose, Removing
    <3> QED
      BY <1>1, <3>1, <3>2 DEF Others, Loose, Removing
  <2> QED
    BY <1>1, <2>1, <2>3, <2>4, <2>5 DEF Shape, Rooted
<1>32. Shape'
  BY <1>11, <1>12, <1>13, <1>14, <1>15, <1>16, <1>17, <1>18, <1>19, <1>20, <1>21, <1>22, <1>23,
     <1>24, <1>25, <1>26, <1>27, <1>28, <1>29, <1>30, <1>31 DEF Shape
<1>33. Counts'
  <2>1. SUFFICES ASSUME NEW x \in live', ~Private(x)'
                 PROVE  nlink'[x] = LinksTo(x)' + Owed(x)'
    BY DEF Counts
  <2>2. x \in Inodes /\ x \in live /\ ~Private(x) /\ nlink[x] = LinksTo(x) + Owed(x)
    BY <1>1, <2>1 DEF Private, Owns, Mine, Taking, Others, Counts, Shape, Alloc
  <2>3. SameRest(p, x)
    BY <1>1, <1>4, OthersOwe DEF Others, Private, Owns, Mine
  <2>4. Elsewhere(dotdot, dotdot', op[p].ino)
    BY <1>1 DEF Elsewhere
  <2>5. Balance(nlink', ent', dotdot', <<0, 0>>, op[p].ino, x, OwedBy(p, x)')
          = Balance(nlink, ent, dotdot, <<0, 0>>, op[p].ino, x, OwedBy(p, x))
    <3>1. OwedBy(p, x) = One(x = op[p].ino)
      BY <1>1 DEF OwedBy, Plus, Doubles, Dot, Removing, One, Shape
    <3>2. OwedBy(p, x)' = 0
      BY <1>1 DEF OwedBy, Plus, Doubles, Dot, Linking, Removing, One, Shape
    <3>3. ~At1(ent, <<0, 0>>, x) /\ ~At1(ent', <<0, 0>>, x)
      BY NoZero, <1>32 DEF At1, Shape
    <3> QED
      BY <1>1, <1>3, <2>2, <3>1, <3>2, <3>3 DEF Balance, One, At1, Shape, Trees, Tree, Detached
  <2> QED
    BY <1>32, <1>1, <1>6, <2>2, <2>3, <2>4, <2>5, CountsBuried
<1>34. Kept'
  <2>1. SUFFICES ASSUME NEW x \in live', ~(nlink'[x] > 0), x \notin opened', ~Private(x)',
                        \A q \in Procs : ~Dropped(q, x)'
                 PROVE  FALSE
    BY DEF Kept
  <2>2. nlink'[x] = 0 /\ Linkless(x)' /\ x \in Inodes /\ x \in live
    BY <1>32, <1>33, <1>1, <2>1, LastLinksNext DEF Shape, Alloc
  <2>3. x # op[p].dir
    BY <1>1, <2>2 DEF Linkless, Shape, RemovingInv, Removing
  <2>4. x # op[p].ino
    BY <1>1, <2>1, <2>2 DEF Private, Owns, Mine
  <2> QED
    BY <1>1, <1>2, <1>3, <2>1, <2>2, <2>3, <2>4 DEF Kept, Dropped, Private, Owns, Mine,
       Taking, Others, Shape
<1> QED
  BY <1>32, <1>33, <1>34

\* ext2_rename drops the links of the inode that had the new name.
LEMMA DropVictimKeeps ==
  ASSUME Shape, Counts, Kept, NEW p \in Procs,
         DropVictim(p)
  PROVE  Shape' /\ Counts' /\ Kept'
<1>1. /\ Others(p) /\ pc[p] = "drop" /\ pc'[p] = "delete" /\ cur'[p] = cur[p] /\ op'[p] = op[p]
      /\ op[p].victim \subseteq Inodes
      /\ \A x \in Inodes : nlink'[x] = IF x \in op[p].victim THEN nlink[x] - 1 - One(x \in dirs) ELSE nlink[x]
      /\ DOMAIN dotdot' = DOMAIN dotdot \ op[p].victim /\ \A x \in DOMAIN dotdot' : dotdot'[x] = dotdot[x]
      /\ DOMAIN ent' = {f \in DOMAIN ent : f[1] \notin op[p].victim} /\ \A e \in DOMAIN ent' : ent'[e] = ent[e]
      /\ Bury(op[p].victim)
      /\ UNCHANGED <<bitmap, dirs, leaked, live, fs_error, lock, opened>>
  BY OpFields DEF Others, Shape, Locals, DropVictim, WithoutDirs, Bury, IsDir, One, diskVars,
     ialloc, calm, Goto
<1>2. Ranges
  BY RangesHold
<1>3. PICK v \in Inodes : /\ op[p].victim = {v} /\ lock[v] = p /\ v \in live /\ v # EXT2_ROOT_INO
                          /\ v # op[p].ino /\ v # op[p].dir /\ v # op[p].to /\ (v \in dirs <=> op[p].ino \in dirs)
                          /\ v \in dirs => Detached(v) /\ dotdot[v] = op[p].to
                          /\ v \notin dirs => v \notin DOMAIN dotdot
                          /\ ~Private(v)
  BY <1>1, NotPrivate DEF Shape, MoveVictims, MoveLocks, Moving, Tree, Uses
<1>4. vanished' \in [Inodes -> Nat] /\ \A x \in Inodes : Gained(x)
  BY <1>1, Buried DEF Shape
<1>5. v \in dirs => /\ \A e \in DOMAIN ent : ent[e] # v
                    /\ \A q \in Procs \ {p} : ~Uses(q, v)
  BY <1>3, LockedApart DEF Detached
<1>6. v \notin dirs => DOMAIN dotdot' = DOMAIN dotdot /\ DOMAIN ent' = DOMAIN ent
  <2>1. v \notin dirs => \A e \in DOMAIN ent : e[1] # v
    BY <1>3 DEF Shape, Entries, Tree
  <2> QED
    BY <1>1, <1>3, <2>1
<1>7. \A q \in Procs : Moving(q) /\ op[q].ino \in dirs => op[q].ino # v
  BY <1>5 DEF Shape, MoveNew
<1>8. Alloc' /\ ~fs_error'
  BY <1>1 DEF Shape, Alloc, DropVictim, countVars, ialloc, calm
<1>9. Locals'
  BY DEF DropVictim, Goto, Shape, Locals, Labels
<1>10. Trees'
  <2>1. nlink' \in [Inodes -> Int]
    BY DEF DropVictim, Shape, Trees, IsDir
  <2>2. DOMAIN ent' \subseteq Inodes \X Names /\ IsFiniteSet(DOMAIN ent')
    BY <1>1, FS_Subset DEF Shape, Trees
  <2> QED
    BY <1>1, <1>4, <2>1, <2>2 DEF Shape, Trees
<1>11. Phases'
  BY <1>1 DEF Others, Shape, Phases, Making, Moving, Allocating, Taking
<1>12. Single'
  BY <1>1 DEF Others, Shape, Single, Mine, Taking
<1>13. Privacy'
  BY <1>1, <1>3, <1>4, <1>5, <1>6, <1>7 DEF Others, Shape, Private, Owns, Privacy, Unused,
     Uses, Mine, Making, Linking, Removing, Moving, Taking
<1>14. Owned'
  <2>1. SUFFICES ASSUME NEW q \in Procs, Mine(q)'
                 PROVE  Marks(q)'
    BY DEF Owned
  <2>2. Mine(q) /\ q # p /\ cur'[q] = cur[q] /\ pc'[q] = pc[q] /\ op'[q] = op[q]
    BY <1>1, <2>1 DEF Others, Mine, Taking, Shape, Phases
  <2>3. Marks(q) /\ cur[q].ino \in Inodes /\ cur[q].ino # v
    BY <1>2, <1>3, <2>2 DEF Shape, Owned, Ranges, Private, Owns
  <2>4. vanished'[cur[q].ino] = 0
    BY <1>4, <2>2, OwnerKnows DEF Owner, Gained
  <2> QED
    BY <1>1, <1>3, <2>2, <2>3, <2>4 DEF Marks, Making
<1>15. Gone'
  <2>1. SUFFICES ASSUME NEW x \in Inodes \ live
                 PROVE  Unused(x)' /\ x \notin DOMAIN dotdot' /\ nlink'[x] = 0 /\ vanished'[x] = 0
    BY <1>1 DEF Gone
  <2>2. Unused(x) /\ x \notin DOMAIN dotdot /\ nlink[x] = 0 /\ vanished[x] = 0
    BY DEF Shape, Gone
  <2>3. x # v
    BY <1>3
  <2>4. vanished'[x] = 0
    BY <1>4, <2>2 DEF Unused, Gained
  <2> QED
    BY <1>1, <1>3, <2>2, <2>3, <2>4 DEF Others, Unused, Uses, Making, Linking, Removing, Moving
<1>16. Sets'
  BY <1>1 DEF Others, Shape, Sets, Unhashed, Taking
<1>17. MakingInv'
  BY <1>1, <1>3, <1>5 DEF Others, Shape, MakingInv, Phases, Making, Allocating, Evicting,
     Taking
<1>18. LinkingInv'
  <2>1. SUFFICES ASSUME NEW q \in Procs, Linking(q)'
                 PROVE  /\ lock'[op'[q].dir] = q /\ op'[q].dir \in DOMAIN dotdot'
                        /\ <<op'[q].dir, op'[q].name>> \notin DOMAIN ent'
                        /\ op'[q].name \in Names
                        /\ lock'[op'[q].ino] = q /\ op'[q].ino \in live' \ dirs'
                        /\ (\E e \in DOMAIN ent' : ent'[e] = op'[q].ino) \/ vanished'[op'[q].ino] > 0
    BY DEF LinkingInv
  <2>2. Linking(q) /\ q # p /\ op'[q] = op[q]
    BY <1>1, <2>1 DEF Others, Linking, Shape, Phases
  <2>3. /\ lock[op[q].dir] = q /\ op[q].dir \in DOMAIN dotdot
        /\ <<op[q].dir, op[q].name>> \notin DOMAIN ent
        /\ op[q].name \in Names /\ op[q].dir \in Inodes /\ op[q].ino \in Inodes
        /\ lock[op[q].ino] = q /\ op[q].ino \in live \ dirs
        /\ (\E e \in DOMAIN ent : ent[e] = op[q].ino) \/ vanished[op[q].ino] > 0
    BY <1>2, <2>2 DEF Shape, LinkingInv, Ranges
  <2>4. op[q].dir # v
    BY <1>3, <2>2, <2>3
  <2>5. /\ vanished'[op[q].ino] >= vanished[op[q].ino]
        /\ vanished[op[q].ino] \in Nat /\ vanished'[op[q].ino] \in Nat
        /\ \A e \in DOMAIN ent : ent[e] = op[q].ino => e \in DOMAIN ent' \/ vanished'[op[q].ino] > 0
    BY <1>4, <2>3 DEF Gained, Shape, Trees
  <2> QED
    BY <1>1, <1>3, <2>2, <2>3, <2>4, <2>5
<1>19. RemovingInv'
  BY <1>1, <1>3 DEF Others, Shape, RemovingInv, Removing, Detached
<1>20. MoveLocks'
  BY <1>1, <1>3 DEF Others, Shape, MoveLocks, Moving
<1>21. MoveVictims'
  BY <1>1 DEF Others, Shape, MoveVictims, Moving, Detached
<1>22. MoveOld'
  <2>1. SUFFICES ASSUME NEW q \in Procs, pc'[q] \in {"drop", "delete"}
                 PROVE  /\ <<op'[q].dir, op'[q].name>> \in DOMAIN ent'
                        /\ ent'[<<op'[q].dir, op'[q].name>>] = op'[q].ino
    BY DEF MoveOld
  <2>2. /\ op'[q] = op[q] /\ pc[q] \in {"drop", "delete"}
        /\ <<op[q].dir, op[q].name>> \in DOMAIN ent
        /\ ent[<<op[q].dir, op[q].name>>] = op[q].ino
    BY <1>1, <2>1 DEF Others, Shape, MoveOld
  <2>3. op[q].dir # v
    BY <1>3, <2>2 DEF Shape, MoveLocks, Moving
  <2> QED
    BY <1>1, <1>3, <2>2, <2>3
<1>23. MoveNew'
  BY <1>1, <1>3 DEF Others, Shape, MoveNew, MoveLocks, Moving
<1>24. MoveDirs'
  BY <1>1, <1>3, <1>7 DEF Others, Shape, MoveDirs, Moving
<1>25. Entries'
  BY <1>1, <1>3, <1>5 DEF Others, Shape, Entries, MovesTo, Moving
<1>26. OneEntry'
  BY <1>1 DEF Others, Shape, OneEntry, Doubles
<1>27. Tree'
  BY <1>1, <1>3, <1>5 DEF Others, Shape, Tree
<1>28. Rooted'
  <2>1. SUFFICES ASSUME NEW x \in DOMAIN dotdot' \ {EXT2_ROOT_INO}
                 PROVE  \/ \E e \in DOMAIN ent' : e[1] = dotdot'[x] /\ ent'[e] = x
                        \/ vanished'[x] > 0
                        \/ \E q \in Procs : Loose(q, x)'
    BY DEF Rooted
  <2>2. /\ x \in Inodes /\ x # v /\ dotdot'[x] = dotdot[x]
        /\ vanished[x] \in Nat /\ vanished'[x] \in Nat
    BY <1>1, <1>2, <1>3, <1>4 DEF Shape, Trees, Ranges
  <2>3. CASE \E e \in DOMAIN ent : e[1] = dotdot[x] /\ ent[e] = x
    BY <1>1, <1>4, <2>2, <2>3 DEF Gained
  <2>4. CASE vanished[x] > 0
    BY <1>4, <2>2, <2>4 DEF Gained
  <2>5. CASE \E q \in Procs : Loose(q, x)
    <3>1. PICK q \in Procs : Loose(q, x)
      BY <2>5
    <3>2. q # p
      BY <1>1, <1>3, <2>2, <3>1 DEF Loose, Removing, Shape, Phases
    <3> QED
      BY <1>1, <3>1, <3>2 DEF Others, Loose, Removing
  <2> QED
    BY <1>1, <2>1, <2>3, <2>4, <2>5 DEF Shape, Rooted
<1>29. Shape'
  BY <1>8, <1>9, <1>10, <1>11, <1>12, <1>13, <1>14, <1>15, <1>16, <1>17, <1>18, <1>19,
     <1>20, <1>21, <1>22, <1>23, <1>24, <1>25, <1>26, <1>27, <1>28 DEF Shape
<1>30. Counts'
  <2>1. SUFFICES ASSUME NEW x \in live', ~Private(x)'
                 PROVE  nlink'[x] = LinksTo(x)' + Owed(x)'
    BY DEF Counts
  <2>2. x \in Inodes /\ x \in live /\ ~Private(x) /\ nlink[x] = LinksTo(x) + Owed(x)
    BY <1>1, <2>1 DEF Private, Owns, Mine, Taking, Others, Counts, Shape, Alloc
  <2>3. SameRest(p, x)
    BY <1>1, <1>3, OthersOwe DEF Others, Private, Owns, Mine
  <2>4. Elsewhere(dotdot, dotdot', v)
    BY <1>1, <1>3 DEF Elsewhere
  <2>5. Balance(nlink', ent', dotdot', <<0, 0>>, v, x, OwedBy(p, x)')
          = Balance(nlink, ent, dotdot, <<0, 0>>, v, x, OwedBy(p, x))
    <3>1. OwedBy(p, x) = One(x = v) - One(op[p].ino = x)
      BY <1>1, <1>3 DEF OwedBy, Plus, Doubles, Dot, Linking, Removing, One, Phases, Shape,
         Moving
    <3>2. OwedBy(p, x)' = One(op[p].ino \in dirs /\ op[p].to = x) - One(op[p].ino = x)
      BY <1>1 DEF OwedBy, Plus, Doubles, Dot, Linking, Removing, One, Phases, Shape, Moving
    <3>3. nlink'[x] = nlink[x] - One(x = v) - One(x = v /\ x \in dirs)
      BY <1>1, <1>3, <2>2 DEF One, Shape, Trees
    <3>4. ~At1(ent, <<0, 0>>, x) /\ ~At1(ent', <<0, 0>>, x)
      BY NoZero, <1>29 DEF At1, Shape
    <3> QED
      BY <1>1, <1>3, <2>2, <3>1, <3>2, <3>3, <3>4 DEF Balance, One, At1, Shape, Trees, Tree, Detached
  <2> QED
    BY <1>29, <1>1, <2>2, <2>3, <2>4, <2>5, CountsBuried
<1>31. Kept'
  BY <1>1 DEF Kept, Private, Owns, Mine, Taking, Dropped, Others, Shape, Alloc
<1> QED
  BY <1>29, <1>30, <1>31

\* ext2_rename deletes the old entry.
LEMMA RenameDeleteKeeps ==
  ASSUME Shape, Counts, Kept, NEW p \in Procs,
         RenameDelete(p)
  PROVE  Shape' /\ Counts' /\ Kept'
<1>1. /\ Others(p) /\ pc[p] = "delete" /\ op[p].ino \in Inodes /\ op[p].victim \subseteq Inodes
      /\ \/ op[p].ino \in dirs /\ pc'[p] = "reparent" /\ UNCHANGED <<lock, op, cur>>
         \/ /\ op[p].ino \notin dirs
            /\ \A x \in Inodes : lock'[x] = IF lock[x] = p THEN NoProc ELSE lock[x]
            /\ \/ \E v \in op[p].victim :
                    \/ /\ pc'[p] = "evict" /\ cur'[p].ino = v /\ op'[p].ino = v /\ op'[p].call = op[p].call
                       /\ nlink[v] = 0 /\ v \notin opened
                    \/ /\ pc'[p] = "idle" /\ op'[p].call = "none" /\ (nlink[v] # 0 \/ v \in opened)
               \/ pc'[p] = "idle" /\ op'[p].call = "none" /\ op[p].victim = {}
      /\ DOMAIN ent' = DOMAIN ent \ {<<op[p].dir, op[p].name>>} /\ \A e \in DOMAIN ent' : ent'[e] = ent[e]
      /\ UNCHANGED <<bitmap, dirs, leaked, live, fs_error, nlink, dotdot, opened, vanished>>
  <2>1. pc[p] = "delete" /\ op[p].ino \in Inodes /\ op[p].victim \subseteq Inodes
    BY OpFields DEF RenameDelete, Shape, Locals
  <2>2. \/ /\ op[p].ino \in dirs /\ pc'[p] = "reparent" /\ Others(p)
           /\ UNCHANGED <<lock, op, cur>>
        \/ op[p].ino \notin dirs /\ RenameEnd(p)
    BY DEF RenameDelete, Goto, Shape, Locals, Others
  <2>3. /\ DOMAIN ent' = DOMAIN ent \ {<<op[p].dir, op[p].name>>}
        /\ \A e \in DOMAIN ent' : ent'[e] = ent[e]
        /\ UNCHANGED <<bitmap, dirs, leaked, live, fs_error, nlink, dotdot, opened, vanished>>
    BY DEF RenameDelete, DropEntry, ialloc, calm, diskVars
  <2>4. Locals
    BY DEF Shape
  <2>5. CASE op[p].ino \notin dirs /\ RenameEnd(p)
    <3>1. Others(p) /\ \A x \in Inodes : lock'[x] = IF lock[x] = p THEN NoProc ELSE lock[x]
      BY <2>4, <2>5, RenameEndEffect
    <3>2. \/ \E v \in op[p].victim :
                 \/ /\ pc'[p] = "evict" /\ cur'[p].ino = v /\ op'[p].ino = v /\ op'[p].call = op[p].call
                    /\ nlink[v] = 0 /\ v \notin opened
                 \/ /\ pc'[p] = "idle" /\ op'[p].call = "none" /\ (nlink[v] # 0 \/ v \in opened)
          \/ pc'[p] = "idle" /\ op'[p].call = "none" /\ op[p].victim = {}
      BY <2>4, <2>5, RenameEndEffect
    <3> QED
      BY <2>1, <2>3, <2>5, <3>1, <3>2
  <2> QED
    BY <2>1, <2>2, <2>3, <2>5
<1>2. Ranges
  BY RangesHold
<1>3. /\ op[p].call = "rename" /\ op[p].ino \in live /\ lock[op[p].dir] = p
      /\ <<op[p].dir, op[p].name>> \in DOMAIN ent /\ ent[<<op[p].dir, op[p].name>>] = op[p].ino
  BY <1>1 DEF Shape, MoveLocks, MoveOld, Moving, Phases
<1>4. \A v \in op[p].victim : /\ op[p].victim = {v} /\ v # op[p].ino /\ lock[v] = p /\ v \in live
                              /\ v \notin DOMAIN dotdot /\ v \in Inodes /\ ~Private(v)
  BY <1>1, NotPrivate DEF Shape, MoveVictims, Moving, Uses
<1>5. \A v \in op[p].victim : nlink[v] = 0 => Linkless(v)
  BY <1>4, LastLink
<1>6. \A v \in op[p].victim : nlink[v] = 0 => \A q \in Procs \ {p} : ~Uses(q, v)
  BY <1>4, <1>5, LockedApart DEF Linkless
<1>7. Alloc' /\ ~fs_error'
  BY <1>1 DEF Shape, Alloc, RenameDelete, countVars, ialloc, calm
<1>8. Locals'
  <2>1. CASE Goto(p, "reparent") /\ UNCHANGED <<op, cur>>
    BY <2>1 DEF Goto, Shape, Locals, Labels
  <2>2. CASE RenameEnd(p)
    BY <2>2, RenameEndEffect DEF Shape
  <2> QED
    BY <2>1, <2>2 DEF RenameDelete
<1>9. Trees'
  <2>1. nlink' \in [Inodes -> Int]
    BY <1>1 DEF Shape, Trees
  <2>2. DOMAIN ent' \subseteq Inodes \X Names /\ IsFiniteSet(DOMAIN ent')
    BY FS_Subset DEF RenameDelete, DropEntry, Shape, Trees
  <2>3. lock' \in [Inodes -> Procs \cup {NoProc}]
    BY <1>1 DEF RenameDelete, RenameEnd, Return, Release, Shape, Trees
  <2> QED
    BY <1>1, <2>2, <2>3 DEF Shape, Trees
<1>10. Phases'
  BY <1>1 DEF Others, Shape, Phases, Making, Moving, Allocating, Taking
<1>11. Single'
  BY <1>1, <1>4 DEF Others, Shape, Private, Owns, Single, Mine, Taking
<1>12. Privacy'
  <2>1. ASSUME NEW q \in Procs \ {p}, Mine(q)'
        PROVE  Unused(cur[q].ino)'
    <3>1. Mine(q) /\ cur'[q] = cur[q]
      BY <1>1, <2>1 DEF Others, Mine
    <3>2. Owner(q)
      BY <3>1, OwnerKnows
    <3> QED
      BY <1>1, <1>3, <3>2 DEF Others, Owner, Unused, Uses, Making, Linking, Removing, Moving
  <2>2. ASSUME Mine(p)'
        PROVE  Unused(cur[p].ino)'
    <3>1. PICK v \in op[p].victim : /\ pc'[p] = "evict" /\ cur'[p].ino = v /\ op'[p].call = "rename"
                                    /\ nlink[v] = 0 /\ v \notin opened
      BY <1>1, <2>2 DEF Mine, Taking, Shape, Phases, Moving
    <3>2. Linkless(v) /\ v \notin DOMAIN dotdot /\ v \in live /\ v \in Inodes
          /\ \A q \in Procs \ {p} : ~Uses(q, v)
      BY <1>4, <1>5, <1>6, <3>1
    <3> QED
      BY <1>1, <3>1, <3>2 DEF Others, Unused, Uses, Making, Linking, Removing, Moving,
         Linkless, Shape, Entries
  <2> QED
    BY <2>1, <2>2 DEF Privacy
<1>13. Owned'
  <2>1. ASSUME NEW q \in Procs \ {p}, Mine(q)'
        PROVE  Marks(q)'
    <3>1. Mine(q) /\ cur'[q] = cur[q] /\ pc'[q] = pc[q] /\ op'[q] = op[q]
      BY <1>1, <2>1 DEF Others, Mine
    <3>2. Marks(q) /\ cur[q].ino \in Inodes /\ Owns(q, cur[q].ino)
      BY <1>2, <3>1 DEF Shape, Owned, Ranges, Owns
    <3> QED
      BY <1>1, <3>1, <3>2 DEF Marks, Making
  <2>2. ASSUME Mine(p)'
        PROVE  Marks(p)'
    <3>1. PICK v \in op[p].victim : /\ pc'[p] = "evict" /\ cur'[p].ino = v /\ op'[p].call = "rename"
                                    /\ nlink[v] = 0 /\ v \notin opened
      BY <1>1, <2>2 DEF Mine, Taking, Shape, Phases, Moving
    <3>2. Linkless(v) /\ v \notin DOMAIN dotdot /\ v \in live /\ v \in Inodes
          /\ \A q \in Procs \ {p} : ~Uses(q, v)
      BY <1>4, <1>5, <1>6, <3>1
    <3>3. v \in bitmap \ leaked /\ v >= EXT2_FIRST_INO
      BY <3>2 DEF Shape, Sets, Tree
    <3>4. vanished[v] = 0
      BY <3>2 DEF Linkless
    <3> QED
      BY <1>1, <3>1, <3>2, <3>3, <3>4 DEF Marks, Evicting
  <2> QED
    BY <2>1, <2>2 DEF Owned
<1>14. Gone'
  BY <1>1, <1>3, <1>4, <1>5, <1>6 DEF Others, Shape, Private, Owns, Gone, Unused, Uses,
     Making, Linking, Removing, Moving
<1>15. Sets'
  BY <1>1 DEF Others, Shape, Sets, Unhashed, Taking
<1>16. MakingInv'
  BY <1>1, <1>2 DEF Others, Shape, Ranges, MakingInv, Phases, Making, Allocating, Evicting,
     Taking
<1>17. LinkingInv'
  <2>1. SUFFICES ASSUME NEW q \in Procs, Linking(q)'
                 PROVE  /\ lock'[op'[q].dir] = q /\ op'[q].dir \in DOMAIN dotdot'
                        /\ <<op'[q].dir, op'[q].name>> \notin DOMAIN ent'
                        /\ op'[q].name \in Names
                        /\ lock'[op'[q].ino] = q /\ op'[q].ino \in live' \ dirs'
                        /\ (\E e \in DOMAIN ent' : ent'[e] = op'[q].ino) \/ vanished'[op'[q].ino] > 0
    BY DEF LinkingInv
  <2>2. Linking(q) /\ q # p /\ op'[q] = op[q]
    BY <1>1, <1>3, <2>1 DEF Others, Linking
  <2>3. /\ lock[op[q].dir] = q /\ op[q].dir \in DOMAIN dotdot
        /\ <<op[q].dir, op[q].name>> \notin DOMAIN ent
        /\ op[q].name \in Names /\ op[q].dir \in Inodes /\ op[q].ino \in Inodes
        /\ lock[op[q].ino] = q /\ op[q].ino \in live \ dirs
    BY <1>2, <2>2 DEF Shape, LinkingInv, Ranges
  <2>4. (\E e \in DOMAIN ent : ent[e] = op[q].ino) \/ vanished[op[q].ino] > 0
    BY <2>2 DEF Shape, LinkingInv
  <2>5. \A e \in DOMAIN ent : ent[e] = op[q].ino => e # <<op[p].dir, op[p].name>>
    <3>1. op[p].ino = op[q].ino => lock[op[q].ino] = p
      BY <1>1, <2>3 DEF Shape, MoveLocks, Moving
    <3> QED
      BY <1>3, <2>2, <2>3, <3>1
  <2> QED
    BY <1>1, <2>2, <2>3, <2>4, <2>5
<1>18. RemovingInv'
  BY <1>1, <1>2 DEF Others, Shape, Ranges, RemovingInv, Removing, Detached
<1>19. MoveLocks'
  BY <1>1, <1>2 DEF Others, Shape, Ranges, MoveLocks, Moving
<1>20. MoveVictims'
  BY <1>1, <1>2 DEF Others, Shape, Ranges, MoveVictims, Moving, Detached
<1>21. MoveOld'
  <2>1. ASSUME NEW q \in Procs \ {p}, pc'[q] \in {"drop", "delete"}
        PROVE  <<op[q].dir, op[q].name>> \in DOMAIN ent' /\ ent'[<<op[q].dir, op[q].name>>] = op[q].ino
    <3>1. pc[q] \in {"drop", "delete"} /\ op[q].dir # op[p].dir
      BY <1>1, <2>1 DEF Others, Shape, MoveLocks, Moving
    <3> QED
      BY <1>1, <3>1 DEF Shape, MoveOld
  <2> QED
    BY <1>1, <2>1 DEF Others, MoveOld
<1>22. MoveNew'
  BY <1>1 DEF Others, Shape, MoveNew, Moving, MoveLocks
<1>23. MoveDirs'
  BY <1>1 DEF Others, Shape, MoveDirs, Moving
<1>24. Entries'
  BY <1>1 DEF Others, Shape, Entries, MovesTo, Moving
<1>25. OneEntry'
  BY <1>1 DEF Others, Shape, OneEntry, Doubles
<1>26. Tree'
  BY <1>1 DEF Others, Shape, Tree
<1>27. Rooted'
  BY <1>1, <1>3 DEF Others, Shape, Rooted, Loose, Removing, Tree
<1>28. Shape'
  BY <1>7, <1>8, <1>9, <1>10, <1>11, <1>12, <1>13, <1>14, <1>15, <1>16, <1>17, <1>18, <1>19,
     <1>20, <1>21, <1>22, <1>23, <1>24, <1>25, <1>26, <1>27 DEF Shape
<1>29. Counts'
  <2>1. SUFFICES ASSUME NEW x \in live', ~Private(x)'
                 PROVE  nlink'[x] = LinksTo(x)' + Owed(x)'
    BY DEF Counts
  <2>2. x \in Inodes /\ x \in live /\ ~Private(x) /\ nlink[x] = LinksTo(x) + Owed(x)
    BY <1>1, <2>1 DEF Private, Owns, Mine, Taking, Others, Counts, Shape, Alloc
  <2>3. SameRest(p, x)
    BY <1>1, OthersOwe DEF Others
  <2>4. Elsewhere(ent, ent', <<op[p].dir, op[p].name>>) /\ Elsewhere(dotdot, dotdot', 0)
    BY <1>1 DEF Elsewhere
  <2>5. Balance(nlink', ent', dotdot', <<op[p].dir, op[p].name>>, 0, x, OwedBy(p, x)')
          = Balance(nlink, ent, dotdot, <<op[p].dir, op[p].name>>, 0, x, OwedBy(p, x))
    BY <1>1, <1>3 DEF Balance, OwedBy, Plus, Doubles, Dot, Linking, Removing, One, At1,
       Shape, Trees
  <2> QED
    BY <1>28, <1>1, <2>2, <2>3, <2>4, <2>5, CountsStep
<1>30. Kept'
  <2>1. SUFFICES ASSUME NEW x \in live', ~(nlink'[x] > 0), x \notin opened', ~Private(x)',
                        \A q \in Procs : ~Dropped(q, x)'
                 PROVE  FALSE
    BY DEF Kept
  <2>2. nlink'[x] = 0 /\ Linkless(x)' /\ x \in Inodes /\ x \in live
    BY <1>28, <1>29, <1>1, <2>1, LastLinksNext DEF Shape, Alloc
  <2>3. pc'[p] = "reparent" \/ x \notin op[p].victim
    BY <1>1, <1>4, <2>1, <2>2 DEF Private, Owns, Mine
  <2> QED
    BY <1>1, <1>4, <1>6, <2>1, <2>3 DEF Kept, Dropped, Private, Owns, Mine, Taking, Others,
       Shape
<1> QED
  BY <1>28, <1>29, <1>30

\* ext2_rename makes ".." lead to the new parent.
LEMMA ReparentKeeps ==
  ASSUME Shape, Counts, Kept, NEW p \in Procs,
         Reparent(p)
  PROVE  Shape' /\ Counts' /\ Kept'
<1>1. /\ Others(p) /\ pc[p] = "reparent" /\ op[p].ino \in Inodes /\ op[p].dir \in Inodes /\ op[p].victim \subseteq Inodes
      /\ \A x \in Inodes : lock'[x] = IF lock[x] = p THEN NoProc ELSE lock[x]
      /\ \/ \E v \in op[p].victim :
              \/ /\ pc'[p] = "evict" /\ cur'[p].ino = v /\ op'[p].ino = v /\ op'[p].call = op[p].call
                 /\ nlink[v] = 0 /\ v \notin opened
              \/ /\ pc'[p] = "idle" /\ op'[p].call = "none" /\ (nlink[v] # 0 \/ v \in opened)
         \/ pc'[p] = "idle" /\ op'[p].call = "none" /\ op[p].victim = {}
      /\ op[p].ino \in DOMAIN dotdot
      /\ DOMAIN dotdot' = DOMAIN dotdot /\ dotdot'[op[p].ino] = op[p].to
      /\ \A x \in DOMAIN dotdot : x # op[p].ino => dotdot'[x] = dotdot[x]
      /\ \A x \in Inodes : nlink'[x] = IF x = op[p].dir THEN nlink[x] - 1 ELSE nlink[x]
      /\ UNCHANGED <<bitmap, dirs, leaked, live, fs_error, ent, opened, vanished>>
  BY OpFields, RenameEndEffect DEF Others, Shape, Locals, Trees, Reparent, Links, MoveLocks,
     MoveDirs, Moving, diskVars, ialloc, calm
<1>2. Ranges
  BY RangesHold
<1>3. /\ op[p].call = "rename" /\ op[p].ino \in live /\ lock[op[p].dir] = p /\ lock[op[p].to] = p /\ op[p].ino \in dirs
      /\ op[p].to \in DOMAIN dotdot /\ dotdot[op[p].ino] = op[p].dir /\ op[p].ino # op[p].to
      /\ op[p].ino # EXT2_ROOT_INO
      /\ \A e \in DOMAIN ent : ent[e] = op[p].ino => e[1] = op[p].to
      /\ \E e \in DOMAIN ent : ent[e] = op[p].ino /\ e[1] = op[p].to
  BY <1>1 DEF Shape, MoveLocks, MoveDirs, MoveNew, Moving, Phases
<1>4. \A v \in op[p].victim : /\ op[p].victim = {v} /\ v # op[p].ino /\ lock[v] = p /\ v \in live
                              /\ v \notin DOMAIN dotdot /\ v \in Inodes /\ ~Private(v)
  BY <1>1, NotPrivate DEF Shape, MoveVictims, Moving, Uses
<1>5. \A v \in op[p].victim : nlink[v] = 0 => Linkless(v)
  BY <1>4, LastLink
<1>6. \A v \in op[p].victim : nlink[v] = 0 => \A q \in Procs \ {p} : ~Uses(q, v)
  BY <1>4, <1>5, LockedApart DEF Linkless
<1>7. ~Private(op[p].ino) /\ ~Private(op[p].dir) /\ ~Private(op[p].to)
  BY <1>1, NotPrivate DEF Uses, Moving
<1>8. \A q \in Procs \ {p} : Moving(q) => op[q].ino # op[p].ino
  BY <1>3 DEF Shape, MoveDirs, MoveLocks
<1>9. Alloc' /\ ~fs_error'
  BY <1>1 DEF Shape, Alloc, Reparent, countVars, ialloc, calm
<1>10. Locals'
  BY RenameEndEffect DEF Reparent, Shape
<1>11. Trees'
  <2>1. nlink' \in [Inodes -> Int]
    BY <1>1 DEF Reparent, Links, Shape, Trees
  <2>2. DOMAIN ent' \subseteq Inodes \X Names /\ IsFiniteSet(DOMAIN ent')
    BY <1>1, FS_AddElement DEF Shape, Trees
  <2>3. lock' \in [Inodes -> Procs \cup {NoProc}]
    BY <1>1 DEF Reparent, RenameEnd, Return, Release, Shape, Trees
  <2> QED
    BY <1>1, <2>1, <2>3 DEF Shape, Trees
<1>12. Phases'
  BY <1>1 DEF Others, Shape, Phases, Making, Moving, Allocating, Taking
<1>13. Single'
  BY <1>1, <1>4 DEF Others, Shape, Private, Owns, Single, Mine, Taking
<1>14. Privacy'
  <2>1. ASSUME NEW q \in Procs \ {p}, Mine(q)'
        PROVE  Unused(cur[q].ino)'
    <3>1. Mine(q) /\ cur'[q] = cur[q]
      BY <1>1, <2>1 DEF Others, Mine
    <3>2. Owner(q)
      BY <3>1, OwnerKnows
    <3> QED
      BY <1>1, <3>2, <1>3 DEF Others, Owner, Unused, Uses, Making, Linking, Removing, Moving
  <2>2. ASSUME Mine(p)'
        PROVE  Unused(cur[p].ino)'
    <3>1. PICK v \in op[p].victim : /\ pc'[p] = "evict" /\ cur'[p].ino = v /\ op'[p].call = "rename"
                                    /\ nlink[v] = 0 /\ v \notin opened
      BY <1>1, <2>2 DEF Mine, Taking, Shape, Phases, Moving
    <3>2. Linkless(v) /\ v \notin DOMAIN dotdot /\ v \in live /\ v \in Inodes
          /\ \A q \in Procs \ {p} : ~Uses(q, v)
      BY <1>4, <1>5, <1>6, <3>1
    <3> QED
      BY <1>1, <1>3, <3>1, <3>2 DEF Others, Unused, Uses, Making, Linking, Removing, Moving,
         Linkless, Shape, Entries
  <2> QED
    BY <2>1, <2>2 DEF Privacy
<1>15. Owned'
  <2>1. ASSUME NEW q \in Procs \ {p}, Mine(q)'
        PROVE  Marks(q)'
    <3>1. Mine(q) /\ cur'[q] = cur[q] /\ pc'[q] = pc[q] /\ op'[q] = op[q]
      BY <1>1, <2>1 DEF Others, Mine
    <3>2. Marks(q) /\ cur[q].ino \in Inodes /\ Owns(q, cur[q].ino)
      BY <1>2, <3>1 DEF Shape, Owned, Ranges, Owns
    <3> QED
      BY <1>1, <3>1, <3>2, <1>7 DEF Marks, Making, Private
  <2>2. ASSUME Mine(p)'
        PROVE  Marks(p)'
    <3>1. PICK v \in op[p].victim : /\ pc'[p] = "evict" /\ cur'[p].ino = v /\ op'[p].call = "rename"
                                    /\ nlink[v] = 0 /\ v \notin opened
      BY <1>1, <2>2 DEF Mine, Taking, Shape, Phases, Moving
    <3>2. Linkless(v) /\ v \notin DOMAIN dotdot /\ v \in live /\ v \in Inodes
          /\ \A q \in Procs \ {p} : ~Uses(q, v)
      BY <1>4, <1>5, <1>6, <3>1
    <3>3. v \in bitmap \ leaked /\ v >= EXT2_FIRST_INO /\ v # op[p].dir
      BY <1>1, <3>2 DEF Shape, Sets, Tree, MoveLocks, Moving
    <3>4. vanished[v] = 0
      BY <3>2 DEF Linkless
    <3> QED
      BY <1>1, <3>1, <3>2, <3>3, <3>4 DEF Marks, Evicting
  <2> QED
    BY <2>1, <2>2 DEF Owned
<1>16. Gone'
  BY <1>1, <1>3, <1>4, <1>5, <1>6, <1>7 DEF Others, Shape, Private, Owns, Gone, Unused,
     Uses, Making, Linking, Removing, Moving
<1>17. Sets'
  BY <1>1 DEF Others, Shape, Sets, Unhashed, Taking
<1>18. MakingInv'
  BY <1>1, <1>2 DEF Others, Shape, Ranges, MakingInv, Phases, Making, Allocating, Evicting,
     Taking
<1>19. LinkingInv'
  BY <1>1, <1>2 DEF Others, Shape, Ranges, LinkingInv, Phases, Linking
<1>20. RemovingInv'
  BY <1>1, <1>2, <1>3 DEF Others, Shape, Ranges, RemovingInv, Removing, Detached
<1>21. MoveLocks'
  BY <1>1, <1>2 DEF Others, Shape, Ranges, MoveLocks, Moving
<1>22. MoveVictims'
  BY <1>1, <1>2, <1>3 DEF Others, Shape, Ranges, MoveVictims, Moving, Detached
<1>23. MoveOld'
  BY <1>1 DEF Others, Shape, MoveOld
<1>24. MoveNew'
  BY <1>1 DEF Others, Shape, MoveNew, Moving
<1>25. MoveDirs'
  BY <1>1, <1>8 DEF Others, Shape, MoveDirs, Moving
<1>26. Entries'
  BY <1>1, <1>3 DEF Others, Shape, Entries, MovesTo, Moving
<1>27. OneEntry'
  BY <1>1 DEF Others, Shape, OneEntry, Doubles
<1>28. Tree'
  BY <1>1, <1>3 DEF Others, Shape, Tree
<1>29. Rooted'
  BY <1>1, <1>3 DEF Others, Shape, Rooted, Loose, Removing
<1>30. Shape'
  BY <1>9, <1>10, <1>11, <1>12, <1>13, <1>14, <1>15, <1>16, <1>17, <1>18, <1>19, <1>20,
     <1>21, <1>22, <1>23, <1>24, <1>25, <1>26, <1>27, <1>28, <1>29 DEF Shape
<1>31. Counts'
  <2>1. SUFFICES ASSUME NEW x \in live', ~Private(x)'
                 PROVE  nlink'[x] = LinksTo(x)' + Owed(x)'
    BY DEF Counts
  <2>2. x \in Inodes /\ x \in live /\ ~Private(x) /\ nlink[x] = LinksTo(x) + Owed(x)
    BY <1>1, <2>1 DEF Private, Owns, Mine, Taking, Others, Counts, Shape, Alloc
  <2>3. SameRest(p, x)
    BY <1>1, OthersOwe DEF Others
  <2>4. Elsewhere(ent, ent', <<0, 0>>) /\ Elsewhere(dotdot, dotdot', op[p].ino)
    BY <1>1 DEF Elsewhere
  <2>5. Balance(nlink', ent', dotdot', <<0, 0>>, op[p].ino, x, OwedBy(p, x)')
          = Balance(nlink, ent, dotdot, <<0, 0>>, op[p].ino, x, OwedBy(p, x))
    BY <1>1, <1>3, <2>2 DEF Balance, OwedBy, Plus, Doubles, Dot, Linking, Removing, One,
       At1, Shape, Trees
  <2> QED
    BY <1>30, <1>1, <2>2, <2>3, <2>4, <2>5, CountsStep
<1>32. Kept'
  <2>1. SUFFICES ASSUME NEW x \in live', ~(nlink'[x] > 0), x \notin opened', ~Private(x)',
                        \A q \in Procs : ~Dropped(q, x)'
                 PROVE  FALSE
    BY DEF Kept
  <2>2. nlink'[x] = 0 /\ Linkless(x)' /\ x \in Inodes /\ x \in live
    BY <1>30, <1>31, <1>1, <2>1, LastLinksNext DEF Shape, Alloc
  <2>3. nlink[x] = 0
    <3>1. op[p].dir \in DOMAIN dotdot
      BY <1>1 DEF Shape, MoveLocks, Moving
    <3> QED
      BY <1>1, <2>2, <3>1 DEF Linkless, Shape
  <2> QED
    BY <1>1, <1>4, <1>5, <2>1, <2>3 DEF Kept, Dropped, Private, Owns, Mine, Taking, Others,
       Shape
<1> QED
  BY <1>30, <1>31, <1>32

\* ext2_rename to a name that was free
LEMMA RenameNewKeeps ==
  ASSUME Shape, Counts, Kept, NEW p \in Procs, NEW d \in Usable, NEW n \in Names, NEW to \in Usable, NEW m \in Names,
         RenameNew(p, d, n, to, m)
  PROVE  Shape' /\ Counts' /\ Kept'
<1> DEFINE i == ent[<<d, n>>]
<1>1. /\ Others(p) /\ pc'[p] = "delete" /\ op'[p].victim = {}
      /\ pc[p] = "idle" /\ op'[p].call = "rename" /\ op'[p].dir = d /\ op'[p].name = n
      /\ op'[p].to = to /\ op'[p].ino = i
      /\ d \in DOMAIN dotdot /\ d \in Inodes /\ to \in DOMAIN dotdot /\ to \in Inodes
      /\ <<d, n>> \in DOMAIN ent /\ <<d, n>> # <<to, m>> /\ i \in Inodes /\ i # to
      /\ lock[d] = NoProc /\ lock[to] = NoProc /\ (i \notin dirs => lock[i] = NoProc)
      /\ <<to, m>> \notin DOMAIN ent
      /\ d = EXT2_ROOT_INO \/ vanished[d] > 0 \/ \E e \in DOMAIN ent : ent[e] = d
      /\ to = EXT2_ROOT_INO \/ vanished[to] > 0 \/ \E e \in DOMAIN ent : ent[e] = to
      /\ \A x \in Inodes : lock'[x] = IF x \in {d, to} \cup ({i} \ dirs) THEN p ELSE lock[x]
      /\ DOMAIN ent' = DOMAIN ent \cup {<<to, m>>} /\ ent'[<<to, m>>] = i
      /\ \A e \in DOMAIN ent : ent'[e] = ent[e]
      /\ \A x \in Inodes : nlink'[x] = IF x = to THEN nlink[x] + One(i \in dirs) ELSE nlink[x]
      /\ UNCHANGED <<bitmap, dirs, leaked, live, fs_error, dotdot, opened, vanished>>
  BY AboveSelf DEF Others, Shape, Locals, Trees, Alloc, RenameNew, MayRename, Usable, Begin,
     Call, Acquire, AddEntry, Links, IsDir, One, Entries, diskVars, ialloc, calm, Goto
<1>2. Ranges
  BY RangesHold
<1>3. ~Private(d) /\ ~Private(to) /\ ~Private(i)
  BY <1>1, NotPrivate DEF Usable
<1>4. i \in live
  BY <1>1 DEF Shape, Entries
<1>5. i \in dirs => /\ i \in DOMAIN dotdot /\ dotdot[i] = d /\ i # EXT2_ROOT_INO
                    /\ \A f \in DOMAIN ent : ent[f] = i => f = <<d, n>>
                    /\ \A q \in Procs : Moving(q) => op[q].ino # i
  BY <1>1, SettledEntry
<1>6. Alloc' /\ ~fs_error'
  BY <1>1 DEF Shape, Alloc, RenameNew, countVars, ialloc, calm
<1>7. Locals'
  <2>1. [Call("rename", d, n, ent[<<d, n>>]) EXCEPT !.to = to, !.victim = {}] \in OpRec
    BY <1>1 DEF Call, OpRec, Calls
  <2> QED
    BY <1>1, <2>1 DEF RenameNew, MayRename, Begin, Goto, Shape, Locals, Labels
<1>8. Trees'
  <2>1. nlink' \in [Inodes -> Int]
    BY <1>1 DEF RenameNew, Links, IsDir, Shape, Trees
  <2>2. DOMAIN ent' \subseteq Inodes \X Names /\ IsFiniteSet(DOMAIN ent')
    BY <1>1, FS_AddElement DEF Shape, Trees
  <2>3. lock' \in [Inodes -> Procs \cup {NoProc}]
    BY <1>1 DEF RenameNew, MayRename, Acquire, Shape, Trees
  <2> QED
    BY <1>1, <2>1, <2>2, <2>3 DEF Shape, Trees
<1> HIDE DEF i
<1>9. Phases'
  BY <1>1 DEF Others, Shape, Phases, Making, Moving, Allocating, Taking
<1>10. Single'
  BY <1>1 DEF Others, Shape, Single, Mine, Taking
<1>11. Privacy'
  BY <1>1, <1>3, <1>4, <1>5 DEF Others, Shape, Private, Owns, Privacy, Unused, Uses, Mine,
     Making, Linking, Removing, Moving, Taking
<1>12. Owned'
  BY <1>1, <1>2, <1>3 DEF Others, Shape, Ranges, Private, Owns, Owned, Marks, Mine, Making,
     Taking
<1>13. Gone'
  BY <1>1, <1>3, <1>4, <1>5 DEF Others, Shape, Private, Owns, Gone, Unused, Uses, Making,
     Linking, Removing, Moving
<1>14. Sets'
  BY <1>1 DEF Others, Shape, Sets, Unhashed, Taking
<1>15. MakingInv'
  <2>1. SUFFICES ASSUME NEW q \in Procs, Making(q)'
                 PROVE  /\ lock'[op'[q].dir] = q /\ op'[q].dir \in DOMAIN dotdot'
                        /\ <<op'[q].dir, op'[q].name>> \notin DOMAIN ent'
                        /\ op'[q].name \in Names
                        /\ pc'[q] \in Allocating => (cur'[q].dir <=> op'[q].call = "mkdir")
    BY DEF MakingInv
  <2>2. Making(q) /\ q # p
    BY <1>1, <2>1 DEF Others, Making
  <2>3. /\ lock[op[q].dir] = q /\ op[q].dir \in DOMAIN dotdot
        /\ <<op[q].dir, op[q].name>> \notin DOMAIN ent
        /\ op[q].name \in Names /\ op[q].dir \in Inodes
        /\ pc[q] \in Allocating => (cur[q].dir <=> op[q].call = "mkdir")
    BY <1>2, <2>2 DEF Shape, MakingInv, Ranges
  <2>4. CASE q # p
    BY <1>1, <1>2, <2>3, <2>4 DEF Others, Ranges
  <2>5. CASE q = p
    BY <1>1, <2>1, <2>5 DEF Making
  <2> QED
    BY <2>4, <2>5
<1>16. LinkingInv'
  BY SMTT(30), <1>1, <1>2, <1>3, <1>4, <1>5 DEF Others, Shape, Ranges, LinkingInv, Phases, Linking
<1>17. RemovingInv'
  BY <1>1, <1>2, <1>5 DEF Others, Shape, Ranges, RemovingInv, Removing, Detached
<1>18. MoveLocks'
  BY <1>1, <1>2, <1>4 DEF Others, Shape, Ranges, MoveLocks, Moving
<1>19. MoveVictims'
  BY <1>1, <1>2 DEF Others, Shape, Ranges, MoveVictims, Moving, Detached, i
<1>20. MoveOld'
  <2>1. SUFFICES ASSUME NEW q \in Procs, pc'[q] \in {"drop", "delete"}
                 PROVE  /\ <<op'[q].dir, op'[q].name>> \in DOMAIN ent'
                        /\ ent'[<<op'[q].dir, op'[q].name>>] = op'[q].ino
    BY DEF MoveOld
  <2>2. CASE q = p
    BY <1>1, <2>2 DEF i
  <2>3. CASE q # p
    <3>1. /\ op'[q] = op[q] /\ lock[op[q].dir] = q
          /\ <<op[q].dir, op[q].name>> \in DOMAIN ent
          /\ ent[<<op[q].dir, op[q].name>>] = op[q].ino
      BY SMTT(30), <1>1, <2>1, <2>3 DEF Others, Shape, MoveOld, MoveLocks, Moving
    <3>2. op[q].dir # to
      BY <1>1, <1>2, <3>1 DEF Ranges
    <3> QED
      BY <1>1, <3>1
  <2> QED
    BY <2>2, <2>3
<1>21. MoveNew'
  BY <1>1 DEF Others, Shape, MoveNew, Moving
<1>22. MoveDirs'
  BY <1>1, <1>5 DEF Others, Shape, MoveDirs, Moving
<1>23. Entries'
  BY <1>1 DEF Others, Shape, Entries, MovesTo, Moving, i
<1>24. OneEntry'
  BY <1>1, <1>4, <1>5 DEF Others, Shape, OneEntry, Doubles
<1>25. Tree'
  BY <1>1 DEF Others, Shape, Tree
<1>26. Rooted'
  BY <1>1 DEF Others, Shape, Rooted, Loose, Removing
<1>27. Shape'
  BY <1>6, <1>7, <1>8, <1>9, <1>10, <1>11, <1>12, <1>13, <1>14, <1>15, <1>16, <1>17, <1>18,
     <1>19, <1>20, <1>21, <1>22, <1>23, <1>24, <1>25, <1>26 DEF Shape
<1>28. Counts'
  <2>1. SUFFICES ASSUME NEW x \in live', ~Private(x)'
                 PROVE  nlink'[x] = LinksTo(x)' + Owed(x)'
    BY DEF Counts
  <2>2. x \in Inodes /\ x \in live /\ ~Private(x) /\ nlink[x] = LinksTo(x) + Owed(x)
    BY <1>1, <2>1 DEF Private, Owns, Mine, Taking, Others, Counts, Shape, Alloc
  <2>3. SameRest(p, x)
    BY <1>1, OthersOwe DEF Others
  <2>4. Elsewhere(ent, ent', <<to, m>>) /\ Elsewhere(dotdot, dotdot', 0)
    BY <1>1 DEF Elsewhere
  <2>5. Balance(nlink', ent', dotdot', <<to, m>>, 0, x, OwedBy(p, x)')
          = Balance(nlink, ent, dotdot, <<to, m>>, 0, x, OwedBy(p, x))
    BY <1>1, <2>2 DEF Balance, Phases, OwedBy, Plus, Doubles, Dot, Linking, Removing, One,
       At1, Shape, Trees
  <2> QED
    BY <1>27, <1>1, <2>2, <2>3, <2>4, <2>5, CountsStep
<1>29. Kept'
  <2>1. SUFFICES ASSUME NEW x \in live', ~(nlink'[x] > 0), x \notin opened', ~Private(x)',
                        \A q \in Procs : ~Dropped(q, x)'
                 PROVE  FALSE
    BY DEF Kept
  <2>2. nlink'[x] = 0 /\ Linkless(x)' /\ x \in Inodes /\ x \in live
    BY <1>27, <1>28, <1>1, <2>1, LastLinksNext DEF Shape, Alloc
  <2> QED
    BY <1>1, <1>3, <1>4, <2>1, <2>2 DEF Kept, Linkless, Dropped, Private, Owns, Mine,
       Taking, Others, Shape
<1> QED
  BY <1>27, <1>28, <1>29

\* ext2_rename to a name that was taken
LEMMA RenameOverKeeps ==
  ASSUME Shape, Counts, Kept, NEW p \in Procs, NEW d \in Usable, NEW n \in Names, NEW to \in Usable, NEW m \in Names,
         RenameOver(p, d, n, to, m)
  PROVE  Shape' /\ Counts' /\ Kept'
<1> DEFINE i == ent[<<d, n>>]
           v == ent[<<to, m>>]
<1>1. /\ Others(p) /\ pc'[p] = "drop" /\ op'[p].victim = {v}
      /\ pc[p] = "idle" /\ op'[p].call = "rename" /\ op'[p].dir = d /\ op'[p].name = n
      /\ op'[p].to = to /\ op'[p].ino = i
      /\ d \in DOMAIN dotdot /\ d \in Inodes /\ to \in DOMAIN dotdot /\ to \in Inodes
      /\ <<d, n>> \in DOMAIN ent /\ <<d, n>> # <<to, m>> /\ i \in Inodes /\ i # to
      /\ lock[d] = NoProc /\ lock[to] = NoProc /\ (i \notin dirs => lock[i] = NoProc)
      /\ <<to, m>> \in DOMAIN ent /\ v \in Inodes /\ v # i /\ v # d /\ (v \in dirs <=> i \in dirs)
      /\ d = EXT2_ROOT_INO \/ vanished[d] > 0 \/ \E e \in DOMAIN ent : ent[e] = d
      /\ to = EXT2_ROOT_INO \/ vanished[to] > 0 \/ \E e \in DOMAIN ent : ent[e] = to
      /\ lock[v] = NoProc
      /\ \A x \in Inodes : lock'[x] = IF x \in {d, to, v} \cup ({i} \ dirs) THEN p ELSE lock[x]
      /\ DOMAIN ent' = DOMAIN ent /\ ent'[<<to, m>>] = i
      /\ \A e \in DOMAIN ent : e # <<to, m>> => ent'[e] = ent[e]
      /\ UNCHANGED <<bitmap, dirs, leaked, live, fs_error, nlink, dotdot, opened, vanished>>
  BY ZenonT(60), AboveSelf DEF Others, Shape, Locals, Trees, Alloc, RenameOver, MayRename, Usable,
     Begin, Call, Acquire, AddEntry, Entries, diskVars, countVars, ialloc, calm,
     Goto, Labels
<1>2. Ranges
  BY RangesHold
<1>3. ~Private(d) /\ ~Private(to) /\ ~Private(i) /\ ~Private(v)
  BY <1>1, NotPrivate DEF Usable
<1>4. i \in live /\ v \in live /\ v # EXT2_ROOT_INO
  BY <1>1 DEF Shape, Entries
<1>5. i \in dirs => /\ i \in DOMAIN dotdot /\ dotdot[i] = d /\ i # EXT2_ROOT_INO
                    /\ \A f \in DOMAIN ent : ent[f] = i => f = <<d, n>>
                    /\ \A q \in Procs : Moving(q) => op[q].ino # i
  BY <1>1, SettledEntry
<1>6. v \in dirs => /\ v \in DOMAIN dotdot /\ dotdot[v] = to
                    /\ \A f \in DOMAIN ent : ent[f] = v => f = <<to, m>>
                    /\ \A q \in Procs : Moving(q) => op[q].ino # v
  BY <1>1, SettledEntry
<1>7. v # to
  BY <1>1, <1>4, <1>6 DEF Shape, Tree
<1>8. Alloc' /\ ~fs_error'
  BY <1>1 DEF Shape, Alloc, RenameOver, countVars, ialloc, calm
<1>9. Locals'
  <2>1. [Call("rename", d, n, ent[<<d, n>>]) EXCEPT !.to = to, !.victim = {ent[<<to, m>>]}] \in OpRec
    BY ZenonT(60), <1>1 DEF Call, OpRec, Calls
  <2> QED
    BY <1>1, <2>1 DEF RenameOver, MayRename, Begin, Goto, Shape, Locals, Labels
<1>10. Trees'
  <2>1. nlink' \in [Inodes -> Int]
    BY <1>1 DEF RenameOver, Shape, Trees
  <2>2. DOMAIN ent' \subseteq Inodes \X Names /\ IsFiniteSet(DOMAIN ent')
    BY <1>1, FS_AddElement DEF Shape, Trees
  <2>3. lock' \in [Inodes -> Procs \cup {NoProc}]
    BY <1>1 DEF RenameOver, MayRename, Acquire, Shape, Trees
  <2> QED
    BY <1>1, <2>3 DEF Shape, Trees
<1> HIDE DEF i, v
<1>11. Phases'
  BY <1>1 DEF Others, Shape, Phases, Making, Moving, Allocating, Taking
<1>12. Single'
  BY <1>1 DEF Others, Shape, Single, Mine, Taking
<1>13. Privacy'
  BY <1>1, <1>3, <1>4, <1>5, <1>6, <1>7 DEF Others, Shape, Private, Owns, Privacy, Unused,
     Uses, Mine, Making, Linking, Removing, Moving, Taking
<1>14. Owned'
  BY <1>1 DEF Others, Shape, Owned, Marks, Mine, Making, Taking
<1>15. Gone'
  BY <1>1, <1>3, <1>4, <1>5, <1>6, <1>7 DEF Others, Shape, Private, Owns, Gone, Unused,
     Uses, Making, Linking, Removing, Moving
<1>16. Sets'
  BY <1>1 DEF Others, Shape, Sets, Unhashed, Taking
<1>17. MakingInv'
  <2>1. SUFFICES ASSUME NEW q \in Procs, Making(q)'
                 PROVE  /\ lock'[op'[q].dir] = q /\ op'[q].dir \in DOMAIN dotdot'
                        /\ <<op'[q].dir, op'[q].name>> \notin DOMAIN ent'
                        /\ op'[q].name \in Names
                        /\ pc'[q] \in Allocating => (cur'[q].dir <=> op'[q].call = "mkdir")
    BY DEF MakingInv
  <2>2. Making(q) /\ q # p
    BY <1>1, <2>1 DEF Others, Making
  <2>3. /\ lock[op[q].dir] = q /\ op[q].dir \in DOMAIN dotdot
        /\ <<op[q].dir, op[q].name>> \notin DOMAIN ent
        /\ op[q].name \in Names /\ op[q].dir \in Inodes
        /\ pc[q] \in Allocating => (cur[q].dir <=> op[q].call = "mkdir")
    BY <1>2, <2>2 DEF Shape, MakingInv, Ranges
  <2>4. CASE q # p
    BY <1>1, <1>2, <2>3, <2>4 DEF Others, Ranges
  <2>5. CASE q = p
    BY <1>1, <2>1, <2>5 DEF Making
  <2> QED
    BY <2>4, <2>5
<1>18. LinkingInv'
  <2>1. SUFFICES ASSUME NEW q \in Procs, Linking(q)'
                 PROVE  /\ lock'[op'[q].dir] = q /\ op'[q].dir \in DOMAIN dotdot'
                        /\ <<op'[q].dir, op'[q].name>> \notin DOMAIN ent'
                        /\ op'[q].name \in Names
                        /\ lock'[op'[q].ino] = q /\ op'[q].ino \in live' \ dirs'
                        /\ (\E e \in DOMAIN ent' : ent'[e] = op'[q].ino) \/ vanished'[op'[q].ino] > 0
    BY DEF LinkingInv
  <2>2. Linking(q) /\ q # p /\ op'[q] = op[q]
    BY <1>1, <2>1 DEF Others, Linking
  <2>3. /\ lock[op[q].dir] = q /\ op[q].dir \in DOMAIN dotdot
        /\ <<op[q].dir, op[q].name>> \notin DOMAIN ent
        /\ op[q].name \in Names /\ op[q].dir \in Inodes /\ op[q].ino \in Inodes
        /\ lock[op[q].ino] = q /\ op[q].ino \in live \ dirs
    BY <1>2, <2>2 DEF Shape, LinkingInv, Ranges
  <2>4. (\E e \in DOMAIN ent : ent[e] = op[q].ino) \/ vanished[op[q].ino] > 0
    BY <2>2 DEF Shape, LinkingInv
  <2>5. \A e \in DOMAIN ent : ent[e] = op[q].ino => e # <<to, m>>
    BY <1>1, <1>2, <2>3 DEF Ranges, v
  <2> QED
    BY <1>1, <1>2, <2>2, <2>3, <2>4, <2>5 DEF Ranges
<1>19. RemovingInv'
  BY <1>1, <1>2, <1>5 DEF Others, Shape, Ranges, RemovingInv, Removing, Detached
<1>20. MoveLocks'
  BY <1>1, <1>2, <1>4, <1>5, <1>6 DEF Others, Shape, Ranges, MoveLocks, Moving
<1>21. MoveVictims'
  BY <1>1, <1>2, <1>4, <1>6, <1>7 DEF Others, Shape, Ranges, MoveVictims, Moving, Detached,
     i, v
<1>22. MoveOld'
  <2>1. SUFFICES ASSUME NEW q \in Procs, pc'[q] \in {"drop", "delete"}
                 PROVE  /\ <<op'[q].dir, op'[q].name>> \in DOMAIN ent'
                        /\ ent'[<<op'[q].dir, op'[q].name>>] = op'[q].ino
    BY DEF MoveOld
  <2>2. CASE q = p
    BY <1>1, <2>2 DEF i, v
  <2>3. CASE q # p
    <3>1. /\ op'[q] = op[q] /\ lock[op[q].dir] = q
          /\ <<op[q].dir, op[q].name>> \in DOMAIN ent
          /\ ent[<<op[q].dir, op[q].name>>] = op[q].ino
      BY SMTT(30), <1>1, <2>1, <2>3 DEF Others, Shape, MoveOld, MoveLocks, Moving
    <3>2. op[q].dir # to
      BY <1>1, <1>2, <3>1 DEF Ranges
    <3> QED
      BY <1>1, <3>1, <3>2
  <2> QED
    BY <2>2, <2>3
<1>23. MoveNew'
  BY <1>1, <1>2 DEF Others, Shape, Ranges, MoveNew, Moving, MoveLocks
<1>24. MoveDirs'
  BY <1>1, <1>5 DEF Others, Shape, MoveDirs, Moving
<1>25. Entries'
  BY <1>1 DEF Others, Shape, Entries, MovesTo, Moving, i, v
<1>26. OneEntry'
  <2>1. SUFFICES ASSUME NEW e \in DOMAIN ent, NEW f \in DOMAIN ent,
                        ent'[e] = ent'[f], ent'[e] \in dirs, e # f
                 PROVE  \E q \in Procs : Doubles(q, ent[e])' /\ <<op'[q].dir, op'[q].name>> \in {e, f}
    BY <1>1 DEF OneEntry
  <2>2. CASE e = <<to, m>> \/ f = <<to, m>>
    <3>1. ent'[e] = i /\ i \in dirs /\ <<d, n>> \in {e, f}
      BY <1>1, <1>5, <2>1, <2>2
    <3> QED
      BY <1>1, <3>1 DEF Doubles
  <2>3. CASE e # <<to, m>> /\ f # <<to, m>>
    <3>1. PICK q \in Procs : Doubles(q, ent[e]) /\ <<op[q].dir, op[q].name>> \in {e, f}
      BY <1>1, <2>1, <2>3 DEF Shape, OneEntry
    <3>2. q # p /\ op'[q] = op[q] /\ pc'[q] = pc[q] /\ ent'[e] = ent[e]
      BY <1>1, <2>3, <3>1 DEF Doubles, Others
    <3> QED
      BY <3>1, <3>2 DEF Doubles
  <2> QED
    BY <2>2, <2>3
<1>27. Tree'
  BY <1>1 DEF Others, Shape, Tree
<1>28. Rooted'
  BY <1>1 DEF Others, Shape, Rooted, Loose, Removing, i, v
<1>29. Shape'
  BY <1>8, <1>9, <1>10, <1>11, <1>12, <1>13, <1>14, <1>15, <1>16, <1>17, <1>18, <1>19,
     <1>20, <1>21, <1>22, <1>23, <1>24, <1>25, <1>26, <1>27, <1>28 DEF Shape
<1>30. Counts'
  <2>1. SUFFICES ASSUME NEW x \in live', ~Private(x)'
                 PROVE  nlink'[x] = LinksTo(x)' + Owed(x)'
    BY DEF Counts
  <2>2. x \in Inodes /\ x \in live /\ ~Private(x) /\ nlink[x] = LinksTo(x) + Owed(x)
    BY <1>1, <2>1 DEF Private, Owns, Mine, Taking, Others, Counts, Shape, Alloc
  <2>3. SameRest(p, x)
    BY <1>1, OthersOwe DEF Others
  <2>4. Elsewhere(ent, ent', <<to, m>>) /\ Elsewhere(dotdot, dotdot', 0)
    BY <1>1 DEF Elsewhere
  <2>5. Balance(nlink', ent', dotdot', <<to, m>>, 0, x, OwedBy(p, x)')
          = Balance(nlink, ent, dotdot, <<to, m>>, 0, x, OwedBy(p, x))
    <3>1. OwedBy(p, x) = 0
      BY <1>1 DEF OwedBy, Plus, Doubles, Dot, Linking, Removing, One, Phases, Shape
    <3>2. OwedBy(p, x)' = One(x = v) - One(x = i)
      BY <1>1 DEF OwedBy, Plus, Doubles, Dot, Linking, Removing, One
    <3>3. /\ At1(ent, <<to, m>>, x) <=> x = v
          /\ At1(ent', <<to, m>>, x) <=> x = i
      BY <1>1 DEF At1, v
    <3>4. nlink' = nlink /\ dotdot' = dotdot /\ nlink[x] \in Int
      BY <1>1, <2>2 DEF Shape, Trees
    <3> QED
      BY <3>1, <3>2, <3>3, <3>4 DEF Balance, One
  <2> QED
    BY <1>29, <1>1, <2>2, <2>3, <2>4, <2>5, CountsStep
<1>31. Kept'
  BY <1>1 DEF Kept, Private, Owns, Mine, Taking, Dropped, Others, Shape
<1> QED
  BY <1>29, <1>30, <1>31

\* A file is opened.
LEMMA OpenKeeps ==
  ASSUME Shape, Counts, Kept, NEW p \in Procs, NEW i \in live,
         Open(i)
  PROVE  Shape' /\ Counts' /\ Kept'
<1>1. /\ Others(p) /\ opened' = opened \cup {i} /\ Visible(i) /\ i \in Inodes
      /\ UNCHANGED <<bitmap, dirs, leaked, live, fs_error, pc, op, cur, nlink, ent, dotdot, lock, vanished>>
  BY DEF Others, Shape, Alloc, Open, ivars, diskVars
<1>2. Ranges
  BY RangesHold
<1>3. ~Private(i)
  BY <1>1, NotPrivate DEF Visible, Uses, Removing, Moving
<1>4. Alloc' /\ ~fs_error'
  BY DEF Shape, Alloc, Open, ivars, diskVars, countVars
<1>5. Locals'
  BY DEF Open, ivars, Shape, Locals
<1>6. Trees'
  BY <1>1 DEF Open, Shape, Trees
<1>7. Phases'
  BY <1>1 DEF Others, Shape, Phases, Making, Moving
<1>8. Single'
  BY <1>1 DEF Others, Shape, Single, Mine
<1>9. Privacy'
  BY <1>1, <1>3 DEF Others, Shape, Private, Owns, Privacy, Unused, Uses, Mine, Making,
     Linking, Removing, Moving
<1>10. Owned'
  BY <1>1 DEF Others, Shape, Owned, Marks, Mine, Making
<1>11. Gone'
  BY <1>1, <1>3 DEF Others, Shape, Private, Owns, Gone, Unused, Uses, Making, Linking,
     Removing, Moving
<1>12. Sets'
  BY <1>1 DEF Others, Shape, Sets, Unhashed
<1>13. MakingInv'
  BY <1>1 DEF Others, Shape, MakingInv, Making
<1>14. LinkingInv'
  BY <1>1 DEF Others, Shape, LinkingInv, Linking
<1>15. RemovingInv'
  BY <1>1 DEF Others, Shape, RemovingInv, Removing, Detached
<1>16. MoveLocks'
  BY <1>1 DEF Others, Shape, MoveLocks, Moving
<1>17. MoveVictims'
  BY <1>1 DEF Others, Shape, MoveVictims, Moving, Detached
<1>18. MoveOld'
  BY <1>1 DEF Others, Shape, MoveOld
<1>19. MoveNew'
  BY <1>1 DEF Others, Shape, MoveNew, Moving
<1>20. MoveDirs'
  BY <1>1 DEF Others, Shape, MoveDirs, Moving
<1>21. Entries'
  BY <1>1 DEF Others, Shape, Entries, MovesTo, Moving
<1>22. OneEntry'
  BY <1>1 DEF Others, Shape, OneEntry, Doubles
<1>23. Tree'
  BY <1>1 DEF Others, Shape, Tree
<1>24. Rooted'
  BY <1>1 DEF Others, Shape, Rooted, Loose, Removing
<1>25. Shape'
  BY <1>4, <1>5, <1>6, <1>7, <1>8, <1>9, <1>10, <1>11, <1>12, <1>13, <1>14, <1>15, <1>16,
     <1>17, <1>18, <1>19, <1>20, <1>21, <1>22, <1>23, <1>24 DEF Shape
<1>26. Counts'
  <2>1. SUFFICES ASSUME NEW x \in live', ~Private(x)'
                 PROVE  nlink'[x] = LinksTo(x)' + Owed(x)'
    BY DEF Counts
  <2>2. x \in Inodes /\ x \in live /\ ~Private(x) /\ nlink[x] = LinksTo(x) + Owed(x)
    BY <1>1, <2>1 DEF Private, Owns, Mine, Others, Counts, Shape, Alloc
  <2>3. SameRest(p, x)
    BY <1>1, OthersOwe DEF Others
  <2>4. Elsewhere(ent, ent', <<0, 0>>) /\ Elsewhere(dotdot, dotdot', 0)
    BY <1>1 DEF Elsewhere
  <2>5. Balance(nlink', ent', dotdot', <<0, 0>>, 0, x, OwedBy(p, x)')
          = Balance(nlink, ent, dotdot, <<0, 0>>, 0, x, OwedBy(p, x))
    BY <1>1 DEF OwedBy, Plus, Doubles, Dot, Linking, Removing, Shape
  <2> QED
    BY <1>25, <1>1, <2>2, <2>3, <2>4, <2>5, CountsStep
<1>27. Kept'
  BY <1>1 DEF Kept, Private, Owns, Mine, Dropped, Others, Shape
<1> QED
  BY <1>25, <1>26, <1>27

\* The last user closes a file, which is deleted when it has no links.
LEMMA CloseKeeps ==
  ASSUME Shape, Counts, Kept, NEW p \in Procs, NEW i \in live,
         Close(p, i)
  PROVE  Shape' /\ Counts' /\ Kept'
<1>1. /\ Others(p) /\ i \in opened /\ i \in Inodes /\ opened' = opened \ {i}
      /\ \/ (nlink[i] > 0 \/ Held(i)) /\ UNCHANGED <<pc, op, cur>>
         \/ /\ ~(nlink[i] > 0) /\ ~Held(i) /\ pc[p] = "idle" /\ pc'[p] = "evict"
            /\ cur'[p].ino = i /\ op'[p].call = "close"
      /\ UNCHANGED <<bitmap, dirs, leaked, live, fs_error, nlink, ent, dotdot, lock, vanished>>
  BY DEF Others, Shape, Locals, Alloc, Close, Begin, Call, CurRec, diskVars, ialloc, calm, Goto
<1>2. Ranges
  BY RangesHold
<1>3. ~Private(i)
  BY <1>1, NotPrivate
<1>4. i \in Inodes /\ i \in live
  BY DEF Shape, Alloc
<1>5. ~(nlink[i] > 0) => nlink[i] = 0 /\ Linkless(i)
  BY <1>1, <1>3, LastLink
<1>6. ~(nlink[i] > 0) /\ ~Held(i) => \A q \in Procs : ~Uses(q, i)
  BY <1>5, ForgottenApart DEF Linkless
<1>7. Alloc' /\ ~fs_error'
  BY <1>1 DEF Shape, Alloc, Close, countVars, ialloc, calm
<1>8. Locals'
  <2>1. Call("close", i, NoName, i) \in OpRec
    BY <1>1, CallType DEF Calls
  <2>2. [cur[p] EXCEPT !.ino = i] \in CurRec
    BY <1>1, CurDir, CurIno DEF Shape, Locals
  <2> QED
    BY <1>1, <2>1, <2>2 DEF Close, Begin, Goto, Shape, Locals, Labels
<1>9. Trees'
  BY <1>1 DEF Close, Shape, Trees
<1>10. Phases'
  BY <1>1 DEF Others, Shape, Phases, Making, Moving, Allocating, Taking
<1>11. Single'
  BY <1>1, <1>3 DEF Others, Shape, Private, Owns, Single, Mine
<1>12. Privacy'
  <2>1. ASSUME NEW q \in Procs \ {p}, Mine(q)'
        PROVE  Unused(cur[q].ino)'
    <3>1. Mine(q) /\ cur'[q] = cur[q]
      BY <1>1, <2>1 DEF Others, Mine
    <3>2. Owner(q)
      BY <3>1, OwnerKnows
    <3> QED
      BY <1>1, <3>2 DEF Others, Owner, Unused, Uses, Making, Linking, Removing, Moving
  <2>2. ASSUME Mine(p)'
        PROVE  Unused(cur[p].ino)'
    <3>1. CASE Mine(p) /\ UNCHANGED <<pc, op, cur>>
      BY <1>1, <3>1, OwnerKnows DEF Others, Owner, Unused, Uses, Making, Linking, Removing,
         Moving
    <3>2. CASE ~(nlink[i] > 0) /\ ~Held(i) /\ pc[p] = "idle" /\ pc'[p] = "evict"
               /\ cur'[p].ino = i /\ op'[p].call = "close"
      BY <1>1, <1>5, <1>6, <3>2 DEF Others, Unused, Uses, Making, Linking, Removing, Moving,
         Linkless, Shape, Entries
    <3> QED
      BY <1>1, <2>2, <3>1, <3>2 DEF Mine
  <2> QED
    BY <2>1, <2>2 DEF Privacy
<1>13. Owned'
  <2>1. ASSUME NEW q \in Procs \ {p}, Mine(q)'
        PROVE  Marks(q)'
    <3>1. Mine(q) /\ cur'[q] = cur[q] /\ pc'[q] = pc[q] /\ op'[q] = op[q]
      BY <1>1, <2>1 DEF Others, Mine
    <3>2. Marks(q) /\ cur[q].ino \in Inodes /\ Owns(q, cur[q].ino)
      BY <1>2, <3>1 DEF Shape, Owned, Ranges, Owns
    <3> QED
      BY <1>1, <3>1, <3>2 DEF Marks, Making
  <2>2. ASSUME Mine(p)'
        PROVE  Marks(p)'
    <3>1. CASE Mine(p) /\ UNCHANGED <<pc, op, cur>>
      BY <1>1, <3>1 DEF Shape, Owned, Marks, Making
    <3>2. CASE ~(nlink[i] > 0) /\ ~Held(i) /\ pc[p] = "idle" /\ pc'[p] = "evict"
               /\ cur'[p].ino = i /\ op'[p].call = "close"
      <4>1. nlink[i] = 0 /\ Linkless(i) /\ i \in bitmap \ leaked
        BY <1>5, <3>2 DEF Shape, Sets
      <4>2. i >= EXT2_FIRST_INO
        BY <4>1 DEF Shape, Sets, Tree, Linkless
      <4> QED
        BY <1>1, <3>2, <4>1, <4>2 DEF Marks, Evicting, Linkless
    <3> QED
      BY <1>1, <2>2, <3>1, <3>2 DEF Mine
  <2> QED
    BY <2>1, <2>2 DEF Owned
<1>14. Gone'
  BY <1>1, <1>3, <1>4, <1>5, <1>6 DEF Others, Shape, Private, Owns, Gone, Unused, Uses,
     Making, Linking, Removing, Moving
<1>15. Sets'
  BY <1>1 DEF Others, Shape, Sets, Unhashed, Taking
<1>16. MakingInv'
  BY <1>1 DEF Others, Shape, MakingInv, Making
<1>17. LinkingInv'
  BY <1>1 DEF Others, Shape, LinkingInv, Linking
<1>18. RemovingInv'
  BY <1>1 DEF Others, Shape, RemovingInv, Removing, Detached
<1>19. MoveLocks'
  BY <1>1 DEF Others, Shape, MoveLocks, Moving
<1>20. MoveVictims'
  BY <1>1 DEF Others, Shape, MoveVictims, Moving, Detached
<1>21. MoveOld'
  BY <1>1 DEF Others, Shape, MoveOld
<1>22. MoveNew'
  BY <1>1 DEF Others, Shape, MoveNew, Moving
<1>23. MoveDirs'
  BY <1>1 DEF Others, Shape, MoveDirs, Moving
<1>24. Entries'
  BY <1>1 DEF Others, Shape, Entries, MovesTo, Moving
<1>25. OneEntry'
  BY <1>1 DEF Others, Shape, OneEntry, Doubles
<1>26. Tree'
  BY <1>1 DEF Others, Shape, Tree
<1>27. Rooted'
  BY <1>1 DEF Others, Shape, Rooted, Loose, Removing
<1>28. Shape'
  BY <1>7, <1>8, <1>9, <1>10, <1>11, <1>12, <1>13, <1>14, <1>15, <1>16, <1>17, <1>18, <1>19,
     <1>20, <1>21, <1>22, <1>23, <1>24, <1>25, <1>26, <1>27 DEF Shape
<1>29. Counts'
  <2>1. SUFFICES ASSUME NEW x \in live', ~Private(x)'
                 PROVE  nlink'[x] = LinksTo(x)' + Owed(x)'
    BY DEF Counts
  <2>2. x \in Inodes /\ x \in live /\ ~Private(x) /\ nlink[x] = LinksTo(x) + Owed(x)
    BY <1>1, <2>1 DEF Private, Owns, Mine, Taking, Others, Counts, Shape, Alloc
  <2>3. SameRest(p, x)
    BY <1>1, OthersOwe DEF Others
  <2>4. Elsewhere(ent, ent', <<0, 0>>) /\ Elsewhere(dotdot, dotdot', 0)
    BY <1>1 DEF Elsewhere
  <2>5. Balance(nlink', ent', dotdot', <<0, 0>>, 0, x, OwedBy(p, x)')
          = Balance(nlink, ent, dotdot, <<0, 0>>, 0, x, OwedBy(p, x))
    BY <1>1 DEF Phases, OwedBy, Plus, Doubles, Dot, Linking, Removing, Shape
  <2> QED
    BY <1>28, <1>1, <2>2, <2>3, <2>4, <2>5, CountsStep
<1>30. Kept'
  <2>1. SUFFICES ASSUME NEW x \in live', ~(nlink'[x] > 0), x \notin opened', ~Private(x)',
                        \A q \in Procs : ~Dropped(q, x)'
                 PROVE  FALSE
    BY DEF Kept
  <2>2. nlink'[x] = 0 /\ Linkless(x)' /\ x \in Inodes /\ x \in live
    BY <1>28, <1>29, <1>1, <2>1, LastLinksNext DEF Shape, Alloc
  <2>3. x = i /\ nlink[i] = 0 => ~Held(i)
    <3>1. SUFFICES ASSUME x = i, nlink[i] = 0, NEW q \in Procs, Held(i),
                          pc[q] \in {"add", "dec", "drop", "delete", "reparent"},
                          i \in {op[q].ino} \cup op[q].victim
                   PROVE  FALSE
      BY DEF Held
    <3>2. Linkless(i) /\ (\A r \in Procs : ~Plus(r, i)) /\ ~Owns(q, i)
      BY <1>3, <3>1, LastLink DEF Private
    <3>3. ~Dropped(q, i)
      BY <1>1, <2>1, <3>1 DEF Dropped
    <3>4. CASE pc[q] \in {"add", "dec"}
      <4>1. op[q].call \in {"mkdir", "link", "unlink", "rmdir"}
        BY <3>4 DEF Shape, Phases
      <4>2. op[q].ino = i
        BY <3>1, <4>1, OpFields DEF Shape, Locals
      <4>3. CASE pc[q] = "add" /\ op[q].call = "mkdir"
        BY <3>2, <4>2, <4>3 DEF Owns, Mine, Shape, Owned, Marks
      <4>4. CASE pc[q] = "dec" \/ op[q].call = "link"
        BY <3>2, <4>2, <4>4 DEF Plus, Linking, Removing
      <4> QED
        BY <3>4, <4>1, <4>3, <4>4 DEF Shape, Phases
    <3>5. CASE pc[q] \in {"drop", "delete", "reparent"}
      BY <3>1, <3>2, <3>3, <3>5 DEF Plus, Linkless, Dropped, Moving, Shape, MoveNew
    <3> QED
      BY <3>1, <3>4, <3>5
  <2>4. x = i => nlink[i] = 0
    BY <1>1, <2>2
  <2> QED
    BY <1>1, <2>1, <2>3, <2>4 DEF Kept, Dropped, Private, Owns, Mine, Taking, Others, Shape
<1> QED
  BY <1>28, <1>29, <1>30

-----------------------------------------------------------------------------
(* The invariant, and what it says *)

\* A fresh file system, with nothing but its root, satisfies the invariant.
LEMMA InitIInv == Init => IInv
<1>1. SUFFICES ASSUME Init PROVE IInv
  OBVIOUS
<1>2. /\ EXT2_ROOT_INO \in Inodes /\ EXT2_ROOT_INO < EXT2_FIRST_INO /\ EXT2_ROOT_INO \in Nat
      /\ EXT2_FIRST_INO \in Nat
  BY RootIno, IallocAssumption
<1>3. /\ bitmap = 1 .. EXT2_FIRST_INO - 1 /\ bitmap \subseteq Inodes
      /\ dirs = {EXT2_ROOT_INO} /\ live = {EXT2_ROOT_INO} /\ leaked = {} /\ fs_error = FALSE
  BY <1>1, IallocAssumption DEF Init, IallocInit, Inodes
<1>4. \A p \in Procs : /\ pc[p] = "idle" /\ op[p] = NoOp /\ op[p].call = "none" /\ cur[p] = NoInode
  BY <1>1 DEF Init, IallocInit, NoOp, Call
<1>5. /\ DOMAIN ent = {} /\ DOMAIN dotdot = {EXT2_ROOT_INO}
      /\ dotdot[EXT2_ROOT_INO] = EXT2_ROOT_INO /\ opened = {}
      /\ \A i \in Inodes : vanished[i] = 0 /\ nlink[i] = IF i = EXT2_ROOT_INO THEN 2 ELSE 0
  BY <1>1 DEF Init
<1>6. Alloc
  <2>1. \A S \in SUBSET Inodes, g \in Groups :
          Cardinality(InGroup(S, g)) \in 0 .. s_inodes_per_group
    BY InGroupSize
  <2>2. /\ bg_free_inodes_count \in [Groups -> 0 .. U16 - 1]
        /\ bg_used_dirs_count \in [Groups -> 0 .. U16 - 1]
    <3>1. dirs \in SUBSET Inodes /\ bitmap \in SUBSET Inodes
      BY <1>2, <1>3
    <3>2. /\ bg_free_inodes_count = [g \in Groups |-> s_inodes_per_group - Cardinality(InGroup(bitmap, g))]
          /\ bg_used_dirs_count = [g \in Groups |-> Cardinality(InGroup(dirs, g))]
      BY <1>1 DEF Init, IallocInit
    <3>3. \A g \in Groups : /\ s_inodes_per_group - Cardinality(InGroup(bitmap, g)) \in 0 .. U16 - 1
                            /\ Cardinality(InGroup(dirs, g)) \in 0 .. U16 - 1
      BY <2>1, <3>1, IallocAssumption
    <3> QED
      BY <3>2, <3>3
  <2>3. s_freeinodes_counter \in Int /\ s_dirs_counter \in Int
    <3>1. IsFiniteSet(Inodes \ bitmap)
      <4>1. IsFiniteSet(Inodes)
        BY FS_Interval, IallocAssumption DEF Inodes
      <4> QED
        BY <4>1, FS_Subset
    <3> QED
      BY <1>1, <3>1, FS_CardinalityType DEF Init, IallocInit
  <2> QED
    BY <1>2, <1>3, <2>2, <2>3, IallocAssumption DEF Alloc
<1>7. Locals
  BY <1>1, NoOpType, NoInodeType DEF Init, IallocInit, Locals, Labels
<1>8. Trees
  BY <1>1, <1>2, FS_EmptySet DEF Init, Trees
<1>9. \A p \in Procs : ~Mine(p) /\ ~Making(p) /\ ~Linking(p) /\ ~Removing(p) /\ ~Moving(p)
  BY <1>4 DEF Mine, Making, Linking, Removing, Moving, Taking
<1>10. Phases
  BY <1>4, <1>9 DEF Phases, Allocating, Taking
<1>11. Single /\ Privacy /\ Owned /\ MakingInv /\ LinkingInv /\ RemovingInv
  BY <1>9 DEF Single, Privacy, Owned, MakingInv, LinkingInv, RemovingInv
<1>12. MoveLocks /\ MoveVictims /\ MoveOld /\ MoveNew /\ MoveDirs
  BY <1>4, <1>9 DEF MoveLocks, MoveVictims, MoveOld, MoveNew, MoveDirs
<1>13. Gone /\ Sets
  BY <1>2, <1>3, <1>5, <1>9, IallocAssumption DEF Gone, Sets, Unused, Uses, Inodes
<1>14. Entries /\ OneEntry /\ Tree /\ Rooted
  BY <1>3, <1>5 DEF Entries, OneEntry, Tree, Rooted
<1>15. Shape
  BY <1>3, <1>6, <1>7, <1>8, <1>10, <1>11, <1>12, <1>13, <1>14 DEF Shape
<1>16. Counts
  <2>1. LinksTo(EXT2_ROOT_INO) = 2
    <3>1. Ents(EXT2_ROOT_INO) = {} /\ Below(EXT2_ROOT_INO) = {EXT2_ROOT_INO}
      BY <1>5 DEF Ents, Below
    <3>2. Cardinality(Ents(EXT2_ROOT_INO)) = 0 /\ Cardinality(Below(EXT2_ROOT_INO)) = 1
      BY <3>1, FS_EmptySet, FS_Singleton
    <3> QED
      BY <1>2, <1>5, <1>8, <3>2, LinksSum DEF One
  <2>2. Owed(EXT2_ROOT_INO) = 0
    BY <1>4, <1>9 DEF Owed, One, Plus, Doubles, Dot
  <2> QED
    BY <1>2, <1>3, <1>5, <2>1, <2>2 DEF Counts
<1>17. Kept
  BY <1>2, <1>3, <1>5 DEF Kept
<1> QED
  BY <1>15, <1>16, <1>17 DEF IInv

-----------------------------------------------------------------------------

\* The invariant types every variable.
LEMMA Typed == IInv => TypeOK
<1>1. SUFFICES ASSUME IInv PROVE TypeOK
  OBVIOUS
<1>2. Shape /\ Counts /\ Alloc /\ Locals /\ Trees /\ Sets /\ Entries /\ Tree /\ Gone
  BY <1>1 DEF IInv, Shape
<1>3. IallocTypeOK
  BY <1>2 DEF Alloc, Locals, CurRec, Sets, IallocTypeOK
<1>4. nlink \in [Inodes -> Nat]
  <2>1. SUFFICES ASSUME NEW i \in Inodes PROVE nlink[i] \in Nat
    BY <1>2 DEF Trees
  <2>2. CASE i \notin live
    BY <1>2, <2>2 DEF Gone
  <2>3. CASE i \in live /\ Private(i)
    BY <1>2, <2>3 DEF Private, Owns, Shape, Owned, Marks
  <2>4. CASE i \in live /\ ~Private(i)
    BY <1>2, <2>4, LastLink
  <2> QED
    BY <2>2, <2>3, <2>4
<1>5. opened \subseteq live
  BY <1>2 DEF Gone, Unused, Trees
<1>6. op \in [Procs -> [call : Calls, dir : Inodes, name : Names \cup {NoName}, ino : Inodes,
                        to : Inodes, victim : SUBSET Inodes]]
  BY <1>2 DEF Locals, OpRec
<1> QED
  BY <1>2, <1>3, <1>4, <1>5, <1>6 DEF TypeOK, Locals, Trees, Entries, Tree

\* Nothing refers to the inode a process owns.
LEMMA OwnedLinks ==
  ASSUME Shape, NEW p \in Procs, Mine(p), pc[p] \notin {"add", "undo"}
  PROVE  nlink[cur[p].ino] = 0 /\ LinksTo(cur[p].ino) = 0
<1>1. Owner(p)
  BY OwnerKnows
<1> QED
  BY <1>1, OwnerOwes DEF Owner, One

\* Two processes do not own one inode.
LEMMA Apart == IInv => NoSharedInode
<1>1. SUFFICES ASSUME IInv PROVE NoSharedInode
  OBVIOUS
<1>2. ASSUME NEW p \in Procs, pc[p] \in {"count", "desc", "insert", "clear"}
      PROVE  Mine(p) /\ cur[p].ino \in bitmap \ live
  <2>1. Mine(p)
    BY <1>2 DEF Mine, Taking
  <2> QED
    BY <1>1, <1>2, <2>1, OwnerKnows DEF Owner, IInv
<1> QED
  BY <1>1, <1>2 DEF NoSharedInode, At, IInv, Shape, Single

\* What leads to a free inode has been removed.
LEMMA Linked == IInv => NoDangling
<1>1. SUFFICES ASSUME IInv, NEW i,
                      \/ \E e \in DOMAIN ent : ent[e] = i \/ e[1] = i
                      \/ \E d \in DOMAIN dotdot : dotdot[d] = i
               PROVE  i \in live /\ nlink[i] > 0
  BY DEF NoDangling
<1>2. Shape /\ Counts
  BY <1>1 DEF IInv
<1>3. i \in live
  BY <1>1, <1>2 DEF Shape, Entries, Tree
<1>4. ~Private(i)
  <2>1. SUFFICES ASSUME NEW p \in Procs, Owns(p, i) PROVE FALSE
    BY DEF Private
  <2>2. Owner(p) /\ i = cur[p].ino
    BY <1>2, <2>1, OwnerKnows DEF Owns
  <2>3. PICK d \in DOMAIN dotdot : dotdot[d] = i
    BY <1>1, <2>2 DEF Owner
  <2>4. d = i
    BY <2>2, <2>3 DEF Owner
  <2> QED
    BY <1>2, <2>2, <2>3, <2>4 DEF Owner, Shape, Tree
<1>5. nlink[i] \in Nat /\ nlink[i] # 0
  <2>1. ~Linkless(i)
    BY <1>1, <1>2 DEF Linkless, Shape, Entries
  <2> QED
    BY <1>2, <1>3, <1>4, <2>1, LastLink
<1> QED
  BY <1>3, <1>5

\* Outside of the calls about it nothing is owed to an inode.
LEMMA Settled ==
  ASSUME Shape, NEW i, i \notin Busy
  PROVE  Owed(i) = 0
<1>1. \A p \in Procs : pc[p] # "idle" => op[p].dir # i /\ op[p].ino # i /\ op[p].to # i
                                         /\ i \notin op[p].victim
  BY DEF Busy
<1>2. \A p \in Procs : op[p].call # "none" => pc[p] # "idle"
  BY DEF Shape, Phases
<1>3. \A p \in Procs : ~Plus(p, i) /\ ~Doubles(p, i) /\ ~Dot(p, i)
  BY <1>1, <1>2 DEF Plus, Doubles, Dot, Linking, Removing
<1> QED
  BY <1>3 DEF Owed, One

\* When nobody changes an inode its link count is right.
LEMMA Exact == IInv => LinksExact
<1>1. SUFFICES ASSUME IInv, NEW i \in Inodes \ (Busy \cup leaked)
               PROVE  nlink[i] = LinksTo(i)
  BY Typed DEF LinksExact
<1>2. Shape /\ Counts
  BY <1>1 DEF IInv
<1>3. CASE i \notin live
  <2>1. nlink[i] = 0 /\ Unused(i) /\ i \notin DOMAIN dotdot /\ vanished[i] = 0
    BY <1>1, <1>2, <1>3 DEF Shape, Gone
  <2>2. LinksTo(i) = 0
    BY <1>2, <2>1, LinksZero DEF Unused, Shape
  <2> QED
    BY <2>1, <2>2
<1>4. CASE Private(i)
  <2>1. PICK p \in Procs : Mine(p) /\ cur[p].ino = i
    BY <1>4 DEF Private, Owns
  <2>2. pc[p] \notin {"add", "undo"}
    BY <1>1, <1>2, <2>1 DEF Shape, Owned, Marks, Busy
  <2> QED
    BY <1>2, <2>1, <2>2, OwnedLinks
<1>5. CASE i \in live /\ ~Private(i)
  <2>1. nlink[i] = LinksTo(i) + Owed(i) /\ Owed(i) = 0
    BY <1>1, <1>2, <1>5, Settled DEF Counts
  <2> QED
    BY <1>2, <2>1, LinksZero DEF Shape
<1> QED
  BY <1>3, <1>4, <1>5

\* An inode whose bit is set, and that nobody makes or deletes, has a name, or had
\* one in a directory that has gone.
LEMMA Reachable == IInv => NoLeak
<1>1. SUFFICES ASSUME IInv, NEW i \in bitmap \ (Busy \cup leaked),
                      i >= EXT2_FIRST_INO, i \notin opened,
                      \A p \in Procs : pc[p] # "idle" => cur[p].ino # i
               PROVE  (\E e \in DOMAIN ent : ent[e] = i) \/ vanished[i] > 0 \/ Hollow(i)
  BY DEF NoLeak
<1>2. Shape /\ Counts /\ Kept
  BY <1>1 DEF IInv
<1>3. i # EXT2_ROOT_INO /\ ~(i < EXT2_FIRST_INO)
  <2>1. i \in Inodes
    BY <1>1, <1>2 DEF Shape, Alloc
  <2>2. /\ i \in Int /\ EXT2_FIRST_INO \in Int /\ EXT2_ROOT_INO \in Int
        /\ EXT2_ROOT_INO < EXT2_FIRST_INO
    BY <2>1, IallocAssumption DEF Inodes
  <2> QED
    BY <1>1, <2>2
<1>4. \A p \in Procs : Mine(p) => pc[p] # "idle"
  BY DEF Mine, Taking
<1>5. i \in live /\ ~Private(i)
  BY <1>1, <1>2, <1>3, <1>4 DEF Shape, Sets, Unhashed, Taking, Private, Owns
<1>6. \A p \in Procs : pc[p] # "idle" => op[p].ino # i /\ i \notin op[p].victim
  BY <1>1 DEF Busy
<1>7. LinksTo(i) # 0
  <2>1. nlink[i] = LinksTo(i) + Owed(i) /\ Owed(i) = 0
    BY <1>1, <1>2, <1>5, Settled DEF Counts
  <2>2. nlink[i] > 0
    BY <1>1, <1>2, <1>5, <1>6 DEF Kept, Dropped
  <2>3. LinksTo(i) \in Nat
    BY <1>2, <1>5, LinksZero DEF Shape, Alloc
  <2> QED
    BY <2>1, <2>2, <2>3
<1>8. (\E e \in DOMAIN ent : ent[e] = i) \/ i \in DOMAIN dotdot \/ vanished[i] > 0 \/ Hollow(i)
  <2>1. i \in Inodes /\ vanished[i] \in Nat
    BY <1>2, <1>5 DEF Shape, Alloc, Trees
  <2> QED
    BY <1>2, <1>7, <2>1, LinksZero DEF Shape, Tree, Hollow
<1>9. ASSUME i \in DOMAIN dotdot
      PROVE  (\E e \in DOMAIN ent : ent[e] = i) \/ vanished[i] > 0
  <2>1. \A p \in Procs : ~Loose(p, i)
    BY <1>1, <1>6 DEF Loose, Removing
  <2> QED
    BY <1>2, <1>3, <1>9, <2>1 DEF Shape, Rooted
<1> QED
  BY <1>8, <1>9

\* A step that changes nothing keeps the invariant.
LEMMA StutterKeeps == ASSUME IInv, UNCHANGED vars PROVE IInv'
<1> USE DEF IInv, Shape
<1>1. /\ UNCHANGED <<bitmap, dirs, leaked, live, fs_error, pc, cur, vanished>> /\ UNCHANGED countVars
      /\ UNCHANGED <<nlink, ent, dotdot, lock, opened, op, vanished>>
  BY DEF vars, ivars, diskVars, nameVars
<1>2. Alloc' /\ Locals' /\ Trees' /\ ~fs_error'
  BY <1>1 DEF Alloc, Locals, Trees, countVars
<1>3. \A p \in Procs : /\ Mine(p)' <=> Mine(p)
                       /\ Making(p)' <=> Making(p)
                       /\ Linking(p)' <=> Linking(p)
                       /\ Removing(p)' <=> Removing(p)
                       /\ Moving(p)' <=> Moving(p)
  BY <1>1 DEF Mine, Making, Linking, Removing, Moving
<1>4. Phases'
  BY <1>1, <1>3 DEF Phases
<1>5. Single' /\ Privacy' /\ Gone'
  BY <1>1, <1>3 DEF Single, Privacy, Gone, Unused, Uses
<1>6. Owned'
  BY <1>1, <1>3 DEF Owned, Marks
<1>7. Sets'
  BY <1>1 DEF Sets, Unhashed
<1>8. MakingInv' /\ LinkingInv' /\ RemovingInv'
  BY <1>1, <1>3 DEF MakingInv, LinkingInv, RemovingInv, Detached
<1>9. MoveLocks' /\ MoveVictims'
  BY <1>1, <1>3 DEF MoveLocks, MoveVictims, Detached
<1>10. MoveOld' /\ MoveNew' /\ MoveDirs'
  BY <1>1, <1>3 DEF MoveOld, MoveNew, MoveDirs
<1>11. Entries' /\ OneEntry' /\ Tree' /\ Rooted'
  BY <1>1, <1>3 DEF Entries, MovesTo, OneEntry, Doubles, Tree, Rooted, Loose
<1>12. \A i : Private(i)' <=> Private(i)
  BY <1>1, <1>3 DEF Private, Owns
<1>13. \A i : LinksTo(i)' = LinksTo(i)
  BY <1>1 DEF LinksTo
<1>14. ASSUME NEW i
       PROVE  Owed(i)' = Owed(i)
  <2>1. \A q \in Procs : /\ Plus(q, i)' <=> Plus(q, i)
                         /\ Doubles(q, i)' <=> Doubles(q, i)
                         /\ Dot(q, i)' <=> Dot(q, i)
    BY <1>1, <1>3 DEF Plus, Doubles, Dot
  <2> QED
    BY <2>1 DEF Owed
<1>15. Counts' /\ Kept'
  BY <1>1, <1>12, <1>13, <1>14 DEF Counts, Kept, Dropped
<1> QED
  BY <1>2, <1>4, <1>5, <1>6, <1>7, <1>8, <1>9, <1>10, <1>11, <1>15

\* Each step keeps the invariant.
LEMMA NextKeeps == ASSUME IInv, Next PROVE IInv'
<1>1. Shape /\ Counts /\ Kept
  BY DEF IInv
<1>2. PICK p \in Procs : Step(p)
  BY DEF Next
<1>3. SUFFICES Shape' /\ Counts' /\ Kept'
  BY DEF IInv
<1>4. CASE FindGroup(p, op[p].dir) /\ UNCHANGED nameVars
  BY <1>1, <1>4, FindGroupQuiet, QuietKeeps
<1>5. CASE IallocStep(p) /\ UNCHANGED nameVars
  <2>1. CASE Scan(p)
    BY <1>1, <1>5, <2>1, ScanQuiet, QuietKeeps
  <2>2. CASE ScanFails(p) \/ CountNew(p) \/ DescNew(p) \/ ReleaseDesc(p) \/ ReleaseCounter(p)
    BY <1>1, <1>5, <2>2, CountingQuiet, QuietKeeps
  <2>3. CASE SetBit(p) /\ InoOf(cur[p].group, cur[p].bit) \in bitmap
    BY <1>1, <1>5, <2>3, RetryQuiet, QuietKeeps
  <2>4. CASE SetBit(p) /\ InoOf(cur[p].group, cur[p].bit) \notin bitmap
    BY <1>1, <1>5, <2>4, TakeKeeps
  <2>5. CASE Insert(p)
    BY <1>1, <1>5, <2>5, InsertKeeps
  <2>6. CASE Evict(p)
    BY <1>1, <1>5, <2>6, EvictKeeps
  <2>7. CASE ClearBit(p)
    BY <1>1, <1>5, <2>7, ClearBitKeeps
  <2>8. CASE FreeFails(p)
    BY <1>1, <1>5, <2>8, FreeFailsKeeps
  <2> QED
    BY <1>5, <2>1, <2>2, <2>3, <2>4, <2>5, <2>6, <2>7, <2>8 DEF IallocStep
<1>6. ASSUME NEW d \in Usable, NEW n \in Names,
             Create(p, d, n) \/ Mkdir(p, d, n) \/ Unlink(p, d, n) \/ Rmdir(p, d, n)
      PROVE  Shape' /\ Counts' /\ Kept'
  BY <1>1, <1>6, CreateKeeps, MkdirKeeps, UnlinkKeeps, RmdirKeeps
<1>7. ASSUME NEW d \in Usable, NEW n \in Names, NEW i \in live, Link(p, i, d, n)
      PROVE  Shape' /\ Counts' /\ Kept'
  BY <1>1, <1>7, LinkKeeps
<1>8. ASSUME NEW d \in Usable, NEW n \in Names, NEW to \in Usable, NEW m \in Names,
             RenameNew(p, d, n, to, m) \/ RenameOver(p, d, n, to, m)
      PROVE  Shape' /\ Counts' /\ Kept'
  BY <1>1, <1>8, RenameNewKeeps, RenameOverKeeps
<1>9. CASE NewFails(p) \/ AddNondir(p) \/ AddNondirFails(p) \/ MakeEmpty(p) \/ AddDir(p)
  BY <1>1, <1>9, NewFailsKeeps, AddNondirKeeps, AddNondirFailsKeeps, MakeEmptyKeeps, AddDirKeeps
<1>10. CASE MkdirUndo(p) \/ Freed(p) \/ AddLink(p) \/ UnlinkDec(p) \/ RmdirDec(p)
  BY <1>1, <1>10, MkdirUndoKeeps, FreedKeeps, AddLinkKeeps, UnlinkDecKeeps, RmdirDecKeeps
<1>11. CASE DropVictim(p) \/ RenameDelete(p) \/ Reparent(p)
  BY <1>1, <1>11, DropVictimKeeps, RenameDeleteKeeps, ReparentKeeps
<1>12. ASSUME NEW i \in live, Open(i) \/ Close(p, i)
       PROVE  Shape' /\ Counts' /\ Kept'
  BY <1>1, <1>12, OpenKeeps, CloseKeeps
<1> QED
  BY <1>2, <1>4, <1>5, <1>6, <1>7, <1>8, <1>9, <1>10, <1>11, <1>12 DEF Step

-----------------------------------------------------------------------------
(* What the counters of ialloc.c stand for *)

\* Sets that differ at x only
SameBut(S, T, x) == \A y : y # x => (y \in S <=> y \in T)

\* Two sets that differ at x only differ in size by x.
LEMMA CardMove ==
  ASSUME NEW S, NEW T, NEW x, IsFiniteSet(S), IsFiniteSet(T), SameBut(S, T, x)
  PROVE  /\ Cardinality(S) \in Nat /\ Cardinality(T) \in Nat
         /\ Cardinality(T) - One(x \in T) = Cardinality(S) - One(x \in S)
<1>1. Cardinality(S) \in Nat /\ Cardinality(T) \in Nat
  BY FS_CardinalityType
<1>2. S \ {x} = T \ {x}
  BY DEF SameBut
<1>3. ASSUME NEW R, IsFiniteSet(R)
      PROVE  Cardinality(R \ {x}) = Cardinality(R) - One(x \in R)
  <2>1. CASE x \in R
    BY <1>3, <2>1, FS_RemoveElement DEF One
  <2>2. CASE x \notin R
    <3>1. R \ {x} = R /\ One(x \in R) = 0
      BY <2>2 DEF One
    <3>2. Cardinality(R) \in Nat
      BY <1>3, FS_CardinalityType
    <3> QED
      BY <3>1, <3>2
  <2> QED
    BY <2>1, <2>2
<1>4. Cardinality(S) - One(x \in S) = Cardinality(T) - One(x \in T)
  BY <1>2, <1>3
<1> QED
  BY <1>1, <1>4

\* Division
LEMMA Division ==
  ASSUME NEW n \in Nat \ {0}, NEW x \in Int
  PROVE  x \div n \in Int /\ x % n \in 0 .. n - 1 /\ x - n * (x \div n) = x % n
OBVIOUS

\* A remainder is unique ...
LEMMA ModUnique ==
  ASSUME NEW n \in Nat \ {0}, NEW q \in Int, NEW r \in 0 .. n - 1
  PROVE  (n * q + r) % n = r
OBVIOUS

\* ... and takes one more addition.
LEMMA ModStep ==
  ASSUME NEW n \in Nat \ {0}, NEW x \in Int, NEW k \in Int
  PROVE  ((x % n) + k + n) % n = (x + k + n) % n
<1> DEFINE q == x \div n
           y == (x % n) + k + n
           t == y \div n
           r == y % n
<1>1. q \in Int /\ x % n \in 0 .. n - 1 /\ x - n * q = x % n
  BY Division
<1>2. y \in Int
  BY <1>1
<1>3. t \in Int /\ r \in 0 .. n - 1 /\ y - n * t = r
  BY <1>2, Division
<1>4. x + k + n = n * q + y
  BY <1>1
<1> HIDE DEF q, t, y, r
<1>5. n * q + y = n * (q + t) + r
  BY <1>1, <1>2, <1>3
<1>6. q + t \in Int
  BY <1>1, <1>3
<1>7. (n * (q + t) + r) % n = r
  BY <1>3, <1>6, ModUnique
<1>8. (x + k + n) % n = r
  BY <1>4, <1>5, <1>7
<1> QED
  BY <1>8 DEF y, r

\* Adding to a 16-bit count
LEMMA Add16Adds ==
  ASSUME NEW a \in Int, NEW b \in Int, NEW k \in Int, NEW c \in Int, NEW d \in Int, c + d = a + b + k
  PROVE  Add16(Add16(a, b), k) = Add16(c, d)
<1> DEFINE x == a + b + U16
           y == c + d + U16
<1>1. U16 \in Nat \ {0}
  BY IallocAssumption
<1>2. x \in Int /\ y \in Int /\ 0 \in Int
  BY <1>1
<1>3. x + k + U16 = y + 0 + U16
  BY <1>1
<1> HIDE DEF x, y
<1>4. ((x % U16) + k + U16) % U16 = (x + k + U16) % U16
  BY <1>1, <1>2, ModStep
<1>5. (y + 0 + U16) % U16 = y % U16
  <2> DEFINE q == y \div U16
             r == y % U16
  <2>1. q \in Int /\ r \in 0 .. U16 - 1 /\ y - U16 * q = r
    BY <1>1, <1>2, Division
  <2> HIDE DEF q, r
  <2>2. y + 0 + U16 = U16 * (q + 1) + r /\ q + 1 \in Int
    BY <1>1, <1>2, <2>1
  <2>3. (U16 * (q + 1) + r) % U16 = r
    BY <1>1, <2>1, <2>2, ModUnique
  <2> QED
    BY <2>2, <2>3 DEF r
<1> QED
  BY <1>3, <1>4, <1>5 DEF x, y, Add16

\* Adding nothing to a 16-bit count leaves it.
LEMMA Add16Same == ASSUME NEW x \in 0 .. U16 - 1 PROVE Add16(x, 0) = x
<1>1. U16 \in Nat \ {0} /\ x + 0 + U16 = U16 * 1 + x
  BY IallocAssumption
<1>2. (U16 * 1 + x) % U16 = x
  BY <1>1, ModUnique
<1> QED
  BY <1>1, <1>2 DEF Add16

\* The bit of a group is in that group.
LEMMA GroupOfIno == \A g \in Groups, b \in Bits : GroupOf(InoOf(g, b)) = g
<1> SUFFICES ASSUME NEW g \in Groups, NEW b \in Bits PROVE GroupOf(InoOf(g, b)) = g
  OBVIOUS
<1> DEFINE n == s_inodes_per_group
<1>1. n \in Nat \ {0} /\ g \in Int /\ b \in 0 .. n - 1
  BY IallocAssumption DEF Groups, Bits
<1>2. InoOf(g, b) - 1 = n * g + b
  BY <1>1 DEF InoOf
<1> HIDE DEF n
<1>3. (n * g + b) \div n = g
  BY <1>1
<1> QED
  BY <1>2, <1>3 DEF GroupOf, n

\* The free inodes, and the directories, the counters stand for, in all ...
FreeDue ==
  Cardinality(Inodes \ bitmap) + Cardinality(At({"count"}, Inodes))
    - Cardinality(At({"release", "uncount"}, Inodes))
DirsDue ==
  Cardinality(dirs) - Cardinality(DirAt({"count"}, Inodes))
    + Cardinality(DirAt({"release", "uncount"}, Inodes))

\* ... and in a group
GroupFreeDue(g) ==
  Cardinality(InGroup(Inodes, g) \ bitmap)
    + Cardinality(At({"count", "desc"}, InGroup(Inodes, g)))
    - Cardinality(At({"release"}, InGroup(Inodes, g)))
GroupDirsDue(g) ==
  Cardinality(InGroup(Inodes, g) \cap dirs)
    + Cardinality(DirAt({"release"}, InGroup(Inodes, g)))
    - Cardinality(DirAt({"count", "desc"}, InGroup(Inodes, g)))

\* The share of inode i and of process p in them
FreeBy(p, i) ==
  One(i \notin bitmap) + One(pc[p] = "count") - One(pc[p] \in {"release", "uncount"})
DirsBy(p, i) ==
  One(i \in dirs) - One(pc[p] = "count" /\ cur[p].dir)
    + One(pc[p] \in {"release", "uncount"} /\ cur[p].dir)
GroupFreeBy(p, i, g) ==
  One(GroupOf(i) = g /\ i \notin bitmap)
    + One(pc[p] \in {"count", "desc"} /\ GroupOf(cur[p].ino) = g)
    - One(pc[p] = "release" /\ GroupOf(cur[p].ino) = g)
GroupDirsBy(p, i, g) ==
  One(GroupOf(i) = g /\ i \in dirs)
    + One(pc[p] = "release" /\ cur[p].dir /\ GroupOf(cur[p].ino) = g)
    - One(pc[p] \in {"count", "desc"} /\ cur[p].dir /\ GroupOf(cur[p].ino) = g)

\* A process counts an inode in the group it has found it in.
GroupKept == \A p \in Procs : pc[p] \in {"count", "desc"} => GroupOf(cur[p].ino) = cur[p].group

\* Sets of inodes are finite.
LEMMA InodesFinite == \A T : T \subseteq Inodes => IsFiniteSet(T)
<1>1. 1 \in Int /\ s_groups_count * s_inodes_per_group \in Int
  BY IallocAssumption
<1>2. IsFiniteSet(Inodes)
  BY <1>1, FS_Interval DEF Inodes
<1> QED
  BY <1>2, FS_Subset

\* The inodes of a group are inodes.
LEMMA InGroupIn == \A g : InGroup(Inodes, g) \in SUBSET Inodes
BY DEF InGroup

\* At and DirAt of any state
AtIn(P, C, L, S) == {q \in Procs : P[q] \in L /\ C[q].ino \in S}
DirAtIn(P, C, L, S) == {q \in AtIn(P, C, L, S) : C[q].dir}

\* All but p stay where they are.
SameSteps(P, Q, C, D, p) == \A q \in Procs \ {p} : Q[q] = P[q] /\ D[q] = C[q]

\* Sets of processes, one of which moves
LEMMA AtMoves ==
  ASSUME NEW P, NEW Q, NEW C, NEW D, NEW p \in Procs,
         SameSteps(P, Q, C, D, p),
         NEW L, NEW S
  PROVE  /\ Cardinality(AtIn(P, C, L, S)) \in Int /\ Cardinality(AtIn(Q, D, L, S)) \in Int
         /\ Cardinality(AtIn(Q, D, L, S)) - One(p \in AtIn(Q, D, L, S))
              = Cardinality(AtIn(P, C, L, S)) - One(p \in AtIn(P, C, L, S))
         /\ Cardinality(DirAtIn(P, C, L, S)) \in Int /\ Cardinality(DirAtIn(Q, D, L, S)) \in Int
         /\ Cardinality(DirAtIn(Q, D, L, S)) - One(p \in DirAtIn(Q, D, L, S))
              = Cardinality(DirAtIn(P, C, L, S)) - One(p \in DirAtIn(P, C, L, S))
<1> DEFINE A == AtIn(P, C, L, S)
           B == AtIn(Q, D, L, S)
           E == DirAtIn(P, C, L, S)
           F == DirAtIn(Q, D, L, S)
<1>1. IsFiniteSet(A) /\ IsFiniteSet(B) /\ IsFiniteSet(E) /\ IsFiniteSet(F)
  <2>1. A \subseteq Procs /\ B \subseteq Procs /\ E \subseteq Procs /\ F \subseteq Procs
    BY DEF AtIn, DirAtIn
  <2> QED
    BY <2>1, IallocAssumption, FS_Subset
<1>2. SameBut(A, B, p) /\ SameBut(E, F, p)
  BY DEF AtIn, DirAtIn, SameBut, SameSteps
<1> HIDE DEF A, B, E, F
<1>4. Cardinality(A) \in Nat /\ Cardinality(B) \in Nat /\ Cardinality(B) - One(p \in B) = Cardinality(A) - One(p \in A)
  BY <1>1, <1>2, CardMove
<1>5. Cardinality(E) \in Nat /\ Cardinality(F) \in Nat /\ Cardinality(F) - One(p \in F) = Cardinality(E) - One(p \in E)
  BY <1>1, <1>2, CardMove
<1> QED
  BY <1>4, <1>5 DEF A, B, E, F

\* When only the bits of inode i and the step of p change, the sums change by theirs.
LEMMA DueMoves ==
  ASSUME Shape, Shape', NEW p \in Procs, NEW i \in Inodes,
         SameSteps(pc, pc', cur, cur', p),
         SameBut(bitmap, bitmap', i), SameBut(dirs, dirs', i)
  PROVE  /\ FreeDue \in Int /\ FreeDue' \in Int /\ FreeDue' - FreeBy(p, i)' = FreeDue - FreeBy(p, i)
         /\ DirsDue \in Int /\ DirsDue' \in Int /\ DirsDue' - DirsBy(p, i)' = DirsDue - DirsBy(p, i)
         /\ \A g \in Groups :
              /\ GroupFreeDue(g) \in Int /\ GroupFreeDue(g)' \in Int
              /\ GroupFreeDue(g)' - GroupFreeBy(p, i, g)' = GroupFreeDue(g) - GroupFreeBy(p, i, g)
              /\ GroupDirsDue(g) \in Int /\ GroupDirsDue(g)' \in Int
              /\ GroupDirsDue(g)' - GroupDirsBy(p, i, g)' = GroupDirsDue(g) - GroupDirsBy(p, i, g)
<1>1. /\ cur[p].ino \in Inodes /\ cur'[p].ino \in Inodes /\ cur[p].dir \in BOOLEAN /\ cur'[p].dir \in BOOLEAN
      /\ dirs = Inodes \cap dirs /\ dirs' = Inodes \cap dirs'
  BY CurFields DEF Shape, Locals, Alloc
<1>2. ASSUME NEW S \in SUBSET Inodes
      PROVE  /\ Cardinality(S \ bitmap) \in Int /\ Cardinality(S \ bitmap') \in Int
             /\ Cardinality(S \ bitmap') - One(i \in S \ bitmap')
                  = Cardinality(S \ bitmap) - One(i \in S \ bitmap)
  <2>1. S \ bitmap \subseteq Inodes /\ S \ bitmap' \subseteq Inodes
    OBVIOUS
  <2>2. IsFiniteSet(S \ bitmap) /\ IsFiniteSet(S \ bitmap')
    BY <2>1, InodesFinite
  <2>3. SameBut(S \ bitmap, S \ bitmap', i)
    BY DEF SameBut
  <2> QED
    BY <2>2, <2>3, CardMove
<1>3. ASSUME NEW S \in SUBSET Inodes
      PROVE  /\ Cardinality(S \cap dirs) \in Int /\ Cardinality(S \cap dirs') \in Int
             /\ Cardinality(S \cap dirs') - One(i \in S \cap dirs')
                  = Cardinality(S \cap dirs) - One(i \in S \cap dirs)
  <2>1. S \cap dirs \subseteq Inodes /\ S \cap dirs' \subseteq Inodes
    OBVIOUS
  <2>2. IsFiniteSet(S \cap dirs) /\ IsFiniteSet(S \cap dirs')
    BY <2>1, InodesFinite
  <2>3. SameBut(S \cap dirs, S \cap dirs', i)
    BY DEF SameBut
  <2> QED
    BY <2>2, <2>3, CardMove
<1>4. ASSUME NEW L, NEW S
      PROVE  /\ Cardinality(AtIn(pc, cur, L, S)) \in Int /\ Cardinality(AtIn(pc', cur', L, S)) \in Int
             /\ Cardinality(AtIn(pc', cur', L, S)) - One(p \in AtIn(pc', cur', L, S))
                  = Cardinality(AtIn(pc, cur, L, S)) - One(p \in AtIn(pc, cur, L, S))
  BY AtMoves
<1>5. ASSUME NEW L, NEW S
      PROVE  /\ Cardinality(DirAtIn(pc, cur, L, S)) \in Int /\ Cardinality(DirAtIn(pc', cur', L, S)) \in Int
             /\ Cardinality(DirAtIn(pc', cur', L, S)) - One(p \in DirAtIn(pc', cur', L, S))
                  = Cardinality(DirAtIn(pc, cur, L, S)) - One(p \in DirAtIn(pc, cur, L, S))
  BY AtMoves
<1>6. FreeDue \in Int /\ FreeDue' \in Int /\ FreeDue' - FreeBy(p, i)' = FreeDue - FreeBy(p, i)
  <2> DEFINE a == Cardinality(Inodes \ bitmap)
             b == Cardinality(AtIn(pc, cur, {"count"}, Inodes))
             c == Cardinality(AtIn(pc, cur, {"release", "uncount"}, Inodes))
             a1 == Cardinality(Inodes \ bitmap')
             b1 == Cardinality(AtIn(pc', cur', {"count"}, Inodes))
             c1 == Cardinality(AtIn(pc', cur', {"release", "uncount"}, Inodes))
             x == One(i \in Inodes \ bitmap)
             y == One(p \in AtIn(pc, cur, {"count"}, Inodes))
             z == One(p \in AtIn(pc, cur, {"release", "uncount"}, Inodes))
             x1 == One(i \in Inodes \ bitmap')
             y1 == One(p \in AtIn(pc', cur', {"count"}, Inodes))
             z1 == One(p \in AtIn(pc', cur', {"release", "uncount"}, Inodes))
  <2>1. FreeDue = a + b - c /\ FreeDue' = a1 + b1 - c1
    BY DEF FreeDue, At, AtIn
  <2>2. FreeBy(p, i) = x + y - z /\ FreeBy(p, i)' = x1 + y1 - z1
    BY <1>1 DEF FreeBy, One, AtIn
  <2>3. /\ a \in Int /\ b \in Int /\ c \in Int /\ a1 \in Int /\ b1 \in Int /\ c1 \in Int
        /\ a1 - x1 = a - x /\ b1 - y1 = b - y /\ c1 - z1 = c - z
    BY <1>2, <1>4
  <2>4. x \in Int /\ y \in Int /\ z \in Int /\ x1 \in Int /\ y1 \in Int /\ z1 \in Int
    BY DEF One
  <2> HIDE DEF a, b, c, a1, b1, c1, x, y, z, x1, y1, z1
  <2> QED
    BY <2>1, <2>2, <2>3, <2>4
<1>7. DirsDue \in Int /\ DirsDue' \in Int /\ DirsDue' - DirsBy(p, i)' = DirsDue - DirsBy(p, i)
  <2> DEFINE a == Cardinality(Inodes \cap dirs)
             b == Cardinality(DirAtIn(pc, cur, {"count"}, Inodes))
             c == Cardinality(DirAtIn(pc, cur, {"release", "uncount"}, Inodes))
             a1 == Cardinality(Inodes \cap dirs')
             b1 == Cardinality(DirAtIn(pc', cur', {"count"}, Inodes))
             c1 == Cardinality(DirAtIn(pc', cur', {"release", "uncount"}, Inodes))
             x == One(i \in Inodes \cap dirs)
             y == One(p \in DirAtIn(pc, cur, {"count"}, Inodes))
             z == One(p \in DirAtIn(pc, cur, {"release", "uncount"}, Inodes))
             x1 == One(i \in Inodes \cap dirs')
             y1 == One(p \in DirAtIn(pc', cur', {"count"}, Inodes))
             z1 == One(p \in DirAtIn(pc', cur', {"release", "uncount"}, Inodes))
  <2>1. DirsDue = a - b + c /\ DirsDue' = a1 - b1 + c1
    BY <1>1 DEF DirsDue, DirAt, At, AtIn, DirAtIn
  <2>2. DirsBy(p, i) = x - y + z /\ DirsBy(p, i)' = x1 - y1 + z1
    BY <1>1 DEF DirsBy, One, AtIn, DirAtIn
  <2>3. /\ a \in Int /\ b \in Int /\ c \in Int /\ a1 \in Int /\ b1 \in Int /\ c1 \in Int
        /\ a1 - x1 = a - x /\ b1 - y1 = b - y /\ c1 - z1 = c - z
    BY <1>3, <1>5
  <2>4. x \in Int /\ y \in Int /\ z \in Int /\ x1 \in Int /\ y1 \in Int /\ z1 \in Int
    BY DEF One
  <2> HIDE DEF a, b, c, a1, b1, c1, x, y, z, x1, y1, z1
  <2> QED
    BY <2>1, <2>2, <2>3, <2>4
<1>8. ASSUME NEW g \in Groups
      PROVE  /\ GroupFreeDue(g) \in Int /\ GroupFreeDue(g)' \in Int
             /\ GroupFreeDue(g)' - GroupFreeBy(p, i, g)' = GroupFreeDue(g) - GroupFreeBy(p, i, g)
  <2> DEFINE G == InGroup(Inodes, g)
  <2> DEFINE a == Cardinality(G \ bitmap)
             b == Cardinality(AtIn(pc, cur, {"count", "desc"}, G))
             c == Cardinality(AtIn(pc, cur, {"release"}, G))
             a1 == Cardinality(G \ bitmap')
             b1 == Cardinality(AtIn(pc', cur', {"count", "desc"}, G))
             c1 == Cardinality(AtIn(pc', cur', {"release"}, G))
             x == One(i \in G \ bitmap)
             y == One(p \in AtIn(pc, cur, {"count", "desc"}, G))
             z == One(p \in AtIn(pc, cur, {"release"}, G))
             x1 == One(i \in G \ bitmap')
             y1 == One(p \in AtIn(pc', cur', {"count", "desc"}, G))
             z1 == One(p \in AtIn(pc', cur', {"release"}, G))
  <2>1. GroupFreeDue(g) = a + b - c /\ GroupFreeDue(g)' = a1 + b1 - c1
    BY DEF GroupFreeDue, At, AtIn, InGroup, GroupOf
  <2>2. GroupFreeBy(p, i, g) = x + y - z /\ GroupFreeBy(p, i, g)' = x1 + y1 - z1
    BY <1>1 DEF GroupFreeBy, One, AtIn, InGroup, GroupOf
  <2>3. /\ a \in Int /\ b \in Int /\ c \in Int /\ a1 \in Int /\ b1 \in Int /\ c1 \in Int
        /\ a1 - x1 = a - x /\ b1 - y1 = b - y /\ c1 - z1 = c - z
    BY <1>2, <1>4, InGroupIn
  <2>4. x \in Int /\ y \in Int /\ z \in Int /\ x1 \in Int /\ y1 \in Int /\ z1 \in Int
    BY DEF One
  <2> HIDE DEF a, b, c, a1, b1, c1, x, y, z, x1, y1, z1
  <2> QED
    BY <2>1, <2>2, <2>3, <2>4
<1>9. ASSUME NEW g \in Groups
      PROVE  /\ GroupDirsDue(g) \in Int /\ GroupDirsDue(g)' \in Int
             /\ GroupDirsDue(g)' - GroupDirsBy(p, i, g)' = GroupDirsDue(g) - GroupDirsBy(p, i, g)
  <2> DEFINE G == InGroup(Inodes, g)
  <2> DEFINE a == Cardinality(G \cap dirs)
             b == Cardinality(DirAtIn(pc, cur, {"release"}, G))
             c == Cardinality(DirAtIn(pc, cur, {"count", "desc"}, G))
             a1 == Cardinality(G \cap dirs')
             b1 == Cardinality(DirAtIn(pc', cur', {"release"}, G))
             c1 == Cardinality(DirAtIn(pc', cur', {"count", "desc"}, G))
             x == One(i \in G \cap dirs)
             y == One(p \in DirAtIn(pc, cur, {"release"}, G))
             z == One(p \in DirAtIn(pc, cur, {"count", "desc"}, G))
             x1 == One(i \in G \cap dirs')
             y1 == One(p \in DirAtIn(pc', cur', {"release"}, G))
             z1 == One(p \in DirAtIn(pc', cur', {"count", "desc"}, G))
  <2>1. GroupDirsDue(g) = a + b - c /\ GroupDirsDue(g)' = a1 + b1 - c1
    BY DEF GroupDirsDue, DirAt, At, AtIn, DirAtIn, InGroup, GroupOf
  <2>2. GroupDirsBy(p, i, g) = x + y - z /\ GroupDirsBy(p, i, g)' = x1 + y1 - z1
    BY <1>1 DEF GroupDirsBy, One, AtIn, DirAtIn, InGroup, GroupOf
  <2>3. /\ a \in Int /\ b \in Int /\ c \in Int /\ a1 \in Int /\ b1 \in Int /\ c1 \in Int
        /\ a1 - x1 = a - x /\ b1 - y1 = b - y /\ c1 - z1 = c - z
    BY <1>3, <1>5, InGroupIn
  <2>4. x \in Int /\ y \in Int /\ z \in Int /\ x1 \in Int /\ y1 \in Int /\ z1 \in Int
    BY DEF One
  <2> HIDE DEF a, b, c, a1, b1, c1, x, y, z, x1, y1, z1
  <2> QED
    BY <2>1, <2>2, <2>3, <2>4
<1> QED
  BY <1>6, <1>7, <1>8, <1>9

\* The counters are what they stand for.
Balanced ==
  /\ s_freeinodes_counter = FreeDue /\ s_dirs_counter = DirsDue
  /\ \A g \in Groups : /\ bg_free_inodes_count[g] = Add16(GroupFreeDue(g), 0)
                       /\ bg_used_dirs_count[g] = Add16(GroupDirsDue(g), 0)

\* CountsExact of the model says the same.
LEMMA BalancedCounts == Shape => (CountsExact <=> Balanced)
<1> SUFFICES ASSUME Shape PROVE CountsExact <=> Balanced
  OBVIOUS
<1>1. ~fs_error
  BY DEF Shape
<1>2. ASSUME NEW g \in Groups
      PROVE  /\ Add16(Cardinality(InGroup(Inodes, g) \ bitmap) + Cardinality(At({"count", "desc"}, InGroup(Inodes, g))),
                      -Cardinality(At({"release"}, InGroup(Inodes, g)))) = Add16(GroupFreeDue(g), 0)
             /\ Add16(Cardinality(InGroup(Inodes, g) \cap dirs) + Cardinality(DirAt({"release"}, InGroup(Inodes, g))),
                      -Cardinality(DirAt({"count", "desc"}, InGroup(Inodes, g)))) = Add16(GroupDirsDue(g), 0)
  <2> DEFINE a == Cardinality(InGroup(Inodes, g) \ bitmap)
             b == Cardinality(At({"count", "desc"}, InGroup(Inodes, g)))
             c == Cardinality(At({"release"}, InGroup(Inodes, g)))
             d == Cardinality(InGroup(Inodes, g) \cap dirs)
             e == Cardinality(DirAt({"release"}, InGroup(Inodes, g)))
             f == Cardinality(DirAt({"count", "desc"}, InGroup(Inodes, g)))
  <2>1. GroupFreeDue(g) = a + b - c /\ GroupDirsDue(g) = d + e - f
    BY DEF GroupFreeDue, GroupDirsDue
  <2>2. a \in Int /\ b \in Int /\ c \in Int /\ d \in Int /\ e \in Int /\ f \in Int
    <3>1. \A T : T \subseteq Procs => IsFiniteSet(T)
      BY IallocAssumption, FS_Subset
    <3>2. \A L, S : IsFiniteSet(At(L, S)) /\ IsFiniteSet(DirAt(L, S))
      BY <3>1 DEF At, DirAt
    <3>3. IsFiniteSet(InGroup(Inodes, g) \ bitmap) /\ IsFiniteSet(InGroup(Inodes, g) \cap dirs)
      BY InodesFinite DEF InGroup
    <3> QED
      BY <3>2, <3>3, FS_CardinalityType
  <2> HIDE DEF a, b, c, d, e, f
  <2>3. Add16(a + b, -c) = Add16(a + b - c, 0) /\ Add16(d + e, -f) = Add16(d + e - f, 0)
    <3>1. /\ a + b + (-c) + U16 = a + b - c + 0 + U16
          /\ d + e + (-f) + U16 = d + e - f + 0 + U16
      BY <2>2, IallocAssumption
    <3> QED
      BY <3>1 DEF Add16
  <2> QED
    BY <2>1, <2>3 DEF a, b, c, d, e, f
<1>3. CountsExact <=>
        /\ s_freeinodes_counter = FreeDue /\ s_dirs_counter = DirsDue
        /\ \A g \in Groups :
             /\ bg_free_inodes_count[g] =
                  Add16(Cardinality(InGroup(Inodes, g) \ bitmap) + Cardinality(At({"count", "desc"}, InGroup(Inodes, g))),
                      -Cardinality(At({"release"}, InGroup(Inodes, g))))
             /\ bg_used_dirs_count[g] =
                  Add16(Cardinality(InGroup(Inodes, g) \cap dirs) + Cardinality(DirAt({"release"}, InGroup(Inodes, g))),
                      -Cardinality(DirAt({"count", "desc"}, InGroup(Inodes, g))))
  BY <1>1 DEF CountsExact, FreeDue, DirsDue
<1> QED
  BY <1>2, <1>3 DEF Balanced

\* Balanced after a step that changes the bits of one inode: every counter has
\* moved as what it stands for.
LEMMA CountersFrom ==
  ASSUME Shape, Shape', Balanced, NEW p \in Procs, NEW i \in Inodes,
         SameSteps(pc, pc', cur, cur', p), SameBut(bitmap, bitmap', i), SameBut(dirs, dirs', i),
         s_freeinodes_counter' = s_freeinodes_counter + (FreeBy(p, i)' - FreeBy(p, i)),
         s_dirs_counter' = s_dirs_counter + (DirsBy(p, i)' - DirsBy(p, i)),
         \A g \in Groups :
           /\ bg_free_inodes_count'[g] =
                Add16(bg_free_inodes_count[g], GroupFreeBy(p, i, g)' - GroupFreeBy(p, i, g))
           /\ bg_used_dirs_count'[g] =
                Add16(bg_used_dirs_count[g], GroupDirsBy(p, i, g)' - GroupDirsBy(p, i, g))
  PROVE  Balanced'
<1>1. /\ FreeBy(p, i) \in Int /\ FreeBy(p, i)' \in Int
      /\ DirsBy(p, i) \in Int /\ DirsBy(p, i)' \in Int
  BY DEF FreeBy, DirsBy, One
<1>2. s_freeinodes_counter' = FreeDue'
  <2>1. FreeDue \in Int /\ FreeDue' \in Int /\ FreeDue' - FreeBy(p, i)' = FreeDue - FreeBy(p, i)
    BY DueMoves
  <2> QED
    BY <1>1, <2>1 DEF Balanced
<1>3. s_dirs_counter' = DirsDue'
  <2>1. DirsDue \in Int /\ DirsDue' \in Int /\ DirsDue' - DirsBy(p, i)' = DirsDue - DirsBy(p, i)
    BY DueMoves
  <2> QED
    BY <1>1, <2>1 DEF Balanced
<1>4. ASSUME NEW g \in Groups
      PROVE  /\ bg_free_inodes_count'[g] = Add16(GroupFreeDue(g)', 0)
             /\ bg_used_dirs_count'[g] = Add16(GroupDirsDue(g)', 0)
  <2> DEFINE k == GroupFreeBy(p, i, g)' - GroupFreeBy(p, i, g)
             l == GroupDirsBy(p, i, g)' - GroupDirsBy(p, i, g)
  <2>1. /\ GroupFreeBy(p, i, g) \in Int /\ GroupFreeBy(p, i, g)' \in Int
        /\ GroupDirsBy(p, i, g) \in Int /\ GroupDirsBy(p, i, g)' \in Int
    BY DEF GroupFreeBy, GroupDirsBy, One
  <2>2. k \in Int /\ l \in Int
    BY <2>1
  <2>3. /\ GroupFreeDue(g) \in Int /\ GroupFreeDue(g)' \in Int
        /\ GroupFreeDue(g)' = GroupFreeDue(g) + k
    BY <2>1, DueMoves
  <2>4. /\ GroupDirsDue(g) \in Int /\ GroupDirsDue(g)' \in Int
        /\ GroupDirsDue(g)' = GroupDirsDue(g) + l
    BY <2>1, DueMoves
  <2>5. /\ bg_free_inodes_count'[g] = Add16(Add16(GroupFreeDue(g), 0), k)
        /\ bg_used_dirs_count'[g] = Add16(Add16(GroupDirsDue(g), 0), l)
    BY DEF Balanced
  <2> HIDE DEF k, l
  <2>6. Add16(Add16(GroupFreeDue(g), 0), k) = Add16(GroupFreeDue(g)', 0)
    <3>1. GroupFreeDue(g)' + 0 = GroupFreeDue(g) + 0 + k /\ 0 \in Int
      BY <2>2, <2>3
    <3> QED
      BY <2>2, <2>3, <3>1, Add16Adds
  <2>7. Add16(Add16(GroupDirsDue(g), 0), l) = Add16(GroupDirsDue(g)', 0)
    <3>1. GroupDirsDue(g)' + 0 = GroupDirsDue(g) + 0 + l /\ 0 \in Int
      BY <2>2, <2>4
    <3> QED
      BY <2>2, <2>4, <3>1, Add16Adds
  <2> QED
    BY <2>5, <2>6, <2>7
<1> QED
  BY <1>2, <1>3, <1>4 DEF Balanced

\* A process here has something to count.
Counting == {"count", "desc", "release", "uncount"}

\* A step that counts nothing
Uncounted(p) ==
  /\ UNCHANGED <<bitmap, dirs, s_freeinodes_counter, s_dirs_counter,
                 bg_free_inodes_count, bg_used_dirs_count>>
  /\ SameSteps(pc, pc', cur, cur', p)
  /\ \/ pc[p] \notin Counting /\ pc'[p] \notin Counting
     \/ pc'[p] = pc[p] /\ cur'[p] = cur[p]

\* Such a step leaves the counters right.
LEMMA UncountedKeeps ==
  ASSUME Shape, Shape', Balanced, GroupKept, NEW p \in Procs, Uncounted(p)
  PROVE  Balanced' /\ GroupKept'
<1>1. EXT2_ROOT_INO \in Inodes
  BY RootIno
<1>2. SameBut(bitmap, bitmap', EXT2_ROOT_INO) /\ SameBut(dirs, dirs', EXT2_ROOT_INO)
  BY DEF Uncounted, SameBut
<1>3. /\ FreeBy(p, EXT2_ROOT_INO)' = FreeBy(p, EXT2_ROOT_INO)
      /\ DirsBy(p, EXT2_ROOT_INO)' = DirsBy(p, EXT2_ROOT_INO)
      /\ FreeBy(p, EXT2_ROOT_INO) \in Int /\ DirsBy(p, EXT2_ROOT_INO) \in Int
  BY DEF Uncounted, Counting, FreeBy, DirsBy, One
<1>4. /\ s_freeinodes_counter' = s_freeinodes_counter + (FreeBy(p, EXT2_ROOT_INO)' - FreeBy(p, EXT2_ROOT_INO))
      /\ s_dirs_counter' = s_dirs_counter + (DirsBy(p, EXT2_ROOT_INO)' - DirsBy(p, EXT2_ROOT_INO))
  BY <1>3 DEF Uncounted, Shape, Alloc
<1>5. ASSUME NEW g \in Groups
      PROVE  /\ bg_free_inodes_count'[g] =
                  Add16(bg_free_inodes_count[g], GroupFreeBy(p, EXT2_ROOT_INO, g)' - GroupFreeBy(p, EXT2_ROOT_INO, g))
             /\ bg_used_dirs_count'[g] =
                  Add16(bg_used_dirs_count[g], GroupDirsBy(p, EXT2_ROOT_INO, g)' - GroupDirsBy(p, EXT2_ROOT_INO, g))
  <2>1. /\ GroupFreeBy(p, EXT2_ROOT_INO, g)' - GroupFreeBy(p, EXT2_ROOT_INO, g) = 0
        /\ GroupDirsBy(p, EXT2_ROOT_INO, g)' - GroupDirsBy(p, EXT2_ROOT_INO, g) = 0
    BY DEF Uncounted, Counting, GroupFreeBy, GroupDirsBy, One
  <2>2. bg_free_inodes_count[g] \in 0 .. U16 - 1 /\ bg_used_dirs_count[g] \in 0 .. U16 - 1
    BY DEF Shape, Alloc
  <2>3. Add16(bg_free_inodes_count[g], 0) = bg_free_inodes_count[g] /\ Add16(bg_used_dirs_count[g], 0) = bg_used_dirs_count[g]
    BY <2>2, Add16Same
  <2> QED
    BY <2>1, <2>3 DEF Uncounted
<1>6. Balanced'
  BY <1>1, <1>2, <1>4, <1>5, CountersFrom DEF Uncounted
<1>7. GroupKept'
  BY DEF GroupKept, Uncounted, SameSteps, Counting
<1> QED
  BY <1>6, <1>7

\* ext2_new_inode sets the bit: the process now stands before both counters.
LEMMA TakeCounts ==
  ASSUME Shape, Shape', Balanced, GroupKept, NEW p \in Procs, SetBit(p),
         InoOf(cur[p].group, cur[p].bit) \notin bitmap
  PROVE  Balanced' /\ GroupKept'
<1>0. PICK i \in Inodes : i = InoOf(cur[p].group, cur[p].bit)
  BY CurFields, InoRange DEF Shape, Locals
<1> DEFINE r == [cur[p] EXCEPT !.ino = i]
<1>1. cur[p].group \in Groups /\ GroupOf(i) = cur[p].group
  BY <1>0, CurFields, GroupOfIno DEF Shape, Locals
<1>2. r.ino = i /\ r.dir = cur[p].dir /\ r.group = cur[p].group
  BY DEF Shape, Locals, CurRec
<1>3. /\ pc[p] = "set" /\ i \notin bitmap /\ bitmap' = bitmap \cup {i}
      /\ dirs' = IF cur[p].dir THEN dirs \cup {i} ELSE dirs
      /\ cur' = [cur EXCEPT ![p] = r] /\ pc' = [pc EXCEPT ![p] = "count"]
      /\ UNCHANGED countVars
  BY <1>0 DEF SetBit, Goto
<1> HIDE DEF r
<1>4. /\ SameSteps(pc, pc', cur, cur', p) /\ SameBut(bitmap, bitmap', i) /\ SameBut(dirs, dirs', i)
      /\ pc'[p] = "count" /\ cur'[p] = r
  BY <1>3 DEF SameSteps, SameBut, Shape, Locals
<1>5. i \notin dirs /\ (i \in dirs' <=> cur[p].dir)
  BY <1>3 DEF Shape, Alloc
<1>6. FreeBy(p, i)' = FreeBy(p, i) /\ FreeBy(p, i) \in Int
  BY <1>3, <1>4 DEF FreeBy, One
<1>7. DirsBy(p, i)' = DirsBy(p, i) /\ DirsBy(p, i) \in Int
  BY <1>2, <1>3, <1>4, <1>5 DEF DirsBy, One
<1>8. ASSUME NEW g \in Groups
      PROVE  /\ GroupFreeBy(p, i, g)' - GroupFreeBy(p, i, g) = 0
             /\ GroupDirsBy(p, i, g)' - GroupDirsBy(p, i, g) = 0
  BY <1>2, <1>3, <1>4, <1>5 DEF GroupFreeBy, GroupDirsBy, One
<1>9. ASSUME NEW g \in Groups
      PROVE  /\ bg_free_inodes_count'[g] = Add16(bg_free_inodes_count[g], 0)
             /\ bg_used_dirs_count'[g] = Add16(bg_used_dirs_count[g], 0)
  BY <1>3, Add16Same DEF countVars, Shape, Alloc
<1>10. /\ s_freeinodes_counter' = s_freeinodes_counter + (FreeBy(p, i)' - FreeBy(p, i))
       /\ s_dirs_counter' = s_dirs_counter + (DirsBy(p, i)' - DirsBy(p, i))
  BY <1>3, <1>6, <1>7 DEF countVars, Shape, Alloc
<1>11. Balanced'
  BY <1>1, <1>4, <1>8, <1>9, <1>10, CountersFrom
<1>12. GroupKept'
  BY <1>1, <1>2, <1>4 DEF GroupKept, SameSteps
<1> QED
  BY <1>11, <1>12

\* The bitmap stays, and so does what the processes are at.
Recounted(p, l) ==
  /\ UNCHANGED <<bitmap, dirs, cur>>
  /\ pc' = [pc EXCEPT ![p] = l]

\* Such a step changes nothing but the sums.
LEMMA Recounts ==
  ASSUME Shape, NEW p \in Procs, NEW l, Recounted(p, l)
  PROVE  /\ SameSteps(pc, pc', cur, cur', p) /\ pc'[p] = l /\ cur'[p] = cur[p]
         /\ cur[p].ino \in Inodes /\ cur[p].dir \in BOOLEAN
         /\ SameBut(bitmap, bitmap', cur[p].ino) /\ SameBut(dirs, dirs', cur[p].ino)
BY CurFields DEF Recounted, SameSteps, SameBut, Shape, Locals

\* ext2_new_inode counts the inode in all.
LEMMA CountNewCounts ==
  ASSUME Shape, Shape', Balanced, GroupKept, NEW p \in Procs, CountNew(p)
  PROVE  Balanced' /\ GroupKept'
<1>0. PICK i \in Inodes : i = cur[p].ino
  BY CurFields DEF Shape, Locals
<1>1. /\ pc[p] = "count" /\ Recounted(p, "desc")
      /\ s_freeinodes_counter' = s_freeinodes_counter - 1
      /\ s_dirs_counter' = s_dirs_counter + IsDir(cur[p].dir)
      /\ UNCHANGED <<bg_free_inodes_count, bg_used_dirs_count>>
  BY DEF CountNew, Goto, Recounted, diskVars
<1>2. /\ SameSteps(pc, pc', cur, cur', p) /\ pc'[p] = "desc" /\ cur'[p] = cur[p]
      /\ cur[p].dir \in BOOLEAN
      /\ SameBut(bitmap, bitmap', i) /\ SameBut(dirs, dirs', i)
  BY <1>0, <1>1, Recounts
<1>3. /\ FreeBy(p, i)' - FreeBy(p, i) = -1
      /\ DirsBy(p, i)' - DirsBy(p, i) = IsDir(cur[p].dir)
  BY <1>1, <1>2 DEF FreeBy, DirsBy, One, IsDir, Recounted
<1>4. ASSUME NEW g \in Groups
      PROVE  /\ GroupFreeBy(p, i, g)' - GroupFreeBy(p, i, g) = 0
             /\ GroupDirsBy(p, i, g)' - GroupDirsBy(p, i, g) = 0
  BY <1>1, <1>2 DEF GroupFreeBy, GroupDirsBy, One, Recounted
<1>5. ASSUME NEW g \in Groups
      PROVE  /\ bg_free_inodes_count'[g] = Add16(bg_free_inodes_count[g], 0)
             /\ bg_used_dirs_count'[g] = Add16(bg_used_dirs_count[g], 0)
  BY <1>1, Add16Same DEF Shape, Alloc
<1>6. /\ s_freeinodes_counter' = s_freeinodes_counter + (FreeBy(p, i)' - FreeBy(p, i))
      /\ s_dirs_counter' = s_dirs_counter + (DirsBy(p, i)' - DirsBy(p, i))
  BY <1>1, <1>3 DEF Shape, Alloc
<1>7. Balanced'
  BY <1>2, <1>4, <1>5, <1>6, CountersFrom
<1>8. GroupKept'
  BY <1>1, <1>2 DEF GroupKept, SameSteps
<1> QED
  BY <1>7, <1>8

\* ext2_new_inode counts the inode in its group.
LEMMA DescNewCounts ==
  ASSUME Shape, Shape', Balanced, GroupKept, NEW p \in Procs, DescNew(p)
  PROVE  Balanced' /\ GroupKept'
<1>1. PICK i \in Inodes : i = cur[p].ino
  BY CurFields DEF Shape, Locals
<1>2. /\ pc[p] = "desc" /\ Recounted(p, "insert") /\ GroupOf(i) = cur[p].group
      /\ bg_free_inodes_count' = [bg_free_inodes_count EXCEPT ![cur[p].group] = Add16(@, -1)]
      /\ bg_used_dirs_count' =
           [bg_used_dirs_count EXCEPT ![cur[p].group] = Add16(@, IsDir(cur[p].dir))]
      /\ UNCHANGED <<s_freeinodes_counter, s_dirs_counter>>
  BY <1>1 DEF DescNew, Goto, Recounted, diskVars, GroupKept
<1>3. /\ SameSteps(pc, pc', cur, cur', p) /\ pc'[p] = "insert" /\ cur'[p] = cur[p]
      /\ cur[p].dir \in BOOLEAN
      /\ SameBut(bitmap, bitmap', i) /\ SameBut(dirs, dirs', i)
  BY <1>1, <1>2, Recounts
<1>4. FreeBy(p, i)' - FreeBy(p, i) = 0 /\ DirsBy(p, i)' - DirsBy(p, i) = 0
  BY <1>2, <1>3 DEF FreeBy, DirsBy, One, Recounted
<1>5. ASSUME NEW g \in Groups
      PROVE  /\ GroupFreeBy(p, i, g)' - GroupFreeBy(p, i, g) = -One(g = cur[p].group)
             /\ GroupDirsBy(p, i, g)' - GroupDirsBy(p, i, g) = One(g = cur[p].group /\ cur[p].dir)
  BY <1>1, <1>2, <1>3 DEF GroupFreeBy, GroupDirsBy, One, Recounted
<1>6. ASSUME NEW g \in Groups
      PROVE  /\ bg_free_inodes_count'[g] = Add16(bg_free_inodes_count[g], -One(g = cur[p].group))
             /\ bg_used_dirs_count'[g] =
                  Add16(bg_used_dirs_count[g], One(g = cur[p].group /\ cur[p].dir))
  <2>1. /\ Add16(bg_free_inodes_count[g], 0) = bg_free_inodes_count[g]
        /\ Add16(bg_used_dirs_count[g], 0) = bg_used_dirs_count[g]
        /\ g \in DOMAIN bg_free_inodes_count /\ g \in DOMAIN bg_used_dirs_count
    BY Add16Same DEF Shape, Alloc
  <2>2. CASE g = cur[p].group
    BY <1>2, <1>3, <2>1, <2>2 DEF One, IsDir
  <2>3. CASE g # cur[p].group
    <3>1. One(g = cur[p].group) = 0 /\ One(g = cur[p].group /\ cur[p].dir) = 0
      BY <2>3 DEF One
    <3>2. -One(g = cur[p].group) = 0
      BY <3>1
    <3> QED
      BY <1>2, <2>1, <2>3, <3>1, <3>2
  <2> QED
    BY <2>2, <2>3
<1>7. /\ s_freeinodes_counter' = s_freeinodes_counter + (FreeBy(p, i)' - FreeBy(p, i))
      /\ s_dirs_counter' = s_dirs_counter + (DirsBy(p, i)' - DirsBy(p, i))
  BY <1>2, <1>4 DEF Shape, Alloc
<1>8. Balanced'
  BY <1>3, <1>5, <1>6, <1>7, CountersFrom
<1>9. GroupKept'
  BY <1>2, <1>3 DEF GroupKept, SameSteps
<1> QED
  BY <1>8, <1>9

\* ext2_release_inode counts the inode in its group.
LEMMA ReleaseDescCounts ==
  ASSUME Shape, Shape', Balanced, GroupKept, NEW p \in Procs, ReleaseDesc(p)
  PROVE  Balanced' /\ GroupKept'
<1>1. PICK i \in Inodes : i = cur[p].ino
  BY CurFields DEF Shape, Locals
<1>2. /\ pc[p] = "release" /\ Recounted(p, "uncount")
      /\ bg_free_inodes_count' = [bg_free_inodes_count EXCEPT ![GroupOf(i)] = Add16(@, 1)]
      /\ bg_used_dirs_count' =
           [bg_used_dirs_count EXCEPT ![GroupOf(i)] = Add16(@, -IsDir(cur[p].dir))]
      /\ UNCHANGED <<s_freeinodes_counter, s_dirs_counter>>
  BY <1>1 DEF ReleaseDesc, Goto, Recounted, diskVars
<1>3. /\ SameSteps(pc, pc', cur, cur', p) /\ pc'[p] = "uncount" /\ cur'[p] = cur[p]
      /\ cur[p].dir \in BOOLEAN
      /\ SameBut(bitmap, bitmap', i) /\ SameBut(dirs, dirs', i)
  BY <1>1, <1>2, Recounts
<1>4. FreeBy(p, i)' - FreeBy(p, i) = 0 /\ DirsBy(p, i)' - DirsBy(p, i) = 0
  BY <1>2, <1>3 DEF FreeBy, DirsBy, One, Recounted
<1>5. ASSUME NEW g \in Groups
      PROVE  /\ GroupFreeBy(p, i, g)' - GroupFreeBy(p, i, g) = One(g = GroupOf(i))
             /\ GroupDirsBy(p, i, g)' - GroupDirsBy(p, i, g) = -One(g = GroupOf(i) /\ cur[p].dir)
  BY <1>1, <1>2, <1>3 DEF GroupFreeBy, GroupDirsBy, One, Recounted
<1>6. ASSUME NEW g \in Groups
      PROVE  /\ bg_free_inodes_count'[g] = Add16(bg_free_inodes_count[g], One(g = GroupOf(i)))
             /\ bg_used_dirs_count'[g] =
                  Add16(bg_used_dirs_count[g], -One(g = GroupOf(i) /\ cur[p].dir))
  <2>1. /\ Add16(bg_free_inodes_count[g], 0) = bg_free_inodes_count[g]
        /\ Add16(bg_used_dirs_count[g], 0) = bg_used_dirs_count[g]
        /\ g \in DOMAIN bg_free_inodes_count /\ g \in DOMAIN bg_used_dirs_count
    BY Add16Same DEF Shape, Alloc
  <2>2. CASE g = GroupOf(i)
    BY <1>2, <1>3, <2>1, <2>2 DEF One, IsDir
  <2>3. CASE g # GroupOf(i)
    <3>1. One(g = GroupOf(i)) = 0 /\ One(g = GroupOf(i) /\ cur[p].dir) = 0
      BY <2>3 DEF One
    <3>2. -One(g = GroupOf(i) /\ cur[p].dir) = 0
      BY <3>1
    <3> QED
      BY <1>2, <2>1, <2>3, <3>1, <3>2
  <2> QED
    BY <2>2, <2>3
<1>7. /\ s_freeinodes_counter' = s_freeinodes_counter + (FreeBy(p, i)' - FreeBy(p, i))
      /\ s_dirs_counter' = s_dirs_counter + (DirsBy(p, i)' - DirsBy(p, i))
  BY <1>2, <1>4 DEF Shape, Alloc
<1>8. Balanced'
  BY <1>3, <1>5, <1>6, <1>7, CountersFrom
<1>9. GroupKept'
  BY <1>2, <1>3 DEF GroupKept, SameSteps
<1> QED
  BY <1>8, <1>9

\* ext2_free_inode counts the inode in all.
LEMMA ReleaseCounterCounts ==
  ASSUME Shape, Shape', Balanced, GroupKept, NEW p \in Procs, ReleaseCounter(p)
  PROVE  Balanced' /\ GroupKept'
<1>1. PICK i \in Inodes : i = cur[p].ino
  BY CurFields DEF Shape, Locals
<1>2. /\ pc[p] = "uncount" /\ Recounted(p, "freed")
      /\ s_freeinodes_counter' = s_freeinodes_counter + 1
      /\ s_dirs_counter' = s_dirs_counter - IsDir(cur[p].dir)
      /\ UNCHANGED <<bg_free_inodes_count, bg_used_dirs_count>>
  BY DEF ReleaseCounter, Goto, Recounted, diskVars
<1>3. /\ SameSteps(pc, pc', cur, cur', p) /\ pc'[p] = "freed" /\ cur'[p] = cur[p]
      /\ cur[p].dir \in BOOLEAN
      /\ SameBut(bitmap, bitmap', i) /\ SameBut(dirs, dirs', i)
  BY <1>1, <1>2, Recounts
<1>4. /\ FreeBy(p, i)' - FreeBy(p, i) = 1
      /\ DirsBy(p, i)' - DirsBy(p, i) = -IsDir(cur[p].dir)
  BY <1>2, <1>3 DEF FreeBy, DirsBy, One, IsDir, Recounted
<1>5. ASSUME NEW g \in Groups
      PROVE  /\ GroupFreeBy(p, i, g)' - GroupFreeBy(p, i, g) = 0
             /\ GroupDirsBy(p, i, g)' - GroupDirsBy(p, i, g) = 0
  BY <1>2, <1>3 DEF GroupFreeBy, GroupDirsBy, One, Recounted
<1>6. ASSUME NEW g \in Groups
      PROVE  /\ bg_free_inodes_count'[g] = Add16(bg_free_inodes_count[g], 0)
             /\ bg_used_dirs_count'[g] = Add16(bg_used_dirs_count[g], 0)
  BY <1>2, Add16Same DEF Shape, Alloc
<1>7. /\ s_freeinodes_counter' = s_freeinodes_counter + (FreeBy(p, i)' - FreeBy(p, i))
      /\ s_dirs_counter' = s_dirs_counter + (DirsBy(p, i)' - DirsBy(p, i))
  <2>1. IsDir(cur[p].dir) \in Int
    BY DEF IsDir
  <2> QED
    BY <1>2, <1>4, <2>1 DEF Shape, Alloc
<1>8. Balanced'
  BY <1>3, <1>5, <1>6, <1>7, CountersFrom
<1>9. GroupKept'
  BY <1>2, <1>3 DEF GroupKept, SameSteps
<1> QED
  BY <1>8, <1>9

\* ext2_free_inode clears the bit: the process now stands before both counters.
LEMMA ClearBitCounts ==
  ASSUME Shape, Shape', Balanced, GroupKept, NEW p \in Procs, ClearBit(p)
  PROVE  Balanced' /\ GroupKept'
<1>1. PICK i \in Inodes : i = cur[p].ino
  BY CurFields DEF Shape, Locals
<1>2. i \in bitmap
  BY <1>1 DEF ClearBit, Shape, Owned, Marks, Mine
<1>0. PICK b \in BOOLEAN : b = (i \in dirs)
  <2>1. (i \in dirs) \in BOOLEAN
    OBVIOUS
  <2> QED
    BY <2>1, Zenon
<1> DEFINE r == [cur[p] EXCEPT !.dir = b]
<1>3. r.ino = i /\ r.dir \in BOOLEAN /\ (r.dir <=> i \in dirs)
  BY <1>0, <1>1 DEF Shape, Locals, CurRec
<1>4. /\ pc[p] = "clear" /\ bitmap' = bitmap \ {i} /\ dirs' = dirs \ {i}
      /\ cur' = [cur EXCEPT ![p] = r] /\ pc' = [pc EXCEPT ![p] = "release"]
      /\ UNCHANGED countVars
  BY <1>0, <1>1, <1>2 DEF ClearBit, Goto
<1> HIDE DEF r
<1>5. /\ SameSteps(pc, pc', cur, cur', p) /\ SameBut(bitmap, bitmap', i) /\ SameBut(dirs, dirs', i)
      /\ pc'[p] = "release" /\ cur'[p] = r
  BY <1>4 DEF SameSteps, SameBut, Shape, Locals
<1>6. FreeBy(p, i)' - FreeBy(p, i) = 0
  BY <1>2, <1>4, <1>5 DEF FreeBy, One
<1>7. DirsBy(p, i)' - DirsBy(p, i) = 0
  BY <1>3, <1>4, <1>5 DEF DirsBy, One
<1>8. ASSUME NEW g \in Groups
      PROVE  /\ GroupFreeBy(p, i, g)' - GroupFreeBy(p, i, g) = 0
             /\ GroupDirsBy(p, i, g)' - GroupDirsBy(p, i, g) = 0
  BY <1>2, <1>3, <1>4, <1>5 DEF GroupFreeBy, GroupDirsBy, One
<1>9. ASSUME NEW g \in Groups
      PROVE  /\ bg_free_inodes_count'[g] = Add16(bg_free_inodes_count[g], 0)
             /\ bg_used_dirs_count'[g] = Add16(bg_used_dirs_count[g], 0)
  BY <1>4, Add16Same DEF countVars, Shape, Alloc
<1>10. /\ s_freeinodes_counter' = s_freeinodes_counter + (FreeBy(p, i)' - FreeBy(p, i))
       /\ s_dirs_counter' = s_dirs_counter + (DirsBy(p, i)' - DirsBy(p, i))
  BY <1>4, <1>6, <1>7 DEF countVars, Shape, Alloc
<1>11. Balanced'
  BY <1>5, <1>8, <1>9, <1>10, CountersFrom
<1>12. GroupKept'
  BY <1>4, <1>5 DEF GroupKept, SameSteps
<1> QED
  BY <1>11, <1>12

\* The invariant with what the counters stand for
CInv == IInv /\ GroupKept /\ Balanced

\* A call that returns counts nothing.
LEMMA ReturnUncounted ==
  ASSUME Shape, NEW p \in Procs, pc[p] \notin Counting, Return(p) \/ RenameEnd(p)
  PROVE  SameSteps(pc, pc', cur, cur', p) /\ pc'[p] \notin Counting
BY DEF Return, RenameEnd, Iput, Goto, Shape, Locals, SameSteps, Counting

\* Neither do the steps of namei.c.
LEMMA NamesUncounted ==
  ASSUME Shape, NEW p \in Procs, Step(p),
         ~(IallocStep(p) /\ UNCHANGED nameVars), ~(FindGroup(p, op[p].dir) /\ UNCHANGED nameVars)
  PROVE  Uncounted(p)
<1> USE DEF ialloc, calm, diskVars, countVars, ivars
<1>1. ASSUME NEW d \in Usable, NEW n \in Names,
             Create(p, d, n) \/ Mkdir(p, d, n) \/ Unlink(p, d, n) \/ Rmdir(p, d, n)
      PROVE  Uncounted(p)
  BY <1>1 DEF Create, Mkdir, Unlink, Rmdir, Begin, Goto, Shape, Locals, Uncounted, SameSteps, Counting
<1>2. ASSUME NEW d \in Usable, NEW n \in Names, NEW i \in live, Link(p, i, d, n)
      PROVE  Uncounted(p)
  BY <1>2 DEF Link, Begin, Goto, Shape, Locals, Uncounted, SameSteps, Counting
<1>3. ASSUME NEW d \in Usable, NEW n \in Names, NEW to \in Usable, NEW m \in Names,
             RenameNew(p, d, n, to, m) \/ RenameOver(p, d, n, to, m)
      PROVE  Uncounted(p)
  <2>1. /\ pc[p] = "idle" /\ (pc' = [pc EXCEPT ![p] = "delete"] \/ pc' = [pc EXCEPT ![p] = "drop"])
        /\ UNCHANGED <<ialloc, cur>>
    BY <1>3 DEF RenameNew, RenameOver, MayRename, Begin, Goto
  <2> QED
    BY <2>1 DEF Shape, Locals, Uncounted, SameSteps, Counting
<1>4. CASE NewFails(p) \/ AddNondir(p) \/ Freed(p) \/ AddLink(p)
  BY <1>4, ReturnUncounted DEF NewFails, AddNondir, Freed, AddLink, Uncounted, Counting
<1>5. CASE AddNondirFails(p) \/ MakeEmpty(p) \/ MkdirUndo(p) \/ DropVictim(p)
  BY <1>5 DEF AddNondirFails, MakeEmpty, MkdirUndo, DropVictim, Goto, Shape, Locals, Uncounted,
     SameSteps, Counting
<1>6. CASE AddDir(p)
  <2>1. CASE Return(p)
    BY <1>6, <2>1, ReturnUncounted DEF AddDir, Uncounted, Counting
  <2>2. CASE Goto(p, "undo") /\ UNCHANGED cur
    BY <1>6, <2>2 DEF AddDir, Goto, Shape, Locals, Uncounted, SameSteps, Counting
  <2> QED
    BY <1>6, <2>1, <2>2 DEF AddDir
<1>7. CASE UnlinkDec(p) \/ RmdirDec(p)
  BY <1>7 DEF UnlinkDec, RmdirDec, Iput, Goto, Shape, Locals, Uncounted, SameSteps, Counting
<1>8. CASE RenameDelete(p)
  <2>1. CASE RenameEnd(p)
    BY <1>8, <2>1, ReturnUncounted DEF RenameDelete, Uncounted, Counting
  <2>2. CASE Goto(p, "reparent") /\ UNCHANGED cur
    BY <1>8, <2>2 DEF RenameDelete, Goto, Shape, Locals, Uncounted, SameSteps, Counting
  <2> QED
    BY <1>8, <2>1, <2>2 DEF RenameDelete
<1>9. CASE Reparent(p)
  BY <1>9, ReturnUncounted DEF Reparent, Uncounted, Counting
<1>10. ASSUME NEW i \in live, Open(i) \/ Close(p, i)
       PROVE  Uncounted(p)
  <2>1. CASE UNCHANGED <<pc, cur>>
    BY <1>10, <2>1 DEF Open, Close, Uncounted, SameSteps
  <2>2. CASE Begin(p, Call("close", i, NoName, i), "evict") /\ cur' = [cur EXCEPT ![p].ino = i]
    BY <1>10, <2>2 DEF Open, Close, Begin, Goto, Shape, Locals, Uncounted, SameSteps, Counting
  <2> QED
    BY <1>10, <2>1, <2>2 DEF Open, Close
<1> QED
  BY <1>1, <1>2, <1>3, <1>4, <1>5, <1>6, <1>7, <1>8, <1>9, <1>10 DEF Step

\* Neither do the allocator's other steps.
LEMMA AllocatorUncounted ==
  ASSUME Shape, NEW p \in Procs,
         \/ FindGroup(p, op[p].dir) \/ Scan(p) \/ ScanFails(p) \/ Insert(p) \/ Evict(p) \/ FreeFails(p)
         \/ SetBit(p) /\ InoOf(cur[p].group, cur[p].bit) \in bitmap
  PROVE  Uncounted(p)
<1> USE DEF diskVars, countVars
<1>1. CASE ScanFails(p) \/ Insert(p) \/ Evict(p) \/ FreeFails(p)
  BY <1>1 DEF ScanFails, Insert, Evict, FreeFails, Goto, Shape, Locals, Uncounted, SameSteps, Counting
<1>2. CASE FindGroup(p, op[p].dir) \/ Scan(p) \/ (SetBit(p) /\ InoOf(cur[p].group, cur[p].bit) \in bitmap)
  <2>1. /\ UNCHANGED <<bitmap, dirs, s_freeinodes_counter, s_dirs_counter,
                       bg_free_inodes_count, bg_used_dirs_count>>
        /\ pc[p] \in {"new", "scan", "set"}
        /\ \E l \in {"scan", "set", "failed"} : pc' = [pc EXCEPT ![p] = l]
    BY <1>2 DEF FindGroup, Scan, SetBit, NextGroup, Goto
  <2>2. \A q \in Procs \ {p} : cur'[q] = cur[q]
    <3>1. ASSUME NEW r, cur' = [cur EXCEPT ![p] = r]
          PROVE  \A q \in Procs \ {p} : cur'[q] = cur[q]
      BY <3>1 DEF Shape, Locals
    <3>2. ASSUME NEW g, NEW t, LookAt(p, g, t)
          PROVE  \A q \in Procs \ {p} : cur'[q] = cur[q]
      BY <3>1, <3>2 DEF LookAt
    <3>3. CASE FindGroup(p, op[p].dir)
      BY <3>2, <3>3 DEF FindGroup
    <3>4. CASE Scan(p)
      BY <3>1, <3>2, <3>4 DEF Scan, NextGroup
    <3>5. CASE SetBit(p) /\ InoOf(cur[p].group, cur[p].bit) \in bitmap
      BY <3>1, <3>2, <3>5 DEF SetBit, NextGroup
    <3> QED
      BY <1>2, <3>3, <3>4, <3>5
  <2> QED
    BY <2>1, <2>2 DEF Shape, Locals, Uncounted, SameSteps, Counting
<1> QED
  BY <1>1, <1>2

\* Each step keeps the counters right.
LEMMA CountsKeep == ASSUME CInv, Next PROVE CInv'
<1>1. Shape /\ GroupKept /\ Balanced /\ IInv' /\ Shape'
  BY NextKeeps DEF CInv, IInv
<1>2. PICK p \in Procs : Step(p)
  BY DEF Next
<1>3. CASE FindGroup(p, op[p].dir)
  BY <1>1, <1>3, AllocatorUncounted, UncountedKeeps DEF CInv
<1>4. CASE IallocStep(p)
  BY <1>1, <1>4, AllocatorUncounted, UncountedKeeps, TakeCounts, CountNewCounts, DescNewCounts, ClearBitCounts,
     ReleaseDescCounts, ReleaseCounterCounts DEF IallocStep, CInv
<1>5. CASE ~FindGroup(p, op[p].dir) /\ ~IallocStep(p)
  BY <1>1, <1>2, <1>5, NamesUncounted, UncountedKeeps DEF CInv
<1> QED
  BY <1>3, <1>4, <1>5

\* Every group has s_inodes_per_group inodes.
LEMMA GroupSize == \A g \in Groups : Cardinality(InGroup(Inodes, g)) = s_inodes_per_group
<1> SUFFICES ASSUME NEW g \in Groups PROVE Cardinality(InGroup(Inodes, g)) = s_inodes_per_group
  OBVIOUS
<1> DEFINE n == s_inodes_per_group
           lo == n * g + 1
           hi == n * g + n
<1>1. n \in Nat \ {0} /\ g \in Int /\ 0 <= g /\ g <= s_groups_count - 1 /\ s_groups_count \in Int
  BY IallocAssumption DEF Groups
<1>2. lo \in Int /\ hi \in Int /\ hi - lo + 1 = n /\ lo <= hi
  BY <1>1
<1>3. ASSUME NEW i \in Inodes
      PROVE  GroupOf(i) = g <=> i \in lo .. hi
  <2>1. i \in Int
    BY IallocAssumption DEF Inodes
  <2>2. GroupOf(i) \in Int /\ n * GroupOf(i) <= i - 1 /\ i - 1 < n * GroupOf(i) + n
    BY <1>1, <2>1 DEF GroupOf
  <2>3. CASE GroupOf(i) = g
    BY <1>1, <2>1, <2>2, <2>3
  <2>4. CASE i \in lo .. hi
    <3> DEFINE b == i - 1 - n * g
    <3>1. b \in Bits /\ InoOf(g, b) = i
      BY <1>1, <2>1, <2>4 DEF Bits, InoOf
    <3> HIDE DEF b, lo, hi
    <3>2. GroupOf(i) = g
      BY <3>1, GroupOfIno
    <3> QED
      BY <2>4, <3>2
  <2> QED
    BY <2>3, <2>4
<1>4. \A i \in lo .. hi : i \in Inodes
  <2>1. n * g >= 0 /\ n * g + n <= n * s_groups_count
    <3>1. n * (g + 1) <= n * s_groups_count
      BY <1>1
    <3> QED
      BY <1>1, <3>1
  <2>2. lo >= 1 /\ hi <= s_groups_count * n /\ s_groups_count * n \in Int
    BY <1>1, <2>1
  <2> QED
    BY <1>2, <2>2 DEF Inodes
<1>5. InGroup(Inodes, g) = lo .. hi
  <2>1. \A i : i \in InGroup(Inodes, g) <=> i \in lo .. hi
    BY <1>3, <1>4 DEF InGroup
  <2> QED
    BY <2>1
<1> HIDE DEF lo, hi
<1>6. Cardinality(lo .. hi) = n
  BY <1>2, FS_Interval
<1> QED
  BY <1>5, <1>6

\* The counters of a fresh file system are right.
LEMMA InitCInv == Init => CInv
<1> SUFFICES ASSUME Init PROVE CInv
  OBVIOUS
<1>1. IInv /\ Shape
  BY InitIInv DEF IInv
<1>2. \A p \in Procs : pc[p] = "idle"
  BY DEF Init, IallocInit
<1>3. GroupKept
  BY <1>2 DEF GroupKept
<1>4. ASSUME NEW S
      PROVE  /\ At({"count"}, S) = {} /\ At({"release", "uncount"}, S) = {}
             /\ At({"count", "desc"}, S) = {} /\ At({"release"}, S) = {}
             /\ DirAt({"count"}, S) = {} /\ DirAt({"release", "uncount"}, S) = {}
             /\ DirAt({"count", "desc"}, S) = {} /\ DirAt({"release"}, S) = {}
  BY <1>2 DEF At, DirAt
<1>5. Cardinality({}) = 0
  BY FS_EmptySet
<1>6. s_freeinodes_counter = FreeDue
  <2>1. Cardinality(Inodes \ bitmap) \in Nat
    BY InodesFinite, FS_CardinalityType
  <2>2. FreeDue = Cardinality(Inodes \ bitmap) + 0 - 0
    BY <1>4, <1>5 DEF FreeDue
  <2>3. s_freeinodes_counter = Cardinality(Inodes \ bitmap)
    BY DEF Init, IallocInit
  <2> DEFINE n == Cardinality(Inodes \ bitmap)
  <2> HIDE DEF n
  <2>4. n + 0 - 0 = n
    BY <2>1 DEF n
  <2> QED
    BY <2>2, <2>3, <2>4 DEF n
<1>7. s_dirs_counter = DirsDue
  <2>1. DirsDue = Cardinality({EXT2_ROOT_INO}) - 0 + 0
    BY <1>4, <1>5 DEF DirsDue, Init, IallocInit
  <2>2. Cardinality({EXT2_ROOT_INO}) = 1 /\ s_dirs_counter = 1
    BY FS_Singleton DEF Init, IallocInit
  <2> QED
    BY <2>1, <2>2
<1>8. ASSUME NEW g \in Groups
      PROVE  /\ bg_free_inodes_count[g] = Add16(GroupFreeDue(g), 0)
             /\ bg_used_dirs_count[g] = Add16(GroupDirsDue(g), 0)
  <2> DEFINE G == InGroup(Inodes, g)
  <2>1. bitmap \subseteq Inodes /\ dirs \subseteq Inodes
    BY <1>1 DEF Shape, Alloc
  <2>2. G \cap bitmap = InGroup(bitmap, g) /\ G \cap dirs = InGroup(dirs, g)
    BY <2>1 DEF InGroup
  <2>3. IsFiniteSet(G) /\ IsFiniteSet(G \ bitmap) /\ IsFiniteSet(G \cap bitmap) /\ IsFiniteSet(G \cap dirs)
    BY InodesFinite DEF InGroup
  <2> HIDE DEF G
  <2>4. Cardinality(G \ bitmap) = Cardinality(G) - Cardinality(G \cap bitmap)
    BY <2>3, FS_Difference
  <2>5. /\ Cardinality(G \ bitmap) \in Nat /\ Cardinality(G \cap dirs) \in Nat
    BY <2>3, FS_CardinalityType
  <2>6. Cardinality(G) = s_inodes_per_group
    BY GroupSize DEF G
  <2>7. /\ bg_free_inodes_count[g] = Cardinality(G \ bitmap)
        /\ bg_used_dirs_count[g] = Cardinality(G \cap dirs)
    BY <2>2, <2>4, <2>6 DEF Init, IallocInit
  <2>8. GroupFreeDue(g) = Cardinality(G \ bitmap) + 0 - 0 /\ GroupDirsDue(g) = Cardinality(G \cap dirs) + 0 - 0
    BY <1>4, <1>5 DEF GroupFreeDue, GroupDirsDue, G
  <2>9. bg_free_inodes_count[g] \in 0 .. U16 - 1 /\ bg_used_dirs_count[g] \in 0 .. U16 - 1
    BY <1>1 DEF Shape, Alloc
  <2>10. GroupFreeDue(g) = bg_free_inodes_count[g] /\ GroupDirsDue(g) = bg_used_dirs_count[g]
    BY <2>5, <2>7, <2>8
  <2> QED
    BY <2>9, <2>10, Add16Same
<1> QED
  BY <1>1, <1>3, <1>6, <1>7, <1>8 DEF CInv, Balanced

\* A step that changes nothing keeps them right.
LEMMA CountsStay == ASSUME CInv, UNCHANGED vars PROVE CInv'
<1>1. IInv'
  BY StutterKeeps DEF CInv
<1>2. /\ UNCHANGED <<pc, cur, bitmap, dirs>> /\ UNCHANGED countVars
  BY DEF vars, ivars, diskVars
<1>3. GroupKept'
  BY <1>2 DEF CInv, GroupKept
<1>4. Balanced'
  BY ZenonT(60), <1>2 DEF CInv, Balanced, countVars, FreeDue, DirsDue, GroupFreeDue, GroupDirsDue, At, DirAt
<1> QED
  BY <1>1, <1>3, <1>4 DEF CInv

-----------------------------------------------------------------------------
(* Theorems *)

\* IInv holds in every state: whatever the calls of namei.c have done up to now
\* and wherever they failed, each call finds what it relies on.
THEOREM Invariant == Spec => []IInv
<1>1. IInv /\ [Next]_vars => IInv'
  BY NextKeeps, StutterKeeps
<1> QED
  BY InitIInv, <1>1, PTL DEF Spec

\* Every variable keeps its type: in particular drop_nlink takes no link count
\* below zero, and every entry and every ".." leads to an inode.
THEOREM TypeCorrect == Spec => []TypeOK
BY Invariant, Typed, PTL

\* While a process makes or deletes an inode no other process has that number:
\* ext2_set_bit_atomic gives a bit to one of the processes that found it zero,
\* and ext2_free_inode clears a bit only when its inode is no longer hashed.
THEOREM AllocationApart == Spec => []NoSharedInode
BY Invariant, Apart, PTL

\* No entry and no ".." leads to an inode that has been deleted, and no deleted
\* directory has entries, on the error paths of ext2_mkdir and when ext2_rmdir and
\* ext2_rename drop the last link: the names of a directory that was removed with
\* names in it go with its size, and its inode keeps the links of the directories below.
THEOREM NamesLinked == Spec => []NoDangling
BY Invariant, Linked, PTL

\* The link count of an inode nobody changes is the number of entries, "." and
\* ".." that lead to it, and of its names that went with a directory a page of
\* which could not be read, whatever calls and error paths came before.
THEOREM LinksCorrect == Spec => []LinksExact
BY Invariant, Exact, PTL

\* No error path of namei.c loses an inode but the one of ext2_empty_dir: an
\* inode that stays allocated has a name, is open or in the hands of a call, had
\* its name in a directory that was removed with it, or was such a directory.
THEOREM NothingLeaks == Spec => []NoLeak
BY Invariant, Reachable, PTL

\* The 16-bit counts of the group descriptors and the counters of the file system
\* agree with the bitmap, up to the processes that stand between the bit and its
\* counts (ext2_new_inode, ext2_free_inode): no interleaving loses an update.
THEOREM CountsCorrect == Spec => []CountsExact
<1>1. CInv /\ [Next]_vars => CInv'
  BY CountsKeep, CountsStay
<1>2. CInv => CountsExact
  BY BalancedCounts DEF CInv, IInv
<1> QED
  BY InitCInv, <1>1, <1>2, PTL DEF Spec
=============================================================================
