----------------------------- MODULE Ext2Ialloc -----------------------------
(***************************************************************************)
(* The inode allocator of ext2-lite (ialloc.c) with the eviction of        *)
(* deleted inodes (ext2_evict_inode).  Processes allocate and free inodes  *)
(* at once; each bit operation, each descriptor update and each update of  *)
(* the counters is a step.  The processes enter at pc = "new" and leave at *)
(* "got" or "failed"; they enter at "evict" and leave at "freed".          *)
(***************************************************************************)
EXTENDS Integers, FiniteSets

CONSTANTS
  Procs,               \* processes that make system calls
  s_groups_count,
  s_inodes_per_group,
  EXT2_ROOT_INO,
  EXT2_FIRST_INO,      \* inode numbers below are reserved
  WithBlocks,          \* groups with free blocks (bg_free_blocks_count # 0)
  U16,                 \* number of values of a 16-bit field
  MaxLeaked            \* bound on inodes lost to an unreadable bitmap

ASSUME IallocAssumption ==
  /\ IsFiniteSet(Procs)
  /\ s_groups_count \in Nat \ {0} /\ s_inodes_per_group \in Nat \ {0}
  /\ EXT2_FIRST_INO \in Nat /\ EXT2_ROOT_INO \in 1 .. EXT2_FIRST_INO - 1
  /\ EXT2_FIRST_INO - 1 <= s_groups_count * s_inodes_per_group
  /\ s_inodes_per_group < U16 /\ U16 \in Nat
  /\ WithBlocks \subseteq 0 .. s_groups_count - 1

VARIABLES
  bitmap,                 \* inodes whose bit is set
  dirs,                   \* those of them with the mode of a directory
  bg_free_inodes_count,
  bg_used_dirs_count,
  s_freeinodes_counter,
  s_dirs_counter,
  live,                   \* inodes hashed and not being evicted
  fs_error,               \* ext2_error has been called
  leaked,                 \* ghost: inodes whose bitmap could not be read to free them
  pc,
  cur                     \* what a process allocates or frees

diskVars  == <<bitmap, dirs, leaked>>
countVars == <<bg_free_inodes_count, bg_used_dirs_count, s_freeinodes_counter, s_dirs_counter>>
ivars     == <<diskVars, countVars, live, fs_error, pc, cur>>

Groups == 0 .. s_groups_count - 1
Bits   == 0 .. s_inodes_per_group - 1
Inodes == 1 .. s_groups_count * s_inodes_per_group

InoOf(g, b) == g * s_inodes_per_group + b + 1
GroupOf(i)  == (i - 1) \div s_inodes_per_group
InGroup(S, g) == {i \in S : GroupOf(i) = g}

\* 16-bit addition
Add16(x, d) == (x + d + U16) % U16

IallocTypeOK ==
  /\ bitmap \subseteq Inodes /\ dirs \subseteq bitmap
  /\ leaked \subseteq bitmap /\ live \subseteq bitmap
  /\ bg_free_inodes_count \in [Groups -> 0 .. U16 - 1]
  /\ bg_used_dirs_count \in [Groups -> 0 .. U16 - 1]
  /\ s_freeinodes_counter \in Int /\ s_dirs_counter \in Int
  /\ fs_error \in BOOLEAN
  /\ cur \in [Procs -> [group : Groups, tries : 0 .. s_groups_count, bit : Bits,
                        ino : Inodes, dir : BOOLEAN]]

\* The locals of a process outside of the allocator
NoInode == [group |-> 0, tries |-> 0, bit |-> 0, ino |-> EXT2_ROOT_INO, dir |-> FALSE]

IallocInit ==
  /\ bitmap = 1 .. EXT2_FIRST_INO - 1
  /\ dirs = {EXT2_ROOT_INO} /\ live = {EXT2_ROOT_INO} /\ leaked = {}
  /\ bg_free_inodes_count =
       [g \in Groups |-> s_inodes_per_group - Cardinality(InGroup(bitmap, g))]
  /\ bg_used_dirs_count = [g \in Groups |-> Cardinality(InGroup(dirs, g))]
  /\ s_freeinodes_counter = Cardinality(Inodes \ bitmap)
  /\ s_dirs_counter = 1
  /\ fs_error = FALSE
  /\ pc = [p \in Procs |-> "idle"]
  /\ cur = [p \in Procs |-> NoInode]

---------------------------------------------------------------------------
(* ext2_new_inode                                                          *)

Goto(p, l) == pc' = [pc EXCEPT ![p] = l]

\* The least element of a set, and none of an empty one
Least(S) == {x \in S : \A y \in S : x <= y}

\* The quadratic hash: start, start + 1, start + 1 + 2, ... while the step is
\* less than the number of groups
Probe(start, k) == (start + 2^k - 1) % s_groups_count
Probes == {k \in 1 .. s_groups_count : 2^(k - 1) < s_groups_count}

\* The group of the parent if it has inodes and blocks, one found by the hash
\* that has, any behind the parent's that has inodes
find_group(parent) ==
  LET pg      == GroupOf(parent)
      start   == (pg + parent) % s_groups_count
      room(g) == bg_free_inodes_count[g] # 0 /\ g \in WithBlocks
      hit     == {k \in Probes : room(Probe(start, k))}
      any     == {k \in 1 .. s_groups_count :
                    bg_free_inodes_count[(pg + k) % s_groups_count] # 0}
  IN  IF room(pg) THEN {pg}
      ELSE IF hit # {} THEN {Probe(start, k) : k \in Least(hit)}
      ELSE IF any # {} THEN {(pg + k) % s_groups_count : k \in Least(any)}
      ELSE {}

\* Look at group g, the next time at the first bit.
LookAt(p, g, tries) ==
  cur' = [cur EXCEPT ![p] = [@ EXCEPT !.group = g, !.tries = tries, !.bit = 0]]

FindGroup(p, parent) ==
  /\ pc[p] = "new"
  /\ \/ /\ find_group(parent) = {}
        /\ Goto(p, "failed")
        /\ UNCHANGED cur
     \/ \E g \in find_group(parent) :
          /\ Goto(p, "scan")
          /\ LookAt(p, g, 0)
  /\ UNCHANGED <<diskVars, countVars, live, fs_error>>

\* This group is exhausted, try the next one.
NextGroup(p) ==
  /\ LookAt(p, (cur[p].group + 1) % s_groups_count, cur[p].tries + 1)
  /\ Goto(p, IF cur[p].tries + 1 < s_groups_count THEN "scan" ELSE "failed")

\* find_next_zero_bit_le from the current bit on
Zeros(p) == {b \in Bits : b >= cur[p].bit /\ InoOf(cur[p].group, b) \notin bitmap}

Scan(p) ==
  /\ pc[p] = "scan"
  /\ \/ Zeros(p) = {} /\ NextGroup(p)
     \/ \E b \in Least(Zeros(p)) :
          /\ cur' = [cur EXCEPT ![p].bit = b]
          /\ Goto(p, "set")
  /\ UNCHANGED <<diskVars, countVars, live, fs_error>>

\* read_inode_bitmap fails, at the first look at a group
ScanFails(p) ==
  /\ pc[p] = "scan" /\ cur[p].bit = 0
  /\ Goto(p, "failed")
  /\ UNCHANGED <<diskVars, countVars, live, fs_error, cur>>

\* Mutant of SetBit: the old value of the bit is not looked at.
SetBit_Blind(p) ==
  /\ pc[p] = "set"
  /\ LET i == InoOf(cur[p].group, cur[p].bit)
     IN  /\ bitmap' = bitmap \cup {i}
         /\ dirs' = IF cur[p].dir THEN dirs \cup {i} ELSE dirs
         /\ cur' = [cur EXCEPT ![p].ino = i]
  /\ Goto(p, "count")
  /\ UNCHANGED <<countVars, live, fs_error, leaked>>

\* ext2_set_bit_atomic: the bit is ours, or somebody else was faster
SetBit(p) ==
  /\ pc[p] = "set"
  /\ LET i == InoOf(cur[p].group, cur[p].bit)
     IN  \/ /\ i \notin bitmap
            /\ bitmap' = bitmap \cup {i}
            /\ dirs' = IF cur[p].dir THEN dirs \cup {i} ELSE dirs
            /\ cur' = [cur EXCEPT ![p].ino = i]
            /\ Goto(p, "count")
         \/ /\ i \in bitmap
            /\ \/ cur[p].bit + 1 \notin Bits /\ NextGroup(p)
               \/ /\ cur[p].bit + 1 \in Bits
                  /\ cur' = [cur EXCEPT ![p].bit = @ + 1]
                  /\ Goto(p, "scan")
            /\ UNCHANGED <<bitmap, dirs>>
  /\ UNCHANGED <<countVars, live, fs_error, leaked>>

\* 1 for a directory, 0 for any other inode
IsDir(dir) == IF dir THEN 1 ELSE 0

\* The counters of the super block
CountNew(p) ==
  /\ pc[p] = "count"
  /\ s_freeinodes_counter' = s_freeinodes_counter - 1
  /\ s_dirs_counter' = s_dirs_counter + IsDir(cur[p].dir)
  /\ Goto(p, "desc")
  /\ UNCHANGED <<diskVars, bg_free_inodes_count, bg_used_dirs_count, live, fs_error, cur>>

\* The descriptor, under the lock of the group
DescNew(p) ==
  /\ pc[p] = "desc"
  /\ bg_free_inodes_count' = [bg_free_inodes_count EXCEPT ![cur[p].group] = Add16(@, -1)]
  /\ bg_used_dirs_count' =
       [bg_used_dirs_count EXCEPT ![cur[p].group] = Add16(@, IsDir(cur[p].dir))]
  /\ Goto(p, "insert")
  /\ UNCHANGED <<diskVars, s_freeinodes_counter, s_dirs_counter, live, fs_error, cur>>

\* insert_inode_locked passes over an inode of this number that is being
\* evicted, and fails on any other.
Insert(p) ==
  /\ pc[p] = "insert"
  /\ live' = live \cup {cur[p].ino}
  /\ fs_error' = (fs_error \/ cur[p].ino \in live)
  /\ Goto(p, IF cur[p].ino \in live THEN "failed" ELSE "got")
  /\ UNCHANGED <<diskVars, countVars, cur>>

---------------------------------------------------------------------------
(* ext2_evict_inode of an inode without links, ext2_free_inode             *)

\* The inode is marked as being freed; its deletion time is written and its
\* blocks are freed.
Evict(p) ==
  /\ pc[p] = "evict"
  /\ live' = live \ {cur[p].ino}
  /\ Goto(p, "clear")
  /\ UNCHANGED <<diskVars, countVars, fs_error, cur>>

ClearBit(p) ==
  /\ pc[p] = "clear"
  /\ bitmap' = bitmap \ {cur[p].ino}
  /\ dirs' = dirs \ {cur[p].ino}
  /\ cur' = [cur EXCEPT ![p].dir = cur[p].ino \in dirs]
  /\ fs_error' = (fs_error \/ cur[p].ino \notin bitmap)
  /\ Goto(p, IF cur[p].ino \in bitmap THEN "release" ELSE "freed")
  /\ UNCHANGED <<countVars, live, leaked>>

\* The bitmap cannot be read: the inode stays taken.
FreeFails(p) ==
  /\ pc[p] = "clear"
  /\ Cardinality(leaked) < MaxLeaked
  /\ leaked' = leaked \cup {cur[p].ino}
  /\ Goto(p, "freed")
  /\ UNCHANGED <<bitmap, dirs, countVars, live, fs_error, cur>>

\* ext2_release_inode: the descriptor ...
ReleaseDesc(p) ==
  /\ pc[p] = "release"
  /\ LET g == GroupOf(cur[p].ino)
     IN  /\ bg_free_inodes_count' = [bg_free_inodes_count EXCEPT ![g] = Add16(@, 1)]
         /\ bg_used_dirs_count' =
              [bg_used_dirs_count EXCEPT ![g] = Add16(@, -IsDir(cur[p].dir))]
  /\ Goto(p, "uncount")
  /\ UNCHANGED <<diskVars, s_freeinodes_counter, s_dirs_counter, live, fs_error, cur>>

\* Mutant of ReleaseCounter: directories are forgotten.
ReleaseCounter_NoDir(p) ==
  /\ pc[p] = "uncount"
  /\ s_freeinodes_counter' = s_freeinodes_counter + 1
  /\ Goto(p, "freed")
  /\ UNCHANGED <<diskVars, bg_free_inodes_count, bg_used_dirs_count, s_dirs_counter,
                 live, fs_error, cur>>

\* ... and the counters
ReleaseCounter(p) ==
  /\ pc[p] = "uncount"
  /\ s_freeinodes_counter' = s_freeinodes_counter + 1
  /\ s_dirs_counter' = s_dirs_counter - IsDir(cur[p].dir)
  /\ Goto(p, "freed")
  /\ UNCHANGED <<diskVars, bg_free_inodes_count, bg_used_dirs_count, live, fs_error, cur>>

IallocStep(p) ==
  \/ Scan(p) \/ ScanFails(p) \/ SetBit(p) \/ CountNew(p) \/ DescNew(p) \/ Insert(p)
  \/ Evict(p) \/ ClearBit(p) \/ FreeFails(p) \/ ReleaseDesc(p) \/ ReleaseCounter(p)

---------------------------------------------------------------------------
(* Properties.                                                             *)

\* The processes at one of the labels L with an inode of S
At(L, S) == {p \in Procs : pc[p] \in L /\ cur[p].ino \in S}
DirAt(L, S) == {p \in At(L, S) : cur[p].dir}

\* Free bits, descriptor counts and counters, of inodes and of directories,
\* differ by exactly what is under way: nothing is counted twice or lost when
\* an inode is taken between the clearing of its bit and its count, and
\* ext2_error is never called: no number is found in use by Insert, no bit clear
\* by ClearBit.
CountsExact ==
  /\ ~fs_error
  /\ s_freeinodes_counter =
       Cardinality(Inodes \ bitmap) + Cardinality(At({"count"}, Inodes))
         - Cardinality(At({"release", "uncount"}, Inodes))
  /\ s_dirs_counter =
       Cardinality(dirs) - Cardinality(DirAt({"count"}, Inodes))
         + Cardinality(DirAt({"release", "uncount"}, Inodes))
  /\ \A g \in Groups :
       LET G == InGroup(Inodes, g)
       IN  /\ bg_free_inodes_count[g] =
                Add16(Cardinality(G \ bitmap) + Cardinality(At({"count", "desc"}, G)),
                      -Cardinality(At({"release"}, G)))
           /\ bg_used_dirs_count[g] =
                Add16(Cardinality(G \cap dirs) + Cardinality(DirAt({"release"}, G)),
                      -Cardinality(DirAt({"count", "desc"}, G)))

\* An inode number belongs to one process at a time while it is being made or
\* taken apart, it is then in use by nobody else, and its bit is set
\* (ext2_set_bit_atomic, insert_inode_locked).
NoSharedInode ==
  /\ \A p, q \in Procs :
       /\ pc[p] \in {"count", "desc", "insert", "clear"}
       /\ pc[q] \in {"count", "desc", "insert", "clear"}
       /\ cur[p].ino = cur[q].ino
       => p = q
  /\ At({"count", "desc", "insert", "clear"}, live \cup (Inodes \ bitmap)) = {}
=============================================================================
