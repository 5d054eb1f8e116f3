------------------------------ MODULE Ext2Balloc ------------------------------
(***************************************************************************)
(* The block allocator of the ext2-lite file system (balloc.c) with its    *)
(* callers, the block map of a file and its truncation (inode.c).          *)
(*                                                                         *)
(* Every file is written or truncated by one thread at a time (the lock of *)
(* the inode), so a file stands for the thread that works on it.  Files    *)
(* share the bitmaps, the group descriptors and the free-blocks counter.   *)
(* A step is one atomic access to these: a bit operation, a descriptor     *)
(* update under the group's lock, an addition to the counter.              *)
(***************************************************************************)
EXTENDS Integers, FiniteSets, FiniteSetsExt

CONSTANTS
  Files,               \* the inodes
  i_block_group,       \* the group each inode lies in
  s_groups_count,
  s_blocks_per_group,
  s_blocks_count,      \* blocks of the file system, those before the first too
  s_first_data_block,
  s_sb_block,          \* the block of the super block
  BlockBitmap, InodeBitmap, InodeTable, s_itb_per_group,
                       \* where in each group its own metadata lie
  EXT2_NDIR_BLOCKS,    \* length of the block map of a file
  U16,                 \* number of values of __u16
  JunkNum              \* what the uninitialised num of ext2_allocate_in_bg may hold

Groups == 0..(s_groups_count - 1)

ext2_group_first_block_no(g) == g * s_blocks_per_group + s_first_data_block

ext2_group_last_block_no(g) ==
  IF g = s_groups_count - 1 THEN s_blocks_count - 1
  ELSE ext2_group_first_block_no(g) + s_blocks_per_group - 1

NBlocks(g) == ext2_group_last_block_no(g) - ext2_group_first_block_no(g) + 1
Bits(g) == 0..(NBlocks(g) - 1)

\* What mkfs marks in each group: everything up to the end of the inode table.
SystemBits == 0..(InodeTable + s_itb_per_group - 1)

ASSUME BallocAssumption ==
  /\ i_block_group \in [Files -> Groups]
  /\ s_groups_count \in Nat \ {0} /\ s_blocks_per_group \in Nat \ {0}
  /\ s_blocks_count \in Nat /\ s_first_data_block \in Nat
  /\ \A g \in Groups : NBlocks(g) \in 1..s_blocks_per_group /\ SystemBits \subseteq Bits(g)
  /\ BlockBitmap \in SystemBits /\ InodeBitmap \in SystemBits
  /\ EXT2_NDIR_BLOCKS \in Nat \ {0}
  /\ U16 \in Nat /\ U16 > s_blocks_per_group
  /\ JunkNum \subseteq Nat

VARIABLES
  bitmap,        \* the bits set in the block bitmap of each group
  bg_free,       \* bg_free_blocks_count of each group
  free_counter,  \* s_freeblocks_counter
  i_data,        \* the block map of each file, 0 for a hole
  failed,        \* has ext2_error been called?
  given_up,      \* history: blocks ext2_free_blocks could not free
  pc,
  slot,          \* iblock of ext2_get_blocks; p - i_data of ext2_free_data
  group, bgi,    \* group_no and bgi of ext2_new_blocks
  bit,           \* first_free_bit; bit + i of ext2_free_blocks
  num,           \* num; freed of ext2_free_blocks
  count,         \* *countp; count of ext2_free_data
  block          \* block_to_free of ext2_free_data

disk == <<bitmap, bg_free, free_counter, failed, given_up>>
locals == <<slot, group, bgi, bit, num, count, block>>
vars == <<disk, i_data, pc, locals>>

Slots == 0..(EXT2_NDIR_BLOCKS - 1)
Blocks == 0..(s_blocks_count - 1)

\* Type invariant: the bits ext2_allocate_in_bg sets are bits of blocks the group
\* has, and the descriptor counts stay 16-bit numbers.
TypeOK ==
  /\ \A g \in Groups : bitmap[g] \subseteq Bits(g)
  /\ bg_free \in [Groups -> 0..(U16 - 1)]
  /\ free_counter \in Int
  /\ i_data \in [Files -> [Slots -> Blocks]]
  /\ failed \in BOOLEAN /\ given_up \subseteq Blocks
  /\ pc \in [Files -> {"idle", "search", "scan", "set", "desc", "counter",
                       "gather", "free", "clear", "fcounter"}]
  /\ slot \in [Files -> 0..EXT2_NDIR_BLOCKS]
  /\ group \in [Files -> Groups]
  /\ bgi \in [Files -> 0..s_groups_count]
  /\ bit \in [Files -> 0..s_blocks_per_group]
  /\ num \in [Files -> Nat] /\ count \in [Files -> Nat]
  /\ block \in [Files -> Blocks]

FreeIn(g) == Cardinality(Bits(g) \ bitmap[g])

\* A file system as mkfs leaves it.
Init ==
  /\ bitmap = [g \in Groups |-> SystemBits]
  /\ bg_free = [g \in Groups |-> NBlocks(g) - Cardinality(SystemBits)]
  /\ free_counter = MapThenSumSet(LAMBDA g : NBlocks(g) - Cardinality(SystemBits), Groups)
  /\ i_data = [f \in Files |-> [s \in Slots |-> 0]]
  /\ failed = FALSE /\ given_up = {}
  /\ pc = [f \in Files |-> "idle"]
  /\ slot = [f \in Files |-> 0]
  /\ group = [f \in Files |-> 0] /\ bgi = [f \in Files |-> 0]
  /\ bit = [f \in Files |-> 0] /\ num = [f \in Files |-> 0]
  /\ count = [f \in Files |-> 0] /\ block = [f \in Files |-> 0]

Goto(f, l) == pc' = [pc EXCEPT ![f] = l]

\* The call is over: locals are gone.
Done(f) ==
  /\ Goto(f, "idle")
  /\ slot' = [slot EXCEPT ![f] = 0] /\ group' = [group EXCEPT ![f] = 0]
  /\ bgi' = [bgi EXCEPT ![f] = 0] /\ bit' = [bit EXCEPT ![f] = 0]
  /\ num' = [num EXCEPT ![f] = 0] /\ count' = [count EXCEPT ![f] = 0]
  /\ block' = [block EXCEPT ![f] = 0]

-----------------------------------------------------------------------------
(* ext2_get_blocks with create, and ext2_new_blocks *)

\* percpu_counter_read_positive, stored in a __u16.
FreeBlocksRead == (IF free_counter > 0 THEN free_counter ELSE 0) % U16

ext2_get_blocks(f, s) ==
  /\ pc[f] = "idle" /\ i_data[f][s] = 0
  /\ \/ /\ FreeBlocksRead = 0
        /\ Done(f)
     \/ /\ FreeBlocksRead # 0
        /\ slot' = [slot EXCEPT ![f] = s]
        /\ count' = [count EXCEPT ![f] = 1]
        /\ group' = [group EXCEPT ![f] = i_block_group[f]]
        /\ Goto(f, "search")
        /\ UNCHANGED <<bgi, bit, num, block>>
  /\ UNCHANGED <<disk, i_data>>

NextGroup(f) ==
  /\ bgi' = [bgi EXCEPT ![f] = @ + 1]
  /\ group' = [group EXCEPT ![f] = (@ + 1) % s_groups_count]
  /\ Goto(f, "search")

\* All groups have been searched: ext2_new_blocks returns -ENOSPC.
NoSpace(f) == pc[f] = "search" /\ bgi[f] = s_groups_count

\* The head of the loop over the groups; an unreadable bitmap ends the call with
\* -EIO.
SearchGroup(f) ==
  /\ pc[f] = "search"
  /\ \/ NoSpace(f) /\ Done(f)
     \/ bgi[f] < s_groups_count /\ bg_free[group[f]] # 0 /\ Done(f)
     \/ /\ bgi[f] < s_groups_count /\ bg_free[group[f]] = 0
        /\ NextGroup(f)
        /\ UNCHANGED <<slot, bit, num, count, block>>
     \/ /\ bgi[f] < s_groups_count /\ bg_free[group[f]] # 0
        /\ Goto(f, "scan")
        /\ UNCHANGED <<locals>>
  /\ UNCHANGED <<disk, i_data>>

\* find_next_zero_bit_le(map, size, from)
ZerosFrom(g, from) == {b \in Bits(g) \ bitmap[g] : b >= from}

\* ext2_allocate_in_bg: the search starts at the NUMBER of the group's first
\* block, and num starts as it is.
FindZero(f) ==
  LET g == group[f]
      zeros == ZerosFrom(g, ext2_group_first_block_no(g))
  IN
  /\ pc[f] = "scan"
  /\ \/ /\ zeros = {}
        /\ NextGroup(f)
        /\ UNCHANGED <<bit, num>>
     \/ /\ zeros # {}
        /\ bit' = [bit EXCEPT ![f] = Min(zeros)]
        /\ \E n \in JunkNum : num' = [num EXCEPT ![f] = n]
        /\ Goto(f, "set")
        /\ UNCHANGED <<group, bgi>>
  /\ UNCHANGED <<disk, i_data, slot, count, block>>

\* The condition of the loop that sets bits.
MoreBits(f) == num[f] < count[f] /\ bit[f] < NBlocks(group[f])

\* Mutant of SetBit: the old value of the bit is not looked at.
SetBit_Blind(f) ==
  /\ pc[f] = "set" /\ MoreBits(f)
  /\ bitmap' = [bitmap EXCEPT ![group[f]] = @ \cup {bit[f]}]
  /\ num' = [num EXCEPT ![f] = @ + 1]
  /\ bit' = [bit EXCEPT ![f] = @ + 1]
  /\ UNCHANGED <<bg_free, free_counter, failed, given_up, i_data, pc, slot, group, bgi,
                 count, block>>

\* ext2_set_bit_atomic on a bit that was clear.
SetBit(f) ==
  /\ pc[f] = "set" /\ MoreBits(f)
  /\ bit[f] \notin bitmap[group[f]]
  /\ bitmap' = [bitmap EXCEPT ![group[f]] = @ \cup {bit[f]}]
  /\ num' = [num EXCEPT ![f] = @ + 1]
  /\ bit' = [bit EXCEPT ![f] = @ + 1]
  /\ UNCHANGED <<bg_free, free_counter, failed, given_up, i_data, pc, slot, group, bgi,
                 count, block>>

\* Someone else has set the bit meanwhile, and nothing is allocated yet.
SkipBit(f) ==
  /\ pc[f] = "set" /\ MoreBits(f)
  /\ bit[f] \in bitmap[group[f]] /\ num[f] = 0
  /\ bit' = [bit EXCEPT ![f] = @ + 1]
  /\ UNCHANGED <<disk, i_data, pc, slot, group, bgi, num, count, block>>

\* The loop ends: at its condition, or at a bit that is set.  A negative result
\* makes ext2_new_blocks go on with the next group.
BitsDone(f) ==
  /\ pc[f] = "set"
  /\ ~MoreBits(f) \/ (bit[f] \in bitmap[group[f]] /\ num[f] # 0)
  /\ \/ /\ num[f] = 0
        /\ NextGroup(f)
        /\ UNCHANGED count
     \/ /\ num[f] # 0
        /\ count' = [count EXCEPT ![f] = num[f]]
        /\ IF bit[f] < num[f] THEN NextGroup(f)
           ELSE Goto(f, "desc") /\ UNCHANGED <<group, bgi>>
  /\ UNCHANGED <<disk, i_data, slot, bit, num, block>>

\* Adding to a 16-bit descriptor field.
Add16(x, d) == (x + d) % U16

\* group_update_free_blocks(sb, group_no, gdp, gdp_bh, -count)
AllocDesc(f) ==
  /\ pc[f] = "desc"
  /\ bg_free' = [bg_free EXCEPT ![group[f]] = Add16(@, -count[f])]
  /\ Goto(f, "counter")
  /\ UNCHANGED <<bitmap, free_counter, failed, given_up, i_data, locals>>

\* The block handed out; ext2_get_blocks enters it in the map.
Result(f) == ext2_group_first_block_no(group[f]) + bit[f] - num[f]

\* Mutant of AllocCounter: the counter of the file system is forgotten.
AllocCounter_Skip(f) ==
  /\ pc[f] = "counter"
  /\ i_data' = [i_data EXCEPT ![f][slot[f]] = Result(f)]
  /\ Done(f)
  /\ UNCHANGED disk

AllocCounter(f) ==
  /\ pc[f] = "counter"
  /\ free_counter' = free_counter - count[f]
  /\ i_data' = [i_data EXCEPT ![f][slot[f]] = Result(f)]
  /\ Done(f)
  /\ UNCHANGED <<bitmap, bg_free, failed, given_up>>

-----------------------------------------------------------------------------
(* ext2_truncate_blocks, ext2_free_data and ext2_free_blocks *)

ext2_truncate_blocks(f, s) ==
  /\ pc[f] = "idle"
  /\ \E k \in Slots : k >= s /\ i_data[f][k] # 0
  /\ slot' = [slot EXCEPT ![f] = s]
  /\ count' = [count EXCEPT ![f] = 0]
  /\ Goto(f, "gather")
  /\ UNCHANGED <<disk, i_data, group, bgi, bit, num, block>>

Contiguous(f, nr) == block[f] = nr - count[f]

\* Mutant of Gather: a hole counts as one of the accumulated blocks.
Gather_CountHoles(f) ==
  LET nr == i_data[f][slot[f]] IN
  /\ pc[f] = "gather" /\ slot[f] < EXT2_NDIR_BLOCKS
  /\ \/ /\ nr = 0 \/ count[f] = 0 \/ Contiguous(f, nr)
        /\ i_data' = [i_data EXCEPT ![f][slot[f]] = 0]
        /\ block' = IF nr # 0 /\ count[f] = 0 THEN [block EXCEPT ![f] = nr] ELSE block
        /\ count' = IF nr # 0 \/ count[f] # 0 THEN [count EXCEPT ![f] = @ + 1] ELSE count
        /\ slot' = [slot EXCEPT ![f] = @ + 1]
        /\ UNCHANGED pc
     \/ /\ nr # 0 /\ count[f] # 0 /\ ~Contiguous(f, nr)
        /\ Goto(f, "free")
        /\ UNCHANGED <<i_data, block, count, slot>>
  /\ UNCHANGED <<disk, group, bgi, bit, num>>

\* Mutant of Gather: the block that does not continue the accumulated ones is not
\* looked at again.
Gather_Pass(f) ==
  LET nr == i_data[f][slot[f]] IN
  /\ pc[f] = "gather" /\ slot[f] < EXT2_NDIR_BLOCKS
  /\ i_data' = [i_data EXCEPT ![f][slot[f]] = 0]
  /\ slot' = [slot EXCEPT ![f] = @ + 1]
  /\ \/ /\ nr = 0 \/ count[f] = 0 \/ Contiguous(f, nr)
        /\ block' = IF nr # 0 /\ count[f] = 0 THEN [block EXCEPT ![f] = nr] ELSE block
        /\ count' = IF nr # 0 THEN [count EXCEPT ![f] = @ + 1] ELSE count
        /\ UNCHANGED pc
     \/ /\ nr # 0 /\ count[f] # 0 /\ ~Contiguous(f, nr)
        /\ Goto(f, "free")
        /\ UNCHANGED <<block, count>>
  /\ UNCHANGED <<disk, group, bgi, bit, num>>

\* One turn of the loop of ext2_free_data; a block that does not continue the
\* accumulated ones has them freed first and is looked at again.
Gather(f) ==
  LET nr == i_data[f][slot[f]] IN
  /\ pc[f] = "gather" /\ slot[f] < EXT2_NDIR_BLOCKS
  /\ \/ /\ nr = 0 \/ count[f] = 0 \/ Contiguous(f, nr)
        /\ i_data' = [i_data EXCEPT ![f][slot[f]] = 0]
        /\ block' = IF nr # 0 /\ count[f] = 0 THEN [block EXCEPT ![f] = nr] ELSE block
        /\ count' = IF nr # 0 THEN [count EXCEPT ![f] = @ + 1] ELSE count
        /\ slot' = [slot EXCEPT ![f] = @ + 1]
        /\ UNCHANGED pc
     \/ /\ nr # 0 /\ count[f] # 0 /\ ~Contiguous(f, nr)
        /\ Goto(f, "free")
        /\ UNCHANGED <<i_data, block, count, slot>>
  /\ UNCHANGED <<disk, group, bgi, bit, num>>

GatherDone(f) ==
  /\ pc[f] = "gather" /\ slot[f] = EXT2_NDIR_BLOCKS
  /\ IF count[f] = 0 THEN Done(f) ELSE Goto(f, "free") /\ UNCHANGED locals
  /\ UNCHANGED <<disk, i_data>>

Run(b, n) == b..(b + n - 1)

\* ext2_data_blocks_valid
ext2_data_blocks_valid(b, n) ==
  /\ n > 0
  /\ b > s_first_data_block /\ b + n - 1 < s_blocks_count
  /\ s_sb_block \notin Run(b, n)

GroupOf(b) == (b - s_first_data_block) \div s_blocks_per_group
BitOf(b) == (b - s_first_data_block) % s_blocks_per_group

\* ext2_data_blocks_valid_bg
ext2_data_blocks_valid_bg(g, b, n) ==
  LET first == ext2_group_first_block_no(g)
      table == Run(first + InodeTable, s_itb_per_group)
  IN  /\ first + BlockBitmap \notin Run(b, n)
      /\ first + InodeBitmap \notin Run(b, n)
      /\ b \notin table /\ b + n - 1 \notin table

Valid(b, n) ==
  ext2_data_blocks_valid(b, n) /\ ext2_data_blocks_valid_bg(GroupOf(b), b, n)

\* ext2_free_data goes on after the blocks it had accumulated.
Resume(f) ==
  /\ Goto(f, "gather")
  /\ count' = [count EXCEPT ![f] = 0] /\ num' = [num EXCEPT ![f] = 0]
  /\ bit' = [bit EXCEPT ![f] = 0] /\ group' = [group EXCEPT ![f] = 0]
  /\ block' = [block EXCEPT ![f] = 0]
  /\ UNCHANGED <<slot, bgi>>

\* The checks at the head of ext2_free_blocks; an unreadable bitmap ends it as
\* well, and leaves the blocks marked.
ext2_free_blocks(f) ==
  /\ pc[f] = "free"
  /\ \/ /\ Valid(block[f], count[f])
        /\ group' = [group EXCEPT ![f] = GroupOf(block[f])]
        /\ bit' = [bit EXCEPT ![f] = BitOf(block[f])]
        /\ Goto(f, "clear")
        /\ UNCHANGED <<slot, bgi, num, count, block, failed, given_up>>
     \/ /\ failed' = (failed \/ ~Valid(block[f], count[f]))
        /\ given_up' = given_up \cup Run(block[f], count[f])
        /\ Resume(f)
  /\ UNCHANGED <<bitmap, bg_free, free_counter, i_data>>

ClearBit(f) ==
  LET end == BitOf(block[f]) + count[f] IN
  /\ pc[f] = "clear" /\ bit[f] < end
  /\ bitmap' = [bitmap EXCEPT ![group[f]] = @ \ {bit[f]}]
  /\ bit' = [bit EXCEPT ![f] = @ + 1]
  /\ \/ /\ bit[f] \in bitmap[group[f]]
        /\ num' = [num EXCEPT ![f] = @ + 1]
        /\ UNCHANGED failed
     \/ /\ bit[f] \notin bitmap[group[f]]
        /\ failed' = TRUE
        /\ UNCHANGED num
  /\ UNCHANGED <<bg_free, free_counter, given_up, i_data, pc, slot, group, bgi, count, block>>

\* group_update_free_blocks(sb, block_group, desc, bh2, freed)
FreeDesc(f) ==
  /\ pc[f] = "clear" /\ bit[f] = BitOf(block[f]) + count[f]
  /\ bg_free' = [bg_free EXCEPT ![group[f]] = Add16(@, num[f])]
  /\ Goto(f, "fcounter")
  /\ UNCHANGED <<bitmap, free_counter, failed, given_up, i_data, locals>>

FreeCounter(f) ==
  /\ pc[f] = "fcounter"
  /\ free_counter' = free_counter + num[f]
  /\ Resume(f)
  /\ UNCHANGED <<bitmap, bg_free, failed, given_up, i_data>>

-----------------------------------------------------------------------------
Step(f) ==
  \/ \E s \in Slots : ext2_get_blocks(f, s) \/ ext2_truncate_blocks(f, s)
  \/ SearchGroup(f) \/ FindZero(f) \/ SetBit(f) \/ SkipBit(f) \/ BitsDone(f)
  \/ AllocDesc(f) \/ AllocCounter(f)
  \/ Gather(f) \/ GatherDone(f) \/ ext2_free_blocks(f) \/ ClearBit(f)
  \/ FreeDesc(f) \/ FreeCounter(f)

Next == \E f \in Files : Step(f)

Spec == Init /\ [][Next]_vars

-----------------------------------------------------------------------------
(* Properties *)

Mapped(f) == {i_data[f][s] : s \in Slots} \ {0}

\* However the allocations of several files and their frees interleave in
\* ext2_allocate_in_bg and ext2_free_blocks, no block is in two places: the block
\* maps hold distinct blocks, each marked in its bitmap, none of them metadata.
\* And so ext2_error is never called: ext2_free_blocks never frees metadata,
\* blocks outside of the file system or blocks that are free.
NoSharedBlock ==
  /\ ~failed
  /\ \A f, h \in Files, s, t \in Slots :
       i_data[f][s] # 0 /\ i_data[f][s] = i_data[h][t] => f = h /\ s = t
  /\ \A f \in Files : \A b \in Mapped(f) :
       BitOf(b) \in bitmap[GroupOf(b)] \ SystemBits

\* Bits a file has set, or cleared, in a group and not yet accounted for in the
\* descriptor.
Taken(f, g) == IF pc[f] \in {"set", "desc"} /\ group[f] = g THEN num[f] ELSE 0
Given(f, g) == IF pc[f] = "clear" /\ group[f] = g THEN num[f] ELSE 0
Owed(f) == IF pc[f] \in {"set", "desc", "counter"} THEN num[f]
           ELSE IF pc[f] \in {"clear", "fcounter"} THEN -num[f] ELSE 0

\* The three records of the free blocks agree at every moment: the descriptor
\* counts of group_update_free_blocks (modulo 2^16: they do wrap for a moment when
\* a freed block is taken before it is counted) and the counter of the file
\* system, against the bitmaps and what the calls under way still owe.
CountsExact ==
  /\ TypeOK
  /\ \A g \in Groups :
       bg_free[g] = (FreeIn(g) + MapThenSumSet(LAMBDA f : Taken(f, g) - Given(f, g), Files)) % U16
  /\ free_counter = MapThenSumSet(FreeIn, Groups) + MapThenSumSet(Owed, Files)

\* The blocks a call is about to hand out, to free, or has yet to clear the bits of.
InHand(f) ==
  CASE pc[f] \in {"set", "desc", "counter"} -> Run(Result(f), num[f])
    [] pc[f] \in {"gather", "free"} -> Run(block[f], count[f])
    [] pc[f] = "clear" -> (ext2_group_first_block_no(group[f]) + bit[f])..(block[f] + count[f] - 1)
    [] OTHER -> {}

\* No data block is lost: one whose bit is set is in a block map or in the hands of
\* a call, however allocators skip bits others have taken and ext2_free_data joins
\* blocks over holes and frees them in several runs.  Only the runs ext2_free_blocks
\* gives up when it cannot read the bitmap stay marked for ever (balloc.c:259).
NoBlockLost ==
  \A b \in Blocks \ given_up :
    b >= s_first_data_block /\ BitOf(b) \in bitmap[GroupOf(b)] \ SystemBits
      => \E f \in Files : b \in Mapped(f) \cup InHand(f)
=============================================================================
