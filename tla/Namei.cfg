SPECIFICATION Spec
CONSTANTS
  p1 = p1
  p2 = p2
  Procs = {p1, p2}
  NoProc = NoProc
  a = a
  b = b
  Names = {a, b}
  NoName = NoName
  s_groups_count = 2
  s_inodes_per_group = 2
  EXT2_ROOT_INO = 2
  EXT2_FIRST_INO = 3
  WithBlocks = {1}
  U16 = 8
  MaxLeaked = 1
  MaxOpen = 1
  MaxUnread = 1
INVARIANTS CountsExact NoSharedInode LinksExact NoDangling NoLeak
SYMMETRY MCSymmetry
