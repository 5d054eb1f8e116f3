SPECIFICATION Spec
CONSTANTS
  f1 = f1
  f2 = f2
  Files = {f1, f2}
  i_block_group <- InFirst
  s_groups_count = 2
  s_blocks_per_group = 8
  s_blocks_count = 14
  s_first_data_block = 1
  s_sb_block = 1
  BlockBitmap = 1
  InodeBitmap = 2
  InodeTable = 3
  s_itb_per_group = 1
  EXT2_NDIR_BLOCKS = 3
  U16 = 16
  JunkNum = {0}
INVARIANTS NoSharedBlock CountsExact NoBlockLost
SYMMETRY MCSymmetry
CHECK_DEADLOCK FALSE
