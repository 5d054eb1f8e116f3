SPECIFICATION Spec
CONSTANTS
  r1 = r1
  Names = {"a", "b", "c"}
  name_len <- MCName_len
  Inodes = {11, 12}
  Self = 2
  Parent = 1
  s_blocksize = 64
  PAGE_SIZE = 128
  MaxSize = 192
  Readers = {r1}
  SeekTo = {0, 44}
INVARIANTS DirectoryValid ListingExact OnRecord
PROPERTY ImplementsNameMap
