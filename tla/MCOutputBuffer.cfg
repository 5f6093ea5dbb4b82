\* Every limit is small: two iovec entries, blocks of four bytes, any partial write.
CONSTANTS
  Addrs = {a1, a2, a3, a4}
  BufSize = 4
  MinBufSize = 2
  BlockSize = 4
  IovMax = 2
  NetMax = 3
  MaxDefer = 2
  MaxPlain = 3
  MaxBytes = 9
SPECIFICATION Spec
SYMMETRY AddrSymmetry
INVARIANTS
  TypeOK
  WireInOrder
  BookmarkValid
  NothingDropped
  WritesProgress
CHECK_DEADLOCK FALSE
