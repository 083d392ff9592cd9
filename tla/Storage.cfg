\* Two processes, a file of three bytes, arithmetic modulo 8; six i-nodes in two groups,
\* four trees, sixteen paths; blocks of three bytes, two direct and two indirect ones,
\* files of up to five blocks; 18 ints of heap between the sentinels, up to 4 blocks.
CONSTANTS
  Procs = {p1, p2}
  Root = p1
  Descs = {d1}
  NumConsoles = 1
  NumFds = 2
  FileSize = 3
  Sizes = {2, 7}
  Offsets = {1, 4, 6}
  Word = 8
  None = none
  NumNodes = 6
  PerGroup = 4
  Trees <- MCTrees
  Paths <- MCPaths
  MaxCwd = 6
  BlockSize = 3
  NumDirect = 2
  NumRefs = 2
  MaxSize = 14
  MaxArg = 16
  Kinds = {"kernel", "user"}
  Ints = 22
  CountDown = 2
  SizeMod = 64
  Requests = {5, 9, 13}
  Words <- TagLike
  MaxLive = 4
SPECIFICATION Spec
INVARIANTS
  RefsExact
  ReadBounded
  FindFollowsEntries
  PwdNamesCurrent
  ReadAllExact
  HeapConsistent
  DataIntact
CHECK_DEADLOCK FALSE
