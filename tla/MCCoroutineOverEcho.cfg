\* A split block: server.cpp answers a partial read with a whole block.
CONSTANTS
  s1 = s1
  s2 = s2
  Sessions <- MCOneSession
  BlockSize = 2
  Capacity = 2
  SplitBlocks = TRUE
SPECIFICATION FairSpec
INVARIANT NeverOverEchoes
