SPECIFICATION WebgpuSpec
CONSTANTS
  Declarations <- Embedding
  CommandLines <- Calls
  MaxDeclarations = 4
  Width = 8
  Capacity = 8
  Turns = 3
  MaxFrames = 2
  Sizes = {0, 1, 2}
INVARIANT BlobKeepsLayout
