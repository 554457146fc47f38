SPECIFICATION WebgpuSpec
CONSTANTS
  Declarations <- Families
  CommandLines <- Calls
  MaxDeclarations = 4
  Width = 8
  Capacity = 8
  Turns = 3
  MaxFrames = 2
  Sizes = {0, 1, 2}
INVARIANTS TypeOK OrderSound LayoutPreserved PathsAgree AliasesExact
INVARIANTS HandlesAwaited PixelsComplete FramesConsistent
PROPERTY ToolsEnd
