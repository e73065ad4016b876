CONSTANTS
  Types <- Held
  Pointer <- Word
  Blocks <- Everywhere
  UseAlignment = TRUE
SPECIFICATION LayoutSpec
INVARIANTS
  ReadersFindParts
  PartsAreSound
  AlignedBlocksSuffice
CHECK_DEADLOCK FALSE
