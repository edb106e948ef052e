SPECIFICATION Spec
CONSTANTS
  Textures <- Bitmaps
  Backgrounds <- Jungle
  Scenes <- Drawn
INVARIANTS ShownWhole NoGarbage CellsInTexture
PROPERTY FramesGoOn
