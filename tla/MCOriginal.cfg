SPECIFICATION Spec
CONSTANTS
  WINDOW_WIDTH = 400
  WINDOW_HEIGHT = 240
  BasketWidth = 64
  BasketHeight = 32
  BoxOffset = 16
  BoxHeight = 16
  ItemSize = 32
  BasketSpeed = 5
  SpawnPeriod = 50
  SpawnMargin = 32
  SpawnRise = 16
  SpawnColumns <- MCSpawnColumns
  MaxVelocity = 4
  Velocities <- MCVelocities
  HideShift = 1000
  FruitPoints = 10
  SpiderPoints = 50
  TicksPerSecond = 60
  GameTime = 60
  MaxFrames = 118
  CallsDespawnItems = TRUE
INVARIANTS
  BasketInWindow
  HierarchySound
PROPERTY
  NoTunnelling
