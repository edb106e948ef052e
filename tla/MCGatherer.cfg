SPECIFICATION FairSpec
CONSTANTS
  WINDOW_WIDTH = 9
  WINDOW_HEIGHT = 8
  BasketWidth = 3
  BasketHeight = 2
  BoxOffset = 1
  BoxHeight = 1
  ItemSize = 2
  BasketSpeed = 2
  SpawnPeriod = 3
  SpawnMargin = 2
  SpawnRise = 1
  SpawnColumns <- MCSpawnColumns
  MaxVelocity = 3
  Velocities <- MCVelocities
  HideShift = 20
  FruitPoints = 1
  SpiderPoints = 5
  TicksPerSecond = 4
  GameTime = 2
  MaxFrames = 12
  CallsDespawnItems = FALSE
INVARIANTS
  TypeOK
  EmplaceFresh
  MarkersMatchScreen
  ScoreLedger
  ClockExact
  PopulationBounded
  FallBounded
PROPERTIES
  NoTunnelling
  ImplementsMatch
  TouchedIsCollected
  TimeRunsOut
