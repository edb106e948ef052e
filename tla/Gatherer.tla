------------------------------ MODULE Gatherer ------------------------------
(***************************************************************************)
(* code/main.cpp: the frame loop.  It polls the controller, runs the level *)
(* while time is left, runs the physics in every frame and draws.  The     *)
(* program has one thread; pc names the call the loop makes next, and each *)
(* call is one step.                                                       *)
(***************************************************************************)
EXTENDS Level

CONSTANTS
  TicksPerSecond,      \* 60
  GameTime,            \* seconds on the clock at the start: 60
  MaxFrames,           \* bound: the window is closed after so many frames
  CallsDespawnItems    \* main.cpp has that call commented out: FALSE

ASSUME GathererAssumption ==
  /\ {TicksPerSecond, GameTime} \subseteq Nat \ {0}
  /\ MaxFrames \in Nat
  /\ CallsDespawnItems \in BOOLEAN

VARIABLES
  pc,
  frame        \* number of iterations of the loop begun

vars == <<registry, pressed, ticks, time, score, pc, frame>>

Phase == {"PollInput", "IncrementTicks", "MoveBasket", "SpawnFruits",
          "CollectFruit", "CollectSpider", "DespawnItems",
          "TranslatePhysicsObject", "PropagatePosition",
          "RemoveCollisionMarker", "CollisionCheck", "Render", "Halted"}

\* The level part of a frame, that runs under the guard time != 0.
LevelPhase == {"IncrementTicks", "MoveBasket", "SpawnFruits", "CollectFruit",
               "CollectSpider", "DespawnItems"}

Init ==
  /\ LevelInit
  /\ pressed = {}
  /\ ticks = 0 /\ time = GameTime /\ score = 0
  /\ pc = "PollInput"
  /\ frame = 0

Goto(from, to) == pc = from /\ pc' = to

-----------------------------------------------------------------------------

\* GetShouldClose: the loop ends, main returns and _main spins.
CloseWindow ==
  /\ Goto("PollInput", "Halted")
  /\ UNCHANGED <<registry, pressed, game, frame>>

\* Variant: the clock does not stop the level.
PollForever ==
  /\ frame < MaxFrames
  /\ Goto("PollInput", "IncrementTicks")
  /\ frame' = frame + 1
  /\ pressed' \in SUBSET Key
  /\ UNCHANGED <<registry, game>>

\* Variant: the last second is not played.
PollShort ==
  /\ frame < MaxFrames
  /\ Goto("PollInput", IF time > 1 THEN "IncrementTicks"
                                   ELSE "TranslatePhysicsObject")
  /\ frame' = frame + 1
  /\ pressed' \in SUBSET Key
  /\ UNCHANGED <<registry, game>>

\* The keys held now replace those of the last frame; the level runs in this
\* frame if the clock has not reached zero before it.
PollInput ==
  /\ frame < MaxFrames
  /\ Goto("PollInput", IF time # 0 THEN "IncrementTicks"
                                   ELSE "TranslatePhysicsObject")
  /\ frame' = frame + 1
  /\ pressed' \in SUBSET Key
  /\ UNCHANGED <<registry, game>>

\* Variant: the second is counted from the ticks before the increment.
IncrementTicksLate ==
  /\ Goto("IncrementTicks", "MoveBasket")
  /\ ticks' = ticks + 1
  /\ time' = IF ticks % TicksPerSecond = 0 /\ time > 0 THEN time - 1
                                                       ELSE time
  /\ UNCHANGED <<registry, pressed, score, frame>>

IncrementTicks ==
  /\ Goto("IncrementTicks", "MoveBasket")
  /\ ticks' = ticks + 1
  /\ time' = IF ticks' % TicksPerSecond = 0 /\ time > 0 THEN time - 1
                                                        ELSE time
  /\ UNCHANGED <<registry, pressed, score, frame>>

RunLevel ==
  /\ \/ Goto("MoveBasket", "SpawnFruits") /\ MoveBasket
     \/ Goto("SpawnFruits", "CollectFruit") /\ SpawnFruits
     \/ Goto("CollectFruit", "CollectSpider") /\ CollectFruit
     \/ /\ Goto("CollectSpider", IF CallsDespawnItems
                                   THEN "DespawnItems"
                                   ELSE "TranslatePhysicsObject")
        /\ CollectSpider
     \/ Goto("DespawnItems", "TranslatePhysicsObject") /\ DespawnItems
  /\ UNCHANGED frame

RunPhysics ==
  /\ \/ /\ Goto("TranslatePhysicsObject", "PropagatePosition")
        /\ TranslatePhysicsObject
     \/ /\ Goto("PropagatePosition", "RemoveCollisionMarker")
        /\ PropagatePosition
     \/ /\ Goto("RemoveCollisionMarker", "CollisionCheck")
        /\ RemoveCollisionMarker
     \/ Goto("CollisionCheck", "Render") /\ CollisionCheck
  /\ UNCHANGED <<pressed, game, frame>>

\* Clear, RenderSprites, RenderScore, swap, VSync: the registry is only read.
Render ==
  /\ Goto("Render", "PollInput")
  /\ UNCHANGED <<registry, pressed, game, frame>>

\* _main never returns: while(1).
Spin == pc = "Halted" /\ UNCHANGED vars

Loop == PollInput \/ IncrementTicks \/ RunLevel \/ RunPhysics \/ Render

Next == Loop \/ CloseWindow \/ Spin

Spec == Init /\ [][Next]_vars

\* The loop is never blocked for good: it waits only for a GPU that finishes
\* what it was told to draw and for a screen that refreshes.
FairSpec == Spec /\ WF_vars(Loop)

-----------------------------------------------------------------------------

SpawnLimit == (GameTime * TicksPerSecond) \div SpawnPeriod

\* The identifiers the items get: an item and its box are created together.
ItemIds == {basket_cb + 2 * k - 1 : k \in 1 .. SpawnLimit}

Hidden(i) == Position[i].x >= HideShift

\* What the player sees: the item is drawn over the lower part of the basket.
DrawnTouching(i) ==
  Overlap(Plus(Position[basket], Position[basket_cb]), BasketBoxSize,
          Position[i], ItemBoxSize)

\* The type of every variable: which entities each storage of the registry
\* holds, and that the counters of Game stay in their ranges.
TypeOK ==
  /\ pc \in Phase
  /\ frame \in 0 .. MaxFrames
  /\ pressed \subseteq Key
  /\ ticks \in Nat /\ time \in 0 .. GameTime /\ score \in Int
  /\ RegistryOK

\* PropagatePosition and CollisionCheck dereference Parent without a test
\* (physics.cpp:28, 60): a parent is always a live root that has a world
\* position, and two boxes never share one, whatever has been destroyed.
HierarchySound ==
  \A e \in DOMAIN Parent :
    /\ Readable(WorldPosition, Parent[e])
    /\ Parent[e] \notin DOMAIN Parent
    /\ \A f \in DOMAIN Parent : Parent[e] = Parent[f] => e = f

\* registry.emplace<Collided> (physics.cpp:60) needs an entity without that
\* component: the markers of the last frame are gone when the pass starts and
\* no item is hit through two boxes.
EmplaceFresh ==
  pc = "CollisionCheck" =>
    \A e \in HitBoxes :
      /\ Parent[e] \in alive \ Collided
      /\ \A f \in HitBoxes : Parent[e] = Parent[f] => e = f

\* When a frame is drawn, the items marked as touching the basket are the
\* ones drawn over it: no marker rests on the world position of an earlier
\* frame, although the passes that write and read it are separate calls.
MarkersMatchScreen ==
  pc = "Render" =>
    Collided = {i \in Fruit \cup Spider : DrawnTouching(i)}

\* Each collected item is paid for exactly once: markers outlive the call
\* that pays for them, yet the score is that of the items moved out of the
\* window (level.cpp:125, 144).
ScoreLedger ==
  score = FruitPoints * Cardinality({i \in Fruit : Hidden(i)})
            - SpiderPoints * Cardinality({i \in Spider : Hidden(i)})

\* The basket is drawn inside the window, whatever keys are held and however
\* its speed divides the width (level.cpp:59-60).
BasketInWindow ==
  Position[basket].x \in 0 .. (WINDOW_WIDTH - BasketWidth)

\* The clock shows the seconds the tick counter leaves, and stops with it:
\* ticks never run on once the time is up.
ClockExact ==
  /\ time = GameTime - (ticks \div TicksPerSecond)
  /\ ticks <= GameTime * TicksPerSecond

\* Items are never destroyed, so the registry is bounded only because the
\* level stops spawning: its size is known from the tick counter.
PopulationBounded ==
  /\ created = 3 + 2 * Cardinality(Fruit \cup Spider)
  /\ Fruit \cup Spider \subseteq ItemIds

\* Nothing stops the fall of an item, after the game is over either: the
\* coordinates an int has to hold are bounded by the number of frames drawn.
FallBounded ==
  \A i \in Fruit \cup Spider :
    /\ Position[i].y <= MaxVelocity * frame - SpawnRise
    /\ Position[i].x <= HideShift + WINDOW_WIDTH - SpawnMargin

-----------------------------------------------------------------------------

\* One step of the fall never takes an item from above the basket's collision
\* box to below the window: each item that comes down is tested against the
\* box at least once.
NoTunnelling ==
  [][\A i \in Fruit \cup Spider :
       Position[i].y + ItemSize < WINDOW_HEIGHT - BoxHeight
         => Position'[i].y <= WINDOW_HEIGHT]_vars

\* An item the player sees touch the basket is collected, although the test
\* and the collection are in different frames - unless that frame was the
\* last of the game.
TouchedIsCollected ==
  \A i \in ItemIds :
    (pc = "Render" /\ i \in Collided /\ time # 0)
      ~> ((i \in Fruit \cup Spider /\ Hidden(i)) \/ pc = "Halted")

\* The game reaches its end: time runs out unless the window is closed first.
TimeRunsOut == <>(time = 0 \/ pc = "Halted")

\* The match the frames implement; it is over when time was up at the end of
\* the level part of a frame.
M == INSTANCE Match WITH
       Items <- ItemIds,
       remaining <- time,
       over <- time = 0 /\ pc \notin LevelPhase,
       fruit <- Fruit,
       spider <- Spider,
       caught <- {i \in Fruit \cup Spider : Hidden(i)}

\* The frame loop implements the match: items appear one at a time and only
\* while it runs, each is caught at most once and paid for in that step, and
\* after the last level part neither score nor clock nor items change.
ImplementsMatch == M!Spec
=============================================================================
