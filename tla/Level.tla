-------------------------------- MODULE Level -------------------------------
(***************************************************************************)
(* code/level.cpp: the entities of the level, the basket the player moves, *)
(* the items that appear above the window, and what happens to an item     *)
(* the physics module has marked as touching the basket.                   *)
(***************************************************************************)
EXTENDS Physics

CONSTANTS
  WINDOW_WIDTH, WINDOW_HEIGHT,      \* definitions.hpp: 400 x 240
  BasketSpeed,                      \* pixels per frame: 5
  SpawnPeriod,                      \* frames between two items: 50
  SpawnMargin,                      \* items appear this far from the sides: 32
  SpawnRise,                        \* and this far above the window: 16
  SpawnColumns,                     \* the x the distribution may draw
  MaxVelocity, Velocities,          \* binomial(3, 0.5) + 1: 1..4
  HideShift,                        \* a collected item moves right by 1000
  FruitPoints, SpiderPoints         \* 10 gained, 50 lost

ASSUME LevelAssumption ==
  /\ {BasketWidth, BasketHeight, BoxHeight, ItemSize, BasketSpeed,
      WINDOW_WIDTH, WINDOW_HEIGHT, SpawnPeriod, MaxVelocity, HideShift,
      FruitPoints, SpiderPoints} \subseteq Nat \ {0}
  /\ {BoxOffset, SpawnMargin, SpawnRise} \subseteq Nat
  /\ BasketWidth <= WINDOW_WIDTH
  /\ BasketHeight <= WINDOW_HEIGHT
  /\ BoxOffset + BoxHeight = BasketHeight
  /\ SpawnColumns \subseteq SpawnMargin .. (WINDOW_WIDTH - SpawnMargin)
  /\ Velocities \subseteq 1 .. MaxVelocity
  /\ MaxVelocity <= ItemSize + BoxHeight
  /\ WINDOW_WIDTH < HideShift

VARIABLES
  pressed,      \* ButtonInput
  ticks,        \* Game
  time,
  score

game == <<ticks, time, score>>

Key == {"Left", "Right"}

-----------------------------------------------------------------------------

\* The registry as the constructor of LevelModule leaves it.  A component
\* emplaced without arguments is value-initialised.
LevelInit ==
  /\ created = 3
  /\ alive = {background, basket, basket_cb}
  /\ Position = [e \in {background, basket, basket_cb} |->
                   CASE e = background -> Point(0, 0)
                     [] e = basket -> Point((WINDOW_WIDTH \div 2)
                                              - (BasketWidth \div 2),
                                            WINDOW_HEIGHT - BasketHeight)
                     [] e = basket_cb -> Point(0, BoxOffset)]
  /\ WorldPosition = [e \in {basket, basket_cb} |-> Point(0, 0)]
  /\ Parent = [e \in {basket_cb} |-> basket]
  /\ Velocity = [e \in {} |-> Point(0, 0)]
  /\ Collided = {} /\ Fruit = {} /\ Spider = {} /\ Item = {}

StorageOf(C, S) == C \in [S -> [x : Int, y : Int]]

\* Which entities each storage holds, as long as nothing but the level and
\* the physics touches the registry.
RegistryOK ==
  /\ created \in Nat /\ alive \subseteq 0 .. (created - 1)
  /\ {background, basket, basket_cb} \subseteq alive
  /\ Fruit \subseteq alive \ {background, basket, basket_cb}
  /\ Spider \subseteq alive \ {background, basket, basket_cb}
  /\ Fruit \cap Spider = {}
  /\ Item \subseteq alive
  /\ Collided \subseteq Fruit \cup Spider
  /\ StorageOf(Position, alive)
  /\ StorageOf(WorldPosition, alive \ {background})
  /\ StorageOf(Velocity, Fruit \cup Spider)
  /\ Parent \in [alive \ ({background, basket} \cup Fruit \cup Spider)
                  -> {basket} \cup Fruit \cup Spider]

-----------------------------------------------------------------------------

Steer(x) ==
  x - (IF "Left" \in pressed THEN BasketSpeed ELSE 0)
    + (IF "Right" \in pressed THEN BasketSpeed ELSE 0)

Clamp(x) ==
  LET low == IF x < 0 THEN 0 ELSE x
  IN  IF low > WINDOW_WIDTH - BasketWidth THEN WINDOW_WIDTH - BasketWidth
                                          ELSE low

\* Variant: the position is clamped before the step instead of after it.
MoveClampedBasket ==
  /\ Position' = [Position EXCEPT ![basket].x = Steer(Clamp(@))]
  /\ UNCHANGED <<structure, WorldPosition, Collided, pressed, game>>

MoveBasket ==
  /\ Position' = [Position EXCEPT ![basket].x = Clamp(Steer(@))]
  /\ UNCHANGED <<structure, WorldPosition, Collided, pressed, game>>

-----------------------------------------------------------------------------

\* A new item at column xpos falling vel pixels per frame, and the collision
\* box that hangs from the entity owner.
SpawnUnder(owner, spider, vel, xpos) ==
  LET item == created
      collision_box == created + 1
  IN  /\ created' = created + 2
      /\ alive' = alive \cup {item, collision_box}
      /\ Fruit' = IF spider THEN Fruit ELSE Fruit \cup {item}
      /\ Spider' = IF spider THEN Spider \cup {item} ELSE Spider
      /\ Position' = Emplace(Emplace(Position, item,
                                     Point(xpos, 0 - SpawnRise)),
                             collision_box, Point(0, 0))
      /\ WorldPosition' = Emplace(Emplace(WorldPosition, item, Point(0, 0)),
                                  collision_box, Point(0, 0))
      /\ Velocity' = Emplace(Velocity, item, Point(0, vel))
      /\ Parent' = Emplace(Parent, collision_box, owner)
      /\ UNCHANGED Collided

\* Variant: every collision box is given to the basket.
SpawnOnBasket(spider, vel, xpos) ==
  SpawnUnder(basket, spider, vel, xpos) /\ UNCHANGED Item

\* Variant: items get the component DespawnItems looks for, and nothing else
\* changes.
SpawnDespawnable(spider, vel, xpos) ==
  SpawnUnder(created, spider, vel, xpos) /\ Item' = Item \cup {created}

\* The box follows the item; no code emplaces Item.
Spawn(spider, vel, xpos) ==
  SpawnUnder(created, spider, vel, xpos) /\ UNCHANGED Item

\* The draws from random_engine are any the distributions allow.
SpawnFruits ==
  /\ IF ticks % SpawnPeriod = 0
       THEN \E spider \in BOOLEAN, vel \in Velocities, xpos \in SpawnColumns :
              Spawn(spider, vel, xpos)
       ELSE UNCHANGED registry
  /\ UNCHANGED <<pressed, game>>

-----------------------------------------------------------------------------

\* pos.x += 1000 for every entity of S.
Hide(S) ==
  Position' = [e \in DOMAIN Position |->
                 IF e \in S THEN Plus(Position[e], Point(HideShift, 0))
                            ELSE Position[e]]

\* Variant: the fruit is paid for and left where it is.
PayFruit ==
  /\ score' = score + FruitPoints
                      * Cardinality(DOMAIN Position \cap Fruit \cap Collided)
  /\ UNCHANGED <<registry, pressed, ticks, time>>

\* view<Position, Fruit, Collided>
CollectFruit ==
  LET view == DOMAIN Position \cap Fruit \cap Collided
  IN  /\ score' = score + FruitPoints * Cardinality(view)
      /\ Hide(view)
      /\ UNCHANGED <<structure, WorldPosition, Collided, pressed, ticks, time>>

\* Variant: the view does not name Spider.
CollectMarked ==
  LET view == DOMAIN Position \cap Collided
  IN  /\ score' = score - SpiderPoints * Cardinality(view)
      /\ Hide(view)
      /\ UNCHANGED <<structure, WorldPosition, Collided, pressed, ticks, time>>

\* view<Position, Spider, Collided>
CollectSpider ==
  LET view == DOMAIN Position \cap Spider \cap Collided
  IN  /\ score' = score - SpiderPoints * Cardinality(view)
      /\ Hide(view)
      /\ UNCHANGED <<structure, WorldPosition, Collided, pressed, ticks, time>>

\* view<WorldPosition const, Item>
DespawnItems ==
  /\ Destroy({e \in DOMAIN WorldPosition \cap Item :
                WorldPosition[e].y >= WINDOW_HEIGHT})
  /\ UNCHANGED <<pressed, game>>
=============================================================================
