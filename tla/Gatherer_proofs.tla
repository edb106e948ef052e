-------------------------- MODULE Gatherer_proofs ---------------------------
(***************************************************************************)
(* Proofs about the frame loop, for every value of its constants: first    *)
(* its types and the hierarchy of entities, then what holds across the     *)
(* passes of a frame and from one frame to the next - the markers agree    *)
(* with the screen, and each item that is caught is paid for once.         *)
(***************************************************************************)
EXTENDS Gatherer, FiniteSetTheorems, TLAPS

\* What TypeOK leaves open about the hierarchy and the later steps rely on:
\* nothing is ever despawned and the basket has one box, its own.
Hierarchy ==
  /\ Item = {}
  /\ Parent[basket_cb] = basket
  /\ \A e, f \in DOMAIN Parent : Parent[e] = Parent[f] => e = f

IInv == TypeOK /\ Hierarchy

-----------------------------------------------------------------------------

LEMMA Lengths ==
  /\ BasketWidth \in Nat /\ BasketHeight \in Nat /\ BoxHeight \in Nat
  /\ ItemSize \in Nat /\ BasketSpeed \in Nat /\ HideShift \in Nat
  /\ WINDOW_WIDTH \in Nat /\ WINDOW_HEIGHT \in Nat
  /\ BoxOffset \in Nat /\ SpawnMargin \in Nat /\ SpawnRise \in Nat
  /\ MaxVelocity \in Nat /\ SpawnPeriod \in Nat \ {0}
BY LevelAssumption DEF LevelAssumption

LEMMA Amounts ==
  /\ FruitPoints \in Nat /\ SpiderPoints \in Nat
  /\ TicksPerSecond \in Nat \ {0} /\ GameTime \in Nat \ {0}
  /\ MaxFrames \in Nat
BY LevelAssumption, GathererAssumption DEF LevelAssumption, GathererAssumption

\* Where the basket starts is in the window.
LEMMA BasketStart ==
  (WINDOW_WIDTH \div 2) - (BasketWidth \div 2)
    \in 0 .. (WINDOW_WIDTH - BasketWidth)
<1>1. \A m, n \in Nat : m <= n =>
        (n \div 2) - (m \div 2) \in 0 .. (n - m)
  OBVIOUS
<1>2. BasketWidth <= WINDOW_WIDTH
  BY LevelAssumption DEF LevelAssumption
<1> QED
  BY <1>1, <1>2, Lengths

LEMMA InitIInv == Init => IInv
<1> SUFFICES ASSUME Init PROVE IInv
  OBVIOUS
<1> USE DEF Init, LevelInit, background, basket, basket_cb
<1>1. alive = 0 .. (created - 1)
  OBVIOUS
<1>2. StorageOf(Position, alive)
  <2>1. (WINDOW_WIDTH \div 2) - (BasketWidth \div 2) \in Int
    BY BasketStart
  <2>2. WINDOW_HEIGHT - BasketHeight \in Int /\ BoxOffset \in Int
    BY Lengths
  <2>3. Position = [e \in alive |-> Position[e]]
    OBVIOUS
  <2>4. /\ Position[0] = Point(0, 0)
        /\ Position[1] = Point((WINDOW_WIDTH \div 2) - (BasketWidth \div 2),
                               WINDOW_HEIGHT - BasketHeight)
        /\ Position[2] = Point(0, BoxOffset)
    OBVIOUS
  <2>5. \A e \in alive : Position[e] \in [x : Int, y : Int]
    BY <2>1, <2>2, <2>4 DEF Point
  <2> QED
    BY <2>3, <2>5 DEF StorageOf
<1>3. StorageOf(WorldPosition, alive \ {background})
  BY DEF StorageOf, Point
<1>4. StorageOf(Velocity, Fruit \cup Spider)
  BY DEF StorageOf
<1>5. Parent \in [alive \ ({background, basket} \cup Fruit \cup Spider)
                  -> {basket} \cup Fruit \cup Spider]
  OBVIOUS
<1>6. pc \in Phase
  BY DEF Phase
<1>7. frame \in 0 .. MaxFrames /\ time \in 0 .. GameTime
  BY Amounts
<1>8. TypeOK
  BY <1>1, <1>2, <1>3, <1>4, <1>5, <1>6, <1>7 DEF TypeOK, RegistryOK
<1> QED
  BY <1>8 DEF IInv, Hierarchy

-----------------------------------------------------------------------------

LEMMA MoveBasketStep ==
  ASSUME RegistryOK, Hierarchy, MoveBasket
  PROVE  RegistryOK' /\ Hierarchy'
<1>1. Clamp(Steer(Position[basket].x)) \in Int
  <2>1. Position[basket].x \in Int
    BY DEF RegistryOK, StorageOf
  <2>2. Steer(Position[basket].x) \in Int
    BY <2>1, Lengths DEF Steer
  <2> QED
    BY <2>2, Lengths DEF Clamp
<1>2. StorageOf(Position, alive)'
  BY <1>1 DEF RegistryOK, StorageOf, MoveBasket, structure
<1> QED
  BY <1>2 DEF RegistryOK, StorageOf, Hierarchy, MoveBasket, structure

LEMMA SpawnStep ==
  ASSUME RegistryOK, Hierarchy,
         NEW spider \in BOOLEAN, NEW vel \in Velocities,
         NEW xpos \in SpawnColumns, Spawn(spider, vel, xpos)
  PROVE  RegistryOK' /\ Hierarchy'
<1> DEFINE item == created
           box == created + 1
<1> USE DEF Spawn, SpawnUnder
<1>1. /\ created \in Nat
      /\ \A e \in alive : e \in Nat /\ e < item
  BY DEF RegistryOK
<1>2. item \notin alive /\ box \notin alive /\ item # box /\ 2 < item
  BY <1>1 DEF RegistryOK, basket_cb
<1>3. created' \in Nat /\ alive' \subseteq 0 .. (created' - 1)
  BY <1>1
<1>4. Fruit' \cup Spider' = Fruit \cup Spider \cup {item}
  OBVIOUS
<1>5. /\ Fruit' \subseteq alive' \ {background, basket, basket_cb}
      /\ Spider' \subseteq alive' \ {background, basket, basket_cb}
      /\ Fruit' \cap Spider' = {}
  BY <1>2 DEF RegistryOK, background, basket, basket_cb
<1>6. StorageOf(Position, alive)'
  <2>1. Point(xpos, 0 - SpawnRise) \in [x : Int, y : Int]
    BY LevelAssumption, Lengths DEF LevelAssumption, Point
  <2>2. Point(0, 0) \in [x : Int, y : Int]
    BY DEF Point
  <2> QED
    BY <2>1, <2>2 DEF RegistryOK, StorageOf, Emplace
<1>7. StorageOf(WorldPosition, alive \ {background})'
  <2>1. Point(0, 0) \in [x : Int, y : Int]
    BY DEF Point
  <2> QED
    BY <1>2, <2>1 DEF RegistryOK, StorageOf, Emplace, background
<1>8. StorageOf(Velocity, Fruit \cup Spider)'
  <2>1. Point(0, vel) \in [x : Int, y : Int]
    BY LevelAssumption, Lengths DEF LevelAssumption, Point
  <2> QED
    BY <1>4, <2>1 DEF RegistryOK, StorageOf, Emplace
<1>9. Parent' \in [alive' \ ({background, basket} \cup Fruit' \cup Spider')
                    -> {basket} \cup Fruit' \cup Spider']
  BY <1>2, <1>4 DEF RegistryOK, Emplace, background, basket
<1>10. Hierarchy'
  <2>1. DOMAIN Parent' = DOMAIN Parent \cup {box}
    BY DEF Emplace
  <2>2. box \notin DOMAIN Parent /\ basket_cb \in DOMAIN Parent
    BY <1>2 DEF RegistryOK, background, basket, basket_cb
  <2>3. /\ Parent'[box] = item
        /\ \A e \in DOMAIN Parent : Parent'[e] = Parent[e]
    BY <2>2 DEF Emplace
  <2>4. \A e \in DOMAIN Parent : Parent[e] # item
    BY <1>2 DEF RegistryOK, basket
  <2> QED
    BY <2>1, <2>2, <2>3, <2>4 DEF Hierarchy
<1> QED
  BY <1>3, <1>5, <1>6, <1>7, <1>8, <1>9, <1>10 DEF RegistryOK, Hierarchy

LEMMA SpawnFruitsStep ==
  ASSUME RegistryOK, Hierarchy, SpawnFruits
  PROVE  RegistryOK' /\ Hierarchy'
<1>1. CASE UNCHANGED registry
  BY <1>1 DEF RegistryOK, StorageOf, Hierarchy, registry, structure
<1>2. CASE \E spider \in BOOLEAN, vel \in Velocities, xpos \in SpawnColumns :
             Spawn(spider, vel, xpos)
  BY <1>2, SpawnStep
<1> QED
  BY <1>1, <1>2 DEF SpawnFruits

LEMMA HideStep ==
  ASSUME RegistryOK, Hierarchy, NEW S, Hide(S),
         UNCHANGED <<structure, WorldPosition, Collided>>
  PROVE  RegistryOK' /\ Hierarchy'
<1>1. StorageOf(Position, alive)'
  BY Lengths DEF RegistryOK, StorageOf, Hide, Plus, Point, structure
<1> QED
  BY <1>1 DEF RegistryOK, StorageOf, Hierarchy, structure

LEMMA DespawnItemsStep ==
  ASSUME RegistryOK, Hierarchy, DespawnItems
  PROVE  UNCHANGED registry
<1>1. {e \in DOMAIN WorldPosition \cap Item :
         WorldPosition[e].y >= WINDOW_HEIGHT} = {}
  BY DEF Hierarchy
<1>2. Destroy({})
  BY <1>1 DEF DespawnItems
<1> QED
  BY <1>2 DEF Destroy, Restrict, RegistryOK, StorageOf, registry, structure

LEMMA TranslateStep ==
  ASSUME RegistryOK, Hierarchy, TranslatePhysicsObject
  PROVE  RegistryOK' /\ Hierarchy'
<1>1. StorageOf(Position, alive)'
  BY DEF RegistryOK, StorageOf, TranslatePhysicsObject, Plus, Point, structure
<1> QED
  BY <1>1 DEF RegistryOK, StorageOf, Hierarchy, TranslatePhysicsObject,
              structure

LEMMA ParentPlaced ==
  ASSUME RegistryOK
  PROVE  \A e \in DOMAIN Parent : /\ Parent[e] \in {basket} \cup Fruit \cup Spider
                                  /\ Parent[e] \in alive \ {background}
<1>1. {basket} \cup Fruit \cup Spider \subseteq alive \ {background}
  BY DEF RegistryOK, background, basket
<1>2. \A e \in DOMAIN Parent : Parent[e] \in {basket} \cup Fruit \cup Spider
  BY DEF RegistryOK
<1> QED
  BY <1>1, <1>2

LEMMA PropagateStep ==
  ASSUME RegistryOK, Hierarchy, PropagatePosition
  PROVE  RegistryOK' /\ Hierarchy'
<1> DEFINE placed == alive \ {background}
           roots == placed \ DOMAIN Parent
           rooted == [e \in placed |-> IF e \in roots THEN Position[e]
                                                     ELSE WorldPosition[e]]
<1>a. DOMAIN WorldPosition = placed
  BY DEF RegistryOK, StorageOf
<1>b. \A e \in placed : /\ rooted[e] \in [x : Int, y : Int]
                         /\ Position[e] \in [x : Int, y : Int]
  BY DEF RegistryOK, StorageOf
<1>c. \A e \in placed \ roots : Parent[e] \in placed
  BY ParentPlaced
<1>d. WorldPosition' = [e \in placed |-> IF e \in roots
                          THEN rooted[e]
                          ELSE Plus(rooted[Parent[e]], Position[e])]
  BY <1>a DEF PropagatePosition
<1>e. \A e \in placed : WorldPosition'[e] \in [x : Int, y : Int]
  <2> TAKE e \in placed
  <2>1. CASE e \in roots
    BY <2>1, <1>b, <1>d
  <2>2. CASE e \notin roots
    <3>1. WorldPosition'[e] = Plus(rooted[Parent[e]], Position[e])
      BY <2>2, <1>d
    <3>2. rooted[Parent[e]] \in [x : Int, y : Int]
      BY <2>2, <1>b, <1>c
    <3> HIDE DEF rooted
    <3> QED
      BY <1>b, <3>1, <3>2 DEF Plus, Point
  <2> QED
    BY <2>1, <2>2
<1>1. StorageOf(WorldPosition, alive \ {background})'
  <2> HIDE DEF rooted
  <2> QED
    BY <1>d, <1>e DEF StorageOf, PropagatePosition, structure
<1> QED
  BY <1>1 DEF RegistryOK, StorageOf, Hierarchy, PropagatePosition, structure

LEMMA CollisionCheckStep ==
  ASSUME RegistryOK, Hierarchy, CollisionCheck
  PROVE  RegistryOK' /\ Hierarchy'
<1>1. \A e \in HitBoxes : Parent[e] \in Fruit \cup Spider
  BY DEF RegistryOK, Hierarchy, HitBoxes, CollisionBox, background, basket, basket_cb
<1>2. Collided' \subseteq Fruit \cup Spider
  BY <1>1 DEF RegistryOK, CollisionCheck
<1> QED
  BY <1>2 DEF RegistryOK, StorageOf, Hierarchy, CollisionCheck, structure

-----------------------------------------------------------------------------

LEMMA CollectStep ==
  ASSUME TypeOK, NEW S, S \subseteq alive
  PROVE  Cardinality(S) \in Nat
<1>1. IsFiniteSet(0 .. (created - 1))
  BY FS_Interval DEF TypeOK, RegistryOK
<1>2. IsFiniteSet(S)
  BY <1>1, FS_Subset DEF TypeOK, RegistryOK
<1> QED
  BY <1>2, FS_CardinalityType

LEMMA RunLevelStep ==
  ASSUME IInv, RunLevel
  PROVE  IInv'
<1> USE DEF IInv
<1>0. pc' \in Phase /\ UNCHANGED frame
  BY DEF RunLevel, Goto, Phase
<1>1. CASE MoveBasket
  BY <1>0, <1>1, MoveBasketStep DEF MoveBasket, TypeOK, game
<1>2. CASE SpawnFruits
  BY <1>0, <1>2, SpawnFruitsStep DEF SpawnFruits, TypeOK, game
<1>3. CASE CollectFruit
  <2> DEFINE view == DOMAIN Position \cap Fruit \cap Collided
  <2>1. Cardinality(view) \in Nat
    BY CollectStep DEF TypeOK, RegistryOK, StorageOf
  <2>2. score' \in Int
    BY <1>3, <2>1, Amounts DEF CollectFruit, TypeOK
  <2>3. RegistryOK' /\ Hierarchy'
    BY <1>3, HideStep DEF CollectFruit, TypeOK
  <2> QED
    BY <1>0, <1>3, <2>2, <2>3 DEF CollectFruit, TypeOK
<1>4. CASE CollectSpider
  <2> DEFINE view == DOMAIN Position \cap Spider \cap Collided
  <2>1. Cardinality(view) \in Nat
    BY CollectStep DEF TypeOK, RegistryOK, StorageOf
  <2>2. score' \in Int
    BY <1>4, <2>1, Amounts DEF CollectSpider, TypeOK
  <2>3. RegistryOK' /\ Hierarchy'
    BY <1>4, HideStep DEF CollectSpider, TypeOK
  <2> QED
    BY <1>0, <1>4, <2>2, <2>3 DEF CollectSpider, TypeOK
<1>5. CASE DespawnItems
  <2>1. UNCHANGED registry
    BY <1>5, DespawnItemsStep DEF TypeOK
  <2> QED
    BY <1>0, <1>5, <2>1 DEF DespawnItems, TypeOK, RegistryOK, StorageOf,
       Hierarchy, registry, structure, game
<1> QED
  BY <1>1, <1>2, <1>3, <1>4, <1>5 DEF RunLevel

LEMMA RunPhysicsStep ==
  ASSUME IInv, RunPhysics
  PROVE  IInv'
<1> USE DEF IInv
<1>0. pc' \in Phase /\ UNCHANGED <<pressed, game, frame>>
  BY DEF RunPhysics, Goto, Phase
<1>1. CASE TranslatePhysicsObject
  BY <1>0, <1>1, TranslateStep DEF TypeOK, game
<1>2. CASE PropagatePosition
  BY <1>0, <1>2, PropagateStep DEF TypeOK, game
<1>3. CASE RemoveCollisionMarker
  BY <1>0, <1>3 DEF RemoveCollisionMarker, TypeOK, RegistryOK, StorageOf,
     Hierarchy, structure, game
<1>4. CASE CollisionCheck
  BY <1>0, <1>4, CollisionCheckStep DEF TypeOK, game
<1> QED
  BY <1>1, <1>2, <1>3, <1>4 DEF RunPhysics

LEMMA Inductive == IInv /\ [Next]_vars => IInv'
<1> SUFFICES ASSUME IInv, [Next]_vars PROVE IInv'
  OBVIOUS
<1>1. CASE PollInput
  BY <1>1, Amounts DEF PollInput, Goto, Phase, IInv, TypeOK, RegistryOK,
     StorageOf, Hierarchy, registry, structure, game
<1>2. CASE IncrementTicks
  BY <1>2, Amounts DEF IncrementTicks, Goto, Phase, IInv, TypeOK, RegistryOK,
     StorageOf, Hierarchy, registry, structure
<1>3. CASE RunLevel
  BY <1>3, RunLevelStep
<1>4. CASE RunPhysics
  BY <1>4, RunPhysicsStep
<1>5. CASE Render \/ CloseWindow
  BY <1>5 DEF Render, CloseWindow, Goto, Phase, IInv, TypeOK, RegistryOK,
     StorageOf, Hierarchy, registry, structure, game
<1>6. CASE UNCHANGED vars
  BY <1>6 DEF vars, IInv, TypeOK, RegistryOK, StorageOf, Hierarchy, registry,
     structure
<1> QED
  BY <1>1, <1>2, <1>3, <1>4, <1>5, <1>6 DEF Next, Loop, Spin

LEMMA Invariance == Spec => []IInv
<1> QED
  BY InitIInv, Inductive, PTL DEF Spec

\* Whatever the window, the speeds and the draws, each storage of the registry
\* holds exactly the entities the code expects of it.
THEOREM TypeCorrect == Spec => []TypeOK
<1>1. IInv => TypeOK
  BY DEF IInv
<1> QED
  BY <1>1, Invariance, PTL

\* physics.cpp:28 and 60 always dereference a parent that is there.
THEOREM ParentsReadable == Spec => []HierarchySound
<1>1. IInv => HierarchySound
  <2> SUFFICES ASSUME IInv, NEW e \in DOMAIN Parent
               PROVE  /\ Readable(WorldPosition, Parent[e])
                      /\ Parent[e] \notin DOMAIN Parent
    BY DEF HierarchySound, IInv, Hierarchy
  <2>1. /\ Parent[e] \in {basket} \cup Fruit \cup Spider
        /\ Parent[e] \in alive \ {background}
    BY ParentPlaced DEF IInv, TypeOK
  <2>2. Parent[e] \notin DOMAIN Parent
    BY <2>1 DEF IInv, TypeOK, RegistryOK
  <2> QED
    BY <2>1, <2>2 DEF IInv, TypeOK, RegistryOK, StorageOf, Readable
<1> QED
  BY <1>1, Invariance, PTL

-----------------------------------------------------------------------------

\* Every item has its collision box; a box stays where its owner is.
Boxes ==
  /\ \A i \in Fruit \cup Spider : \E e \in DOMAIN Parent : Parent[e] = i
  /\ \A e \in DOMAIN Parent \ {basket_cb} : Position[e] = Point(0, 0)
  /\ Position[basket_cb] = Point(0, BoxOffset)
  /\ Position[basket].y = WINDOW_HEIGHT - BasketHeight

\* An item falls straight down in a column of its own draw, or in that column
\* moved out of the window.
Column == SpawnMargin .. (WINDOW_WIDTH - SpawnMargin)

Columns ==
  \A i \in Fruit \cup Spider :
    /\ Velocity[i].x = 0 /\ Velocity[i].y \in 1 .. MaxVelocity
    /\ \/ Position[i].x \in Column
       \/ Position[i].x - HideShift \in Column

\* The world positions the collision test reads are those of this frame.
Settled ==
  pc \in {"RemoveCollisionMarker", "CollisionCheck"} =>
    \A e \in DOMAIN Parent :
      WorldPosition[e] = Plus(Position[Parent[e]], Position[e])

Unmarked == pc = "CollisionCheck" => Collided = {}

\* Until it is paid for, a marked item has not been paid for.
Unpaid ==
  /\ pc \in {"PollInput", "IncrementTicks", "MoveBasket", "SpawnFruits",
             "CollectFruit"} => \A i \in Collided : ~Hidden(i)
  /\ pc = "CollectSpider" => \A i \in Collided \cap Spider : ~Hidden(i)

FrameInv ==
  /\ IInv
  /\ BasketInWindow
  /\ Boxes
  /\ Columns
  /\ Settled
  /\ Unmarked
  /\ MarkersMatchScreen
  /\ Unpaid

-----------------------------------------------------------------------------

\* What the invariant of the registry says of the entities by name.
LEMMA Entities ==
  ASSUME IInv
  PROVE  /\ DOMAIN Position = alive
         /\ DOMAIN WorldPosition = alive \ {background}
         /\ DOMAIN Velocity = Fruit \cup Spider
         /\ DOMAIN Parent = alive \ ({background, basket} \cup Fruit \cup Spider)
         /\ Fruit \cup Spider \subseteq alive
         /\ {background, basket, basket_cb} \cap (Fruit \cup Spider) = {}
         /\ {background, basket, basket_cb} \subseteq alive
         /\ basket_cb \in DOMAIN Parent /\ Parent[basket_cb] = basket
         /\ \A e \in DOMAIN Parent \ {basket_cb} : Parent[e] \in Fruit \cup Spider
         /\ \A e \in alive : Position[e] \in [x : Int, y : Int]
         /\ Fruit \cap Spider = {}
         /\ Collided \subseteq Fruit \cup Spider
<1>1. basket_cb \in DOMAIN Parent
  BY DEF IInv, TypeOK, RegistryOK, background, basket, basket_cb
<1>2. \A e \in DOMAIN Parent \ {basket_cb} : Parent[e] \in Fruit \cup Spider
  BY <1>1 DEF IInv, TypeOK, RegistryOK, Hierarchy
<1> QED
  BY <1>1, <1>2 DEF IInv, TypeOK, RegistryOK, StorageOf, Hierarchy

\* An item that touches the basket is in the window.
LEMMA TouchingNotHidden ==
  ASSUME FrameInv, NEW i \in Fruit \cup Spider, DrawnTouching(i)
  PROVE  ~Hidden(i)
<1>1. Position[basket].x + Position[basket_cb].x + BasketWidth <= WINDOW_WIDTH
  BY Entities, Lengths DEF FrameInv, BasketInWindow, Boxes, Point
<1>2. Position[i].x <= Position[basket].x + Position[basket_cb].x + BasketWidth
  BY DEF DrawnTouching, Overlap, Plus, Point, BasketBoxSize
<1>3. Position[i].x \in Int /\ Position[basket].x + Position[basket_cb].x \in Int
  BY Entities DEF FrameInv
<1>4. WINDOW_WIDTH < HideShift
  BY LevelAssumption DEF LevelAssumption
<1> QED
  BY <1>1, <1>2, <1>3, <1>4, Lengths DEF Hidden

\* Only the basket moves sideways by the player's hand.
LEMMA ClampInWindow ==
  ASSUME NEW x \in Int
  PROVE  Clamp(x) \in 0 .. (WINDOW_WIDTH - BasketWidth)
<1>1. BasketWidth <= WINDOW_WIDTH
  BY LevelAssumption DEF LevelAssumption
<1> QED
  BY <1>1, Lengths DEF Clamp

-----------------------------------------------------------------------------

LEMMA FrameInit == Init => FrameInv
<1> SUFFICES ASSUME Init PROVE FrameInv
  OBVIOUS
<1> USE DEF Init, LevelInit
<1>1. IInv
  BY InitIInv
<1>2. /\ Position[basket] = Point((WINDOW_WIDTH \div 2) - (BasketWidth \div 2),
                                  WINDOW_HEIGHT - BasketHeight)
      /\ Position[basket_cb] = Point(0, BoxOffset)
  BY DEF background, basket, basket_cb
<1>3. BasketInWindow
  BY <1>2, BasketStart DEF BasketInWindow, Point
<1>4. Boxes
  BY <1>2 DEF Boxes, Point
<1>5. Columns
  BY DEF Columns
<1>6. Settled /\ Unmarked /\ MarkersMatchScreen /\ Unpaid
  BY DEF Settled, Unmarked, MarkersMatchScreen, Unpaid
<1> QED
  BY <1>1, <1>3, <1>4, <1>5, <1>6 DEF FrameInv

\* Steps that leave the registry alone.
LEMMA IdleStep ==
  ASSUME FrameInv, IInv', UNCHANGED registry,
         \/ PollInput \/ IncrementTicks \/ Render \/ CloseWindow
         \/ Goto("DespawnItems", "TranslatePhysicsObject")
         \/ UNCHANGED vars
  PROVE  FrameInv'
<1> USE DEF registry, structure
<1>1. BasketInWindow' /\ Boxes' /\ Columns'
  BY DEF FrameInv, BasketInWindow, Boxes, Columns
<1>2. CASE Render
  <2>1. \A i \in Collided : ~Hidden(i)
    BY <1>2, TouchingNotHidden DEF FrameInv, MarkersMatchScreen, Render, Goto
  <2>2. pc' = "PollInput"
    BY <1>2 DEF Render, Goto
  <2>3. Unpaid'
    BY <2>1, <2>2 DEF Unpaid, Hidden
  <2> QED
    BY <1>1, <2>2, <2>3 DEF FrameInv, Settled, Unmarked, MarkersMatchScreen
<1>3. CASE \/ PollInput \/ IncrementTicks \/ CloseWindow
           \/ Goto("DespawnItems", "TranslatePhysicsObject")
  <2>1. /\ pc' \in {"IncrementTicks", "MoveBasket", "TranslatePhysicsObject",
                    "Halted"}
        /\ pc \in {"PollInput", "IncrementTicks", "DespawnItems"}
        /\ pc = "DespawnItems" => pc' = "TranslatePhysicsObject"
    BY <1>3 DEF PollInput, IncrementTicks, CloseWindow, Goto
  <2>2. Unpaid'
    BY <2>1 DEF FrameInv, Unpaid, Hidden
  <2> QED
    BY <1>1, <2>1, <2>2 DEF FrameInv, Settled, Unmarked, MarkersMatchScreen
<1>4. CASE UNCHANGED vars
  BY <1>1, <1>4 DEF FrameInv, Settled, Unmarked, MarkersMatchScreen, Unpaid,
     Hidden, DrawnTouching, vars
<1> QED
  BY <1>2, <1>3, <1>4

LEMMA FrameMoveBasket ==
  ASSUME FrameInv, IInv', Goto("MoveBasket", "SpawnFruits"), MoveBasket
  PROVE  FrameInv'
<1> USE Entities DEF FrameInv
<1>1. Position' = [Position EXCEPT ![basket].x = Clamp(Steer(@))]
  BY DEF MoveBasket
<1>2. /\ Position'[basket].x = Clamp(Steer(Position[basket].x))
      /\ Position'[basket].y = Position[basket].y
      /\ \A e \in alive \ {basket} : Position'[e] = Position[e]
  BY <1>1
<1>3. Steer(Position[basket].x) \in Int
  BY Lengths DEF Steer
<1>4. BasketInWindow'
  BY <1>2, <1>3, ClampInWindow DEF BasketInWindow
<1>5. Boxes'
  BY <1>2 DEF Boxes, MoveBasket, structure, background, basket, basket_cb
<1>6. Columns'
  BY <1>2 DEF Columns, MoveBasket, structure
<1>7. Unpaid'
  BY <1>2 DEF Unpaid, MoveBasket, structure, Hidden, Goto
<1> QED
  BY <1>4, <1>5, <1>6, <1>7 DEF Settled, Unmarked, MarkersMatchScreen, Goto

\* A new item and its box are new entities; no other moves.
LEMMA SpawnLocal ==
  ASSUME IInv, NEW spider \in BOOLEAN, NEW vel \in Velocities,
         NEW xpos \in SpawnColumns, Spawn(spider, vel, xpos)
  PROVE  /\ created \notin alive /\ created + 1 \notin alive /\ created # created + 1
         /\ Position'[created] = Point(xpos, 0 - SpawnRise)
         /\ Position'[created].x = xpos /\ Position'[created].y = 0 - SpawnRise
         /\ Position'[created + 1] = Point(0, 0)
         /\ \A e \in alive : Position'[e] = Position[e]
         /\ Fruit' \cup Spider' = Fruit \cup Spider \cup {created}
<1>1. created \notin alive /\ created + 1 \notin alive /\ created # created + 1
  BY DEF IInv, TypeOK, RegistryOK
<1>2. /\ Position'[created] = Point(xpos, 0 - SpawnRise)
      /\ Position'[created + 1] = Point(0, 0)
      /\ \A e \in alive : Position'[e] = Position[e]
  BY <1>1, Entities DEF Spawn, SpawnUnder, Emplace
<1>3. Position'[created].x = xpos /\ Position'[created].y = 0 - SpawnRise
  BY <1>2 DEF Point
<1>4. Fruit' \cup Spider' = Fruit \cup Spider \cup {created}
  BY DEF Spawn, SpawnUnder
<1> QED
  BY <1>1, <1>2, <1>3, <1>4

LEMMA FrameSpawn ==
  ASSUME FrameInv, IInv', Goto("SpawnFruits", "CollectFruit"), SpawnFruits
  PROVE  FrameInv'
<1> USE Entities DEF FrameInv
<1>1. CASE UNCHANGED registry
  <2> USE DEF registry, structure
  <2>1. Unpaid'
    BY <1>1 DEF Unpaid, Hidden, Goto
  <2> QED
    BY <1>1, <2>1 DEF Settled, Unmarked, MarkersMatchScreen, Goto,
       BasketInWindow, Boxes, Columns
<1>2. ASSUME NEW spider \in BOOLEAN, NEW vel \in Velocities,
             NEW xpos \in SpawnColumns, Spawn(spider, vel, xpos)
      PROVE  FrameInv'
  <2> DEFINE item == created
             box == created + 1
  <2>1. item \notin alive /\ box \notin alive /\ item # box
    BY <1>2, SpawnLocal
  <2>2. /\ Position'[item] = Point(xpos, 0 - SpawnRise)
        /\ Position'[box] = Point(0, 0)
        /\ \A e \in alive : Position'[e] = Position[e]
    BY <1>2, SpawnLocal
  <2>3. /\ Fruit' \cup Spider' = Fruit \cup Spider \cup {item}
        /\ Collided' = Collided
    BY <1>2, SpawnLocal DEF Spawn, SpawnUnder
  <2>4. /\ DOMAIN Parent' = DOMAIN Parent \cup {box}
        /\ Parent'[box] = item
        /\ \A e \in DOMAIN Parent : Parent'[e] = Parent[e]
    BY <1>2, <2>1 DEF Spawn, SpawnUnder, Emplace
  <2>5. /\ Velocity'[item] = Point(0, vel)
        /\ \A i \in Fruit \cup Spider : Velocity'[i] = Velocity[i]
    BY <1>2, <2>1 DEF Spawn, SpawnUnder, Emplace
  <2>6. xpos \in Column /\ vel \in 1 .. MaxVelocity
    BY LevelAssumption DEF LevelAssumption, Column
  <2>7. BasketInWindow'
    BY <2>2 DEF BasketInWindow
  <2>8. Boxes'
    <3>1. \A i \in Fruit' \cup Spider' : \E e \in DOMAIN Parent' : Parent'[e] = i
      BY <2>3, <2>4 DEF Boxes
    <3>2. \A e \in DOMAIN Parent' \ {basket_cb} : Position'[e] = Point(0, 0)
      BY <2>2, <2>4 DEF Boxes
    <3> QED
      BY <2>2, <3>1, <3>2 DEF Boxes
  <2>9. Columns'
    BY <2>2, <2>3, <2>5, <2>6 DEF Columns, Point
  <2>10. Unpaid'
    BY <2>2, <2>3 DEF Unpaid, Hidden, Goto
  <2> QED
    BY <2>7, <2>8, <2>9, <2>10 DEF Settled, Unmarked, MarkersMatchScreen, Goto
<1> QED
  BY <1>1, <1>2 DEF SpawnFruits

\* Moving items of S that are not hidden yet hides exactly these.
LEMMA HideFresh ==
  ASSUME FrameInv, NEW S, S \subseteq Fruit \cup Spider, \A i \in S : ~Hidden(i),
         Hide(S), UNCHANGED <<structure, WorldPosition, Collided>>
  PROVE  /\ BasketInWindow' /\ Boxes' /\ Columns'
         /\ \A i \in S : Hidden(i)'
         /\ \A i \in (Fruit \cup Spider) \ S : Hidden(i)' = Hidden(i)
<1> USE Entities DEF FrameInv
<1>1. /\ \A e \in alive \ S : Position'[e] = Position[e]
      /\ \A e \in S : Position'[e].x = Position[e].x + HideShift
  BY DEF Hide, Plus, Point
<1>2. Fruit' = Fruit /\ Spider' = Spider /\ Velocity' = Velocity /\ Parent' = Parent
  BY DEF structure
<1>3. BasketInWindow'
  BY <1>1 DEF BasketInWindow
<1>4. Boxes'
  BY <1>1, <1>2 DEF Boxes
<1>5. \A i \in S : Position[i].x \in Column
  BY Lengths DEF Columns, Column, Hidden
<1>6. Columns'
  BY <1>1, <1>2, <1>5, Lengths DEF Columns, Column
<1>7. \A i \in S : Hidden(i)'
  BY <1>1, <1>5, Lengths DEF Hidden, Column
<1>8. \A i \in (Fruit \cup Spider) \ S : Hidden(i)' = Hidden(i)
  BY <1>1 DEF Hidden
<1> QED
  BY <1>3, <1>4, <1>6, <1>7, <1>8

LEMMA FrameCollectFruit ==
  ASSUME FrameInv, IInv', Goto("CollectFruit", "CollectSpider"), CollectFruit
  PROVE  FrameInv'
<1> DEFINE view == DOMAIN Position \cap Fruit \cap Collided
<1>1. view \subseteq Fruit \cup Spider /\ \A i \in view : ~Hidden(i)
  BY DEF FrameInv, Unpaid, Goto
<1>2. Hide(view) /\ UNCHANGED <<structure, WorldPosition, Collided>>
  BY DEF CollectFruit
<1>3. /\ BasketInWindow' /\ Boxes' /\ Columns'
      /\ \A i \in (Fruit \cup Spider) \ view : Hidden(i)' = Hidden(i)
  BY <1>1, <1>2, HideFresh
<1>4. Unpaid'
  <2>1. \A i \in Collided \cap Spider : ~Hidden(i) /\ i \in (Fruit \cup Spider) \ view
    BY Entities DEF FrameInv, Unpaid, Goto
  <2>2. \A i \in Collided \cap Spider : ~(Hidden(i)')
    BY <1>3, <2>1
  <2> QED
    BY <1>2, <2>2 DEF Unpaid, Goto, structure
<1> QED
  BY <1>3, <1>4 DEF FrameInv, Settled, Unmarked, MarkersMatchScreen, Goto

LEMMA FrameCollectSpider ==
  ASSUME FrameInv, IInv', CollectSpider,
         NEW next \in {"DespawnItems", "TranslatePhysicsObject"},
         Goto("CollectSpider", next)
  PROVE  FrameInv'
<1> DEFINE view == DOMAIN Position \cap Spider \cap Collided
<1>1. view \subseteq Fruit \cup Spider /\ \A i \in view : ~Hidden(i)
  BY DEF FrameInv, Unpaid, Goto
<1>2. Hide(view) /\ UNCHANGED <<structure, WorldPosition, Collided>>
  BY DEF CollectSpider
<1>3. BasketInWindow' /\ Boxes' /\ Columns'
  BY <1>1, <1>2, HideFresh
<1> QED
  BY <1>3 DEF FrameInv, Settled, Unmarked, MarkersMatchScreen, Unpaid, Goto

LEMMA FrameTranslate ==
  ASSUME FrameInv, IInv', TranslatePhysicsObject,
         Goto("TranslatePhysicsObject", "PropagatePosition")
  PROVE  FrameInv'
<1> USE Entities DEF FrameInv
<1>1. /\ \A e \in alive \ (Fruit \cup Spider) : Position'[e] = Position[e]
      /\ \A i \in Fruit \cup Spider : Position'[i].x = Position[i].x
  BY DEF TranslatePhysicsObject, Plus, Point, Columns
<1>2. UNCHANGED structure
  BY DEF TranslatePhysicsObject
<1>3. BasketInWindow'
  BY <1>1 DEF BasketInWindow
<1>4. Boxes'
  BY <1>1, <1>2 DEF Boxes, structure
<1>5. Columns'
  BY <1>1, <1>2 DEF Columns, structure
<1> QED
  BY <1>3, <1>4, <1>5 DEF Settled, Unmarked, MarkersMatchScreen, Unpaid, Goto

LEMMA FramePropagate ==
  ASSUME FrameInv, IInv', PropagatePosition,
         Goto("PropagatePosition", "RemoveCollisionMarker")
  PROVE  FrameInv'
<1> USE Entities DEF FrameInv
<1>1. UNCHANGED <<structure, Position, Collided>>
  BY DEF PropagatePosition
<1>2. BasketInWindow' /\ Boxes' /\ Columns'
  BY <1>1 DEF BasketInWindow, Boxes, Columns, structure
<1>3. \A e \in DOMAIN Parent :
        WorldPosition'[e] = Plus(Position[Parent[e]], Position[e])
  <2> TAKE e \in DOMAIN Parent
  <2>1. /\ e \in DOMAIN WorldPosition
        /\ Parent[e] \in DOMAIN WorldPosition \ DOMAIN Parent
    BY ParentPlaced DEF IInv, TypeOK
  <2> QED
    BY <2>1 DEF PropagatePosition
<1>4. Settled'
  BY <1>1, <1>3 DEF Settled, structure
<1> QED
  BY <1>2, <1>4 DEF Unmarked, MarkersMatchScreen, Unpaid, Goto

LEMMA FrameRemove ==
  ASSUME FrameInv, IInv', RemoveCollisionMarker,
         Goto("RemoveCollisionMarker", "CollisionCheck")
  PROVE  FrameInv'
<1> USE DEF FrameInv
<1>1. UNCHANGED <<structure, Position, WorldPosition>> /\ Collided' = {}
  BY DEF RemoveCollisionMarker
<1> QED
  BY <1>1 DEF BasketInWindow, Boxes, Columns, Settled, Unmarked,
     MarkersMatchScreen, Unpaid, Goto, structure

\* The boxes the pass finds are those of the items drawn over the basket.
LEMMA HitIsDrawn ==
  ASSUME FrameInv, pc = "CollisionCheck"
  PROVE  {Parent[e] : e \in HitBoxes} = {i \in Fruit \cup Spider : DrawnTouching(i)}
<1> USE Entities DEF FrameInv
<1>1. WorldPosition[basket_cb] = Plus(Position[basket], Position[basket_cb])
  BY DEF Settled
<1>2. ASSUME NEW e \in DOMAIN Parent \ {basket_cb}
      PROVE  /\ Parent[e] \in Fruit \cup Spider
             /\ e \in HitBoxes <=> DrawnTouching(Parent[e])
  <2>1. Parent[e] \in Fruit \cup Spider
    OBVIOUS
  <2>2. WorldPosition[e] = Plus(Position[Parent[e]], Point(0, 0))
    BY DEF Settled, Boxes
  <2>3. /\ WorldPosition[e].x = Position[Parent[e]].x
        /\ WorldPosition[e].y = Position[Parent[e]].y
    BY <2>1, <2>2 DEF Plus, Point
  <2> QED
    BY <1>1, <2>1, <2>3 DEF HitBoxes, CollisionBox, DrawnTouching, Overlap
<1>3. HitBoxes \subseteq DOMAIN Parent \ {basket_cb}
  BY DEF HitBoxes, CollisionBox
<1>4. \A i \in Fruit \cup Spider : \E e \in DOMAIN Parent \ {basket_cb} : Parent[e] = i
  BY DEF Boxes
<1> QED
  BY <1>2, <1>3, <1>4

LEMMA FrameCollisionCheck ==
  ASSUME FrameInv, IInv', CollisionCheck, Goto("CollisionCheck", "Render")
  PROVE  FrameInv'
<1> USE DEF FrameInv
<1>1. UNCHANGED <<structure, Position, WorldPosition>>
  BY DEF CollisionCheck
<1>2. BasketInWindow' /\ Boxes' /\ Columns'
  BY <1>1 DEF BasketInWindow, Boxes, Columns, structure
<1>3. Collided' = {i \in Fruit \cup Spider : DrawnTouching(i)}
  BY HitIsDrawn DEF CollisionCheck, Unmarked, Goto
<1>4. MarkersMatchScreen'
  BY <1>1, <1>3 DEF MarkersMatchScreen, DrawnTouching, structure
<1> QED
  BY <1>2, <1>4 DEF Settled, Unmarked, Unpaid, Goto

LEMMA FrameInductive == FrameInv /\ [Next]_vars => FrameInv'
<1> SUFFICES ASSUME FrameInv, [Next]_vars PROVE FrameInv'
  OBVIOUS
<1>0. IInv'
  BY Inductive DEF FrameInv
<1>1. CASE PollInput \/ IncrementTicks \/ Render \/ CloseWindow \/ UNCHANGED vars
  BY <1>0, <1>1, IdleStep DEF PollInput, IncrementTicks, Render, CloseWindow,
     vars
<1>2. CASE RunLevel
  <2>1. CASE Goto("MoveBasket", "SpawnFruits") /\ MoveBasket
    BY <1>0, <2>1, FrameMoveBasket
  <2>2. CASE Goto("SpawnFruits", "CollectFruit") /\ SpawnFruits
    BY <1>0, <2>2, FrameSpawn
  <2>3. CASE Goto("CollectFruit", "CollectSpider") /\ CollectFruit
    BY <1>0, <2>3, FrameCollectFruit
  <2>4. CASE /\ Goto("CollectSpider", IF CallsDespawnItems
                                        THEN "DespawnItems"
                                        ELSE "TranslatePhysicsObject")
             /\ CollectSpider
    BY <1>0, <2>4, FrameCollectSpider
  <2>5. CASE Goto("DespawnItems", "TranslatePhysicsObject") /\ DespawnItems
    <3>1. UNCHANGED registry
      BY <2>5, DespawnItemsStep DEF FrameInv, IInv, TypeOK
    <3> QED
      BY <1>0, <2>5, <3>1, IdleStep
  <2> QED
    BY <1>2, <2>1, <2>2, <2>3, <2>4, <2>5 DEF RunLevel
<1>3. CASE RunPhysics
  BY <1>0, <1>3, FrameTranslate, FramePropagate, FrameRemove,
     FrameCollisionCheck DEF RunPhysics
<1> QED
  BY <1>1, <1>2, <1>3 DEF Next, Loop, Spin

LEMMA FrameInvariance == Spec => []FrameInv
  BY FrameInit, FrameInductive, PTL DEF Spec

-----------------------------------------------------------------------------

\* What is marked when a frame is drawn is what the player sees touch the
\* basket, whatever the sizes and speeds.
THEOREM MarkersFaithful == Spec => []MarkersMatchScreen
<1>1. FrameInv => MarkersMatchScreen
  BY DEF FrameInv
<1> QED
  BY <1>1, FrameInvariance, PTL

\* The clamp keeps the basket in the window for every speed.
THEOREM BasketStays == Spec => []BasketInWindow
<1>1. FrameInv => BasketInWindow
  BY DEF FrameInv
<1> QED
  BY <1>1, FrameInvariance, PTL

\* emplace<Collided> never meets an entity that has the component.
THEOREM EmplaceSound == Spec => []EmplaceFresh
<1>1. FrameInv => EmplaceFresh
  <2> SUFFICES ASSUME FrameInv, pc = "CollisionCheck", NEW e \in HitBoxes
               PROVE  /\ Parent[e] \in alive \ Collided
                      /\ \A f \in HitBoxes : Parent[e] = Parent[f] => e = f
    BY DEF EmplaceFresh
  <2>1. HitBoxes \subseteq DOMAIN Parent \ {basket_cb}
    BY DEF HitBoxes, CollisionBox
  <2>2. Parent[e] \in alive /\ Collided = {}
    BY <2>1, Entities DEF FrameInv, Unmarked
  <2> QED
    BY <2>1, <2>2 DEF FrameInv, IInv, Hierarchy
<1> QED
  BY <1>1, FrameInvariance, PTL

-----------------------------------------------------------------------------
(***************************************************************************)
(* The counters of a game - the score, the clock, the fall of the items -  *)
(* that the frame loop implements the match, and the bound on the registry *)
(* that the finite set of items of the match rests on.                     *)
(***************************************************************************)

LEMMA FiniteItems ==
  ASSUME IInv, NEW S, S \subseteq Fruit \cup Spider
  PROVE  IsFiniteSet(S) /\ Cardinality(S) \in Nat
<1>1. IsFiniteSet(0 .. (created - 1))
  BY FS_Interval DEF IInv, TypeOK, RegistryOK
<1>2. S \subseteq 0 .. (created - 1)
  BY DEF IInv, TypeOK, RegistryOK
<1> QED
  BY <1>1, <1>2, FS_Subset, FS_CardinalityType

LEMMA DisjointCount ==
  ASSUME NEW S, NEW T, IsFiniteSet(S), IsFiniteSet(T), S \cap T = {}
  PROVE  Cardinality(S \cup T) = Cardinality(S) + Cardinality(T)
<1>1. Cardinality(S \cap T) = 0
  BY FS_EmptySet
<1>2. Cardinality(S) \in Nat /\ Cardinality(T) \in Nat
  BY FS_CardinalityType
<1>3. Cardinality(S \cup T) = Cardinality(S) + Cardinality(T) - Cardinality(S \cap T)
  BY FS_Union
<1> QED
  BY <1>1, <1>2, <1>3

LEMMA Distributes == \A p, m, n \in Int : p * (m + n) = p * m + p * n
OBVIOUS

-----------------------------------------------------------------------------

HiddenOf(S) == {i \in S : Hidden(i)}

\* Paying a kind of item p points each, while the other kind stays as it is.
LEMMA Pays ==
  ASSUME FrameInv, NEW kind, NEW S, kind \in {Fruit, Spider},
         S \subseteq kind, \A i \in S : ~Hidden(i), Hide(S),
         UNCHANGED <<structure, WorldPosition, Collided>>
  PROVE  /\ {i \in kind : Hidden(i)'} = HiddenOf(kind) \cup S
         /\ Cardinality(HiddenOf(kind) \cup S)
              = Cardinality(HiddenOf(kind)) + Cardinality(S)
         /\ \A i \in (Fruit \cup Spider) \ kind : Hidden(i)' = Hidden(i)
<1>1. S \subseteq Fruit \cup Spider /\ kind \subseteq Fruit \cup Spider
  OBVIOUS
<1>2. /\ \A i \in S : Hidden(i)'
      /\ \A i \in (Fruit \cup Spider) \ S : Hidden(i)' = Hidden(i)
  BY <1>1, HideFresh
<1>3. {i \in kind : Hidden(i)'} = HiddenOf(kind) \cup S
  BY <1>1, <1>2 DEF HiddenOf
<1>4. IsFiniteSet(S) /\ IsFiniteSet(HiddenOf(kind))
  BY <1>1, FiniteItems DEF FrameInv, HiddenOf
<1>5. Cardinality(HiddenOf(kind) \cup S)
        = Cardinality(HiddenOf(kind)) + Cardinality(S)
  BY <1>4, DisjointCount DEF HiddenOf
<1> QED
  BY <1>1, <1>2, <1>3, <1>5

LEMMA LedgerFruit ==
  ASSUME FrameInv, ScoreLedger, pc = "CollectFruit", CollectFruit
  PROVE  ScoreLedger'
<1> DEFINE view == DOMAIN Position \cap Fruit \cap Collided
<1>1. view \subseteq Fruit /\ \A i \in view : ~Hidden(i)
  BY DEF FrameInv, Unpaid
<1>2. Hide(view) /\ UNCHANGED <<structure, WorldPosition, Collided>>
  BY DEF CollectFruit
<1> HIDE DEF view
<1>3. /\ {i \in Fruit : Hidden(i)'} = HiddenOf(Fruit) \cup view
      /\ Cardinality(HiddenOf(Fruit) \cup view)
           = Cardinality(HiddenOf(Fruit)) + Cardinality(view)
      /\ \A i \in (Fruit \cup Spider) \ Fruit : Hidden(i)' = Hidden(i)
  BY <1>1, <1>2, Pays
<1>4. Fruit' = Fruit /\ Spider' = Spider
  BY <1>2 DEF structure
<1>5. {i \in Spider : Hidden(i)'} = HiddenOf(Spider)
  BY <1>3, Entities DEF FrameInv, HiddenOf
<1>6. /\ Cardinality(HiddenOf(Fruit)) \in Nat
      /\ Cardinality(HiddenOf(Spider)) \in Nat
      /\ Cardinality(view) \in Nat
  BY <1>1, FiniteItems DEF FrameInv, HiddenOf
<1>7. score' = FruitPoints * Cardinality(HiddenOf(Fruit))
                 - SpiderPoints * Cardinality(HiddenOf(Spider))
                 + FruitPoints * Cardinality(view)
  BY DEF CollectFruit, ScoreLedger, HiddenOf, view
<1>8. FruitPoints * (Cardinality(HiddenOf(Fruit)) + Cardinality(view))
        = FruitPoints * Cardinality(HiddenOf(Fruit)) + FruitPoints * Cardinality(view)
  BY <1>6, Amounts, Distributes
<1>9. /\ FruitPoints * Cardinality(HiddenOf(Fruit)) \in Int
      /\ SpiderPoints * Cardinality(HiddenOf(Spider)) \in Int
      /\ FruitPoints * Cardinality(view) \in Int
  BY <1>6, Amounts
<1>10. score' = FruitPoints * Cardinality(HiddenOf(Fruit) \cup view)
                  - SpiderPoints * Cardinality(HiddenOf(Spider))
  BY <1>3, <1>7, <1>8, <1>9
<1> QED
  BY <1>3, <1>4, <1>5, <1>10 DEF ScoreLedger

LEMMA LedgerSpider ==
  ASSUME FrameInv, ScoreLedger, pc = "CollectSpider", CollectSpider
  PROVE  ScoreLedger'
<1> DEFINE view == DOMAIN Position \cap Spider \cap Collided
<1>1. view \subseteq Spider /\ \A i \in view : ~Hidden(i)
  BY DEF FrameInv, Unpaid
<1>2. Hide(view) /\ UNCHANGED <<structure, WorldPosition, Collided>>
  BY DEF CollectSpider
<1> HIDE DEF view
<1>3. /\ {i \in Spider : Hidden(i)'} = HiddenOf(Spider) \cup view
      /\ Cardinality(HiddenOf(Spider) \cup view)
           = Cardinality(HiddenOf(Spider)) + Cardinality(view)
      /\ \A i \in (Fruit \cup Spider) \ Spider : Hidden(i)' = Hidden(i)
  BY <1>1, <1>2, Pays
<1>4. Fruit' = Fruit /\ Spider' = Spider
  BY <1>2 DEF structure
<1>5. {i \in Fruit : Hidden(i)'} = HiddenOf(Fruit)
  BY <1>3, Entities DEF FrameInv, HiddenOf
<1>6. /\ Cardinality(HiddenOf(Fruit)) \in Nat
      /\ Cardinality(HiddenOf(Spider)) \in Nat
      /\ Cardinality(view) \in Nat
  BY <1>1, FiniteItems DEF FrameInv, HiddenOf
<1>7. score' = FruitPoints * Cardinality(HiddenOf(Fruit))
                 - SpiderPoints * Cardinality(HiddenOf(Spider))
                 - SpiderPoints * Cardinality(view)
  BY DEF CollectSpider, ScoreLedger, HiddenOf, view
<1>8. SpiderPoints * (Cardinality(HiddenOf(Spider)) + Cardinality(view))
        = SpiderPoints * Cardinality(HiddenOf(Spider)) + SpiderPoints * Cardinality(view)
  BY <1>6, Amounts, Distributes
<1>9. /\ FruitPoints * Cardinality(HiddenOf(Fruit)) \in Int
      /\ SpiderPoints * Cardinality(HiddenOf(Spider)) \in Int
      /\ SpiderPoints * Cardinality(view) \in Int
  BY <1>6, Amounts
<1>10. score' = FruitPoints * Cardinality(HiddenOf(Fruit))
                  - SpiderPoints * Cardinality(HiddenOf(Spider) \cup view)
  BY <1>3, <1>7, <1>8, <1>9
<1> QED
  BY <1>3, <1>4, <1>5, <1>10 DEF ScoreLedger

\* Steps that neither hide an item nor touch the score.
LEMMA LedgerIdle ==
  ASSUME FrameInv, ScoreLedger, score' = score, Fruit' = Fruit, Spider' = Spider,
         \A i \in Fruit \cup Spider : Position'[i].x = Position[i].x
  PROVE  ScoreLedger'
<1>1. /\ {i \in Fruit' : Hidden(i)'} = {i \in Fruit : Hidden(i)}
      /\ {i \in Spider' : Hidden(i)'} = {i \in Spider : Hidden(i)}
  BY DEF Hidden
<1> QED
  BY <1>1 DEF ScoreLedger

LEMMA LedgerSpawn ==
  ASSUME FrameInv, ScoreLedger, SpawnFruits
  PROVE  ScoreLedger'
<1>0. score' = score
  BY DEF SpawnFruits, game
<1>1. CASE UNCHANGED registry
  BY <1>0, <1>1, LedgerIdle DEF registry, structure
<1>2. ASSUME NEW spider \in BOOLEAN, NEW vel \in Velocities,
             NEW xpos \in SpawnColumns, Spawn(spider, vel, xpos)
      PROVE  ScoreLedger'
  <2>2. /\ Position'[created].x = xpos
        /\ \A e \in alive : Position'[e] = Position[e]
    BY <1>2, SpawnLocal DEF FrameInv
  <2>3. ~(xpos >= HideShift)
    BY LevelAssumption, Lengths DEF LevelAssumption
  <2>4. /\ Fruit' \subseteq Fruit \cup {created} /\ Fruit \subseteq Fruit'
        /\ Spider' \subseteq Spider \cup {created} /\ Spider \subseteq Spider'
        /\ Fruit \cup Spider \subseteq alive
    BY <1>2, Entities DEF Spawn, SpawnUnder, FrameInv
  <2>5. /\ {i \in Fruit' : Hidden(i)'} = {i \in Fruit : Hidden(i)}
        /\ {i \in Spider' : Hidden(i)'} = {i \in Spider : Hidden(i)}
    BY <2>2, <2>3, <2>4 DEF Hidden
  <2> QED
    BY <1>0, <2>5 DEF ScoreLedger
<1> QED
  BY <1>1, <1>2 DEF SpawnFruits

LEMMA LedgerInductive ==
  FrameInv /\ ScoreLedger /\ [Next]_vars => ScoreLedger'
<1> SUFFICES ASSUME FrameInv, ScoreLedger, [Next]_vars PROVE ScoreLedger'
  OBVIOUS
<1>1. CASE PollInput \/ IncrementTicks \/ Render \/ CloseWindow \/ UNCHANGED vars
  BY <1>1, LedgerIdle DEF PollInput, IncrementTicks, Render, CloseWindow, vars,
     registry, structure, game
<1>2. CASE RunLevel
  <2>1. CASE MoveBasket
    <3>1. \A i \in Fruit \cup Spider : Position'[i].x = Position[i].x
      BY <2>1, Entities DEF MoveBasket, FrameInv
    <3> QED
      BY <2>1, <3>1, LedgerIdle DEF MoveBasket, structure, game
  <2>2. CASE SpawnFruits
    BY <2>2, LedgerSpawn
  <2>3. CASE pc = "CollectFruit" /\ CollectFruit
    BY <2>3, LedgerFruit
  <2>4. CASE pc = "CollectSpider" /\ CollectSpider
    BY <2>4, LedgerSpider
  <2>5. CASE DespawnItems
    <3>1. UNCHANGED registry
      BY <2>5, DespawnItemsStep DEF FrameInv, IInv, TypeOK
    <3> QED
      BY <2>5, <3>1, LedgerIdle DEF DespawnItems, registry, structure, game
  <2> QED
    BY <1>2, <2>1, <2>2, <2>3, <2>4, <2>5 DEF RunLevel, Goto
<1>3. CASE RunPhysics
  <2>1. \A i \in Fruit \cup Spider : Position'[i].x = Position[i].x
    <3>1. CASE TranslatePhysicsObject
      BY <3>1, Entities DEF TranslatePhysicsObject, Plus, Point, FrameInv, Columns
    <3>2. CASE UNCHANGED Position
      BY <3>2
    <3> QED
      BY <1>3, <3>1, <3>2 DEF RunPhysics, PropagatePosition,
         RemoveCollisionMarker, CollisionCheck
  <2> QED
    BY <1>3, <2>1, LedgerIdle DEF RunPhysics, TranslatePhysicsObject,
       PropagatePosition, RemoveCollisionMarker, CollisionCheck, structure, game
<1> QED
  BY <1>1, <1>2, <1>3 DEF Next, Loop, Spin

\* The score is what the collected items are worth, each counted once.
THEOREM EachPaidOnce == Spec => []ScoreLedger
<1>1. Init => ScoreLedger
  <2> SUFFICES ASSUME Init PROVE ScoreLedger
    OBVIOUS
  <2>1. /\ {i \in Fruit : Hidden(i)} = {} /\ {i \in Spider : Hidden(i)} = {}
        /\ score = 0
    BY DEF Init, LevelInit
  <2> QED
    BY <2>1, FS_EmptySet, Amounts DEF ScoreLedger
<1> QED
  BY <1>1, FrameInvariance, LedgerInductive, PTL DEF Spec

-----------------------------------------------------------------------------

\* Frames whose fall is already in the positions.
Drawn == IF pc \in LevelPhase \cup {"TranslatePhysicsObject"} THEN frame - 1 ELSE frame

Fallen ==
  /\ Drawn \in Nat
  /\ \A i \in Fruit \cup Spider : Position[i].y <= MaxVelocity * Drawn - SpawnRise

LEMMA FallenInductive == FrameInv /\ Fallen /\ [Next]_vars => Fallen'
<1> SUFFICES ASSUME FrameInv, Fallen, [Next]_vars PROVE Fallen'
  OBVIOUS
<1>0. frame \in Nat /\ MaxVelocity * Drawn \in Nat
  BY Lengths, Amounts DEF FrameInv, IInv, TypeOK, Fallen
<1>1. CASE /\ Drawn' = Drawn /\ Fruit' = Fruit /\ Spider' = Spider
           /\ \A i \in Fruit \cup Spider : Position'[i].y = Position[i].y
  BY <1>1 DEF Fallen
<1>2. CASE PollInput \/ IncrementTicks \/ Render \/ CloseWindow \/ UNCHANGED vars
  <2>1. Drawn' = Drawn
    BY <1>0, <1>2 DEF PollInput, IncrementTicks, Render, CloseWindow, Goto,
       LevelPhase, Drawn, vars
  <2> QED
    BY <1>1, <1>2, <2>1 DEF PollInput, IncrementTicks, Render, CloseWindow, vars,
       registry, structure
<1>3. CASE RunLevel
  <2>0. Drawn' = Drawn
    BY <1>3 DEF RunLevel, Goto, LevelPhase, Drawn
  <2>1. CASE MoveBasket \/ CollectFruit \/ CollectSpider
    <3>1. \A i \in Fruit \cup Spider : Position'[i].y = Position[i].y
      BY <2>1, Entities DEF MoveBasket, CollectFruit, CollectSpider, Hide, Plus,
         Point, FrameInv
    <3> QED
      BY <1>1, <2>0, <2>1, <3>1 DEF MoveBasket, CollectFruit, CollectSpider,
         structure
  <2>2. CASE SpawnFruits
    <3>1. CASE UNCHANGED registry
      BY <1>1, <2>0, <3>1 DEF registry, structure
    <3>2. ASSUME NEW spider \in BOOLEAN, NEW vel \in Velocities,
                 NEW xpos \in SpawnColumns, Spawn(spider, vel, xpos)
          PROVE  Fallen'
      <4>2. /\ Position'[created].y = 0 - SpawnRise
            /\ \A e \in alive : Position'[e] = Position[e]
            /\ Fruit' \cup Spider' = Fruit \cup Spider \cup {created}
        BY <3>2, SpawnLocal DEF FrameInv
      <4>3. \A i \in Fruit \cup Spider :
              Position'[i].y <= MaxVelocity * Drawn - SpawnRise
        BY <4>2, Entities DEF Fallen, FrameInv
      <4>4. 0 - SpawnRise <= MaxVelocity * Drawn - SpawnRise
        BY <1>0, Lengths
      <4> QED
        BY <2>0, <4>2, <4>3, <4>4 DEF Fallen
    <3> QED
      BY <2>2, <3>1, <3>2 DEF SpawnFruits
  <2>3. CASE DespawnItems
    <3>1. UNCHANGED registry
      BY <2>3, DespawnItemsStep DEF FrameInv, IInv, TypeOK
    <3> QED
      BY <1>1, <2>0, <3>1 DEF registry, structure
  <2> QED
    BY <1>3, <2>1, <2>2, <2>3 DEF RunLevel
<1>4. CASE Goto("TranslatePhysicsObject", "PropagatePosition")
           /\ TranslatePhysicsObject /\ UNCHANGED frame
  <2>1. Drawn' = Drawn + 1
    BY <1>0, <1>4 DEF Goto, Drawn, LevelPhase
  <2>2. MaxVelocity * (Drawn + 1) = MaxVelocity * Drawn + MaxVelocity
    BY Lengths, Distributes DEF Fallen
  <2>3. Fruit' = Fruit /\ Spider' = Spider
    BY <1>4 DEF TranslatePhysicsObject, structure
  <2>4. ASSUME NEW i \in Fruit \cup Spider
        PROVE  Position'[i].y <= MaxVelocity * Drawn' - SpawnRise
    <3>1. Position'[i].y = Position[i].y + Velocity[i].y
      BY <1>4, Entities DEF TranslatePhysicsObject, Plus, Point, FrameInv
    <3>2. Velocity[i].y \in 1 .. MaxVelocity /\ Position[i].y \in Int
      BY Entities DEF FrameInv, Columns
    <3>3. Position[i].y <= MaxVelocity * Drawn - SpawnRise
      BY DEF Fallen
    <3> QED
      BY <1>0, <2>1, <2>2, <3>1, <3>2, <3>3, Lengths
  <2> QED
    BY <2>1, <2>3, <2>4 DEF Fallen
<1>5. CASE RunPhysics /\ UNCHANGED Position
  <2>1. CASE pc = "TranslatePhysicsObject"
    BY <1>4, <1>5, <2>1 DEF RunPhysics, Goto
  <2>2. CASE pc # "TranslatePhysicsObject"
    <3>1. Drawn' = Drawn
      BY <1>5, <2>2 DEF RunPhysics, Goto, Drawn, LevelPhase
    <3> QED
      BY <1>1, <1>5, <2>2, <3>1 DEF RunPhysics, Goto, PropagatePosition,
         RemoveCollisionMarker, CollisionCheck, structure
  <2> QED
    BY <2>1, <2>2
<1>6. CASE RunPhysics
  BY <1>4, <1>5, <1>6 DEF RunPhysics, PropagatePosition, RemoveCollisionMarker,
     CollisionCheck
<1> QED
  BY <1>2, <1>3, <1>6 DEF Next, Loop, Spin

\* After n frames no coordinate of an item is beyond a bound linear in n.
THEOREM FallIsLinear == Spec => []FallBounded
<1>1. Init => Fallen
  BY DEF Init, LevelInit, Fallen, Drawn, LevelPhase
<1>2. FrameInv /\ Fallen => FallBounded
  <2> SUFFICES ASSUME FrameInv, Fallen, NEW i \in Fruit \cup Spider
               PROVE  /\ Position[i].y <= MaxVelocity * frame - SpawnRise
                      /\ Position[i].x <= HideShift + WINDOW_WIDTH - SpawnMargin
    BY DEF FallBounded
  <2>1. /\ frame \in Nat /\ Drawn \in {frame, frame - 1} /\ Drawn \in Nat
        /\ Position[i].x \in Int /\ Position[i].y \in Int
    BY Amounts, Entities DEF FrameInv, IInv, TypeOK, Drawn, Fallen
  <2>2. MaxVelocity * Drawn <= MaxVelocity * frame
    <3>1. CASE Drawn = frame
      BY <2>1, <3>1, Lengths
    <3>2. CASE frame = Drawn + 1
      <4>1. MaxVelocity * frame = MaxVelocity * Drawn + MaxVelocity
        BY <2>1, <3>2, Lengths, Distributes
      <4> QED
        BY <2>1, <4>1, Lengths
    <3> QED
      BY <2>1, <3>1, <3>2
  <2>3. Position[i].y <= MaxVelocity * frame - SpawnRise
    <3>1. MaxVelocity * Drawn \in Int /\ MaxVelocity * frame \in Int
      BY <2>1, Lengths
    <3>2. Position[i].y <= MaxVelocity * Drawn - SpawnRise
      BY DEF Fallen
    <3> QED
      BY <2>1, <2>2, <3>1, <3>2, Lengths
  <2> QED
    BY <2>1, <2>3, Lengths DEF FrameInv, Columns, Column
<1> QED
  BY <1>1, <1>2, FrameInvariance, FallenInductive, PTL DEF Spec

-----------------------------------------------------------------------------

\* No item passes the basket's box between two tests, provided a frame's fall
\* is at most the height of item and box together.
THEOREM NoItemTunnels == Spec => NoTunnelling
<1>1. ASSUME FrameInv, [Next]_vars, NEW i \in Fruit \cup Spider,
             Position[i].y + ItemSize < WINDOW_HEIGHT - BoxHeight
      PROVE  Position'[i].y <= WINDOW_HEIGHT
  <2>1. Position[i].y \in Int /\ i \in alive
    BY <1>1, Entities DEF FrameInv
  <2>2. CASE Position'[i].y = Position[i].y
    BY <1>1, <2>1, <2>2, Lengths
  <2>3. CASE TranslatePhysicsObject
    <3>1. Position'[i].y = Position[i].y + Velocity[i].y
      BY <1>1, <2>3, Entities DEF TranslatePhysicsObject, Plus, Point, FrameInv
    <3>2. Velocity[i].y \in 1 .. MaxVelocity
      BY <1>1 DEF FrameInv, Columns
    <3>3. MaxVelocity <= ItemSize + BoxHeight
      BY LevelAssumption DEF LevelAssumption
    <3> QED
      BY <1>1, <2>1, <3>1, <3>2, <3>3, Lengths
  <2>4. CASE MoveBasket \/ CollectFruit \/ CollectSpider
    <3>1. Position'[i].y = Position[i].y
      BY <1>1, <2>1, <2>4, Entities DEF MoveBasket, CollectFruit, CollectSpider,
         Hide, Plus, Point, FrameInv
    <3> QED
      BY <2>2, <3>1
  <2>5. CASE SpawnFruits
    <3>2. ASSUME NEW spider \in BOOLEAN, NEW vel \in Velocities,
                 NEW xpos \in SpawnColumns, Spawn(spider, vel, xpos)
          PROVE  Position'[i] = Position[i]
      BY <1>1, <2>1, <3>2, SpawnLocal DEF FrameInv
    <3>3. Position'[i] = Position[i]
      BY <2>5, <3>2 DEF SpawnFruits, registry
    <3> QED
      BY <2>2, <3>3
  <2>6. CASE DespawnItems
    BY <1>1, <2>2, <2>6, DespawnItemsStep DEF registry, FrameInv, IInv, TypeOK
  <2>7. CASE UNCHANGED Position
    BY <2>2, <2>7
  <2> QED
    BY <1>1, <2>3, <2>4, <2>5, <2>6, <2>7 DEF Next, Loop, Spin, vars, RunLevel,
       RunPhysics, PollInput, IncrementTicks, Render, CloseWindow, registry,
       PropagatePosition, RemoveCollisionMarker, CollisionCheck
<1>2. FrameInv /\ [Next]_vars =>
        [\A i \in Fruit \cup Spider :
           Position[i].y + ItemSize < WINDOW_HEIGHT - BoxHeight
             => Position'[i].y <= WINDOW_HEIGHT]_vars
  BY <1>1
<1> QED
  BY <1>2, FrameInvariance, PTL DEF Spec, NoTunnelling

-----------------------------------------------------------------------------

LEMMA DivSuccessor ==
  ASSUME NEW n \in Nat, NEW d \in Nat \ {0}
  PROVE  /\ n \div d \in Nat
         /\ (n + 1) \div d = IF (n + 1) % d = 0 THEN (n \div d) + 1 ELSE n \div d
OBVIOUS

LEMMA DivBound ==
  ASSUME NEW n \in Nat, NEW d \in Nat \ {0}, NEW m \in Nat, n \div d < m
  PROVE  n + 1 <= m * d
OBVIOUS

\* The level runs only while there is time.
Running == pc = "IncrementTicks" => time # 0

LEMMA ClockInductive == TypeOK /\ ClockExact /\ Running /\ [Next]_vars
                          => ClockExact' /\ Running'
<1> SUFFICES ASSUME TypeOK, ClockExact, Running, [Next]_vars
             PROVE  ClockExact' /\ Running'
  OBVIOUS
<1>1. CASE IncrementTicks
  <2>1. /\ ticks' = ticks + 1 /\ pc' = "MoveBasket" /\ time # 0
        /\ ticks \in Nat /\ time \in 0 .. GameTime
    BY <1>1 DEF IncrementTicks, Goto, Running, TypeOK
  <2>2. time' = IF (ticks + 1) % TicksPerSecond = 0 THEN time - 1 ELSE time
    BY <1>1, <2>1, Amounts DEF IncrementTicks
  <2>a. /\ ticks \div TicksPerSecond \in Nat
        /\ (ticks + 1) \div TicksPerSecond =
             IF (ticks + 1) % TicksPerSecond = 0
               THEN (ticks \div TicksPerSecond) + 1 ELSE ticks \div TicksPerSecond
    BY <2>1, DivSuccessor, Amounts
  <2>b. time = GameTime - (ticks \div TicksPerSecond)
    BY DEF ClockExact
  <2>3. time' = GameTime - ((ticks + 1) \div TicksPerSecond)
    <3> DEFINE q == ticks \div TicksPerSecond
               r == (ticks + 1) % TicksPerSecond
               s == (ticks + 1) \div TicksPerSecond
    <3>1. /\ q \in Nat /\ s = IF r = 0 THEN q + 1 ELSE q
          /\ time = GameTime - q
          /\ time' = IF r = 0 THEN time - 1 ELSE time
      BY <2>2, <2>a, <2>b
    <3> HIDE DEF q, r, s
    <3>2. time' = GameTime - s
      BY <3>1, Amounts
    <3> QED
      BY <3>2 DEF s
  <2>4. ticks \div TicksPerSecond < GameTime
    BY <2>1, DivSuccessor, Amounts DEF ClockExact
  <2>5. ticks + 1 <= GameTime * TicksPerSecond
    BY <2>1, <2>4, DivBound, Amounts
  <2> QED
    BY <2>1, <2>3, <2>5 DEF ClockExact, Running
<1>2. CASE UNCHANGED <<ticks, time>> /\ (pc' # "IncrementTicks" \/ time # 0)
  BY <1>2 DEF ClockExact, Running
<1> QED
  BY <1>1, <1>2 DEF Next, Loop, Spin, vars, RunLevel, RunPhysics, PollInput,
     Render, CloseWindow, Goto, MoveBasket, SpawnFruits, CollectFruit,
     CollectSpider, DespawnItems, game, Running

\* The clock is the tick counter in seconds, and both stop together.
THEOREM ClockIsExact == Spec => []ClockExact
<1>1. Init => ClockExact /\ Running
  <2>1. 0 \div TicksPerSecond = 0 /\ 0 <= GameTime * TicksPerSecond
    BY Amounts
  <2> QED
    BY <2>1, Amounts DEF Init, ClockExact, Running
<1> QED
  BY <1>1, TypeCorrect, ClockInductive, PTL DEF Spec

-----------------------------------------------------------------------------

\* Items that have appeared, counted by the clock: the counter is one ahead
\* between its increment and the spawning.
SpawnTick == IF pc \in {"MoveBasket", "SpawnFruits"} THEN ticks - 1 ELSE ticks

Population ==
  /\ SpawnTick \in Nat
  /\ created = 3 + 2 * (SpawnTick \div SpawnPeriod)
  /\ created = 3 + 2 * Cardinality(Fruit \cup Spider)
  /\ Fruit \cup Spider \subseteq {basket_cb + 2 * k - 1 : k \in 1 .. (SpawnTick \div SpawnPeriod)}

GameInv ==
  /\ FrameInv
  /\ ScoreLedger
  /\ ClockExact
  /\ Running
  /\ Population

-----------------------------------------------------------------------------

LEMMA PopulationKept ==
  ASSUME Population, UNCHANGED structure, SpawnTick' = SpawnTick
  PROVE  Population'
BY DEF Population, structure

LEMMA PopulationSpawn ==
  ASSUME IInv, Population, Goto("SpawnFruits", "CollectFruit"), SpawnFruits
  PROVE  Population'
<1> DEFINE n == SpawnTick \div SpawnPeriod
           n1 == SpawnTick' \div SpawnPeriod
<1>1. /\ SpawnTick \in Nat /\ SpawnTick' = SpawnTick + 1 /\ ticks = SpawnTick + 1
      /\ ticks' = ticks
  BY DEF Population, SpawnTick, Goto, SpawnFruits, game, IInv, TypeOK
<1>2. /\ n \in Nat
      /\ n1 = IF ticks % SpawnPeriod = 0 THEN n + 1 ELSE n
  BY <1>1, DivSuccessor, Lengths
<1>3. /\ created = 3 + 2 * n
      /\ created = 3 + 2 * Cardinality(Fruit \cup Spider)
      /\ Fruit \cup Spider \subseteq {basket_cb + 2 * k - 1 : k \in 1 .. n}
  BY DEF Population
<1>4. CASE ticks % SpawnPeriod # 0
  <2>1. UNCHANGED registry /\ n1 = n
    BY <1>2, <1>4 DEF SpawnFruits
  <2> HIDE DEF n, n1
  <2>2. /\ created' = 3 + 2 * n1
        /\ created' = 3 + 2 * Cardinality(Fruit' \cup Spider')
        /\ Fruit' \cup Spider' \subseteq {basket_cb + 2 * k - 1 : k \in 1 .. n1}
    BY <1>3, <2>1 DEF registry, structure
  <2> QED
    BY <1>1, <2>2 DEF Population, n1
<1>5. CASE ticks % SpawnPeriod = 0
  <2>1. n1 = n + 1
    BY <1>2, <1>5
  <2>2. PICK spider \in BOOLEAN, vel \in Velocities, xpos \in SpawnColumns :
          Spawn(spider, vel, xpos)
    BY <1>5 DEF SpawnFruits
  <2>3. /\ created' = created + 2
        /\ Fruit' \cup Spider' = Fruit \cup Spider \cup {created}
        /\ created \notin Fruit \cup Spider
    BY <2>2, SpawnLocal, Entities DEF Spawn, SpawnUnder
  <2>4. /\ IsFiniteSet(Fruit \cup Spider)
        /\ Cardinality(Fruit \cup Spider) \in Nat
    BY FiniteItems
  <2>5. Cardinality(Fruit' \cup Spider') = Cardinality(Fruit \cup Spider) + 1
    BY <2>3, <2>4, FS_AddElement
  <2> HIDE DEF n, n1
  <2>6. created = basket_cb + 2 * n1 - 1 /\ n1 \in 1 .. n1 /\ 1 .. n \subseteq 1 .. n1
    BY <1>2, <1>3, <2>1 DEF basket_cb
  <2>7. Fruit' \cup Spider' \subseteq {basket_cb + 2 * k - 1 : k \in 1 .. n1}
    BY <1>3, <2>3, <2>6
  <2>8. /\ created' = 3 + 2 * n1
        /\ created' = 3 + 2 * Cardinality(Fruit' \cup Spider')
    BY <1>2, <1>3, <2>1, <2>3, <2>4, <2>5
  <2> QED
    BY <1>1, <2>7, <2>8 DEF Population, n1
<1> QED
  BY <1>4, <1>5

LEMMA PopulationInductive == IInv /\ Population /\ [Next]_vars => Population'
<1> SUFFICES ASSUME IInv, Population, [Next]_vars PROVE Population'
  OBVIOUS
<1>1. CASE PollInput \/ IncrementTicks \/ Render \/ CloseWindow \/ UNCHANGED vars
  <2>1. SpawnTick' = SpawnTick
    BY <1>1 DEF PollInput, IncrementTicks, Render, CloseWindow, Goto, game, vars,
       SpawnTick, IInv, TypeOK
  <2> QED
    BY <1>1, <2>1, PopulationKept DEF PollInput, IncrementTicks, Render,
       CloseWindow, vars, registry
<1>2. CASE RunPhysics
  <2>1. SpawnTick' = SpawnTick
    BY <1>2 DEF RunPhysics, Goto, game, SpawnTick
  <2> QED
    BY <1>2, <2>1, PopulationKept DEF RunPhysics, TranslatePhysicsObject,
       PropagatePosition, RemoveCollisionMarker, CollisionCheck, structure
<1>3. CASE Goto("SpawnFruits", "CollectFruit") /\ SpawnFruits
  BY <1>3, PopulationSpawn
<1>4. CASE \/ Goto("MoveBasket", "SpawnFruits") /\ MoveBasket
           \/ pc = "CollectFruit" /\ pc' = "CollectSpider" /\ CollectFruit
           \/ /\ pc = "CollectSpider" /\ CollectSpider
              /\ pc' \in {"DespawnItems", "TranslatePhysicsObject"}
  <2>1. SpawnTick' = SpawnTick
    BY <1>4 DEF MoveBasket, CollectFruit, CollectSpider, Goto, game, SpawnTick
  <2> QED
    BY <1>4, <2>1, PopulationKept DEF MoveBasket, CollectFruit, CollectSpider
<1>5. CASE Goto("DespawnItems", "TranslatePhysicsObject") /\ DespawnItems
  <2>1. UNCHANGED registry
    BY <1>5, DespawnItemsStep DEF IInv, TypeOK
  <2>2. SpawnTick' = SpawnTick
    BY <1>5 DEF DespawnItems, Goto, game, SpawnTick
  <2> QED
    BY <2>1, <2>2, PopulationKept DEF registry
<1> QED
  BY <1>1, <1>2, <1>3, <1>4, <1>5 DEF Next, Loop, Spin, RunLevel, Goto

LEMMA DivMonotonic ==
  ASSUME NEW m \in Nat, NEW n \in Nat, NEW d \in Nat \ {0}, m <= n
  PROVE  m \div d <= n \div d
OBVIOUS

LEMMA AppearedInIds ==
  IInv /\ Population /\ ClockExact => Fruit \cup Spider \subseteq ItemIds
<1> SUFFICES ASSUME IInv, Population, ClockExact
             PROVE  Fruit \cup Spider \subseteq ItemIds
  OBVIOUS
<1> DEFINE n == SpawnTick \div SpawnPeriod
<1>1. /\ SpawnTick \in Nat /\ SpawnTick <= ticks /\ ticks \in Nat
      /\ ticks <= GameTime * TicksPerSecond /\ GameTime * TicksPerSecond \in Nat
  BY Amounts DEF Population, SpawnTick, ClockExact, IInv, TypeOK
<1>2. n <= SpawnLimit /\ n \in Nat /\ SpawnLimit \in Nat
  <2> DEFINE last == GameTime * TicksPerSecond
  <2>1. SpawnTick <= last /\ last \in Nat
    BY <1>1
  <2> HIDE DEF last
  <2>2. SpawnTick \div SpawnPeriod <= last \div SpawnPeriod
    BY <1>1, <2>1, DivMonotonic, Lengths
  <2>3. SpawnTick \div SpawnPeriod \in Nat /\ last \div SpawnPeriod \in Nat
    BY <1>1, <2>1, DivSuccessor, Lengths
  <2> QED
    BY <2>2, <2>3 DEF SpawnLimit, last
<1>3. Fruit \cup Spider \subseteq {basket_cb + 2 * k - 1 : k \in 1 .. n}
  BY DEF Population
<1> HIDE DEF n
<1> QED
  BY <1>2, <1>3 DEF ItemIds

LEMMA NextAppearedInIds ==
  IInv' /\ Population' /\ ClockExact' => (Fruit \cup Spider \subseteq ItemIds)'
BY AppearedInIds, PTL

LEMMA GameInvariance == Spec => []GameInv
<1>1. Init => Population
  <2> SUFFICES ASSUME Init PROVE Population
    OBVIOUS
  <2>1. /\ Fruit \cup Spider = {} /\ created = 3 /\ SpawnTick = 0
    BY DEF Init, LevelInit, SpawnTick
  <2>2. 0 \div SpawnPeriod = 0 /\ Cardinality({}) = 0
    BY Lengths, FS_EmptySet
  <2>3. SpawnTick \div SpawnPeriod = 0 /\ Cardinality(Fruit \cup Spider) = 0
    BY <2>1, <2>2
  <2> QED
    BY <2>1, <2>3 DEF Population
<1>2. Init => ClockExact /\ Running
  <2>1. 0 \div TicksPerSecond = 0 /\ 0 <= GameTime * TicksPerSecond
    BY Amounts
  <2> QED
    BY <2>1, Amounts DEF Init, ClockExact, Running
<1>3. FrameInv => IInv /\ TypeOK
  BY DEF FrameInv, IInv
<1>4. Spec => []Population
  BY <1>1, <1>3, FrameInvariance, PopulationInductive, PTL DEF Spec
<1>5. Spec => [](ClockExact /\ Running)
  BY <1>2, <1>3, FrameInvariance, ClockInductive, PTL DEF Spec
<1> QED
  BY <1>4, <1>5, FrameInvariance, EachPaidOnce, PTL DEF GameInv

\* The level spawns as many items as the tick counter says, two entities each.
THEOREM RegistryIsBounded == Spec => []PopulationBounded
<1>1. GameInv => PopulationBounded
  BY AppearedInIds DEF GameInv, FrameInv, Population, PopulationBounded
<1> QED
  BY <1>1, GameInvariance, PTL

-----------------------------------------------------------------------------

\* The values the refinement gives to the variables of Match that are not
\* variables here.
Over == time = 0 /\ pc \notin LevelPhase

Caught == {i \in Fruit \cup Spider : Hidden(i)}

LEMMA CaughtKept ==
  ASSUME Fruit' = Fruit, Spider' = Spider,
         \A i \in Fruit \cup Spider : Position'[i].x = Position[i].x
  PROVE  Caught' = Caught
BY DEF Caught, Hidden

LEMMA MatchStutters ==
  ASSUME UNCHANGED <<time, score, Fruit, Spider>>, Caught' = Caught, Over' = Over
  PROVE  UNCHANGED M!vars
BY DEF M!vars, Caught, Over

\* The instance counts as the specification does.
LEMMA SameCount == \A S : M!Cardinality(S) = Cardinality(S)
BY DEF M!Cardinality, Cardinality

LEMMA MatchInit == Init => M!Init
<1> SUFFICES ASSUME Init PROVE M!Init
  OBVIOUS
<1>1. /\ time = GameTime /\ score = 0 /\ Fruit = {} /\ Spider = {} /\ ~(time = 0)
  BY Amounts DEF Init, LevelInit
<1> QED
  BY <1>1 DEF M!Init

LEMMA MatchAppear ==
  ASSUME GameInv, GameInv', Goto("SpawnFruits", "CollectFruit"), SpawnFruits
  PROVE  M!Next \/ UNCHANGED M!vars
<1> USE DEF GameInv
<1>0. /\ ~Over /\ ~Over' /\ Over' = Over /\ UNCHANGED <<time, score>>
  BY DEF Over, Goto, LevelPhase, SpawnFruits, game
<1>1. CASE UNCHANGED registry
  <2>1. Caught' = Caught
    BY <1>1, CaughtKept DEF registry, structure
  <2>2. UNCHANGED <<time, score, Fruit, Spider>>
    BY <1>0, <1>1 DEF registry, structure
  <2> QED
    BY <1>0, <2>1, <2>2, MatchStutters
<1>2. ASSUME NEW spider \in BOOLEAN, NEW vel \in Velocities,
             NEW xpos \in SpawnColumns, Spawn(spider, vel, xpos)
      PROVE  M!Next
  <2>1. /\ created \notin alive
        /\ Position'[created].x = xpos
        /\ \A e \in alive : Position'[e] = Position[e]
        /\ Fruit' \cup Spider' = Fruit \cup Spider \cup {created}
    BY <1>2, SpawnLocal DEF FrameInv
  <2>2. created \in ItemIds \ (Fruit \cup Spider)
    <3>1. Fruit' \cup Spider' \subseteq ItemIds
      BY NextAppearedInIds DEF FrameInv, ItemIds, SpawnLimit
    <3> QED
      BY <2>1, <3>1, Entities DEF FrameInv
  <2>3. ~(xpos >= HideShift)
    BY LevelAssumption, Lengths DEF LevelAssumption
  <2>4. Caught' = Caught
    BY <2>1, <2>3, Entities DEF Caught, Hidden, FrameInv
  <2>5. \/ Fruit' = Fruit \cup {created} /\ Spider' = Spider
        \/ Spider' = Spider \cup {created} /\ Fruit' = Fruit
    BY <1>2 DEF Spawn, SpawnUnder
  <2>6. M!Appear
    BY <1>0, <2>2, <2>4, <2>5 DEF M!Appear, M!MayEnd, Over, Caught
  <2> QED
    BY <2>6 DEF M!Next
<1> QED
  BY <1>1, <1>2 DEF SpawnFruits

LEMMA MatchCatchFruit ==
  ASSUME GameInv, Goto("CollectFruit", "CollectSpider"), CollectFruit
  PROVE  M!Next
<1> DEFINE view == DOMAIN Position \cap Fruit \cap Collided
<1> USE DEF GameInv
<1>1. view \subseteq Fruit \cup Spider /\ \A i \in view : ~Hidden(i)
  BY DEF FrameInv, Unpaid, Goto
<1>2. Hide(view) /\ UNCHANGED <<structure, WorldPosition, Collided>>
  BY DEF CollectFruit
<1>3. /\ \A i \in view : Hidden(i)'
      /\ \A i \in (Fruit \cup Spider) \ view : Hidden(i)' = Hidden(i)
  BY <1>1, <1>2, HideFresh
<1>4. Fruit' = Fruit /\ Spider' = Spider
  BY <1>2 DEF structure
<1>5. Caught' = Caught \cup view
  BY <1>1, <1>3, <1>4 DEF Caught
<1>6. view \in SUBSET (Fruit \ Caught)
  BY <1>1 DEF Caught
<1>7. ~Over /\ ~Over' /\ time' = time /\ score' = score + FruitPoints * Cardinality(view)
  BY DEF Over, Goto, LevelPhase, CollectFruit
<1> HIDE DEF view
<1>8. M!CatchFruit
  <2>1. M!MayEnd
    BY <1>7 DEF M!MayEnd, Over
  <2>2. \E S \in SUBSET (Fruit \ Caught) :
          Caught' = Caught \cup S /\ score' = score + FruitPoints * M!Cardinality(S)
    BY <1>5, <1>6, <1>7, SameCount
  <2> QED
    BY <1>4, <1>7, <2>1, <2>2, Zenon DEF M!CatchFruit, Over, Caught
<1> QED
  BY <1>8 DEF M!Next

LEMMA MatchCatchSpider ==
  ASSUME GameInv, pc = "CollectSpider", CollectSpider
  PROVE  M!Next
<1> DEFINE view == DOMAIN Position \cap Spider \cap Collided
<1> USE DEF GameInv
<1>1. view \subseteq Fruit \cup Spider /\ \A i \in view : ~Hidden(i)
  BY DEF FrameInv, Unpaid
<1>2. Hide(view) /\ UNCHANGED <<structure, WorldPosition, Collided>>
  BY DEF CollectSpider
<1>3. /\ \A i \in view : Hidden(i)'
      /\ \A i \in (Fruit \cup Spider) \ view : Hidden(i)' = Hidden(i)
  BY <1>1, <1>2, HideFresh
<1>4. Fruit' = Fruit /\ Spider' = Spider
  BY <1>2 DEF structure
<1>5. Caught' = Caught \cup view
  BY <1>1, <1>3, <1>4 DEF Caught
<1>6. view \in SUBSET (Spider \ Caught)
  BY <1>1 DEF Caught
<1>7. ~Over /\ time' = time /\ score' = score - SpiderPoints * Cardinality(view)
  BY DEF Over, LevelPhase, CollectSpider
<1>8. Over' \in {Over, time' = 0}
  BY <1>7 DEF Over
<1> HIDE DEF view
<1>9. M!CatchSpider
  <2>1. M!MayEnd
    BY <1>7, <1>8 DEF M!MayEnd, Over
  <2>2. \E S \in SUBSET (Spider \ Caught) :
          Caught' = Caught \cup S /\ score' = score - SpiderPoints * M!Cardinality(S)
    BY <1>5, <1>6, <1>7, SameCount
  <2> QED
    BY <1>4, <1>7, <2>1, <2>2, Zenon DEF M!CatchSpider, Over, Caught
<1> QED
  BY <1>9 DEF M!Next

\* A call of DespawnItems changes nothing but may be the end of the match.
LEMMA MatchDespawn ==
  ASSUME GameInv, Goto("DespawnItems", "TranslatePhysicsObject"), DespawnItems
  PROVE  M!Next
<1>1. UNCHANGED registry /\ UNCHANGED <<time, score>>
  BY DespawnItemsStep DEF GameInv, FrameInv, IInv, TypeOK, DespawnItems, game
<1>2. Caught' = Caught /\ Fruit' = Fruit /\ Spider' = Spider
  BY <1>1, CaughtKept DEF registry, structure
<1>3. ~Over /\ Over' \in {Over, time' = 0}
  BY DEF Over, LevelPhase, Goto
<1>4. score' = score + FruitPoints * Cardinality({})
  BY <1>1, FS_EmptySet, Amounts DEF GameInv, FrameInv, IInv, TypeOK
<1>5. M!CatchFruit
  <2>1. {} \in SUBSET (Fruit \ Caught) /\ Caught' = Caught \cup {}
    BY <1>2
  <2>2. M!MayEnd
    BY <1>3 DEF M!MayEnd, Over
  <2>3. \E S \in SUBSET (Fruit \ Caught) :
          Caught' = Caught \cup S /\ score' = score + FruitPoints * M!Cardinality(S)
    BY <1>4, <2>1, SameCount
  <2> QED
    BY <1>1, <1>2, <1>3, <2>2, <2>3, Zenon DEF M!CatchFruit, Over, Caught
<1> QED
  BY <1>5 DEF M!Next

LEMMA MatchSecond ==
  ASSUME GameInv, IncrementTicks
  PROVE  M!Next \/ UNCHANGED M!vars
<1> USE DEF GameInv
<1>1. Caught' = Caught /\ Fruit' = Fruit /\ Spider' = Spider /\ score' = score
  BY CaughtKept DEF IncrementTicks, registry, structure
<1>2. ~Over /\ ~Over'
  BY DEF IncrementTicks, Goto, Over, LevelPhase
<1>3. CASE time' = time
  <2>1. Over' = Over
    BY <1>2 DEF Over
  <2> QED
    BY <1>1, <1>3, <2>1, MatchStutters
<1>4. CASE time' = time - 1 /\ time > 0
  <2>1. M!Second
    BY <1>1, <1>2, <1>4 DEF M!Second, M!MayEnd, Over, Caught
  <2> QED
    BY <2>1 DEF M!Next
<1> QED
  BY <1>3, <1>4 DEF IncrementTicks

LEMMA MatchStep ==
  ASSUME GameInv, GameInv', [Next]_vars
  PROVE  M!Next \/ UNCHANGED M!vars
<1> USE DEF GameInv
<1>1. CASE PollInput \/ Render \/ CloseWindow \/ UNCHANGED vars
  <2>1. UNCHANGED <<Fruit, Spider, Position, time, score>>
    BY <1>1 DEF PollInput, Render, CloseWindow, vars, registry, structure, game
  <2>2. Over' = Over
    BY <1>1, <2>1 DEF PollInput, Render, CloseWindow, Goto, Over, LevelPhase, vars
  <2> QED
    BY <2>1, <2>2, CaughtKept, MatchStutters
<1>2. CASE IncrementTicks
  BY <1>2, MatchSecond
<1>3. CASE RunLevel
  <2>1. CASE Goto("MoveBasket", "SpawnFruits") /\ MoveBasket
    <3>1. \A i \in Fruit \cup Spider : Position'[i].x = Position[i].x
      BY <2>1, Entities DEF MoveBasket, FrameInv
    <3>2. UNCHANGED <<Fruit, Spider, time, score>>
      BY <2>1 DEF MoveBasket, structure, game
    <3>3. Over' = Over
      BY <2>1, <3>2 DEF Goto, Over, LevelPhase
    <3> QED
      BY <3>1, <3>2, <3>3, CaughtKept, MatchStutters
  <2> QED
    BY <1>3, <2>1, MatchAppear, MatchCatchFruit, MatchCatchSpider, MatchDespawn
       DEF RunLevel, Goto
<1>4. CASE RunPhysics
  <2>1. \A i \in Fruit \cup Spider : Position'[i].x = Position[i].x
    <3>1. CASE TranslatePhysicsObject
      BY <3>1, Entities DEF TranslatePhysicsObject, Plus, Point, FrameInv, Columns
    <3> QED
      BY <1>4, <3>1 DEF RunPhysics, PropagatePosition, RemoveCollisionMarker,
         CollisionCheck
  <2>2. UNCHANGED <<Fruit, Spider, time, score>>
    BY <1>4 DEF RunPhysics, TranslatePhysicsObject, PropagatePosition,
       RemoveCollisionMarker, CollisionCheck, structure, game
  <2>3. Over' = Over
    BY <1>4, <2>2 DEF RunPhysics, Goto, Over, LevelPhase
  <2> QED
    BY <2>1, <2>2, <2>3, CaughtKept, MatchStutters
<1> QED
  BY <1>1, <1>2, <1>3, <1>4 DEF Next, Loop, Spin

\* The frame loop implements the abstract match, for every window, speed,
\* period and length of the game.
THEOREM LoopImplementsMatch == Spec => ImplementsMatch
<1>1. GameInv /\ GameInv' /\ [Next]_vars => [M!Next]_(M!vars)
  BY MatchStep
<1> QED
  BY <1>1, MatchInit, GameInvariance, PTL DEF Spec, ImplementsMatch, M!Spec
=============================================================================
