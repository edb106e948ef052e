------------------------------- MODULE Physics ------------------------------
(***************************************************************************)
(* code/physics.cpp: the four passes over the registry that move items,    *)
(* derive world positions from the one-level parent hierarchy and mark the *)
(* items that touch the basket.                                            *)
(***************************************************************************)
EXTENDS Registry

CONSTANTS
  BasketWidth, BasketHeight,        \* Size of the basket: 64 x 32
  BoxOffset, BoxHeight,             \* its collision box: 16 down, 16 high
  ItemSize                          \* items and their boxes: 32 x 32

\* The entities the constructor of LevelModule creates, in its order.
background == 0
basket     == 1
basket_cb  == 2

BasketBoxSize == [w |-> BasketWidth, h |-> BoxHeight]
ItemBoxSize   == [w |-> ItemSize, h |-> ItemSize]

-----------------------------------------------------------------------------

\* Variant: the fall gets faster from frame to frame.
AccelerateObjects ==
  /\ Position' = [e \in DOMAIN Position |->
                    IF e \in DOMAIN Velocity
                      THEN Plus(Position[e], Velocity[e])
                      ELSE Position[e]]
  /\ Velocity' = [e \in DOMAIN Velocity |->
                    Plus(Velocity[e], Plus(Velocity[e], Velocity[e]))]
  /\ UNCHANGED <<created, alive, WorldPosition, Parent, Collided, Fruit,
                 Spider, Item>>

\* view<Position, Velocity const>
TranslatePhysicsObject ==
  /\ Position' = [e \in DOMAIN Position |->
                    IF e \in DOMAIN Velocity
                      THEN Plus(Position[e], Velocity[e])
                      ELSE Position[e]]
  /\ UNCHANGED <<structure, WorldPosition, Collided>>

\* Variant: children are placed before the roots they hang from.
ChildrenFirst ==
  /\ WorldPosition' = [e \in DOMAIN WorldPosition |->
                         IF e \in DOMAIN Parent
                           THEN Plus(WorldPosition[Parent[e]], Position[e])
                           ELSE Position[e]]
  /\ UNCHANGED <<structure, Position, Collided>>

\* Roots copy their position; then each child adds its offset to what its
\* parent's WorldPosition has become.
PropagatePosition ==
  LET roots == DOMAIN WorldPosition \ DOMAIN Parent
      rooted == [e \in DOMAIN WorldPosition |->
                   IF e \in roots THEN Position[e] ELSE WorldPosition[e]]
  IN  /\ WorldPosition' = [e \in DOMAIN WorldPosition |->
                             IF e \in roots
                               THEN rooted[e]
                               ELSE Plus(rooted[Parent[e]], Position[e])]
      /\ UNCHANGED <<structure, Position, Collided>>

\* Variant: only the markers that led to points are taken away.
RemoveFruitMarkers ==
  /\ Collided' = Collided \ Fruit
  /\ UNCHANGED <<structure, Position, WorldPosition>>

\* view<Collided const>, each entity losing the component it is visited for.
RemoveCollisionMarker ==
  /\ Collided' = {}
  /\ UNCHANGED <<structure, Position, WorldPosition>>

-----------------------------------------------------------------------------

\* The boxes at p and q, of sizes s and t, meet or share an edge.
Overlap(p, s, q, t) ==
  /\ p.x + s.w >= q.x
  /\ p.x <= q.x + t.w
  /\ p.y + s.h >= q.y
  /\ p.y <= q.y + t.h

\* Every entity with a Parent has a CollisionBox and the converse: the level
\* emplaces the two together.
CollisionBox == DOMAIN Parent

\* The collision boxes, the basket's excluded, that the basket's box meets.
HitBoxes ==
  {e \in CollisionBox \ {basket_cb} :
     Overlap(WorldPosition[basket_cb], BasketBoxSize,
             WorldPosition[e], ItemBoxSize)}

\* Variant: the box is marked and not the item it belongs to.
MarkBoxes ==
  /\ Collided' = Collided \cup HitBoxes
  /\ UNCHANGED <<structure, Position, WorldPosition>>

CollisionCheck ==
  /\ Collided' = Collided \cup {Parent[e] : e \in HitBoxes}
  /\ UNCHANGED <<structure, Position, WorldPosition>>
=============================================================================
