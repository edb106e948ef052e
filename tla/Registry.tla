------------------------------ MODULE Registry ------------------------------
(***************************************************************************)
(* The entity registry the modules of code/ share.                         *)
(*                                                                         *)
(* EnTT is not part of the repository; what is modelled is what the code   *)
(* relies on: an entity is an identifier never used before, a component    *)
(* type is a storage from entities to values (a set of entities when the   *)
(* type is an empty struct), a view ranges over the entities that every    *)
(* storage it names holds, and destroying an entity empties its slot in    *)
(* every storage.  Identifiers are numbers in order of creation: EnTT      *)
(* recycles slots, but under a new version, hence a new identifier.        *)
(*                                                                         *)
(* Every entity that has a Sprite also has Position and Size, and neither  *)
(* Size nor Sprite changes once emplaced, so those two have no storage.    *)
(***************************************************************************)
EXTENDS Integers, FiniteSets, Functions

VARIABLES
  created,        \* number of calls to registry.create()
  alive,          \* entities for which registry.valid() holds
  Position,       \* storages of physics.hpp
  WorldPosition,
  Velocity,
  Parent,
  Collided,
  Fruit,          \* storages of level.hpp
  Spider,
  Item

\* What only the creation and the destruction of entities change.
structure == <<created, alive, Velocity, Parent, Fruit, Spider, Item>>

registry == <<structure, Position, WorldPosition, Collided>>

Point(a, b) == [x |-> a, y |-> b]

Plus(p, q) == Point(p.x + q.x, p.y + q.y)

\* registry.emplace<C>(e, c) on the storage C of a component with members.
Emplace(C, e, c) == [f \in DOMAIN C \cup {e} |-> IF f = e THEN c ELSE C[f]]

\* registry.destroy of every entity of S: no storage keeps a slot for it.
Destroy(S) ==
  /\ alive' = alive \ S
  /\ Position' = Restrict(Position, DOMAIN Position \ S)
  /\ WorldPosition' = Restrict(WorldPosition, DOMAIN WorldPosition \ S)
  /\ Velocity' = Restrict(Velocity, DOMAIN Velocity \ S)
  /\ Parent' = Restrict(Parent, DOMAIN Parent \ S)
  /\ Collided' = Collided \ S
  /\ Fruit' = Fruit \ S
  /\ Spider' = Spider \ S
  /\ Item' = Item \ S
  /\ UNCHANGED created

\* What registry.get<C const>(e) needs of its caller: e is valid, C holds it.
Readable(C, e) == e \in alive /\ e \in DOMAIN C
=============================================================================
