-------------------------------- MODULE Match -------------------------------
(***************************************************************************)
(* What a game of HansTheGatherer promises its player, without frames,     *)
(* positions or collisions: a countdown, items that appear one at a time,  *)
(* each caught at most once and paid for when it is caught, and a score    *)
(* that is final once the match is over.                                   *)
(***************************************************************************)
EXTENDS Integers, FiniteSets

CONSTANTS
  Items,           \* identities the items may have
  GameTime,        \* length of the match, in seconds
  FruitPoints, SpiderPoints

VARIABLES
  remaining,       \* seconds left
  over,            \* no further item, catch or second
  score,
  fruit, spider,   \* items that have appeared
  caught           \* items the basket has taken

vars == <<remaining, over, score, fruit, spider, caught>>

Init ==
  /\ remaining = GameTime
  /\ over = FALSE
  /\ score = 0
  /\ fruit = {} /\ spider = {} /\ caught = {}

\* The step may, but need not, be the last one of a match out of time.
MayEnd == over' \in {over, remaining' = 0}

Second ==
  /\ ~over /\ remaining > 0
  /\ remaining' = remaining - 1
  /\ MayEnd
  /\ UNCHANGED <<score, fruit, spider, caught>>

Appear ==
  /\ ~over
  /\ \E i \in Items \ (fruit \cup spider) :
       \/ fruit' = fruit \cup {i} /\ UNCHANGED spider
       \/ spider' = spider \cup {i} /\ UNCHANGED fruit
  /\ MayEnd
  /\ UNCHANGED <<remaining, score, caught>>

CatchFruit ==
  /\ ~over
  /\ \E S \in SUBSET (fruit \ caught) :
       /\ caught' = caught \cup S
       /\ score' = score + FruitPoints * Cardinality(S)
  /\ MayEnd
  /\ UNCHANGED <<remaining, fruit, spider>>

CatchSpider ==
  /\ ~over
  /\ \E S \in SUBSET (spider \ caught) :
       /\ caught' = caught \cup S
       /\ score' = score - SpiderPoints * Cardinality(S)
  /\ MayEnd
  /\ UNCHANGED <<remaining, fruit, spider>>

Next == Second \/ Appear \/ CatchFruit \/ CatchSpider

Spec == Init /\ [][Next]_vars
=============================================================================
