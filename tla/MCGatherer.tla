----------------------------- MODULE MCGatherer -----------------------------
(***************************************************************************)
(* A small window for TLC: the ratios of the original are kept where the   *)
(* properties depend on them.  A fruit falls to the basket in three frames *)
(* at the higher speed, three items appear, and MaxFrames leaves the last  *)
(* one time to fall out of the window after the game is over.              *)
(***************************************************************************)
EXTENDS Gatherer

MCSpawnColumns == {2, 7}
MCVelocities == {1, 3}
=============================================================================
