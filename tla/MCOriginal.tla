----------------------------- MODULE MCOriginal -----------------------------
(***************************************************************************)
(* The numbers of the original game: every size, speed, period and amount  *)
(* is the one in the source.  The draws are reduced to one column and the  *)
(* highest velocity, and MaxFrames ends the run just after the first item  *)
(* has left the window, where DespawnItems, whose call main.cpp has        *)
(* commented out and this run restores, would look for it.                 *)
(***************************************************************************)
EXTENDS Gatherer

MCSpawnColumns == {100}
MCVelocities == {4}
=============================================================================
