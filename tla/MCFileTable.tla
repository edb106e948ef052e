---------------------------- MODULE MCFileTable ----------------------------
(* Two descriptors, two files that exist and one name that does not.       *)
EXTENDS FileTable, TLC

CONSTANTS a, b, absent

\* The file a has two clusters, b none yet.
Cards ==
  {[x \in Items |->
      CASE x = a -> [sclust |-> 3, size |-> bcs + 1]
        [] x = b -> [sclust |-> 0, size |-> 0]
        [] x = absent -> NOENTRY
        [] x = FSINFO -> [free |-> n_fatent - 4, next |-> 3]
        [] x = 3 -> 2
        [] x = 2 -> EOC
        [] OTHER -> FREE]}

JumpsFew == {-1, 1}
=============================================================================
