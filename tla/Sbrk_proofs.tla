---------------------------- MODULE Sbrk_proofs ----------------------------
(***************************************************************************)
(* Proofs about the program break, for every heap and every sequence of    *)
(* requests.                                                               *)
(***************************************************************************)
EXTENDS Sbrk, TLAPS

\* Regions are not empty: one that ends at the break lies before no other.
Regions == owned \subseteq {r \in [base : Int, limit : Int] : r.base < r.limit}

IInv ==
  /\ Regions
  /\ BreakInHeap
  /\ OwnedDisjoint
  /\ heap = NULL => owned = {}

LEMMA Sizes ==
  /\ heap_begin \in Nat /\ heap_begin # NULL /\ HEAP_SIZE \in Nat /\ HEAP_SIZE > 0
  /\ \A n \in Increments : n \in Nat /\ n > 0
BY SbrkAssumption DEF SbrkAssumption, NULL

LEMMA BreakRange ==
  ASSUME IInv
  PROVE  /\ Break \in heap_begin .. (heap_begin + HEAP_SIZE - 1)
         /\ Break # NULL
         /\ \A r \in owned : heap_begin <= r.base /\ r.limit <= Break
BY Sizes DEF IInv, BreakInHeap, Break, NULL

LEMMA MoveStep ==
  ASSUME IInv, NEW incr \in Increments, Move(incr)
  PROVE  IInv'
<1> DEFINE new == Region(Break, incr)
<1>1. /\ incr \in Nat /\ incr > 0
      /\ Break \in heap_begin .. (heap_begin + HEAP_SIZE - 1)
      /\ \A r \in owned : heap_begin <= r.base /\ r.limit <= Break
  BY Sizes, BreakRange
<1>2. /\ heap' = Break + incr /\ heap' \in heap_begin .. (heap_begin + HEAP_SIZE - 1)
      /\ heap' # NULL /\ Break' = heap'
  BY <1>1, Sizes DEF Move, Fits, Break, NULL
<1>3. /\ new \in [base : Int, limit : Int] /\ new.base = Break
      /\ new.limit = Break + incr
  BY <1>1, Sizes DEF Region
<1>4. owned' = owned \cup {new}
  BY DEF Move
<1>5. Regions'
  BY <1>1, <1>3, <1>4, Sizes DEF IInv, Regions
<1>6. BreakInHeap'
  <2>1. \A r \in owned : heap_begin <= r.base /\ r.limit <= Break + incr
    BY <1>1, Sizes DEF IInv, Regions
  <2> QED
    BY <1>1, <1>2, <1>3, <1>4, <2>1, Sizes DEF BreakInHeap
<1>7. OwnedDisjoint'
  BY <1>1, <1>3, <1>4 DEF IInv, OwnedDisjoint
<1> QED
  BY <1>2, <1>5, <1>6, <1>7 DEF IInv

LEMMA TrimStep ==
  ASSUME IInv, NEW incr \in Increments, Trim(incr)
  PROVE  IInv'
<1>1. PICK r \in owned :
        /\ r.limit = Break /\ r.base <= Break - incr
        /\ heap' = Break - incr
        /\ owned' = (owned \ {r}) \cup
                      (IF r.base < Break - incr
                         THEN {[r EXCEPT !.limit = Break - incr]} ELSE {})
  BY DEF Trim
<1> DEFINE rest == [r EXCEPT !.limit = Break - incr]
<1>2. /\ incr \in Nat /\ incr > 0
      /\ Break \in heap_begin .. (heap_begin + HEAP_SIZE - 1)
      /\ \A s \in owned : heap_begin <= s.base /\ s.limit <= Break
  BY Sizes, BreakRange
<1>3. \A s \in owned : /\ s \in [base : Int, limit : Int] /\ s.base < s.limit
  BY DEF IInv, Regions
<1>4. /\ heap' \in heap_begin .. (heap_begin + HEAP_SIZE - 1)
      /\ heap' # NULL /\ Break' = heap'
  <2>1. heap_begin <= r.base /\ r.base \in Int
    BY <1>2, <1>3
  <2> QED
    BY <1>1, <1>2, <2>1, Sizes DEF Break, NULL
<1>5. \A s \in owned \ {r} : s.limit <= r.base
  <2> TAKE s \in owned \ {r}
  <2>1. s.limit <= r.base \/ r.limit <= s.base
    BY DEF IInv, OwnedDisjoint
  <2> QED
    BY <1>1, <1>2, <1>3, <2>1, Sizes
<1>6. /\ rest \in [base : Int, limit : Int] /\ rest.base = r.base
      /\ rest.limit = Break - incr
  <2>1. r = [base |-> r.base, limit |-> r.limit] /\ Break - incr \in Int
    BY <1>2, <1>3, Sizes
  <2> QED
    BY <1>3, <2>1
<1> HIDE DEF rest
<1>7. \A s \in owned' : s \in owned \ {r} \/ (s = rest /\ r.base < Break - incr)
  BY <1>1 DEF rest
<1>8. Regions'
  BY <1>3, <1>6, <1>7 DEF Regions
<1>9. \A s \in owned' : heap_begin <= s.base /\ s.limit <= heap'
  <2> TAKE s \in owned'
  <2>1. CASE s \in owned \ {r}
    <3>1. s.limit <= r.base /\ r.base <= heap' /\ heap_begin <= s.base
      BY <1>1, <1>2, <1>5, <2>1
    <3> QED
      BY <1>3, <1>4, <2>1, <3>1, Sizes
  <2>2. CASE s = rest
    BY <1>1, <1>2, <1>3, <1>6, <2>2, Sizes
  <2> QED
    BY <1>7, <2>1, <2>2
<1>10. BreakInHeap'
  BY <1>4, <1>9 DEF BreakInHeap
<1>11. OwnedDisjoint'
  <2> SUFFICES ASSUME NEW s \in owned', NEW t \in owned', s # t
               PROVE  s.limit <= t.base \/ t.limit <= s.base
    BY DEF OwnedDisjoint
  <2>1. CASE s \in owned \ {r} /\ t \in owned \ {r}
    BY <2>1 DEF IInv, OwnedDisjoint
  <2>2. CASE s = rest \/ t = rest
    BY <1>5, <1>6, <1>7, <2>2
  <2> QED
    BY <1>7, <2>1, <2>2
<1> QED
  BY <1>4, <1>8, <1>10, <1>11 DEF IInv

LEMMA Invariance == Spec => []IInv
<1>1. Init => IInv
  BY DEF Init, IInv, Regions, BreakInHeap, OwnedDisjoint
<1>2. IInv /\ [Next]_vars => IInv'
  <2> SUFFICES ASSUME IInv, [Next]_vars PROVE IInv'
    OBVIOUS
  <2>1. ASSUME NEW incr \in Increments, Stay(incr)
        PROVE  IInv'
    <3>1. /\ owned' = owned /\ heap' = Break /\ Break' = Break
      BY <2>1, BreakRange DEF Stay, Break
    <3> QED
      BY <3>1, BreakRange DEF IInv, Regions, BreakInHeap, OwnedDisjoint
  <2>2. CASE UNCHANGED vars
    BY <2>2 DEF vars, IInv, Regions, BreakInHeap, OwnedDisjoint, Break
  <2> QED
    BY <2>1, <2>2, MoveStep, TrimStep DEF Next
<1> QED
  BY <1>1, <1>2, PTL DEF Spec

\* The break never leaves the heap.
THEOREM BreakStays == Spec => []BreakInHeap
<1>1. IInv => BreakInHeap
  BY DEF IInv
<1> QED
  BY <1>1, Invariance, PTL

\* Regions that moved the break never share a byte.
THEOREM RegionsApart == Spec => []OwnedDisjoint
<1>1. IInv => OwnedDisjoint
  BY DEF IInv
<1> QED
  BY <1>1, Invariance, PTL
=============================================================================
