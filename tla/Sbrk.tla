-------------------------------- MODULE Sbrk --------------------------------
(***************************************************************************)
(* The program break of the wueHans build: _sbrk of wuehans/syscall.c, as  *)
(* the malloc of newlib drives it.  newlib is linked as an archive; what   *)
(* is modelled of it is that it owns the region an _sbrk that did not      *)
(* return -1 gave it, and that it gives back the end of its last region    *)
(* only if the break is still there.  A region runs from base up to, and   *)
(* without, limit.                                                         *)
(***************************************************************************)
EXTENDS Integers

CONSTANTS
  heap_begin,     \* address the linker script gives the symbol of that name
  HEAP_SIZE,      \* wuehans_config.h: 0x800000
  Increments      \* bound: the sizes malloc asks for and gives back

\* The sums of addresses and sizes stay within an int: wuehans.ld:15 has the
\* image and the heap in a RAM that ends at 0x02000000.
ASSUME SbrkAssumption ==
  /\ heap_begin \in Nat \ {0}
  /\ HEAP_SIZE \in Nat \ {0}
  /\ Increments \subseteq Nat \ {0}

NULL == 0

VARIABLES
  heap,         \* the static variable
  owned,        \* regions of calls that moved the break
  overtaken     \* regions of calls that did not, which malloc owns as well

vars == <<heap, owned, overtaken>>

Region(a, n) == [base |-> a, limit |-> a + n]

Init == heap = NULL /\ owned = {} /\ overtaken = {}

\* The break once the first call has set it.
Break == IF heap = NULL THEN heap_begin ELSE heap

-----------------------------------------------------------------------------

\* Variant: the end of the heap may be reached.
FitsExactly(incr) == Break + incr <= heap_begin + HEAP_SIZE

Fits(incr) == Break + incr < heap_begin + HEAP_SIZE

\* Variant: the region begins at the break the call has just set, less one.
MoveShort(incr) ==
  /\ Fits(incr)
  /\ heap' = Break + incr - 1
  /\ owned' = owned \cup {Region(Break, incr)}
  /\ UNCHANGED overtaken

Move(incr) ==
  /\ Fits(incr)
  /\ heap' = Break + incr
  /\ owned' = owned \cup {Region(Break, incr)}
  /\ UNCHANGED overtaken

\* There is no room, and the caller is not told: it gets the break as if there
\* were.
Stay(incr) ==
  /\ ~Fits(incr)
  /\ heap' = Break
  /\ overtaken' = overtaken \cup {Region(Break, incr)}
  /\ UNCHANGED owned

\* malloc trims its last region: _sbrk(-incr).
Trim(incr) ==
  \E r \in owned :
    /\ r.limit = Break /\ r.base <= Break - incr
    /\ Fits(0 - incr)
    /\ heap' = Break - incr
    /\ owned' = (owned \ {r}) \cup
                  (IF r.base < Break - incr
                     THEN {[r EXCEPT !.limit = Break - incr]} ELSE {})
    /\ UNCHANGED overtaken

Next == \E incr \in Increments : Move(incr) \/ Stay(incr) \/ Trim(incr)

Spec == Init /\ [][Next]_vars

-----------------------------------------------------------------------------

\* The break never leaves the heap, and never reaches its end.
BreakInHeap ==
  /\ heap \in {NULL} \cup (heap_begin .. (heap_begin + HEAP_SIZE - 1))
  /\ \A r \in owned : heap_begin <= r.base /\ r.limit <= Break

\* No byte is in two of the regions that moved the break, however malloc
\* grows and trims.
OwnedDisjoint ==
  \A r, s \in owned : r # s => r.limit <= s.base \/ s.limit <= r.base

\* HEAP_SIZE is the heap's size in bytes (wuehans_config.h:4): what malloc
\* obtains lies within so many bytes of heap_begin.
ObtainedInHeap ==
  \A r \in owned \cup overtaken : r.limit <= heap_begin + HEAP_SIZE
=============================================================================
