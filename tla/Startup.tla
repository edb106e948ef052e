------------------------------ MODULE Startup ------------------------------
(***************************************************************************)
(* Boot with the program break of Sbrk: constructors may allocate, and the *)
(* static variable heap of _sbrk is one of the words __init_data clears.   *)
(* The run-time library assumes that it is NULL before the first call and  *)
(* that nobody but _sbrk changes it afterwards.                            *)
(***************************************************************************)
EXTENDS Boot

CONSTANTS
  heap_begin, HEAP_SIZE, Increments,   \* as in Sbrk
  HeapAt                               \* the address of heap

ASSUME StartupAssumption ==
  /\ HeapAt \in Sbss .. (Ebss - 4)
  /\ \A o \in Objects : o \cap (HeapAt .. (HeapAt + 3)) = {}

VARIABLES heap, owned, overtaken

break == <<heap, owned, overtaken>>
startup == <<boot, break>>

NULL == 0

\* What the memory holds at reset is any number.
GARBAGE == heap_begin + 1

StartupInit ==
  /\ Init
  /\ heap \in {NULL, GARBAGE}
  /\ owned = {} /\ overtaken = {}

\* A step of the start-up code.  The word that is cleared may be part of heap.
BootStep ==
  /\ Next
  /\ heap' = IF \A x \in HeapAt .. (HeapAt + 3) : mem'[x] = ZERO /\ data' # data
               THEN NULL ELSE heap
  /\ UNCHANGED <<owned, overtaken>>

Running == INSTANCE Sbrk

\* malloc, called by a constructor or by main.
Allocate ==
  /\ pc \in {"preinit", "init", "main"}
  /\ Running!Next
  /\ UNCHANGED boot

StartupNext == BootStep \/ Allocate

StartupSpec == StartupInit /\ [][StartupNext]_startup /\ WF_startup(BootStep)

-----------------------------------------------------------------------------

Seen == INSTANCE Sbrk WITH
  heap <- IF pc \in {"hall", "init_data"} THEN NULL ELSE heap

\* Whatever .bss held at reset, malloc finds the break of module Sbrk: not set
\* before its first call, and never set back afterwards.
BreakAsSpecified == Seen!Spec
=============================================================================
