-------------------------------- MODULE Boot --------------------------------
(***************************************************************************)
(* From reset to main: _main of wuehans/start.cpp with __init_data and     *)
(* __libc_init_array, on the memory wuehans.ld lays out.  The addresses    *)
(* below Sbss hold code and initialised data, then come .sbss and .bss     *)
(* with the gaps alignment leaves, and at Ebss, a multiple of four, the    *)
(* heap.  What the memory behind the loaded image holds at reset is        *)
(* anything.                                                               *)
(***************************************************************************)
EXTENDS Integers

CONSTANTS
  Sbss, Ebss,      \* _sbss, that nothing aligns, and _ebss
  Top,             \* bound: the end of the memory that is looked at
  Preinit, Inits,  \* functions in .preinit_array and in .init_array
  Objects          \* bound: static objects in .bss, sets of bytes, that
                   \* constructors make

Constructors == Preinit \cup Inits

ASSUME BootAssumption ==
  /\ Sbss \in Nat /\ Ebss \in Nat /\ Top \in Nat
  /\ Sbss <= Ebss /\ Ebss + 4 <= Top
  /\ Ebss % 4 = 0
  /\ Preinit \cap Inits = {}
  /\ \A o \in Objects : o \subseteq Sbss .. (Ebss - 1)

VARIABLES
  pc,
  mem,       \* each byte: LOADED, ZERO, ANY, or the constructor that wrote it
  data,      \* the pointer of __init_data
  ran,       \* constructors that have run
  made       \* what each of them made

boot == <<pc, mem, data, ran, made>>

LOADED == "loaded"
ZERO   == "zero"
ANY    == "any"
Memory == 0 .. (Top - 1)

TypeOK ==
  /\ pc \in {"hall", "init_data", "preinit", "init", "main"}
  /\ mem \in [Memory -> {LOADED, ZERO, ANY} \cup Constructors]
  /\ data \in Nat
  /\ ran \subseteq Constructors
  /\ made \in [ran -> Objects]

Init ==
  /\ pc = "hall"
  /\ mem = [x \in Memory |-> IF x < Sbss THEN LOADED ELSE ANY]
  /\ data = Sbss
  /\ ran = {}
  /\ made = [c \in {} |-> {}]

\* Variant: the constructors run first.
FollowingInitFirst(p) ==
  CASE p = "hall" -> "preinit"
    [] p = "preinit" -> "init"
    [] p = "init" -> "init_data"
    [] OTHER -> "main"

\* What _main calls next.
Following(p) ==
  CASE p = "hall" -> "init_data"
    [] p = "init_data" -> "preinit"
    [] p = "preinit" -> "init"
    [] OTHER -> "main"

\* The calls of Hall, which touch no memory of the program.
Hall ==
  /\ pc = "hall"
  /\ pc' = Following(pc)
  /\ UNCHANGED <<mem, data, ran, made>>

\* Variant: words of eight bytes.
ClearWordWide ==
  /\ pc = "init_data" /\ data < Ebss
  /\ mem' = [x \in Memory |-> IF x \in data .. (data + 7) THEN ZERO ELSE mem[x]]
  /\ data' = data + 8
  /\ UNCHANGED <<pc, ran, made>>

\* __init_data: one word after the other.
ClearWord ==
  /\ pc = "init_data" /\ data < Ebss
  /\ mem' = [x \in Memory |-> IF x \in data .. (data + 3) THEN ZERO ELSE mem[x]]
  /\ data' = data + 4
  /\ UNCHANGED <<pc, ran, made>>

Cleared ==
  /\ pc = "init_data" /\ data >= Ebss
  /\ pc' = Following(pc)
  /\ UNCHANGED <<mem, data, ran, made>>

\* __libc_init_array: each constructor makes an object, or finds none to make.
Construct(c, o) ==
  /\ c \notin ran
  /\ \A d \in ran : made[d] \cap o = {}
  /\ mem' = [x \in Memory |-> IF x \in o THEN c ELSE mem[x]]
  /\ ran' = ran \cup {c}
  /\ made' = [d \in ran' |-> IF d = c THEN o ELSE made[d]]
  /\ UNCHANGED <<pc, data>>

\* Variant: as if a function could be left out.
InitArrayAny(at, functions) ==
  /\ pc = at
  /\ \/ \E c \in functions, o \in Objects : Construct(c, o)
     \/ /\ pc' = Following(pc)
        /\ UNCHANGED <<mem, data, ran, made>>

\* The functions of an array, in the order of the array, which is any.
InitArray(at, functions) ==
  /\ pc = at
  /\ \/ \E c \in functions, o \in Objects : Construct(c, o)
     \/ /\ functions \subseteq ran
        /\ pc' = Following(pc)
        /\ UNCHANGED <<mem, data, ran, made>>

\* main does not return; behind it _main would loop.
Main == pc = "main" /\ UNCHANGED boot

Next == \/ Hall \/ ClearWord \/ Cleared
        \/ InitArray("preinit", Preinit) \/ InitArray("init", Inits)
        \/ Main

Spec == Init /\ [][Next]_boot
FairSpec == Spec /\ WF_boot(Next)

-----------------------------------------------------------------------------

\* Clearing by words stays at the .bss: the initialised data in front of it are
\* as they were loaded, and behind _ebss, where the heap begins, no more than
\* the rest of a word can be zero.
ClearsBssOnly ==
  \A x \in Memory : /\ x < Sbss => mem[x] = LOADED
                    /\ x >= Ebss + 3 => mem[x] = ANY

\* What a constructor has made is still there when main runs.
ObjectsSurvive == \A c \in ran : \A x \in made[c] : mem[x] = c

\* Every byte of an object is zero when its constructor comes to it.
ConstructedFromZero ==
  [][ \A c \in ran' \ ran : \A x \in made'[c] : mem[x] = ZERO ]_boot

\* main is reached, with every constructor run.
MainIsReached == <>(pc = "main" /\ ran = Constructors)
=============================================================================
