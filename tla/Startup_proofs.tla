--------------------------- MODULE Startup_proofs ---------------------------
(***************************************************************************)
(* What the start-up code guarantees, for every layout of the memory,      *)
(* every number of constructors and whatever objects they make.            *)
(***************************************************************************)
EXTENDS Startup, TLAPS

\* Where the start-up code is, what has been cleared and what is in it.
Early == pc \in {"hall", "init_data"}

Layout ==
  /\ pc \in {"hall", "init_data", "preinit", "init", "main"}
  /\ data \in Int /\ Sbss <= data /\ data < Ebss + 4
  /\ pc = "hall" => data = Sbss
  /\ ~Early => data >= Ebss

Made ==
  /\ ran \subseteq Constructors
  /\ made \in [ran -> Objects]
  /\ Early => ran = {}

Contents ==
  /\ mem = [x \in Memory |-> mem[x]]
  /\ \A x \in Memory :
       /\ x < Sbss => mem[x] = LOADED
       /\ x >= Ebss + 3 => mem[x] = ANY
       /\ \A c \in ran : x \in made[c] => mem[x] = c
       /\ Sbss <= x /\ x < data /\ (\A c \in ran : x \notin made[c])
            => mem[x] = ZERO

Inv == Layout /\ Made /\ Contents

\* The variable heap, once its word has been cleared.
HeapCleared ==
  Early => /\ owned = {} /\ overtaken = {}
           /\ data >= HeapAt + 4 => heap = NULL

-----------------------------------------------------------------------------

LEMMA InitInv == StartupInit => Inv /\ HeapCleared
  <1> SUFFICES ASSUME StartupInit PROVE Inv /\ HeapCleared
    OBVIOUS
  <1>1. Layout /\ Made
    BY BootAssumption DEF StartupInit, Init, Layout, Made, Early, Constructors
  <1>2. Contents
    BY BootAssumption DEF StartupInit, Init, Contents, Memory
  <1>3. HeapCleared
    BY BootAssumption, StartupAssumption DEF StartupInit, Init, HeapCleared
  <1> QED BY <1>1, <1>2, <1>3 DEF Inv

\* The objects of the constructors lie in the part that has been cleared.
LEMMA ObjectsInBss ==
  ASSUME NEW o \in Objects
  PROVE  /\ o \subseteq Memory
         /\ \A x \in o : x \in Int /\ Sbss <= x /\ x < Ebss
  BY BootAssumption DEF Memory

LEMMA ClearWordInv == Inv /\ ClearWord => Inv'
  <1> SUFFICES ASSUME Inv, ClearWord PROVE Inv'
    OBVIOUS
  <1>1. Layout' /\ Made'
    BY BootAssumption DEF Inv, Layout, Made, ClearWord, Early
  <1>2. ran = {} /\ ran' = {}
    BY DEF Inv, Made, Early, ClearWord
  <1>3. Contents'
    BY <1>2, BootAssumption DEF Inv, Layout, Contents, ClearWord, Memory
  <1> QED BY <1>1, <1>3 DEF Inv

\* A constructor makes its object in cleared memory, beside the others.
LEMMA ConstructInv ==
  ASSUME Inv, ~Early, NEW c \in Constructors, NEW o \in Objects, Construct(c, o)
  PROVE  /\ Inv'
         /\ \A x \in o : mem[x] = ZERO
         /\ ran' = ran \cup {c} /\ made'[c] = o
  <1>1. Layout'
    BY DEF Inv, Layout, Construct, Early
  <1>2. Made'
    BY DEF Inv, Made, Construct, Early
  <1>3. /\ ran' = ran \cup {c} /\ made'[c] = o
        /\ \A d \in ran : made'[d] = made[d] /\ made[d] \cap o = {}
        /\ c \notin ran
    BY DEF Construct
  <1>4. /\ mem' = [x \in Memory |-> IF x \in o THEN c ELSE mem[x]]
        /\ data' = data
    BY DEF Construct
  <1>5. Contents'
    <2> SUFFICES ASSUME NEW x \in Memory
                 PROVE  /\ x < Sbss => mem'[x] = LOADED
                        /\ x >= Ebss + 3 => mem'[x] = ANY
                        /\ \A d \in ran' : x \in made'[d] => mem'[x] = d
                        /\ Sbss <= x /\ x < data'
                           /\ (\A d \in ran' : x \notin made'[d])
                             => mem'[x] = ZERO
      BY <1>4 DEF Contents
    <2>1. CASE x \in o
      <3>1. Sbss <= x /\ x < Ebss /\ x \in Int
        BY <2>1, ObjectsInBss
      <3>2. mem'[x] = c
        BY <1>4, <2>1
      <3>3. \A d \in ran' : x \in made'[d] => d = c
        BY <1>3, <2>1
      <3> QED BY <1>3, <2>1, <3>1, <3>2, <3>3, BootAssumption
    <2>2. CASE x \notin o
      <3>1. mem'[x] = mem[x]
        BY <1>4, <2>2
      <3> QED BY <1>3, <1>4, <2>2, <3>1 DEF Inv, Contents
    <2> QED BY <2>1, <2>2
  <1>6. ASSUME NEW x \in o PROVE mem[x] = ZERO
    <2>1. x \in Memory /\ Sbss <= x /\ x < data
      BY ObjectsInBss, BootAssumption DEF Inv, Layout, Early
    <2>2. \A d \in ran : x \notin made[d]
      BY <1>3
    <2> QED BY <2>1, <2>2 DEF Inv, Contents
  <1> QED BY <1>1, <1>2, <1>3, <1>5, <1>6 DEF Inv

\* The steps that only move on.
LEMMA MovesOnInv ==
  ASSUME Inv, UNCHANGED <<mem, data, ran, made>>,
         \/ pc = "hall" /\ pc' = "init_data"
         \/ pc = "init_data" /\ data >= Ebss /\ pc' = "preinit"
         \/ ~Early /\ pc' \in {"init", "main"}
         \/ pc' = pc
  PROVE  Inv'
  BY DEF Inv, Layout, Made, Contents, Early

\* Each step of the start-up code keeps the invariant, and a constructor that
\* runs finds its object zero.
LEMMA NextInv ==
  ASSUME Inv, Next
  PROVE  /\ Inv'
         /\ \A c \in ran' \ ran : \A x \in made'[c] : mem[x] = ZERO
  <1>1. CASE Hall
    BY <1>1, MovesOnInv DEF Hall, Following
  <1>2. CASE ClearWord
    BY <1>2, ClearWordInv DEF ClearWord
  <1>3. CASE Cleared
    BY <1>3, MovesOnInv DEF Cleared, Following
  <1>4. ASSUME NEW at \in {"preinit", "init"}, NEW functions \in SUBSET Constructors,
               InitArray(at, functions)
        PROVE  /\ Inv'
               /\ \A c \in ran' \ ran : \A x \in made'[c] : mem[x] = ZERO
    <2>1. ~Early
      BY <1>4 DEF InitArray, Early
    <2>2. CASE \E c \in functions, o \in Objects : Construct(c, o)
      <3>1. PICK c \in functions, o \in Objects : Construct(c, o)
        BY <2>2
      <3> QED BY <2>1, <3>1, ConstructInv
    <2>3. CASE pc' = Following(pc) /\ UNCHANGED <<mem, data, ran, made>>
      BY <1>4, <2>1, <2>3, MovesOnInv DEF InitArray, Following
    <2> QED BY <1>4, <2>2, <2>3 DEF InitArray
  <1>5. CASE Main
    BY <1>5, MovesOnInv DEF Main, boot
  <1>6. Preinit \subseteq Constructors /\ Inits \subseteq Constructors
    BY DEF Constructors
  <1> QED BY <1>1, <1>2, <1>3, <1>4, <1>5, <1>6 DEF Next

LEMMA StepInv ==
  ASSUME Inv, [StartupNext]_startup
  PROVE  /\ Inv'
         /\ [\A c \in ran' \ ran : \A x \in made'[c] : mem[x] = ZERO]_boot
  <1>1. CASE BootStep
    BY <1>1, NextInv DEF BootStep
  <1>2. CASE UNCHANGED boot
    BY <1>2, MovesOnInv DEF boot
  <1> QED BY <1>1, <1>2 DEF StartupNext, Allocate, startup

LEMMA AlwaysInv == StartupSpec => []Inv
  <1>1. Inv /\ [StartupNext]_startup => Inv'
    BY StepInv
  <1> QED BY InitInv, <1>1, PTL DEF StartupSpec

-----------------------------------------------------------------------------

(* Clearing .bss by words touches neither what was loaded in front of it   *)
(* nor, but for the rest of a word, the heap behind it.                    *)
THEOREM ClearingStaysInBss == StartupSpec => []ClearsBssOnly
  <1>1. Inv => ClearsBssOnly
    BY DEF Inv, Contents, ClearsBssOnly
  <1> QED BY <1>1, AlwaysInv, PTL

(* No later step of the start-up code destroys what a constructor made.    *)
THEOREM ObjectsReachMain == StartupSpec => []ObjectsSurvive
  <1>1. Inv => ObjectsSurvive
    <2> SUFFICES ASSUME Inv, NEW c \in ran, NEW x \in made[c]
                 PROVE  mem[x] = c
      BY DEF ObjectsSurvive
    <2>1. made[c] \in Objects
      BY DEF Inv, Made
    <2>2. x \in Memory
      BY <2>1, ObjectsInBss
    <2> QED BY <2>2 DEF Inv, Contents
  <1> QED BY <1>1, AlwaysInv, PTL

(* Every constructor finds its object zero.                                *)
THEOREM ConstructorsFindZero == StartupSpec => ConstructedFromZero
  <1>1. Inv /\ [StartupNext]_startup
          => [\A c \in ran' \ ran : \A x \in made'[c] : mem[x] = ZERO]_boot
    BY StepInv
  <1> QED BY <1>1, AlwaysInv, PTL DEF StartupSpec, ConstructedFromZero

-----------------------------------------------------------------------------

LEMMA HeapClearedStep ==
  ASSUME Inv, HeapCleared, [StartupNext]_startup
  PROVE  HeapCleared'
  <1>1. CASE UNCHANGED startup
    BY <1>1 DEF startup, boot, break, HeapCleared, Early
  <1>2. CASE Allocate
    BY <1>2 DEF Allocate, boot, HeapCleared, Early
  <1>3. CASE BootStep
    <2> SUFFICES ASSUME Early'
                 PROVE  /\ owned' = {} /\ overtaken' = {}
                        /\ data' >= HeapAt + 4 => heap' = NULL
      BY DEF HeapCleared
    <2>1. Early
      BY <1>3 DEF BootStep, Next, Hall, ClearWord, Cleared, InitArray, Construct,
                  Main, Following, Early, boot
    <2>2. owned' = {} /\ overtaken' = {}
      BY <1>3, <2>1 DEF BootStep, HeapCleared
    <2>3. ASSUME data' >= HeapAt + 4 PROVE heap' = NULL
      <3>1. CASE data' = data
        BY <1>3, <2>1, <2>3, <3>1 DEF BootStep, HeapCleared
      <3>2. CASE data' # data
        <4>1. Inv'
          BY <1>3, NextInv DEF BootStep
        <4>2. ran' = {}
          BY <4>1 DEF Inv, Made
        <4>3. \A x \in HeapAt .. (HeapAt + 3) : mem'[x] = ZERO
          BY <2>3, <4>1, <4>2, BootAssumption, StartupAssumption
             DEF Inv, Layout, Contents, Memory
        <4> QED BY <1>3, <3>2, <4>3 DEF BootStep
      <3> QED BY <3>1, <3>2
    <2> QED BY <2>2, <2>3
  <1> QED BY <1>1, <1>2, <1>3 DEF StartupNext

(* A step of the start-up code is none of the break's; a call of malloc is *)
(* one on the break as module Sbrk has it.                                 *)
LEMMA StepMaps ==
  ASSUME Inv, HeapCleared, [StartupNext]_startup
  PROVE  [Seen!Next]_(Seen!vars)
  <1>1. CASE UNCHANGED startup
    BY <1>1 DEF startup, boot, break, Seen!vars
  <1>2. CASE Allocate
    <2>1. Running!Next /\ pc' = pc /\ pc \notin {"hall", "init_data"}
      BY <1>2 DEF Allocate, boot
    <2>2. PICK incr \in Increments :
            Running!Move(incr) \/ Running!Stay(incr) \/ Running!Trim(incr)
      BY <2>1 DEF Running!Next
    <2>3. Running!Move(incr) => Seen!Move(incr)
      BY <2>1 DEF Running!Move, Seen!Move, Running!Fits, Seen!Fits, Running!Break,
                  Seen!Break, Running!Region, Seen!Region, Running!NULL, Seen!NULL
    <2>4. Running!Stay(incr) => Seen!Stay(incr)
      BY <2>1 DEF Running!Stay, Seen!Stay, Running!Fits, Seen!Fits, Running!Break,
                  Seen!Break, Running!Region, Seen!Region, Running!NULL, Seen!NULL
    <2>5. Running!Trim(incr) => Seen!Trim(incr)
      BY <2>1 DEF Running!Trim, Seen!Trim, Running!Fits, Seen!Fits, Running!Break,
                  Seen!Break, Running!NULL, Seen!NULL
    <2> QED BY <2>2, <2>3, <2>4, <2>5 DEF Seen!Next
  <1>3. CASE BootStep
    <2>1. UNCHANGED <<owned, overtaken>>
      BY <1>3 DEF BootStep
    <2>2. CASE Early'
      <3>1. Early
        BY <1>3, <2>2 DEF BootStep, Next, Hall, ClearWord, Cleared, InitArray,
                          Construct, Main, Following, Early, boot
      <3> QED BY <2>1, <2>2, <3>1 DEF Early, Seen!vars
    <2>3. CASE ~Early'
      <3>1. data' = data /\ heap' = heap
        <4>1. data' = data
          BY <1>3, <2>3 DEF BootStep, Next, Hall, ClearWord, Cleared, InitArray,
                            Construct, Main, Early, boot
        <4>2. HeapAt \in HeapAt .. (HeapAt + 3)
          BY StartupAssumption, BootAssumption
        <4> QED BY <1>3, <4>1, <4>2 DEF BootStep
      <3>2. CASE Early
        <4>1. data >= HeapAt + 4
          BY <2>3, <3>1, NextInv, <1>3, BootAssumption, StartupAssumption
             DEF BootStep, Inv, Layout
        <4> QED BY <2>1, <2>3, <3>1, <3>2, <4>1 DEF HeapCleared, Early, Seen!vars
      <3>3. CASE ~Early
        BY <2>1, <2>3, <3>1, <3>3 DEF Early, Seen!vars
      <3> QED BY <3>2, <3>3
    <2> QED BY <2>2, <2>3
  <1> QED BY <1>1, <1>2, <1>3 DEF StartupNext

(* malloc, whoever calls it and whatever .bss held at reset, has the break *)
(* of module Sbrk, for which that module's theorems hold.                  *)
THEOREM BreakIsSbrk == StartupSpec => BreakAsSpecified
  <1>1. StartupInit => Seen!Init
    BY DEF StartupInit, Init, Seen!Init, Seen!NULL, NULL
  <1>2. Inv /\ HeapCleared /\ [StartupNext]_startup => HeapCleared'
    BY HeapClearedStep
  <1>3. StartupSpec => []HeapCleared
    BY <1>2, InitInv, AlwaysInv, PTL DEF StartupSpec
  <1>4. Inv /\ HeapCleared /\ [StartupNext]_startup => [Seen!Next]_(Seen!vars)
    BY StepMaps
  <1> QED BY <1>1, <1>3, <1>4, AlwaysInv, PTL
           DEF StartupSpec, BreakAsSpecified, Seen!Spec
=============================================================================
