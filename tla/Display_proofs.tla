--------------------------- MODULE Display_proofs ---------------------------
(***************************************************************************)
(* Frames are shown whole, for any number of sprites, atlases of any size  *)
(* and every interleaving of processor, GPU and screen.                    *)
(***************************************************************************)
EXTENDS Display, FiniteSetTheorems, SequenceTheorems, TLAPS

\* A screen after the first n sprites of the frame.
Picture(n) == Empty \o [k \in 1 .. n |-> Cell(frame[k])]

\* What the back buffer shows once the GPU is done.
After == IF gpu = IDLE THEN back
         ELSE IF gpu \in {WHITE, Empty} THEN gpu ELSE back \o gpu

Commands == [fill : {"white", "clear", "garbage"}] \cup {Cell(s) : s \in Sprites}

\* A screen that began with a Clear.
Painted(screen) == screen \in Seq(Commands) /\ screen # <<>>
                   /\ screen[1] \in [fill : {"white", "clear"}]

Shape ==
  /\ TypeOK
  /\ gpu \in {IDLE, WHITE, Empty} \cup {<<Cell(s)>> : s \in Sprites}
  /\ front \in Seq(Commands) /\ back \in Seq(Commands)
  /\ pc \notin {"boot_swap", "draw"} => gpu = IDLE
  /\ pc \notin {"boot_clear", "boot_swap"} <=> cleared = 2

Drawing ==
  /\ pc = "boot_swap" => After = WHITE
  /\ pc = "clear" => next = 0
  /\ pc = "draw" => After = Picture(next)
  /\ pc = "vsync" => front = Picture(Len(frame))

Cleaned ==
  /\ cleared > 0 => Painted(front)
  /\ cleared = 2 => Painted(back)

Inv == Shape /\ Drawing /\ Cleaned

-----------------------------------------------------------------------------

LEMMA FillTypes ==
  /\ WHITE \in Seq(Commands) /\ Empty \in Seq(Commands) /\ GARBAGE \in Seq(Commands)
  /\ WHITE # IDLE /\ Empty # IDLE
  /\ Painted(WHITE) /\ Painted(Empty) /\ ~Painted(GARBAGE)
  BY DEF WHITE, Empty, GARBAGE, Fill, IDLE, Commands, Painted

LEMMA CellsAreNoFills ==
  ASSUME NEW s \in Sprites
  PROVE  /\ <<Cell(s)>> \notin {IDLE, WHITE, Empty}
         /\ Cell(s) \in Commands
  <1>1. DOMAIN Cell(s) = {"texture", "x", "y"}
    BY DEF Cell
  <1>2. ASSUME NEW c PROVE Cell(s) # [fill |-> c]
    <2>1. DOMAIN [fill |-> c] = {"fill"}
      OBVIOUS
    <2> QED BY <1>1, <2>1
  <1>3. <<Cell(s)>> # WHITE /\ <<Cell(s)>> # Empty
    BY <1>2 DEF WHITE, Empty, Fill
  <1> QED BY <1>3 DEF IDLE, Commands

(* The orders in which views yield a finite set are sequences of it.       *)
LEMMA OrdersAreSequences ==
  ASSUME NEW S, IsFiniteSet(S)
  PROVE  SetToSeqs(S) \subseteq Seq(S)
  <1>1. Cardinality(S) \in Nat
    BY FS_CardinalityType
  <1>2. SetToSeqs(S) \subseteq [1 .. Cardinality(S) -> S]
    BY DEF SetToSeqs
  <1> QED BY <1>1, <1>2, SeqDef

LEMMA FramesAreSequences == Frames \subseteq Seq(Sprites)
  <1> SUFFICES ASSUME NEW f \in Frames PROVE f \in Seq(Sprites)
    OBVIOUS
  <1>0. PICK S \in Scenes :
          f \in {b \o s : b \in SetToSeqs(Backgrounds), s \in SetToSeqs(S)}
    BY DEF Frames
  <1>4. PICK b \in SetToSeqs(Backgrounds), s \in SetToSeqs(S) : f = b \o s
    BY <1>0
  <1>1. b \in Seq(Backgrounds) /\ s \in Seq(S)
    BY OrdersAreSequences, DisplayAssumption
  <1>2. Backgrounds \subseteq Sprites /\ S \subseteq Sprites
    BY DEF Sprites
  <1>3. b \in Seq(Sprites) /\ s \in Seq(Sprites)
    BY <1>1, <1>2
  <1> QED BY <1>3, <1>4

(* One more sprite is one more command.                                    *)
LEMMA PictureGrows ==
  ASSUME NEW n \in Nat
  PROVE  Picture(n) \o <<Cell(frame[n + 1])>> = Picture(n + 1)
  <1> DEFINE a == [k \in 1 .. n |-> Cell(frame[k])]
             b == [k \in 1 .. n + 1 |-> Cell(frame[k])]
             C == {Cell(frame[k]) : k \in 1 .. n + 1} \cup {[fill |-> "clear"]}
  <1>1. a \in Seq(C) /\ b \in Seq(C) /\ Cell(frame[n + 1]) \in C
    OBVIOUS
  <1>2. a \o <<Cell(frame[n + 1])>> = b
    BY <1>1
  <1>3. Empty \in Seq(C)
    BY DEF Empty, Fill
  <1>4. (Empty \o a) \o <<Cell(frame[n + 1])>> = Empty \o (a \o <<Cell(frame[n + 1])>>)
    <2>1. <<Cell(frame[n + 1])>> \in Seq(C)
      BY <1>1
    <2> HIDE DEF a, C
    <2> QED BY <1>1, <1>3, <2>1, ConcatAssociative
  <1> QED BY <1>2, <1>4 DEF Picture

LEMMA PictureOfNothing == Picture(0) = Empty
  BY DEF Picture, Empty, Fill

LEMMA InitInv == Init => Inv
  BY FillTypes DEF Init, Inv, Shape, Drawing, Cleaned, TypeOK

-----------------------------------------------------------------------------

(* What the GPU does when it is done is what After has foreseen.           *)
LEMMA FinishInv == Inv /\ Finish => Inv'
  <1> SUFFICES ASSUME Inv, Finish PROVE Inv'
    OBVIOUS
  <1>1. back' = After /\ gpu' = IDLE /\ After' = After
    BY DEF Finish, After
  <1>2. UNCHANGED <<pc, cleared, frame, next, front, vsync>>
    BY DEF Finish
  <1>3. Drawing'
    BY <1>1, <1>2 DEF Inv, Drawing, Picture
  <1>4. After \in Seq(Commands) /\ (Painted(back) => Painted(After))
    <2>1. CASE gpu \in {IDLE, WHITE, Empty}
      BY <2>1, FillTypes DEF After, Inv, Shape
    <2>2. CASE gpu \notin {IDLE, WHITE, Empty}
      <3>1. PICK s \in Sprites : gpu = <<Cell(s)>>
        BY <2>2 DEF Inv, Shape
      <3>2. After = back \o <<Cell(s)>> /\ Cell(s) \in Commands
        BY <2>2, <3>1, CellsAreNoFills DEF After
      <3>3. back \in Seq(Commands)
        BY DEF Inv, Shape
      <3> QED BY <3>2, <3>3 DEF Painted
    <2> QED BY <2>1, <2>2
  <1>5. Shape'
    BY <1>1, <1>2, <1>4 DEF Inv, Shape, TypeOK
  <1>6. Cleaned'
    BY <1>1, <1>2, <1>4 DEF Inv, Cleaned, Painted
  <1> QED BY <1>3, <1>5, <1>6 DEF Inv

LEMMA BootInv == Inv /\ (BootClear \/ BootSwap) => Inv'
  <1>1. ASSUME Inv, BootClear PROVE Inv'
    <2>1. gpu = IDLE /\ gpu' = WHITE
      BY <1>1 DEF Inv, Shape, BootClear, Give
    <2>2. Shape'
      BY <1>1, <2>1 DEF Inv, Shape, TypeOK, BootClear
    <2>3. Drawing'
      BY <1>1, <2>1, FillTypes DEF BootClear, Drawing, After
    <2>4. Cleaned'
      BY <1>1 DEF Inv, Cleaned, BootClear, Painted
    <2> QED BY <2>2, <2>3, <2>4 DEF Inv
  <1>2. ASSUME Inv, BootSwap PROVE Inv'
    <2>1. /\ gpu = IDLE /\ gpu' = IDLE
          /\ front' = back /\ back' = front /\ back = WHITE
      BY <1>2 DEF Inv, Drawing, After, BootSwap, Done, Swapped
    <2>2. cleared \in {0, 1}
      BY <1>2 DEF Inv, Shape, TypeOK, BootSwap
    <2>3. Shape'
      BY <1>2, <2>1, <2>2 DEF Inv, Shape, TypeOK, BootSwap
    <2>4. Drawing'
      BY <1>2, <2>1 DEF BootSwap, Drawing
    <2>5. Cleaned'
      BY <1>2, <2>1, <2>2, FillTypes DEF Inv, Cleaned, BootSwap, Painted
    <2> QED BY <2>3, <2>4, <2>5 DEF Inv
  <1> QED BY <1>1, <1>2

LEMMA ClearInv == Inv /\ Clear => Inv'
  <1> SUFFICES ASSUME Inv, Clear PROVE Inv'
    OBVIOUS
  <1>1. gpu = IDLE /\ gpu' = Empty
    BY DEF Inv, Shape, Clear, Give
  <1>0. next = 0
    BY DEF Inv, Drawing, Clear
  <1>2. Shape'
    BY <1>1 DEF Inv, Shape, TypeOK, Clear
  <1>3. Drawing'
    BY <1>0, <1>1, FillTypes, PictureOfNothing DEF Clear, Drawing, After, Picture
  <1>4. Cleaned'
    BY DEF Inv, Cleaned, Clear, Painted
  <1> QED BY <1>2, <1>3, <1>4 DEF Inv

(* A sprite that is drawn, drawn when the one before it is finished, is    *)
(* added to the picture.                                                   *)
LEMMA DrawInv == Inv /\ Draw => Inv'
  <1> SUFFICES ASSUME Inv, Draw PROVE Inv'
    OBVIOUS
  <1> DEFINE s == frame[next + 1]
  <1>1. /\ gpu = IDLE /\ gpu' = <<Cell(s)>> /\ next' = next + 1
        /\ UNCHANGED <<pc, cleared, frame, front, back, vsync>>
        /\ pc = "draw"
    BY DEF Draw, Done, Give
  <1>2. next \in Nat /\ next + 1 \in 1 .. Len(frame) /\ s \in Sprites
    BY DEF Inv, Shape, TypeOK, Draw
  <1>3. <<Cell(s)>> \notin {IDLE, WHITE, Empty}
    BY <1>2, CellsAreNoFills
  <1>4. Shape'
    BY <1>1, <1>2 DEF Inv, Shape, TypeOK
  <1>5. Drawing'
    <2>1. back = Picture(next)
      BY <1>1 DEF Inv, Drawing, After
    <2>2. After' = back \o <<Cell(s)>>
      BY <1>1, <1>3 DEF After
    <2>3. After' = Picture(next + 1)
      BY <1>2, <2>1, <2>2, PictureGrows
    <2>4. Picture(next)' = Picture(next + 1)
      BY <1>1 DEF Picture
    <2> QED BY <1>1, <2>3, <2>4 DEF Drawing
  <1>6. Cleaned'
    BY <1>1 DEF Inv, Cleaned, Painted
  <1> QED BY <1>4, <1>5, <1>6 DEF Inv

LEMMA SwapInv == Inv /\ Swap => Inv'
  <1> SUFFICES ASSUME Inv, Swap PROVE Inv'
    OBVIOUS
  <1>1. /\ gpu = IDLE /\ gpu' = IDLE /\ front' = back /\ back' = front
        /\ pc = "draw" /\ pc' = "vsync" /\ next = Len(frame)
        /\ UNCHANGED <<cleared, frame, next, vsync>>
    BY DEF Swap, Done, Swapped
  <1>2. Shape'
    BY <1>1 DEF Inv, Shape, TypeOK
  <1>3. Drawing'
    BY <1>1 DEF Inv, Drawing, After, Picture
  <1>4. Cleaned'
    BY <1>1 DEF Inv, Shape, Cleaned, Painted
  <1> QED BY <1>2, <1>3, <1>4 DEF Inv

\* The steps that touch no screen.
LEMMA OtherInv ==
  Inv /\ (Compute \/ Close \/ AwaitVSync \/ Halted \/ Scan \/ UNCHANGED vars) => Inv'
  <1>1. ASSUME Inv, Compute PROVE Inv'
    <2>1. frame' \in Seq(Sprites) /\ next' = 0
      BY <1>1, FramesAreSequences DEF Compute
    <2>2. Shape'
      BY <1>1, <2>1 DEF Inv, Shape, TypeOK, Compute
    <2>3. Drawing'
      BY <1>1 DEF Compute, Drawing
    <2>4. Cleaned'
      BY <1>1 DEF Inv, Cleaned, Painted, Compute
    <2> QED BY <2>2, <2>3, <2>4 DEF Inv
  <1>2. ASSUME Inv, Close \/ AwaitVSync PROVE Inv'
    <2>1. Shape'
      BY <1>2 DEF Inv, Shape, TypeOK, Close, AwaitVSync
    <2>2. Drawing'
      BY <1>2 DEF Close, AwaitVSync, Drawing
    <2>3. Cleaned'
      BY <1>2 DEF Inv, Cleaned, Painted, Close, AwaitVSync
    <2> QED BY <2>1, <2>2, <2>3 DEF Inv
  <1>3. ASSUME Inv, Scan \/ Halted \/ UNCHANGED vars PROVE Inv'
    <2>1. /\ UNCHANGED <<pc, cleared, frame, next, gpu, front, back>>
          /\ vsync' \in BOOLEAN
      BY <1>3 DEF Scan, Halted, vars, Inv, Shape, TypeOK
    <2>2. Shape'
      BY <1>3, <2>1 DEF Inv, Shape, TypeOK
    <2>3. Drawing' /\ Cleaned'
      BY <1>3, <2>1 DEF Inv, Drawing, Cleaned, Painted, After, Picture
    <2> QED BY <2>2, <2>3 DEF Inv
  <1> QED BY <1>1, <1>2, <1>3

LEMMA AlwaysInv == Spec => []Inv
  <1>1. Inv /\ [Next]_vars => Inv'
    BY FinishInv, BootInv, ClearInv, DrawInv, SwapInv, OtherInv DEF Next, Processor
  <1> QED BY <1>1, InitInv, PTL DEF Spec

-----------------------------------------------------------------------------

(* Whenever the loop waits for the screen, that shows all of the frame and *)
(* nothing else.                                                           *)
THEOREM FramesAreWhole == Spec => []ShownWhole
  <1>1. Inv => ShownWhole
    BY DEF Inv, Drawing, Picture, ShownWhole
  <1> QED BY <1>1, AlwaysInv, PTL

(* After _main has cleared twice, neither buffer holds what the memory of  *)
(* the screen held at reset.                                               *)
THEOREM ScreenIsCleaned == Spec => []NoGarbage
  <1>1. Inv => NoGarbage
    BY FillTypes DEF Inv, Cleaned, NoGarbage
  <1> QED BY <1>1, AlwaysInv, PTL

-----------------------------------------------------------------------------

(* Cells of one size beside each other.                                    *)
LEMMA CellsInRow ==
  ASSUME NEW n \in Nat, NEW size \in Nat \ {0}, NEW total \in Nat,
         n * size <= total, NEW k \in 0 .. (n - 1)
  PROVE  k * size \in Nat /\ k * size + size <= total
  <1>1. (k + 1) * size <= n * size
    OBVIOUS
  <1> QED BY <1>1

LEMMA CellsApart ==
  ASSUME NEW size \in Nat \ {0}, NEW k \in Nat, NEW l \in Nat, k * size = l * size
  PROVE  k = l
  OBVIOUS

\* Row and column, without eight bits.
Row(s)    == s.index \div s.texture.columns
Column(s) == s.index % s.texture.columns

(* Eight bits hold the row and the column of every sprite.                 *)
LEMMA Placed ==
  ASSUME NEW s \in Sprites
  PROVE  LET t == s.texture IN
         /\ t.width \in Nat /\ t.height \in Nat
         /\ t.cell_width \in Nat \ {0} /\ t.cell_height \in Nat \ {0}
         /\ t.rows \in Nat /\ t.columns \in Nat
         /\ t.columns * t.cell_width <= t.width
         /\ t.rows * t.cell_height <= t.height
         /\ Row(s) \in 0 .. (t.rows - 1) /\ Column(s) \in 0 .. (t.columns - 1)
         /\ Row(s) \in Nat /\ Column(s) \in Nat
         /\ s.index = Row(s) * t.columns + Column(s)
         /\ Cell(s) = [texture |-> t, x |-> Column(s) * t.cell_width,
                       y |-> Row(s) * t.cell_height]
  <1> DEFINE t == s.texture
  <1>1. t \in Textures
    BY DisplayAssumption
  <1>2. /\ {t.width, t.height, t.cell_width, t.cell_height} \subseteq Nat \ {0}
        /\ t.rows \in 1 .. 255 /\ t.columns \in 1 .. 255
        /\ t.columns * t.cell_width <= t.width /\ t.rows * t.cell_height <= t.height
    BY <1>1, AtlasAssumption
  <1>3. s.index \in 0 .. (t.rows * t.columns - 1)
    BY AtlasAssumption
  <1>4. /\ Column(s) % 256 = Column(s) /\ Row(s) % 256 = Row(s)
        /\ Column(s) \in 0 .. (t.columns - 1) /\ Row(s) \in 0 .. (t.rows - 1)
        /\ s.index = Row(s) * t.columns + Column(s)
    <2> DEFINE n == t.rows
               m == t.columns
               i == s.index
    <2>1. Row(s) = i \div m /\ Column(s) = i % m
      BY Zenon DEF Row, Column
    <2>2. n \in 1 .. 255 /\ m \in 1 .. 255 /\ i \in 0 .. (n * m - 1)
      BY <1>2, <1>3, Zenon
    <2> HIDE DEF n, m, i
    <2>3. Row(s) \in Int /\ Column(s) \in 0 .. (m - 1) /\ i = m * Row(s) + Column(s)
      BY <2>1, <2>2
    <2>4. 0 <= Row(s) /\ Row(s) < n
      BY <2>2, <2>3
    <2>5. /\ Column(s) % 256 = Column(s) /\ Row(s) % 256 = Row(s)
          /\ Column(s) \in 0 .. (m - 1) /\ Row(s) \in 0 .. (n - 1)
          /\ i = Row(s) * m + Column(s)
      BY <2>2, <2>3, <2>4
    <2> QED BY <2>5 DEF n, m, i
  <1>5. Cell(s) = [texture |-> t, x |-> (Column(s) % 256) * t.cell_width,
                   y |-> (Row(s) % 256) * t.cell_height]
    BY Zenon DEF Cell, Row, Column
  <1>6. t.rows \in Nat /\ t.columns \in Nat /\ Row(s) \in Nat /\ Column(s) \in Nat
    BY <1>2, <1>4
  <1>7. /\ t.width \in Nat /\ t.height \in Nat
        /\ t.cell_width \in Nat \ {0} /\ t.cell_height \in Nat \ {0}
    BY <1>2
  <1> QED BY <1>2, <1>4, <1>5, <1>6, <1>7, Zenon

LEMMA CellInside ==
  ASSUME NEW s \in Sprites
  PROVE  LET c == Cell(s)
             t == c.texture
         IN  c.x + t.cell_width <= t.width /\ c.y + t.cell_height <= t.height
  <1> DEFINE t == s.texture
  <1>1. /\ Column(s) * t.cell_width + t.cell_width <= t.width
        /\ Row(s) * t.cell_height + t.cell_height <= t.height
    BY Placed, CellsInRow, Zenon
  <1>2. /\ Cell(s).texture = t
        /\ Cell(s).x = Column(s) * t.cell_width
        /\ Cell(s).y = Row(s) * t.cell_height
    <2>1. Cell(s) = [texture |-> t, x |-> Column(s) * t.cell_width,
                     y |-> Row(s) * t.cell_height]
      BY Placed, Zenon
    <2> HIDE DEF t
    <2> QED BY <2>1
  <1> QED BY <1>1, <1>2, Zenon

LEMMA CellDetermines ==
  ASSUME NEW s \in Sprites, NEW z \in Sprites, Cell(s) = Cell(z)
  PROVE  s = z
  <1> DEFINE t == s.texture
  <1>1. /\ z.texture = t
        /\ Column(s) * t.cell_width = Column(z) * t.cell_width
        /\ Row(s) * t.cell_height = Row(z) * t.cell_height
    <2>1. /\ Cell(s) = [texture |-> t, x |-> Column(s) * t.cell_width,
                        y |-> Row(s) * t.cell_height]
          /\ Cell(z) = [texture |-> z.texture,
                        x |-> Column(z) * z.texture.cell_width,
                        y |-> Row(z) * z.texture.cell_height]
      BY Placed, Zenon
    <2> DEFINE u == z.texture
               a == Column(s) * t.cell_width
               b == Row(s) * t.cell_height
               d == Column(z) * u.cell_width
               e == Row(z) * u.cell_height
    <2>2. [texture |-> t, x |-> a, y |-> b] = [texture |-> u, x |-> d, y |-> e]
      BY <2>1
    <2>3. t = u /\ a = d /\ b = e
      <3> HIDE DEF t, u, a, b, d, e
      <3> QED BY <2>2
    <2> QED BY <2>3, Zenon
  <1>2. /\ t.cell_width \in Nat \ {0} /\ t.cell_height \in Nat \ {0}
        /\ Row(s) \in Nat /\ Column(s) \in Nat /\ Row(z) \in Nat /\ Column(z) \in Nat
        /\ s.index = Row(s) * t.columns + Column(s)
        /\ z.index = Row(z) * z.texture.columns + Column(z)
    BY Placed, Zenon
  <1>3. Column(s) = Column(z) /\ Row(s) = Row(z)
    BY <1>1, <1>2, CellsApart, Zenon
  <1>4. s.index = z.index
    BY <1>1, <1>2, <1>3, Zenon
  <1> QED BY <1>1, <1>4, DisplayAssumption, Zenon

(* Every sprite is drawn from within its texture, and different ones from  *)
(* different cells, for every atlas that fits its bitmap.                  *)
THEOREM AtlasIsSound == Spec => []CellsInTexture
  <1>1. Inv => CellsInTexture
    <2> SUFFICES ASSUME Inv, NEW i \in 1 .. Len(frame), NEW j \in 1 .. Len(frame)
                 PROVE  LET c == Cell(frame[i])
                            t == c.texture
                        IN  /\ c.x + t.cell_width <= t.width
                            /\ c.y + t.cell_height <= t.height
                            /\ frame[i] # frame[j] => c # Cell(frame[j])
      BY DEF CellsInTexture
    <2>1. frame[i] \in Sprites /\ frame[j] \in Sprites
      BY DEF Inv, Shape, TypeOK
    <2> QED BY <2>1, CellInside, CellDetermines
  <1> QED BY <1>1, AlwaysInv, PTL
=============================================================================
