------------------------------ MODULE Display ------------------------------
(***************************************************************************)
(* The processor and the GPU of wueHans, as start.cpp, the frame loop of   *)
(* main.cpp and render.cpp drive it.  Hall is not in the repository.  What *)
(* its callers rely on is: a command is carried out in the back buffer     *)
(* after the call has returned, one at a time, and one that comes while    *)
(* another is carried out is not; a swap is over at once, since start.cpp, *)
(* minimal.cpp and main.cpp give the next command without waiting.         *)
(*                                                                         *)
(* A loop that polls is a step that is enabled once the polling ends.      *)
(***************************************************************************)
EXTENDS Integers, Sequences, SequencesExt

CONSTANTS
  Textures,        \* each with its width and height, and the layout of its
                   \* atlas: width and height of a cell, rows and columns
  Backgrounds,     \* the entities with Background, as the sprites they have:
                   \* a texture and an index
  Scenes           \* bound: the sets of others there may be in a frame

Sprites == Backgrounds \cup UNION Scenes

ASSUME DisplayAssumption ==
  /\ IsFiniteSet(Backgrounds) /\ \A S \in Scenes : IsFiniteSet(S)
  /\ \A s \in Sprites :
       s = [texture |-> s.texture, index |-> s.index] /\ s.texture \in Textures

\* The atlases of assets.cpp, and the indices level.cpp chooses from.
ASSUME AtlasAssumption ==
  /\ \A t \in Textures :
       /\ {t.width, t.height, t.cell_width, t.cell_height} \subseteq Nat \ {0}
       /\ t.rows \in 1 .. 255 /\ t.columns \in 1 .. 255
       /\ t.columns * t.cell_width <= t.width
       /\ t.rows * t.cell_height <= t.height
  /\ \A s \in Sprites : s.index \in 0 .. (s.texture.rows * s.texture.columns - 1)

VARIABLES
  pc,
  cleared,         \* _main: the times the screen has been cleared
  frame,           \* the entities of this frame in the order they are drawn
  next,            \* how many of them have been
  gpu,             \* the command that is carried out
  front, back,     \* what each buffer shows: commands since the last Clear
  vsync            \* what GetVSync reads

vars == <<pc, cleared, frame, next, gpu, front, back, vsync>>

IDLE    == <<>>
Fill(c) == <<[fill |-> c]>>
GARBAGE == Fill("garbage")   \* what the buffers hold when the power comes on
WHITE   == Fill("white")     \* Clear(0b1111111111111111)
Empty   == Fill("clear")     \* Clear(1)

\* What the views yield: the background, then the sprites that are there, each
\* in any order.
Frames == UNION {{b \o s : b \in SetToSeqs(Backgrounds), s \in SetToSeqs(S)} :
                   S \in Scenes}

Init ==
  /\ pc = "boot_clear" /\ cleared = 0
  /\ frame = <<>> /\ next = 0
  /\ gpu = IDLE
  /\ front = GARBAGE /\ back = GARBAGE
  /\ vsync \in BOOLEAN

-----------------------------------------------------------------------------

\* Variant: polled the other way round.
DoneNever == gpu # IDLE

\* GetIsGPUBusy is false.
Done == gpu = IDLE

\* Variant: row and column exchanged.
CellTransposed(s) ==
  LET t == s.texture IN
  [texture |-> t,
   x |-> ((s.index \div t.columns) % 256) * t.cell_width,
   y |-> ((s.index % t.columns) % 256) * t.cell_height]

\* Where in the texture a sprite is taken from.  Row and column have 8 bits.
Cell(s) ==
  LET t == s.texture IN
  [texture |-> t,
   x |-> ((s.index % t.columns) % 256) * t.cell_width,
   y |-> ((s.index \div t.columns) % 256) * t.cell_height]

\* A command is given; it is lost if the GPU is busy.
Give(command) == gpu' = IF gpu = IDLE THEN command ELSE gpu

Swapped == IF gpu = IDLE THEN front' = back /\ back' = front
                         ELSE UNCHANGED <<front, back>>

BootClear ==
  /\ pc = "boot_clear"
  /\ pc' = "boot_swap"
  /\ Give(WHITE)
  /\ UNCHANGED <<cleared, frame, next, front, back, vsync>>

\* Variant: without the polling.
BootSwapEarly ==
  /\ pc = "boot_swap"
  /\ Swapped
  /\ cleared' = cleared + 1
  /\ pc' = IF cleared = 1 THEN "frame" ELSE "boot_clear"
  /\ UNCHANGED <<frame, next, gpu, vsync>>

BootSwap ==
  /\ pc = "boot_swap" /\ Done
  /\ Swapped
  /\ cleared' = cleared + 1
  /\ pc' = IF cleared = 1 THEN "frame" ELSE "boot_clear"
  /\ UNCHANGED <<frame, next, gpu, vsync>>

\* The frame up to main.cpp:77; Gatherer has what happens in it.
Compute ==
  /\ pc = "frame"
  /\ frame' \in Frames /\ next' = 0
  /\ pc' = "clear"
  /\ UNCHANGED <<cleared, gpu, front, back, vsync>>

\* GetShouldClose: main returns, and _main spins.
Close ==
  /\ pc = "frame"
  /\ pc' = "halted"
  /\ UNCHANGED <<cleared, frame, next, gpu, front, back, vsync>>

\* Nothing is waited for.
Clear ==
  /\ pc = "clear"
  /\ pc' = "draw"
  /\ Give(Empty)
  /\ UNCHANGED <<cleared, frame, next, front, back, vsync>>

\* Variant: without the polling.
DrawEarly ==
  /\ pc = "draw" /\ next < Len(frame)
  /\ Give(<<Cell(frame[next + 1])>>)
  /\ next' = next + 1
  /\ UNCHANGED <<pc, cleared, frame, front, back, vsync>>

\* render_sprite, for the next entity of the views.
Draw ==
  /\ pc = "draw" /\ next < Len(frame)
  /\ Done
  /\ Give(<<Cell(frame[next + 1])>>)
  /\ next' = next + 1
  /\ UNCHANGED <<pc, cleared, frame, front, back, vsync>>

Swap ==
  /\ pc = "draw" /\ next = Len(frame)
  /\ Done
  /\ Swapped
  /\ pc' = "vsync"
  /\ UNCHANGED <<cleared, frame, next, gpu, vsync>>

AwaitVSync ==
  /\ pc = "vsync" /\ vsync
  /\ pc' = "frame"
  /\ UNCHANGED <<cleared, frame, next, gpu, front, back, vsync>>

Halted == pc = "halted" /\ UNCHANGED vars

-----------------------------------------------------------------------------

\* The GPU has carried out its command.
Finish ==
  /\ gpu # IDLE
  /\ gpu' = IDLE
  /\ back' = IF gpu \in {WHITE, Empty} THEN gpu ELSE back \o gpu
  /\ UNCHANGED <<pc, cleared, frame, next, front, vsync>>

\* The screen goes on, whatever the processor does.
Scan ==
  /\ vsync' = ~vsync
  /\ UNCHANGED <<pc, cleared, frame, next, gpu, front, back>>

Processor == \/ BootClear \/ BootSwap \/ Compute \/ Close \/ Clear \/ Draw
             \/ Swap \/ AwaitVSync \/ Halted

Next == Processor \/ Finish \/ Scan

\* The processor runs, the GPU gets done, the screen is scanned again and
\* again, and the loop that polls GetVSync is faster than the signal, which it
\* therefore sees sooner or later.
Spec ==
  /\ Init /\ [][Next]_vars
  /\ WF_vars(Processor) /\ SF_vars(AwaitVSync)
  /\ WF_vars(Finish) /\ WF_vars(Scan)

-----------------------------------------------------------------------------

TypeOK ==
  /\ pc \in {"boot_clear", "boot_swap", "frame", "clear", "draw", "vsync",
             "halted"}
  /\ cleared \in 0 .. 2
  /\ frame \in Seq(Sprites)
  /\ next \in 0 .. Len(frame)
  /\ vsync \in BOOLEAN

\* Whenever the loop waits for the screen, that shows all of the frame and
\* nothing else: no command was given to a busy GPU, the Clear for which
\* nothing is waited included.
ShownWhole ==
  pc = "vsync" => front = Empty \o [k \in 1 .. Len(frame) |-> Cell(frame[k])]

\* What is drawn lies in its texture, and no two sprites of a texture look the
\* same: with rows and columns of eight bits, as for any index.
CellsInTexture ==
  pc = "draw" =>
    \A i, j \in 1 .. Len(frame) :
      LET c == Cell(frame[i])
          t == c.texture
      IN  /\ c.x + t.cell_width <= t.width /\ c.y + t.cell_height <= t.height
          /\ frame[i] # frame[j] => c # Cell(frame[j])

\* What was in the memory of the screen is in neither buffer when main begins.
NoGarbage == cleared = 2 => GARBAGE \notin {front, back}

\* Unless the program is closed, one frame follows another.
FramesGoOn == <>(pc = "halted") \/ ([]<>(pc = "clear") /\ []<>(pc = "vsync"))
=============================================================================
