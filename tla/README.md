# A verification development for HansTheGatherer

HansTheGatherer is a small game for the wueHans console: a basket at the bottom
of the screen is moved left and right to catch falling fruit and to avoid
falling spiders, for sixty seconds. The repository also holds the console's
software template: start-up code, the system calls newlib needs, and a copy of
FatFs. This directory holds TLA+ models of that code, the TLC configurations
that check them and the theorems TLAPS proves about them.

Paths below are relative to `src/`.

## 1. The system

The program has one thread and no interrupts. What makes it hard is mostly
*order*: every frame makes ten passes over one shared registry of components,
each pass reads what others wrote in this frame or in the frame before, and
nothing but the order of the calls in `main` keeps a marker, a position and a
score consistent with each other. The one thing that runs beside it is the GPU,
which is given commands one at a time and polled. Below, FatFs keeps the FAT,
the directory, a window of one sector, a count of free clusters and the
position, size, cluster and buffer of each open file in step, over calls that
may fail on a full card and be cut short when the console is switched off.

| component | state | operations | interacts with |
|---|---|---|---|
| frame loop, `code/main.cpp` | `Game` (ticks, time, score, random engine) in the registry's context | `increment_ticks`, the body of `while (!GetShouldClose())` | calls everything below once per frame; polls controller, GPU and VSync |
| level, `code/level.cpp` | entities and components of background, basket, items and their collision boxes | constructor, `MoveBasket`, `SpawnFruits`, `CollectFruit`, `CollectSpider`, `DespawnItems` (never called) | reads `ButtonInput` and the markers physics sets; writes `Position` and score |
| physics, `code/physics.cpp` | `Position`, `WorldPosition`, `Velocity`, `Parent`, `Collided` | `TranslatePhysicsObject`, `PropagatePosition`, `RemoveCollisionMarker`, `CollisionCheck` | follows `Parent` from collision box to item; marks items for the level part of the *next* frame |
| input, `code/input.hpp` | set of pressed keys | replaced in every frame | read by `MoveBasket` |
| entity registry (EnTT, fetched) | entities, one storage per component type | create, destroy, emplace, remove, get, view | shared by level, physics, rendering |
| rendering, `code/render.cpp` | none of its own; the GPU's busy flag and the two frame buffers | `RenderSprites`, `RenderScore` (empty) | reads `Position` and `Sprite`; waits for the GPU before every draw |
| assets, `code/assets.cpp` | textures and atlas layouts | constructor | indices are drawn in `SpawnFruits`, resolved in `render.cpp:26-28` |
| audio, `code/audio.cpp` | none | none: the body is empty, the calls are commented out | |
| program break, `wuehans/syscall.c` `_sbrk` | `heap` | `_sbrk` | newlib's malloc |
| file descriptors, `wuehans/syscall.c` | table of four `FD_Data`, `is_mounted` | `_open`, `_read`, `_write` (returns at once), `_lseek`, `_close` | FatFs |
| FatFs, `lib/fatfs/ff.c` (vendored) | window, FAT, directory, FSInfo, open files and their buffers | `f_mount`, `f_open`, `f_read`, `f_write`, `f_lseek`, `f_truncate`, `f_sync`, `f_close`, `f_unlink`, `f_getfree`, and others nobody calls | `diskio.c` |
| disk access, `lib/fatfs/diskio.c` | a memory-mapped card | `disk_read`, `disk_write`; `disk_ioctl` refuses everything | |
| boot, `wuehans/start.S`, `start.cpp`, `wuehans.ld` | registers, `.bss`, constructor arrays | `_start`, `_main` | `main` |
| image converter, `wuehans/hex8tohex32.py` | current segment | one step per input line | build only |

What has to be true of each, and where it could fail (the full list, line by
line, is `hazards` in `PROJECT.json`):

* **frame loop** - the clock shows the seconds the tick counter leaves; the
  level does not run once it is zero, though the frame in which it becomes zero
  is played to its end; the game ends.
* **level** - the basket stays in the window; every item caught is paid for
  exactly once although its marker survives the call that pays; the registry's
  growth is bounded although nothing is ever destroyed.
* **physics** - the markers agree with what is drawn; `get` and `emplace` are
  called only where their preconditions hold (EnTT does not test them); an item
  cannot fall past the basket's box between two tests.
* **rendering** - no draw is started while the GPU is busy; every atlas cell
  lies inside its texture; a frame is shown whole.
* **program break** - regions handed out are disjoint and inside the heap; a
  full heap is reported.
* **file descriptors** - a descriptor names one open file with a position of its
  own; a slot is reused only after it is closed; what is closed is not worked on
  any more.
* **FatFs** - chains are disjoint, end, and are long enough; no cluster is lost;
  the count of free clusters is that of the FAT; what is read is what was
  written, whatever is in a buffer; no call writes into another file; a card
  taken out between two writes still makes sense.
* **boot** - constructors and `main` run after `.bss` is zero, nothing else of
  the program is cleared, and malloc may be called as soon as constructors are.

## 2. The modules

| module | stands for |
|---|---|
| `Registry` | EnTT as the code uses it: identifiers in order of creation, storages as functions (components with members) or sets (empty structs), emplace, destroy, and the precondition of `get` (`Readable`) |
| `Physics` | `code/physics.cpp`, EXTENDS Registry: one operator per pass |
| `Level` | `code/level.cpp`, EXTENDS Physics: `LevelInit` is the constructor, one operator per operation; `RegistryOK` is its part of the type invariant |
| `Gatherer` | `code/main.cpp`, EXTENDS Level: the specification. `pc` names the call the loop makes next, every call is one step; `frame` counts iterations |
| `Match` | the abstract game: a countdown, items that appear one at a time, are caught at most once and paid for in the step that catches them, and nothing after the end. Three lines of state, no frames, no positions |
| `Display` | `render.cpp` and the calls of Hall in `main.cpp` and `start.cpp`, against a GPU that works on one command at a time and a screen; a frame is a sequence of sprites, and `Cell` the part of a texture each is taken from |
| `Sbrk` | `_sbrk` and the malloc that drives it |
| `Boot`, `Startup` | `_main` with `__init_data` and `__libc_init_array` on a memory of bytes; `Startup` composes it with `Sbrk`: constructors may allocate, and the variable `heap` is one of the words that are cleared |
| `FatWindow` | the card, the window of one sector, FSInfo, `disk_read` and `disk_write` |
| `FatChain` | `create_chain` and `remove_chain`, EXTENDS FatWindow: one access to the FAT per step |
| `FatVolume` | the file functions on top of them: FAT, directory and file objects, in steps with at most one write to the card each, and the console switched off between any two |
| `FileData`, `ByteFile` | the bytes of one file between the caller, the sector buffer and the card, sector by sector; `ByteFile` is what they amount to: a sequence of bytes with a position |
| `FileTable`, `OpenFiles` | the system calls over `FatVolume`, EXTENDS it; `OpenFiles` is the abstract table of descriptors in which each call takes effect at once |
| `MC...` | constants for TLC |
| `..._proofs` | inductive invariants and theorems; `FatVolume_proofs` rests on `FatChain_proofs`, which knows nothing of files but that they are owners of clusters |

State and code correspond by name: `Position`, `WorldPosition`, `Velocity`,
`Parent`, `Collided`, `Fruit`, `Spider`, `Item` are the storages of the
component types; `ticks`, `time`, `score` the members of `Game`; `pressed` the
set in `ButtonInput`. `winsect`, `wflag`, `free_clst`, `last_clst`, `fsi_flag`
are members of `FATFS`; `objsize`, `fptr`, `clust`, `sect` of `FIL`; its flags
are `write`, `modified` and `dirty`. `heap` is the static variable of `_sbrk`.

Definitions introduced by a comment `Variant:` are plausible mistakes in the
definition that follows them - a step left out, an order swapped, a guard
dropped. No specification uses them; `mutants` in `PROJECT.json` pairs each with
the property that excludes it.

*Abstractions, all of data.* Sizes and sprites have no storage in `Gatherer`
because neither changes after emplacement; the random engine is nondeterminism
over what the distributions can yield; there the draw of a frame is one step,
which `Display` takes apart. `RemoveCollisionMarker` removes all markers in one
step, although the code removes them while it iterates over them. A FAT entry is
a number, not 12, 16 or 32 bits of a sector, and the second copy of the FAT,
which nothing reads, is left out. The directory is one sector. `FatVolume` has
no bytes of files and `FileData` no FAT: what `FileData` takes for granted, that
the current cluster is the one of the position, is `CursorOnChain` of
`FatVolume`. Of the tests in the file functions
two are left out because they cannot fail here: that of `FA_READ` in `f_read`
(`ff.c:3945`), since `_open` always sets it, and the clipping of a write at 4 GiB
(`ff.c:4045-4048`). The card is mapped from 0x80000000 on in 32 bits of addresses
(`diskio.c:14`, `:45`), so that no file comes near 4 GiB; for the same reason
`Wrap`, which stands for 2^32, may be assumed to be larger than a file can get
(`TableAssumption`). Lengths given to `_read` are not negative, and `MaxBytes` is
an int.

*External code.* EnTT, Hall and malloc are not in the repository. Hall is
modelled from its callers: a command given to a busy GPU is lost, for otherwise
the polling before each of them would be without purpose; a swap is over at
once, since `start.cpp`, `minimal.cpp` and `main.cpp` clear right after it
without waiting.

## 3. The runs

| run | configuration | shows |
|---|---|---|
| `game` | window 9 x 8, basket 3 x 2, two columns, velocities 1 and 3, 2 s of 4 ticks, an item every 3 ticks, 12 frames; fair | markers, score, clock, registry and fall (`MarkersMatchScreen`, `ScoreLedger`, `EmplaceFresh`, `ClockExact`, `PopulationBounded`, `FallBounded`), `NoTunnelling`, that the loop implements `Match`, and the liveness properties `TouchedIsCollected` and `TimeRunsOut` |
| `game_original` | 400 x 240, 64 x 32 basket, speed 5, period 50, velocity 4, one column, 118 frames; the call of `DespawnItems` restored | `BasketInWindow` and `NoTunnelling` with the numbers of the source, from the start until the first item has fallen out of the window; no dangling parent (`HierarchySound`): nothing emplaces `Item`, so the restored call does nothing (its variant, that emplaces it, leaves the box's parent dangling), and the frames are those of the program without it |
| `display` | the textures of `assets.cpp`; background, basket and up to two items in any order | every frame is shown whole (`ShownWhole`), from cells inside the textures (`CellsInTexture`), nothing is left of what the screen's memory held (`NoGarbage`), and one frame follows another (`FramesGoOn`) |
| `boot` | 17 bytes of `.bss` behind 3 of data, three constructors that make objects anywhere and may allocate | clearing stays in `.bss` (`ClearsBssOnly`), comes before every constructor (`ConstructedFromZero`) and not after one (`ObjectsSurvive`); `main` is reached; the break is that of `Sbrk` from the first call on (`BreakAsSpecified`) |
| `heap` | 8 bytes, requests 1, 2, 3, 5 | the break stays in the heap, regions that moved it are disjoint |
| `heap_full` | the same | expected violation: see section 6 |
| `fat` | three clusters of one byte in two sectors of the FAT; two names, one file object; all modes and calls | chains sound and apart, no cluster lost, the free count exact between calls; when `f_close` returns, the directory entry, the FAT and FSInfo's count of free clusters are on the card (`CloseCommits`) |
| `fat_cursor` | the same with clusters of two bytes, a read-only file, reads and syncs | position and current cluster go together (`CursorOnChain`), a file object without `FA_MODIFIED` agrees with the directory (`UnmodifiedIsCurrent`), nothing falls short unless the card is full (`ShortOnlyWhenFull`) |
| `fat_crash` | three clusters, switched off at any step; fair | the card makes sense by itself at every instant (`CardSound`); every call returns (`CallReturns`) |
| `file_table` | two descriptors, two files and a name that does not exist, any descriptor from 0 to 5, offsets -1 and 1, positions modulo 8 | the system calls implement `OpenFiles`: a seek goes where it is asked to, counted modulo 8, and answers with that as an int; also with one file open twice, a full card, a descriptor closed twice; no closed object is worked on (`ClosedSlotInert`) |
| `seek_to_minus_one` | the same | expected violation: see section 6 |
| `file_data` | two clusters of two sectors of two bytes, lengths 1 and 4, offsets 0, 3, 6 | what is read is what was written (`ReadsWhatWasWritten`, a refinement of `ByteFile`), and no sector of another file is written (`OthersUntouched`) |

*Bounds of the game.* `MaxFrames` closes the window after so many frames;
`SpawnColumns`, `Velocities` and `Increments` stand for the ranges the code draws
from. In `game` an item comes down in three frames at the higher speed and in
eight at the lower, up to two items are marked in one frame, both a fruit and a
spider can be caught or missed, an item is hidden, falls out of the window and
goes on falling, and the clock reaches zero while an item touches the basket and
four frames before the bound. The proportions properties depend on are kept: the
fastest fall is less than the height of an item and the box
(`MaxVelocity <= ItemSize + BoxHeight`), a hidden item is beyond the window
(`WINDOW_WIDTH < HideShift`), the basket's speed does not divide its range.
`game_original` gives up the variety of items and columns for the true numbers.

*Bounds of the files.* Three clusters are the fewest with which a chain can be
stretched past a cluster another file has, and cut in the middle; in two sectors
of the FAT, the window has to be moved and written back within one chain. The
cards begin with a file whose clusters are out of order, a free count that is
known or not, and lengths that are a multiple of the cluster or not. In
`file_data` a transfer of 4 bytes from an odd position has a first part, a whole
sector past the buffer and a last part, and crosses a cluster. Bytes are never
compared by the code, so that one byte that can be told from the others, at any
place, is enough (`MARK`). `Calls`, `Modes`, `MaxBytes`, `MaxOffset`, `Lengths`,
`Offsets` and `Jumps` are bounds of the caller. A disk error is no choice of the
environment: `disk_read` and `disk_write` cannot fail, and `disk_ioctl` always
does.

Of the positions modulo 8 those in a file, 0 to 3, are positive ints, as are all
positions of files on the card; the seek before 0 goes to 7, far behind the end of
any file, and answers -1.

*Bounds of the display.* The items are those at the corners of the two sheets
and at the end of a row; the theorem covers the rest.

*Fairness.* `FairSpec` of `Gatherer` is `Spec /\ WF_vars(Loop)`: the loop takes
its next step. The program has one thread, and the only places where it waits
are the GPU's busy flag (`render.cpp:29`, `main.cpp:82`) and VSync
(`main.cpp:87`). `Display` has both: there the processor, the GPU and the scan
of the screen are weakly fair each, and leaving the VSync loop is strongly fair,
since the signal comes and goes and the loop, which does nothing but poll, is
faster than the signal. `StartupSpec` and the `FairSpec` of `FatVolume` are
weakly fair to the processor. Nothing is assumed about the player, about callers
or about the console staying on: the game may be closed at any poll, which is
why the liveness properties have an alternative that names it. Deadlock is
checked in all runs.

## 4. The proofs

TLAPS checks, for every value of the constants that satisfies the named
assumptions of the modules (all of them evaluated by TLC on the instances, those
of the game also on the source's own numbers in `game_original`):

| theorem | module | property |
|---|---|---|
| `TypeCorrect`, `ParentsReadable`, `MarkersFaithful`, `EmplaceSound`, `BasketStays` | `Gatherer_proofs` | `TypeOK`, `HierarchySound`, `MarkersMatchScreen`, `EmplaceFresh`, `BasketInWindow` |
| `EachPaidOnce`, `FallIsLinear`, `NoItemTunnels`, `ClockIsExact` | `Gatherer_proofs` | `ScoreLedger`, `FallBounded`, `NoTunnelling`, `ClockExact` |
| `RegistryIsBounded`, `LoopImplementsMatch` | `Gatherer_proofs` | `PopulationBounded`, `ImplementsMatch` |
| `FramesAreWhole`, `ScreenIsCleaned`, `AtlasIsSound` | `Display_proofs` | `ShownWhole`, `NoGarbage`, `CellsInTexture` |
| `BreakStays`, `RegionsApart` | `Sbrk_proofs` | `BreakInHeap`, `OwnedDisjoint` |
| `ClearingStaysInBss`, `ObjectsReachMain`, `ConstructorsFindZero`, `BreakIsSbrk` | `Startup_proofs` | `ClearsBssOnly`, `ObjectsSurvive`, `ConstructedFromZero`, `BreakAsSpecified` |
| `ClosedStaysInert`, `TableImplementsOpenFiles` | `FileTable_proofs` | `ClosedSlotInert`, `ImplementsOpenFiles` |
| `OtherFilesAreSafe` | `FileData_proofs` | `OthersUntouched` |
| `FileKeepsItsBytes`, `DataTyped` | `FileData_proofs` | `ReadsWhatWasWritten`, `TypeOK` |
| `VolumeTyped`, `CloseSaves` | `FatVolume_proofs` | `TypeOK`, `CloseCommits` |
| `CardKept` (1) | `FatVolume_proofs` | `CardSound` |
| `FilesKeepChains`, `CursorsKept`, `UnmodifiedKept` (2) | `FatVolume_proofs` | `FilesSound`, `CursorOnChain`, `UnmodifiedIsCurrent` |
| `ClustersKept`, `FreeCounted`, `ShortOnFullCard` (3) | `FatVolume_proofs` | `NoLostClusters`, `FreeCountExact`, `ShortOnlyWhenFull` |

Some theorems about FatFs are for callers that leave out one of the calls in
`Calls`, because with it the property does not hold: (1) without `Truncate`;
(2) without `Truncate` or without `PowerCycle`; (3) without `PowerCycle`. Section
6 says what happens otherwise. The runs leave out the same.

*The game* is a tower of inductive invariants, each resting on the one below.

1. `IInv` = `TypeOK` and `Hierarchy`. `TypeOK` alone is not inductive: a despawned
   item would leave a parent behind, and a second box of the basket would have
   `CollisionCheck` mark the basket. `Hierarchy` adds that nothing has the
   component `Item` and that boxes do not share owners.
2. `FrameInv` adds what holds from pass to pass and over the frame boundary. An
   item that is marked has not been paid for (`Unpaid`) because at the end of the
   frame the marked items were those drawn over the basket
   (`MarkersMatchScreen`), the basket is in the window, and a paid item is beyond
   it (`TouchingNotHidden`). `MarkersMatchScreen` in turn needs that the world
   positions are this frame's (`Settled`), that boxes sit at their owners and
   every item has one (`Boxes`), and that no marker is left (`Unmarked`). That is
   where the order of the calls in `main` enters the proof.
3. `ScoreLedger` follows step by step: a collecting pass hides a set of items
   none of which was hidden (`HideFresh`), so the counts add up. `Fallen` counts
   the frames whose fall is in the positions already; `ClockExact` needs that
   the guard was read before the increment (`Running`).
4. `GameInv` adds `Population`, which ties the number of entities to the tick
   counter, so that a new item always has an identity of `Match` left. The
   refinement then maps every step to a step of `Match` or to a stutter: spawning
   to `Appear`, the collecting passes to `CatchFruit` and `CatchSpider`, the tick
   that completes a second to `Second`; all other steps stutter. The match is
   over when time is zero and the level part of the frame has ended; the call
   that ends it is a catch, possibly of nothing.

*The display*: `ShownWhole` speaks of the instant after a swap only. The
invariant (`Inv`) says what the back buffer will show once the GPU is done
(`After`) at each place of the loop (`Picture`): the commands given since `Clear`,
in order. That `Clear` itself is given to an idle GPU, without polling, follows
from the swap before it having waited. `CellsInTexture` rests on lemmas about
division: an index below rows times columns has a row and a column below both,
and with at most 255 of each the cut to eight bits changes neither.

*Start-up*: the invariant puts the pointer of `__init_data` at a whole number of
words from `_sbss` and says which bytes are cleared already; once it has passed
`_ebss` all of `.bss` is zero and nothing is cleared again. For `BreakIsSbrk`,
`HeapCleared` adds that `heap` is NULL from the end of `__init_data` to the first
allocation, and every step is mapped to one of `Sbrk` or to a stutter.

*Descriptors*: `ClosedSlotInert` is not inductive, because a closed object may
stay valid and `_close` hands any object to `f_close`. `TableInv` adds that only
open objects have `FA_MODIFIED` set (`NothingToSave`), that open ones are valid
(`OpenIsValid`), and that no call runs between system calls (`Working`). Then
`f_close` of a closed object ends at its first tests; and the step that gives up
an open one, although it fails, has cleared the flag.

For the refinement of `OpenFiles` the chains come in, and not as under *Chains*
below: one file may be open twice, so that a cluster has no single owner. But no
call of the table frees a cluster, so chains only grow, at their ends
(`Extends`), and what a walk has reached it reaches again (`ReachedStays`).
`OpenInv` is `Fits`, `TableInv`, and that the chain of every object and of every
directory entry is as long as its size needs (`Roomy`, `Stored`), that the
current cluster is the one of the byte before the position (`AtCluster`), and how
far the read or the seek that runs has come (`Reading`, `Seeking`) and that it
goes where it was asked to (`Asking`). It follows
that FatFs never meets the end of a chain within a file, and that an open
descriptor is always usable (`OpenIsUsable`). A call is a step of `OpenFiles`
when it returns, with what it returns (`ret`, together with what it was asked
for: a length to read, or an offset and what it counts from); every step before
that stutters. `_lseek` returns an unsigned position as an int. `OpenFiles` does
the same (`int`), so that a seek to 2^32 - 1 is a step of it that moves the
position and answers -1; a caller cannot tell it from one that is refused.

*Bytes of a file*: `Inv` says that within a sector the buffer is of a sector of
the current cluster, and a buffer that is yet to be written is of some sector of
the file. The rest is arithmetic on the digits of a position - cluster, sector,
byte: a part ends in the sector it begins in (`PartInCluster`), whole sectors end
in the cluster they begin in (`WholeInCluster`), which is where the clipping at
the cluster enters.

For the refinement of `ByteFile`, `Contents` adds that no cluster is in the chain
twice, that within a sector the buffer is of the sector of the position, and
that a buffer which is of a sector of the file has what was written there, the
card being behind if it is dirty. Two facts carry the steps: an offset has a
sector, by its number from the beginning of the file (`ByNumber`), that no other
number has (`SectorsApart`), so that what a write puts into a sector hides no
byte of another; and in a cluster the numbers follow each other (`Following`), so
that a transfer of several sectors puts each byte in its place. A call is then a
series of steps of `ByteFile`, one for each piece, and all else stutters: writing
the buffer, filling it, what other files do.

*Chains*: what a chain is, the model says as the code does, by following links
(`Walk`), and no induction over walks is to be had from the provers. The proofs
describe a FAT by what every link has to satisfy on its own instead. `Chained`
gives each cluster that is taken an owner - a file, or `Nobody` for a chain a
function has in hand - and a place: the head of an owner is at 0, a cluster at n
is linked to the owner's cluster at n + 1 or ends the chain, one at n + 1 has a
predecessor, and no place is taken twice. The steps of `create_chain` and
`remove_chain` change one link or one head each, so that each preserves this by
inspection (`FatChain_proofs`). Back to walks leads one lemma: a walk from a head
is at place n after n steps, for otherwise there is a least n where it is not.
It follows that walks of different files are apart, end, and are as long as the
last place says (`TellsSound`). The other way, a card that is sound by its walks
has owners and places (`SoundChains`), which starts the induction, at first and
again whenever a card is put in.

*Volume*: `Fits` has the types, that the window agrees with the card where it is
clean, and what is already on the card on the way through `f_sync` (`Saving`).
`CloseSaves` needs no more than that of the file's entry and the FAT. Of FSInfo
it needs `Informed`: while `fsi_flag` is 0, the count on the card is the one in
memory, since the flag is set with every change of the count, and the window
never holds an FSInfo that is still to be written. `Linked` says that a FAT with owners and places
exists (`Kept`) in which the chain in hand is the one the locals of the running
function name (`Loose`), each open file has its chain from `sclust`, long enough
for `objsize`, with `clust` at the place of the position (`Whole`), and the file
of the running call is in whichever state that call has brought it to (`Mine`,
one conjunct per call). That is where the order of writes in `f_write`, `f_lseek`
and `f_open` enters. `Counted` adds that `free_clst`, if known, is the number of
free entries less or plus those the running function has yet to account for.

*The card alone*: `CardSound` is about the card without the window, so without
the last writes to the sector in it. `Recorded` says that the directory entry of
an open file is never ahead of its object: no larger, and with the same first
cluster or none. Then the entries in the window fit the FAT in the window
(`EntryTells`); and a step that writes the card either leaves the FAT and the
entries on it as they are, or makes them those of the window (`CardSteps`). A
truncating call breaks `Recorded`: it shortens the chain below the size in the
entry. With the console switched off, the clusters that were in hand become lost:
they get the owner `Lost`, of which nothing is said, except that no file has
them and no allocation takes them. The invariant is `Fits`, `Linked` and
`Crashes` (`Recorded` and `CardSound`, if there is no truncation), all of which
hold of a card that is put in again because `CardSound` held of it when it was
taken out.

`IInv`, `FrameInv` and `OpenInv` were checked by TLC as invariants of the small
instances before they were proved.

*Only model-checked* are the liveness properties, which rest on fairness, and,
naturally, the violations of section 6. The proofs
about FatFs are as good as `CardAssumption`: what is put in at the beginning is a
sound card without lost clusters, whose FSInfo is right or marked as unknown.

## 5. The plan

Done: the game and its match, the display with the atlases, the break, start-up
composed with the break, FatFs as far as section 2 lists it, the system calls.

Left, in the order of what it would add:

1. Composing `Display` with `Gatherer` in place of its `Render` step. The two
   share no state but the entities that are drawn, which `Display` lets be any of
   `Scenes`; the composition would add no behaviour to either.
2. `f_rename`, `f_mkdir` and `f_readdir` on a directory that is itself a chain,
   with entries that span sectors. Nothing in the repository calls them.
3. FAT entries of 12, 16 and 28 bits and the second copy of the FAT.

## 6. Disagreements and observations

* `HEAP_SIZE` is "Heap Size in Bytes" (`wuehans_config.h:4`). When a request does
  not fit, `_sbrk` leaves the break where it is but returns it exactly as if it
  had fitted (`syscall.c:85-89`), instead of -1. malloc then owns bytes behind
  the end of the heap, which the next request that fits is given again. Run
  `heap_full` (`ObtainedInHeap`) is the shortest such sequence. `OwnedDisjoint`
  in run `heap` is about the calls that moved the break only, for that reason.
* `f_truncate` gives clusters back before the directory entry follows at the next
  `f_sync`: a console switched off in between leaves an entry with a chain that
  is too short. `fat_crash` therefore leaves `Truncate` out; that is a property
  of FatFs as it is, not of its use here.
* FSInfo is written at syncs only. Switched off before that, the card may name a
  free count that is too low or too high; chains do not suffer (`CardSound` says
  nothing about FSInfo), but a count of zero refuses a new cluster
  (`ff.c:1560`) although there is one.
* `_open` opens for reading and writing whatever its flags say
  (`syscall.c:135`), and its comment says it "will not ignore append modes"
  (`syscall.c:134`), which remains open to interpretation. The model does as
  the code does.
* `_lseek` answers an "Invalid lseek call" (`syscall.c:93`) with -1, and has done
  nothing then. It ends with `return ofs;` (`syscall.c:121`), an unsigned number
  of 32 bits as an int, so that every position from 2^31 on is answered with a
  negative number, and the largest with -1. A seek of -1 from the start is one to
  2^32 - 1: it is not refused, the file grows until the card is full, and the
  answer is that of a call that was refused. Run `seek_to_minus_one`
  (`RefusedDoesNothing`) shows it. `OpenFiles` promises what the code does; that
  position and size are left alone by -1 is not among it. Likewise the answer is
  the position asked for even if a full card kept the file from growing to it.
* `heap_begin` is defined at the end of `wuehans.ld`; the models take it as a
  constant.

## 7. What is not modelled

* Audio (empty), `code/minimal.cpp` (an alternative `main` that is not built and
  only clears the screen), `util.hpp` (unused), `wuehans/hex8tohex32.py` (its
  call in `code/CMakeLists.txt:94` is commented out).
* `start.S`: registers and the stack, below the memory of `Boot`.
* Of FatFs: long names and their code pages (`ffunicode.c`, tables for the most
  part), sub-directories, the search for a volume in `find_volume`, fast seek,
  labels, `f_mkfs`, `f_rename`, `f_utime`, strings; FAT entries as bits.
  `ffsystem.c` is compiled to nothing by `ffconf.h`.
* EnTT's packed storages and removal during iteration (`physics.cpp:40`): the
  library is fetched at build time and not in the repository.
* Bitmaps and sounds, newlib archives, build files, and the headers of the C and
  C++ libraries in `system-include/`, which are by far the largest part of the
  lines of the repository: no logic of this program.
