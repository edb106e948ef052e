------------------------------ MODULE FatWindow -----------------------------
(***************************************************************************)
(* The card and the one-sector window through which lib/fatfs/ff.c reads   *)
(* and writes its structures: move_window, sync_window, get_fat, put_fat   *)
(* and the FSInfo part of sync_fs, over the disk_read and disk_write of    *)
(* diskio.c.                                                               *)
(*                                                                         *)
(* A sector is a set of items: the FAT entries of some clusters, the       *)
(* entries of the root directory, or the FSInfo structure.  The card and   *)
(* the window are functions from items to what is stored for them.  The    *)
(* second copy of the FAT, which nothing reads, is left out.               *)
(***************************************************************************)
EXTENDS Integers, FiniteSets

CONSTANTS
  n_fatent,       \* FAT entries; the clusters are 2 .. n_fatent - 1
  PerSector,      \* FAT entries in a sector: SS / 4 on FAT32
  Files,          \* names in the root directory
  FSINFO,         \* the FSInfo structure, an item like a file's entry
  HasInfo,        \* FALSE on FAT12 and FAT16
  InitCards       \* bound: what may be on the card when it is put in

Clusters == 2 .. (n_fatent - 1)
Items    == Clusters \cup Files \cup {FSINFO}

FREE    == 0
EOC     == n_fatent      \* any value from n_fatent on ends a chain
UNKNOWN == n_fatent      \* 0xFFFFFFFF in free_clst and last_clst
NOINFO  == 128           \* fsi_flag on a volume without FSInfo

NOENTRY == [sclust |-> -1, size |-> 0]   \* no such name in the directory
DirEntry == {NOENTRY} \cup [sclust : {0} \cup Clusters, size : Nat]
Info == [free : 0 .. n_fatent, next : 0 .. n_fatent]

VARIABLES
  card,            \* what has been written to the card
  win,             \* FATFS.win: the items of the sector in the window
  winsect,         \* FATFS.winsect; NOSECT once the window is invalidated
  wflag,           \* FATFS.wflag: the window differs from the card
  fs_type,         \* 0 until the volume is mounted
  free_clst, last_clst, fsi_flag

window == <<card, win, winsect, wflag>>
alloc  == <<free_clst, last_clst, fsi_flag>>

NOSECT  == 0 - 1
DIRSECT == 0
FSISECT == 1
FatSector(c) == 2 + (c \div PerSector)

SectorOf(x) == IF x \in Files THEN DIRSECT
               ELSE IF x = FSINFO THEN FSISECT ELSE FatSector(x)

ItemsOf(s) == {x \in Items : SectorOf(x) = s}

\* A cluster holds an entry of the FAT, a name an entry of the directory.
ContentOf(x, v) ==
  IF x \in Files THEN v \in DirEntry
  ELSE IF x = FSINFO THEN v \in Info ELSE v \in {FREE, EOC} \cup Clusters

Contents(m, S) == DOMAIN m = S /\ \A x \in S : ContentOf(x, m[x])

ASSUME WindowAssumption ==
  /\ n_fatent \in Nat /\ n_fatent > 2
  /\ PerSector \in Nat \ {0}
  /\ Files \cap (Nat \cup {FSINFO}) = {} /\ FSINFO \notin Nat
  /\ HasInfo \in BOOLEAN
  /\ \A m \in InitCards : Contents(m, Items)

-----------------------------------------------------------------------------

\* The card after sync_window.
Flushed ==
  [x \in Items |-> IF wflag /\ SectorOf(x) = winsect THEN win[x] ELSE card[x]]

\* What the code would read for item x.
View == [x \in Items |-> IF SectorOf(x) = winsect THEN win[x] ELSE card[x]]

\* Variant: the window is not written back.
CardViaLossy(S) == card

\* The window after move_window to the sectors S in turn, s the last of them:
\* written back at the first move, if it is dirty and another sector is asked
\* for.
CardVia(S) == IF S \subseteq {winsect} THEN card ELSE Flushed
FlagVia(S) == S \subseteq {winsect} /\ wflag
WinVia(S, s) == IF S \subseteq {winsect} THEN win
                ELSE [x \in ItemsOf(s) |-> Flushed[x]]

MoveWindow(S, s) ==
  /\ card' = CardVia(S)
  /\ winsect' = s
  /\ wflag' = FlagVia(S)
  /\ win' = WinVia(S, s)

\* The sector of x comes into the window and x is changed to v in it.
Put(x, v) ==
  LET s == SectorOf(x) IN
  /\ card' = CardVia({s})
  /\ winsect' = s
  /\ wflag' = TRUE
  /\ win' = [WinVia({s}, s) EXCEPT ![x] = v]

SyncWindow ==
  /\ card' = Flushed
  /\ wflag' = FALSE
  /\ UNCHANGED <<win, winsect>>

\* sync_fs, once the window is written back: FSInfo is rebuilt in the window
\* and written, if the allocation has changed on a volume that has one.
WriteInfo ==
  IF fsi_flag = 1
    THEN /\ fsi_flag' = 0
         /\ win' = [x \in {FSINFO} |-> [free |-> free_clst, next |-> last_clst]]
         /\ winsect' = FSISECT
         /\ card' = [card EXCEPT ![FSINFO] = win'[FSINFO]]
         /\ UNCHANGED <<wflag, free_clst, last_clst>>
    ELSE UNCHANGED <<window, alloc>>

-----------------------------------------------------------------------------

\* The FATFS object before the volume is mounted, as f_mount leaves it.
Unmounted ==
  /\ fs_type = 0
  /\ win = [x \in {} |-> FREE] /\ winsect = NOSECT /\ wflag = FALSE
  /\ free_clst = UNKNOWN /\ last_clst = UNKNOWN /\ fsi_flag = NOINFO

\* mount_volume: nothing to do once the volume is mounted, else the counts
\* are taken from FSInfo where there is one.
AtMount ==
  IF fs_type # 0 THEN [free |-> free_clst, next |-> last_clst, flag |-> fsi_flag]
  ELSE IF HasInfo THEN [free |-> card[FSINFO].free, next |-> card[FSINFO].next, flag |-> 0]
  ELSE [free |-> UNKNOWN, next |-> UNKNOWN, flag |-> NOINFO]

MountVolume ==
  /\ fs_type' = 1
  /\ free_clst' = AtMount.free
  /\ last_clst' = AtMount.next
  /\ fsi_flag' = AtMount.flag

\* fsi_flag |= 1
Changed(flag) == IF flag = 0 THEN 1 ELSE flag
=============================================================================
