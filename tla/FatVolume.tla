----------------------------- MODULE FatVolume -----------------------------
(***************************************************************************)
(* The file functions of lib/fatfs/ff.c as wueHans configures it (no       *)
(* exFAT, no file locks, one thread): f_open, f_read, f_write, f_lseek,    *)
(* f_truncate, f_sync, f_close, f_unlink and f_getfree on the chains of    *)
(* FatChain.  A call runs in steps, each with at most one write to the     *)
(* card, and the console may be switched off between any two of them.      *)
(*                                                                         *)
(* Not here: what the bytes of a file are (FileData), names and the order  *)
(* of the directory, which is one sector, and sub-directories.             *)
(***************************************************************************)
EXTENDS FatChain

CONSTANTS
  Fils,        \* file objects of the caller
  bcs,         \* bytes in a cluster
  ReadOnly,    \* files with the attribute AM_RDO
  NOFILE,      \* no file in a file object
  Calls,       \* bound: the functions that are called, and "PowerCycle"
  Modes,       \* bound: the modes files are opened with
  MaxBytes,    \* bound: bytes in one f_read or f_write
  MaxOffset    \* bound: the largest offset given to f_lseek

ASSUME VolumeAssumption ==
  /\ bcs \in Nat \ {0}
  /\ ReadOnly \subseteq Files
  /\ \A m \in InitCards, f \in ReadOnly : m[f] # NOENTRY
  /\ NOFILE \notin Files
  /\ 0 \notin Fils
  /\ MaxBytes \in Nat /\ MaxOffset \in Nat

VARIABLES
  fil,         \* the file objects
  opened,      \* those the caller holds open: from f_open to f_close
  call,        \* the function that runs, its file object and its locals
  res          \* result of the last call

disk   == <<window, fs_type, alloc>>
volume == <<disk, chain, fil, opened, call, res>>

FIL == [fs : BOOLEAN, file : Files \cup {NOFILE}, sclust : {0} \cup Clusters,
        objsize : Nat, fptr : Nat, clust : {0} \cup Clusters,
        write : BOOLEAN, modified : BOOLEAN, err : BOOLEAN]

Blank == [fs |-> FALSE, file |-> NOFILE, sclust |-> 0, objsize |-> 0,
          fptr |-> 0, clust |-> 0, write |-> FALSE, modified |-> FALSE,
          err |-> FALSE]

\* ofs: bytes still to go; cl: in f_open the first cluster of the chain that
\* is removed, new: the file object to be.
Idle == [op |-> "none", fp |-> 0, ofs |-> 0, cl |-> 0, new |-> Blank]
Flags == {"WRITE", "CREATE_NEW", "CREATE_ALWAYS", "OPEN_ALWAYS", "SEEKEND"}
Result == {"OK", "INT_ERR", "INVALID", "DENIED", "EXIST", "NO_FILE", "DISK_ERR"}

TypeOK ==
  /\ Contents(card, Items)
  /\ winsect \in Int /\ Contents(win, ItemsOf(winsect))
  /\ wflag \in BOOLEAN
  /\ fs_type \in {0, 1}
  /\ free_clst \in 0 .. n_fatent /\ last_clst \in 0 .. n_fatent
  /\ fsi_flag \in {0, 1, NOINFO}
  /\ ChainTypeOK
  /\ fil \in [Fils -> FIL]
  /\ opened \subseteq Fils
  /\ call.fp \in Fils \cup {0} /\ call.ofs \in Nat /\ call.cl \in Nat
  /\ call.new \in FIL
  /\ res \in Result

\* Power on: the data segment is zero, the card is what it was.
PowerOn ==
  /\ Unmounted
  /\ pc = "idle" /\ clst = 0 /\ ncl = 0
  /\ fil = [p \in Fils |-> Blank]
  /\ opened = {}
  /\ call = Idle
  /\ res = "OK"

Init == card \in InitCards /\ PowerOn

-----------------------------------------------------------------------------

cur == call.fp
me  == fil[cur]

Valid(p) == fil[p].fs /\ fs_type # 0
Least(a, b) == IF a < b THEN a ELSE b

\* The call goes on at pc = at with n bytes to go.
Enter(op, p, n, at) ==
  /\ call' = [Idle EXCEPT !.op = op, !.fp = p, !.ofs = n]
  /\ pc' = at

Return(r) == /\ pc' = "idle" /\ clst' = 0 /\ ncl' = 0
             /\ call' = Idle
             /\ res' = r

Refuse(r) == res' = r /\ UNCHANGED <<disk, chain, fil, opened, call>>

Become(f) == fil' = [fil EXCEPT ![cur] = f]

\* ABORT: the object is not usable any more.
Abort == Become([me EXCEPT !.err = TRUE]) /\ Return("INT_ERR")

\* Variant: as if no call ended before the boundary.
ChunkWhole == bcs - (me.fptr % bcs)

\* The bytes up to the next cluster boundary, as many as are to go at most.
Chunk == Least(call.ofs, bcs - (me.fptr % bcs))
Advance == call' = [call EXCEPT !.ofs = @ - Chunk]

\* Variant: FA_MODIFIED is not set.
GrownUnmarked(f) ==
  IF f.fptr > f.objsize THEN [f EXCEPT !.objsize = f.fptr] ELSE f

Grown(f) == IF f.fptr > f.objsize
              THEN [f EXCEPT !.objsize = f.fptr, !.modified = TRUE] ELSE f

get_fat(c) == EntryOf(View, c)

\* The n-th cluster behind the first of a chain.
Nth(first, n) == Walk(View, first)[n]

-----------------------------------------------------------------------------

\* The file object for entry e.  A position at the end of the file has the
\* chain followed to it.
Opened(p, f, flags, e) ==
  [fs |-> TRUE, file |-> f, sclust |-> e.sclust, objsize |-> e.size,
   fptr |-> IF "SEEKEND" \in flags THEN e.size ELSE 0,
   clust |-> IF "SEEKEND" \in flags /\ e.size > 0
               THEN Nth(e.sclust, (e.size - 1) \div bcs) ELSE fil[p].clust,
   write |-> "WRITE" \in flags, modified |-> FALSE, err |-> FALSE]

Open(p, f, flags) ==
  LET e == View[f]
      empty == [sclust |-> 0, size |-> 0]
      created == [Opened(p, f, flags, empty) EXCEPT !.modified = TRUE]
      create == {"CREATE_NEW", "CREATE_ALWAYS", "OPEN_ALWAYS"} \cap flags # {}
      refused ==
        IF e = NOENTRY THEN IF create THEN {} ELSE {"NO_FILE"}
        ELSE IF f \in ReadOnly /\ (create \/ "WRITE" \in flags) THEN {"DENIED"}
        ELSE IF "CREATE_NEW" \in flags THEN {"EXIST"} ELSE {}
  IN
  /\ pc = "idle"
  /\ MountVolume
  /\ \/ \E r \in refused :
          /\ MoveWindow({DIRSECT}, DIRSECT)
          /\ fil' = [fil EXCEPT ![p].fs = FALSE]
          /\ res' = r
          /\ UNCHANGED <<chain, opened, call>>
     \/ \* A new name, or an entry set to no clusters
        /\ refused = {} /\ (e = NOENTRY \/ "CREATE_ALWAYS" \in flags)
        /\ Put(f, empty)
        /\ IF e.sclust \in Clusters
             THEN /\ call' = [Idle EXCEPT !.op = "open", !.fp = p,
                               !.cl = e.sclust, !.new = created]
                  /\ pc' = "free" /\ clst' = e.sclust
                  /\ UNCHANGED <<ncl, fil, opened, res>>
             ELSE /\ fil' = [fil EXCEPT ![p] = created]
                  /\ opened' = opened \cup {p}
                  /\ res' = "OK"
                  /\ UNCHANGED <<chain, call>>
     \/ \* An existing file
        /\ refused = {} /\ e # NOENTRY /\ "CREATE_ALWAYS" \notin flags
        /\ LET n == IF "SEEKEND" \in flags /\ e.size > 0
                      THEN (e.size - 1) \div bcs ELSE 0
               steps == {k \in 0 .. n - 1 : Nth(e.sclust, k) \in Clusters}
               sector(k) == SectorOf(Nth(e.sclust, k))
               last == Nth(e.sclust, n)
           IN
           /\ IF steps = {} THEN MoveWindow({DIRSECT}, DIRSECT)
              ELSE \E k \in steps :
                     /\ \A j \in steps : j <= k
                     /\ MoveWindow({DIRSECT} \cup {sector(j) : j \in steps},
                                   sector(k))
           /\ IF n = 0 \/ last \in Clusters
                THEN /\ fil' = [fil EXCEPT ![p] = Opened(p, f, flags, e)]
                     /\ opened' = opened \cup {p}
                     /\ res' = "OK"
                ELSE /\ fil' = [fil EXCEPT ![p].fs = FALSE]
                     /\ res' = "INT_ERR"
                     /\ UNCHANGED opened
           /\ UNCHANGED <<chain, call>>

\* f_open once the old chain is gone: the next cluster is looked for there.
OpenEmptied ==
  /\ pc = "removed" /\ call.op = "open"
  /\ MoveWindow({DIRSECT}, DIRSECT)
  /\ last_clst' = call.cl - 1
  /\ Become(call.new)
  /\ opened' = opened \cup {cur}
  /\ Return("OK")
  /\ UNCHANGED <<fs_type, free_clst, fsi_flag>>

-----------------------------------------------------------------------------

\* validate and the error an earlier call left, as all but f_sync test them.
Usable(p) == Valid(p) /\ ~fil[p].err

Unusable(p) ==
  /\ pc = "idle" /\ ~Usable(p)
  /\ Refuse(IF Valid(p) THEN "INT_ERR" ELSE "INVALID")

Read(p, n) ==
  /\ pc = "idle" /\ Usable(p)
  /\ Enter("read", p, Least(n, fil[p].objsize - fil[p].fptr), "read")
  /\ UNCHANGED <<disk, clst, ncl, fil, opened, res>>

ReadNext ==
  LET c == IF me.fptr % bcs # 0 THEN me.clust
           ELSE IF me.fptr = 0 THEN me.sclust ELSE get_fat(me.clust)
      far == call.ofs > 0 /\ me.fptr > 0 /\ me.fptr % bcs = 0
  IN
  /\ pc = "read"
  /\ IF far THEN MoveWindow({SectorOf(me.clust)}, SectorOf(me.clust))
            ELSE UNCHANGED window
  /\ IF call.ofs = 0 THEN Return("OK") /\ UNCHANGED fil
     ELSE IF c \notin Clusters THEN Abort
     ELSE /\ Become([me EXCEPT !.clust = c, !.fptr = @ + Chunk])
          /\ Advance
          /\ UNCHANGED <<chain, res>>
  /\ UNCHANGED <<fs_type, alloc, opened>>

Write(p, n) ==
  /\ pc = "idle" /\ Usable(p)
  /\ \/ fil[p].write  /\ Enter("write", p, n, "write")
                       /\ UNCHANGED <<disk, clst, ncl, fil, opened, res>>
     \/ ~fil[p].write /\ Refuse("DENIED")

\* The bytes that fit in cluster c are written to it.
WriteTo(c) ==
  LET end == me.fptr + Chunk IN
  /\ Become([me EXCEPT !.clust = c, !.fptr = end,
                       !.sclust = IF @ = 0 THEN c ELSE @,
                       !.objsize = IF end > @ THEN end ELSE @])
  /\ Advance
  /\ pc' = "write"
  /\ UNCHANGED <<clst, ncl, res>>

WriteDone == Become([me EXCEPT !.modified = TRUE]) /\ Return("OK")

WriteNext ==
  /\ pc = "write"
  /\ \/ call.ofs = 0 /\ WriteDone
     \/ /\ call.ofs > 0 /\ (me.fptr % bcs # 0 \/ (me.fptr = 0 /\ me.sclust # 0))
        /\ WriteTo(IF me.fptr = 0 THEN me.sclust ELSE me.clust)
     \/ /\ call.ofs > 0 /\ me.fptr % bcs = 0
        /\ me.fptr = 0 => me.sclust = 0
        /\ clst' = IF me.fptr = 0 THEN 0 ELSE me.clust
        /\ pc' = "create"
        /\ UNCHANGED <<ncl, fil, call, res>>
  /\ UNCHANGED <<disk, opened>>

\* Variant: a full card is tried again.
WriteCreatedRetry ==
  /\ pc = "created" /\ call.op = "write"
  /\ \/ ncl = NOSPACE /\ pc' = "write" /\ UNCHANGED <<clst, ncl, fil, call, res>>
     \/ ncl = INSANITY /\ Abort
     \/ ncl \in Clusters /\ WriteTo(ncl)
  /\ UNCHANGED <<disk, opened>>

\* create_chain has returned to f_write.  A full card makes the write short.
WriteCreated ==
  /\ pc = "created" /\ call.op = "write"
  /\ \/ ncl = NOSPACE  /\ WriteDone
     \/ ncl = INSANITY /\ Abort
     \/ ncl \in Clusters /\ WriteTo(ncl)
  /\ UNCHANGED <<disk, opened>>

-----------------------------------------------------------------------------

\* Variant: the cluster of a position is that of the byte behind it.
AheadOf(ofs, fptr) == ofs \div bcs >= fptr \div bcs

\* The last byte before ofs is in the cluster of the last one before fptr, or
\* further on.
Ahead(ofs, fptr) == (ofs - 1) \div bcs >= (fptr - 1) \div bcs

Seek(p, target) ==
  LET f   == fil[p]
      ofs == IF target > f.objsize /\ ~f.write THEN f.objsize ELSE target
      ahead == f.fptr > 0 /\ Ahead(ofs, f.fptr)
      base == ((f.fptr - 1) \div bcs) * bcs
  IN
  /\ pc = "idle" /\ Usable(p)
  /\ \/ /\ ofs = 0
        /\ fil' = [fil EXCEPT ![p].fptr = 0]
        /\ res' = "OK"
        /\ UNCHANGED <<chain, call>>
     \/ /\ ofs > 0 /\ ahead
        /\ fil' = [fil EXCEPT ![p].fptr = base]
        /\ Enter("seek", p, ofs - base, "seek")
        /\ UNCHANGED <<clst, ncl, res>>
     \/ /\ ofs > 0 /\ ~ahead /\ f.sclust # 0
        /\ fil' = [fil EXCEPT ![p].fptr = 0, ![p].clust = f.sclust]
        /\ Enter("seek", p, ofs, "seek")
        /\ UNCHANGED <<clst, ncl, res>>
     \/ /\ ofs > 0 /\ ~ahead /\ f.sclust = 0
        /\ fil' = [fil EXCEPT ![p].fptr = 0]
        /\ Enter("seek", p, ofs, "create")
        /\ clst' = 0
        /\ UNCHANGED <<ncl, res>>
  /\ UNCHANGED <<disk, opened>>

\* One cluster on.  A file opened for writing is stretched where it ends.
SeekNext ==
  LET f == [me EXCEPT !.fptr = @ + bcs]
      c == get_fat(me.clust)
  IN
  /\ pc = "seek"
  /\ \/ /\ call.ofs <= bcs
        /\ Become(Grown([me EXCEPT !.fptr = @ + call.ofs]))
        /\ Return("OK")
        /\ UNCHANGED window
     \/ /\ call.ofs > bcs /\ me.write
        /\ Become(f)
        /\ call' = [call EXCEPT !.ofs = @ - bcs]
        /\ clst' = me.clust /\ pc' = "create"
        /\ UNCHANGED <<window, ncl, res>>
     \/ /\ call.ofs > bcs /\ ~me.write
        /\ MoveWindow({SectorOf(me.clust)}, SectorOf(me.clust))
        /\ IF c \in Clusters
             THEN /\ Become([f EXCEPT !.clust = c])
                  /\ call' = [call EXCEPT !.ofs = @ - bcs]
                  /\ UNCHANGED <<chain, res>>
             ELSE Abort
  /\ UNCHANGED <<fs_type, alloc, opened>>

\* create_chain has returned to f_lseek.  On a full card the position is left
\* at the end of the last cluster.
SeekCreated ==
  /\ pc = "created" /\ call.op = "seek"
  /\ \/ ncl = NOSPACE  /\ Become(Grown(me)) /\ Return("OK")
     \/ ncl = INSANITY /\ Abort
     \/ /\ ncl \in Clusters
        /\ Become([me EXCEPT !.clust = ncl, !.sclust = IF @ = 0 THEN ncl ELSE @])
        /\ pc' = "seek"
        /\ UNCHANGED <<clst, ncl, call, res>>
  /\ UNCHANGED <<disk, opened>>

-----------------------------------------------------------------------------

Cropped(f) == [f EXCEPT !.objsize = f.fptr, !.modified = TRUE]

Truncate(p) ==
  LET f == fil[p]
      c == get_fat(f.clust)
  IN
  /\ pc = "idle" /\ Usable(p)
  /\ \/ /\ ~f.write \/ f.fptr >= f.objsize
        /\ res' = IF f.write THEN "OK" ELSE "DENIED"
        /\ UNCHANGED <<window, chain, fil, call>>
     \/ /\ f.write /\ f.fptr = 0 /\ f.objsize > 0
        /\ Enter("truncate", p, 0, "free")
        /\ clst' = f.sclust
        /\ UNCHANGED <<window, ncl, fil, res>>
     \/ /\ f.write /\ 0 < f.fptr /\ f.fptr < f.objsize
        /\ MoveWindow({SectorOf(f.clust)}, SectorOf(f.clust))
        /\ \/ /\ c = EOC
              /\ fil' = [fil EXCEPT ![p] = Cropped(f)]
              /\ res' = "OK"
              /\ UNCHANGED <<chain, call>>
           \/ /\ c \in Clusters
              /\ Enter("truncate", p, 0, "cut")
              /\ clst' = c /\ ncl' = f.clust
              /\ UNCHANGED <<fil, res>>
           \/ /\ c = FREE
              /\ fil' = [fil EXCEPT ![p] = [Cropped(f) EXCEPT !.err = TRUE]]
              /\ res' = "INT_ERR"
              /\ UNCHANGED <<chain, call>>
  /\ UNCHANGED <<fs_type, alloc, opened>>

Truncated ==
  /\ pc = "removed" /\ call.op = "truncate"
  /\ Become(Cropped([me EXCEPT !.sclust = IF me.fptr = 0 THEN 0 ELSE @]))
  /\ Return("OK")
  /\ UNCHANGED <<disk, opened>>

\* f_sync, and the f_sync in f_close: nothing to write for a file that has not
\* changed.  The caller gives the object up at f_close, whatever it returns.
Sync(op, p) ==
  LET f == fil[p] IN
  /\ pc = "idle"
  /\ \/ /\ ~Valid(p) \/ ~f.modified
        /\ res' = IF Valid(p) THEN "OK" ELSE "INVALID"
        /\ fil' = [fil EXCEPT ![p].fs = @ /\ op # "close"]
        /\ opened' = IF op = "close" THEN opened \ {p} ELSE opened
        /\ UNCHANGED <<window, chain, call>>
     \/ /\ Valid(p) /\ f.modified
        /\ Put(f.file, [sclust |-> f.sclust, size |-> f.objsize])
        /\ Enter(op, p, 0, "flush")
        /\ UNCHANGED <<clst, ncl, fil, opened, res>>
  /\ UNCHANGED <<fs_type, alloc>>

\* Variant: the window is not written.
FlushNothing ==
  /\ pc = "flush"
  /\ pc' = "info"
  /\ UNCHANGED <<disk, clst, ncl, fil, opened, call, res>>

\* sync_fs, in two writes.
Flush ==
  /\ pc = "flush"
  /\ SyncWindow
  /\ pc' = "info"
  /\ UNCHANGED <<fs_type, alloc, clst, ncl, fil, opened, call, res>>

\* Variant: FA_MODIFIED is cleared only if sync_fs has succeeded.
SunkModified ==
  /\ pc = "info"
  /\ WriteInfo
  /\ opened' = IF call.op = "close" THEN opened \ {cur} ELSE opened
  /\ Return("DISK_ERR")
  /\ UNCHANGED <<fs_type, fil>>

\* disk_ioctl knows no command, so a sync that had something to write fails;
\* f_close does not invalidate the object then.
Sunk ==
  /\ pc = "info"
  /\ WriteInfo
  /\ IF call.op = "unlink" THEN UNCHANGED <<fil, opened>>
     ELSE /\ Become([me EXCEPT !.modified = FALSE])
          /\ opened' = IF call.op = "close" THEN opened \ {cur} ELSE opened
  /\ Return("DISK_ERR")
  /\ UNCHANGED fs_type

-----------------------------------------------------------------------------

Unlink(f) ==
  LET e == View[f] IN
  /\ pc = "idle"
  /\ MountVolume
  /\ IF e = NOENTRY \/ f \in ReadOnly
       THEN /\ MoveWindow({DIRSECT}, DIRSECT)
            /\ res' = IF e = NOENTRY THEN "NO_FILE" ELSE "DENIED"
            /\ UNCHANGED <<chain, call>>
       ELSE /\ Put(f, NOENTRY)
            /\ call' = [Idle EXCEPT !.op = "unlink"]
            /\ pc' = IF e.sclust = 0 THEN "flush" ELSE "free"
            /\ clst' = e.sclust
            /\ UNCHANGED <<ncl, res>>
  /\ UNCHANGED <<fil, opened>>

Unlinked ==
  /\ pc = "removed" /\ call.op = "unlink"
  /\ pc' = "flush"
  /\ UNCHANGED <<disk, clst, ncl, fil, opened, call, res>>

\* f_getfree: the FAT is counted if the number is not known.
GetFree ==
  /\ pc = "idle"
  /\ res' = "OK"
  /\ IF AtMount.free <= n_fatent - 2
       THEN MountVolume /\ UNCHANGED window
       ELSE /\ fs_type' = 1
            /\ free_clst' = Cardinality(FreeClusters)
            /\ last_clst' = AtMount.next
            /\ fsi_flag' = Changed(AtMount.flag)
            /\ MoveWindow({SectorOf(c) : c \in Clusters}, SectorOf(n_fatent - 1))
  /\ UNCHANGED <<chain, fil, opened, call>>

\* Switched off and on again: PowerOn, in the next state.
PowerCycle ==
  /\ UNCHANGED card
  /\ win' = [x \in {} |-> FREE] /\ winsect' = NOSECT /\ wflag' = FALSE
  /\ fs_type' = 0
  /\ free_clst' = UNKNOWN /\ last_clst' = UNKNOWN /\ fsi_flag' = NOINFO
  /\ fil' = [p \in Fils |-> Blank]
  /\ opened' = {}
  /\ Return("OK")

-----------------------------------------------------------------------------

\* What the caller does: it uses file objects it has opened, and keeps to
\* ffconf.h, which leaves it to the caller that no open file is opened again
\* or removed.
NotOpen(f) == \A q \in opened : fil[q].file # f

Call ==
  \/ \E p \in Fils \ opened, f \in Files, m \in Modes :
       "Open" \in Calls /\ NotOpen(f) /\ Open(p, f, m)
  \/ \E p \in opened, n \in 0 .. MaxBytes :
       \/ "Read" \in Calls /\ Read(p, n)
       \/ "Write" \in Calls /\ Write(p, n)
  \/ \E p \in opened, o \in 0 .. MaxOffset : "Seek" \in Calls /\ Seek(p, o)
  \/ \E p \in opened :
       \/ Unusable(p)
       \/ "Truncate" \in Calls /\ Truncate(p)
       \/ "Sync" \in Calls /\ Sync("sync", p)
       \/ "Close" \in Calls /\ Sync("close", p)
  \/ \E f \in Files : "Unlink" \in Calls /\ NotOpen(f) /\ Unlink(f)
  \/ "GetFree" \in Calls /\ GetFree

\* A step of the call that runs.
Step ==
  \/ ChainStep /\ UNCHANGED <<fs_type, fil, opened, call, res>>
  \/ OpenEmptied \/ ReadNext \/ WriteNext \/ WriteCreated
  \/ SeekNext \/ SeekCreated \/ Truncated \/ Flush \/ Sunk \/ Unlinked

Next == Call \/ Step \/ ("PowerCycle" \in Calls /\ PowerCycle)

Spec == Init /\ [][Next]_volume

\* The processor goes on with a call.
FairSpec == Spec /\ WF_volume(Step)

-----------------------------------------------------------------------------

\* The files have chains of their own, of allocated clusters, that end and are
\* long enough.
Sound(m, entry) ==
  \A f \in Files :
    LET own == ChainIn(m, entry[f].sclust) IN
    /\ \A c \in own : m[c] # FREE
    /\ own # {} => \E c \in own : m[c] = EOC
    /\ entry[f].size <= bcs * Cardinality(own)
    /\ \A g \in Files \ {f} : own \cap ChainIn(m, entry[g].sclust) = {}

\* What is put in holds files and nothing else: a cluster that is taken is a
\* file's, and the count in FSInfo is right or marked as unknown.
ASSUME CardAssumption ==
  \A m \in InitCards :
    /\ Sound(m, m)
    /\ \A c \in Clusters : m[c] # FREE => \E f \in Files : c \in ChainIn(m, m[f].sclust)
    /\ HasInfo /\ m[FSINFO].free <= n_fatent - 2 =>
         m[FSINFO].free = Cardinality({c \in Clusters : m[c] = FREE})

\* What is known of a file: in the object it is open with, or in the directory.
Known == [f \in Files |->
           IF NotOpen(f) THEN View[f]
           ELSE LET p == CHOOSE q \in opened : fil[q].file = f
                IN  [sclust |-> fil[p].sclust, size |-> fil[p].objsize]]

\* The card by itself makes sense at every instant: whenever the console is
\* switched off, no file has a chain too short for its size, a freed cluster
\* or one of another file.
CardSound == Sound(card, card)

\* Between calls the same holds for the files as they are, open or not.
FilesSound == pc = "idle" => Sound(View, Known)

\* Every cluster that is taken belongs to a file.
NoLostClusters ==
  pc = "idle" =>
    \A c \in Clusters \ FreeClusters :
      \E f \in Files : c \in ChainIn(View, Known[f].sclust)

\* The count of free clusters is that of the FAT, where there is one.
FreeCountExact ==
  pc = "idle" /\ fs_type # 0 /\ free_clst <= n_fatent - 2 =>
    free_clst = Cardinality(FreeClusters)

\* fptr and clust belong together: clust is the cluster of the byte before
\* the position, whatever was read, written, sought and cut in between.
CursorOnChain ==
  pc = "idle" =>
    \A p \in opened :
      /\ fil[p].fptr <= fil[p].objsize
      /\ fil[p].fptr > 0 =>
           fil[p].clust = Nth(fil[p].sclust, (fil[p].fptr - 1) \div bcs)

\* A file object without FA_MODIFIED agrees with the directory: closing it,
\* which writes nothing then, loses nothing.
UnmodifiedIsCurrent ==
  pc = "idle" =>
    \A p \in opened :
      \/ fil[p].modified
      \/ View[fil[p].file] =
           [sclust |-> fil[p].sclust, size |-> fil[p].objsize]

\* A write or a seek falls short only if no cluster was left.
ShortOnlyWhenFull ==
  [][ pc # "idle" /\ call.op \in {"write", "seek"} /\ pc' = "idle"
      /\ res' = "OK" /\ fil'[cur].fptr < me.fptr + call.ofs
        => FreeClusters = {} ]_volume

\* When f_close returns, and the console stays on, what it was to save is on
\* the card, the count of free clusters in FSInfo is the one in memory, and
\* nothing is left in the window.
CloseCommits ==
  [][ pc = "info" /\ call.op = "close" /\ pc' = "idle" /\ fs_type' # 0
        => /\ card'[me.file] = [sclust |-> me.sclust, size |-> me.objsize]
           /\ ~wflag'
           /\ \A x \in Items \ {FSINFO} : card'[x] = View[x]
           /\ HasInfo => card'[FSINFO].free = free_clst' ]_volume

\* Every call returns.
CallReturns == pc # "idle" ~> pc = "idle"
=============================================================================
