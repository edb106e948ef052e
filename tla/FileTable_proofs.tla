-------------------------- MODULE FileTable_proofs --------------------------
(***************************************************************************)
(* FatFs works on the objects of open descriptors only, for every number   *)
(* of descriptors, every card and every sequence of system calls, those on *)
(* descriptors that were closed before or never opened included; and the   *)
(* system calls together implement OpenFiles: positions and sizes are what *)
(* the calls make of them, whichever steps FatFs takes in between.         *)
(***************************************************************************)
EXTENDS FileTable, FatVolume_proofs

ObjectFields == {"fs", "file", "sclust", "objsize", "fptr", "clust", "write",
           "modified", "err"}
Locals == {"op", "fp", "ofs", "cl", "new"}

Shape ==
  /\ DOMAIN fil = Fils
  /\ \A p \in Fils : DOMAIN fil[p] = ObjectFields
  /\ DOMAIN call = Locals

\* Only what is open has something to save.  An object that _close has marked
\* free may still be valid, but f_close finds nothing to do for it.
NothingToSave == \A p \in Fils : fil[p].modified => p \in opened

\* What is open is valid: f_sync does look at it.
OpenIsValid ==
  /\ opened \subseteq Fils
  /\ \A p \in opened : fil[p].fs
  /\ opened # {} => fs_type # 0

\* The calls of syscall.c run f_open with no option to create, in one step.
Working ==
  /\ cur # 0 => cur \in opened
  /\ pc = "idle" => cur = 0
  /\ call.op # "open"

TableInv == Shape /\ NothingToSave /\ OpenIsValid /\ Working

-----------------------------------------------------------------------------

LEMMA IdleShape ==
  /\ DOMAIN Idle = Locals /\ Idle.fp = 0 /\ Idle.op = "none"
  BY DEF Idle, Locals

LEMMA CallEntered ==
  ASSUME NEW op, NEW p, NEW n, NEW at, Enter(op, p, n, at)
  PROVE  DOMAIN call' = Locals /\ call'.fp = p /\ call'.op = op /\ pc' = at
  BY DEF Enter, Idle, Locals

LEMMA Returned ==
  ASSUME NEW r, Return(r)
  PROVE  DOMAIN call' = Locals /\ call'.fp = 0 /\ call'.op = "none" /\ pc' = "idle"
  BY IdleShape DEF Return

LEMMA MyFields ==
  ASSUME TableInv, cur \in Fils
  PROVE  DOMAIN me = ObjectFields /\ me.fs /\ cur \in opened
  BY VolumeAssumption DEF TableInv, Shape, OpenIsValid, Working, me

\* What is left to show of a step that sees to its call.
Files_OK ==
  /\ DOMAIN fil = Fils /\ \A p \in Fils : DOMAIN fil[p] = ObjectFields
  /\ NothingToSave /\ OpenIsValid

LEMMA Unchanged ==
  ASSUME TableInv, UNCHANGED <<fs_type, fil, opened>>
  PROVE  Files_OK'
  BY DEF TableInv, Shape, NothingToSave, OpenIsValid, Files_OK

\* The object of the call that runs is changed.
LEMMA Became ==
  ASSUME TableInv, NEW f, cur \in Fils => DOMAIN f = ObjectFields /\ f.fs, Become(f),
         fs_type' = fs_type, opened' \in {opened, opened \ {cur}},
         cur \in Fils => cur \in opened' \/ ~f.modified
  PROVE  Files_OK'
  <1>1. DOMAIN fil' = Fils /\ \A p \in Fils : fil'[p] = IF p = cur THEN f ELSE fil[p]
    BY DEF TableInv, Shape, Become
  <1>2. \A p \in Fils : DOMAIN fil'[p] = ObjectFields
    BY <1>1 DEF TableInv, Shape
  <1>3. \A p \in Fils : fil'[p].modified => p \in opened'
    BY <1>1 DEF TableInv, NothingToSave
  <1>4. OpenIsValid'
    BY <1>1 DEF TableInv, OpenIsValid
  <1> QED BY <1>1, <1>2, <1>3, <1>4 DEF NothingToSave, Files_OK

LEMMA BecameOpen ==
  ASSUME TableInv, NEW f, cur \in Fils => DOMAIN f = ObjectFields /\ f.fs, Become(f), UNCHANGED <<fs_type, opened>>
  PROVE  Files_OK'
  <1>1. cur \in Fils => cur \in opened'
    BY MyFields DEF ObjectFields
  <1> QED BY <1>1, Became

\* FatFs goes on with the call ...
LEMMA StillWorking ==
  ASSUME TableInv, Files_OK',
         call' = call \/ (DOMAIN call' = Locals /\ call'.fp = cur /\ call'.op = call.op),
         pc' # "idle", opened' = opened
  PROVE  TableInv'
  BY DEF TableInv, Shape, Working, cur, Files_OK

\* ... or has ended it.
LEMMA CallOver ==
  ASSUME TableInv, Files_OK', NEW r, Return(r)
  PROVE  TableInv'
  <1>1. DOMAIN call' = Locals /\ call'.fp = 0 /\ call'.op = "none" /\ pc' = "idle"
    BY Returned
  <1> QED BY <1>1 DEF TableInv, Shape, Working, cur, Files_OK

LEMMA Advanced ==
  ASSUME TableInv, NEW n, call' = [call EXCEPT !.ofs = n]
  PROVE  DOMAIN call' = Locals /\ call'.fp = cur /\ call'.op = call.op
  BY DEF TableInv, Shape, Locals, cur

LEMMA Aborted ==
  ASSUME TableInv, Abort, UNCHANGED <<fs_type, opened>>
  PROVE  TableInv'
  <1> DEFINE f == [me EXCEPT !.err = TRUE]
  <1>1. Become(f) /\ Return("INT_ERR")
    BY DEF Abort
  <1>2. cur \in Fils => DOMAIN f = ObjectFields /\ f.fs
    BY MyFields DEF ObjectFields
  <1> HIDE DEF f
  <1> QED BY <1>1, <1>2, BecameOpen, CallOver

-----------------------------------------------------------------------------

LEMMA ChainSteps ==
  ASSUME TableInv, ChainStep, UNCHANGED <<fs_type, fil, opened, call, res>>
  PROVE  TableInv'
  <1>1. pc' # "idle"
    BY DEF ChainStep, Follow, Full, Find, Mark, Link, Cut, FreeNext
  <1> QED BY <1>1, Unchanged, StillWorking

LEMMA ReadSteps ==
  ASSUME TableInv, ReadNext
  PROVE  TableInv'
  <1>1. UNCHANGED <<fs_type, opened>> /\ pc = "read"
    BY DEF ReadNext
  <1>2. CASE UNCHANGED fil /\ Return("OK")
    BY <1>1, <1>2, Unchanged, CallOver
  <1>3. CASE Abort
    BY <1>1, <1>3, Aborted
  <1>4. ASSUME NEW c, Become([me EXCEPT !.clust = c, !.fptr = @ + Chunk]),
               Advance, UNCHANGED <<chain, res>>
        PROVE  TableInv'
    <2> DEFINE f == [me EXCEPT !.clust = c, !.fptr = @ + Chunk]
    <2>1. cur \in Fils => DOMAIN f = ObjectFields /\ f.fs
      BY MyFields DEF ObjectFields
    <2>2. Become(f)
      BY <1>4
    <2> HIDE DEF f
    <2>3. Files_OK'
      BY <1>1, <2>1, <2>2, BecameOpen
    <2>4. DOMAIN call' = Locals /\ call'.fp = cur /\ call'.op = call.op
      BY <1>4, Advanced DEF Advance
    <2>5. pc' = "read"
      BY <1>1, <1>4 DEF chain
    <2> QED BY <1>1, <2>3, <2>4, <2>5, StillWorking
  <1> QED BY <1>2, <1>3, <1>4 DEF ReadNext

LEMMA WritesTo ==
  ASSUME TableInv, NEW c, WriteTo(c), UNCHANGED <<fs_type, opened>>
  PROVE  TableInv'
  <1> DEFINE end == me.fptr + Chunk
             f == [me EXCEPT !.clust = c, !.fptr = end,
                       !.sclust = IF @ = 0 THEN c ELSE @,
                       !.objsize = IF end > @ THEN end ELSE @]
  <1>1. Become(f) /\ Advance /\ pc' = "write"
    BY DEF WriteTo
  <1>2. cur \in Fils => DOMAIN f = ObjectFields /\ f.fs
    BY MyFields DEF ObjectFields
  <1> HIDE DEF f
  <1>3. DOMAIN call' = Locals /\ call'.fp = cur /\ call'.op = call.op
    BY <1>1, Advanced DEF Advance
  <1> QED BY <1>1, <1>2, <1>3, BecameOpen, StillWorking

LEMMA WritesDone ==
  ASSUME TableInv, WriteDone, UNCHANGED <<fs_type, opened>>
  PROVE  TableInv'
  <1> DEFINE f == [me EXCEPT !.modified = TRUE]
  <1>1. Become(f) /\ Return("OK")
    BY DEF WriteDone
  <1>2. cur \in Fils => DOMAIN f = ObjectFields /\ f.fs
    BY MyFields DEF ObjectFields
  <1> HIDE DEF f
  <1> QED BY <1>1, <1>2, BecameOpen, CallOver

LEMMA WriteSteps ==
  ASSUME TableInv, WriteNext \/ WriteCreated
  PROVE  TableInv'
  <1>1. UNCHANGED <<fs_type, opened>>
    BY DEF WriteNext, WriteCreated, disk
  <1>2. CASE WriteDone
    BY <1>1, <1>2, WritesDone
  <1>3. ASSUME NEW c, WriteTo(c) PROVE TableInv'
    BY <1>1, <1>3, WritesTo
  <1>4. CASE Abort
    BY <1>1, <1>4, Aborted
  <1>5. CASE pc' = "create" /\ UNCHANGED <<ncl, fil, call, res>>
    BY <1>1, <1>5, Unchanged, StillWorking
  <1> QED BY <1>2, <1>3, <1>4, <1>5 DEF WriteNext, WriteCreated

LEMMA GrownShape ==
  ASSUME NEW f, DOMAIN f = ObjectFields /\ f.fs
  PROVE  DOMAIN Grown(f) = ObjectFields /\ Grown(f).fs
  BY DEF Grown, ObjectFields

LEMMA SeekSteps ==
  ASSUME TableInv, SeekNext \/ SeekCreated
  PROVE  TableInv'
  <1>1. UNCHANGED <<fs_type, opened>>
    BY DEF SeekNext, SeekCreated, disk
  <1>2. ASSUME NEW f, cur \in Fils => DOMAIN f = ObjectFields /\ f.fs, Become(f), Return("OK")
        PROVE  TableInv'
    BY <1>1, <1>2, BecameOpen, CallOver
  <1>3. ASSUME NEW f, cur \in Fils => DOMAIN f = ObjectFields /\ f.fs, Become(f), pc' # "idle",
               \/ call' = call
               \/ \E n : call' = [call EXCEPT !.ofs = n]
        PROVE  TableInv'
    <2>1. Files_OK'
      BY <1>1, <1>3, BecameOpen
    <2>2. call' = call \/ (DOMAIN call' = Locals /\ call'.fp = cur /\ call'.op = call.op)
      BY <1>3, Advanced
    <2> QED BY <1>1, <1>3, <2>1, <2>2, StillWorking
  <1>4. CASE Abort
    BY <1>1, <1>4, Aborted
  <1>5. CASE SeekNext
    <2> DEFINE f == [me EXCEPT !.fptr = @ + bcs]
               g == [me EXCEPT !.fptr = @ + call.ofs]
               h(c) == [f EXCEPT !.clust = c]
    <2>1. cur \in Fils => DOMAIN f = ObjectFields /\ DOMAIN g = ObjectFields /\ f.fs /\ g.fs
      BY MyFields DEF ObjectFields
    <2>2. cur \in Fils => DOMAIN Grown(g) = ObjectFields /\ Grown(g).fs
      BY <2>1, GrownShape
    <2>3. ASSUME NEW c PROVE cur \in Fils => DOMAIN h(c) = ObjectFields /\ h(c).fs
      BY <2>1 DEF ObjectFields
    <2>4. CASE Become(Grown(g)) /\ Return("OK")
      <3> HIDE DEF g
      <3> QED BY <1>2, <2>2, <2>4
    <2>5. CASE Become(f) /\ call' = [call EXCEPT !.ofs = @ - bcs] /\ pc' = "create"
      <3> HIDE DEF f
      <3> QED BY <1>3, <2>1, <2>5
    <2>6. ASSUME NEW c, pc = "seek", Become(h(c)), call' = [call EXCEPT !.ofs = @ - bcs],
                 UNCHANGED <<chain, res>>
          PROVE  TableInv'
      <3>1. cur \in Fils => DOMAIN h(c) = ObjectFields /\ h(c).fs
        BY <2>3
      <3>2. pc' # "idle"
        BY <2>6 DEF chain
      <3> HIDE DEF h
      <3> QED BY <1>3, <2>6, <3>1, <3>2
    <2> QED BY <1>4, <1>5, <2>4, <2>5, <2>6 DEF SeekNext
  <1>6. CASE SeekCreated
    <2> DEFINE f == [me EXCEPT !.clust = ncl, !.sclust = IF @ = 0 THEN ncl ELSE @]
    <2>1. cur \in Fils => DOMAIN f = ObjectFields /\ f.fs /\ DOMAIN Grown(me) = ObjectFields /\ Grown(me).fs
      BY MyFields, GrownShape DEF ObjectFields
    <2>2. CASE Become(Grown(me)) /\ Return("OK")
      BY <1>2, <2>1, <2>2
    <2>3. CASE Become(f) /\ pc' = "seek" /\ UNCHANGED <<clst, ncl, call, res>>
      <3> HIDE DEF f
      <3> QED BY <1>3, <2>1, <2>3
    <2> QED BY <1>4, <1>6, <2>2, <2>3 DEF SeekCreated
  <1> QED BY <1>5, <1>6

LEMMA Truncates ==
  ASSUME TableInv, Truncated
  PROVE  TableInv'
  <1> DEFINE f == [me EXCEPT !.sclust = IF me.fptr = 0 THEN 0 ELSE @]
  <1>1. Become(Cropped(f)) /\ Return("OK") /\ UNCHANGED <<fs_type, opened>>
    BY DEF Truncated, disk
  <1>2. cur \in Fils => DOMAIN f = ObjectFields /\ f.fs
    BY MyFields DEF ObjectFields
  <1> HIDE DEF f
  <1>3. cur \in Fils => DOMAIN Cropped(f) = ObjectFields /\ Cropped(f).fs
    BY <1>2 DEF Cropped, ObjectFields
  <1> QED BY <1>1, <1>3, BecameOpen, CallOver

\* The step that gives up an open object clears its mark of a change.
LEMMA Sinks ==
  ASSUME TableInv, Sunk
  PROVE  TableInv'
  <1>1. Return("DISK_ERR")
    BY DEF Sunk
  <1>2. CASE call.op = "unlink"
    <2>1. UNCHANGED <<fs_type, fil, opened>>
      BY <1>2 DEF Sunk
    <2> QED BY <1>1, <2>1, Unchanged, CallOver
  <1>3. CASE call.op # "unlink"
    <2> DEFINE f == [me EXCEPT !.modified = FALSE]
    <2>1. Become(f) /\ fs_type' = fs_type /\ opened' \in {opened, opened \ {cur}}
      BY <1>3 DEF Sunk
    <2>2. cur \in Fils => DOMAIN f = ObjectFields /\ f.fs /\ ~f.modified
      BY MyFields DEF ObjectFields
    <2> HIDE DEF f
    <2> QED BY <1>1, <2>1, <2>2, Became, CallOver
  <1> QED BY <1>2, <1>3

LEMMA WorkSteps ==
  ASSUME TableInv, Step
  PROVE  TableInv'
  <1>1. CASE ChainStep /\ UNCHANGED <<fs_type, fil, opened, call, res>>
    BY <1>1, ChainSteps
  <1>2. ~OpenEmptied
    BY DEF OpenEmptied, TableInv, Working
  <1>3. CASE Flush \/ Unlinked
    BY <1>3, Unchanged, StillWorking DEF Flush, Unlinked, disk
  <1> QED BY <1>1, <1>2, <1>3, ReadSteps, WriteSteps, SeekSteps, Truncates, Sinks DEF Step

-----------------------------------------------------------------------------

LEMMA DescriptorOf ==
  ASSUME NEW d \in Fds
  PROVE  d - 2 \in Fils
  BY TableAssumption DEF Fds

LEMMA Fails ==
  ASSUME TableInv, Fail
  PROVE  TableInv'
  BY DEF Fail, volume, disk, chain, TableInv, Shape, NothingToSave, OpenIsValid,
         Working, cur

\* The table is searched from its beginning, and a slot that is found is free.
LEMMA SlotIsFree ==
  ASSUME opened \subseteq Fils, opened # Fils
  PROVE  FreeSlot \in Fils \ opened
  <1>1. Fils \ opened \subseteq Nat /\ Fils \ opened # {}
    <2>1. Fils \subseteq Nat
      BY TableAssumption
    <2>2. PICK p \in Fils : p \notin opened
      OBVIOUS
    <2> QED BY <2>1, <2>2
  <1>2. \E x \in Fils \ opened : \A q \in Fils \ opened : x <= q
    BY <1>1, Lowest
  <1> QED BY <1>2 DEF FreeSlot

LEMMA SlotOpened ==
  ASSUME TableInv, NEW p \in Fils \ opened, NEW f, Open(p, f, {"WRITE"})
  PROVE  TableInv'
  <1>0. MountVolume => fs_type' # 0
    BY DEF MountVolume
  <1>1. UNCHANGED <<chain, call>> /\ fs_type' # 0
        /\ \/ fil' = [fil EXCEPT ![p].fs = FALSE] /\ opened' = opened
           \/ /\ opened' = opened \cup {p}
              /\ \E n, e : fil' = [fil EXCEPT ![p] = Opened(p, n, {"WRITE"}, e)]
    <2>1. MountVolume
      BY DEF Open
    <2>2. CASE View[f] = NOENTRY
      BY <1>0, <2>1, <2>2 DEF Open
    <2>3. CASE View[f] # NOENTRY
      BY <1>0, <2>1, <2>3 DEF Open
    <2> QED BY <2>2, <2>3
  <1>2. CASE fil' = [fil EXCEPT ![p].fs = FALSE] /\ opened' = opened
    BY <1>1, <1>2 DEF TableInv, Shape, NothingToSave, OpenIsValid, Working, chain, cur, ObjectFields
  <1>3. ASSUME NEW n, NEW e, opened' = opened \cup {p},
               fil' = [fil EXCEPT ![p] = Opened(p, n, {"WRITE"}, e)]
        PROVE  TableInv'
    <2> DEFINE o == Opened(p, n, {"WRITE"}, e)
    <2>1. DOMAIN o = ObjectFields /\ o.fs /\ ~o.modified
      BY DEF Opened, ObjectFields
    <2> HIDE DEF o
    <2>2. fil' = [fil EXCEPT ![p] = o]
      BY <1>3 DEF o
    <2> QED BY <1>1, <1>3, <2>1, <2>2
            DEF TableInv, Shape, NothingToSave, OpenIsValid, Working, chain, cur
  <1> QED BY <1>1, <1>2, <1>3

LEMMA SysOpens ==
  ASSUME TableInv, NEW f, SysOpen(f)
  PROVE  TableInv'
  <1>1. CASE opened = Fils
    BY <1>1, Fails DEF SysOpen
  <1>2. CASE opened # Fils
    <2>1. FreeSlot \in Fils \ opened
      BY <1>2, SlotIsFree DEF TableInv, OpenIsValid
    <2> QED BY <1>2, <2>1, SlotOpened DEF SysOpen
  <1> QED BY <1>1, <1>2

LEMMA SysReads ==
  ASSUME TableInv, NEW d, NEW n, SysRead(d, n)
  PROVE  TableInv'
  <1>1. CASE UNCHANGED <<volume, sys>>
    BY <1>1 DEF volume, disk, chain, TableInv, Shape, NothingToSave, OpenIsValid,
                Working, cur
  <1>2. CASE d - 2 \in opened /\ Read(d - 2, n)
    <2> DEFINE p == d - 2
               left == Least(n, fil[p].objsize - fil[p].fptr)
    <2>1. Enter("read", p, left, "read") /\ UNCHANGED <<fs_type, fil, opened>>
      BY <1>2 DEF Read, disk
    <2> HIDE DEF p, left
    <2>2. DOMAIN call' = Locals /\ call'.fp = p /\ call'.op = "read" /\ pc' = "read"
      BY <2>1, CallEntered
    <2>3. p \in opened
      BY <1>2 DEF p
    <2> QED BY <2>1, <2>2, <2>3 DEF TableInv, Shape, NothingToSave, OpenIsValid,
                                    Working, cur
  <1> QED BY <1>1, <1>2, Fails DEF SysRead, Fail

\* f_lseek begins with the position and the current cluster of the object.
LEMMA SeekBegins ==
  ASSUME TableInv, NEW p \in opened, NEW n, Seek(p, n)
  PROVE  /\ UNCHANGED <<fs_type, opened>> /\ pc = "idle"
         /\ DOMAIN fil' = Fils
         /\ \A q \in Fils : /\ DOMAIN fil'[q] = ObjectFields
                            /\ fil'[q].fs = fil[q].fs
                            /\ fil'[q].modified = fil[q].modified
         /\ \/ UNCHANGED <<chain, call>>
            \/ \E k, at : at # "idle" /\ Enter("seek", p, k, at)
  <1>0. DOMAIN fil = Fils /\ \A q \in Fils : DOMAIN fil[q] = ObjectFields
    BY DEF TableInv, Shape
  <1>1. UNCHANGED <<fs_type, opened>> /\ pc = "idle"
    BY DEF Seek, disk
  <1>2. \/ UNCHANGED <<chain, call>>
        \/ \E k, at : at # "idle" /\ Enter("seek", p, k, at)
    BY DEF Seek
  <1>3. \/ \E k : fil' = [fil EXCEPT ![p].fptr = k]
        \/ \E k, c : fil' = [fil EXCEPT ![p].fptr = k, ![p].clust = c]
    BY DEF Seek
  <1>4. ASSUME NEW k, fil' = [fil EXCEPT ![p].fptr = k]
        PROVE  /\ DOMAIN fil' = Fils
               /\ \A q \in Fils : /\ DOMAIN fil'[q] = ObjectFields
                                  /\ fil'[q].fs = fil[q].fs
                                  /\ fil'[q].modified = fil[q].modified
    BY <1>0, <1>4 DEF ObjectFields
  <1>5. ASSUME NEW k, NEW c, fil' = [fil EXCEPT ![p].fptr = k, ![p].clust = c]
        PROVE  /\ DOMAIN fil' = Fils
               /\ \A q \in Fils : /\ DOMAIN fil'[q] = ObjectFields
                                  /\ fil'[q].fs = fil[q].fs
                                  /\ fil'[q].modified = fil[q].modified
    BY <1>0, <1>5 DEF ObjectFields
  <1> QED BY <1>1, <1>2, <1>3, <1>4, <1>5

LEMMA SeekStarted ==
  ASSUME TableInv, NEW p \in opened, NEW n, Seek(p, n)
  PROVE  TableInv'
  <1>1. /\ UNCHANGED <<fs_type, opened>> /\ pc = "idle"
        /\ DOMAIN fil' = Fils
        /\ \A q \in Fils : /\ DOMAIN fil'[q] = ObjectFields
                           /\ fil'[q].fs = fil[q].fs
                           /\ fil'[q].modified = fil[q].modified
    BY SeekBegins
  <1>2. NothingToSave' /\ OpenIsValid'
    BY <1>1 DEF TableInv, NothingToSave, OpenIsValid
  <1>3. CASE UNCHANGED <<chain, call>>
    BY <1>1, <1>2, <1>3 DEF TableInv, Shape, Working, chain, cur
  <1>4. ASSUME NEW k, NEW at, at # "idle", Enter("seek", p, k, at)
        PROVE  TableInv'
    <2>1. DOMAIN call' = Locals /\ call'.fp = p /\ call'.op = "seek" /\ pc' = at
      BY <1>4, CallEntered
    <2> QED BY <1>1, <1>2, <1>4, <2>1 DEF TableInv, Shape, Working, cur
  <1> QED BY <1>3, <1>4, SeekBegins

LEMMA SysSeeks ==
  ASSUME TableInv, NEW d, NEW w, NEW o, SysSeek(d, w, o)
  PROVE  TableInv'
  BY SeekStarted, Fails DEF SysSeek

\* A descriptor that is closed already has nothing to save, and f_close goes no
\* further than its first tests.
LEMMA SysCloses ==
  ASSUME TableInv, NEW d, SysClose(d)
  PROVE  TableInv'
  <1>1. CASE d \notin Fds
    BY <1>1, Fails DEF SysClose
  <1>2. CASE d \in Fds
    <2> DEFINE p == d - 2
    <2>1. p \in Fils /\ Sync("close", p)
      BY <1>2, DescriptorOf DEF SysClose
    <2> HIDE DEF p
    <2>2. CASE /\ ~Valid(p) \/ ~fil[p].modified
               /\ fil' = [fil EXCEPT ![p].fs = @ /\ "close" # "close"]
               /\ opened' = opened \ {p}
               /\ UNCHANGED <<fs_type, chain, call>>
      <3>1. ~fil[p].modified
        BY <2>1, <2>2 DEF TableInv, NothingToSave, OpenIsValid, Valid
      <3>2. /\ DOMAIN fil' = Fils
            /\ \A q \in Fils : /\ DOMAIN fil'[q] = ObjectFields
                               /\ fil'[q].modified = fil[q].modified
                               /\ q # p => fil'[q] = fil[q]
        BY <2>1, <2>2 DEF TableInv, Shape, ObjectFields
      <3>3. NothingToSave'
        BY <2>2, <3>1, <3>2 DEF TableInv, NothingToSave
      <3>4. OpenIsValid'
        BY <2>2, <3>2 DEF TableInv, OpenIsValid
      <3>5. cur = 0 /\ pc = "idle"
        BY DEF SysClose, TableInv, Working
      <3>6. Working'
        BY <2>2, <3>5 DEF TableInv, Working, chain, cur
      <3> QED BY <2>2, <3>2, <3>3, <3>4, <3>6 DEF TableInv, Shape
    <2>3. CASE /\ fil[p].modified /\ Enter("close", p, 0, "flush")
               /\ UNCHANGED <<fs_type, fil, opened>>
      <3>1. DOMAIN call' = Locals /\ call'.fp = p /\ call'.op = "close" /\ pc' = "flush"
        BY <2>3, CallEntered
      <3>2. p \in opened
        BY <2>1, <2>3 DEF TableInv, NothingToSave
      <3> QED BY <2>3, <3>1, <3>2 DEF TableInv, Shape, NothingToSave, OpenIsValid,
                                      Working, cur
    <2> QED BY <2>1, <2>2, <2>3 DEF Sync
  <1> QED BY <1>1, <1>2

-----------------------------------------------------------------------------

LEMMA TableStarts ==
  ASSUME TableInit
  PROVE  TableInv
  <1>1. opened = {} /\ pc = "idle" /\ call = Idle /\ fil = [p \in Fils |-> Blank]
    BY DEF TableInit, Init, PowerOn
  <1>2. DOMAIN Blank = ObjectFields /\ ~Blank.modified
    BY DEF Blank, ObjectFields
  <1>3. DOMAIN call = Locals /\ call.fp = 0 /\ call.op = "none"
    BY <1>1, IdleShape
  <1> QED BY <1>1, <1>2, <1>3 DEF TableInv, Shape, NothingToSave, OpenIsValid,
                                  Working, cur

LEMMA TableSteps ==
  ASSUME TableInv, [TableNext]_table
  PROVE  TableInv'
  <1>1. ASSUME NEW f \in Files, SysOpen(f) PROVE TableInv'
    BY <1>1, SysOpens
  <1>2. ASSUME NEW d \in AnyFd, NEW n \in 0 .. MaxBytes, SysRead(d, n) PROVE TableInv'
    BY <1>2, SysReads
  <1>3. ASSUME NEW d \in AnyFd, NEW w \in {"SET", "CUR", "END", "other"}, NEW o \in Jumps,
               SysSeek(d, w, o)
        PROVE  TableInv'
    BY <1>3, SysSeeks
  <1>4. ASSUME NEW d \in AnyFd, SysClose(d) PROVE TableInv'
    BY <1>4, SysCloses
  <1>5. CASE Running
    BY <1>5, WorkSteps DEF Running
  <1>6. CASE UNCHANGED table
    BY <1>6 DEF table, volume, disk, chain, TableInv, Shape, NothingToSave,
                OpenIsValid, Working, cur
  <1> QED BY <1>1, <1>2, <1>3, <1>4, <1>5, <1>6 DEF TableNext

\* The system calls of syscall.c give FatFs the objects of open descriptors only
\* to work on, although _close does not look at is_open: f_sync clears
\* FA_MODIFIED before it fails, and f_close does nothing for what has not
\* changed.
THEOREM ClosedStaysInert == TableSpec => []ClosedSlotInert
  <1>1. TableInit => TableInv
    BY TableStarts
  <1>2. TableInv /\ [TableNext]_table => TableInv'
    BY TableSteps
  <1>3. TableInv => ClosedSlotInert
    BY DEF TableInv, Working, ClosedSlotInert
  <1> QED BY <1>1, <1>2, <1>3, PTL DEF TableSpec

-----------------------------------------------------------------------------
(***************************************************************************)
(* The system calls implement the table of OpenFiles.                      *)
(*                                                                         *)
(* syscall.c lets one file be open twice, so that clusters have no single  *)
(* owner here.  But none is ever freed: chains only grow at their ends,    *)
(* and what a walk has come to once it comes to again.                     *)
(***************************************************************************)

\* A link is kept, what is taken stays taken.
Extends(m, m2) ==
  \A c \in Taken(m) : c \in Taken(m2) /\ (m[c] # EOC => m2[c] = m[c])

\* Every link leads to a cluster that is taken.
Tied(m) == \A c \in Taken(m) : m[c] = EOC \/ m[c] \in Taken(m)

\* The k-th cluster behind the first of a chain is c.
Reached(m, first, k, c) == c \in Taken(m) /\ Walk(m, first)[k] = c

\* The chain has a cluster for the last of n bytes.
Room(m, first, n) ==
  n > 0 => Walk(m, first)[(n - 1) \div bcs] \in Taken(m)

LEMMA SameExtends == \A m : Extends(m, m)
  BY DEF Extends

\* What a walk passes through on its way is taken.
LEMMA OnTheWay ==
  ASSUME NEW m, NEW first, NEW k \in Nat, Walk(m, first)[k] \in Taken(m),
         NEW j \in 0 .. k
  PROVE  Walk(m, first)[j] \in Taken(m)
  <1> DEFINE w == Walk(m, first)
  <1>1. w[k] \in Clusters
    BY DEF Taken
  <1>2. j \in Nat /\ j <= k
    OBVIOUS
  <1>3. \A i \in 0 .. k : w[i] \in Clusters
    <2> SUFFICES ASSUME NEW i \in 0 .. k, w[i] \notin Clusters PROVE FALSE
      OBVIOUS
    <2>1. i \in Nat /\ k > i
      BY <1>1
    <2>2. w[k] = FREE
      BY <2>1, Stops
    <2> QED BY <1>1, <2>2, Numbers
  <1>4. CASE j < k
    <2>1. j + 1 \in 0 .. k /\ w[j + 1] = EntryOf(m, w[j])
      BY <1>2, <1>4, Walks
    <2>2. w[j] \in Clusters /\ w[j + 1] \in Clusters
      BY <1>3, <2>1
    <2>3. m[w[j]] # FREE
      BY <2>1, <2>2, Numbers DEF EntryOf
    <2> QED BY <2>2, <2>3 DEF Taken
  <1> QED BY <1>2, <1>4

LEMMA WalkStays ==
  ASSUME NEW m, NEW m2, Extends(m, m2), NEW first, NEW k \in Nat,
         Walk(m, first)[k] \in Taken(m)
  PROVE  /\ Walk(m2, first)[k] = Walk(m, first)[k]
         /\ Walk(m2, first)[k] \in Taken(m2)
  <1> DEFINE w == Walk(m, first)
             v == Walk(m2, first)
             T == {j \in Nat : j <= k => v[j] = w[j]}
  <1>1. 0 \in T
    BY Walks
  <1>2. ASSUME NEW j \in Nat, j \in T PROVE j + 1 \in T
    <2> SUFFICES ASSUME j + 1 <= k PROVE v[j + 1] = w[j + 1]
      OBVIOUS
    <2>1. v[j] = w[j] /\ j \in 0 .. k /\ j + 1 \in 0 .. k
      BY <1>2
    <2>2. w[j] \in Taken(m) /\ w[j + 1] \in Taken(m)
      BY <2>1, OnTheWay
    <2>3. w[j + 1] = EntryOf(m, w[j]) /\ v[j + 1] = EntryOf(m2, v[j])
      BY Walks
    <2>4. w[j + 1] = m[w[j]] /\ v[j + 1] = m2[w[j]]
      BY <2>1, <2>2, <2>3 DEF EntryOf, Taken
    <2>5. m[w[j]] # EOC
      BY <2>2, <2>4, Numbers DEF Taken
    <2> QED BY <2>2, <2>4, <2>5 DEF Extends
  <1> HIDE DEF T
  <1>3. k \in T
    BY <1>1, <1>2, AllNumbers
  <1>4. v[k] = w[k]
    BY <1>3 DEF T
  <1> QED BY <1>4 DEF Extends

LEMMA ReachedStays ==
  ASSUME NEW m, NEW m2, Extends(m, m2), NEW first, NEW k \in Nat, NEW c,
         Reached(m, first, k, c)
  PROVE  Reached(m2, first, k, c)
  BY WalkStays DEF Reached

LEMMA RoomStays ==
  ASSUME NEW m, NEW m2, Extends(m, m2), NEW first, NEW n \in Nat, Room(m, first, n)
  PROVE  Room(m2, first, n)
  <1> SUFFICES ASSUME n > 0 PROVE Walk(m2, first)[(n - 1) \div bcs] \in Taken(m2)
    BY DEF Room
  <1>1. n - 1 \in Nat /\ bcs \in Nat \ {0}
    BY VolumeAssumption
  <1>2. (n - 1) \div bcs \in Nat
    BY <1>1, Division
  <1> QED BY <1>2, WalkStays DEF Room

\* A walk that comes anywhere begins with a cluster.
LEMMA FirstTaken ==
  ASSUME NEW m, NEW first, NEW k \in Nat, NEW c, Reached(m, first, k, c)
  PROVE  first \in Taken(m)
  <1>1. Walk(m, first)[k] \in Taken(m) /\ 0 \in 0 .. k
    BY DEF Reached
  <1>2. Walk(m, first)[0] \in Taken(m)
    BY <1>1, OnTheWay
  <1> QED BY <1>2, Walks

LEMMA AtTheFirst ==
  ASSUME NEW m, NEW first \in Taken(m)
  PROVE  Reached(m, first, 0, first)
  BY Walks DEF Reached

LEMMA OneOn ==
  ASSUME NEW m, NEW first, NEW k \in Nat, NEW c, Reached(m, first, k, c),
         NEW d \in Taken(m), m[c] = d
  PROVE  Reached(m, first, k + 1, d)
  BY Walks DEF Reached, EntryOf, Taken

\* A file with room for n bytes has a cluster for each of them.
LEMMA ByteReached ==
  ASSUME NEW m, NEW first, NEW n \in Nat, Room(m, first, n),
         NEW k \in Nat, n > 0, k <= (n - 1) \div bcs
  PROVE  Reached(m, first, k, Walk(m, first)[k])
  <1>1. n - 1 \in Nat /\ bcs \in Nat \ {0}
    BY VolumeAssumption
  <1>2. (n - 1) \div bcs \in Nat
    BY <1>1, Division
  <1>3. Walk(m, first)[(n - 1) \div bcs] \in Taken(m)
    BY DEF Room
  <1> DEFINE l == (n - 1) \div bcs
  <1> HIDE DEF l
  <1>4. l \in Nat /\ Walk(m, first)[l] \in Taken(m) /\ k \in 0 .. l
    BY <1>2, <1>3 DEF l
  <1>5. Walk(m, first)[k] \in Taken(m)
    BY <1>4, OnTheWay
  <1> QED BY <1>5 DEF Reached

\* No chain, no bytes.
LEMMA NoClusterNoBytes ==
  ASSUME NEW m, NEW first, first \notin Taken(m), NEW n \in Nat, Room(m, first, n)
  PROVE  n = 0
  <1> SUFFICES ASSUME n > 0 PROVE FALSE
    OBVIOUS
  <1>1. n - 1 \in Nat /\ bcs \in Nat \ {0}
    BY VolumeAssumption
  <1>2. (n - 1) \div bcs \in Nat
    BY <1>1, Division
  <1>3. 0 <= (n - 1) \div bcs
    BY <1>2
  <1>4. Reached(m, first, 0, Walk(m, first)[0])
    BY <1>3, ByteReached
  <1> QED BY <1>4, FirstTaken

\* Where the chain ends, the room ends.
LEMMA EndOfRoom ==
  ASSUME NEW m, NEW first, NEW n \in Nat, Room(m, first, n),
         NEW pos \in Nat, pos > 0, pos % bcs = 0,
         NEW c, Reached(m, first, (pos - 1) \div bcs, c), m[c] = EOC
  PROVE  n <= pos
  <1> SUFFICES ASSUME n > pos PROVE FALSE
    OBVIOUS
  <1>1. bcs \in Nat \ {0} /\ n - 1 \in Nat /\ pos <= n - 1
    BY VolumeAssumption
  <1>2. pos \div bcs <= (n - 1) \div bcs
    BY <1>1, Monotone
  <1>3. pos \div bcs > 0 /\ (pos - 1) \div bcs = pos \div bcs - 1 /\ pos \div bcs \in Nat
    BY <1>1, NextOne, Division
  <1> DEFINE k == pos \div bcs
             l == (n - 1) \div bcs
             j == k - 1
  <1>4. k \in Nat /\ j \in Nat /\ k = j + 1 /\ k <= l /\ Reached(m, first, j, c)
    BY <1>2, <1>3
  <1> HIDE DEF k, l, j
  <1>5. Reached(m, first, k, Walk(m, first)[k])
    BY <1>1, <1>4, ByteReached DEF l
  <1>6. Walk(m, first)[k] = EOC
    BY <1>4, Walks DEF Reached, EntryOf, Taken
  <1> QED BY <1>5, <1>6, Numbers DEF Reached, Taken

-----------------------------------------------------------------------------
\* The inductive invariant.

\* A file that is open is open for writing, no call has failed on it, and its
\* chain is long enough.
Roomy(m, g) ==
  /\ g.write /\ ~g.err
  /\ g.sclust # 0 => g.sclust \in Taken(m)
  /\ Room(m, g.sclust, g.objsize)

\* The current cluster is the one of the byte before the position.
AtCluster(m, g) ==
  g.fptr > 0 => Reached(m, g.sclust, (g.fptr - 1) \div bcs, g.clust)

Settled(m, g) == g.fptr <= g.objsize /\ AtCluster(m, g)

Stored(m, f) ==
  /\ m[f].sclust \in Clusters => m[f].sclust \in Taken(m)
  /\ Room(m, m[f].sclust, m[f].size)

ChainsHold ==
  /\ Tied(View)
  /\ \A f \in Files : Stored(View, f)
  /\ \A p \in opened :
       /\ Roomy(View, fil[p])
       /\ p # cur \/ call.op # "seek" => Settled(View, fil[p])

\* _read comes to the end of what was asked for, or of the file.
Reading ==
  call.op = "read" =>
    /\ sys.from \in Nat /\ sys.ofs \in 0 .. MaxBytes /\ sys.from <= me.objsize
    /\ me.fptr + call.ofs = sys.from + Least(sys.ofs, me.objsize - sys.from)

Allocating ==
  /\ pc = "mark" => View[ncl] = FREE
  /\ pc = "link" => View[ncl] = EOC
  /\ pc \in {"mark", "link"} /\ clst # 0 => View[clst] = EOC
  /\ pc = "created" =>
       /\ ncl # INSANITY
       /\ ncl = NOSPACE => me.objsize <= me.fptr
       /\ ncl \in Clusters => ncl \in Taken(View) /\ (clst # 0 => View[clst] = ncl)

\* f_lseek goes from cluster to cluster, and stretches the file only behind its
\* end.
Seeking ==
  call.op = "seek" =>
    /\ sys.from \in Nat /\ sys.ofs \in 0 .. (Wrap - 1)
    /\ me.fptr % bcs = 0
    /\ me.fptr + call.ofs = sys.ofs
    /\ pc = "seek" => Reached(View, me.sclust, me.fptr \div bcs, me.clust)
    /\ pc \in Creates =>
         /\ AtCluster(View, me)
         /\ me.fptr = 0 => clst = 0 /\ me.sclust = 0
         /\ me.fptr > 0 => clst = me.clust
         /\ Allocating

OpsOfTable == call.op \in {"none", "read", "seek", "close"}

\* Where a seek goes that was asked for.
Base(w, from, size) ==
  CASE w = "SET" -> 0 [] w = "CUR" -> from [] w = "END" -> size

Wanted(asked, from, size, o) ==
  \E w \in {"SET", "CUR", "END"}, j \in Jumps :
    asked = <<w, j>> /\ o = (Base(w, from, size) + j) % Wrap

\* The call does what it was asked for.
Asking ==
  /\ call.op = "read" => sys.asked = <<"read", sys.ofs>>
  /\ call.op = "seek" => Wanted(sys.asked, sys.from, me.objsize, sys.ofs)

OpenInv ==
  Fits /\ TableInv /\ OpsOfTable /\ ChainsHold /\ Reading /\ Seeking /\ Asking

LEMMA AtClusterStays ==
  ASSUME NEW m, NEW m2, Extends(m, m2), NEW g \in FIL, AtCluster(m, g)
  PROVE  AtCluster(m2, g)
  <1> SUFFICES ASSUME g.fptr > 0
               PROVE  Reached(m2, g.sclust, (g.fptr - 1) \div bcs, g.clust)
    BY DEF AtCluster
  <1>1. g.fptr - 1 \in Nat /\ bcs \in Nat \ {0}
    BY Fields, VolumeAssumption
  <1>2. (g.fptr - 1) \div bcs \in Nat
    BY <1>1, Division
  <1> QED BY <1>2, ReachedStays DEF AtCluster

LEMMA RoomyStays ==
  ASSUME NEW m, NEW m2, Extends(m, m2), NEW g \in FIL, Roomy(m, g)
  PROVE  Roomy(m2, g)
  <1>1. g.objsize \in Nat
    BY Fields
  <1>2. Room(m2, g.sclust, g.objsize)
    BY <1>1, RoomStays DEF Roomy
  <1> QED BY <1>2 DEF Roomy, Extends

LEMMA StoredStays ==
  ASSUME NEW m, NEW m2, Extends(m, m2), NEW f, m[f].size \in Nat, m2[f] = m[f],
         Stored(m, f)
  PROVE  Stored(m2, f)
  <1>1. Room(m2, m[f].sclust, m[f].size)
    BY RoomStays DEF Stored
  <1> QED BY <1>1 DEF Stored, Extends

LEMMA SizesStored ==
  ASSUME Fits, NEW f \in Files
  PROVE  View[f].size \in Nat
  <1>1. View[f] \in DirEntry
    BY ViewEntry DEF Fits
  <1> QED BY <1>1 DEF DirEntry, NOENTRY

\* What is left to show of a step that works on p.
LEMMA HoldsOn ==
  ASSUME OpenInv, NEW p,
         Extends(View, View'), Tied(View'), \A f \in Files : Stored(View', f),
         \A q \in opened' \ {p} : q \in opened /\ fil'[q] = fil[q],
         cur \in {0, p}, cur' \in {0, p},
         p \in opened' => /\ Roomy(View', fil'[p])
                          /\ cur' # p \/ call'.op # "seek" => Settled(View', fil'[p])
  PROVE  ChainsHold'
  <1>1. ASSUME NEW q \in opened', q # p
        PROVE  Roomy(View', fil'[q]) /\ Settled(View', fil'[q])
    <2>1. q \in opened /\ q \in Fils /\ fil[q] \in FIL /\ q # 0 /\ fil'[q] = fil[q]
      BY <1>1, VolumeAssumption DEF OpenInv, Fits, FilesFit
    <2>2. Roomy(View, fil[q]) /\ Settled(View, fil[q])
      BY <1>1, <2>1 DEF OpenInv, ChainsHold
    <2> QED BY <2>1, <2>2, RoomyStays, AtClusterStays DEF Settled
  <1> QED BY <1>1 DEF ChainsHold

LEMMA EntriesStay ==
  ASSUME OpenInv, Extends(View, View'), \A f \in Files : View'[f] = View[f]
  PROVE  \A f \in Files : Stored(View', f)
  BY SizesStored, StoredStays DEF OpenInv, ChainsHold

\* The same for a step that leaves the FAT alone.
LEMMA HoldsStill ==
  ASSUME OpenInv, NEW p, View' = View,
         \A q \in opened' \ {p} : q \in opened /\ fil'[q] = fil[q],
         cur \in {0, p}, cur' \in {0, p},
         p \in opened' => /\ Roomy(View, fil'[p])
                          /\ cur' # p \/ call'.op # "seek" => Settled(View, fil'[p])
  PROVE  ChainsHold'
  <1>1. Extends(View, View') /\ Tied(View') /\ \A f \in Files : Stored(View', f)
    BY SameExtends DEF OpenInv, ChainsHold
  <1> QED BY <1>1, HoldsOn

-----------------------------------------------------------------------------

\* A card that makes sense has chains that go on to taken clusters, long enough
\* for the files.
LEMMA CardHolds ==
  ASSUME Init, Fits
  PROVE  Tied(View) /\ \A f \in Files : Stored(View, f)
  <1>1. card \in InitCards /\ winsect = NOSECT
    BY DEF Init, PowerOn, Unmounted
  <1>3. \A x \in Items : View[x] = card[x]
    BY <1>1, SectorNumbers DEF View
  <1>4. /\ \A f \in Files : card[f] \in DirEntry
        /\ \A c \in Clusters : card[c] \in {FREE, EOC} \cup Clusters
    BY <1>3, ViewEntry, Kinds DEF Fits
  <1>5. /\ Sound(card, card)
        /\ \A c \in Taken(card) : \E f \in Files : c \in ChainIn(card, card[f].sclust)
    BY <1>1, CardAssumption DEF Taken
  <1>6. PICK w : /\ w.fat = View /\ Sorted(w) /\ w.head[Nobody] = 0
                 /\ \A f \in Files : Shut(w, f)
    BY <1>3, <1>4, <1>5, SoundKept
  <1>7. /\ Chained(View, w.head, w.own, w.rank)
        /\ \A f \in Files : /\ w.head[f] = IF View[f].sclust \in Clusters THEN View[f].sclust ELSE 0
                            /\ Reaches(w, f, View[f].size)
    BY <1>6 DEF Sorted, Shut, First
  <1>8. Tied(View)
    <2> SUFFICES ASSUME NEW c \in Taken(View), View[c] # EOC PROVE View[c] \in Taken(View)
      BY DEF Tied
    <2>1. Chained(card, w.head, w.own, w.rank)
      BY <1>3, <1>7, Kinds, SameChains
    <2>2. c \in Taken(card) /\ Taken(card) = Taken(View)
      BY <1>3, Kinds DEF Taken
    <2>3. PICK f \in Files : c \in ChainIn(card, card[f].sclust)
      BY <1>5, <2>2
    <2>4. w.head[f] = IF card[f].sclust \in Clusters THEN card[f].sclust ELSE 0
      BY <1>3, <1>7, Kinds
    <2>5. w.own[c] = f
      BY <2>1, <2>3, <2>4, ChainOwned
    <2> QED BY <1>6, <2>5, FileNext
  <1>9. ASSUME NEW f \in Files PROVE Stored(View, f)
    <2> DEFINE s == View[f].sclust
    <2>1. ASSUME s \in Clusters PROVE s \in Taken(View)
      <3>1. Walk(View, s)[0] = s
        BY Walks
      <3> QED BY <1>7, <2>1, <3>1, WalkPlaces
    <2>2. View[f].size \in Nat
      BY <1>3, <1>4, Kinds DEF DirEntry, NOENTRY
    <2>3. Room(View, s, View[f].size)
      <3> SUFFICES ASSUME View[f].size > 0
                   PROVE  Walk(View, s)[(View[f].size - 1) \div bcs] \in Taken(View)
        BY DEF Room
      <3>1. w.head[f] = First(s)
        BY <1>6 DEF Shut
      <3>2. At(w, f, Nth(s, (View[f].size - 1) \div bcs), (View[f].size - 1) \div bcs)
        BY <1>6, <1>7, <2>2, <3>1, EndReached
      <3> QED BY <1>6, <3>2 DEF At, Nth
    <2> QED BY <2>1, <2>3 DEF Stored
  <1> QED BY <1>8, <1>9

LEMMA OpenStarts ==
  ASSUME TableInit
  PROVE  OpenInv
  <1>1. Init /\ Fits /\ TableInv
    BY InitFits, TableStarts DEF TableInit
  <1>2. opened = {} /\ call = Idle
    BY <1>1 DEF Init, PowerOn
  <1>3. ChainsHold
    BY <1>1, <1>2, CardHolds DEF ChainsHold
  <1> QED BY <1>1, <1>2, <1>3, IdleShape DEF OpenInv, OpsOfTable, Reading, Seeking, Asking

\* f_open as _open calls it does not change what is stored.
LEMMA PlainOpen ==
  ASSUME Fits, NEW p \in Fils \ opened, NEW f \in Files, Open(p, f, {"WRITE"})
  PROVE  /\ View' = View /\ UNCHANGED <<chain, call>>
         /\ \/ /\ fil' = [fil EXCEPT ![p].fs = FALSE]
               /\ opened' = opened /\ res' # "OK"
            \/ /\ View[f] # NOENTRY /\ opened' = opened \cup {p} /\ res' = "OK"
               /\ fil' = [fil EXCEPT ![p] = Opened(p, f, {"WRITE"}, View[f])]
  <1> DEFINE flags == {"WRITE"}
             e == View[f]
             create == {"CREATE_NEW", "CREATE_ALWAYS", "OPEN_ALWAYS"} \cap flags # {}
             n == IF "SEEKEND" \in flags /\ e.size > 0
                    THEN (e.size - 1) \div bcs ELSE 0
             steps == {k \in 0 .. n - 1 : Nth(e.sclust, k) \in Clusters}
  <1>1. ~create /\ n = 0
    OBVIOUS
  <1>2. steps = {}
    <2>1. 0 .. (n - 1) = {}
      BY <1>1
    <2> HIDE DEF n
    <2> QED BY <2>1
  <1> HIDE DEF n, create, steps
  <1>3. MoveWindow({DIRSECT}, DIRSECT) => View' = View
    BY Moved, SectorNumbers DEF Fits
  <1>4. CASE e = NOENTRY
    <2>1. /\ MoveWindow({DIRSECT}, DIRSECT) /\ fil' = [fil EXCEPT ![p].fs = FALSE]
          /\ res' = "NO_FILE" /\ UNCHANGED <<chain, opened, call>>
      BY <1>1, <1>4 DEF Open, create
    <2> QED BY <1>3, <2>1
  <1>5. CASE e # NOENTRY
    <2>1. \/ /\ MoveWindow({DIRSECT}, DIRSECT) /\ fil' = [fil EXCEPT ![p].fs = FALSE]
             /\ res' = "DENIED" /\ UNCHANGED <<chain, opened, call>>
          \/ /\ MoveWindow({DIRSECT}, DIRSECT)
             /\ fil' = [fil EXCEPT ![p] = Opened(p, f, {"WRITE"}, e)]
             /\ opened' = opened \cup {p} /\ res' = "OK" /\ UNCHANGED <<chain, call>>
      BY <1>1, <1>2, <1>5 DEF Open, create, n, steps
    <2> QED BY <1>3, <1>5, <2>1
  <1> QED BY <1>4, <1>5

\* What a descriptor is when it is opened.
LEMMA FreshObject ==
  ASSUME OpenInv, NEW f \in Files, View[f] # NOENTRY, NEW p \in Fils,
         NEW o, o = Opened(p, f, {"WRITE"}, View[f])
  PROVE  o \in FIL /\ Roomy(View, o) /\ Settled(View, o) /\ o.fptr = 0
  <1>1. View[f] \in DirEntry /\ fil \in [Fils -> FIL]
    BY ViewEntry DEF OpenInv, Fits, FilesFit
  <1>2. View[f].sclust \in {0} \cup Clusters /\ View[f].size \in Nat
    BY <1>1 DEF DirEntry
  <1>3. PICK u : u = [o EXCEPT !.modified = TRUE]
    OBVIOUS
  <1>4. /\ o \in FIL /\ o.fptr <= o.objsize /\ ~o.err
        /\ o.sclust = View[f].sclust /\ o.objsize = View[f].size /\ o.fptr = 0
    BY <1>1, <1>2, <1>3, OpenedFits
  <1>5. o.write
    BY DEF Opened
  <1>6. Stored(View, f)
    BY DEF OpenInv, ChainsHold
  <1>7. Roomy(View, o)
    BY <1>2, <1>4, <1>5, <1>6 DEF Roomy, Stored
  <1> QED BY <1>4, <1>7 DEF Settled, AtCluster

LEMMA OpenHolds ==
  ASSUME OpenInv, NEW p \in Fils \ opened, NEW f \in Files, Open(p, f, {"WRITE"})
  PROVE  ChainsHold' /\ OpsOfTable' /\ Reading' /\ Seeking'
  <1>1. pc = "idle" /\ Fits /\ fil \in [Fils -> FIL] /\ opened \subseteq Fils
    BY DEF Open, OpenInv, Fits, FilesFit
  <1>2. cur = 0 /\ call.op = "none"
    BY <1>1, AtIdle
  <1>3. View' = View /\ call' = call
    BY <1>1, PlainOpen
  <1>4. cur' = 0 /\ call'.op = "none"
    BY <1>2, <1>3 DEF cur
  <1>5. CASE fil' = [fil EXCEPT ![p].fs = FALSE] /\ opened' = opened
    <2>1. \A q \in opened' \ {p} : q \in opened /\ fil'[q] = fil[q]
      BY <1>1, <1>5
    <2>2. p \notin opened'
      BY <1>5
    <2> QED BY <1>2, <1>3, <1>4, <2>1, <2>2, HoldsStill
            DEF OpsOfTable, Reading, Seeking
  <1>6. CASE /\ View[f] # NOENTRY /\ opened' = opened \cup {p}
             /\ fil' = [fil EXCEPT ![p] = Opened(p, f, {"WRITE"}, View[f])]
    <2> DEFINE o == Opened(p, f, {"WRITE"}, View[f])
    <2>1. Roomy(View, o) /\ Settled(View, o)
      BY <1>6, FreshObject
    <2> HIDE DEF o
    <2>2. fil' = [fil EXCEPT ![p] = o]
      BY <1>6 DEF o
    <2>3. \A q \in opened' \ {p} : q \in opened /\ fil'[q] = fil[q]
      BY <1>1, <1>6, <2>2
    <2>4. fil'[p] = o
      BY <1>1, <2>2
    <2>5. ChainsHold'
      BY <1>2, <1>3, <1>4, <2>1, <2>3, <2>4, HoldsStill
    <2> QED BY <1>4, <2>5 DEF OpsOfTable, Reading, Seeking
  <1> QED BY <1>1, <1>5, <1>6, PlainOpen

\* What holds of an open descriptor between calls.
LEMMA DescriptorObject ==
  ASSUME OpenInv, NEW p \in opened
  PROVE  /\ p \in Fils /\ p # 0 /\ fil \in [Fils -> FIL] /\ fil[p] \in FIL
         /\ fil[p].fptr \in Nat /\ fil[p].objsize \in Nat /\ fil[p].clust \in {0} \cup Clusters
         /\ fil[p].sclust \in {0} \cup Clusters
         /\ fil[p].write /\ ~fil[p].err /\ Roomy(View, fil[p])
         /\ p # cur => Settled(View, fil[p])
  <1>1. p \in Fils /\ p # 0 /\ fil \in [Fils -> FIL] /\ fil[p] \in FIL
    BY VolumeAssumption DEF OpenInv, Fits, FilesFit
  <1>2. Roomy(View, fil[p]) /\ (p # cur => Settled(View, fil[p]))
    BY DEF OpenInv, ChainsHold
  <1> QED BY <1>1, <1>2, Fields DEF Roomy

LEMMA ReadHolds ==
  ASSUME OpenInv, NEW p \in opened, NEW n \in 0 .. MaxBytes, Read(p, n),
         sys' = [asked |-> <<"read", n>>, from |-> fil[p].fptr, ofs |-> n]
  PROVE  ChainsHold' /\ OpsOfTable' /\ Reading' /\ Seeking'
  <1>1. pc = "idle" /\ Fits /\ cur = 0
    BY AtIdle DEF Read, OpenInv
  <1>2. n \in Nat /\ Least(n, fil[p].objsize - fil[p].fptr) \in Nat
        /\ fil[p].fptr <= fil[p].objsize /\ p \in Fils /\ fil[p].fptr \in Nat
        /\ Roomy(View, fil[p]) /\ Settled(View, fil[p])
    <2>1. p \in Fils /\ fil[p].fptr \in Nat /\ fil[p].objsize \in Nat /\ Roomy(View, fil[p])
      BY DescriptorObject
    <2>2. Settled(View, fil[p])
      BY <1>1, DescriptorObject
    <2>3. n \in Nat /\ fil[p].fptr <= fil[p].objsize
      BY <2>2, VolumeAssumption DEF Settled
    <2> QED BY <2>1, <2>2, <2>3 DEF Least
  <1> DEFINE left == Least(n, fil[p].objsize - fil[p].fptr)
  <1>3. Enter("read", p, left, "read") /\ UNCHANGED <<fil, opened>>
    BY DEF Read
  <1>4. View' = View
    BY <1>1, <1>2, ReadFits
  <1>5. call'.op = "read" /\ cur' = p /\ call'.ofs = left /\ pc' = "read"
    <2> HIDE DEF left
    <2>1. left \in Nat /\ "read" \in Ops
      BY <1>2 DEF Ops, left
    <2> QED BY <1>2, <1>3, <2>1, Entered
  <1>6. ChainsHold'
    BY <1>1, <1>2, <1>3, <1>4, <1>5, HoldsStill
  <1>7. Reading'
    BY <1>2, <1>3, <1>5 DEF Reading, me
  <1> QED BY <1>5, <1>6, <1>7 DEF OpsOfTable, Seeking

\* f_lseek moves the position of an open descriptor.
LEMMA SeekHolds ==
  ASSUME OpenInv, NEW p \in opened, NEW o \in 0 .. (Wrap - 1), Seek(p, o),
         NEW a, pc' # "idle" => sys' = [asked |-> a, from |-> fil[p].fptr, ofs |-> o]
  PROVE  ChainsHold' /\ OpsOfTable' /\ Reading' /\ Seeking'
  <1> DEFINE f == fil[p]
             base == ((f.fptr - 1) \div bcs) * bcs
  <1>1. pc = "idle" /\ Fits /\ cur = 0 /\ call.op = "none" /\ opened' = opened
    BY AtIdle DEF Seek, OpenInv
  <1>2. /\ p \in Fils /\ p # 0 /\ fil \in [Fils -> FIL] /\ f \in FIL /\ f.fptr \in Nat
        /\ f.sclust \in {0} \cup Clusters
        /\ Roomy(View, f) /\ Settled(View, f) /\ bcs \in Nat \ {0} /\ o \in Nat
    <2>1. /\ p \in Fils /\ p # 0 /\ fil \in [Fils -> FIL] /\ f \in FIL /\ f.fptr \in Nat
          /\ f.sclust \in {0} \cup Clusters /\ Roomy(View, f)
      BY DescriptorObject
    <2>2. Settled(View, f)
      BY <1>1, <2>1, DescriptorObject
    <2> QED BY <2>1, <2>2, VolumeAssumption, TableAssumption
  <1>3. f.write
    BY DescriptorObject
  <1>4. View' = View
    BY <1>1, <1>2, SeekFits
  <1> HIDE DEF f, base
  <1>5. ASSUME NEW g, fil' = [fil EXCEPT ![p] = g], g.sclust = f.sclust,
               g.objsize = f.objsize, g.write <=> f.write, g.err <=> f.err,
               (cur' = 0 /\ g.fptr = 0) \/ (cur' = p /\ call'.op = "seek")
        PROVE  ChainsHold' /\ fil'[p] = g
    <2>1. fil'[p] = g /\ \A q \in opened' \ {p} : q \in opened /\ fil'[q] = fil[q]
      BY <1>1, <1>2, <1>5 DEF OpenInv, Fits, FilesFit
    <2>2. f.objsize \in Nat
      BY <1>2, Fields
    <2>3. Roomy(View, g)
      BY <1>2, <1>5 DEF Roomy
    <2>4. g.fptr = 0 => Settled(View, g)
      BY <1>5, <2>2 DEF Settled, AtCluster
    <2> QED BY <1>1, <1>4, <1>5, <2>1, <2>3, <2>4, HoldsStill
  <1>6. CASE o = 0 /\ fil' = [fil EXCEPT ![p].fptr = 0] /\ UNCHANGED <<chain, call>>
    <2> DEFINE g == [f EXCEPT !.fptr = 0]
    <2>1. fil' = [fil EXCEPT ![p] = g]
      BY <1>2, <1>6 DEF f
    <2>2. /\ g.fptr = 0 /\ g.objsize = f.objsize /\ g.sclust = f.sclust
          /\ (g.write <=> f.write) /\ (g.err <=> f.err)
      BY <1>2 DEF FIL
    <2> HIDE DEF g
    <2>3. cur' = 0 /\ call'.op = "none"
      BY <1>1, <1>6 DEF cur
    <2>4. ChainsHold'
      BY <1>5, <2>1, <2>2, <2>3
    <2> QED BY <2>3, <2>4 DEF OpsOfTable, Reading, Seeking
  <1>7. ASSUME NEW n \in Nat, NEW at, at # "idle", Enter("seek", p, n, at)
        PROVE  /\ cur' = p /\ call'.op = "seek" /\ call'.ofs = n /\ pc' = at
               /\ sys'.from = f.fptr /\ sys'.ofs = o /\ OpsOfTable' /\ Reading'
    <2>1. "seek" \in Ops
      BY DEF Ops
    <2>2. cur' = p /\ call'.op = "seek" /\ call'.ofs = n /\ pc' = at
      BY <1>2, <1>7, <2>1, Entered
    <2> QED BY <1>7, <2>2 DEF OpsOfTable, Reading, f
  <1>8. CASE /\ o > 0 /\ f.fptr > 0 /\ Ahead(o, f.fptr)
              /\ fil' = [fil EXCEPT ![p].fptr = base]
              /\ Enter("seek", p, o - base, "seek")
    <2> DEFINE g == [f EXCEPT !.fptr = base]
    <2>1. fil' = [fil EXCEPT ![p] = g]
      BY <1>2, <1>8 DEF f
    <2>2. /\ g.fptr = base /\ g.objsize = f.objsize /\ g.sclust = f.sclust
          /\ (g.write <=> f.write) /\ (g.err <=> f.err) /\ g.clust = f.clust
      BY <1>2 DEF FIL
    <2> HIDE DEF g
    <2>3. base \in Nat /\ o - base \in Nat
      BY <1>2, <1>8, SeekBase DEF base
    <2>4. base % bcs = 0 /\ base \div bcs = (f.fptr - 1) \div bcs
      <3>1. f.fptr - 1 \in Nat
        BY <1>2, <1>8
      <3>2. (f.fptr - 1) \div bcs \in Nat
        BY <1>2, <3>1, Division
      <3> QED BY <1>2, <3>2, Multiple DEF base
    <2>5. Reached(View, f.sclust, base \div bcs, f.clust)
      BY <1>2, <1>8, <2>4 DEF Settled, AtCluster
    <2>6. cur' = p /\ call'.op = "seek" /\ call'.ofs = o - base /\ pc' = "seek"
          /\ sys'.from = f.fptr /\ sys'.ofs = o /\ OpsOfTable' /\ Reading'
      BY <1>7, <1>8, <2>3
    <2>7. ChainsHold' /\ me' = g
      BY <1>5, <2>1, <2>2, <2>6 DEF me
    <2>8. Seeking'
      BY <1>2, <1>4, <2>2, <2>3, <2>4, <2>5, <2>6, <2>7 DEF Seeking, Creates
    <2> QED BY <2>6, <2>7, <2>8
  <1>9. CASE /\ o > 0 /\ f.sclust # 0
              /\ fil' = [fil EXCEPT ![p].fptr = 0, ![p].clust = f.sclust]
              /\ Enter("seek", p, o, "seek")
    <2> DEFINE g == [f EXCEPT !.fptr = 0, !.clust = f.sclust]
    <2>1. fil' = [fil EXCEPT ![p] = g]
      BY <1>2, <1>9 DEF f
    <2>2. /\ g.fptr = 0 /\ g.objsize = f.objsize /\ g.sclust = f.sclust
          /\ (g.write <=> f.write) /\ (g.err <=> f.err) /\ g.clust = f.sclust
      BY <1>2 DEF FIL
    <2> HIDE DEF g
    <2>4. 0 % bcs = 0 /\ 0 \div bcs = 0
      BY <1>2
    <2>5. Reached(View, f.sclust, 0, f.sclust)
      BY <1>2, <1>9, AtTheFirst DEF Roomy
    <2>6. cur' = p /\ call'.op = "seek" /\ call'.ofs = o /\ pc' = "seek"
          /\ sys'.from = f.fptr /\ sys'.ofs = o /\ OpsOfTable' /\ Reading'
      BY <1>2, <1>7, <1>9
    <2>7. ChainsHold' /\ me' = g
      BY <1>5, <2>1, <2>2, <2>6 DEF me
    <2>8. Seeking'
      BY <1>2, <1>4, <2>2, <2>4, <2>5, <2>6, <2>7 DEF Seeking, Creates
    <2> QED BY <2>6, <2>7, <2>8
  <1>10. CASE /\ o > 0 /\ f.sclust = 0 /\ fil' = [fil EXCEPT ![p].fptr = 0]
              /\ Enter("seek", p, o, "create") /\ clst' = 0
    <2> DEFINE g == [f EXCEPT !.fptr = 0]
    <2>1. fil' = [fil EXCEPT ![p] = g]
      BY <1>2, <1>10 DEF f
    <2>2. /\ g.fptr = 0 /\ g.objsize = f.objsize /\ g.sclust = 0
          /\ (g.write <=> f.write) /\ (g.err <=> f.err)
      BY <1>2, <1>10 DEF FIL
    <2> HIDE DEF g
    <2>4. 0 % bcs = 0
      BY <1>2
    <2>6. cur' = p /\ call'.op = "seek" /\ call'.ofs = o /\ pc' = "create"
          /\ sys'.from = f.fptr /\ sys'.ofs = o /\ OpsOfTable' /\ Reading'
      BY <1>2, <1>7, <1>10
    <2>7. ChainsHold' /\ me' = g
      BY <1>5, <1>10, <2>1, <2>2, <2>6 DEF me
    <2>8. Seeking'
      BY <1>2, <1>10, <2>2, <2>4, <2>6, <2>7 DEF Seeking, AtCluster, Allocating
    <2> QED BY <2>6, <2>7, <2>8
  <1> QED BY <1>2, <1>3, <1>6, <1>8, <1>9, <1>10 DEF Seek, f, base

\* Only entries of the FAT make a chain.
LEMMA EntrySaved ==
  ASSUME Fits, Tied(View), NEW f \in Files, NEW v, View' = [View EXCEPT ![f] = v]
  PROVE  /\ Extends(View, View') /\ Tied(View') /\ View'[f] = v
         /\ \A g \in Files \ {f} : View'[g] = View[g]
  <1>1. DOMAIN View = Items
    BY ViewEntry DEF Fits
  <1>2. f \in Items /\ f \notin Clusters
    BY Kinds, Numbers
  <1>3. \A c \in Clusters : View'[c] = View[c]
    BY <1>1, <1>2, Kinds
  <1>4. Taken(View') = Taken(View)
    BY <1>3 DEF Taken
  <1>5. Extends(View, View') /\ Tied(View')
    BY <1>3, <1>4 DEF Extends, Tied, Taken
  <1> QED BY <1>1, <1>2, <1>5, Kinds

\* f_close of a descriptor that has nothing to save, or none any more ...
LEMMA ClosesAtOnce ==
  ASSUME OpenInv, NEW p \in Fils, pc = "idle", ~Valid(p) \/ ~fil[p].modified,
         res' = (IF Valid(p) THEN "OK" ELSE "INVALID"),
         fil' = [fil EXCEPT ![p].fs = FALSE], opened' = opened \ {p},
         UNCHANGED <<window, fs_type, alloc, chain, call>>
  PROVE  Fits' /\ ChainsHold' /\ OpsOfTable' /\ Reading' /\ Seeking'
  <1> DEFINE g == [fil[p] EXCEPT !.fs = FALSE]
  <1>1. /\ fil \in [Fils -> FIL] /\ fil[p] \in FIL /\ opened \subseteq Fils /\ Fits
        /\ fil[p].err \/ fil[p].fptr <= fil[p].objsize
    BY AtIdle DEF OpenInv, Fits, FilesFit
  <1>2. fil' = [fil EXCEPT ![p] = g]
    BY <1>1
  <1>3. g \in FIL /\ ~g.fs /\ (g.err <=> fil[p].err) /\ g.fptr = fil[p].fptr
        /\ g.objsize = fil[p].objsize
    BY <1>1 DEF FIL
  <1> HIDE DEF g
  <1>4. cur = 0 /\ call.op = "none" /\ cur' = 0 /\ call'.op = "none" /\ pc' = "idle"
    BY <1>1, AtIdle DEF cur, chain
  <1>5. res' \in Result /\ opened' \subseteq Fils /\ UNCHANGED <<pc, clst, ncl, call>>
    BY <1>1 DEF Result, chain
  <1>6. ChainFits' /\ CallFits' /\ FilesFit' /\ Saving'
    BY <1>1, <1>2, <1>3, <1>5, ChangedAtOnce
  <1>7. WindowFits' /\ AllocFits' /\ View' = View
    BY <1>1 DEF window, alloc, Fits, WindowFits, AllocFits, View
  <1>8. p \notin opened' /\ \A q \in opened' \ {p} : q \in opened /\ fil'[q] = fil[q]
    BY <1>1, <1>2
  <1>9. ChainsHold'
    BY <1>4, <1>7, <1>8, HoldsStill
  <1> QED BY <1>4, <1>6, <1>7, <1>9 DEF Fits, OpsOfTable, Reading, Seeking

\* ... and of one that has.
LEMMA CloseBegins ==
  ASSUME OpenInv, NEW p \in opened, Sync("close", p), Valid(p), fil[p].modified
  PROVE  /\ Fits' /\ ChainsHold' /\ OpsOfTable' /\ Reading' /\ Seeking'
         /\ fil' = fil /\ opened' = opened /\ cur = 0 /\ cur' = p /\ pc' = "flush"
  <1> DEFINE f == fil[p]
             v == [sclust |-> f.sclust, size |-> f.objsize]
  <1>1. pc = "idle" /\ cur = 0 /\ Fits /\ p # 0
    BY AtIdle, DescriptorObject DEF Sync, OpenInv
  <1>2. /\ Fits' /\ fil' = fil /\ opened' = opened /\ pc' = "flush" /\ cur' = p
        /\ call'.op = "close" /\ View' = [View EXCEPT ![f.file] = v]
    BY <1>1, SyncFits DEF Sync
  <1>3. f.file \in Files /\ Roomy(View, f) /\ Settled(View, f) /\ f.objsize \in Nat
    BY <1>1, DescriptorObject DEF Valid, Fits, FilesFit
  <1>4. v.sclust = f.sclust /\ v.size = f.objsize
    OBVIOUS
  <1> HIDE DEF f, v
  <1> DEFINE n == f.file
  <1>5. /\ Extends(View, View') /\ Tied(View') /\ View'[n] = v
        /\ \A g \in Files \ {n} : View'[g] = View[g]
    BY <1>1, <1>2, <1>3, EntrySaved DEF OpenInv, ChainsHold
  <1>6. ASSUME NEW g \in Files PROVE Stored(View', g)
    <2>1. CASE g = n
      <3>1. Room(View', f.sclust, f.objsize)
        BY <1>3, <1>5, RoomStays DEF Roomy
      <3>2. f.sclust \in Clusters => f.sclust \in Taken(View')
        BY <1>3, <1>5, Numbers DEF Roomy, Extends
      <3> QED BY <1>4, <1>5, <2>1, <3>1, <3>2 DEF Stored
    <2>2. CASE g # n
      BY <1>1, <1>5, <2>2, SizesStored, StoredStays DEF OpenInv, ChainsHold
    <2> QED BY <2>1, <2>2
  <1>7. Roomy(View', f) /\ Settled(View', f)
    <2>1. f \in FIL
      BY DescriptorObject DEF f
    <2> QED BY <1>3, <1>5, <2>1, RoomyStays, AtClusterStays DEF Settled
  <1>8. ChainsHold'
    BY <1>1, <1>2, <1>5, <1>6, <1>7, HoldsOn DEF f
  <1> QED BY <1>1, <1>2, <1>8 DEF OpsOfTable, Reading, Seeking

-----------------------------------------------------------------------------
\* The steps of a call.

LEMMA Everyone ==
  ASSUME OpenInv, call.op # "none"
  PROVE  /\ Fits /\ cur \in opened /\ cur \in Fils /\ cur # 0 /\ fil \in [Fils -> FIL]
         /\ me \in FIL /\ me = fil[cur]
         /\ me.fptr \in Nat /\ me.objsize \in Nat /\ me.clust \in {0} \cup Clusters
         /\ me.sclust \in {0} \cup Clusters
         /\ Roomy(View, me) /\ (call.op # "seek" => Settled(View, me))
         /\ call.ofs \in Nat /\ Tied(View) /\ bcs \in Nat \ {0}
  <1>1. Fits /\ call.op \in {"read", "seek", "close"}
    BY DEF OpenInv, OpsOfTable
  <1>2. cur \in Fils /\ call.ofs \in Nat
    BY <1>1 DEF Fits, CallFits, Frame
  <1>3. cur # 0
    BY <1>2, VolumeAssumption
  <1>4. cur \in opened
    BY <1>3 DEF OpenInv, TableInv, Working
  <1>5. Roomy(View, me) /\ (call.op # "seek" => Settled(View, me)) /\ Tied(View)
    BY <1>4 DEF OpenInv, ChainsHold, me
  <1>6. me \in FIL /\ me = fil[cur] /\ fil \in [Fils -> FIL]
    BY <1>1, <1>2 DEF Fits, FilesFit, me
  <1> QED BY <1>1, <1>2, <1>3, <1>4, <1>5, <1>6, Fields, VolumeAssumption

\* The object is changed, the FAT is not.
LEMMA WorkedOn ==
  ASSUME OpenInv, call.op # "none", NEW g, fil' = [fil EXCEPT ![cur] = g], View' = View,
         opened' = opened, cur' \in {0, cur}, Roomy(View, g),
         cur' = 0 \/ call'.op # "seek" => Settled(View, g)
  PROVE  ChainsHold' /\ fil'[cur] = g
  <1>1. cur \in opened /\ cur # 0 /\ fil \in [Fils -> FIL] /\ cur \in Fils
    BY Everyone
  <1>2. fil'[cur] = g /\ \A q \in opened' \ {cur} : q \in opened /\ fil'[q] = fil[q]
    BY <1>1 DEF OpenInv, Fits, FilesFit
  <1> DEFINE p == cur
  <1>3. p \in {0, p} /\ cur \in {0, p} /\ cur' \in {0, p}
    OBVIOUS
  <1> HIDE DEF p
  <1>4. cur = p
    BY DEF p
  <1>5. ChainsHold'
    BY <1>1, <1>2, <1>3, <1>4, HoldsStill
  <1> QED BY <1>2, <1>5

\* Only the call is.
LEMMA WentOn ==
  ASSUME OpenInv, call.op # "none", fil' = fil, View' = View, opened' = opened,
         cur' = 0 \/ (cur' = cur /\ call'.op = call.op), cur' = 0 => call.op # "seek"
  PROVE  ChainsHold'
  <1>1. cur \in Fils /\ fil \in [Fils -> FIL] /\ Roomy(View, me)
        /\ (call.op # "seek" => Settled(View, me)) /\ me = fil[cur]
    BY Everyone
  <1>2. fil' = [fil EXCEPT ![cur] = me]
    BY <1>1
  <1> QED BY <1>1, <1>2, WorkedOn

\* What is read next is in the chain of the file.
LEMMA NextToRead ==
  ASSUME OpenInv, call.op = "read", call.ofs > 0
  PROVE  LET c == IF me.fptr % bcs # 0 THEN me.clust
                  ELSE IF me.fptr = 0 THEN me.sclust ELSE get_fat(me.clust)
         IN  Reached(View, me.sclust, me.fptr \div bcs, c)
  <1> DEFINE n == me.fptr
             s == me.sclust
             z == me.objsize
  <1>1. /\ n \in Nat /\ z \in Nat /\ Room(View, s, z) /\ AtCluster(View, me) /\ bcs \in Nat \ {0}
        /\ call.ofs \in Nat
    BY Everyone DEF Roomy, Settled
  <1>2. n + call.ofs <= z
    BY DEF OpenInv, Fits, FilesFit
  <1>3. n <= z - 1 /\ z > 0 /\ z - 1 \in Nat
    BY <1>1, <1>2
  <1>4. n > 0 => Reached(View, s, (n - 1) \div bcs, me.clust)
    BY <1>1 DEF AtCluster
  <1> HIDE DEF n, s, z
  <1>5. CASE n % bcs # 0
    <2>1. n > 0 /\ (n - 1) \div bcs = n \div bcs
      BY <1>1, <1>5, Inside
    <2> QED BY <1>4, <1>5, <2>1 DEF n, s
  <1>6. CASE n % bcs = 0
    <2>1. n \div bcs \in Nat /\ n \div bcs <= (z - 1) \div bcs
      BY <1>1, <1>3, Monotone, Division
    <2>2. Reached(View, s, n \div bcs, Walk(View, s)[n \div bcs])
      BY <1>1, <1>3, <2>1, ByteReached
    <2>3. CASE n = 0
      <3>1. n \div bcs = 0
        BY <1>1, <2>3
      <3>2. Walk(View, s)[n \div bcs] = s
        BY <3>1, Walks
      <3> QED BY <1>6, <2>2, <2>3, <3>2 DEF n, s
    <2>4. CASE n # 0
      <3> DEFINE k == n \div bcs
                 j == k - 1
      <3>1. k > 0 /\ (n - 1) \div bcs = k - 1
        <4>1. n > 0
          BY <1>1, <2>4
        <4> QED BY <1>1, <1>6, <4>1, NextOne
      <3>2. j \in Nat /\ k = j + 1 /\ Reached(View, s, j, me.clust)
        BY <1>1, <1>4, <2>1, <2>4, <3>1
      <3> HIDE DEF j, k
      <3>3. Walk(View, s)[k] = EntryOf(View, me.clust)
        BY <3>2, Walks DEF Reached
      <3> QED BY <1>6, <2>2, <2>4, <3>3 DEF n, s, k, get_fat
    <2> QED BY <2>3, <2>4
  <1> QED BY <1>5, <1>6

\* The bytes up to the next boundary are in one cluster.
LEMMA UpToBoundary ==
  ASSUME NEW n \in Nat, NEW k \in Nat, k > 0, bcs \in Nat \ {0}, k <= bcs - (n % bcs),
         NEW end, end = n + k
  PROVE  (end - 1) \div bcs = n \div bcs
  <1>1. (n + k - 1) \div bcs = n \div bcs
    BY Within
  <1> QED BY <1>1

LEMMA ReadNextHolds ==
  ASSUME OpenInv, ReadNext, pc' # "idle" => sys' = sys
  PROVE  /\ ChainsHold' /\ OpsOfTable' /\ Reading' /\ Seeking'
         /\ opened' = opened /\ call.op = "read"
         /\ \A q \in Fils \ {cur} : fil'[q] = fil[q]
         /\ fil'[cur].objsize = me.objsize
         /\ \/ /\ pc' = "idle" /\ cur' = 0 /\ fil' = fil /\ call.ofs = 0
            \/ /\ pc' # "idle" /\ cur' = cur
  <1> DEFINE c == IF me.fptr % bcs # 0 THEN me.clust
                  ELSE IF me.fptr = 0 THEN me.sclust ELSE get_fat(me.clust)
  <1>1. pc = "read" /\ call.op = "read" /\ Fits /\ opened' = opened /\ View' = View
    BY ReadNextFits DEF ReadNext, OpenInv, Fits, CallFits, Runs, Creates, Removes, Syncs
  <1>2. /\ cur \in Fils /\ cur # 0 /\ me \in FIL /\ me.fptr \in Nat /\ me.objsize \in Nat
        /\ Roomy(View, me) /\ Settled(View, me) /\ call.ofs \in Nat /\ bcs \in Nat \ {0}
        /\ fil \in [Fils -> FIL] /\ me = fil[cur]
    BY <1>1, Everyone
  <1>3. CASE call.ofs = 0
    <2>1. Return("OK") /\ fil' = fil /\ "OK" \in Result
      BY <1>3 DEF ReadNext, Result
    <2>2. call'.op = "none" /\ cur' = 0 /\ pc' = "idle"
      BY <2>1, ReturnFits DEF Idle, cur
    <2>3. ChainsHold'
      BY <1>1, <2>1, <2>2, WentOn
    <2> QED BY <1>1, <1>2, <1>3, <2>1, <2>2, <2>3 DEF OpsOfTable, Reading, Seeking
  <1>4. CASE call.ofs > 0
    <2>1. Reached(View, me.sclust, me.fptr \div bcs, c)
      BY <1>1, <1>4, NextToRead
    <2> HIDE DEF c
    <2>2. c \in Clusters
      BY <2>1 DEF Reached, Taken
    <2> DEFINE g == [me EXCEPT !.clust = c, !.fptr = me.fptr + Chunk]
    <2>3. fil' = [fil EXCEPT ![cur] = g] /\ Advance /\ UNCHANGED <<chain, res>>
      BY <1>2, <1>4, <2>2 DEF ReadNext, Become, c
    <2>4. Chunk \in Nat /\ Chunk > 0 /\ Chunk <= call.ofs /\ Chunk <= bcs - (me.fptr % bcs)
      BY <1>1, <1>2, <1>4, ChunkFits
    <2>5. /\ g.fptr = me.fptr + Chunk /\ g.objsize = me.objsize /\ g.sclust = me.sclust
          /\ g.clust = c /\ (g.write <=> me.write) /\ (g.err <=> me.err)
      BY <1>2 DEF FIL
    <2> HIDE DEF g
    <2>6. cur' = cur /\ call'.op = "read" /\ call'.ofs = call.ofs - Chunk /\ pc' = "read"
      BY <1>1, <1>2, <1>4, <2>3, AdvanceFits DEF chain
    <2>7. (g.fptr - 1) \div bcs = me.fptr \div bcs
      BY <1>2, <2>4, <2>5, UpToBoundary
    <2>8. me.fptr + call.ofs <= me.objsize
      BY <1>1 DEF Fits, FilesFit
    <2>9. Settled(View, g)
      <3>1. g.fptr <= g.objsize
        BY <1>2, <2>4, <2>5, <2>8
      <3> QED BY <2>1, <2>5, <2>7, <3>1 DEF Settled, AtCluster
    <2>10. Roomy(View, g)
      BY <1>2, <2>5 DEF Roomy
    <2>11. ChainsHold' /\ fil'[cur] = g
      BY <1>1, <2>3, <2>6, <2>9, <2>10, WorkedOn
    <2>12. me' = g /\ sys' = sys
      BY <2>6, <2>11 DEF me
    <2>13. Reading'
      <3>1. g.fptr + call'.ofs = me.fptr + call.ofs
        BY <1>2, <2>4, <2>5, <2>6
      <3> QED BY <1>1, <2>5, <2>12, <3>1 DEF OpenInv, Reading
    <2>14. \A q \in Fils \ {cur} : fil'[q] = fil[q]
      BY <1>2, <2>3
    <2> QED BY <1>1, <2>5, <2>6, <2>11, <2>13, <2>14 DEF OpsOfTable, Seeking
  <1> QED BY <1>2, <1>3, <1>4

-----------------------------------------------------------------------------
\* create_chain for f_lseek.

LEMMA Stretches ==
  ASSUME OpenInv, pc \in Creates
  PROVE  /\ call.op = "seek" /\ Fits /\ cur \in opened /\ cur \in Fils /\ cur # 0
         /\ me \in FIL /\ me = fil[cur] /\ Roomy(View, me) /\ Tied(View)
         /\ AtCluster(View, me) /\ Allocating /\ me.fptr % bcs = 0
         /\ me.fptr \in Nat /\ me.objsize \in Nat /\ bcs \in Nat \ {0}
         /\ me.fptr = 0 => clst = 0 /\ me.sclust = 0
         /\ me.fptr > 0 => clst = me.clust /\ clst \in Taken(View)
  <1>1. call.op = "seek"
    BY DEF OpenInv, OpsOfTable, Fits, CallFits, Runs, Creates, Removes, Syncs
  <1>2. /\ AtCluster(View, me) /\ Allocating /\ me.fptr % bcs = 0
        /\ me.fptr = 0 => clst = 0 /\ me.sclust = 0
        /\ me.fptr > 0 => clst = me.clust
    BY <1>1 DEF OpenInv, Seeking
  <1>3. me.fptr > 0 => me.clust \in Taken(View)
    BY <1>2 DEF AtCluster, Reached
  <1> QED BY <1>1, <1>2, <1>3, Everyone

\* What create_chain does to the FAT.
LEMMA StretchHolds ==
  ASSUME OpenInv, pc \in Creates, pc' \in Creates, Elsewhere, clst' = clst, sys' = sys,
         Extends(View, View'), Tied(View'), \A f \in Files : View'[f] = View[f], Allocating'
  PROVE  ChainsHold' /\ OpsOfTable' /\ Reading' /\ Seeking'
  <1>1. /\ call.op = "seek" /\ cur \in opened /\ me \in FIL /\ me = fil[cur]
        /\ Roomy(View, me) /\ AtCluster(View, me)
    BY Stretches
  <1>2. fil' = fil /\ opened' = opened /\ call' = call
    BY DEF Elsewhere
  <1>3. cur' = cur /\ call'.op = "seek" /\ me' = me
    BY <1>1, <1>2 DEF cur, me
  <1>4. Roomy(View', me) /\ AtCluster(View', me)
    BY <1>1, RoomyStays, AtClusterStays
  <1>5. \A f \in Files : Stored(View', f)
    BY EntriesStay
  <1> DEFINE p == cur
  <1>6. p \in {0, p} /\ cur \in {0, p} /\ cur' \in {0, p} /\ cur' = p /\ fil'[p] = me
    BY <1>1, <1>2, <1>3
  <1> HIDE DEF p
  <1>7. ChainsHold'
    BY <1>2, <1>3, <1>4, <1>5, <1>6, HoldsOn
  <1>8. Seeking
    BY DEF OpenInv
  <1>9. pc' # "seek"
    BY DEF Creates
  <1>10. Seeking'
    BY <1>1, <1>2, <1>3, <1>4, <1>8, <1>9 DEF Seeking
  <1> QED BY <1>3, <1>7, <1>10 DEF OpsOfTable, Reading

LEMMA FollowHolds ==
  ASSUME OpenInv, Follow, Elsewhere, sys' = sys
  PROVE  ChainsHold' /\ OpsOfTable' /\ Reading' /\ Seeking'
  <1>1. pc \in Creates /\ pc' = "created" /\ clst # 0 /\ clst' = clst
        /\ ncl' = IF View[clst] = FREE THEN INSANITY ELSE View[clst]
    BY DEF Follow, Creates
  <1>2. clst \in Taken(View) /\ Tied(View) /\ Fits
    BY <1>1, Stretches
  <1>3. View' = View
    BY <1>2, FollowFits
  <1>4. View[clst] # FREE /\ View[clst] \in Taken(View)
    BY <1>2 DEF Taken, Tied, Follow
  <1>5. View[clst] \in Clusters /\ View[clst] # INSANITY /\ View[clst] # NOSPACE
    BY <1>4, Numbers DEF Taken, INSANITY, NOSPACE
  <1>6. Allocating'
    BY <1>1, <1>3, <1>4, <1>5 DEF Allocating
  <1>7. pc' \in Creates
    BY <1>1 DEF Creates
  <1> QED BY <1>1, <1>2, <1>3, <1>6, <1>7, SameExtends, StretchHolds

LEMMA FullHolds ==
  ASSUME OpenInv, Full, Elsewhere, sys' = sys
  PROVE  ChainsHold' /\ OpsOfTable' /\ Reading' /\ Seeking'
  <1>1. pc \in Creates /\ pc' = "created" /\ (clst # 0 => View[clst] = EOC) /\ clst' = clst
        /\ ncl' = NOSPACE
    BY DEF Full, Creates
  <1>2. /\ me.fptr = 0 => clst = 0 /\ me.sclust = 0
        /\ me.fptr > 0 => clst = me.clust /\ clst \in Taken(View)
        /\ Tied(View) /\ Fits /\ Roomy(View, me) /\ AtCluster(View, me)
        /\ me.fptr % bcs = 0 /\ me.fptr \in Nat /\ me.objsize \in Nat
    BY <1>1, Stretches
  <1>3. View' = View
    BY <1>2, FullFits
  <1>4. me.objsize <= me.fptr
    <2> DEFINE n == me.fptr
               z == me.objsize
               s == me.sclust
               c == me.clust
    <2>1. Room(View, s, z) /\ (n > 0 => Reached(View, s, (n - 1) \div bcs, c))
      BY <1>2 DEF Roomy, AtCluster
    <2>2. n \in Nat /\ z \in Nat /\ n % bcs = 0 /\ (n = 0 => s = 0) /\ (n > 0 => View[c] = EOC)
      <3>1. 0 \notin Taken(View)
        BY Numbers DEF Taken
      <3> QED BY <1>1, <1>2, <3>1
    <2> HIDE DEF n, z, s, c
    <2>3. CASE n = 0
      <3>1. s \notin Taken(View)
        BY <2>2, <2>3, Numbers DEF Taken
      <3>2. z = 0
        BY <2>1, <2>2, <3>1, NoClusterNoBytes
      <3> QED BY <2>3, <3>2 DEF n, z
    <2>4. CASE n > 0
      <3>1. z <= n
        BY <2>1, <2>2, <2>4, EndOfRoom
      <3> QED BY <3>1 DEF n, z
    <2> QED BY <2>2, <2>3, <2>4
  <1>5. NOSPACE # INSANITY /\ NOSPACE \notin Clusters
    BY Numbers DEF NOSPACE, INSANITY
  <1>6. me' = me
    BY DEF Elsewhere, me, cur
  <1>7. Allocating'
    BY <1>1, <1>3, <1>4, <1>5, <1>6 DEF Allocating
  <1>8. pc' \in Creates
    BY <1>1 DEF Creates
  <1> QED BY <1>1, <1>2, <1>3, <1>7, <1>8, SameExtends, StretchHolds

LEMMA FindHolds ==
  ASSUME OpenInv, Find, Elsewhere, sys' = sys
  PROVE  ChainsHold' /\ OpsOfTable' /\ Reading' /\ Seeking'
  <1>1. pc \in Creates /\ pc' = "mark" /\ (clst # 0 => View[clst] = EOC) /\ clst' = clst
    BY DEF Find, Creates
  <1>2. Tied(View) /\ Fits
    BY <1>1, Stretches
  <1>3. View' = View /\ View[ncl'] = FREE
    BY <1>2, FindFits DEF FreeClusters
  <1>4. Allocating'
    BY <1>1, <1>3 DEF Allocating
  <1>5. pc' \in Creates
    BY <1>1 DEF Creates
  <1> QED BY <1>1, <1>2, <1>3, <1>4, <1>5, SameExtends, StretchHolds

\* A change to one cluster.
LEMMA OneCluster ==
  ASSUME Fits, NEW c \in Clusters, NEW v, View' = [View EXCEPT ![c] = v]
  PROVE  /\ View'[c] = v /\ \A f \in Files : View'[f] = View[f]
         /\ \A d \in Clusters \ {c} : View'[d] = View[d]
  <1>1. DOMAIN View = Items
    BY ViewEntry DEF Fits
  <1> QED BY <1>1, Kinds, Numbers

LEMMA MarkHolds ==
  ASSUME OpenInv, Mark, Elsewhere, sys' = sys
  PROVE  ChainsHold' /\ OpsOfTable' /\ Reading' /\ Seeking'
  <1>1. pc \in Creates /\ pc = "mark" /\ clst' = clst /\ ncl' = ncl
        /\ pc' = IF clst = 0 THEN "created" ELSE "link"
    BY DEF Mark, Creates
  <1>2. Tied(View) /\ Fits /\ Allocating
    BY <1>1, Stretches
  <1>3. /\ ncl \in Clusters /\ View[ncl] = FREE /\ (clst # 0 => clst \in Clusters /\ View[clst] = EOC)
        /\ View' = [View EXCEPT ![ncl] = EOC]
    BY <1>1, <1>2, MarkFits DEF Fits, ChainFits, Allocating
  <1>4. /\ View'[ncl] = EOC /\ \A f \in Files : View'[f] = View[f]
        /\ \A d \in Clusters \ {ncl} : View'[d] = View[d]
    BY <1>2, <1>3, OneCluster
  <1>5. FREE # EOC /\ ncl # INSANITY /\ ncl # NOSPACE
    BY <1>3, Numbers DEF INSANITY, NOSPACE
  <1>6. Extends(View, View')
    BY <1>3, <1>4 DEF Extends, Taken
  <1>7. ncl \in Taken(View')
    BY <1>3, <1>4, <1>5 DEF Taken
  <1>8. Tied(View')
    BY <1>2, <1>4, <1>6, <1>7 DEF Tied, Extends, Taken
  <1>9. clst # 0 => View'[clst] = EOC
    BY <1>3, <1>4, <1>5
  <1>10. Allocating'
    BY <1>1, <1>4, <1>5, <1>7, <1>9 DEF Allocating
  <1>11. pc' \in Creates
    BY <1>1 DEF Creates
  <1> QED BY <1>1, <1>4, <1>6, <1>8, <1>10, <1>11, StretchHolds

LEMMA LinkHolds ==
  ASSUME OpenInv, Link, Elsewhere, sys' = sys
  PROVE  ChainsHold' /\ OpsOfTable' /\ Reading' /\ Seeking'
  <1>1. pc \in Creates /\ pc = "link" /\ clst' = clst /\ ncl' = ncl /\ pc' = "created"
    BY DEF Link, Creates
  <1>2. Tied(View) /\ Fits /\ Allocating
    BY <1>1, Stretches
  <1>3. /\ ncl \in Clusters /\ View[ncl] = EOC /\ clst \in Clusters /\ clst # 0 /\ View[clst] = EOC
        /\ View' = [View EXCEPT ![clst] = ncl]
    BY <1>1, <1>2, LinkFits, Numbers DEF Fits, ChainFits, Allocating
  <1>4. /\ View'[clst] = ncl /\ \A f \in Files : View'[f] = View[f]
        /\ \A d \in Clusters \ {clst} : View'[d] = View[d]
    BY <1>2, <1>3, OneCluster
  <1>5. FREE # EOC /\ ncl # INSANITY /\ ncl # NOSPACE /\ ncl # FREE
    BY <1>3, Numbers DEF INSANITY, NOSPACE
  <1>6. Extends(View, View')
    BY <1>3, <1>4, <1>5 DEF Extends, Taken
  <1>7. ncl \in Taken(View')
    BY <1>3, <1>4, <1>5 DEF Taken
  <1>8. Tied(View')
    BY <1>2, <1>4, <1>6, <1>7 DEF Tied, Extends, Taken
  <1>10. Allocating'
    BY <1>1, <1>4, <1>5, <1>7 DEF Allocating
  <1>11. pc' \in Creates
    BY <1>1 DEF Creates
  <1> QED BY <1>1, <1>4, <1>6, <1>8, <1>10, <1>11, StretchHolds

-----------------------------------------------------------------------------
\* The steps of f_lseek.

\* Where f_lseek leaves the object.
Landed(g, o) ==
  IF o <= me.objsize THEN g.fptr = o /\ g.objsize = me.objsize
  ELSE me.objsize <= g.fptr /\ g.fptr <= o /\ g.objsize = g.fptr

\* A file grows no further than its chain.
LEMMA GrownRoomy ==
  ASSUME NEW m, NEW f \in FIL, Roomy(m, f), AtCluster(m, f)
  PROVE  Roomy(m, Grown(f)) /\ Settled(m, Grown(f))
  <1> DEFINE g == Grown(f)
  <1>1. /\ g.fptr <= g.objsize /\ (g.err <=> f.err) /\ g.fptr = f.fptr /\ g.sclust = f.sclust
        /\ g.clust = f.clust /\ g.objsize = IF f.fptr > f.objsize THEN f.fptr ELSE f.objsize
    BY GrownFits
  <1>2. g.write <=> f.write
    BY GrownFits
  <1> HIDE DEF g
  <1>3. f.fptr > f.objsize => Room(m, f.sclust, f.fptr)
    BY DEF AtCluster, Reached, Room
  <1>4. Roomy(m, g)
    BY <1>1, <1>2, <1>3 DEF Roomy
  <1>5. Settled(m, g)
    BY <1>1 DEF Settled, AtCluster
  <1> QED BY <1>4, <1>5 DEF g

\* The end of f_lseek.
LEMMA SeekEnds ==
  ASSUME OpenInv, call.op = "seek", NEW f \in FIL, Roomy(View, f), AtCluster(View, f),
         f.objsize = me.objsize, Become(Grown(f)), Return("OK"), View' = View,
         opened' = opened, Landed(Grown(f), sys.ofs)
  PROVE  /\ ChainsHold' /\ OpsOfTable' /\ Reading' /\ Seeking'
         /\ Landed(fil'[cur], sys.ofs) /\ pc' = "idle" /\ cur' = 0 /\ res' = "OK"
  <1> DEFINE g == Grown(f)
  <1>1. Roomy(View, g) /\ Settled(View, g)
    BY GrownRoomy
  <1>2. fil' = [fil EXCEPT ![cur] = g] /\ Landed(g, sys.ofs)
    BY DEF Become
  <1> HIDE DEF g
  <1>3. "OK" \in Result
    BY DEF Result
  <1>4. call'.op = "none" /\ cur' = 0 /\ pc' = "idle" /\ res' = "OK"
    BY <1>3, ReturnFits DEF Idle, cur, Return
  <1>5. ChainsHold' /\ fil'[cur] = g
    BY <1>1, <1>2, <1>4, WorkedOn
  <1> QED BY <1>2, <1>4, <1>5 DEF OpsOfTable, Reading, Seeking

LEMMA SeekNextHolds ==
  ASSUME OpenInv, SeekNext, pc' # "idle" => sys' = sys
  PROVE  /\ ChainsHold' /\ OpsOfTable' /\ Reading' /\ Seeking'
         /\ opened' = opened /\ call.op = "seek"
         /\ \A q \in Fils \ {cur} : fil'[q] = fil[q]
         /\ \/ pc' = "idle" /\ cur' = 0 /\ res' = "OK" /\ Landed(fil'[cur], sys.ofs)
            \/ pc' # "idle" /\ cur' = cur /\ fil'[cur].objsize = me.objsize
  <1>1. pc = "seek" /\ call.op = "seek" /\ Fits /\ opened' = opened /\ View' = View
    BY SeekNextFits DEF SeekNext, OpenInv, Fits, CallFits, Runs, Creates, Removes, Syncs
  <1>2. /\ cur \in Fils /\ cur # 0 /\ me \in FIL /\ me.fptr \in Nat /\ me.objsize \in Nat
        /\ Roomy(View, me) /\ call.ofs \in Nat /\ bcs \in Nat \ {0}
        /\ fil \in [Fils -> FIL] /\ me = fil[cur]
    BY <1>1, Everyone
  <1>3. /\ sys.from \in Nat /\ sys.ofs \in 0 .. (Wrap - 1) /\ me.fptr % bcs = 0
        /\ me.fptr + call.ofs = sys.ofs /\ Reached(View, me.sclust, me.fptr \div bcs, me.clust)
        /\ call.ofs > 0
    BY <1>1 DEF OpenInv, Seeking, Fits, FilesFit
  <1>4. me.write
    BY <1>2 DEF Roomy
  <1>5. \A q \in Fils \ {cur} : fil'[q] = fil[q]
    BY <1>2 DEF SeekNext, Become, Abort
  <1>6. CASE call.ofs <= bcs
    <2> DEFINE f == [me EXCEPT !.fptr = me.fptr + call.ofs]
    <2>1. Become(Grown(f)) /\ Return("OK")
      BY <1>2, <1>6 DEF SeekNext
    <2>2. me.fptr + call.ofs \in Nat
      BY <1>2
    <2>3. /\ f \in FIL /\ f.fptr = me.fptr + call.ofs /\ f.objsize = me.objsize
          /\ f.sclust = me.sclust /\ f.clust = me.clust /\ (f.write <=> me.write)
          /\ (f.err <=> me.err)
      BY <1>2, <2>2 DEF FIL
    <2> HIDE DEF f
    <2>4. (f.fptr - 1) \div bcs = me.fptr \div bcs
      <3> DEFINE n == me.fptr
                 k == call.ofs
                 end == f.fptr
      <3>1. /\ n \in Nat /\ k \in Nat /\ k > 0 /\ bcs \in Nat \ {0} /\ end = n + k
            /\ n % bcs = 0 /\ k <= bcs
        BY <1>2, <1>3, <1>6, <2>3
      <3> HIDE DEF n, k, end
      <3>2. k <= bcs - (n % bcs)
        BY <3>1
      <3>3. (end - 1) \div bcs = n \div bcs
        BY <3>1, <3>2, UpToBoundary
      <3> QED BY <3>3 DEF n, end
    <2>5. Roomy(View, f) /\ AtCluster(View, f)
      BY <1>2, <1>3, <2>3, <2>4 DEF Roomy, AtCluster
    <2>6. Landed(Grown(f), sys.ofs)
      <3>1. Grown(f).fptr = f.fptr
            /\ Grown(f).objsize = IF f.fptr > f.objsize THEN f.fptr ELSE f.objsize
        BY <2>3, GrownFits
      <3>2. f.fptr = sys.ofs /\ f.fptr \in Nat
        BY <1>3, <2>2, <2>3
      <3> QED BY <1>2, <2>3, <3>1, <3>2 DEF Landed
    <2> QED BY <1>1, <1>5, <2>1, <2>3, <2>5, <2>6, SeekEnds
  <1>7. CASE call.ofs > bcs
    <2> DEFINE g == [me EXCEPT !.fptr = me.fptr + bcs]
    <2>1. /\ fil' = [fil EXCEPT ![cur] = g] /\ call' = [call EXCEPT !.ofs = call.ofs - bcs]
          /\ clst' = me.clust /\ pc' = "create"
      BY <1>2, <1>4, <1>7 DEF SeekNext, Become
    <2>2. /\ g.fptr = me.fptr + bcs /\ g.objsize = me.objsize /\ g.sclust = me.sclust
          /\ g.clust = me.clust /\ (g.write <=> me.write) /\ (g.err <=> me.err)
      BY <1>2 DEF FIL
    <2> HIDE DEF g
    <2>3. cur' = cur /\ call'.op = "seek" /\ call'.ofs = call.ofs - bcs
      BY <1>1, <2>1 DEF OpenInv, Fits, CallFits, Frame, cur
    <2>4. (g.fptr - 1) \div bcs = me.fptr \div bcs
      <3>1. 0 < bcs /\ bcs <= bcs - (me.fptr % bcs)
        BY <1>2, <1>3
      <3>2. bcs \in Nat
        BY <1>2
      <3> QED BY <1>2, <2>2, <3>1, <3>2, UpToBoundary
    <2>5. Roomy(View, g) /\ AtCluster(View, g)
      BY <1>2, <1>3, <2>2, <2>4 DEF Roomy, AtCluster
    <2>6. ChainsHold' /\ fil'[cur] = g
      BY <1>1, <1>2, <2>1, <2>3, <2>5, WorkedOn
    <2>7. me' = g /\ sys' = sys
      BY <2>1, <2>3, <2>6 DEF me
    <2>8. g.fptr % bcs = 0 /\ g.fptr > 0 /\ g.fptr + call'.ofs = sys.ofs
      <3> DEFINE n == me.fptr
      <3>1. n \in Nat /\ n % bcs = 0 /\ bcs \in Nat \ {0} /\ g.fptr = n + bcs
        BY <1>2, <1>3, <2>2
      <3>2. n + call.ofs = sys.ofs /\ call'.ofs = call.ofs - bcs /\ call.ofs \in Nat
        BY <1>2, <1>3, <2>3
      <3> HIDE DEF n
      <3>3. (n + bcs) % bcs = 0
        BY <3>1, NextOne
      <3>5. n + bcs > 0
        BY <3>1
      <3>4. (n + bcs) + (call.ofs - bcs) = n + call.ofs
        BY <3>1, <3>2
      <3> QED BY <3>1, <3>2, <3>3, <3>4, <3>5
    <2>9. Seeking'
      BY <1>1, <1>3, <2>1, <2>2, <2>3, <2>5, <2>7, <2>8 DEF Seeking, Allocating
    <2> QED BY <1>1, <1>5, <2>1, <2>2, <2>3, <2>6, <2>9 DEF OpsOfTable, Reading
  <1> QED BY <1>2, <1>6, <1>7

LEMMA SeekCreatedHolds ==
  ASSUME OpenInv, SeekCreated, pc' # "idle" => sys' = sys
  PROVE  /\ ChainsHold' /\ OpsOfTable' /\ Reading' /\ Seeking'
         /\ opened' = opened /\ call.op = "seek"
         /\ \A q \in Fils \ {cur} : fil'[q] = fil[q]
         /\ \/ pc' = "idle" /\ cur' = 0 /\ res' = "OK" /\ Landed(fil'[cur], sys.ofs)
            \/ pc' # "idle" /\ cur' = cur /\ fil'[cur].objsize = me.objsize
  <1>1. pc = "created" /\ pc \in Creates /\ call.op = "seek" /\ Fits /\ opened' = opened
        /\ View' = View
    BY SeekCreatedFits DEF SeekCreated, OpenInv, Creates
  <1>2. /\ cur \in Fils /\ cur # 0 /\ me \in FIL /\ me.fptr \in Nat /\ me.objsize \in Nat
        /\ Roomy(View, me) /\ AtCluster(View, me) /\ bcs \in Nat \ {0} /\ me.fptr % bcs = 0
        /\ me.fptr = 0 => clst = 0 /\ me.sclust = 0
        /\ me.fptr > 0 => clst = me.clust /\ clst \in Taken(View)
        /\ me = fil[cur] /\ Allocating
    BY <1>1, Stretches
  <1>3. fil \in [Fils -> FIL] /\ call.ofs \in Nat /\ call.ofs > 0
    BY <1>1 DEF Fits, FilesFit, CallFits, Frame
  <1>4. /\ sys.from \in Nat /\ sys.ofs \in 0 .. (Wrap - 1) /\ me.fptr + call.ofs = sys.ofs
    BY <1>1 DEF OpenInv, Seeking
  <1>5. \A q \in Fils \ {cur} : fil'[q] = fil[q]
    BY <1>3 DEF SeekCreated, Become, Abort
  <1>6. ncl # INSANITY
    BY <1>1, <1>2 DEF Allocating
  <1>7. CASE ncl = NOSPACE
    <2>1. Become(Grown(me)) /\ Return("OK")
      BY <1>7, Numbers DEF SeekCreated, NOSPACE, INSANITY
    <2>2. me.objsize <= me.fptr
      BY <1>1, <1>2, <1>7 DEF Allocating
    <2>3. Landed(Grown(me), sys.ofs)
      <3>1. Grown(me).fptr = me.fptr
            /\ Grown(me).objsize = IF me.fptr > me.objsize THEN me.fptr ELSE me.objsize
        BY <1>2, GrownFits
      <3>2. sys.ofs \in Nat /\ sys.ofs > me.fptr
        BY <1>2, <1>3, <1>4
      <3> QED BY <1>2, <2>2, <3>1, <3>2 DEF Landed
    <2> QED BY <1>1, <1>2, <1>5, <2>1, <2>3, SeekEnds
  <1>8. CASE ncl \in Clusters
    <2> DEFINE g == [me EXCEPT !.clust = ncl, !.sclust = IF me.sclust = 0 THEN ncl ELSE me.sclust]
    <2>1. fil' = [fil EXCEPT ![cur] = g] /\ pc' = "seek" /\ UNCHANGED <<clst, ncl, call, res>>
      BY <1>6, <1>8, Numbers DEF SeekCreated, Become, NOSPACE
    <2>2. /\ g.fptr = me.fptr /\ g.objsize = me.objsize
          /\ g.sclust = (IF me.sclust = 0 THEN ncl ELSE me.sclust)
          /\ g.clust = ncl /\ (g.write <=> me.write) /\ (g.err <=> me.err)
      BY <1>2 DEF FIL
    <2> HIDE DEF g
    <2>3. cur' = cur /\ call' = call
      BY <2>1 DEF cur
    <2>4. ncl \in Taken(View) /\ (clst # 0 => View[clst] = ncl)
      BY <1>1, <1>2, <1>8 DEF Allocating
    <2>5. Reached(View, g.sclust, g.fptr \div bcs, ncl) /\ Roomy(View, g)
      <3>1. CASE me.fptr = 0
        <4>1. 0 \notin Taken(View) /\ me.sclust = 0 /\ Room(View, me.sclust, me.objsize)
          BY <1>2, <3>1, Numbers DEF Taken, Roomy
        <4>2. me.objsize = 0
          BY <1>2, <4>1, NoClusterNoBytes
        <4>3. g.sclust = ncl /\ g.fptr \div bcs = 0 /\ Room(View, ncl, 0)
          BY <1>2, <2>2, <3>1, <4>1 DEF Room
        <4> QED BY <1>2, <2>2, <2>4, <4>2, <4>3, AtTheFirst DEF Roomy
      <3>2. CASE me.fptr > 0
        <4> DEFINE k == me.fptr \div bcs
                   j == k - 1
        <4>1. (me.fptr - 1) \div bcs = j /\ k > 0 /\ k \in Nat
          BY <1>2, <3>2, NextOne, Division
        <4>2. j \in Nat /\ k = j + 1
          BY <4>1
        <4>3. Reached(View, me.sclust, j, me.clust)
          BY <1>2, <3>2, <4>1 DEF AtCluster
        <4> HIDE DEF j, k
        <4>4. View[me.clust] = ncl
          BY <1>2, <2>4, <3>2, Numbers DEF Taken
        <4>5. Reached(View, me.sclust, k, ncl)
          BY <2>4, <4>2, <4>3, <4>4, OneOn
        <4>6. me.sclust \in Taken(View)
          BY <4>2, <4>3, FirstTaken
        <4>7. g.sclust = me.sclust
          BY <2>2, <4>6, Numbers DEF Taken
        <4> QED BY <1>2, <2>2, <4>5, <4>7 DEF Roomy, k
      <3> QED BY <1>2, <3>1, <3>2
    <2>6. ChainsHold' /\ fil'[cur] = g
      <3>1. call.op # "none" /\ cur' \in {0, cur} /\ ~(cur' = 0 \/ call'.op # "seek")
        BY <1>1, <1>2, <2>3
      <3> QED BY <1>1, <2>1, <2>5, <3>1, WorkedOn
    <2>7. me' = g /\ sys' = sys
      BY <2>1, <2>3, <2>6 DEF me
    <2>8. Seeking'
      BY <1>1, <1>2, <1>4, <2>1, <2>2, <2>3, <2>5, <2>7 DEF Seeking, Creates
    <2> QED BY <1>1, <1>5, <2>1, <2>2, <2>3, <2>6, <2>8 DEF OpsOfTable, Reading
  <1> QED BY <1>6, <1>7, <1>8 DEF SeekCreated

-----------------------------------------------------------------------------
\* The steps of f_close.

LEMMA FlushHolds ==
  ASSUME OpenInv, Flush, pc' # "idle" => sys' = sys
  PROVE  /\ ChainsHold' /\ OpsOfTable' /\ Reading' /\ Seeking'
         /\ opened' = opened /\ fil' = fil /\ pc' # "idle" /\ cur' = cur /\ call.op = "close"
  <1>1. Fits /\ View' = View /\ pc = "flush" /\ pc' = "info" /\ UNCHANGED <<fil, opened, call>>
    BY FlushFits DEF Flush, OpenInv
  <1>2. call.op = "close" /\ cur' = cur
    BY <1>1 DEF OpenInv, OpsOfTable, Fits, CallFits, Runs, Creates, Removes, Syncs, cur
  <1>3. ChainsHold'
    BY <1>1, <1>2, WentOn
  <1> QED BY <1>1, <1>2, <1>3 DEF OpsOfTable, Reading, Seeking

LEMMA SunkHolds ==
  ASSUME OpenInv, Sunk
  PROVE  /\ ChainsHold' /\ OpsOfTable' /\ Reading' /\ Seeking'
         /\ opened' = opened \ {cur} /\ pc' = "idle" /\ cur' = 0 /\ call.op = "close"
         /\ \A q \in Fils \ {cur} : fil'[q] = fil[q]
  <1>1. Fits /\ pc = "info" /\ Return("DISK_ERR") /\ "DISK_ERR" \in Result
    BY DEF Sunk, OpenInv, Result
  <1>2. call.op = "close"
    BY <1>1 DEF OpenInv, OpsOfTable, Fits, CallFits, Runs, Creates, Removes, Syncs
  <1>3. /\ fil \in [Fils -> FIL] /\ opened' = opened \ {cur} /\ opened \subseteq Fils
        /\ \A q \in Fils \ {cur} : fil'[q] = fil[q]
    BY <1>1, <1>2 DEF Sunk, Become, Fits, FilesFit
  <1>4. call'.op = "none" /\ cur' = 0 /\ pc' = "idle"
    BY <1>1, ReturnFits DEF Idle, cur
  <1>5. \A x \in Items \ {FSINFO} : View'[x] = View[x]
    BY <1>1, SunkFits
  <1>6. (\A f \in Files : View'[f] = View[f]) /\ (\A c \in Clusters : View'[c] = View[c])
    BY <1>5, Kinds, Numbers
  <1>7. Taken(View') = Taken(View)
    BY <1>6 DEF Taken
  <1>8. Extends(View, View') /\ Tied(View')
    BY <1>6, <1>7 DEF Extends, Tied, Taken, OpenInv, ChainsHold
  <1> DEFINE p == cur
  <1>9. /\ p \in {0, p} /\ cur \in {0, p} /\ cur' \in {0, p} /\ p \notin opened'
        /\ \A q \in opened' \ {p} : q \in opened /\ fil'[q] = fil[q]
    BY <1>3, <1>4
  <1> HIDE DEF p
  <1>10. ChainsHold'
    BY <1>6, <1>8, <1>9, EntriesStay, HoldsOn
  <1> QED BY <1>2, <1>3, <1>4, <1>10 DEF OpsOfTable, Reading, Seeking

-----------------------------------------------------------------------------
\* The abstract table.

\* The steps of OpenFiles.
LEMMA Stutters ==
  ASSUME Positions' = Positions, Sizes' = Sizes, ret' = ret
  PROVE  [Abstract!Next]_<<Positions, Sizes, ret>>
  OBVIOUS

LEMMA Refuses ==
  ASSUME Positions' = Positions, Sizes' = Sizes, Returns(-1)
  PROVE  Abstract!Next
  BY DEF Abstract!Next, Abstract!Refused, Abstract!Returns, Abstract!Answers, Returns, Answers,
         Nothing

LEMMA Closes ==
  ASSUME NEW d \in Fds, Positions' = [Positions EXCEPT ![d] = -1],
         Sizes' = [Sizes EXCEPT ![d] = -1], Returns(0)
  PROVE  Abstract!Next
  <1>1. Abstract!CLOSED = -1
    BY DEF Abstract!CLOSED
  <1>2. Abstract!Close(d)
    BY <1>1 DEF Abstract!Close, Abstract!Returns, Abstract!Answers, Returns, Answers, Nothing
  <1> QED BY <1>2 DEF Abstract!Next

LEMMA OpensLowest ==
  ASSUME NEW d \in Fds, Positions[d] = -1, \A e \in Fds : e < d => Positions[e] # -1,
         NEW z \in Nat, Positions' = [Positions EXCEPT ![d] = 0],
         Sizes' = [Sizes EXCEPT ![d] = z], Returns(d)
  PROVE  Abstract!Next
  <1>1. Abstract!CLOSED = -1
    BY DEF Abstract!CLOSED
  <1>2. ~Abstract!IsOpen(d) /\ \A e \in Fds : e < d => Abstract!IsOpen(e)
    BY <1>1 DEF Abstract!IsOpen, Positions
  <1>3. Sizes'[d] = z /\ DOMAIN Sizes = Fds
    BY DEF Sizes
  <1>4. Sizes' = [Sizes EXCEPT ![d] = Sizes'[d]] /\ Sizes'[d] >= 0
    BY <1>3
  <1>5. Abstract!Open(d)
    BY <1>2, <1>4 DEF Abstract!Open, Abstract!Returns, Abstract!Answers, Returns, Answers,
                            Nothing
  <1> QED BY <1>5 DEF Abstract!Next

LEMMA ReadsAll ==
  ASSUME NEW d \in Fds, Positions[d] # -1, NEW n \in 0 .. MaxBytes,
         NEW v, v = Least(n, Sizes[d] - Positions[d]), Answers(v, <<"read", n>>),
         Positions' = [Positions EXCEPT ![d] = Positions[d] + v], Sizes' = Sizes
  PROVE  Abstract!Next
  <1>1. Abstract!IsOpen(d)
    BY DEF Abstract!CLOSED, Abstract!IsOpen, Positions
  <1>2. Abstract!Read(d, n)
    <2> DEFINE left == Sizes[d] - Positions[d]
    <2>1. v = IF n < left THEN n ELSE left
      BY DEF Least
    <2>2. DOMAIN Positions = Fds
      BY DEF Positions
    <2> QED BY <1>1, <2>1, <2>2 DEF Abstract!Read, Abstract!Answers, Answers
  <1> QED BY <1>2 DEF Abstract!Next

LEMMA SeeksThere ==
  ASSUME NEW d \in Fds, Positions[d] # -1, NEW asked, NEW o,
         Wanted(asked, Positions[d], Sizes[d], o), Answers(int(o), asked), NEW a,
         Positions' = [Positions EXCEPT ![d] = a],
         IF o <= Sizes[d] THEN a = o /\ Sizes' = Sizes
         ELSE Sizes[d] <= a /\ a <= o /\ Sizes' = [Sizes EXCEPT ![d] = a]
  PROVE  Abstract!Next
  <1>1. Abstract!IsOpen(d)
    BY DEF Abstract!CLOSED, Abstract!IsOpen, Positions
  <1>2. DOMAIN Positions = Fds
    BY DEF Positions
  <1>3. Positions'[d] = a
    BY <1>2
  <1>4. PICK w \in {"SET", "CUR", "END"}, j \in Jumps :
          asked = <<w, j>> /\ o = (Base(w, Positions[d], Sizes[d]) + j) % Wrap
    BY DEF Wanted
  <1>5. Abstract!From(d, w) = Base(w, Positions[d], Sizes[d])
    BY <1>4 DEF Abstract!From, Base
  <1>6. Abstract!int(o) = int(o)
    BY DEF Abstract!int, int
  <1>7. ret' = [val |-> int(o), asked |-> <<w, j>>]
    BY <1>4 DEF Answers
  <1>8. Abstract!Seek(d, w, j)
    <2>1. (Abstract!From(d, w) + j) % Wrap = o
      BY <1>4, <1>5
    <2> QED BY <1>1, <1>3, <1>6, <1>7, <2>1 DEF Abstract!Seek, Abstract!Answers
  <1> QED BY <1>4, <1>8 DEF Abstract!Next

\* A step that works on p leaves the other descriptors as they are.
LEMMA OnlyOne ==
  ASSUME OpenInv, NEW p \in Fils, cur \in {0, p}, cur' \in {0, p},
         \A q \in Fils \ {p} : (q \in opened' <=> q \in opened) /\ fil'[q] = fil[q]
  PROVE  /\ fd(p) \in Fds /\ Positions[fd(p)] = PosOf(p) /\ Sizes[fd(p)] = SizeOf(p)
         /\ Positions' = [Positions EXCEPT ![fd(p)] = PosOf(p)']
         /\ Sizes' = [Sizes EXCEPT ![fd(p)] = SizeOf(p)']
  <1>1. fd(p) \in Fds /\ fd(p) - 2 = p
    BY TableAssumption DEF fd, Fds
  <1>2. \A d \in Fds : d - 2 \in Fils /\ d - 2 # 0 /\ (d - 2 = p => d = fd(p))
    BY TableAssumption DEF fd, Fds
  <1>3. ASSUME NEW d \in Fds, d # fd(p)
        PROVE  PosOf(d - 2)' = PosOf(d - 2) /\ SizeOf(d - 2)' = SizeOf(d - 2)
    <2>1. d - 2 \in Fils \ {p} /\ d - 2 # cur /\ d - 2 # cur'
      BY <1>2, <1>3
    <2> QED BY <2>1 DEF PosOf, SizeOf
  <1>4. Positions' = [d \in Fds |-> PosOf(d - 2)'] /\ Sizes' = [d \in Fds |-> SizeOf(d - 2)']
    BY DEF Positions, Sizes
  <1>5. PosOf(fd(p) - 2)' = PosOf(p)' /\ SizeOf(fd(p) - 2)' = SizeOf(p)'
    BY <1>1
  <1>6. \A d \in Fds : Positions[d] = PosOf(d - 2) /\ Sizes[d] = SizeOf(d - 2)
    BY DEF Positions, Sizes
  <1>7. Positions[fd(p)] = PosOf(p) /\ Sizes[fd(p)] = SizeOf(p)
    BY <1>1, <1>6
  <1>8. DOMAIN Positions = Fds /\ DOMAIN Sizes = Fds
    BY DEF Positions, Sizes
  <1>9. \A d \in Fds :
          /\ Positions'[d] = IF d = fd(p) THEN PosOf(p)' ELSE Positions[d]
          /\ Sizes'[d] = IF d = fd(p) THEN SizeOf(p)' ELSE Sizes[d]
    BY <1>3, <1>4, <1>5, <1>6
  <1>10. Positions' = [d \in Fds |-> Positions'[d]] /\ Sizes' = [d \in Fds |-> Sizes'[d]]
    BY <1>4
  <1>11. Positions' = [Positions EXCEPT ![fd(p)] = PosOf(p)']
    BY <1>8, <1>9, <1>10
  <1>12. Sizes' = [Sizes EXCEPT ![fd(p)] = SizeOf(p)']
    BY <1>8, <1>9, <1>10
  <1> QED BY <1>1, <1>7, <1>11, <1>12

\* It stutters if p itself is where it was.
LEMMA NothingSeen ==
  ASSUME OpenInv, NEW p \in Fils, cur \in {0, p}, cur' \in {0, p},
         \A q \in Fils \ {p} : (q \in opened' <=> q \in opened) /\ fil'[q] = fil[q],
         PosOf(p)' = PosOf(p), SizeOf(p)' = SizeOf(p)
  PROVE  Positions' = Positions /\ Sizes' = Sizes
  <1>1. /\ fd(p) \in Fds /\ Positions[fd(p)] = PosOf(p) /\ Sizes[fd(p)] = SizeOf(p)
        /\ Positions' = [Positions EXCEPT ![fd(p)] = PosOf(p)']
        /\ Sizes' = [Sizes EXCEPT ![fd(p)] = SizeOf(p)']
    BY OnlyOne
  <1>2. DOMAIN Positions = Fds /\ DOMAIN Sizes = Fds
    BY DEF Positions, Sizes
  <1>3. /\ Positions = [d \in Fds |-> Positions[d]]
        /\ Sizes = [d \in Fds |-> Sizes[d]]
    BY DEF Positions, Sizes
  <1> QED BY <1>1, <1>2, <1>3

\* The call has begun, or goes on.
LEMMA WorkUnseen ==
  ASSUME OpenInv, NEW p \in opened, cur' = p, opened' = opened, ret' = ret,
         (cur = 0 /\ sys'.from = fil[p].fptr) \/ (cur = p /\ sys' = sys),
         \A q \in Fils \ {p} : fil'[q] = fil[q],
         fil'[p].objsize = fil[p].objsize
  PROVE  [Abstract!Next]_<<Positions, Sizes, ret>>
  <1>1. p \in Fils /\ p # 0
    BY DescriptorObject
  <1>2. PosOf(p)' = PosOf(p) /\ SizeOf(p)' = SizeOf(p)
    BY <1>1 DEF PosOf, SizeOf
  <1>3. cur \in {0, p} /\ cur' \in {0, p}
    OBVIOUS
  <1>4. Positions' = Positions /\ Sizes' = Sizes
    BY <1>1, <1>2, <1>3, NothingSeen
  <1> QED BY <1>4

-----------------------------------------------------------------------------
\* The system calls.

\* What is left of OpenInv beside TableInv.
Upheld == Fits /\ ChainsHold /\ OpsOfTable /\ Reading /\ Seeking /\ Asking

\* A step of OpenFiles or none.
Seen == [Abstract!Next]_<<Positions, Sizes, ret>>

\* Nothing is asked between calls, or when a descriptor is closed.
LEMMA AskingOver ==
  ASSUME Fits', OpsOfTable', pc' \in {"idle"} \cup Syncs
  PROVE  Asking'
  BY DEF Fits, CallFits, Runs, OpsOfTable, Asking, Creates, Removes, Syncs

LEMMA AskingStays ==
  ASSUME OpenInv, sys' = sys, call'.op = call.op, me'.objsize = me.objsize
  PROVE  Asking'
  BY DEF OpenInv, Asking

LEMMA TableSame ==
  ASSUME OpenInv, UNCHANGED <<volume, sys>>
  PROVE  Upheld' /\ Positions' = Positions /\ Sizes' = Sizes
  <1>1. Fits'
    BY NextFits DEF OpenInv
  <1>2. UNCHANGED <<pc, clst, ncl, fil, opened, call, sys>> /\ View' = View
    BY DEF volume, disk, window, chain, View
  <1>3. cur' = cur /\ me' = me
    BY <1>2 DEF cur, me
  <1>4. ChainsHold' /\ OpsOfTable'
    BY <1>2, <1>3 DEF OpenInv, ChainsHold, OpsOfTable
  <1>5. Reading'
    BY <1>2, <1>3 DEF OpenInv, Reading
  <1>6. Allocating' = Allocating
    BY <1>2, <1>3 DEF Allocating
  <1>7. Seeking'
    BY <1>2, <1>3, <1>6 DEF OpenInv, Seeking
  <1>8. Positions' = Positions /\ Sizes' = Sizes
    BY <1>2, <1>3 DEF Positions, Sizes, PosOf, SizeOf
  <1>9. Asking'
    BY <1>2, <1>3, AskingStays
  <1> QED BY <1>1, <1>4, <1>5, <1>7, <1>8, <1>9 DEF Upheld

LEMMA FailSeen ==
  ASSUME OpenInv, Fail
  PROVE  Upheld' /\ Seen
  BY TableSame, Refuses DEF Fail, Seen

LEMMA SysOpenSeen ==
  ASSUME OpenInv, NEW f \in Files, SysOpen(f)
  PROVE  Upheld' /\ Seen
  <1>1. CASE opened = Fils
    BY <1>1, FailSeen DEF SysOpen
  <1>2. CASE opened # Fils
    <2>1. PICK p \in Fils \ opened : p = FreeSlot
      BY <1>2, SlotIsFree DEF OpenInv, Fits, FilesFit
    <2>2. /\ Open(p, f, {"WRITE"}) /\ Returns(IF res' = "OK" THEN fd(p) ELSE -1)
          /\ sys' = sys /\ pc = "idle"
      BY <1>2, <2>1 DEF SysOpen
    <2>3. Upheld'
      <3>1. Fits' /\ ChainsHold' /\ OpsOfTable' /\ Reading' /\ Seeking'
        BY <2>2, OpenFits, OpenHolds DEF OpenInv
      <3>2. pc' = "idle"
        BY <2>2, PlainOpen DEF OpenInv, chain
      <3> QED BY <3>1, <3>2, AskingOver DEF Upheld
    <2>4. /\ cur = 0 /\ cur' = 0 /\ p # 0 /\ fil \in [Fils -> FIL] /\ opened \subseteq Fils
      <3>1. call' = call
        BY <2>2, PlainOpen DEF OpenInv
      <3> QED BY <2>2, <3>1, AtIdle, VolumeAssumption DEF OpenInv, Fits, FilesFit, cur
    <2>5. CASE fil' = [fil EXCEPT ![p].fs = FALSE] /\ opened' = opened /\ res' # "OK"
      <3>1. \A q \in Fils \ {p} : (q \in opened' <=> q \in opened) /\ fil'[q] = fil[q]
        BY <2>4, <2>5
      <3>2. PosOf(p)' = PosOf(p) /\ SizeOf(p)' = SizeOf(p)
        BY <2>5 DEF PosOf, SizeOf
      <3>3. Positions' = Positions /\ Sizes' = Sizes
        BY <2>4, <3>1, <3>2, NothingSeen
      <3> QED BY <2>2, <2>3, <2>5, <3>3, Refuses DEF Seen
    <2>6. CASE /\ View[f] # NOENTRY /\ opened' = opened \cup {p} /\ res' = "OK"
               /\ fil' = [fil EXCEPT ![p] = Opened(p, f, {"WRITE"}, View[f])]
      <3> DEFINE o == Opened(p, f, {"WRITE"}, View[f])
      <3>1. o \in FIL /\ o.fptr = 0
        BY <2>6, FreshObject
      <3>2. fil' = [fil EXCEPT ![p] = o]
        BY <2>6
      <3> HIDE DEF o
      <3>3. fil'[p] = o /\ \A q \in Fils \ {p} : (q \in opened' <=> q \in opened) /\ fil'[q] = fil[q]
        BY <2>4, <2>6, <3>2
      <3>4. o.objsize \in Nat
        BY <3>1, Fields
      <3>5. PosOf(p)' = 0 /\ SizeOf(p)' = o.objsize /\ PosOf(p) = -1
        BY <2>4, <2>6, <3>1, <3>3 DEF PosOf, SizeOf
      <3>6. /\ fd(p) \in Fds /\ Positions[fd(p)] = PosOf(p)
            /\ Positions' = [Positions EXCEPT ![fd(p)] = PosOf(p)']
            /\ Sizes' = [Sizes EXCEPT ![fd(p)] = SizeOf(p)']
        BY <2>4, <3>3, OnlyOne
      <3>7. ASSUME NEW e \in Fds, e < fd(p) PROVE Positions[e] # -1
        <4>1. e - 2 \in Fils /\ e - 2 < p
          BY <3>7, TableAssumption DEF Fds, fd
        <4>2. \A q \in Fils \ opened : p <= q
          <5>1. Fils \ opened \subseteq Nat /\ Fils \ opened # {}
            BY TableAssumption
          <5>2. \E x \in Fils \ opened : \A q \in Fils \ opened : x <= q
            BY <5>1, Lowest
          <5>3. \A q \in Fils \ opened : FreeSlot <= q
            BY <5>2 DEF FreeSlot
          <5> QED BY <2>1, <5>3
        <4>3. e - 2 \in opened
          BY <4>1, <4>2, TableAssumption
        <4>4. fil[e - 2].fptr \in Nat
          BY <2>4, <4>1, Fields
        <4>5. Positions[e] = PosOf(e - 2) /\ e - 2 # cur
          BY <2>4, <4>1, VolumeAssumption DEF Positions
        <4> QED BY <4>3, <4>4, <4>5 DEF PosOf
      <3>8. Returns(fd(p))
        BY <2>2, <2>6
      <3> DEFINE d == fd(p)
                 z == o.objsize
      <3>9. /\ d \in Fds /\ Positions[d] = -1 /\ Returns(d) /\ z \in Nat
            /\ Positions' = [Positions EXCEPT ![d] = 0]
            /\ Sizes' = [Sizes EXCEPT ![d] = z]
            /\ \A e \in Fds : e < d => Positions[e] # -1
        BY <3>4, <3>5, <3>6, <3>7, <3>8
      <3> HIDE DEF d, z
      <3>10. Abstract!Next
        BY <3>9, OpensLowest
      <3> QED BY <2>3, <3>10 DEF Seen
    <2> QED BY <2>2, <2>5, <2>6, PlainOpen DEF OpenInv
  <1> QED BY <1>1, <1>2

\* An open descriptor can be used: what another call does does not spoil it.
LEMMA OpenIsUsable ==
  ASSUME OpenInv, NEW p \in opened
  PROVE  Usable(p)
  <1>1. ~fil[p].err
    BY DescriptorObject
  <1>2. Valid(p)
    BY DEF Valid, OpenInv, TableInv, OpenIsValid
  <1> QED BY <1>1, <1>2 DEF Usable

LEMMA SysReadSeen ==
  ASSUME OpenInv, NEW d \in AnyFd, NEW n \in 0 .. MaxBytes, SysRead(d, n)
  PROVE  Upheld' /\ Seen
  <1>1. CASE d - 2 \notin opened
    BY <1>1, FailSeen DEF SysRead
  <1>2. CASE d - 2 \in opened
    <2>1. PICK p \in opened : p = d - 2
      BY <1>2
    <2>2. Read(p, n) /\ Start(p, <<"read", n>>, n, 0) /\ n \in Nat
      BY <2>1, OpenIsUsable, VolumeAssumption DEF SysRead
    <2>3. pc' = "read" /\ pc = "idle" /\ UNCHANGED <<fil, opened>>
      BY <2>2 DEF Read, Enter
    <2>4. sys' = [asked |-> <<"read", n>>, from |-> fil[p].fptr, ofs |-> n] /\ ret' = ret
      BY <2>2, <2>3 DEF Start
    <2>5. Upheld'
      <3>1. Fits' /\ ChainsHold' /\ OpsOfTable' /\ Reading' /\ Seeking'
        BY <2>2, <2>4, ReadFits, ReadHolds DEF OpenInv
      <3>2. call'.op = "read"
        BY <2>2 DEF Read, Enter, Idle
      <3>3. Asking'
        BY <2>4, <3>2 DEF Asking
      <3> QED BY <3>1, <3>3 DEF Upheld
    <2>6. cur' = p /\ cur = 0
      BY <2>2, <2>3, AtIdle DEF Read, Enter, Idle, cur, OpenInv
    <2>7. Seen
      BY <2>3, <2>4, <2>6, WorkUnseen DEF Seen
    <2> QED BY <2>5, <2>7
  <1> QED BY <1>1, <1>2

LEMMA SeekMoves ==
  ASSUME OpenInv, NEW p \in opened, NEW o \in 0 .. (Wrap - 1), Seek(p, o)
  PROVE  /\ opened' = opened /\ \A q \in Fils \ {p} : fil'[q] = fil[q]
         /\ fil'[p].objsize = fil[p].objsize /\ cur = 0 /\ pc = "idle"
         /\ \/ pc' = "idle" /\ cur' = 0 /\ o = 0 /\ fil'[p].fptr = 0
            \/ pc' # "idle" /\ cur' = p
  <1>1. /\ p \in Fils /\ fil \in [Fils -> FIL] /\ fil[p] \in FIL /\ fil[p].write
        /\ pc = "idle" /\ cur = 0 /\ o \in Nat
    BY DescriptorObject, AtIdle, TableAssumption DEF Seek, OpenInv
  <1>2. ASSUME NEW op, NEW n, NEW at, Enter(op, p, n, at) PROVE cur' = p /\ pc' = at
    BY <1>2 DEF Enter, Idle, cur
  <1>3. opened' = opened
    BY DEF Seek
  <1>4. CASE /\ fil' = [fil EXCEPT ![p].fptr = 0] /\ UNCHANGED <<chain, call>> /\ o = 0
    BY <1>1, <1>3, <1>4 DEF FIL, cur, chain
  <1>5. ASSUME NEW k, fil' = [fil EXCEPT ![p].fptr = k]
        PROVE  fil'[p].objsize = fil[p].objsize /\ \A q \in Fils \ {p} : fil'[q] = fil[q]
    BY <1>1, <1>5 DEF FIL
  <1>6. ASSUME NEW k, NEW c, fil' = [fil EXCEPT ![p].fptr = k, ![p].clust = c]
        PROVE  fil'[p].objsize = fil[p].objsize /\ \A q \in Fils \ {p} : fil'[q] = fil[q]
    BY <1>1, <1>6 DEF FIL
  <1>7. CASE /\ \E op, n, at : at # "idle" /\ Enter(op, p, n, at)
             /\ \/ \E k : fil' = [fil EXCEPT ![p].fptr = k]
                \/ \E k, c : fil' = [fil EXCEPT ![p].fptr = k, ![p].clust = c]
    BY <1>1, <1>2, <1>3, <1>5, <1>6, <1>7
  <1> QED BY <1>1, <1>4, <1>7 DEF Seek

LEMMA SysSeekSeen ==
  ASSUME OpenInv, NEW d \in AnyFd, NEW w \in {"SET", "CUR", "END", "other"}, NEW j \in Jumps,
         SysSeek(d, w, j)
  PROVE  Upheld' /\ Seen
  <1>1. CASE Fail
    BY <1>1, FailSeen
  <1>2. CASE d - 2 \in opened /\ w \in {"SET", "CUR", "END"} /\ ~Fail
    <2>1. PICK p \in opened : p = d - 2
      BY <1>2
    <2>2. PICK o : o = Target(p, w, j)
      OBVIOUS
    <2>3. Seek(p, o) /\ Start(p, <<w, j>>, o, int(o))
      BY <1>2, <2>1, <2>2, OpenIsUsable DEF SysSeek
    <2>4. p \in Fils /\ p # 0 /\ fil[p].fptr \in Nat /\ fil[p].objsize \in Nat
      BY DescriptorObject
    <2>0. o = (Base(w, fil[p].fptr, fil[p].objsize) + j) % Wrap
      BY <2>2 DEF Target, Base
    <2>5. o \in 0 .. (Wrap - 1)
      <3> DEFINE b == Base(w, fil[p].fptr, fil[p].objsize)
      <3>1. b \in Nat
        BY <1>2, <2>4 DEF Base
      <3>2. j \in Int /\ Wrap \in Nat /\ Wrap > 0
        <4>1. bcs \in Nat /\ n_fatent - 2 \in Nat
          BY VolumeAssumption, Numbers
        <4>2. bcs * (n_fatent - 2) \in Nat
          BY <4>1
        <4> QED BY <4>2, TableAssumption
      <3>3. o = (b + j) % Wrap
        BY <2>0
      <3> HIDE DEF b
      <3> QED BY <3>1, <3>2, <3>3
    <2>6. /\ opened' = opened /\ \A q \in Fils \ {p} : fil'[q] = fil[q]
          /\ fil'[p].objsize = fil[p].objsize /\ cur = 0 /\ pc = "idle"
          /\ \/ pc' = "idle" /\ cur' = 0 /\ o = 0 /\ fil'[p].fptr = 0
             \/ pc' # "idle" /\ cur' = p
      BY <2>3, <2>5, SeekMoves
    <2>7. pc' # "idle" => sys' = [asked |-> <<w, j>>, from |-> fil[p].fptr, ofs |-> o] /\ ret' = ret
      BY <2>3 DEF Start
    <2>8. Upheld'
      <3>1. o \in Nat
        BY <2>5, TableAssumption
      <3>2. Fits' /\ ChainsHold' /\ OpsOfTable' /\ Reading' /\ Seeking'
        BY <2>3, <2>5, <2>7, <3>1, SeekFits, SeekHolds DEF OpenInv
      <3>3. CASE pc' = "idle"
        BY <3>2, <3>3, AskingOver DEF Upheld
      <3>4. CASE pc' # "idle"
        <4>1. call'.op = "seek" /\ me'.objsize = fil[p].objsize
          BY <2>3, <2>6, <3>4 DEF Seek, Enter, Idle, chain, me
        <4>2. Wanted(sys'.asked, sys'.from, me'.objsize, sys'.ofs)
          BY <1>2, <2>0, <2>7, <3>4, <4>1 DEF Wanted
        <4>3. Asking'
          BY <4>1, <4>2 DEF Asking
        <4> QED BY <3>2, <4>3 DEF Upheld
      <3> QED BY <3>3, <3>4
    <2>9. CASE pc' # "idle"
      BY <2>6, <2>7, <2>8, <2>9, WorkUnseen DEF Seen
    <2>10. CASE pc' = "idle"
      <3>1. Answers(int(o), <<w, j>>)
        BY <2>3, <2>10 DEF Start
      <3>2. PosOf(p)' = o /\ SizeOf(p)' = SizeOf(p) /\ SizeOf(p) \in Nat /\ PosOf(p) # -1 /\ o = 0
        BY <2>4, <2>6, <2>10 DEF PosOf, SizeOf
      <3>8. PosOf(p) = fil[p].fptr /\ SizeOf(p) = fil[p].objsize
        BY <2>4, <2>6 DEF PosOf, SizeOf
      <3>3. /\ fd(p) \in Fds /\ Positions[fd(p)] = PosOf(p) /\ Sizes[fd(p)] = SizeOf(p)
            /\ Positions' = [Positions EXCEPT ![fd(p)] = PosOf(p)']
            /\ Sizes' = [Sizes EXCEPT ![fd(p)] = SizeOf(p)']
        BY <2>4, <2>6, <2>10, OnlyOne
      <3> DEFINE e == fd(p)
      <3>4. /\ e \in Fds /\ Positions[e] # -1 /\ Positions' = [Positions EXCEPT ![e] = o]
            /\ o <= Sizes[e] /\ Sizes' = [Sizes EXCEPT ![e] = Sizes[e]]
        BY <3>2, <3>3
      <3>7. Wanted(<<w, j>>, Positions[e], Sizes[e], o)
        BY <1>2, <2>0, <3>3, <3>8 DEF Wanted
      <3> HIDE DEF e
      <3>5. Sizes' = Sizes
        BY <3>4 DEF Sizes
      <3>6. Abstract!Next
        BY <2>5, <3>1, <3>4, <3>5, <3>7, SeeksThere
      <3> QED BY <2>8, <3>6 DEF Seen
    <2> QED BY <2>9, <2>10
  <1> QED BY <1>1, <1>2 DEF SysSeek

LEMMA SysCloseSeen ==
  ASSUME OpenInv, NEW d \in AnyFd, SysClose(d)
  PROVE  Upheld' /\ Seen
  <1>1. CASE d \notin Fds
    BY <1>1, FailSeen DEF SysClose
  <1>2. CASE d \in Fds
    <2>1. PICK p \in Fils : p = d - 2
      BY <1>2, DescriptorOf
    <2>2. Sync("close", p) /\ Start(p, Nothing, 0, 0) /\ fd(p) = d /\ pc = "idle" /\ Fits
      BY <1>2, <2>1, TableAssumption DEF SysClose, fd, OpenInv, Fds
    <2>3. cur = 0 /\ p # 0 /\ fil \in [Fils -> FIL]
      BY <2>2, AtIdle, VolumeAssumption DEF Fits, FilesFit
    <2>4. CASE ~Valid(p) \/ ~fil[p].modified
      <3>1. /\ res' = (IF Valid(p) THEN "OK" ELSE "INVALID")
            /\ fil' = [fil EXCEPT ![p].fs = FALSE] /\ opened' = opened \ {p}
            /\ UNCHANGED <<window, fs_type, alloc, chain, call>>
        <4>1. (fil[p].fs /\ "close" # "close") = FALSE
          OBVIOUS
        <4> QED BY <2>2, <2>4, <4>1 DEF Sync
      <3>3. pc' = "idle" /\ cur' = 0
        BY <2>2, <2>3, <3>1 DEF chain, cur
      <3>2. Upheld'
        <4>1. Fits' /\ ChainsHold' /\ OpsOfTable' /\ Reading' /\ Seeking'
          BY <2>2, <2>4, <3>1, ClosesAtOnce
        <4> QED BY <3>3, <4>1, AskingOver DEF Upheld
      <3>4. Returns(0)
        BY <2>2, <3>3 DEF Start, Returns
      <3>5. \A q \in Fils \ {p} : (q \in opened' <=> q \in opened) /\ fil'[q] = fil[q]
        BY <2>3, <3>1
      <3>6. PosOf(p)' = -1 /\ SizeOf(p)' = -1
        BY <3>1 DEF PosOf, SizeOf
      <3>7. /\ Positions' = [Positions EXCEPT ![d] = -1] /\ Sizes' = [Sizes EXCEPT ![d] = -1]
        BY <2>2, <2>3, <3>3, <3>5, <3>6, OnlyOne
      <3> QED BY <1>2, <3>2, <3>4, <3>7, Closes DEF Seen
    <2>5. CASE Valid(p) /\ fil[p].modified
      <3>1. p \in opened
        BY <2>5 DEF OpenInv, TableInv, NothingToSave
      <3>2. Upheld' /\ fil' = fil /\ opened' = opened /\ cur' = p /\ pc' = "flush"
        <4>1. /\ Fits' /\ ChainsHold' /\ OpsOfTable' /\ Reading' /\ Seeking'
              /\ fil' = fil /\ opened' = opened /\ cur' = p /\ pc' = "flush"
          BY <2>2, <2>5, <3>1, CloseBegins
        <4> QED BY <4>1, AskingOver DEF Upheld, Syncs
      <3>3. sys'.from = fil[p].fptr /\ ret' = ret
        BY <2>2, <3>2 DEF Start
      <3> QED BY <2>3, <3>1, <3>2, <3>3, WorkUnseen DEF Seen
    <2> QED BY <2>4, <2>5
  <1> QED BY <1>1, <1>2

-----------------------------------------------------------------------------
\* FatFs at work.

\* The steps of calls that are not made do not occur.
LEMMA StepsOfTable ==
  ASSUME OpenInv, Step
  PROVE  \/ (Follow \/ Full \/ Find \/ Mark \/ Link) /\ Elsewhere
         \/ ReadNext \/ SeekNext \/ SeekCreated \/ Flush \/ Sunk
  <1>1. call.op \in {"none", "read", "seek", "close"} /\ Runs
    BY DEF OpenInv, OpsOfTable, Fits, CallFits
  <1>2. pc \notin {"free", "removed", "cut", "write"} /\ call.op # "write"
    BY <1>1 DEF Runs, Creates, Removes, Syncs
  <1>3. ~Cut /\ ~FreeNext /\ ~OpenEmptied /\ ~WriteNext /\ ~WriteCreated /\ ~Truncated
        /\ ~Unlinked
    BY <1>2 DEF Cut, FreeNext, OpenEmptied, WriteNext, WriteCreated, Truncated, Unlinked
  <1> QED BY <1>3 DEF Step, ChainStep, Elsewhere

LEMMA StepsGoOn ==
  ASSUME OpenInv, Step, pc' # "idle"
  PROVE  call'.op = call.op
  <1>1. call \in Frame
    BY DEF OpenInv, Fits, CallFits
  <1>2. CASE Elsewhere \/ SeekCreated \/ Flush
    BY <1>2 DEF Elsewhere, SeekCreated, Flush, Return, Abort
  <1>3. CASE ReadNext
    BY <1>1, <1>3 DEF ReadNext, Return, Abort, Advance, Frame
  <1>4. CASE SeekNext
    BY <1>1, <1>4 DEF SeekNext, Return, Abort, Frame
  <1>5. ~Sunk
    BY DEF Sunk, Return
  <1> QED BY <1>2, <1>3, <1>4, <1>5, StepsOfTable

LEMMA RunningSeen ==
  ASSUME OpenInv, Running
  PROVE  Upheld' /\ Seen
  <1>1. Step /\ Fits' /\ Fits
    BY StepFits DEF Running, OpenInv
  <1>2. pc' # "idle" => sys' = sys /\ ret' = ret
    BY DEF Running
  <1>3. pc' = "idle" =>
          CASE call.op = "read"  ->
                  Answers(int(fil'[cur].fptr - sys.from), sys.asked)
             [] call.op = "seek"  ->
                  Answers(IF res' = "OK" THEN int(sys.ofs) ELSE -1, sys.asked)
             [] call.op = "close" -> Returns(0)
    BY DEF Running
  <1>4. PICK p : p = cur
    OBVIOUS
  <1>5. ASSUME call.op # "none", cur' = cur, pc' # "idle", opened' = opened,
               \A q \in Fils \ {cur} : fil'[q] = fil[q], fil'[cur].objsize = me.objsize
        PROVE  Seen /\ Asking'
    <2>1. p \in opened /\ me = fil[p] /\ me'.objsize = me.objsize
      BY <1>4, <1>5, Everyone DEF me
    <2>2. Seen
      BY <1>2, <1>4, <1>5, <2>1, WorkUnseen DEF Seen
    <2>3. call'.op = call.op
      BY <1>1, <1>5, StepsGoOn
    <2> QED BY <1>2, <1>5, <2>1, <2>2, <2>3, AskingStays
  <1>6. ASSUME call.op # "none", cur' = 0,
               \A q \in Fils \ {cur} : (q \in opened' <=> q \in opened) /\ fil'[q] = fil[q]
        PROVE  /\ p \in opened /\ p \in Fils /\ p # 0 /\ p = cur /\ me = fil[p] /\ fil[p] \in FIL
               /\ fd(p) \in Fds /\ Positions[fd(p)] = PosOf(p) /\ Sizes[fd(p)] = SizeOf(p)
               /\ Positions' = [Positions EXCEPT ![fd(p)] = PosOf(p)']
               /\ Sizes' = [Sizes EXCEPT ![fd(p)] = SizeOf(p)']
               /\ PosOf(p) = sys.from /\ SizeOf(p) = me.objsize
    <2>1. p \in opened /\ p \in Fils /\ p # 0 /\ me = fil[p] /\ fil[p] \in FIL
      BY <1>4, <1>6, Everyone
    <2>2. PosOf(p) = sys.from /\ SizeOf(p) = me.objsize
      BY <1>4, <2>1 DEF PosOf, SizeOf
    <2> QED BY <1>4, <1>6, <2>1, <2>2, OnlyOne
  <1>7. CASE (Follow \/ Full \/ Find \/ Mark \/ Link) /\ Elsewhere
    <2>1. pc \in Creates /\ pc' # "idle"
      BY <1>7 DEF Follow, Full, Find, Mark, Link, Creates
    <2>2. ChainsHold' /\ OpsOfTable' /\ Reading' /\ Seeking'
      BY <1>1, <1>2, <1>7, <2>1, FollowHolds, FullHolds, FindHolds, MarkHolds, LinkHolds
    <2>3. call.op # "none" /\ cur' = cur /\ fil' = fil /\ opened' = opened /\ me = fil[cur]
      BY <1>7, <2>1, Stretches DEF Elsewhere, cur
    <2> QED BY <1>1, <1>5, <2>1, <2>2, <2>3 DEF Upheld
  <1>8. CASE ReadNext
    <2>1. /\ ChainsHold' /\ OpsOfTable' /\ Reading' /\ Seeking'
          /\ opened' = opened /\ call.op = "read"
          /\ \A q \in Fils \ {cur} : fil'[q] = fil[q]
          /\ fil'[cur].objsize = me.objsize
          /\ \/ pc' = "idle" /\ cur' = 0 /\ fil' = fil /\ call.ofs = 0
             \/ pc' # "idle" /\ cur' = cur
      BY <1>2, <1>8, ReadNextHolds
    <2>2. pc' = "idle" => Upheld'
      BY <1>1, <2>1, AskingOver DEF Upheld
    <2>3. CASE pc' = "idle" /\ cur' = 0 /\ fil' = fil /\ call.ofs = 0
      <3>1. /\ p \in opened /\ p \in Fils /\ p # 0 /\ p = cur /\ me = fil[p] /\ fil[p] \in FIL
            /\ fd(p) \in Fds /\ Positions[fd(p)] = PosOf(p) /\ Sizes[fd(p)] = SizeOf(p)
            /\ Positions' = [Positions EXCEPT ![fd(p)] = PosOf(p)']
            /\ Sizes' = [Sizes EXCEPT ![fd(p)] = SizeOf(p)']
            /\ PosOf(p) = sys.from /\ SizeOf(p) = me.objsize
        BY <1>6, <2>1, <2>3
      <3>2. Answers(int(fil'[cur].fptr - sys.from), <<"read", sys.ofs>>)
        BY <1>3, <2>1, <2>3 DEF OpenInv, Asking
      <3>3. /\ sys.from \in Nat /\ sys.ofs \in 0 .. MaxBytes /\ sys.from <= me.objsize
            /\ me.fptr + call.ofs = sys.from + Least(sys.ofs, me.objsize - sys.from)
        BY <2>1 DEF OpenInv, Reading
      <3>4. PosOf(p)' = me.fptr /\ SizeOf(p)' = me.objsize
        BY <2>1, <2>3, <3>1 DEF PosOf, SizeOf
      <3> DEFINE e == fd(p)
                 v == me.fptr - sys.from
                 n == sys.ofs
      <3>5. me.fptr \in Nat /\ me.objsize \in Nat
        BY <3>1, Fields
      <3>6. Least(sys.ofs, me.objsize - sys.from) \in Int
        BY <3>3, <3>5, VolumeAssumption DEF Least
      <3>7. v = Least(n, me.objsize - sys.from) /\ me.fptr = sys.from + v
        BY <2>3, <3>3, <3>5, <3>6
      <3>8. /\ e \in Fds /\ Positions[e] # -1 /\ n \in 0 .. MaxBytes
            /\ v = Least(n, Sizes[e] - Positions[e])
            /\ PosOf(p)' = Positions[e] + v /\ SizeOf(p)' = Sizes[e]
        <4>1. sys.from # -1
          BY <3>3
        <4> QED BY <3>1, <3>3, <3>4, <3>7, <4>1
      <3>14. v \in 0 .. MaxBytes
        BY <3>3, <3>5, <3>7, VolumeAssumption DEF Least
      <3>15. int(v) = v
        BY <3>14, VolumeAssumption, TableAssumption DEF int
      <3>11. Answers(v, <<"read", n>>)
        BY <2>3, <3>1, <3>2, <3>15
      <3>12. /\ Positions' = [Positions EXCEPT ![e] = PosOf(p)']
             /\ Sizes' = [Sizes EXCEPT ![e] = SizeOf(p)']
        BY <3>1
      <3> HIDE DEF e, v, n
      <3>13. /\ Positions' = [Positions EXCEPT ![e] = Positions[e] + v]
             /\ Sizes' = [Sizes EXCEPT ![e] = Sizes[e]]
        BY <3>8, <3>12
      <3>9. Sizes' = Sizes
        BY <3>8, <3>13 DEF Sizes
      <3>10. Abstract!Next
        BY <3>8, <3>9, <3>11, <3>13, ReadsAll
      <3> QED BY <2>2, <2>3, <3>10 DEF Seen
    <2>4. CASE pc' # "idle" /\ cur' = cur
      BY <1>1, <1>5, <2>1, <2>4 DEF Upheld
    <2> QED BY <2>1, <2>3, <2>4
  <1>9. CASE SeekNext \/ SeekCreated
    <2>1. /\ ChainsHold' /\ OpsOfTable' /\ Reading' /\ Seeking'
          /\ opened' = opened /\ call.op = "seek"
          /\ \A q \in Fils \ {cur} : fil'[q] = fil[q]
          /\ \/ pc' = "idle" /\ cur' = 0 /\ res' = "OK" /\ Landed(fil'[cur], sys.ofs)
             \/ pc' # "idle" /\ cur' = cur /\ fil'[cur].objsize = me.objsize
      BY <1>2, <1>9, SeekNextHolds, SeekCreatedHolds
    <2>2. pc' = "idle" => Upheld'
      BY <1>1, <2>1, AskingOver DEF Upheld
    <2>3. CASE pc' = "idle" /\ cur' = 0 /\ res' = "OK" /\ Landed(fil'[cur], sys.ofs)
      <3>1. /\ p \in opened /\ p \in Fils /\ p # 0 /\ p = cur /\ me = fil[p] /\ fil[p] \in FIL
            /\ fd(p) \in Fds /\ Positions[fd(p)] = PosOf(p) /\ Sizes[fd(p)] = SizeOf(p)
            /\ Positions' = [Positions EXCEPT ![fd(p)] = PosOf(p)']
            /\ Sizes' = [Sizes EXCEPT ![fd(p)] = SizeOf(p)']
            /\ PosOf(p) = sys.from /\ SizeOf(p) = me.objsize
        BY <1>6, <2>1, <2>3
      <3>2. Answers(int(sys.ofs), sys.asked)
        BY <1>3, <2>1, <2>3
      <3>3. sys.from \in Nat /\ sys.ofs \in 0 .. (Wrap - 1)
        BY <2>1 DEF OpenInv, Seeking
      <3>4. PosOf(p)' = fil'[p].fptr /\ SizeOf(p)' = fil'[p].objsize
        BY <2>1, <2>3, <3>1 DEF PosOf, SizeOf
      <3> DEFINE e == fd(p)
                 o == sys.ofs
                 k == sys.asked
                 a == fil'[p].fptr
      <3>5. Landed(fil'[p], o)
        BY <2>3, <3>1
      <3>9. /\ e \in Fds /\ Positions[e] # -1 /\ Wanted(k, Positions[e], Sizes[e], o)
            /\ Answers(int(o), k) /\ PosOf(p)' = a
            /\ IF o <= Sizes[e] THEN a = o /\ SizeOf(p)' = Sizes[e]
               ELSE Sizes[e] <= a /\ a <= o /\ SizeOf(p)' = a
        <4>1. sys.from # -1
          BY <3>3
        <4>2. Wanted(sys.asked, sys.from, me.objsize, sys.ofs)
          BY <2>1 DEF OpenInv, Asking
        <4> QED BY <3>1, <3>2, <3>3, <3>4, <3>5, <4>1, <4>2 DEF Landed
      <3>10. /\ Positions' = [Positions EXCEPT ![e] = PosOf(p)']
             /\ Sizes' = [Sizes EXCEPT ![e] = SizeOf(p)']
        BY <3>1
      <3> HIDE DEF e, o, a, k
      <3>6. /\ e \in Fds /\ Positions[e] # -1 /\ Wanted(k, Positions[e], Sizes[e], o)
            /\ Answers(int(o), k)
            /\ Positions' = [Positions EXCEPT ![e] = a]
            /\ IF o <= Sizes[e] THEN a = o /\ Sizes' = [Sizes EXCEPT ![e] = Sizes[e]]
               ELSE Sizes[e] <= a /\ a <= o /\ Sizes' = [Sizes EXCEPT ![e] = a]
        BY <3>9, <3>10
      <3>7. [Sizes EXCEPT ![e] = Sizes[e]] = Sizes
        BY <3>6 DEF Sizes
      <3>8. Abstract!Next
        BY <3>6, <3>7, SeeksThere
      <3> QED BY <2>2, <2>3, <3>8 DEF Seen
    <2>4. CASE pc' # "idle" /\ cur' = cur /\ fil'[cur].objsize = me.objsize
      BY <1>1, <1>5, <2>1, <2>4 DEF Upheld
    <2> QED BY <2>1, <2>3, <2>4
  <1>10. CASE Flush
    <2>1. /\ ChainsHold' /\ OpsOfTable' /\ Reading' /\ Seeking'
          /\ opened' = opened /\ fil' = fil /\ pc' # "idle" /\ cur' = cur /\ call.op = "close"
      BY <1>2, <1>10, FlushHolds
    <2>2. me = fil[cur]
      BY DEF me
    <2> QED BY <1>1, <1>5, <2>1, <2>2 DEF Upheld
  <1>11. CASE Sunk
    <2>1. /\ ChainsHold' /\ OpsOfTable' /\ Reading' /\ Seeking'
          /\ opened' = opened \ {cur} /\ pc' = "idle" /\ cur' = 0 /\ call.op = "close"
          /\ \A q \in Fils \ {cur} : fil'[q] = fil[q]
      BY <1>11, SunkHolds
    <2>2. /\ p \in Fils /\ p = cur /\ fd(p) \in Fds
          /\ Positions' = [Positions EXCEPT ![fd(p)] = PosOf(p)']
          /\ Sizes' = [Sizes EXCEPT ![fd(p)] = SizeOf(p)']
      BY <1>6, <2>1
    <2>3. PosOf(p)' = -1 /\ SizeOf(p)' = -1
      BY <2>1, <2>2 DEF PosOf, SizeOf
    <2>4. Returns(0)
      BY <1>3, <2>1
    <2>5. Abstract!Next
      BY <2>2, <2>3, <2>4, Closes
    <2> QED BY <1>1, <2>1, <2>5, AskingOver DEF Upheld, Seen
  <1> QED BY <1>1, <1>7, <1>8, <1>9, <1>10, <1>11, StepsOfTable

LEMMA OpenSteps ==
  ASSUME OpenInv, [TableNext]_table
  PROVE  OpenInv' /\ Seen
  <1>1. TableInv'
    BY TableSteps DEF OpenInv
  <1>2. CASE UNCHANGED table
    <2>1. UNCHANGED <<volume, sys>> /\ ret' = ret
      BY <1>2 DEF table
    <2> QED BY <1>1, <2>1, TableSame DEF OpenInv, Upheld, Seen
  <1>3. CASE TableNext
    <2>1. Upheld' /\ Seen
      BY <1>3, SysOpenSeen, SysReadSeen, SysSeekSeen, SysCloseSeen, RunningSeen DEF TableNext
    <2> QED BY <1>1, <2>1 DEF OpenInv, Upheld
  <1> QED BY <1>2, <1>3

\* The system calls behave as if each took effect at once and on its own
\* descriptor only: what FatFs does cluster by cluster, for any card, any
\* number of descriptors and a file that is open twice, comes to a table of
\* positions and sizes.
THEOREM TableImplementsOpenFiles == TableSpec => ImplementsOpenFiles
  <1>1. TableInit => OpenInv
    BY OpenStarts
  <1>2. TableInit => Abstract!Init
    <2> SUFFICES ASSUME TableInit PROVE Abstract!Init
      OBVIOUS
    <2>1. opened = {} /\ ret = [val |-> 0, asked |-> <<"none", 0>>]
      BY DEF TableInit, Init, PowerOn, Nothing
    <2>2. \A d \in Fds : PosOf(d - 2) = -1 /\ SizeOf(d - 2) = -1
      BY <2>1 DEF PosOf, SizeOf
    <2> QED BY <2>1, <2>2 DEF Abstract!Init, Abstract!CLOSED, Positions, Sizes
  <1>3. OpenInv /\ [TableNext]_table =>
          /\ OpenInv'
          /\ [Abstract!Next]_<<Positions, Sizes, ret>>
    BY OpenSteps DEF Seen
  <1> QED BY <1>1, <1>2, <1>3, PTL DEF TableSpec, ImplementsOpenFiles, Abstract!Spec
=============================================================================
