------------------------------ MODULE FileData ------------------------------
(***************************************************************************)
(* The bytes of one file: f_open, f_read, f_write, f_lseek, f_truncate and *)
(* f_sync of lib/fatfs/ff.c, between the sector buffer of the file object  *)
(* (FF_FS_TINY is 0), the sectors of the card and the caller's memory.     *)
(* Whole sectors bypass the buffer, as many at once as the cluster has;    *)
(* the rest goes through it, and is written when another sector is needed. *)
(*                                                                         *)
(* The chain is a sequence of clusters here, and clust the cluster of the  *)
(* byte before fptr: FatVolume has the FAT, and shows that they are.       *)
(***************************************************************************)
EXTENDS Integers, Sequences, FiniteSets, Functions

CONSTANTS
  SS,          \* bytes in a sector
  csize,       \* sectors in a cluster
  Clusters,    \* numbers of clusters, from 2 on
  Byte,
  Lengths,     \* bound: the numbers of bytes given to f_read and f_write
  Offsets,     \* bound: the offsets given to f_lseek
  MARK         \* bound: of the bytes one at a time is this one

ASSUME DataAssumption ==
  /\ SS \in Nat \ {0} /\ csize \in Nat \ {0}
  /\ Clusters \subseteq Nat \ {0, 1}
  /\ MARK \in Byte /\ Byte # {MARK}
  /\ Lengths \subseteq Nat /\ Offsets \subseteq Nat

VARIABLES
  card,        \* the sectors of the data area, each a sequence of bytes
  links,       \* the clusters of the file
  objsize, fptr,
  buf, sect,   \* the buffer, and the sector it is of
  dirty,       \* FA_DIRTY
  op, rest,    \* the function that runs, and btr or btw
  io,          \* what it has just put in, or taken from, the caller's memory
  offsets      \* of the bytes that were written (nothing in the code)

object == <<objsize, fptr, buf, sect, dirty>>
data == <<card, links, object, op, rest, io, offsets>>

bcs == csize * SS

clst2sect(c) == 1 + (c - 2) * csize
SectorsOf(c) == clst2sect(c) .. (clst2sect(c) + csize - 1)
Sectors == UNION {SectorsOf(c) : c \in Clusters}
Owned == UNION {SectorsOf(c) : c \in Range(links)}

\* The sector of the byte at an offset.
SectorAt(chain, ofs) ==
  clst2sect(chain[(ofs \div bcs) + 1]) + ((ofs \div SS) % csize)

TypeOK ==
  /\ card \in [Sectors -> [1 .. SS -> Byte]]
  /\ links \in Seq(Clusters) /\ IsInjective(links)
  /\ objsize \in 0 .. bcs * Len(links) /\ fptr \in 0 .. objsize
  /\ buf \in [1 .. SS -> Byte] /\ sect \in Sectors \cup {0}
  /\ dirty \in BOOLEAN
  /\ op \in {"none", "read", "write"} /\ rest \in Nat
  /\ io \in Seq(Byte)
  /\ offsets \subseteq 0 .. (objsize - 1)

-----------------------------------------------------------------------------

\* Bound: which bytes n bytes may be.  Nothing in the code looks at a byte, so
\* that one that can be told from the others is enough.
Payload(n) ==
  LET plain == CHOOSE b \in Byte : b # MARK
      marked == \/ \E s \in Sectors : MARK \in Range(card[s])
                \/ MARK \in Range(buf)
  IN  {[k \in 1 .. n |-> plain]} \cup
      IF marked THEN {}
      ELSE {[k \in 1 .. n |-> IF k = m THEN MARK ELSE plain] : m \in 1 .. n}

Blank == [k \in 1 .. SS |-> CHOOSE b \in Byte : b # MARK]

Init ==
  /\ card \in {[s \in Sectors |-> Blank]} \cup
              {[s \in Sectors |-> IF s = t THEN [Blank EXCEPT ![1] = MARK]
                                  ELSE Blank] : t \in Sectors}
  /\ links = <<>> /\ objsize = 0 /\ fptr = 0
  /\ buf = Blank /\ sect = 0 /\ dirty = FALSE
  /\ op = "none" /\ rest = 0 /\ io = <<>>
  /\ offsets = {}

-----------------------------------------------------------------------------

Lesser(a, b) == IF a < b THEN a ELSE b

AtSector == fptr % SS = 0

\* Variant: not clipped at the cluster.
WholePast == rest \div SS

\* cc: the whole sectors left, as many as there are to the end of the cluster.
Whole == Lesser(rest \div SS, csize - ((fptr \div SS) % csize))
Direct == AtSector /\ Whole > 0

\* The bytes left up to the end of the sector.
Part == Lesser(rest, SS - (fptr % SS))

\* The card once a dirty buffer has been written.
WrittenBack == IF dirty THEN [card EXCEPT ![sect] = buf] ELSE card

\* Bytes k * SS + 1 .. (k + 1) * SS of a piece.
Slice(bytes, k) == SubSeq(bytes, k * SS + 1, (k + 1) * SS)

Begin(what, n) ==
  /\ op = "none"
  /\ op' = what /\ rest' = n
  /\ io' = <<>>
  /\ UNCHANGED <<card, links, object, offsets>>

Return == op' = "none" /\ rest' = 0 /\ io' = <<>>

Advance(n) ==
  /\ fptr' = fptr + n
  /\ rest' = rest - n
  /\ UNCHANGED op

-----------------------------------------------------------------------------

Read(n) == Begin("read", Lesser(n, objsize - fptr))

\* Whole sectors, of which the card may have one that is not up to date.
ReadDirect ==
  /\ op = "read" /\ rest > 0 /\ Direct
  /\ LET first == SectorAt(links, fptr)
         from(s) == IF dirty /\ s = sect THEN buf ELSE card[s]
     IN  io' = [k \in 1 .. Whole * SS |->
                 from(first + (k - 1) \div SS)[((k - 1) % SS) + 1]]
  /\ Advance(Whole * SS)
  /\ UNCHANGED <<card, links, objsize, buf, sect, dirty, offsets>>

\* The buffer is of sector s; disk_read if it was not.
Fill(s) ==
  /\ sect' = s
  /\ IF s = sect THEN UNCHANGED <<card, buf, dirty>>
     ELSE /\ card' = WrittenBack
          /\ buf' = card'[s]
          /\ dirty' = FALSE

ReadPart ==
  /\ op = "read" /\ rest > 0 /\ ~Direct
  /\ Fill(IF AtSector THEN SectorAt(links, fptr) ELSE sect)
  /\ io' = SubSeq(buf', (fptr % SS) + 1, (fptr % SS) + Part)
  /\ Advance(Part)
  /\ UNCHANGED <<links, objsize, offsets>>

ReadDone == op = "read" /\ rest = 0 /\ Return /\ UNCHANGED <<card, links, object, offsets>>

-----------------------------------------------------------------------------

Write(n) == Begin("write", n)

\* create_chain: a cluster that no file has.
Stretched == {Append(links, c) : c \in Clusters \ Range(links)}

\* The chain as a write at fptr has it.
Chains == IF fptr < bcs * Len(links) THEN {links} ELSE Stretched

Grow(n) ==
  /\ objsize' = IF fptr + n > objsize THEN fptr + n ELSE objsize
  /\ offsets' = offsets \cup (fptr .. (fptr + n - 1))

\* Variant: the buffer keeps what it had.
WriteDirectUnseen ==
  /\ op = "write" /\ rest > 0 /\ Direct
  /\ links' \in Chains
  /\ io' \in Payload(Whole * SS)
  /\ LET first == SectorAt(links', fptr)
         direct == first .. (first + Whole - 1)
     IN  card' = [s \in Sectors |-> IF s \in direct THEN Slice(io', s - first)
                                    ELSE WrittenBack[s]]
  /\ dirty' = FALSE
  /\ Advance(Whole * SS) /\ Grow(Whole * SS)
  /\ UNCHANGED <<buf, sect>>

\* Whole sectors.  The buffer, if of one of them, follows.
WriteDirect ==
  /\ op = "write" /\ rest > 0 /\ Direct
  /\ links' \in Chains
  /\ io' \in Payload(Whole * SS)
  /\ LET first == SectorAt(links', fptr)
         direct == first .. (first + Whole - 1)
     IN  /\ card' = [s \in Sectors |-> IF s \in direct
                                         THEN Slice(io', s - first)
                                         ELSE WrittenBack[s]]
         /\ buf' = IF sect \in direct THEN Slice(io', sect - first) ELSE buf
  /\ dirty' = FALSE
  /\ Advance(Whole * SS) /\ Grow(Whole * SS)
  /\ UNCHANGED sect

\* The card has bytes of the file in the sector that the write leaves alone.
Needed(s) == s # sect /\ fptr < objsize

WritePart ==
  LET base == fptr % SS IN
  /\ op = "write" /\ rest > 0 /\ ~Direct
  /\ io' \in Payload(Part)
  /\ IF AtSector
       THEN /\ links' \in Chains
            /\ card' = WrittenBack
            /\ sect' = SectorAt(links', fptr)
       ELSE UNCHANGED <<links, card, sect>>
  /\ LET before == IF AtSector /\ Needed(sect') THEN card'[sect'] ELSE buf
     IN  buf' = [k \in 1 .. SS |-> IF k - base \in 1 .. Part THEN io'[k - base]
                                   ELSE before[k]]
  /\ dirty' = TRUE
  /\ Advance(Part) /\ Grow(Part)

\* All is written, or no cluster is left, which other files may have caused.
WriteDone ==
  /\ op = "write" /\ (rest = 0 \/ fptr = bcs * Len(links))
  /\ Return
  /\ UNCHANGED <<card, links, object, offsets>>

-----------------------------------------------------------------------------

\* The chains f_lseek may leave for a target: long enough, or as long as the
\* free clusters allow.
Reaching(target) ==
  LET long == (target + bcs - 1) \div bcs
      free == Clusters \ Range(links)
      more(n) == {s \in [1 .. n -> free] : IsInjective(s)}
  IN  IF long <= Len(links) THEN {links}
      ELSE UNION {{links \o s : s \in more(n)} : n \in 0 .. (long - Len(links))}

Seek(target) ==
  /\ op = "none"
  /\ links' \in Reaching(target)
  /\ fptr' = Lesser(target, bcs * Len(links'))
  /\ objsize' = IF fptr' > objsize THEN fptr' ELSE objsize
  /\ IF fptr' % SS # 0 THEN Fill(SectorAt(links', fptr'))
                       ELSE UNCHANGED <<card, buf, sect, dirty>>
  /\ io' = <<>>
  /\ UNCHANGED <<op, rest, offsets>>

\* Variant: the buffer stays as it is.
TruncateUnwritten ==
  /\ op = "none" /\ fptr < objsize
  /\ links' = SubSeq(links, 1, (fptr + bcs - 1) \div bcs)
  /\ objsize' = fptr
  /\ io' = <<>>
  /\ offsets' = offsets \cap (0 .. (fptr - 1))
  /\ UNCHANGED <<fptr, card, dirty, buf, sect, op, rest>>

\* A dirty buffer is written, even if its sector was cut off.
Truncate ==
  /\ op = "none" /\ fptr < objsize
  /\ links' = SubSeq(links, 1, (fptr + bcs - 1) \div bcs)
  /\ objsize' = fptr
  /\ card' = WrittenBack /\ dirty' = FALSE
  /\ io' = <<>>
  /\ offsets' = offsets \cap (0 .. (fptr - 1))
  /\ UNCHANGED <<fptr, buf, sect, op, rest>>

Sync ==
  /\ op = "none"
  /\ card' = WrittenBack /\ dirty' = FALSE
  /\ io' = <<>>
  /\ UNCHANGED <<links, objsize, fptr, buf, sect, op, rest, offsets>>

\* f_close and f_open, with FA_OPEN_APPEND if at the end.  Where the end is
\* within a sector, its sector is filled.
Reopen(end) ==
  /\ op = "none"
  /\ card' = WrittenBack /\ dirty' = FALSE
  /\ fptr' = IF end THEN objsize ELSE 0
  /\ IF end /\ objsize % SS # 0
       THEN sect' = SectorAt(links, objsize) /\ buf' = card'[sect']
       ELSE sect' = 0 /\ buf' = Blank
  /\ io' = <<>>
  /\ UNCHANGED <<links, objsize, op, rest, offsets>>

\* Other files have the clusters this one has not.
Others ==
  /\ op = "none"
  /\ \E s \in Sectors \ Owned : card' = [card EXCEPT ![s] = Blank]
  /\ UNCHANGED <<links, object, op, rest, io, offsets>>

Call ==
  \/ \E n \in Lengths : Read(n) \/ Write(n)
  \/ \E target \in Offsets : Seek(target)
  \/ Truncate \/ Sync
  \/ \E end \in BOOLEAN : Reopen(end)

Step == ReadDirect \/ ReadPart \/ ReadDone \/ WriteDirect \/ WritePart \/ WriteDone

Next == Call \/ Step \/ Others

Spec == Init /\ [][Next]_data

-----------------------------------------------------------------------------

\* The byte at an offset: the buffer has it, or the card.
Stored(i) ==
  LET s == SectorAt(links, i) IN (IF dirty /\ s = sect THEN buf ELSE card[s])[(i % SS) + 1]

Bytes == INSTANCE ByteFile WITH
  written <- [i \in offsets |-> Stored(i)], size <- objsize, pos <- fptr

\* Whatever is read directly, through the buffer, written, sought, cut and
\* opened again in between: the user reads what was written.
ReadsWhatWasWritten == Bytes!Spec

\* No call writes a sector that belongs to other files.
OthersUntouched ==
  [][ ~Others => \A s \in Sectors \ Owned : card'[s] = card[s] \/ s \in Owned' ]_data
=============================================================================
