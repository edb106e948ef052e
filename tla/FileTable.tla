----------------------------- MODULE FileTable -----------------------------
(***************************************************************************)
(* The file descriptors of wuehans/syscall.c on the volume of FatVolume:   *)
(* _open, _read, _lseek and _close over the table fd_data.  fil[i] is the  *)
(* FIL of fd_data[i - 1] and descriptor i + 2, and i is in opened while    *)
(* is_open is set.  _write returns 0 before it does anything.              *)
(***************************************************************************)
EXTENDS FatVolume

CONSTANTS
  FILE_AMOUNT,
  Wrap,          \* 2^32: positions are unsigned, of 32 bits
  Jumps          \* bound: the offsets given to _lseek

ASSUME TableAssumption ==
  /\ FILE_AMOUNT \in Nat /\ Fils = 1 .. FILE_AMOUNT
  /\ Wrap \in Nat /\ Wrap > bcs * (n_fatent - 2)
  /\ Wrap > 2 * MaxBytes      \* an int
  /\ Jumps \subseteq Int

VARIABLES
  ret,           \* what the last call returned, and what it was asked for
  sys            \* of the call that runs: what it was asked for, the position
                 \* where it began, and how many bytes _read is to read, or to
                 \* where _lseek is to go

table == <<volume, ret, sys>>

fd(p)  == p + 2
Fds    == 3 .. (FILE_AMOUNT + 2)
AnyFd  == 0 .. (FILE_AMOUNT + 3)

\* What a call is asked for: bytes to read, or the offset of a seek.
Nothing == <<"none", 0>>
NoCall  == [asked |-> Nothing, from |-> 0, ofs |-> 0]

TableInit == Init /\ ret = [val |-> 0, asked |-> Nothing] /\ sys = NoCall

\* Variant: the conversion is forgotten.
intUnsigned(n) == n

\* What is unsigned in FatFs is returned as an int.
int(n) == IF 2 * n < Wrap THEN n ELSE n - Wrap

Answers(v, asked) == ret' = [val |-> v, asked |-> asked]
Returns(v) == Answers(v, Nothing)

Fail == Returns(-1) /\ UNCHANGED <<volume, sys>>

\* Variant: the last free slot is taken.
FreeSlotLast == CHOOSE p \in Fils \ opened : \A q \in Fils \ opened : q <= p

FreeSlot == CHOOSE p \in Fils \ opened : \A q \in Fils \ opened : p <= q

\* _open: read and write, whatever the flags are.  The slot is taken only if
\* f_open succeeds.
SysOpen(f) ==
  /\ pc = "idle"
  /\ IF opened = Fils THEN Fail
     ELSE /\ Open(FreeSlot, f, {"WRITE"})
          /\ Returns(IF res' = "OK" THEN fd(FreeSlot) ELSE -1)
          /\ UNCHANGED sys

\* A descriptor's call either is over at once, or goes on in Running.
Start(p, asked, ofs, now) ==
  /\ sys' = IF pc' = "idle" THEN NoCall
             ELSE [asked |-> asked, from |-> fil[p].fptr, ofs |-> ofs]
  /\ IF pc' = "idle" THEN Answers(now, asked) ELSE UNCHANGED ret

SysRead(d, n) ==
  /\ pc = "idle"
  /\ IF d - 2 \notin opened THEN Fail
     ELSE IF Usable(d - 2) THEN Read(d - 2, n) /\ Start(d - 2, <<"read", n>>, n, 0)
     ELSE Answers(0, <<"read", n>>) /\ UNCHANGED <<volume, sys>>

\* Where a seek goes: what is added wraps.
Target(p, whence, offset) ==
  ((CASE whence = "SET" -> 0
      [] whence = "CUR" -> fil[p].fptr
      [] whence = "END" -> fil[p].objsize) + offset) % Wrap

SysSeek(d, whence, offset) ==
  /\ pc = "idle"
  /\ IF d - 2 \in opened /\ whence \in {"SET", "CUR", "END"} /\ Usable(d - 2)
       THEN LET o == Target(d - 2, whence, offset)
            IN  Seek(d - 2, o) /\ Start(d - 2, <<whence, offset>>, o, int(o))
       ELSE Fail

\* _close does not look at is_open and returns 0 whatever f_close says.
SysClose(d) ==
  /\ pc = "idle"
  /\ IF d \in Fds THEN Sync("close", d - 2) /\ Start(d - 2, Nothing, 0, 0) ELSE Fail

\* FatFs at work on the call.  _read returns the number of bytes that were
\* read, _lseek the position it asked for.
Running ==
  /\ Step
  /\ IF pc' = "idle"
       THEN /\ sys' = NoCall
            /\ CASE call.op = "read"  -> Answers(int(fil'[cur].fptr - sys.from), sys.asked)
                 [] call.op = "seek"  ->
                      Answers(IF res' = "OK" THEN int(sys.ofs) ELSE -1, sys.asked)
                 [] call.op = "close" -> Returns(0)
       ELSE UNCHANGED <<ret, sys>>

TableNext ==
  \/ \E f \in Files : SysOpen(f)
  \/ \E d \in AnyFd, n \in 0 .. MaxBytes : SysRead(d, n)
  \/ \E d \in AnyFd, w \in {"SET", "CUR", "END", "other"}, o \in Jumps :
       SysSeek(d, w, o)
  \/ \E d \in AnyFd : SysClose(d)
  \/ Running

TableSpec == TableInit /\ [][TableNext]_table

-----------------------------------------------------------------------------

\* The table is an abstract one.  While a call runs, its descriptor is still
\* where it was when the call began.
PosOf(p) == IF p \notin opened THEN -1
            ELSE IF p = cur THEN sys.from ELSE fil[p].fptr

SizeOf(p) == IF p \in opened THEN fil[p].objsize ELSE -1

Positions == [d \in Fds |-> PosOf(d - 2)]
Sizes     == [d \in Fds |-> SizeOf(d - 2)]

Abstract == INSTANCE OpenFiles WITH
  pos <- Positions, size <- Sizes, Requests <- 0 .. MaxBytes

\* Every system call takes effect at once, on its own descriptor only, as if
\* there were no clusters, windows and sectors: also when one file is open
\* twice, when the card is full, when a descriptor is closed twice or was never
\* open.  A seek goes where it is asked to, counted modulo Wrap, and answers
\* with that position as an int.
ImplementsOpenFiles == Abstract!Spec

\* -1 is the answer to a call that is invalid (syscall.c:93): one that is
\* answered so has moved no position and grown no file.  The code does not
\* keep to that: the largest position is -1, too.
RefusedDoesNothing ==
  [][ret'.val = -1 => UNCHANGED <<Positions, Sizes>>]_table

\* FatFs never works on the file object of a closed descriptor.  f_close of a
\* changed file reports an error and leaves the object valid, _close marks the
\* slot free all the same, and the next _close hands the object in again: that
\* must not write an entry of long ago into the directory.
ClosedSlotInert == cur # 0 => cur \in opened
=============================================================================
