----------------------------- MODULE OpenFiles -----------------------------
(***************************************************************************)
(* What wuehans/syscall.c promises its callers: a table of open files.  A  *)
(* descriptor has a position and a size of its own, every call takes       *)
(* effect at once and on one descriptor only, and a new file gets the      *)
(* lowest descriptor that is free.                                         *)
(***************************************************************************)
EXTENDS Integers

CONSTANTS
  Fds,           \* descriptors of files; below them are the standard streams
  Requests,      \* lengths that are read
  Jumps,         \* offsets that are sought
  Wrap           \* 2^32: positions are unsigned, answers are not

CLOSED == 0 - 1

VARIABLES
  pos, size,     \* of each descriptor
  ret            \* what the last call returned, and what it was asked for

\* An unsigned number as an int.
int(n) == IF 2 * n < Wrap THEN n ELSE n - Wrap

Answers(v, asked) == ret' = [val |-> v, asked |-> asked]
Returns(v) == Answers(v, <<"none", 0>>)

IsOpen(fd) == pos[fd] # CLOSED

Init == /\ pos = [fd \in Fds |-> CLOSED]
        /\ size = [fd \in Fds |-> CLOSED]
        /\ ret = [val |-> 0, asked |-> <<"none", 0>>]

\* No such file, no such descriptor, or no descriptor left.
Refused == Returns(-1) /\ UNCHANGED <<pos, size>>

Open(fd) ==
  /\ ~IsOpen(fd) /\ \A e \in Fds : e < fd => IsOpen(e)
  /\ pos' = [pos EXCEPT ![fd] = 0]
  /\ size' = [size EXCEPT ![fd] = size'[fd]] /\ size'[fd] >= 0
  /\ Returns(fd)

\* As many bytes as there are.
Read(fd, n) ==
  LET left == size[fd] - pos[fd]
      k == IF n < left THEN n ELSE left
  IN
  /\ IsOpen(fd)
  /\ Answers(k, <<"read", n>>)
  /\ pos' = [pos EXCEPT ![fd] = @ + k]
  /\ UNCHANGED size

From(fd, whence) == CASE whence = "SET" -> 0
                      [] whence = "CUR" -> pos[fd]
                      [] whence = "END" -> size[fd]

\* Behind the end of the file the file grows, as far as there is room; what
\* is returned is the position asked for.  As an int that may be any negative
\* number: a seek to Wrap - 1 is answered like one that is refused.
Seek(fd, whence, j) ==
  LET o == (From(fd, whence) + j) % Wrap IN
  /\ IsOpen(fd)
  /\ Answers(int(o), <<whence, j>>)
  /\ pos' = [pos EXCEPT ![fd] = pos'[fd]]
  /\ IF o <= size[fd]
       THEN pos'[fd] = o /\ UNCHANGED size
       ELSE /\ size[fd] <= pos'[fd] /\ pos'[fd] <= o
            /\ size' = [size EXCEPT ![fd] = pos'[fd]]

\* Closing what is not open is no error.
Close(fd) ==
  /\ pos' = [pos EXCEPT ![fd] = CLOSED]
  /\ size' = [size EXCEPT ![fd] = CLOSED]
  /\ Returns(0)

Next ==
  \/ Refused
  \/ \E fd \in Fds : \/ Open(fd) \/ Close(fd)
                     \/ \E n \in Requests : Read(fd, n)
                     \/ \E w \in {"SET", "CUR", "END"}, j \in Jumps : Seek(fd, w, j)

Spec == Init /\ [][Next]_<<pos, size, ret>>
=============================================================================
