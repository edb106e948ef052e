------------------------------ MODULE ByteFile ------------------------------
(***************************************************************************)
(* What an open file promises its user, whatever is buffered where: bytes  *)
(* that were written are read back, a position that moves by as much as is *)
(* transferred, and a size.  Bytes a seek behind the end adds have no      *)
(* value until they are written.  A transfer may come in pieces.           *)
(***************************************************************************)
EXTENDS Integers, Sequences

CONSTANT Byte

VARIABLES
  written,   \* the bytes, at the offsets where there is one
  size,
  pos,
  io         \* the piece transferred last

user == <<written, size, pos, io>>

Piece == pos .. (pos + Len(io') - 1)

TypeOK ==
  /\ size \in Nat /\ pos \in 0 .. size
  /\ DOMAIN written \subseteq 0 .. (size - 1)
  /\ \A i \in DOMAIN written : written[i] \in Byte
  /\ io \in Seq(Byte)

Init == written = [i \in {} |-> 0] /\ size = 0 /\ pos = 0 /\ io = <<>>

Read ==
  /\ pos' = pos + Len(io') /\ pos' <= size
  /\ \A i \in Piece \cap DOMAIN written : io'[i - pos + 1] = written[i]
  /\ UNCHANGED <<written, size>>

Write ==
  /\ pos' = pos + Len(io')
  /\ size' = IF pos' > size THEN pos' ELSE size
  /\ written' = [i \in DOMAIN written \cup Piece |->
                  IF i \in Piece THEN io'[i - pos + 1] ELSE written[i]]

Seek ==
  /\ io' = <<>>
  /\ pos' \in Nat
  /\ size' = IF pos' > size THEN pos' ELSE size
  /\ UNCHANGED written

Truncate ==
  /\ io' = <<>>
  /\ size' = pos
  /\ written' = [i \in DOMAIN written \cap (0 .. (pos - 1)) |-> written[i]]
  /\ UNCHANGED pos

Next == Read \/ Write \/ Seek \/ Truncate

Spec == Init /\ [][Next]_user
=============================================================================
