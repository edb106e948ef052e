------------------------------- MODULE MCFat -------------------------------
(* Small volumes for FatVolume: three clusters, in two sectors of the FAT.     *)
EXTENDS FatVolume, TLC

CONSTANTS a, b

free(fat) == Cardinality({c \in DOMAIN fat : fat[c] = FREE})

\* What nobody reads is the same on all cards.
Card(fat, entries, info) ==
  [x \in Items |->
     IF x \in Clusters THEN fat[x]
     ELSE IF x # FSINFO THEN entries[x]
     ELSE IF HasInfo THEN info ELSE [free |-> UNKNOWN, next |-> UNKNOWN]]

\* Nothing on the card; and a file whose two clusters are not in order, the
\* number of free clusters known or not.
None   == [f \in Files |-> IF f \in ReadOnly THEN [sclust |-> 0, size |-> 0]
                           ELSE NOENTRY]
Blanks == [c \in Clusters |-> FREE]
top    == n_fatent - 1
Two    == [Blanks EXCEPT ![top] = 2, ![2] = EOC]
TwoOf(f, n) == [None EXCEPT ![f] = [sclust |-> top, size |-> n]]

Cards == {Card(Blanks, None, [free |-> n_fatent - 2, next |-> UNKNOWN]),
          Card(Two, TwoOf(b, 2 * bcs - 1), [free |-> n_fatent - 4, next |-> top]),
          Card(Two, TwoOf(b, 2 * bcs), [free |-> UNKNOWN, next |-> UNKNOWN])}

PlainModes == {{"WRITE", "OPEN_ALWAYS"}, {"WRITE", "CREATE_ALWAYS"}, {},
               {"WRITE", "OPEN_ALWAYS", "SEEKEND"}, {"CREATE_NEW"}}

CrashModes == {{"WRITE", "CREATE_ALWAYS"}, {"WRITE", "OPEN_ALWAYS", "SEEKEND"}}

AllCalls == {"Open", "Read", "Write", "Seek", "Truncate", "Sync", "Close",
             "Unlink", "GetFree"}
FileCalls == AllCalls \ {"Read", "Sync"}
CrashCalls == {"Open", "Write", "Seek", "Close", "Unlink", "PowerCycle"}
=============================================================================
