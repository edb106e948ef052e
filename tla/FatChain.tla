------------------------------ MODULE FatChain ------------------------------
(***************************************************************************)
(* Cluster chains: create_chain and remove_chain of lib/fatfs/ff.c, one    *)
(* access to the FAT at a time, so that each step writes at most one       *)
(* sector of the card.  pc names the access that is next; the functions    *)
(* that call these two wait at "created" and "removed".                    *)
(***************************************************************************)
EXTENDS FatWindow

VARIABLES
  pc,
  clst,      \* create_chain: cluster to stretch, 0 for a new chain;
             \* remove_chain: cluster to free next
  ncl        \* the cluster found, and create_chain's result

chain == <<pc, clst, ncl>>

NOSPACE  == 0      \* results of create_chain that are no cluster
INSANITY == 1

ChainTypeOK ==
  /\ clst \in {0} \cup Clusters \cup {EOC}
  /\ ncl \in {NOSPACE, INSANITY} \cup Clusters

-----------------------------------------------------------------------------

\* The entry for c in the FAT of m, for any number c; get_fat's 1 is here FREE.
EntryOf(m, c) == IF c \in Clusters THEN m[c] ELSE FREE

\* From the first of a chain on, along the FAT of m.
Walk(m, first) ==
  LET at[k \in Nat] == IF k = 0 THEN first ELSE EntryOf(m, at[k - 1]) IN at

\* The clusters of the chain that begins at first, in the FAT of m.
ChainIn(m, first) ==
  LET at == Walk(m, first) IN {at[k] : k \in 0 .. n_fatent} \cap Clusters

FreeClusters == {c \in Clusters : View[c] = FREE}

\* How many FAT entries after scl the search, which wraps round at the end of
\* the FAT, comes to cluster c.
Distance(scl, c) == IF c > scl THEN c - scl ELSE c - scl + (n_fatent - 2)

NextFree(scl) ==
  CHOOSE c \in FreeClusters :
    \A d \in FreeClusters : Distance(scl, c) <= Distance(scl, d)

\* The cluster behind the one to stretch is tried first.  If that is taken, or
\* for a new chain, the search begins at the cluster allocated last.
SearchFrom ==
  LET next == IF clst + 1 < n_fatent THEN clst + 1 ELSE 2 IN
  IF clst # 0 /\ View[next] = FREE THEN clst
  ELSE IF last_clst \in Clusters THEN last_clst
  ELSE IF clst = 0 THEN 1 ELSE clst

\* Variant: the search ends at the end of the FAT.
ExhaustedNoWrap ==
  free_clst = 0 \/ {c \in FreeClusters : c > SearchFrom} = {}

\* No free cluster is known, or none is found.
Exhausted == free_clst = 0 \/ FreeClusters = {}

\* The sectors of the FAT that are read while the cluster to stretch, the one
\* behind it and those of the search up to cluster c are looked at.
Visited(c) ==
  LET scl == SearchFrom
      seen == {d \in Clusters : Distance(scl, d) <= Distance(scl, c)}
      next == IF clst = 0 THEN {}
              ELSE {clst, IF clst + 1 < n_fatent THEN clst + 1 ELSE 2}
  IN  {SectorOf(d) : d \in seen \cup next}

-----------------------------------------------------------------------------

\* The chain goes on already, or its end is not one: nothing is allocated.
Follow ==
  /\ pc = "create" /\ clst # 0
  /\ View[clst] # EOC
  /\ ncl' = IF View[clst] = FREE THEN INSANITY ELSE View[clst]
  /\ MoveWindow({SectorOf(clst)}, SectorOf(clst))
  /\ pc' = "created"
  /\ UNCHANGED <<clst, alloc>>

Full ==
  /\ pc = "create" /\ (clst # 0 => View[clst] = EOC)
  /\ Exhausted
  /\ IF free_clst = 0
       THEN IF clst = 0 THEN UNCHANGED window
            ELSE MoveWindow({SectorOf(clst)}, SectorOf(clst))
       ELSE LET end == IF SearchFrom = 1 THEN n_fatent - 1 ELSE SearchFrom
            IN  MoveWindow(Visited(end), SectorOf(end))
  /\ ncl' = NOSPACE
  /\ pc' = "created"
  /\ UNCHANGED <<clst, alloc>>

Find ==
  /\ pc = "create" /\ (clst # 0 => View[clst] = EOC)
  /\ ~Exhausted
  /\ ncl' = NextFree(SearchFrom)
  /\ MoveWindow(Visited(ncl'), SectorOf(ncl'))
  /\ pc' = "mark"
  /\ UNCHANGED <<clst, alloc>>

\* Variant: the number of free clusters is left as it was.
AllocatedUncounted ==
  last_clst' = ncl /\ UNCHANGED <<free_clst, fsi_flag>>

\* The allocation information follows the FAT.
Allocated ==
  /\ last_clst' = ncl
  /\ IF free_clst \in 1 .. (n_fatent - 2)
       THEN free_clst' = free_clst - 1 /\ fsi_flag' = Changed(fsi_flag)
       ELSE UNCHANGED <<free_clst, fsi_flag>>

\* The new cluster becomes the end of a chain ...
Mark ==
  /\ pc = "mark"
  /\ Put(ncl, EOC)
  /\ IF clst = 0 THEN Allocated /\ pc' = "created"
                 ELSE UNCHANGED alloc /\ pc' = "link"
  /\ UNCHANGED <<clst, ncl>>

\* ... and then that of the chain to stretch.
Link ==
  /\ pc = "link"
  /\ Put(clst, ncl)
  /\ Allocated
  /\ pc' = "created"
  /\ UNCHANGED <<clst, ncl>>

-----------------------------------------------------------------------------

\* Variant: the end of the part that is kept still leads to the part removed.
CutNothing ==
  /\ pc = "cut"
  /\ pc' = "free"
  /\ UNCHANGED <<window, clst, ncl, alloc>>

\* remove_chain with a previous cluster: that becomes the end first.  The
\* cluster is in ncl until then.
Cut ==
  /\ pc = "cut"
  /\ Put(ncl, EOC)
  /\ pc' = "free"
  /\ UNCHANGED <<clst, ncl, alloc>>

\* Variant: clst < n_fatent - 1
GoesOnShort(nxt) == nxt \in 2 .. (n_fatent - 2)

\* remove_chain goes on until the last link: clst < n_fatent.
GoesOn(nxt) == nxt \in Clusters

FreeNext ==
  /\ pc = "free"
  /\ LET nxt == View[clst] IN
     IF nxt = FREE
       THEN /\ MoveWindow({SectorOf(clst)}, SectorOf(clst))
            /\ pc' = "removed"
            /\ UNCHANGED <<clst, alloc>>
       ELSE /\ Put(clst, FREE)
            /\ IF free_clst < n_fatent - 2
                 THEN free_clst' = free_clst + 1 /\ fsi_flag' = Changed(fsi_flag)
                 ELSE UNCHANGED <<free_clst, fsi_flag>>
            /\ IF GoesOn(nxt) THEN clst' = nxt /\ UNCHANGED pc
                                   ELSE pc' = "removed" /\ UNCHANGED clst
            /\ UNCHANGED last_clst
  /\ UNCHANGED ncl

ChainStep == Follow \/ Full \/ Find \/ Mark \/ Link \/ Cut \/ FreeNext
=============================================================================
