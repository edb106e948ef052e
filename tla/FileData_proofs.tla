--------------------------- MODULE FileData_proofs ---------------------------
(***************************************************************************)
(* No call on a file writes a sector of another one, for every size of     *)
(* sectors and clusters and every sequence of calls.                       *)
(***************************************************************************)
EXTENDS FileData, SequenceTheorems, TLAPS

\* The cluster of a position is in the chain.
Held(n) == n < bcs * Len(links)
ClusterAt(chain, n) == chain[(n \div bcs) + 1]

Position ==
  /\ links \in Seq(Clusters) /\ DOMAIN card = Sectors
  /\ objsize \in Nat /\ fptr \in Nat /\ rest \in Nat
  /\ fptr <= objsize /\ objsize <= bcs * Len(links)
  /\ op = "read" => fptr + rest <= objsize

\* Within a sector the buffer is of the cluster of the position; a buffer that
\* is yet to be written is of some sector of the file.
Buffer ==
  /\ fptr % SS # 0 => Held(fptr) /\ sect \in SectorsOf(ClusterAt(links, fptr))
  /\ dirty => sect \in Owned
  /\ dirty \in BOOLEAN

Inv == Position /\ Buffer

-----------------------------------------------------------------------------

LEMMA Sizes == SS \in Nat \ {0} /\ csize \in Nat \ {0} /\ bcs \in Nat \ {0} /\ bcs = csize * SS
  BY DataAssumption DEF bcs

LEMMA Division ==
  ASSUME NEW n \in Nat, NEW d \in Nat \ {0}
  PROVE  n \div d \in Nat /\ n % d \in 0 .. (d - 1) /\ n = d * (n \div d) + (n % d)
  OBVIOUS

LEMMA Quotient ==
  ASSUME NEW d \in Nat \ {0}, NEW q \in Nat, NEW r \in 0 .. (d - 1)
  PROVE  (d * q + r) \div d = q /\ (d * q + r) % d = r
  OBVIOUS

LEMMA Monotonic ==
  ASSUME NEW d \in Nat, NEW a \in Nat, NEW b \in Nat, a <= b
  PROVE  d * a <= d * b
  OBVIOUS

\* The digits of an offset: cluster, sector in it, byte in that.
LEMMA Digits ==
  ASSUME NEW n \in Nat
  PROVE  \E q \in Nat, u \in 0 .. (csize - 1), v \in 0 .. (SS - 1) :
           /\ n = bcs * q + SS * u + v
           /\ n \div bcs = q /\ (n \div SS) % csize = u /\ n % SS = v
           /\ SS * u + v < bcs
  <1> DEFINE k == n \div SS
             v == n % SS
             u == k % csize
             q == k \div csize
  <1>1. k \in Nat /\ v \in 0 .. (SS - 1) /\ n = SS * k + v
    BY Sizes, Division
  <1>2. q \in Nat /\ u \in 0 .. (csize - 1) /\ k = csize * q + u
    BY <1>1, Sizes, Division
  <1> HIDE DEF k, v, u, q
  <1>3. SS * k = bcs * q + SS * u
    <2>1. SS * k = SS * (csize * q) + SS * u
      BY <1>2, Sizes
    <2>2. SS * (csize * q) = (csize * SS) * q
      BY <1>2, Sizes
    <2> QED BY <2>1, <2>2, Sizes
  <1>4. SS * u + v < bcs
    <2>1. SS * (u + 1) <= SS * csize
      BY <1>2, Sizes, Monotonic
    <2>2. SS * (u + 1) = SS * u + SS
      BY <1>2, Sizes
    <2>3. SS * csize = bcs
      BY Sizes
    <2> QED BY <1>1, <1>2, <2>1, <2>2, <2>3, Sizes
  <1>5. n = bcs * q + (SS * u + v) /\ SS * u + v \in 0 .. (bcs - 1)
    <2>1. SS * u \in Nat
      BY <1>2, Sizes
    <2> QED BY <1>1, <1>2, <1>3, <1>4, <2>1, Sizes
  <1>6. n \div bcs = q
    <2> DEFINE r == SS * u + v
    <2> HIDE DEF r
    <2>1. (bcs * q + r) \div bcs = q
      BY <1>2, <1>5, Sizes, Quotient DEF r
    <2> QED BY <1>5, <2>1 DEF r
  <1>7. (n \div SS) % csize = u /\ n % SS = v
    BY DEF u, k, v
  <1>8. n = bcs * q + SS * u + v
    <2>1. SS * u \in Nat /\ bcs * q \in Nat
      BY <1>2, Sizes
    <2> QED BY <1>1, <1>5, <2>1
  <1> QED BY <1>1, <1>2, <1>4, <1>6, <1>7, <1>8

\* Up to the end of the cluster.
LEMMA ClusterEnd ==
  ASSUME NEW n \in Nat, NEW k \in Nat,
         n < bcs * k
  PROVE  /\ (n \div bcs) + 1 \in 1 .. k
         /\ bcs * ((n \div bcs) + 1) <= bcs * k
  <1> DEFINE q == n \div bcs
  <1>1. q \in Nat /\ n % bcs \in 0 .. (bcs - 1) /\ n = bcs * q + (n % bcs)
    BY Sizes, Division
  <1> HIDE DEF q
  <1>2. q < k
    <2> SUFFICES ASSUME k <= q PROVE FALSE
      BY <1>1
    <2>1. bcs * k <= bcs * q
      BY <1>1, Sizes, Monotonic
    <2>2. bcs * q \in Nat /\ bcs * k \in Nat
      BY <1>1, Sizes
    <2> QED BY <1>1, <2>1, <2>2
  <1>3. bcs * (q + 1) <= bcs * k
    BY <1>1, <1>2, Sizes, Monotonic
  <1> QED BY <1>1, <1>2, <1>3 DEF q

\* A part of a sector ends in the cluster it begins in; if not at the end of
\* the sector, the next position is in that cluster too.
LEMMA PartInCluster ==
  ASSUME NEW n \in Nat, NEW k \in Nat, k <= SS - (n % SS)
  PROVE  /\ n + k <= bcs * ((n \div bcs) + 1)
         /\ (n + k) % SS # 0 => (n + k) \div bcs = n \div bcs
                               /\ n + k < bcs * ((n \div bcs) + 1)
  <1>1. PICK q \in Nat, u \in 0 .. (csize - 1), v \in 0 .. (SS - 1) :
          /\ n = bcs * q + SS * u + v
          /\ n \div bcs = q /\ n % SS = v
    BY Digits
  <1>2. /\ SS * u \in Nat /\ bcs * q \in Nat
        /\ SS * (u + 1) = SS * u + SS /\ bcs * (q + 1) = bcs * q + bcs
    BY <1>1, Sizes
  <1>3. SS * (u + 1) <= bcs
    <2>1. SS * (u + 1) <= SS * csize
      BY <1>1, Sizes, Monotonic
    <2>2. SS * csize = bcs
      BY Sizes
    <2> QED BY <2>1, <2>2
  <1>4. n + k <= bcs * (q + 1)
    BY <1>1, <1>2, <1>3, Sizes
  <1>5. ASSUME (n + k) % SS # 0
        PROVE  (n + k) \div bcs = q /\ n + k < bcs * (q + 1)
    <2>1. k # SS - v
      <3> SUFFICES ASSUME k = SS - v PROVE FALSE
        OBVIOUS
      <3>1. n + k = bcs * q + SS * (u + 1)
        BY <1>1, <1>2, Sizes
      <3>2. bcs * q = SS * (csize * q)
        BY <1>1, Sizes
      <3>3. SS * (csize * q) + SS * (u + 1) = SS * (csize * q + (u + 1)) + 0
        BY <1>1, Sizes
      <3>4. csize * q + (u + 1) \in Nat /\ 0 \in 0 .. (SS - 1)
        BY <1>1, Sizes
      <3>5. (SS * (csize * q + (u + 1)) + 0) % SS = 0
        BY <3>4, Sizes, Quotient
      <3> QED BY <1>5, <3>1, <3>2, <3>3, <3>5
    <2>2. SS * u + v + k \in 0 .. (bcs - 1)
      BY <1>1, <1>2, <1>3, <2>1, Sizes
    <2> DEFINE r == SS * u + v + k
    <2>3. n + k = bcs * q + r
      BY <1>1, <1>2
    <2> HIDE DEF r
    <2>4. (bcs * q + r) \div bcs = q
      BY <1>1, <2>2, Sizes, Quotient DEF r
    <2>5. r \in 0 .. (bcs - 1)
      BY <2>2 DEF r
    <2> QED BY <1>1, <1>2, <2>3, <2>4, <2>5, Sizes
  <1> QED BY <1>1, <1>4, <1>5

\* So do whole sectors from the beginning of one, and they end at one.
LEMMA WholeInCluster ==
  ASSUME NEW n \in Nat, n % SS = 0, NEW w \in Nat,
         w <= csize - ((n \div SS) % csize)
  PROVE  /\ n + w * SS <= bcs * ((n \div bcs) + 1)
         /\ (n + w * SS) % SS = 0
  <1>1. PICK q \in Nat, u \in 0 .. (csize - 1), v \in 0 .. (SS - 1) :
          /\ n = bcs * q + SS * u + v
          /\ n \div bcs = q /\ (n \div SS) % csize = u /\ n % SS = v
    BY Digits
  <1>2. n = bcs * q + SS * u
    <2>1. bcs * q \in Nat /\ SS * u \in Nat
      BY <1>1, Sizes
    <2> QED BY <1>1, <2>1
  <1>3. SS * u + w * SS = SS * (u + w) /\ SS * (u + w) <= bcs
    <2>1. SS * (u + w) <= SS * csize
      BY <1>1, Sizes, Monotonic
    <2>2. SS * csize = bcs
      BY Sizes
    <2>3. SS * u + w * SS = SS * (u + w)
      BY <1>1, Sizes
    <2> QED BY <2>1, <2>2, <2>3
  <1>4. bcs * (q + 1) = bcs * q + bcs /\ bcs * q \in Nat
    BY <1>1, Sizes
  <1>5. SS * (u + w) \in Nat /\ w * SS \in Nat /\ SS * u \in Nat
    BY <1>1, Sizes
  <1>6. n + w * SS <= bcs * (q + 1)
    BY <1>2, <1>3, <1>4, <1>5, Sizes
  <1>7. (n + w * SS) % SS = 0
    <2>1. n + w * SS = bcs * q + SS * (u + w)
      BY <1>2, <1>3, <1>4, <1>5
    <2>2. bcs * q = SS * (csize * q)
      BY <1>1, Sizes
    <2>3. SS * (csize * q) + SS * (u + w) = SS * (csize * q + (u + w)) + 0
      BY <1>1, Sizes
    <2>4. csize * q + (u + w) \in Nat /\ 0 \in 0 .. (SS - 1)
      BY <1>1, Sizes
    <2>5. (SS * (csize * q + (u + w)) + 0) % SS = 0
      BY <2>4, Sizes, Quotient
    <2> QED BY <2>1, <2>2, <2>3, <2>5
  <1> QED BY <1>1, <1>6, <1>7

\* The end of a chain is the end of a sector.
LEMMA ChainEnd ==
  ASSUME NEW k \in Nat
  PROVE  (bcs * k) % SS = 0
  <1>1. bcs * k = SS * (csize * k) + 0
    BY Sizes
  <1>2. csize * k \in Nat /\ 0 \in 0 .. (SS - 1)
    BY Sizes
  <1>3. (SS * (csize * k) + 0) % SS = 0
    BY <1>2, Sizes, Quotient
  <1> QED BY <1>1, <1>3

-----------------------------------------------------------------------------

LEMMA Linked ==
  ASSUME NEW chain \in Seq(Clusters), NEW k \in 1 .. Len(chain)
  PROVE  chain[k] \in Clusters /\ chain[k] \in Nat
  <1>1. chain[k] \in Clusters
    OBVIOUS
  <1> QED BY <1>1, DataAssumption

\* The sectors from the one of a position to the end of its cluster.
LEMMA SectorsFrom ==
  ASSUME NEW chain \in Seq(Clusters), NEW n \in Nat, (n \div bcs) + 1 \in 1 .. Len(chain),
         NEW w \in Nat \ {0}, w <= csize - ((n \div SS) % csize)
  PROVE  /\ SectorAt(chain, n) \in SectorsOf(ClusterAt(chain, n))
         /\ SectorAt(chain, n) .. (SectorAt(chain, n) + w - 1)
              \subseteq SectorsOf(ClusterAt(chain, n))
  <1> DEFINE c == chain[(n \div bcs) + 1]
             u == (n \div SS) % csize
  <1>1. c \in Nat
    BY Linked
  <1>2. u \in 0 .. (csize - 1)
    BY Sizes, Division
  <1>3. (c - 2) * csize \in Int
    BY <1>1, Sizes
  <1>4. clst2sect(c) \in Int /\ SectorAt(chain, n) = clst2sect(c) + u
    BY <1>3 DEF clst2sect, SectorAt
  <1> HIDE DEF c, u
  <1>5. w <= csize - u
    BY DEF u
  <1>6. SectorsOf(c) = clst2sect(c) .. (clst2sect(c) + csize - 1)
    BY DEF SectorsOf
  <1>7. SectorAt(chain, n) \in SectorsOf(c)
    BY <1>2, <1>4, <1>6, Sizes
  <1>8. SectorAt(chain, n) .. (SectorAt(chain, n) + w - 1) \subseteq SectorsOf(c)
    BY <1>2, <1>4, <1>5, <1>6, Sizes
  <1> QED BY <1>7, <1>8 DEF ClusterAt, c

LEMMA SectorOfPosition ==
  ASSUME NEW chain \in Seq(Clusters), NEW n \in Nat, n < bcs * Len(chain)
  PROVE  /\ SectorAt(chain, n) \in SectorsOf(ClusterAt(chain, n))
         /\ (n \div bcs) + 1 \in 1 .. Len(chain)
  <1>1. (n \div bcs) + 1 \in 1 .. Len(chain)
    BY ClusterEnd
  <1>2. (n \div SS) % csize \in 0 .. (csize - 1)
    BY Sizes, Division
  <1>3. 1 \in Nat \ {0} /\ 1 <= csize - ((n \div SS) % csize)
    BY <1>2, Sizes
  <1> QED BY <1>1, <1>3, SectorsFrom

\* The sectors of each cluster of a chain are the file's.
OwnedBy(chain) == UNION {SectorsOf(c) : c \in Range(chain)}

LEMMA ClusterOwned ==
  ASSUME NEW chain \in Seq(Clusters), NEW k \in 1 .. Len(chain)
  PROVE  SectorsOf(chain[k]) \subseteq OwnedBy(chain)
  <1>1. chain[k] \in Range(chain)
    BY DEF Range
  <1> QED BY <1>1 DEF OwnedBy

LEMMA OwnedGrows ==
  ASSUME NEW chain \in Seq(Clusters), NEW longer \in Seq(Clusters),
         Len(chain) <= Len(longer), \A k \in 1 .. Len(chain) : longer[k] = chain[k]
  PROVE  OwnedBy(chain) \subseteq OwnedBy(longer)
  <1>1. Range(chain) \subseteq Range(longer)
    BY DEF Range
  <1> QED BY <1>1 DEF OwnedBy

\* A position within the chain, and what follows from it, after a part ...
LEMMA AfterPart ==
  ASSUME NEW chain \in Seq(Clusters), NEW n \in Nat, n < bcs * Len(chain),
         NEW k \in Nat, k <= SS - (n % SS)
  PROVE  /\ n + k <= bcs * Len(chain)
         /\ (n + k) % SS # 0 => /\ n + k < bcs * Len(chain)
                                /\ ClusterAt(chain, n + k) = ClusterAt(chain, n)
  <1> DEFINE edge == bcs * ((n \div bcs) + 1)
             full == bcs * Len(chain)
  <1>1. edge <= full /\ n \div bcs \in Nat
    <2>1. Len(chain) \in Nat
      OBVIOUS
    <2>2. edge <= full
      BY <2>1, ClusterEnd
    <2> QED BY <2>2, Sizes, Division
  <1>2. n + k <= edge
    BY PartInCluster
  <1>3. (n + k) % SS # 0 => (n + k) \div bcs = n \div bcs /\ n + k < edge
    BY PartInCluster
  <1>4. edge \in Nat /\ full \in Nat
    BY <1>1, Sizes
  <1> HIDE DEF edge, full
  <1>5. n + k <= full /\ ((n + k) % SS # 0 => n + k < full)
    BY <1>1, <1>2, <1>3, <1>4
  <1> QED BY <1>3, <1>5 DEF full, ClusterAt

\* ... and after whole sectors.
LEMMA AfterWhole ==
  ASSUME NEW chain \in Seq(Clusters), NEW n \in Nat, n < bcs * Len(chain),
         n % SS = 0, NEW w \in Nat, w <= csize - ((n \div SS) % csize)
  PROVE  n + w * SS <= bcs * Len(chain) /\ (n + w * SS) % SS = 0
  <1> DEFINE edge == bcs * ((n \div bcs) + 1)
             full == bcs * Len(chain)
  <1>1. edge <= full /\ n \div bcs \in Nat
    <2>1. Len(chain) \in Nat
      OBVIOUS
    <2>2. edge <= full
      BY <2>1, ClusterEnd
    <2> QED BY <2>2, Sizes, Division
  <1>2. n + w * SS <= edge /\ (n + w * SS) % SS = 0
    BY WholeInCluster
  <1>3. edge \in Nat /\ full \in Nat /\ n + w * SS \in Nat
    BY <1>1, Sizes
  <1> HIDE DEF edge, full
  <1>4. n + w * SS <= full
    BY <1>1, <1>2, <1>3
  <1> QED BY <1>2, <1>4 DEF full

LEMMA Pieces ==
  ASSUME Position
  PROVE  /\ Whole \in Int /\ Part \in Nat
         /\ Whole <= csize - ((fptr \div SS) % csize)
         /\ Whole * SS <= rest
         /\ Part <= SS - (fptr % SS) /\ Part <= rest
  <1>1. fptr \in Nat /\ rest \in Nat
    BY DEF Position
  <1>2. fptr \div SS \in Nat /\ fptr % SS \in 0 .. (SS - 1)
    BY <1>1, Sizes, Division
  <1>3. (fptr \div SS) % csize \in 0 .. (csize - 1)
    BY <1>2, Sizes, Division
  <1>4. rest \div SS \in Nat /\ rest % SS \in 0 .. (SS - 1)
        /\ rest = SS * (rest \div SS) + (rest % SS)
    BY <1>1, Sizes, Division
  <1> DEFINE room == csize - ((fptr \div SS) % csize)
             all == rest \div SS
             base == fptr % SS
  <1>5. room \in Nat /\ all \in Nat
    BY <1>3, <1>4, Sizes
  <1>6. SS * all <= rest /\ SS * all \in Nat
    BY <1>1, <1>4, <1>5, Sizes
  <1>7. base \in 0 .. (SS - 1)
    BY <1>2
  <1>8. Whole = Lesser(all, room) /\ Part = Lesser(rest, SS - base)
    BY DEF Whole, Part
  <1> HIDE DEF room, all, base
  <1>9. Whole \in Nat /\ Whole <= room /\ Whole <= all
    BY <1>5, <1>8 DEF Lesser
  <1>10. Whole * SS <= rest
    <2>1. SS * Whole <= SS * all
      BY <1>5, <1>9, Sizes, Monotonic
    <2>2. SS * Whole = Whole * SS /\ Whole * SS \in Nat
      BY <1>9, Sizes
    <2> QED BY <1>1, <1>6, <2>1, <2>2
  <1>11. Part \in Nat /\ Part <= SS - base /\ Part <= rest
    BY <1>1, <1>7, <1>8, Sizes DEF Lesser
  <1> QED BY <1>9, <1>10, <1>11 DEF room, base

-----------------------------------------------------------------------------

\* What a step must not do to the sectors of other files.
Untouched == \A s \in Sectors \ Owned : card'[s] = card[s] \/ s \in Owned'

\* A chain that goes on where another one ends.
Extends(longer, chain) ==
  /\ longer \in Seq(Clusters)
  /\ Len(chain) <= Len(longer)
  /\ \A k \in 1 .. Len(chain) : longer[k] = chain[k]

LEMMA OwnedExtends ==
  ASSUME links \in Seq(Clusters), Extends(links', links)
  PROVE  Owned \subseteq Owned'
  <1>1. OwnedBy(links) \subseteq OwnedBy(links')
    BY OwnedGrows DEF Extends
  <1> QED BY <1>1 DEF Owned, OwnedBy

LEMMA BufferWritten ==
  ASSUME Inv
  PROVE  /\ DOMAIN WrittenBack = Sectors
         /\ \A s \in Sectors \ Owned : WrittenBack[s] = card[s]
  BY DEF Inv, Position, Buffer, WrittenBack

LEMMA Filled ==
  ASSUME Inv, NEW s, Fill(s)
  PROVE  /\ sect' = s
         /\ DOMAIN card' = Sectors
         /\ \A t \in Sectors \ Owned : card'[t] = card[t]
         /\ dirty' \in BOOLEAN
         /\ dirty' => dirty /\ sect = s
  <1>1. CASE s = sect
    BY <1>1 DEF Inv, Position, Buffer, Fill
  <1>2. CASE s # sect
    BY <1>2, BufferWritten DEF Fill
  <1> QED BY <1>1, <1>2

\* The chain of a write has the cluster of the position.
LEMMA Chained ==
  ASSUME Position, links' \in Chains
  PROVE  Extends(links', links) /\ fptr < bcs * Len(links')
  <1>0. links \in Seq(Clusters) /\ fptr \in Nat /\ Len(links) \in Nat
    BY DEF Position
  <1>1. CASE fptr < bcs * Len(links)
    BY <1>0, <1>1 DEF Chains, Extends
  <1>2. CASE ~(fptr < bcs * Len(links))
    <2>1. PICK c \in Clusters : links' = Append(links, c)
      BY <1>2 DEF Chains, Stretched
    <2>2. /\ links' \in Seq(Clusters) /\ Len(links') = Len(links) + 1
          /\ \A k \in 1 .. Len(links) : links'[k] = links[k]
      BY <1>0, <2>1
    <2>3. bcs * (Len(links) + 1) = bcs * Len(links) + bcs /\ bcs * Len(links) \in Nat
      BY <1>0, Sizes
    <2>4. fptr <= bcs * Len(links)
      BY <2>3 DEF Position
    <2>5. fptr < bcs * Len(links')
      BY <1>0, <2>2, <2>3, <2>4, Sizes
    <2> QED BY <1>0, <2>2, <2>5 DEF Extends
  <1> QED BY <1>1, <1>2

LEMMA Reached ==
  ASSUME Position, NEW target \in Nat, links' \in Reaching(target)
  PROVE  Extends(links', links)
  <1>0. links \in Seq(Clusters) /\ Len(links) \in Nat
    BY DEF Position
  <1>1. CASE links' = links
    BY <1>0, <1>1 DEF Extends
  <1>2. CASE links' # links
    <2> DEFINE long == (target + bcs - 1) \div bcs
               free == Clusters \ Range(links)
               more(n) == {s \in [1 .. n -> free] : IsInjective(s)}
    <2>1. links' \in UNION {{links \o s : s \in more(n)} : n \in 0 .. (long - Len(links))}
      BY <1>2 DEF Reaching
    <2>2. PICK n \in 0 .. (long - Len(links)) : links' \in {links \o s : s \in more(n)}
      BY <2>1
    <2>3. PICK s \in more(n) : links' = links \o s
      BY <2>2
    <2>4. n \in Nat /\ s \in [1 .. n -> Clusters]
      BY <2>2, <2>3
    <2>5. s \in Seq(Clusters)
      BY <2>4, SeqDef
    <2> QED BY <1>0, <2>3, <2>5 DEF Extends
  <1> QED BY <1>1, <1>2

-----------------------------------------------------------------------------

\* Within a sector the position has a sector of its cluster.
LEMMA SectorHere ==
  ASSUME NEW chain \in Seq(Clusters), NEW n \in Nat, n < bcs * Len(chain)
  PROVE  /\ SectorAt(chain, n) \in SectorsOf(ClusterAt(chain, n))
         /\ SectorsOf(ClusterAt(chain, n)) \subseteq OwnedBy(chain)
  <1>1. (n \div bcs) + 1 \in 1 .. Len(chain)
    BY SectorOfPosition
  <1>2. SectorsOf(ClusterAt(chain, n)) \subseteq OwnedBy(chain)
    BY <1>1, ClusterOwned DEF ClusterAt
  <1> QED BY <1>2, SectorOfPosition

LEMMA Started ==
  ASSUME Inv, NEW what, NEW n \in Nat, Begin(what, n),
         what = "read" => fptr + n <= objsize
  PROVE  Inv' /\ Untouched
  BY DEF Inv, Position, Buffer, Begin, object, Held, ClusterAt, Owned, Untouched,
         bcs, SectorsOf, clst2sect, Sectors

LEMMA Reads ==
  ASSUME Inv, NEW n \in Lengths, Read(n)
  PROVE  Inv' /\ Untouched
  <1>1. fptr \in Nat /\ objsize \in Nat /\ fptr <= objsize /\ n \in Nat
    BY DataAssumption DEF Inv, Position
  <1>2. Lesser(n, objsize - fptr) \in Nat /\ fptr + Lesser(n, objsize - fptr) <= objsize
    BY <1>1 DEF Lesser
  <1> QED BY <1>2, Started DEF Read

LEMMA Writes ==
  ASSUME Inv, NEW n \in Lengths, Write(n)
  PROVE  Inv' /\ Untouched
  <1>1. n \in Nat
    BY DataAssumption
  <1> QED BY <1>1, Started DEF Write

LEMMA Ends ==
  ASSUME Inv, ReadDone \/ WriteDone
  PROVE  Inv' /\ Untouched
  BY DEF Inv, Position, Buffer, ReadDone, WriteDone, Return, object, Held, ClusterAt,
         Owned, Untouched, bcs, SectorsOf, clst2sect, Sectors

LEMMA ReadsDirectly ==
  ASSUME Inv, ReadDirect
  PROVE  Inv' /\ Untouched
  <1>1. /\ links \in Seq(Clusters) /\ Len(links) \in Nat
        /\ fptr \in Nat /\ objsize \in Nat /\ rest \in Nat
        /\ fptr + rest <= objsize /\ objsize <= bcs * Len(links)
        /\ rest > 0 /\ fptr % SS = 0 /\ Whole > 0
    BY DEF Inv, Position, ReadDirect, Direct, AtSector
  <1>2. bcs * Len(links) \in Nat
    BY <1>1, Sizes
  <1>3. fptr < bcs * Len(links)
    BY <1>1, <1>2
  <1>4. Whole \in Nat /\ Whole <= csize - ((fptr \div SS) % csize) /\ Whole * SS <= rest
    BY <1>1, Pieces DEF Inv
  <1>5. (fptr + Whole * SS) % SS = 0
    BY <1>1, <1>3, <1>4, AfterWhole
  <1>6. Whole * SS \in Nat
    BY <1>4, Sizes
  <1>7. /\ fptr' = fptr + Whole * SS /\ rest' = rest - Whole * SS
        /\ UNCHANGED <<card, links, objsize, sect, dirty, op>>
    BY DEF ReadDirect, Advance
  <1>8. fptr' \in Nat /\ rest' \in Nat /\ fptr' + rest' <= objsize /\ fptr' <= objsize
    BY <1>1, <1>4, <1>6, <1>7
  <1>9. fptr' % SS = 0
    BY <1>5, <1>7
  <1>10. Owned' = Owned
    BY <1>7 DEF Owned, SectorsOf, clst2sect
  <1>11. Position'
    BY <1>7, <1>8 DEF Inv, Position, bcs, Sectors, SectorsOf, clst2sect
  <1>12. Buffer'
    BY <1>7, <1>9, <1>10 DEF Inv, Buffer
  <1> QED BY <1>7, <1>11, <1>12 DEF Inv, Untouched

LEMMA ReadsPart ==
  ASSUME Inv, ReadPart
  PROVE  Inv' /\ Untouched
  <1> DEFINE s == IF AtSector THEN SectorAt(links, fptr) ELSE sect
  <1>1. /\ links \in Seq(Clusters) /\ Len(links) \in Nat
        /\ fptr \in Nat /\ objsize \in Nat /\ rest \in Nat
        /\ fptr + rest <= objsize /\ objsize <= bcs * Len(links)
        /\ rest > 0
    BY DEF Inv, Position, ReadPart
  <1>2. bcs * Len(links) \in Nat
    BY <1>1, Sizes
  <1>3. fptr < bcs * Len(links)
    BY <1>1, <1>2
  <1>4. Part \in Nat /\ Part <= SS - (fptr % SS) /\ Part <= rest
    BY Pieces DEF Inv
  <1>5. /\ (fptr + Part) % SS # 0 =>
             /\ fptr + Part < bcs * Len(links)
             /\ ClusterAt(links, fptr + Part) = ClusterAt(links, fptr)
    BY <1>1, <1>3, <1>4, AfterPart
  <1>6. Fill(s)
    BY DEF ReadPart
  <1>7. /\ sect' = s
        /\ DOMAIN card' = Sectors
        /\ \A t \in Sectors \ Owned : card'[t] = card[t]
        /\ dirty' \in BOOLEAN
        /\ dirty' => dirty /\ sect = s
    <2> HIDE DEF s
    <2> QED BY <1>6, Filled
  <1>8. /\ s \in SectorsOf(ClusterAt(links, fptr))
    BY <1>1, <1>3, SectorHere DEF AtSector, Inv, Buffer
  <1>9. /\ fptr' = fptr + Part /\ rest' = rest - Part
        /\ UNCHANGED <<links, objsize, op>>
    BY DEF ReadPart, Advance
  <1> HIDE DEF s
  <1>10. fptr' \in Nat /\ rest' \in Nat /\ fptr' + rest' <= objsize /\ fptr' <= objsize
    BY <1>1, <1>4, <1>9
  <1>11. Owned' = Owned
    BY <1>9 DEF Owned, SectorsOf, clst2sect
  <1>12. Position'
    BY <1>7, <1>9, <1>10 DEF Inv, Position, bcs, Sectors, SectorsOf, clst2sect
  <1>13. fptr' % SS # 0 => Held(fptr') /\ sect' \in SectorsOf(ClusterAt(links, fptr'))
    BY <1>5, <1>7, <1>8, <1>9 DEF Held
  <1>14. dirty' => sect' \in Owned
    BY <1>7 DEF Inv, Buffer
  <1>15. Buffer'
    BY <1>7, <1>9, <1>11, <1>13, <1>14 DEF Buffer, Held, ClusterAt, bcs, SectorsOf, clst2sect
  <1> QED BY <1>7, <1>12, <1>15 DEF Inv, Untouched

\* What both kinds of write do to the sizes.
LEMMA Grown ==
  ASSUME Position, Extends(links', links), op' = op, op = "write",
         DOMAIN card' = Sectors,
         NEW n \in Nat, Advance(n), Grow(n), n <= rest, fptr + n <= bcs * Len(links')
  PROVE  Position'
  <1>1. /\ Len(links) \in Nat /\ Len(links') \in Nat /\ Len(links) <= Len(links')
        /\ links' \in Seq(Clusters)
        /\ fptr \in Nat /\ objsize \in Nat /\ rest \in Nat
        /\ fptr <= objsize /\ objsize <= bcs * Len(links)
    BY DEF Position, Extends
  <1>2. bcs * Len(links) <= bcs * Len(links')
    BY <1>1, Sizes, Monotonic
  <1>3. bcs * Len(links) \in Nat /\ bcs * Len(links') \in Nat
    BY <1>1, Sizes
  <1>4. /\ fptr' = fptr + n /\ rest' = rest - n
        /\ objsize' = IF fptr + n > objsize THEN fptr + n ELSE objsize
    BY DEF Advance, Grow
  <1>5. objsize' \in Nat /\ fptr' \in Nat /\ rest' \in Nat /\ fptr' <= objsize'
    BY <1>1, <1>4
  <1>6. objsize' <= bcs * Len(links')
    BY <1>1, <1>2, <1>3, <1>4
  <1> QED BY <1>1, <1>5, <1>6 DEF Position, bcs, Sectors, SectorsOf, clst2sect

LEMMA WritesDirectly ==
  ASSUME Inv, WriteDirect
  PROVE  Inv' /\ Untouched
  <1> DEFINE first == SectorAt(links', fptr)
             direct == first .. (first + Whole - 1)
  <1>1. /\ links \in Seq(Clusters) /\ fptr \in Nat /\ rest \in Nat
        /\ fptr % SS = 0 /\ Whole > 0 /\ op = "write"
    BY DEF Inv, Position, WriteDirect, Direct, AtSector
  <1>2. Extends(links', links) /\ fptr < bcs * Len(links')
    BY Chained DEF Inv, WriteDirect
  <1>3. Whole \in Nat \ {0} /\ Whole <= csize - ((fptr \div SS) % csize) /\ Whole * SS <= rest
    BY <1>1, Pieces DEF Inv
  <1>4. links' \in Seq(Clusters)
    BY <1>2 DEF Extends
  <1>5. fptr + Whole * SS <= bcs * Len(links') /\ (fptr + Whole * SS) % SS = 0
    BY <1>1, <1>2, <1>3, <1>4, AfterWhole
  <1>6. direct \subseteq OwnedBy(links')
    <2>1. (fptr \div bcs) + 1 \in 1 .. Len(links')
      BY <1>1, <1>2, <1>4, SectorOfPosition
    <2>2. direct \subseteq SectorsOf(ClusterAt(links', fptr))
      BY <1>1, <1>3, <1>4, <2>1, SectorsFrom
    <2> QED BY <1>1, <1>2, <1>4, <2>2, SectorHere
  <1>7. Owned \subseteq Owned' /\ Owned' = OwnedBy(links')
    BY <1>1, <1>2, OwnedExtends DEF Owned, OwnedBy
  <1>8. /\ DOMAIN card' = Sectors
        /\ \A s \in Sectors : s \notin direct => card'[s] = WrittenBack[s]
    BY DEF WriteDirect
  <1> HIDE DEF direct, first
  <1>9. Untouched
    BY <1>6, <1>7, <1>8, BufferWritten DEF Untouched
  <1>10. Advance(Whole * SS) /\ Grow(Whole * SS) /\ dirty' = FALSE /\ op' = op
    BY DEF WriteDirect, Advance
  <1>11. Whole * SS \in Nat
    BY <1>3, Sizes
  <1>12. Position'
    BY <1>1, <1>2, <1>3, <1>5, <1>8, <1>10, <1>11, Grown DEF Inv
  <1>13. fptr' % SS = 0
    BY <1>5, <1>10 DEF Advance
  <1>14. Buffer'
    BY <1>10, <1>13 DEF Buffer
  <1> QED BY <1>9, <1>12, <1>14 DEF Inv

LEMMA WritesPart ==
  ASSUME Inv, WritePart
  PROVE  Inv' /\ Untouched
  <1>1. /\ links \in Seq(Clusters) /\ fptr \in Nat /\ rest \in Nat /\ op = "write"
        /\ Advance(Part) /\ Grow(Part) /\ dirty' = TRUE /\ op' = op
    BY DEF Inv, Position, WritePart, Advance
  <1>2. Part \in Nat /\ Part <= SS - (fptr % SS) /\ Part <= rest
    BY Pieces DEF Inv
  <1>3. /\ Extends(links', links) /\ fptr < bcs * Len(links')
        /\ sect' \in SectorsOf(ClusterAt(links', fptr))
        /\ DOMAIN card' = Sectors
        /\ \A s \in Sectors \ Owned : card'[s] = card[s]
    <2>1. CASE AtSector
      <3>1. links' \in Chains /\ card' = WrittenBack /\ sect' = SectorAt(links', fptr)
        BY <2>1 DEF WritePart
      <3>2. Extends(links', links) /\ fptr < bcs * Len(links')
        BY <3>1, Chained DEF Inv
      <3>3. links' \in Seq(Clusters)
        BY <3>2 DEF Extends
      <3>4. sect' \in SectorsOf(ClusterAt(links', fptr))
        BY <1>1, <3>1, <3>2, <3>3, SectorHere
      <3> QED BY <3>1, <3>2, <3>4, BufferWritten
    <2>2. CASE ~AtSector
      <3>1. links' = links /\ card' = card /\ sect' = sect
        BY <2>2 DEF WritePart
      <3> QED BY <1>1, <2>2, <3>1 DEF AtSector, Inv, Position, Buffer, Held, Extends
    <2> QED BY <2>1, <2>2
  <1>4. links' \in Seq(Clusters)
    BY <1>3 DEF Extends
  <1>5. /\ fptr + Part <= bcs * Len(links')
        /\ (fptr + Part) % SS # 0 =>
             /\ fptr + Part < bcs * Len(links')
             /\ ClusterAt(links', fptr + Part) = ClusterAt(links', fptr)
    BY <1>1, <1>2, <1>3, <1>4, AfterPart
  <1>6. Position'
    BY <1>1, <1>2, <1>3, <1>5, Grown DEF Inv
  <1>7. sect' \in OwnedBy(links')
    BY <1>1, <1>3, <1>4, SectorHere
  <1>8. fptr' = fptr + Part
    BY <1>1 DEF Advance
  <1>9. fptr' % SS # 0 => fptr' < bcs * Len(links') /\ sect' \in SectorsOf(ClusterAt(links', fptr'))
    BY <1>3, <1>5, <1>8
  <1>10. Buffer'
    BY <1>1, <1>7, <1>9 DEF Buffer, Held, ClusterAt, Owned, OwnedBy, bcs, SectorsOf, clst2sect
  <1> QED BY <1>3, <1>6, <1>10 DEF Inv, Untouched

LEMMA Seeks ==
  ASSUME Inv, NEW target \in Offsets, Seek(target)
  PROVE  Inv' /\ Untouched
  <1> DEFINE full == bcs * Len(links')
  <1>1. /\ links \in Seq(Clusters) /\ target \in Nat
        /\ objsize \in Nat /\ objsize <= bcs * Len(links) /\ op = "none" /\ rest \in Nat
    BY DataAssumption DEF Inv, Position, Seek
  <1>2. Extends(links', links)
    BY <1>1, Reached DEF Inv, Seek
  <1>3. links' \in Seq(Clusters) /\ Len(links') \in Nat /\ Len(links) <= Len(links') /\ Len(links) \in Nat
    BY <1>1, <1>2 DEF Extends
  <1>4. full \in Nat /\ bcs * Len(links) \in Nat /\ bcs * Len(links) <= full
    BY <1>3, Sizes, Monotonic
  <1>5. full % SS = 0
    BY <1>3, ChainEnd
  <1>6. /\ fptr' = Lesser(target, full)
        /\ objsize' = IF fptr' > objsize THEN fptr' ELSE objsize
        /\ UNCHANGED <<op, rest>>
    BY DEF Seek
  <1>7. Owned \subseteq Owned' /\ Owned' = OwnedBy(links')
    BY <1>1, <1>2, OwnedExtends DEF Owned, OwnedBy
  <1>8. fptr' \in Nat /\ fptr' <= full /\ (fptr' % SS # 0 => fptr' < full)
    <2> HIDE DEF full
    <2>1. fptr' \in Nat /\ fptr' <= full
      BY <1>1, <1>4, <1>6 DEF Lesser
    <2>2. fptr' = full => fptr' % SS = 0
      BY <1>5
    <2> QED BY <1>4, <2>1, <2>2
  <1>9. objsize' \in Nat /\ fptr' <= objsize' /\ objsize' <= full
    <2> HIDE DEF full
    <2> QED BY <1>1, <1>4, <1>6, <1>8
  <1>10. /\ DOMAIN card' = Sectors
         /\ \A s \in Sectors \ Owned : card'[s] = card[s]
         /\ dirty' \in BOOLEAN
         /\ dirty' => sect' \in Owned
         /\ fptr' % SS # 0 => sect' \in SectorsOf(ClusterAt(links', fptr'))
    <2>1. CASE fptr' % SS # 0
      <3>1. Fill(SectorAt(links', fptr'))
        BY <2>1 DEF Seek
      <3> DEFINE s == SectorAt(links', fptr')
      <3>2. s \in SectorsOf(ClusterAt(links', fptr'))
        BY <1>3, <1>8, <2>1, SectorHere
      <3> HIDE DEF s
      <3>3. Fill(s)
        BY <3>1 DEF s
      <3>4. /\ sect' = s
            /\ DOMAIN card' = Sectors
            /\ \A t \in Sectors \ Owned : card'[t] = card[t]
            /\ dirty' \in BOOLEAN
            /\ dirty' => dirty /\ sect = s
        BY <3>3, Filled
      <3> QED BY <3>2, <3>4 DEF Inv, Buffer
    <2>2. CASE fptr' % SS = 0
      <3>1. UNCHANGED <<card, sect, dirty>>
        BY <2>2 DEF Seek
      <3> QED BY <2>2, <3>1 DEF Inv, Position, Buffer
    <2> QED BY <2>1, <2>2
  <1>11. Position'
    BY <1>1, <1>3, <1>6, <1>8, <1>9, <1>10 DEF Position, bcs, Sectors, SectorsOf, clst2sect
  <1>12. Buffer'
    BY <1>7, <1>8, <1>10 DEF Buffer, Held, ClusterAt, bcs, SectorsOf, clst2sect
  <1> QED BY <1>10, <1>11, <1>12 DEF Inv, Untouched

\* The clusters that a length needs.
LEMMA Needs ==
  ASSUME NEW n \in Nat, NEW k \in Nat, n <= bcs * k
  PROVE  /\ (n + bcs - 1) \div bcs \in 0 .. k
         /\ n <= bcs * ((n + bcs - 1) \div bcs)
  <1> DEFINE m == (n + bcs - 1) \div bcs
             r == (n + bcs - 1) % bcs
  <1>1. n + bcs - 1 \in Nat
    BY Sizes
  <1>2. m \in Nat /\ r \in 0 .. (bcs - 1) /\ n + bcs - 1 = bcs * m + r
    BY <1>1, Sizes, Division
  <1> HIDE DEF m, r
  <1>3. bcs * m \in Nat /\ bcs * k \in Nat
    BY <1>2, Sizes
  <1>4. n <= bcs * m
    BY <1>2, <1>3, Sizes
  <1>5. m <= k
    <2> SUFFICES ASSUME k + 1 <= m PROVE FALSE
      BY <1>2
    <2>1. bcs * (k + 1) <= bcs * m
      BY <1>2, Sizes, Monotonic
    <2>2. bcs * (k + 1) = bcs * k + bcs
      BY Sizes
    <2> QED BY <1>2, <1>3, <2>1, <2>2, Sizes
  <1> QED BY <1>2, <1>4, <1>5 DEF m

LEMMA Truncates ==
  ASSUME Inv, Truncate
  PROVE  Inv' /\ Untouched
  <1> DEFINE m == (fptr + bcs - 1) \div bcs
  <1>1. /\ links \in Seq(Clusters) /\ Len(links) \in Nat
        /\ fptr \in Nat /\ objsize \in Nat /\ rest \in Nat
        /\ fptr <= objsize /\ objsize <= bcs * Len(links) /\ op = "none"
    BY DEF Inv, Position, Truncate
  <1>2. fptr <= bcs * Len(links)
    <2>1. bcs * Len(links) \in Nat
      BY <1>1, Sizes
    <2> QED BY <1>1, <2>1
  <1>3. m \in 0 .. Len(links) /\ fptr <= bcs * m
    BY <1>1, <1>2, Needs
  <1>4. links' = SubSeq(links, 1, m)
    BY DEF Truncate
  <1> HIDE DEF m
  <1>5. /\ links' \in Seq(Clusters) /\ Len(links') = m
        /\ \A k \in 1 .. m : links'[k] = links[k]
    BY <1>1, <1>3, <1>4
  <1>6. fptr % SS # 0 => fptr < bcs * m
    <2>1. (bcs * m) % SS = 0 /\ bcs * m \in Nat
      BY <1>3, Sizes, ChainEnd
    <2> QED BY <1>1, <1>3, <2>1
  <1>7. fptr % SS # 0 => ClusterAt(links', fptr) = ClusterAt(links, fptr)
    <2> SUFFICES ASSUME fptr % SS # 0
                 PROVE  ClusterAt(links', fptr) = ClusterAt(links, fptr)
      OBVIOUS
    <2>1. (fptr \div bcs) + 1 \in 1 .. m
      BY <1>1, <1>3, <1>6, ClusterEnd
    <2> QED BY <1>5, <2>1 DEF ClusterAt
  <1>8. /\ objsize' = fptr /\ card' = WrittenBack /\ dirty' = FALSE
        /\ UNCHANGED <<fptr, sect, op, rest>>
    BY DEF Truncate
  <1>9. Position'
    BY <1>1, <1>3, <1>5, <1>8, BufferWritten
       DEF Position, bcs, Sectors, SectorsOf, clst2sect
  <1>10. Buffer'
    BY <1>5, <1>6, <1>7, <1>8 DEF Inv, Buffer, Held, ClusterAt, bcs, SectorsOf, clst2sect
  <1> QED BY <1>8, <1>9, <1>10, BufferWritten DEF Inv, Untouched

LEMMA Syncs ==
  ASSUME Inv, Sync
  PROVE  Inv' /\ Untouched
  BY BufferWritten DEF Inv, Position, Buffer, Sync, Held, ClusterAt, Untouched,
     bcs, Sectors, SectorsOf, clst2sect

LEMMA Reopens ==
  ASSUME Inv, NEW end \in BOOLEAN, Reopen(end)
  PROVE  Inv' /\ Untouched
  <1>1. /\ links \in Seq(Clusters) /\ Len(links) \in Nat
        /\ objsize \in Nat /\ rest \in Nat /\ objsize <= bcs * Len(links) /\ op = "none"
    BY DEF Inv, Position, Reopen
  <1>2. /\ card' = WrittenBack /\ dirty' = FALSE
        /\ fptr' = IF end THEN objsize ELSE 0
        /\ end /\ objsize % SS # 0 => sect' = SectorAt(links, objsize)
        /\ UNCHANGED <<links, objsize, op, rest>>
    BY DEF Reopen
  <1>3. objsize % SS # 0 => objsize < bcs * Len(links)
    <2>1. (bcs * Len(links)) % SS = 0 /\ bcs * Len(links) \in Nat
      BY <1>1, Sizes, ChainEnd
    <2> QED BY <1>1, <2>1
  <1>4. 0 % SS = 0
    BY Sizes
  <1>5. fptr' % SS # 0 => fptr' < bcs * Len(links)
                         /\ sect' \in SectorsOf(ClusterAt(links, fptr'))
    BY <1>1, <1>2, <1>3, <1>4, SectorHere
  <1>6. Position'
    BY <1>1, <1>2, BufferWritten DEF Position, bcs, Sectors, SectorsOf, clst2sect
  <1>7. Buffer'
    BY <1>2, <1>5 DEF Buffer, Held, ClusterAt, bcs, SectorsOf, clst2sect
  <1> QED BY <1>2, <1>6, <1>7, BufferWritten DEF Inv, Untouched

LEMMA OthersGoOn ==
  ASSUME Inv, Others
  PROVE  Inv'
  <1>1. DOMAIN card' = Sectors /\ UNCHANGED <<links, object, op, rest>>
    BY DEF Inv, Position, Others
  <1> QED BY <1>1 DEF Inv, Position, Buffer, object, Held, ClusterAt, Owned,
                      bcs, Sectors, SectorsOf, clst2sect

LEMMA Idles ==
  ASSUME Inv, UNCHANGED data
  PROVE  Inv' /\ Untouched
  BY DEF Inv, Position, Buffer, data, object, Held, ClusterAt, Owned, Untouched,
         bcs, Sectors, SectorsOf, clst2sect

-----------------------------------------------------------------------------

LEMMA Starts ==
  ASSUME Init
  PROVE  Inv
  <1>1. links \in Seq(Clusters) /\ objsize = 0 /\ fptr = 0 /\ dirty = FALSE /\ rest = 0 /\ op = "none"
    BY DEF Init
  <1>2. DOMAIN card = Sectors
    BY DEF Init
  <1>3. bcs * Len(links) \in Nat /\ 0 % SS = 0
    BY <1>1, Sizes
  <1>4. Position
    BY <1>1, <1>2, <1>3 DEF Position
  <1>5. Buffer
    <2>1. fptr % SS = 0
      BY <1>1, <1>3
    <2> QED BY <1>1, <2>1 DEF Buffer
  <1> QED BY <1>4, <1>5 DEF Inv

LEMMA Steps ==
  ASSUME Inv, [Next]_data
  PROVE  Inv' /\ (~Others => Untouched)
  <1>1. CASE Call
    <2>1. ASSUME NEW n \in Lengths, Read(n) PROVE Inv' /\ Untouched
      BY <2>1, Reads
    <2>2. ASSUME NEW n \in Lengths, Write(n) PROVE Inv' /\ Untouched
      BY <2>2, Writes
    <2>3. ASSUME NEW target \in Offsets, Seek(target) PROVE Inv' /\ Untouched
      BY <2>3, Seeks
    <2>4. ASSUME NEW end \in BOOLEAN, Reopen(end) PROVE Inv' /\ Untouched
      BY <2>4, Reopens
    <2> QED BY <1>1, <2>1, <2>2, <2>3, <2>4, Truncates, Syncs DEF Call
  <1>2. CASE Step
    BY <1>2, ReadsDirectly, ReadsPart, Ends, WritesDirectly, WritesPart DEF Step
  <1>3. CASE Others
    BY <1>3, OthersGoOn
  <1>4. CASE UNCHANGED data
    BY <1>4, Idles
  <1> QED BY <1>1, <1>2, <1>3, <1>4 DEF Next

\* No call of lib/fatfs/ff.c on a file writes a sector that is of another one:
\* what f_write puts on the card directly stays in the cluster of the position,
\* and the buffer, whenever it is written, is of a sector of the file.
THEOREM OtherFilesAreSafe == Spec => OthersUntouched
  <1>1. Init => Inv
    BY Starts
  <1>2. Inv /\ [Next]_data => Inv'
    BY Steps
  <1>3. Inv /\ [Next]_data
          => [ ~Others => \A s \in Sectors \ Owned : card'[s] = card[s] \/ s \in Owned' ]_data
    BY Steps DEF Untouched
  <1> QED BY <1>1, <1>2, <1>3, PTL DEF Spec, OthersUntouched

-----------------------------------------------------------------------------
(***************************************************************************)
(* f_read, f_write, f_lseek, f_truncate and f_sync implement the array of  *)
(* bytes that ByteFile is, for every size of sectors and clusters.         *)
(***************************************************************************)

\* The sector with a number, counted from the beginning of the file.
SectorNo(chain, k) == clst2sect(chain[(k \div csize) + 1]) + (k % csize)

\* An offset goes to the sector of its number.
LEMMA ByNumber ==
  ASSUME NEW chain, NEW n \in Nat
  PROVE  SectorAt(chain, n) = SectorNo(chain, n \div SS)
  <1>1. PICK q \in Nat, u \in 0 .. (csize - 1), v \in 0 .. (SS - 1) :
          /\ n = bcs * q + SS * u + v
          /\ n \div bcs = q /\ (n \div SS) % csize = u
    BY Digits
  <1>2. n = SS * (csize * q + u) + v
    <2>1. bcs * q = SS * (csize * q)
      BY <1>1, Sizes
    <2>2. SS * (csize * q + u) = SS * (csize * q) + SS * u
      BY <1>1, Sizes
    <2> QED BY <1>1, <2>1, <2>2
  <1>3. csize * q + u \in Nat
    BY <1>1, Sizes
  <1>4. n \div SS = csize * q + u
    <2> DEFINE k == csize * q + u
    <2> HIDE DEF k
    <2>1. (SS * k + v) \div SS = k
      BY <1>1, <1>3, Sizes, Quotient DEF k
    <2> QED BY <1>2, <2>1 DEF k
  <1>5. (csize * q + u) \div csize = q
    BY <1>1, Sizes, Quotient
  <1>6. (n \div SS) \div csize = n \div bcs
    BY <1>1, <1>4, <1>5
  <1> QED BY <1>6 DEF SectorAt, SectorNo

\* The number of an offset in a chain.
LEMMA NumberInChain ==
  ASSUME NEW n \in Nat, NEW k \in Nat, n < bcs * k
  PROVE  n \div SS \in Nat /\ n \div SS < csize * k
  <1>1. n \div SS \in Nat /\ n % SS \in 0 .. (SS - 1) /\ n = SS * (n \div SS) + (n % SS)
    BY Sizes, Division
  <1> DEFINE m == n \div SS
             r == n % SS
  <1>2. m \in Nat /\ r \in Nat /\ n = SS * m + r
    BY <1>1, Sizes
  <1> HIDE DEF m, r
  <1>3. csize * k \in Nat /\ SS * (csize * k) = bcs * k
    BY Sizes
  <1>4. m < csize * k
    <2> SUFFICES ASSUME csize * k <= m PROVE FALSE
      BY <1>2, <1>3
    <2>1. SS * (csize * k) <= SS * m
      BY <1>2, <1>3, Sizes, Monotonic
    <2>2. SS * m \in Nat /\ bcs * k \in Nat /\ bcs * k <= SS * m
      BY <1>2, <1>3, <2>1, Sizes
    <2> QED BY <1>2, <2>2
  <1> QED BY <1>2, <1>4 DEF m

\* The sectors of a cluster follow each other.
LEMMA Following ==
  ASSUME NEW chain \in Seq(Clusters), NEW k \in Nat, k < csize * Len(chain),
         NEW j \in Nat, j < csize - (k % csize)
  PROVE  SectorNo(chain, k + j) = SectorNo(chain, k) + j
  <1>1. k \div csize \in Nat /\ k % csize \in 0 .. (csize - 1)
        /\ k = csize * (k \div csize) + (k % csize)
    BY Sizes, Division
  <1> DEFINE q == k \div csize
             u == k % csize
             x == clst2sect(chain[q + 1])
  <1>2. q + 1 \in 1 .. Len(chain)
    <2>1. Len(chain) \in Nat
      OBVIOUS
    <2> SUFFICES ASSUME Len(chain) <= q PROVE FALSE
      BY <1>1, <2>1
    <2>2. csize * Len(chain) <= csize * q
      BY <1>1, <2>1, Sizes, Monotonic
    <2>3. csize * Len(chain) \in Nat /\ csize * q \in Nat
      BY <1>1, <2>1, Sizes
    <2> QED BY <1>1, <2>2, <2>3
  <1>3. x \in Int
    <2>1. chain[q + 1] \in Nat
      BY <1>2, Linked
    <2>2. (chain[q + 1] - 2) * csize \in Int
      BY <2>1, Sizes
    <2> QED BY <2>2 DEF clst2sect
  <1>4. k + j = csize * q + (u + j) /\ u + j \in 0 .. (csize - 1)
    <2>1. csize * q \in Nat
      BY <1>1, Sizes
    <2> QED BY <1>1, <2>1, Sizes
  <1> DEFINE v == u + j
  <1> HIDE DEF q, u, v
  <1>5. (csize * q + v) \div csize = q /\ (csize * q + v) % csize = v
    BY <1>1, <1>4, Sizes, Quotient DEF q, v
  <1>6. SectorNo(chain, k + j) = x + v
    BY <1>4, <1>5 DEF SectorNo, v
  <1>7. SectorNo(chain, k) = x + u
    BY DEF SectorNo, q, u
  <1> HIDE DEF x
  <1>8. u \in Int
    BY <1>1, Sizes DEF u
  <1> QED BY <1>3, <1>6, <1>7, <1>8 DEF v

\* No sector is there twice.
Distinct(chain) == \A a, b \in 1 .. Len(chain) : chain[a] = chain[b] => a = b

LEMMA SectorsApart ==
  ASSUME NEW chain \in Seq(Clusters), Distinct(chain),
         NEW k \in Nat, NEW l \in Nat,
         k < csize * Len(chain), l < csize * Len(chain),
         SectorNo(chain, k) = SectorNo(chain, l)
  PROVE  k = l
  <1> DEFINE q(m) == m \div csize
             u(m) == m % csize
             a(m) == chain[q(m) + 1] - 2
  <1>1. ASSUME NEW m \in Nat, m < csize * Len(chain)
        PROVE  /\ q(m) \in Nat /\ u(m) \in 0 .. (csize - 1) /\ m = csize * q(m) + u(m)
               /\ q(m) + 1 \in 1 .. Len(chain)
               /\ a(m) \in Nat
               /\ SectorNo(chain, m) = 1 + (csize * a(m) + u(m))
    <2>1. q(m) \in Nat /\ u(m) \in 0 .. (csize - 1) /\ m = csize * q(m) + u(m)
      BY <1>1, Sizes, Division
    <2>2. q(m) + 1 \in 1 .. Len(chain)
      <3>1. Len(chain) \in Nat
        OBVIOUS
      <3> HIDE DEF q, u
      <3> SUFFICES ASSUME Len(chain) <= q(m) PROVE FALSE
        BY <2>1, <3>1
      <3>2. csize * Len(chain) <= csize * q(m)
        BY <2>1, <3>1, Sizes, Monotonic
      <3>3. csize * Len(chain) \in Nat /\ csize * q(m) \in Nat
        BY <2>1, <3>1, Sizes
      <3> QED BY <1>1, <2>1, <3>2, <3>3
    <2>3. a(m) \in Nat
      <3> DEFINE c == chain[q(m) + 1]
      <3>1. c \in Clusters
        BY <2>2
      <3> HIDE DEF c
      <3>2. c - 2 \in Nat
        BY <3>1, DataAssumption
      <3> QED BY <3>2 DEF c
    <2>4. SectorNo(chain, m) = 1 + a(m) * csize + u(m)
      BY DEF SectorNo, clst2sect
    <2> HIDE DEF a, u, q
    <2>5. a(m) * csize = csize * a(m) /\ csize * a(m) \in Nat
      BY <2>3, Sizes
    <2> QED BY <2>1, <2>2, <2>3, <2>4, <2>5, Sizes
  <1> HIDE DEF q, u, a
  <1>2. csize * a(k) + u(k) = csize * a(l) + u(l)
    <2>1. /\ SectorNo(chain, k) = 1 + (csize * a(k) + u(k))
          /\ a(k) \in Nat /\ u(k) \in 0 .. (csize - 1)
      BY <1>1
    <2>2. /\ SectorNo(chain, l) = 1 + (csize * a(l) + u(l))
          /\ a(l) \in Nat /\ u(l) \in 0 .. (csize - 1)
      BY <1>1
    <2> DEFINE x == csize * a(k) + u(k)
               y == csize * a(l) + u(l)
    <2>3. x \in Nat /\ y \in Nat
      <3>1. ASSUME NEW m \in Nat, a(m) \in Nat, u(m) \in 0 .. (csize - 1)
            PROVE  csize * a(m) + u(m) \in Nat
        BY <3>1, Sizes
      <3> QED BY <2>1, <2>2, <3>1
    <2>4. 1 + x = 1 + y
      BY <2>1, <2>2
    <2> HIDE DEF x, y
    <2>5. x = y
      BY <2>3, <2>4
    <2> QED BY <2>5 DEF x, y
  <1>3. a(k) = a(l) /\ u(k) = u(l)
    <2>1. /\ (csize * a(k) + u(k)) \div csize = a(k)
          /\ (csize * a(k) + u(k)) % csize = u(k)
      <3>1. a(k) \in Nat /\ u(k) \in 0 .. (csize - 1)
        BY <1>1
      <3> QED BY <3>1, Sizes, Quotient
    <2>2. /\ (csize * a(l) + u(l)) \div csize = a(l)
          /\ (csize * a(l) + u(l)) % csize = u(l)
      <3>1. a(l) \in Nat /\ u(l) \in 0 .. (csize - 1)
        BY <1>1
      <3> QED BY <3>1, Sizes, Quotient
    <2> QED BY <1>2, <2>1, <2>2
  <1>4. q(k) = q(l)
    <2>1. q(k) + 1 \in 1 .. Len(chain) /\ q(l) + 1 \in 1 .. Len(chain)
          /\ q(k) \in Nat /\ q(l) \in Nat
      BY <1>1
    <2>2. chain[q(k) + 1] = chain[q(l) + 1]
      <3>1. chain[q(k) + 1] \in Nat /\ chain[q(l) + 1] \in Nat
        BY <2>1, Linked
      <3> QED BY <1>3, <3>1 DEF a
    <2>3. q(k) + 1 = q(l) + 1
      BY <2>1, <2>2 DEF Distinct
    <2> QED BY <2>1, <2>3
  <1> QED BY <1>1, <1>3, <1>4

\* The bytes of a piece that ends in the sector it begins in ...
LEMMA InSector ==
  ASSUME NEW n \in Nat, NEW p \in Nat, p <= SS - (n % SS), NEW i \in n .. (n + p - 1)
  PROVE  i \in Nat /\ i \div SS = n \div SS /\ i % SS = (n % SS) + (i - n)
  <1> DEFINE k == n \div SS
             v == n % SS
  <1>1. k \in Nat /\ v \in 0 .. (SS - 1) /\ n = SS * k + v
    BY Sizes, Division
  <1>2. p <= SS - v
    OBVIOUS
  <1> HIDE DEF k, v
  <1> DEFINE r == v + (i - n)
  <1>3. r \in 0 .. (SS - 1) /\ i = SS * k + r /\ i \in Nat
    <2>1. SS * k \in Nat
      BY <1>1, Sizes
    <2> QED BY <1>1, <1>2, <2>1, Sizes
  <1> HIDE DEF r
  <1>4. (SS * k + r) \div SS = k /\ (SS * k + r) % SS = r
    BY <1>1, <1>3, Sizes, Quotient
  <1> QED BY <1>3, <1>4 DEF k, v, r

\* ... and all that the sector has.
LEMMA OfSector ==
  ASSUME NEW n \in Nat, NEW i \in Nat, i \div SS = n \div SS
  PROVE  i - n = (i % SS) - (n % SS)
  <1>1. n = SS * (n \div SS) + (n % SS) /\ n % SS \in 0 .. (SS - 1)
    BY Sizes, Division
  <1>2. i = SS * (i \div SS) + (i % SS) /\ i % SS \in 0 .. (SS - 1)
    BY Sizes, Division
  <1> DEFINE k == SS * (n \div SS)
             v == n % SS
             r == i % SS
  <1>3. k \in Nat
    <2>1. n \div SS \in Nat
      BY Sizes, Division
    <2> QED BY <2>1, Sizes
  <1>4. n = k + v /\ i = k + r /\ v \in Int /\ r \in Int
    BY <1>1, <1>2, Sizes
  <1> HIDE DEF k, v, r
  <1>5. i - n = r - v
    BY <1>3, <1>4
  <1> QED BY <1>5 DEF r, v

\* The bytes of whole sectors.
LEMMA InSectors ==
  ASSUME NEW n \in Nat, n % SS = 0, NEW w \in Nat, NEW i \in n .. (n + w * SS - 1)
  PROVE  \E j \in 0 .. (w - 1), r \in 0 .. (SS - 1) :
           /\ i - n = SS * j + r
           /\ i \div SS = (n \div SS) + j /\ i % SS = r
           /\ (i - n) \div SS = j /\ (i - n) % SS = r
  <1> DEFINE k == n \div SS
             d == i - n
             j == d \div SS
             r == d % SS
  <1>1. w * SS \in Nat /\ d \in 0 .. (w * SS - 1)
    <2>1. w * SS \in Nat
      BY Sizes
    <2> QED BY <2>1
  <1>2. k \in Nat /\ n = SS * k
    <2>1. k \in Nat /\ n = SS * k + (n % SS)
      BY Sizes, Division
    <2>2. SS * k \in Nat
      BY <2>1, Sizes
    <2> HIDE DEF k
    <2> QED BY <2>1, <2>2
  <1>3. d \in Nat
    BY <1>1
  <1> HIDE DEF d
  <1>4. j \in Nat /\ r \in 0 .. (SS - 1) /\ d = SS * j + r
    BY <1>3, Sizes, Division
  <1> HIDE DEF j, r, k
  <1>5. j <= w - 1
    <2> SUFFICES ASSUME w <= j PROVE FALSE
      BY <1>4
    <2>1. SS * w <= SS * j
      BY <1>4, Sizes, Monotonic
    <2>2. SS * w = w * SS /\ SS * j \in Nat
      BY <1>4, Sizes
    <2> QED BY <1>1, <1>4, <2>1, <2>2, Sizes
  <1>6. i = SS * (k + j) + r
    <2>1. i = n + d
      BY <1>2 DEF d
    <2>2. SS * (k + j) = SS * k + SS * j /\ SS * k \in Nat /\ SS * j \in Nat
      BY <1>2, <1>4, Sizes
    <2> QED BY <1>2, <1>4, <2>1, <2>2, Sizes
  <1> DEFINE m == k + j
  <1>7. m \in Nat
    BY <1>2, <1>4
  <1> HIDE DEF m
  <1>8. (SS * m + r) \div SS = m /\ (SS * m + r) % SS = r
    BY <1>4, <1>7, Sizes, Quotient
  <1>9. i \div SS = m /\ i % SS = r
    BY <1>6, <1>8 DEF m
  <1> QED BY <1>4, <1>5, <1>9 DEF m, k, d, j, r

\* Only those bytes have a number among them.
LEMMA OfSectors ==
  ASSUME NEW n \in Nat, n % SS = 0, NEW w \in Nat, NEW i \in Nat,
         NEW j \in 0 .. (w - 1), i \div SS = (n \div SS) + j
  PROVE  i \in n .. (n + w * SS - 1)
  <1> DEFINE k == n \div SS
             r == i % SS
  <1>1. k \in Nat /\ n = SS * k
    <2>1. k \in Nat /\ n = SS * k + (n % SS)
      BY Sizes, Division
    <2>2. SS * k \in Nat
      BY <2>1, Sizes
    <2> HIDE DEF k
    <2> QED BY <2>1, <2>2
  <1>2. r \in 0 .. (SS - 1) /\ i = SS * (k + j) + r
    BY Sizes, Division
  <1> HIDE DEF k, r
  <1>3. SS * (k + j) = SS * k + SS * j /\ SS * k \in Nat /\ SS * j \in Nat
    BY <1>1, Sizes
  <1>4. SS * j + SS <= w * SS /\ w * SS \in Nat
    <2>1. SS * (j + 1) <= SS * w
      BY Sizes, Monotonic
    <2>2. SS * (j + 1) = SS * j + SS /\ SS * w = w * SS
      BY Sizes
    <2> QED BY <1>3, <2>1, <2>2, Sizes
  <1> QED BY <1>1, <1>2, <1>3, <1>4, Sizes

\* The byte at an offset, of a chain, the card, the buffer, and what that is of.
ByteAt(chain, c, b, s, d, i) ==
  (IF d /\ s = SectorAt(chain, i) THEN b ELSE c[SectorAt(chain, i)])[(i % SS) + 1]

\* Within a sector the buffer is of the sector of the position; and whenever it
\* is of a sector of the file, it has what was written there.
Contents ==
  /\ Distinct(links)
  /\ fptr % SS # 0 => sect = SectorAt(links, fptr)
  /\ offsets \subseteq 0 .. (objsize - 1)
  /\ \A i \in offsets : SectorAt(links, i) = sect =>
       buf[(i % SS) + 1] = ByteAt(links, card, buf, sect, dirty, i)

After(i) == ByteAt(links', card', buf', sect', dirty', i)
Before(i) == ByteAt(links, card, buf, sect, dirty, i)

\* The next state keeps Contents.
ContentsNext ==
  /\ Distinct(links')
  /\ fptr' % SS # 0 => sect' = SectorAt(links', fptr')
  /\ offsets' \subseteq 0 .. (objsize' - 1)
  /\ \A i \in offsets' : SectorAt(links', i) = sect' => buf'[(i % SS) + 1] = After(i)

\* The operators above, as they stand in the next state.
LEMMA Primed ==
  /\ ContentsNext => Contents'
  /\ \A i : Stored(i) = Before(i)
  /\ \A i : Stored(i)' = After(i)
  <1>1. ContentsNext => Contents'
    BY DEF ContentsNext, Contents, Distinct, After, ByteAt, SectorAt, bcs, clst2sect
  <1>2. \A i : Stored(i) = Before(i)
    BY DEF Stored, Before, ByteAt
  <1>3. \A i : Stored(i)' = After(i)
    BY DEF Stored, After, ByteAt, SectorAt, bcs, clst2sect
  <1> QED BY <1>1, <1>2, <1>3

Piece == fptr .. (fptr + Len(io') - 1)

\* What the steps below show, in the terms of ByteFile: a read ...
LEMMA MapsToRead ==
  ASSUME fptr' = fptr + Len(io'), fptr' <= objsize,
         offsets' = offsets, objsize' = objsize,
         \A i \in offsets : After(i) = Before(i),
         \A i \in Piece \cap offsets : io'[i - fptr + 1] = Before(i)
  PROVE  Bytes!Read
  <1>1. [i \in offsets |-> Stored(i)]' = [i \in offsets |-> Stored(i)]
    BY Primed
  <1>2. \A i \in Piece \cap offsets : io'[i - fptr + 1] = Stored(i)
    BY Primed
  <1> QED BY <1>1, <1>2 DEF Bytes!Read, Bytes!Piece, Piece

\* ... a write ...
LEMMA MapsToWrite ==
  ASSUME fptr' = fptr + Len(io'),
         objsize' = IF fptr' > objsize THEN fptr' ELSE objsize,
         offsets' = offsets \cup Piece,
         \A i \in Piece : After(i) = io'[i - fptr + 1],
         \A i \in offsets \ Piece : After(i) = Before(i)
  PROVE  Bytes!Write
  <1>1. [i \in offsets |-> Stored(i)]'
          = [i \in offsets \cup Piece |-> IF i \in Piece THEN io'[i - fptr + 1] ELSE Stored(i)]
    BY Primed
  <1> QED BY <1>1 DEF Bytes!Write, Bytes!Piece, Piece

\* ... a seek ...
LEMMA MapsToSeek ==
  ASSUME io' = <<>>, fptr' \in Nat,
         objsize' = IF fptr' > objsize THEN fptr' ELSE objsize,
         offsets' = offsets,
         \A i \in offsets : After(i) = Before(i)
  PROVE  Bytes!Seek
  <1>1. [i \in offsets |-> Stored(i)]' = [i \in offsets |-> Stored(i)]
    BY Primed
  <1> QED BY <1>1 DEF Bytes!Seek

\* ... a truncation ...
LEMMA MapsToTruncate ==
  ASSUME io' = <<>>, objsize' = fptr, fptr' = fptr,
         offsets' = offsets \cap (0 .. (fptr - 1)),
         \A i \in offsets' : After(i) = Before(i)
  PROVE  Bytes!Truncate
  <1>1. [i \in offsets |-> Stored(i)]'
          = [i \in offsets \cap (0 .. (fptr - 1)) |-> Stored(i)]
    BY Primed
  <1> QED BY <1>1 DEF Bytes!Truncate

\* ... and nothing at all.
LEMMA MapsToStutter ==
  ASSUME UNCHANGED <<objsize, fptr, io, offsets>>,
         \A i \in offsets : After(i) = Before(i)
  PROVE  UNCHANGED Bytes!user
  <1>1. [i \in offsets |-> Stored(i)]' = [i \in offsets |-> Stored(i)]
    BY Primed
  <1> QED BY <1>1 DEF Bytes!user

\* A byte of the file is in a sector of the file.
LEMMA Somewhere ==
  ASSUME Position, Contents, NEW i \in offsets
  PROVE  /\ i \in Nat /\ i < objsize /\ i < bcs * Len(links)
         /\ SectorAt(links, i) \in Owned /\ SectorAt(links, i) \in Sectors
  <1>1. /\ links \in Seq(Clusters) /\ Len(links) \in Nat
        /\ objsize \in Nat /\ objsize <= bcs * Len(links)
    BY DEF Position
  <1>2. i \in 0 .. (objsize - 1)
    BY DEF Contents
  <1>3. i \in Nat /\ i < objsize /\ i < bcs * Len(links)
    <2>1. bcs * Len(links) \in Nat
      BY <1>1, Sizes
    <2> QED BY <1>1, <1>2, <2>1
  <1>4. SectorAt(links, i) \in OwnedBy(links)
    BY <1>1, <1>3, SectorHere
  <1>5. Owned \subseteq Sectors
    BY <1>1 DEF Owned, Sectors, Range
  <1> QED BY <1>3, <1>4, <1>5 DEF Owned, OwnedBy

\* A chain that is extended leaves every offset where it was.
LEMMA Stays ==
  ASSUME NEW chain \in Seq(Clusters), NEW longer, Extends(longer, chain),
         NEW n \in Nat, n < bcs * Len(chain)
  PROVE  SectorAt(longer, n) = SectorAt(chain, n)
  <1>1. (n \div bcs) + 1 \in 1 .. Len(chain)
    BY SectorOfPosition
  <1> QED BY <1>1 DEF SectorAt, Extends

\* So do the bytes of the file when links is extended.
LEMMA StaysHere ==
  ASSUME Position, Contents, Extends(links', links), NEW i \in offsets
  PROVE  SectorAt(links', i) = SectorAt(links, i)
  <1>1. i \in Nat /\ i < bcs * Len(links) /\ links \in Seq(Clusters)
    BY Somewhere DEF Position
  <1> QED BY <1>1, Stays

\* Once the buffer has been written the card has all.
LEMMA Flushed ==
  ASSUME Inv, Contents, NEW i \in offsets
  PROVE  WrittenBack[SectorAt(links, i)][(i % SS) + 1] = Before(i)
  <1>1. SectorAt(links, i) \in DOMAIN card
    BY Somewhere DEF Inv, Position
  <1> QED BY <1>1 DEF WrittenBack, Before, ByteAt

\* f_sync, and what writes the buffer as f_sync does, changes no byte.
LEMMA FlushedKeeps ==
  ASSUME Inv, Contents, card' = WrittenBack, dirty' = FALSE,
         NEW i \in offsets, SectorAt(links', i) = SectorAt(links, i)
  PROVE  /\ After(i) = Before(i)
         /\ sect' = sect /\ buf' = buf /\ SectorAt(links', i) = sect
              => buf'[(i % SS) + 1] = After(i)
  <1>1. After(i) = Before(i)
    BY Flushed DEF After, ByteAt
  <1>2. SectorAt(links, i) = sect => buf[(i % SS) + 1] = Before(i)
    BY DEF Contents, Before
  <1> QED BY <1>1, <1>2

\* So it is when the buffer gets another sector, or the same.
LEMMA FillKeeps ==
  ASSUME Inv, Contents, NEW s, Fill(s),
         NEW i \in offsets, SectorAt(links', i) = SectorAt(links, i)
  PROVE  /\ After(i) = Before(i)
         /\ SectorAt(links', i) = sect' => buf'[(i % SS) + 1] = After(i)
  <1>1. SectorAt(links, i) = sect => buf[(i % SS) + 1] = Before(i)
    BY DEF Contents, Before
  <1>2. CASE s = sect
    <2>1. UNCHANGED <<card, buf, dirty, sect>>
      BY <1>2 DEF Fill
    <2> QED BY <1>1, <2>1 DEF After, Before, ByteAt
  <1>3. CASE s # sect
    <2>1. card' = WrittenBack /\ buf' = card'[s] /\ dirty' = FALSE /\ sect' = s
      BY <1>3 DEF Fill
    <2>2. After(i) = Before(i)
      BY <2>1, Flushed DEF After, ByteAt
    <2>3. SectorAt(links', i) = sect' => buf'[(i % SS) + 1] = After(i)
      BY <2>1 DEF After, ByteAt
    <2> QED BY <2>2, <2>3
  <1> QED BY <1>2, <1>3

\* What a step has to do: keep Contents, and be one of ByteFile, or a stutter.
Faithful == Contents' /\ [Bytes!Next]_(Bytes!user)

\* Nothing has changed that a byte depends on.
LEMMA Unmoved ==
  ASSUME Inv, Contents, UNCHANGED <<card, links, object, offsets>>
  PROVE  /\ ContentsNext
         /\ \A i \in offsets : After(i) = Before(i)
  BY DEF Contents, ContentsNext, After, Before, ByteAt, object

\* The beginning and the end of f_read and f_write.
LEMMA StartedFaithfully ==
  ASSUME Inv, Contents, NEW what, NEW n, Begin(what, n)
  PROVE  Faithful
  <1>1. /\ UNCHANGED <<card, links, object, offsets>> /\ io' = <<>>
        /\ fptr' = fptr /\ objsize' = objsize /\ fptr \in Nat /\ objsize \in Nat
        /\ fptr <= objsize
    BY DEF Begin, object, Inv, Position
  <1>2. Bytes!Seek
    BY <1>1, Unmoved, MapsToSeek
  <1> QED BY <1>1, <1>2, Unmoved, Primed DEF Faithful, Bytes!Next

LEMMA EndsFaithfully ==
  ASSUME Inv, Contents, ReadDone \/ WriteDone
  PROVE  Faithful
  <1>1. /\ UNCHANGED <<card, links, object, offsets>> /\ io' = <<>>
        /\ fptr' = fptr /\ objsize' = objsize /\ fptr \in Nat /\ objsize \in Nat
        /\ fptr <= objsize
    BY DEF ReadDone, WriteDone, Return, object, Inv, Position
  <1>2. Bytes!Seek
    BY <1>1, Unmoved, MapsToSeek
  <1> QED BY <1>1, <1>2, Unmoved, Primed DEF Faithful, Bytes!Next

\* f_sync, and what other files do.
LEMMA SyncsFaithfully ==
  ASSUME Inv, Contents, Sync
  PROVE  Faithful
  <1>1. /\ card' = WrittenBack /\ dirty' = FALSE /\ io' = <<>>
        /\ UNCHANGED <<links, objsize, fptr, buf, sect, offsets>>
        /\ fptr \in Nat /\ objsize \in Nat /\ fptr <= objsize
    BY DEF Sync, Inv, Position
  <1>2. \A i \in offsets : /\ After(i) = Before(i)
                           /\ SectorAt(links', i) = sect' => buf'[(i % SS) + 1] = After(i)
    BY <1>1, FlushedKeeps
  <1>3. ContentsNext
    BY <1>1, <1>2 DEF Contents, ContentsNext
  <1>4. Bytes!Seek
    BY <1>1, <1>2, MapsToSeek
  <1> QED BY <1>3, <1>4, Primed DEF Faithful, Bytes!Next

LEMMA OthersFaithful ==
  ASSUME Inv, Contents, Others
  PROVE  Faithful
  <1>1. UNCHANGED <<links, object, io, offsets>>
    BY DEF Others
  <1>2. PICK t \in Sectors \ Owned : card' = [card EXCEPT ![t] = Blank]
    BY DEF Others
  <1>3. \A i \in offsets : card'[SectorAt(links, i)] = card[SectorAt(links, i)]
    BY <1>2, Somewhere DEF Inv, Position
  <1>4. \A i \in offsets : After(i) = Before(i)
    BY <1>1, <1>3 DEF After, Before, ByteAt, object
  <1>5. ContentsNext
    BY <1>1, <1>4 DEF Contents, ContentsNext, object, Before
  <1>6. UNCHANGED Bytes!user
    BY <1>1, <1>4, MapsToStutter DEF object
  <1>7. Contents'
    BY <1>5, Primed
  <1>8. [Bytes!Next]_(Bytes!user)
    BY <1>6
  <1> QED BY <1>7, <1>8 DEF Faithful

LEMMA IdlesFaithfully ==
  ASSUME Inv, Contents, UNCHANGED data
  PROVE  Faithful
  <1>1. UNCHANGED <<card, links, object, offsets>> /\ UNCHANGED <<objsize, fptr, io, offsets>>
    BY DEF data, object
  <1>2. UNCHANGED Bytes!user
    BY <1>1, Unmoved, MapsToStutter
  <1>3. Contents'
    BY <1>1, Unmoved, Primed
  <1>4. [Bytes!Next]_(Bytes!user)
    BY <1>2
  <1> QED BY <1>3, <1>4 DEF Faithful

\* f_close and f_open.
LEMMA ReopensFaithfully ==
  ASSUME Inv, Contents, NEW end \in BOOLEAN, Reopen(end)
  PROVE  Faithful
  <1>1. /\ card' = WrittenBack /\ dirty' = FALSE /\ io' = <<>>
        /\ UNCHANGED <<links, objsize, offsets>>
        /\ fptr' = IF end THEN objsize ELSE 0
        /\ objsize \in Nat
    BY DEF Reopen, Inv, Position
  <1>2. \A i \in offsets : After(i) = Before(i)
    BY <1>1, FlushedKeeps
  <1>3. ContentsNext
    <2>1. CASE end /\ objsize % SS # 0
      <3>1. sect' = SectorAt(links, objsize) /\ buf' = card'[sect'] /\ fptr' = objsize
        BY <1>1, <2>1 DEF Reopen
      <3>2. \A i \in offsets : SectorAt(links', i) = sect' => buf'[(i % SS) + 1] = After(i)
        BY <1>1, <3>1 DEF After, ByteAt
      <3> QED BY <1>1, <3>1, <3>2 DEF Contents, ContentsNext
    <2>2. CASE ~(end /\ objsize % SS # 0)
      <3>1. sect' = 0
        BY <2>2 DEF Reopen
      <3>2. 0 % SS = 0
        BY Sizes
      <3>3. \A i \in offsets : SectorAt(links', i) # sect'
        <4> SUFFICES ASSUME NEW i \in offsets PROVE SectorAt(links, i) # 0
          BY <1>1, <3>1
        <4>1. SectorAt(links, i) \in Sectors
          BY Somewhere DEF Inv
        <4>2. 0 \notin Sectors
          <5>1. ASSUME NEW c \in Clusters, 0 \in SectorsOf(c) PROVE FALSE
            <6>1. c - 2 \in Nat
              BY DataAssumption
            <6>2. (c - 2) * csize \in Nat
              BY <6>1, Sizes
            <6>3. clst2sect(c) >= 1
              BY <6>2 DEF clst2sect
            <6>4. clst2sect(c) \in Int
              BY <6>2 DEF clst2sect
            <6> QED BY <5>1, <6>3, <6>4, Sizes DEF SectorsOf
          <5> QED BY <5>1 DEF Sectors
        <4> QED BY <4>1, <4>2
      <3>4. fptr' % SS = 0
        BY <1>1, <2>2, <3>2
      <3> QED BY <1>1, <3>3, <3>4 DEF Contents, ContentsNext
    <2> QED BY <2>1, <2>2
  <1>4. Bytes!Seek
    BY <1>1, <1>2, MapsToSeek
  <1> QED BY <1>3, <1>4, Primed DEF Faithful, Bytes!Next

\* f_truncate: the bytes that are left are where they were.
LEMMA TruncatesFaithfully ==
  ASSUME Inv, Contents, Truncate
  PROVE  Faithful
  <1> DEFINE m == (fptr + bcs - 1) \div bcs
  <1>1. /\ links \in Seq(Clusters) /\ Len(links) \in Nat
        /\ fptr \in Nat /\ objsize \in Nat
        /\ fptr <= objsize /\ objsize <= bcs * Len(links) /\ op = "none"
    BY DEF Inv, Position, Truncate
  <1>2. fptr <= bcs * Len(links)
    <2>1. bcs * Len(links) \in Nat
      BY <1>1, Sizes
    <2> QED BY <1>1, <2>1
  <1>3. m \in 0 .. Len(links) /\ fptr <= bcs * m /\ bcs * m \in Nat
    <2>1. m \in 0 .. Len(links) /\ fptr <= bcs * m
      BY <1>1, <1>2, Needs
    <2> HIDE DEF m
    <2> QED BY <2>1, Sizes
  <1>4. links' = SubSeq(links, 1, m)
    BY DEF Truncate
  <1> HIDE DEF m
  <1>5. /\ Len(links') = m
        /\ \A k \in 1 .. m : links'[k] = links[k]
    BY <1>1, <1>3, <1>4
  <1>6. ASSUME NEW n \in Nat, n < bcs * m
        PROVE  SectorAt(links', n) = SectorAt(links, n)
    <2>1. (n \div bcs) + 1 \in 1 .. m
      BY <1>3, <1>6, ClusterEnd
    <2> QED BY <1>5, <2>1 DEF SectorAt
  <1>7. /\ objsize' = fptr /\ card' = WrittenBack /\ dirty' = FALSE /\ io' = <<>>
        /\ UNCHANGED <<fptr, sect, buf>>
        /\ offsets' = offsets \cap (0 .. (fptr - 1))
    BY DEF Truncate
  <1>8. ASSUME NEW i \in offsets'
        PROVE  /\ After(i) = Before(i)
               /\ SectorAt(links', i) = sect' => buf'[(i % SS) + 1] = After(i)
    <2>1. i \in offsets /\ i \in Nat /\ i < bcs * m
      BY <1>1, <1>3, <1>7
    <2> QED BY <1>6, <1>7, <2>1, FlushedKeeps
  <1>9. fptr' % SS # 0 => sect' = SectorAt(links', fptr')
    <2> SUFFICES ASSUME fptr % SS # 0 PROVE sect = SectorAt(links', fptr)
      BY <1>7
    <2>1. fptr < bcs * m
      <3>1. (bcs * m) % SS = 0
        BY <1>3, ChainEnd
      <3> QED BY <1>1, <1>3, <3>1
    <2> QED BY <1>1, <1>6, <2>1 DEF Contents
  <1>10. Distinct(links')
    BY <1>1, <1>3, <1>5 DEF Contents, Distinct
  <1>11. offsets' \subseteq 0 .. (objsize' - 1)
    BY <1>7
  <1>12. ContentsNext
    BY <1>8, <1>9, <1>10, <1>11 DEF ContentsNext
  <1>13. Bytes!Truncate
    BY <1>7, <1>8, MapsToTruncate
  <1> QED BY <1>12, <1>13, Primed DEF Faithful, Bytes!Next

\* create_chain takes clusters that the file does not have, each once.
LEMMA DistinctReached ==
  ASSUME Position, Contents, NEW target \in Nat, links' \in Reaching(target)
  PROVE  Distinct(links')
  <1>0. links \in Seq(Clusters) /\ Len(links) \in Nat
    BY DEF Position
  <1>1. CASE links' = links
    BY <1>1 DEF Contents
  <1>2. CASE links' # links
    <2> DEFINE long == (target + bcs - 1) \div bcs
               free == Clusters \ Range(links)
               more(n) == {s \in [1 .. n -> free] : IsInjective(s)}
    <2>1. links' \in UNION {{links \o s : s \in more(n)} : n \in 0 .. (long - Len(links))}
      BY <1>2 DEF Reaching
    <2>2. PICK n \in 0 .. (long - Len(links)) : links' \in {links \o s : s \in more(n)}
      BY <2>1
    <2>3. PICK s \in more(n) : links' = links \o s
      BY <2>2
    <2>4. n \in Nat /\ s \in [1 .. n -> free] /\ IsInjective(s)
      BY <2>2, <2>3
    <2>5. s \in [1 .. n -> Clusters]
      BY <2>4
    <2>6. s \in Seq(Clusters) /\ Len(s) = n
      <3>1. s \in Seq(Clusters)
        BY <2>4, <2>5, SeqDef
      <3> HIDE DEF more, free
      <3> QED BY <2>4, <2>5, <3>1, LenProperties
    <2>7. /\ Len(links') = Len(links) + n
          /\ \A k \in 1 .. Len(links) : links'[k] = links[k]
          /\ \A k \in (Len(links) + 1) .. (Len(links) + n) : links'[k] = s[k - Len(links)]
      BY <1>0, <2>3, <2>4, <2>6, ConcatProperties
    <2>8. \A k \in 1 .. Len(links) : links[k] \notin free
      BY <1>0 DEF Range
    <2>9. \A k \in 1 .. n : s[k] \in free
      BY <2>4
    <2>10. \A a, b \in 1 .. n : s[a] = s[b] => a = b
      BY <2>4 DEF IsInjective
    <2> HIDE DEF free, more, long
    <2>11. ASSUME NEW a \in 1 .. (Len(links) + n), NEW b \in 1 .. (Len(links) + n),
                  links'[a] = links'[b]
           PROVE  a = b
      <3>1. CASE a <= Len(links) /\ b <= Len(links)
        BY <1>0, <2>4, <2>7, <2>11, <3>1 DEF Contents, Distinct
      <3>2. CASE a <= Len(links) /\ b > Len(links)
        <4>1. links'[a] = links[a] /\ links'[b] = s[b - Len(links)] /\ b - Len(links) \in 1 .. n
              /\ a \in 1 .. Len(links)
          BY <1>0, <2>4, <2>7, <3>2
        <4> QED BY <2>8, <2>9, <2>11, <4>1
      <3>3. CASE a > Len(links) /\ b <= Len(links)
        <4>1. links'[b] = links[b] /\ links'[a] = s[a - Len(links)] /\ a - Len(links) \in 1 .. n
              /\ b \in 1 .. Len(links)
          BY <1>0, <2>4, <2>7, <3>3
        <4> QED BY <2>8, <2>9, <2>11, <4>1
      <3>4. CASE a > Len(links) /\ b > Len(links)
        <4>1. /\ links'[a] = s[a - Len(links)] /\ a - Len(links) \in 1 .. n
              /\ links'[b] = s[b - Len(links)] /\ b - Len(links) \in 1 .. n
          BY <1>0, <2>4, <2>7, <3>4
        <4>2. a - Len(links) = b - Len(links)
          BY <2>10, <2>11, <4>1
        <4> QED BY <1>0, <4>2
      <3> QED BY <1>0, <2>4, <3>1, <3>2, <3>3, <3>4
    <2> QED BY <2>7, <2>11 DEF Distinct
  <1> QED BY <1>1, <1>2

\* Nor does a write stretch the chain by one of its own clusters.
LEMMA DistinctChained ==
  ASSUME Position, Contents, links' \in Chains
  PROVE  Distinct(links')
  <1>0. links \in Seq(Clusters) /\ Len(links) \in Nat
    BY DEF Position
  <1>1. CASE links' = links
    BY <1>1 DEF Contents
  <1>2. CASE links' # links
    <2>1. PICK c \in Clusters \ Range(links) : links' = Append(links, c)
      BY <1>2 DEF Chains, Stretched
    <2>2. /\ Len(links') = Len(links) + 1
          /\ \A k \in 1 .. Len(links) : links'[k] = links[k]
          /\ links'[Len(links) + 1] = c
      BY <1>0, <2>1
    <2>3. \A k \in 1 .. Len(links) : links[k] # c
      BY <1>0, <2>1 DEF Range
    <2> QED BY <1>0, <2>2, <2>3 DEF Contents, Distinct
  <1> QED BY <1>1, <1>2

\* A longer range has a shorter one.
LEMMA Wider ==
  ASSUME NEW a \in Nat, NEW b \in Nat, a <= b
  PROVE  0 .. (a - 1) \subseteq 0 .. (b - 1)
  OBVIOUS

\* f_lseek: only the buffer changes.
LEMMA SeeksFaithfully ==
  ASSUME Inv, Contents, NEW target \in Offsets, Seek(target)
  PROVE  Faithful
  <1>1. /\ target \in Nat /\ objsize \in Nat /\ Inv'
    BY DataAssumption, Seeks DEF Inv, Position
  <1>2. Extends(links', links) /\ Distinct(links')
    BY <1>1, Reached, DistinctReached DEF Inv, Seek
  <1>3. /\ objsize' = IF fptr' > objsize THEN fptr' ELSE objsize
        /\ io' = <<>> /\ offsets' = offsets
    BY DEF Seek
  <1>4. fptr' \in Nat
    BY <1>1 DEF Inv, Position
  <1>5. \A i \in offsets : SectorAt(links', i) = SectorAt(links, i)
    BY <1>2, StaysHere DEF Inv
  <1>6. /\ fptr' % SS # 0 => sect' = SectorAt(links', fptr')
        /\ \A i \in offsets : /\ After(i) = Before(i)
                              /\ SectorAt(links', i) = sect' => buf'[(i % SS) + 1] = After(i)
    <2>1. CASE fptr' % SS # 0
      <3>1. Fill(SectorAt(links', fptr'))
        BY <2>1 DEF Seek
      <3> DEFINE s == SectorAt(links', fptr')
      <3> HIDE DEF s
      <3>2. Fill(s)
        BY <3>1 DEF s
      <3>3. sect' = s
        BY <3>2 DEF Fill
      <3> QED BY <1>5, <3>2, <3>3, FillKeeps DEF s
    <2>2. CASE fptr' % SS = 0
      <3>1. UNCHANGED <<card, buf, sect, dirty>>
        BY <2>2 DEF Seek
      <3> QED BY <1>5, <2>2, <3>1 DEF Contents, After, Before, ByteAt
    <2> QED BY <2>1, <2>2
  <1>7. offsets' \subseteq 0 .. (objsize' - 1)
    <2>1. objsize \in Nat /\ objsize' \in Nat /\ objsize <= objsize'
      BY <1>1, <1>3, <1>4
    <2>2. offsets \subseteq 0 .. (objsize - 1)
      BY DEF Contents
    <2>3. 0 .. (objsize - 1) \subseteq 0 .. (objsize' - 1)
      BY <2>1, Wider
    <2> QED BY <1>3, <2>2, <2>3
  <1>8. ContentsNext
    BY <1>2, <1>3, <1>6, <1>7 DEF ContentsNext
  <1>9. Bytes!Seek
    BY <1>3, <1>4, <1>6, MapsToSeek
  <1> QED BY <1>8, <1>9, Primed DEF Faithful, Bytes!Next

\* A piece that a function describes has its length.
LEMMA PieceLength ==
  ASSUME NEW n \in Nat, NEW s, s = [k \in 1 .. n |-> s[k]]
  PROVE  Len(s) = n
  <1> DEFINE S == {s[k] : k \in 1 .. n}
  <1>1. s \in [1 .. n -> S]
    OBVIOUS
  <1> HIDE DEF S
  <1>2. s \in Seq(S)
    BY <1>1, SeqDef
  <1> QED BY <1>1, <1>2, LenProperties

\* What f_write is given has the length it was asked for.
LEMMA PayloadIs ==
  ASSUME NEW n \in Nat, NEW s \in Payload(n)
  PROVE  Len(s) = n
  <1>1. s = [k \in 1 .. n |-> s[k]]
    BY DEF Payload
  <1> QED BY <1>1, PieceLength

\* f_read of whole sectors: each from the card, or from a buffer that is newer.
LEMMA ReadsDirectlyFaithfully ==
  ASSUME Inv, Contents, ReadDirect
  PROVE  Faithful
  <1> DEFINE first == SectorAt(links, fptr)
             from(s) == IF dirty /\ s = sect THEN buf ELSE card[s]
  <1>1. /\ links \in Seq(Clusters) /\ Len(links) \in Nat
        /\ fptr \in Nat /\ objsize \in Nat /\ rest \in Nat
        /\ fptr + rest <= objsize /\ objsize <= bcs * Len(links)
        /\ rest > 0 /\ fptr % SS = 0 /\ Whole > 0
    BY DEF Inv, Position, ReadDirect, Direct, AtSector
  <1>2. fptr < bcs * Len(links)
    <2>1. bcs * Len(links) \in Nat
      BY <1>1, Sizes
    <2> QED BY <1>1, <2>1
  <1>3. Whole \in Nat /\ Whole <= csize - ((fptr \div SS) % csize) /\ Whole * SS <= rest
        /\ Whole * SS \in Nat
    <2>1. Whole \in Nat /\ Whole <= csize - ((fptr \div SS) % csize) /\ Whole * SS <= rest
      BY <1>1, Pieces DEF Inv
    <2> QED BY <2>1, Sizes
  <1>4. /\ io' = [k \in 1 .. Whole * SS |-> from(first + (k - 1) \div SS)[((k - 1) % SS) + 1]]
        /\ fptr' = fptr + Whole * SS
        /\ UNCHANGED <<card, links, objsize, buf, sect, dirty, offsets>>
    BY DEF ReadDirect, Advance
  <1>5. Len(io') = Whole * SS
    <2>1. io' = [k \in 1 .. Whole * SS |-> io'[k]]
      BY <1>4
    <2> QED BY <1>3, <2>1, PieceLength
  <1>6. fptr' % SS = 0 /\ fptr' <= objsize
    <2>1. (fptr + Whole * SS) % SS = 0
      BY <1>1, <1>2, <1>3, AfterWhole
    <2> QED BY <1>1, <1>3, <1>4, <2>1
  <1>7. \A i \in offsets : After(i) = Before(i)
    BY <1>4 DEF After, Before
  <1>8. ASSUME NEW i \in Piece \cap offsets
        PROVE  io'[i - fptr + 1] = Before(i)
    <2>1. i \in fptr .. (fptr + Whole * SS - 1)
      BY <1>5 DEF Piece
    <2>2. PICK j \in 0 .. (Whole - 1), r \in 0 .. (SS - 1) :
            /\ i \div SS = (fptr \div SS) + j /\ i % SS = r
            /\ (i - fptr) \div SS = j /\ (i - fptr) % SS = r
      BY <1>1, <1>3, <2>1, InSectors
    <2>3. SectorAt(links, i) = first + j
      <3>1. i \in Nat
        BY <1>1, <2>1
      <3>2. fptr \div SS \in Nat /\ fptr \div SS < csize * Len(links)
        BY <1>1, <1>2, NumberInChain
      <3>3. j \in Nat /\ j < csize - ((fptr \div SS) % csize)
        <4>1. (fptr \div SS) % csize \in 0 .. (csize - 1)
          BY <3>2, Sizes, Division
        <4> QED BY <1>3, <4>1, Sizes
      <3>4. SectorNo(links, (fptr \div SS) + j) = SectorNo(links, fptr \div SS) + j
        BY <1>1, <3>2, <3>3, Following
      <3> QED BY <1>1, <2>2, <3>1, <3>4, ByNumber
    <2>4. i - fptr + 1 \in 1 .. Whole * SS /\ (i - fptr + 1) - 1 = i - fptr
      BY <1>1, <1>3, <2>1
    <2>5. io'[i - fptr + 1] = from(first + ((i - fptr) \div SS))[((i - fptr) % SS) + 1]
      <3> DEFINE k == i - fptr + 1
      <3>1. io'[k] = from(first + (k - 1) \div SS)[((k - 1) % SS) + 1]
        <4> HIDE DEF k, from, first
        <4>1. k \in 1 .. Whole * SS
          BY <2>4 DEF k
        <4> QED BY <1>4, <4>1
      <3>2. k - 1 = i - fptr
        BY <2>4
      <3> HIDE DEF k, from, first
      <3>3. io'[k] = from(first + ((i - fptr) \div SS))[((i - fptr) % SS) + 1]
        BY <3>1, <3>2
      <3> QED BY <3>3 DEF k
    <2> HIDE DEF first
    <2>6. io'[i - fptr + 1] = from(SectorAt(links, i))[(i % SS) + 1]
      BY <2>2, <2>3, <2>5
    <2> QED BY <2>6 DEF Before, ByteAt
  <1>9. ContentsNext
    BY <1>4, <1>6, <1>7 DEF Contents, ContentsNext, Before
  <1>10. Bytes!Read
    BY <1>4, <1>5, <1>6, <1>7, <1>8, MapsToRead
  <1> QED BY <1>9, <1>10, Primed DEF Faithful, Bytes!Next

\* The bytes of a part are in the sector of the position.
LEMMA OneSector ==
  ASSUME NEW chain \in Seq(Clusters), NEW n \in Nat, NEW i \in Nat, i \div SS = n \div SS
  PROVE  SectorAt(chain, i) = SectorAt(chain, n)
  BY ByNumber

\* After a part that does not reach the end of the sector.
LEMMA StillThere ==
  ASSUME NEW chain \in Seq(Clusters), NEW n \in Nat, NEW p \in Nat,
         p <= SS - (n % SS), (n + p) % SS # 0
  PROVE  SectorAt(chain, n + p) = SectorAt(chain, n)
  <1>1. n % SS \in 0 .. (SS - 1)
    BY Sizes, Division
  <1>2. p # SS - (n % SS)
    <2> SUFFICES ASSUME p = SS - (n % SS) PROVE FALSE
      OBVIOUS
    <2> DEFINE k == n \div SS
               v == n % SS
    <2>1. k \in Nat /\ v \in 0 .. (SS - 1) /\ n = SS * k + v
      BY Sizes, Division
    <2> HIDE DEF k, v
    <2>2. n + p = SS * (k + 1) + 0
      <3>1. SS * (k + 1) = SS * k + SS /\ SS * k \in Nat
        BY <2>1, Sizes
      <3> QED BY <2>1, <3>1, Sizes DEF v
    <2> DEFINE m == k + 1
    <2>3. m \in Nat
      BY <2>1
    <2> HIDE DEF m
    <2>4. (SS * m + 0) % SS = 0
      BY <2>3, Sizes, Quotient
    <2> QED BY <2>2, <2>4 DEF m
  <1>3. p + 1 <= SS - (n % SS) /\ n + p \in n .. (n + (p + 1) - 1) /\ p + 1 \in Nat
    BY <1>1, <1>2, Sizes
  <1>4. (n + p) \div SS = n \div SS /\ n + p \in Nat
    BY <1>3, InSector
  <1> QED BY <1>4, OneSector

\* f_read through the buffer.
LEMMA ReadsPartFaithfully ==
  ASSUME Inv, Contents, ReadPart
  PROVE  Faithful
  <1> DEFINE s == IF AtSector THEN SectorAt(links, fptr) ELSE sect
             base == fptr % SS
  <1>1. /\ links \in Seq(Clusters) /\ Len(links) \in Nat
        /\ fptr \in Nat /\ objsize \in Nat /\ rest \in Nat
        /\ fptr + rest <= objsize /\ objsize <= bcs * Len(links)
        /\ base \in 0 .. (SS - 1)
    <2>1. /\ links \in Seq(Clusters) /\ Len(links) \in Nat
          /\ fptr \in Nat /\ objsize \in Nat /\ rest \in Nat
          /\ fptr + rest <= objsize /\ objsize <= bcs * Len(links)
      BY DEF Inv, Position, ReadPart
    <2>2. base \in 0 .. (SS - 1)
      BY <2>1, Sizes, Division
    <2> QED BY <2>1, <2>2
  <1>2. Part \in Nat /\ Part <= SS - base /\ Part <= rest
    BY Pieces DEF Inv
  <1>3. s = SectorAt(links, fptr)
    BY DEF AtSector, Contents
  <1>4. /\ Fill(s)
        /\ io' = SubSeq(buf', base + 1, base + Part)
        /\ fptr' = fptr + Part
        /\ UNCHANGED <<links, objsize, offsets>>
    BY DEF ReadPart, Advance
  <1> HIDE DEF s, base
  <1>5. sect' = s
    BY <1>4 DEF Fill
  <1>6. \A i \in offsets : /\ After(i) = Before(i)
                           /\ SectorAt(links', i) = sect' => buf'[(i % SS) + 1] = After(i)
    BY <1>4, FillKeeps
  <1>7. Len(io') = Part /\ \A k \in 1 .. Part : io'[k] = buf'[base + k]
    <2> DEFINE m == base + 1
               n == base + Part
               S == {buf'[k] : k \in m .. n}
    <2>1. \A k \in m .. n : buf'[k] \in S
      OBVIOUS
    <2>2. m \in Int /\ n \in Int /\ n - m + 1 = Part /\ (m <= n <=> Part # 0)
      BY <1>1, <1>2
    <2>3. \A k \in 1 .. Part : m + k - 1 = base + k
      BY <1>1, <1>2
    <2>4. io' = SubSeq(buf', m, n)
      BY <1>4
    <2> HIDE DEF m, n, S
    <2>5. /\ Len(io') = IF m <= n THEN n - m + 1 ELSE 0
          /\ \A k \in 1 .. n - m + 1 : io'[k] = buf'[m + k - 1]
      BY <2>1, <2>2, <2>4, SubSeqProperties
    <2> QED BY <2>2, <2>3, <2>5
  <1>8. ASSUME NEW i \in Piece \cap offsets
        PROVE  io'[i - fptr + 1] = Before(i)
    <2>1. i \in fptr .. (fptr + Part - 1)
      BY <1>7 DEF Piece
    <2>2. i \in Nat /\ i \div SS = fptr \div SS /\ i % SS = base + (i - fptr)
      BY <1>1, <1>2, <2>1, InSector DEF base
    <2>3. SectorAt(links', i) = sect'
      BY <1>1, <1>3, <1>4, <1>5, <2>2, OneSector
    <2>4. buf'[(i % SS) + 1] = Before(i)
      BY <1>6, <2>3
    <2>5. i - fptr + 1 \in 1 .. Part /\ base + (i - fptr + 1) = (i % SS) + 1
      BY <1>1, <1>2, <2>1, <2>2
    <2>6. io'[i - fptr + 1] = buf'[base + (i - fptr + 1)]
      BY <1>7, <2>5
    <2> QED BY <2>4, <2>5, <2>6
  <1>9. fptr' % SS # 0 => sect' = SectorAt(links', fptr')
    BY <1>1, <1>2, <1>3, <1>4, <1>5, StillThere DEF base
  <1>10. ContentsNext
    BY <1>4, <1>6, <1>9 DEF Contents, ContentsNext
  <1>11. fptr' <= objsize
    BY <1>1, <1>2, <1>4
  <1>12. Bytes!Read
    BY <1>4, <1>6, <1>7, <1>8, <1>11, MapsToRead
  <1> QED BY <1>10, <1>12, Primed DEF Faithful, Bytes!Next

\* What both kinds of write add to the file.
LEMMA Grows ==
  ASSUME Inv, Contents, Extends(links', links), NEW n \in Nat,
         Advance(n), Grow(n), Len(io') = n
  PROVE  /\ fptr' = fptr + Len(io')
         /\ objsize' = IF fptr' > objsize THEN fptr' ELSE objsize
         /\ offsets' = offsets \cup Piece
         /\ offsets' \subseteq 0 .. (objsize' - 1)
         /\ \A i \in offsets : SectorAt(links', i) = SectorAt(links, i)
  <1>1. /\ fptr' = fptr + n
        /\ objsize' = IF fptr + n > objsize THEN fptr + n ELSE objsize
        /\ offsets' = offsets \cup (fptr .. (fptr + n - 1))
        /\ fptr \in Nat /\ objsize \in Nat
    BY DEF Advance, Grow, Inv, Position
  <1>2. offsets' \subseteq 0 .. (objsize' - 1)
    <2>1. objsize' \in Nat /\ objsize <= objsize' /\ fptr + n <= objsize'
      BY <1>1
    <2>2. 0 .. (objsize - 1) \subseteq 0 .. (objsize' - 1)
      BY <1>1, <2>1, Wider
    <2>3. 0 .. (fptr + n - 1) \subseteq 0 .. (objsize' - 1)
      BY <1>1, <2>1, Wider
    <2>4. fptr .. (fptr + n - 1) \subseteq 0 .. (fptr + n - 1)
      BY <1>1
    <2>5. offsets \subseteq 0 .. (objsize - 1)
      BY DEF Contents
    <2> QED BY <1>1, <2>2, <2>3, <2>4, <2>5
  <1>3. \A i \in offsets : SectorAt(links', i) = SectorAt(links, i)
    BY StaysHere DEF Inv
  <1> QED BY <1>1, <1>2, <1>3 DEF Piece

\* f_write of whole sectors: each byte of the piece to its own place, and no
\* other byte in the sectors written.
LEMMA WritesDirectlyFaithfully ==
  ASSUME Inv, Contents, WriteDirect
  PROVE  Faithful
  <1> DEFINE first == SectorAt(links', fptr)
             direct == first .. (first + Whole - 1)
             k0 == fptr \div SS
  <1>1. /\ links \in Seq(Clusters) /\ fptr \in Nat /\ rest \in Nat
        /\ fptr % SS = 0 /\ Whole > 0
    BY DEF Inv, Position, WriteDirect, Direct, AtSector
  <1>2. /\ Extends(links', links) /\ fptr < bcs * Len(links') /\ Distinct(links')
        /\ links' \in Seq(Clusters) /\ Len(links') \in Nat
    <2>1. Extends(links', links) /\ fptr < bcs * Len(links') /\ Distinct(links')
      BY Chained, DistinctChained DEF Inv, WriteDirect
    <2> QED BY <2>1 DEF Extends
  <1>3. Whole \in Nat /\ Whole <= csize - (k0 % csize) /\ Whole * SS \in Nat
    <2>1. Whole \in Nat /\ Whole <= csize - (k0 % csize)
      BY <1>1, Pieces DEF Inv
    <2> QED BY <2>1, Sizes
  <1>4. /\ io' \in Payload(Whole * SS)
        /\ \A s \in Sectors : card'[s] = IF s \in direct THEN Slice(io', s - first)
                                         ELSE WrittenBack[s]
        /\ buf' = IF sect \in direct THEN Slice(io', sect - first) ELSE buf
        /\ dirty' = FALSE /\ sect' = sect
        /\ Advance(Whole * SS) /\ Grow(Whole * SS)
    BY DEF WriteDirect
  <1> HIDE DEF first, direct, k0
  <1>5. Len(io') = Whole * SS
    BY <1>3, <1>4, PayloadIs
  <1>6. /\ fptr' = fptr + Len(io')
        /\ objsize' = IF fptr' > objsize THEN fptr' ELSE objsize
        /\ offsets' = offsets \cup Piece
        /\ offsets' \subseteq 0 .. (objsize' - 1)
        /\ \A i \in offsets : SectorAt(links', i) = SectorAt(links, i)
    BY <1>2, <1>3, <1>4, <1>5, Grows
  <1>7. fptr' % SS = 0
    BY <1>1, <1>2, <1>3, <1>5, <1>6, AfterWhole DEF k0
  <1>8. k0 \in Nat /\ k0 < csize * Len(links') /\ first = SectorNo(links', k0)
    BY <1>1, <1>2, NumberInChain, ByNumber DEF k0, first
  <1>9. ASSUME NEW j \in 0 .. (Whole - 1)
        PROVE  /\ SectorNo(links', k0 + j) = first + j
               /\ k0 + j \in Nat /\ k0 + j < csize * Len(links')
    <2>1. k0 % csize \in 0 .. (csize - 1) /\ k0 = csize * (k0 \div csize) + (k0 % csize)
          /\ k0 \div csize \in Nat
      BY <1>8, Sizes, Division
    <2>2. j \in Nat /\ j < csize - (k0 % csize)
      BY <1>3, <2>1, Sizes
    <2>3. SectorNo(links', k0 + j) = first + j
      BY <1>2, <1>8, <2>2, Following
    <2>4. k0 + j < csize * Len(links')
      <3> DEFINE q == k0 \div csize
                 u == k0 % csize
      <3>1. q \in Nat /\ u \in 0 .. (csize - 1) /\ k0 = csize * q + u /\ j < csize - u
        BY <2>1, <2>2
      <3> HIDE DEF q, u
      <3>2. csize * q \in Nat /\ csize * (q + 1) = csize * q + csize
        BY <3>1, Sizes
      <3>3. q + 1 <= Len(links')
        <4> SUFFICES ASSUME Len(links') <= q PROVE FALSE
          BY <1>2, <3>1
        <4>1. csize * Len(links') <= csize * q
          BY <1>2, <3>1, Sizes, Monotonic
        <4>2. csize * Len(links') \in Nat
          BY <1>2, Sizes
        <4> QED BY <1>8, <3>1, <3>2, <4>1, <4>2, Sizes
      <3>4. csize * (q + 1) <= csize * Len(links') /\ csize * Len(links') \in Nat
        <4>1. csize * (q + 1) <= csize * Len(links')
          BY <1>2, <3>1, <3>3, Sizes, Monotonic
        <4> QED BY <1>2, <4>1, Sizes
      <3> QED BY <2>2, <3>1, <3>2, <3>4, Sizes
    <2> QED BY <1>8, <2>2, <2>3, <2>4
  <1>10. first \in Int
    BY <1>1, <1>2, SectorHere DEF first, SectorsOf
  <1>11. ASSUME NEW i \in Piece
         PROVE  /\ SectorAt(links', i) \in direct /\ SectorAt(links', i) \in Sectors
                /\ Slice(io', SectorAt(links', i) - first)[(i % SS) + 1] = io'[i - fptr + 1]
    <2>1. i \in fptr .. (fptr + Whole * SS - 1)
      BY <1>5 DEF Piece
    <2>2. i \in Nat
      BY <1>1, <2>1
    <2>3. PICK j \in 0 .. (Whole - 1), r \in 0 .. (SS - 1) :
            /\ i - fptr = SS * j + r
            /\ i \div SS = k0 + j /\ i % SS = r
      BY <1>1, <1>3, <2>1, InSectors DEF k0
    <2>4. SectorAt(links', i) = first + j
      BY <1>9, <2>2, <2>3, ByNumber
    <2>5. SectorAt(links', i) \in direct
      BY <1>3, <1>10, <2>4 DEF direct
    <2>6. SectorAt(links', i) \in Sectors
      <3>1. i < bcs * Len(links')
        <4>1. fptr + Whole * SS <= bcs * Len(links')
          BY <1>1, <1>2, <1>3, AfterWhole DEF k0
        <4>2. bcs * Len(links') \in Nat
          BY <1>2, Sizes
        <4> QED BY <1>1, <1>3, <2>1, <4>1, <4>2
      <3>2. SectorAt(links', i) \in OwnedBy(links')
        BY <1>2, <2>2, <3>1, SectorHere
      <3> QED BY <1>2, <3>2 DEF OwnedBy, Sectors, Range
    <2>7. Slice(io', j)[r + 1] = io'[i - fptr + 1]
      <3> DEFINE m == j * SS + 1
                 n == (j + 1) * SS
                 S == {io'[k] : k \in m .. n}
      <3>1. m \in Int /\ n \in Int /\ n - m + 1 = SS /\ m + (r + 1) - 1 = i - fptr + 1
        <4>1. j * SS = SS * j /\ SS * j \in Nat /\ (j + 1) * SS = SS * j + SS
          BY Sizes
        <4> QED BY <2>3, <4>1, Sizes
      <3>2. \A k \in m .. n : io'[k] \in S
        OBVIOUS
      <3> HIDE DEF m, n, S
      <3>3. \A k \in 1 .. n - m + 1 : SubSeq(io', m, n)[k] = io'[m + k - 1]
        BY <3>1, <3>2, SubSeqProperties
      <3>4. r + 1 \in 1 .. SS
        BY Sizes
      <3>5. SubSeq(io', m, n)[r + 1] = io'[m + (r + 1) - 1]
        BY <3>1, <3>3, <3>4
      <3> QED BY <3>1, <3>5 DEF Slice, m, n
    <2>8. SectorAt(links', i) - first = j
      BY <1>10, <2>4
    <2> QED BY <2>3, <2>5, <2>6, <2>7, <2>8
  <1>12. ASSUME NEW i \in offsets \ Piece
         PROVE  SectorAt(links', i) \notin direct
    <2> SUFFICES ASSUME SectorAt(links', i) \in direct PROVE FALSE
      OBVIOUS
    <2>1. i \in Nat /\ i < bcs * Len(links)
      BY Somewhere DEF Inv
    <2>2. i < bcs * Len(links')
      <3>1. Len(links) \in Nat /\ Len(links) <= Len(links')
        BY <1>1, <1>2 DEF Extends
      <3>2. bcs * Len(links) <= bcs * Len(links') /\ bcs * Len(links) \in Nat
            /\ bcs * Len(links') \in Nat
        <4>1. bcs * Len(links) <= bcs * Len(links')
          BY <1>2, <3>1, Sizes, Monotonic
        <4> QED BY <1>2, <3>1, <4>1, Sizes
      <3> QED BY <2>1, <3>2
    <2> DEFINE j == SectorAt(links', i) - first
    <2>3. j \in 0 .. (Whole - 1) /\ SectorAt(links', i) = first + j
      BY <1>3, <1>10 DEF direct
    <2> HIDE DEF j
    <2>4. SectorNo(links', i \div SS) = SectorNo(links', k0 + j)
      BY <1>9, <2>1, <2>3, ByNumber
    <2>5. i \div SS \in Nat /\ i \div SS < csize * Len(links')
      BY <1>2, <2>1, <2>2, NumberInChain
    <2>6. k0 + j \in Nat /\ k0 + j < csize * Len(links')
      BY <1>9, <2>3
    <2>7. i \div SS = k0 + j
      BY <1>2, <2>4, <2>5, <2>6, SectorsApart
    <2>8. i \in fptr .. (fptr + Whole * SS - 1)
      BY <1>1, <1>3, <2>1, <2>3, <2>7, OfSectors DEF k0
    <2> QED BY <1>5, <2>8 DEF Piece
  <1>13. ASSUME NEW i \in Piece
         PROVE  /\ After(i) = io'[i - fptr + 1]
                /\ SectorAt(links', i) = sect' => buf'[(i % SS) + 1] = After(i)
    <2>1. After(i) = io'[i - fptr + 1]
      BY <1>4, <1>11 DEF After, ByteAt
    <2>2. SectorAt(links', i) = sect' => buf'[(i % SS) + 1] = After(i)
      BY <1>4, <1>11, <2>1
    <2> QED BY <2>1, <2>2
  <1>14. ASSUME NEW i \in offsets \ Piece
         PROVE  /\ After(i) = Before(i)
                /\ SectorAt(links', i) = sect' => buf'[(i % SS) + 1] = After(i)
    <2>1. /\ SectorAt(links', i) = SectorAt(links, i) /\ SectorAt(links, i) \in Sectors
          /\ SectorAt(links', i) \notin direct
      BY <1>6, <1>12, Somewhere DEF Inv
    <2>2. After(i) = Before(i)
      <3>1. card'[SectorAt(links, i)] = WrittenBack[SectorAt(links, i)]
        BY <1>4, <2>1
      <3> QED BY <1>4, <2>1, <3>1, Flushed DEF After, ByteAt
    <2>3. SectorAt(links', i) = sect' => buf'[(i % SS) + 1] = Before(i)
      BY <1>4, <2>1 DEF Contents, Before
    <2> QED BY <2>2, <2>3
  <1>15. ContentsNext
    BY <1>2, <1>6, <1>7, <1>13, <1>14 DEF ContentsNext
  <1>16. Bytes!Write
    BY <1>6, <1>13, <1>14, MapsToWrite
  <1> QED BY <1>15, <1>16, Primed DEF Faithful, Bytes!Next

\* f_write through the buffer: the bytes around the piece are the sector's, unless
\* the file ends before it.
LEMMA WritesPartFaithfully ==
  ASSUME Inv, Contents, WritePart
  PROVE  Faithful
  <1> DEFINE base == fptr % SS
  <1>1. /\ links \in Seq(Clusters) /\ fptr \in Nat /\ objsize \in Nat /\ rest \in Nat
        /\ fptr <= objsize /\ objsize <= bcs * Len(links)
        /\ base \in 0 .. (SS - 1) /\ (AtSector <=> base = 0)
    <2>1. /\ links \in Seq(Clusters) /\ fptr \in Nat /\ objsize \in Nat /\ rest \in Nat
          /\ fptr <= objsize /\ objsize <= bcs * Len(links)
      BY DEF Inv, Position
    <2>2. base \in 0 .. (SS - 1)
      BY <2>1, Sizes, Division
    <2> QED BY <2>1, <2>2 DEF AtSector
  <1>2. Part \in Nat /\ Part <= SS - base
    BY Pieces DEF Inv
  <1> DEFINE before == IF AtSector /\ Needed(sect') THEN card'[sect'] ELSE buf
  <1>3. /\ io' \in Payload(Part)
        /\ \A k \in 1 .. SS : buf'[k] = IF k - base \in 1 .. Part THEN io'[k - base]
                                         ELSE before[k]
        /\ dirty' = TRUE /\ Advance(Part) /\ Grow(Part)
        /\ AtSector => links' \in Chains /\ card' = WrittenBack
                       /\ sect' = SectorAt(links', fptr)
        /\ ~AtSector => UNCHANGED <<links, card, sect>>
    BY DEF WritePart
  <1>4. /\ Extends(links', links) /\ Distinct(links')
        /\ fptr < bcs * Len(links') /\ sect' = SectorAt(links', fptr)
    <2>1. CASE AtSector
      BY <1>3, <2>1, Chained, DistinctChained DEF Inv
    <2>2. CASE ~AtSector
      BY <1>1, <1>3, <2>2 DEF AtSector, Inv, Buffer, Held, Contents, Extends
    <2> QED BY <2>1, <2>2
  <1>5. links' \in Seq(Clusters)
    BY <1>4 DEF Extends
  <1> HIDE DEF base, before
  <1>6. Len(io') = Part
    BY <1>2, <1>3, PayloadIs
  <1>7. /\ fptr' = fptr + Len(io')
        /\ objsize' = IF fptr' > objsize THEN fptr' ELSE objsize
        /\ offsets' = offsets \cup Piece
        /\ offsets' \subseteq 0 .. (objsize' - 1)
        /\ \A i \in offsets : SectorAt(links', i) = SectorAt(links, i)
    BY <1>2, <1>3, <1>4, <1>6, Grows
  <1>8. ASSUME NEW i \in Piece
        PROVE  After(i) = io'[i - fptr + 1]
    <2>1. i \in fptr .. (fptr + Part - 1)
      BY <1>6 DEF Piece
    <2>2. i \in Nat /\ i \div SS = fptr \div SS /\ i % SS = base + (i - fptr)
      BY <1>1, <1>2, <2>1, InSector DEF base
    <2>3. SectorAt(links', i) = sect'
      BY <1>1, <1>4, <1>5, <2>2, OneSector
    <2>4. /\ (i % SS) + 1 \in 1 .. SS
          /\ ((i % SS) + 1) - base = i - fptr + 1 /\ i - fptr + 1 \in 1 .. Part
      BY <1>1, <1>2, <2>1, <2>2, Sizes
    <2>5. buf'[(i % SS) + 1] = io'[i - fptr + 1]
      <3> DEFINE k == (i % SS) + 1
      <3>1. k \in 1 .. SS /\ k - base = i - fptr + 1 /\ k - base \in 1 .. Part
        BY <2>4
      <3> HIDE DEF k
      <3>2. buf'[k] = io'[k - base]
        BY <1>3, <3>1
      <3> QED BY <3>1, <3>2 DEF k
    <2> QED BY <1>3, <2>3, <2>5 DEF After, ByteAt
  <1>9. ASSUME NEW i \in offsets \ Piece
        PROVE  After(i) = Before(i)
    <2>1. /\ i \in Nat /\ i < objsize
          /\ SectorAt(links', i) = SectorAt(links, i)
          /\ i < bcs * Len(links') /\ Len(links') \in Nat
      <3>1. i \in Nat /\ i < objsize /\ i < bcs * Len(links)
        BY Somewhere DEF Inv
      <3>2. Len(links) \in Nat /\ Len(links) <= Len(links') /\ Len(links') \in Nat
        BY <1>1, <1>4, <1>5 DEF Extends
      <3>3. bcs * Len(links) <= bcs * Len(links') /\ bcs * Len(links) \in Nat
            /\ bcs * Len(links') \in Nat
        <4>1. bcs * Len(links) <= bcs * Len(links')
          BY <3>2, Sizes, Monotonic
        <4> QED BY <3>2, <4>1, Sizes
      <3> QED BY <1>7, <3>1, <3>2, <3>3
    <2>2. i % SS \in 0 .. (SS - 1)
      BY <2>1, Sizes, Division
    <2>3. CASE SectorAt(links', i) = sect'
      <3>1. i \div SS = fptr \div SS
        <4>1. SectorNo(links', i \div SS) = SectorNo(links', fptr \div SS)
          BY <1>1, <1>4, <2>1, <2>3, ByNumber
        <4>2. /\ i \div SS \in Nat /\ i \div SS < csize * Len(links')
              /\ fptr \div SS \in Nat /\ fptr \div SS < csize * Len(links')
          BY <1>1, <1>4, <2>1, NumberInChain
        <4> QED BY <1>4, <1>5, <4>1, <4>2, SectorsApart
      <3>2. i - fptr = (i % SS) - base
        BY <1>1, <2>1, <3>1, OfSector DEF base
      <3>3. ((i % SS) + 1) - base \notin 1 .. Part /\ (i % SS) + 1 \in 1 .. SS
        <4>1. i \notin fptr .. (fptr + Part - 1)
          BY <1>6 DEF Piece
        <4> DEFINE r == i % SS
        <4>2. r \in 0 .. (SS - 1) /\ i - fptr = r - base
          BY <2>2, <3>2
        <4> HIDE DEF r
        <4>3. (r + 1) - base \notin 1 .. Part /\ r + 1 \in 1 .. SS
          BY <1>1, <1>2, <2>1, <4>1, <4>2, Sizes
        <4> QED BY <4>3 DEF r
      <3>4. After(i) = before[(i % SS) + 1]
        <4> DEFINE k == (i % SS) + 1
        <4>1. k \in 1 .. SS /\ k - base \notin 1 .. Part
          BY <3>3
        <4>2. After(i) = buf'[k]
          BY <1>3, <2>3 DEF After, ByteAt
        <4> HIDE DEF k
        <4>3. buf'[k] = before[k]
          BY <1>3, <4>1
        <4> QED BY <4>2, <4>3 DEF k
      <3>5. before[(i % SS) + 1] = Before(i)
        <4>1. CASE AtSector /\ Needed(sect')
          <5>1. before = WrittenBack[SectorAt(links, i)]
            BY <1>3, <2>1, <2>3, <4>1 DEF before
          <5> QED BY <5>1, Flushed
        <4>2. CASE AtSector /\ ~Needed(sect')
          <5>1. fptr < objsize
            BY <1>1, <2>1, <2>2, <3>2, <4>2, Sizes
          <5>2. sect' = sect
            BY <4>2, <5>1 DEF Needed
          <5> QED BY <2>1, <2>3, <4>2, <5>2 DEF before, Contents, Before
        <4>3. CASE ~AtSector
          BY <1>3, <2>1, <2>3, <4>3 DEF before, Contents, Before
        <4> QED BY <4>1, <4>2, <4>3
      <3> QED BY <3>4, <3>5
    <2>4. CASE SectorAt(links', i) # sect'
      <3>1. After(i) = card'[SectorAt(links, i)][(i % SS) + 1]
        BY <2>1, <2>4 DEF After, ByteAt
      <3>2. CASE AtSector
        BY <1>3, <3>1, <3>2, Flushed
      <3>3. CASE ~AtSector
        BY <1>3, <2>1, <2>4, <3>1, <3>3 DEF Before, ByteAt
      <3> QED BY <3>2, <3>3
    <2> QED BY <2>3, <2>4
  <1>10. \A i \in offsets' : SectorAt(links', i) = sect' => buf'[(i % SS) + 1] = After(i)
    BY <1>3 DEF After, ByteAt
  <1>11. fptr' % SS # 0 => sect' = SectorAt(links', fptr')
    BY <1>1, <1>2, <1>4, <1>5, <1>6, <1>7, StillThere DEF base
  <1>12. ContentsNext
    BY <1>4, <1>7, <1>10, <1>11 DEF ContentsNext
  <1>13. Bytes!Write
    BY <1>7, <1>8, <1>9, MapsToWrite
  <1> QED BY <1>12, <1>13, Primed DEF Faithful, Bytes!Next

-----------------------------------------------------------------------------

\* An empty file.
LEMMA StartsEmpty ==
  ASSUME Init
  PROVE  Contents /\ Bytes!Init
  <1>1. links = <<>> /\ fptr = 0 /\ objsize = 0 /\ offsets = {} /\ io = <<>>
    BY DEF Init
  <1>2. 0 % SS = 0
    BY Sizes
  <1>3. Distinct(links)
    BY <1>1 DEF Distinct
  <1>4. Contents
    BY <1>1, <1>2, <1>3 DEF Contents
  <1>5. [i \in offsets |-> Stored(i)] = [i \in {} |-> 0]
    BY <1>1
  <1> QED BY <1>1, <1>4, <1>5 DEF Bytes!Init

LEMMA StepsFaithfully ==
  ASSUME Inv, Contents, [Next]_data
  PROVE  Faithful
  <1>1. CASE Call
    <2>1. ASSUME NEW n \in Lengths, Read(n) \/ Write(n) PROVE Faithful
      BY <2>1, StartedFaithfully DEF Read, Write
    <2>2. ASSUME NEW target \in Offsets, Seek(target) PROVE Faithful
      BY <2>2, SeeksFaithfully
    <2>3. ASSUME NEW end \in BOOLEAN, Reopen(end) PROVE Faithful
      BY <2>3, ReopensFaithfully
    <2> QED BY <1>1, <2>1, <2>2, <2>3, TruncatesFaithfully, SyncsFaithfully DEF Call
  <1>2. CASE Step
    BY <1>2, ReadsDirectlyFaithfully, ReadsPartFaithfully, EndsFaithfully,
       WritesDirectlyFaithfully, WritesPartFaithfully DEF Step
  <1>3. CASE Others
    BY <1>3, OthersFaithful
  <1>4. CASE UNCHANGED data
    BY <1>4, IdlesFaithfully
  <1> QED BY <1>1, <1>2, <1>3, <1>4 DEF Next

\* Through whole sectors and parts, seeks, truncations, f_sync and a new
\* f_open: the file is the array of bytes that ByteFile says, for every size of
\* sectors and clusters.
THEOREM FileKeepsItsBytes == Spec => ReadsWhatWasWritten
  <1>1. Init => Inv /\ Contents /\ Bytes!Init
    BY Starts, StartsEmpty
  <1>2. Inv /\ Contents /\ [Next]_data => Inv' /\ Contents'
    BY Steps, StepsFaithfully DEF Faithful
  <1>3. Inv /\ Contents /\ [Next]_data => [Bytes!Next]_(Bytes!user)
    BY StepsFaithfully DEF Faithful
  <1> QED BY <1>1, <1>2, <1>3, PTL DEF Spec, ReadsWhatWasWritten, Bytes!Spec

-----------------------------------------------------------------------------

\* What TypeOK says and neither Inv nor Contents.
Typed ==
  /\ card \in [Sectors -> [1 .. SS -> Byte]]
  /\ buf \in [1 .. SS -> Byte]
  /\ sect \in Sectors \cup {0}
  /\ op \in {"none", "read", "write"}
  /\ io \in Seq(Byte)

TypedNext ==
  /\ card' \in [Sectors -> [1 .. SS -> Byte]]
  /\ buf' \in [1 .. SS -> Byte]
  /\ sect' \in Sectors \cup {0}
  /\ op' \in {"none", "read", "write"}
  /\ io' \in Seq(Byte)

\* TypedNext is Typed in the next state.
LEMMA TypedPrimed == TypedNext => Typed'
  BY DEF TypedNext, Typed, Sectors, SectorsOf, clst2sect

\* Something to fill a sector with.
LEMMA Blanks == Blank \in [1 .. SS -> Byte] /\ <<>> \in Seq(Byte)
  BY DataAssumption DEF Blank

\* What f_write is given are bytes.
LEMMA PayloadTyped ==
  ASSUME NEW n \in Nat, NEW s \in Payload(n)
  PROVE  s \in [1 .. n -> Byte] /\ s \in Seq(Byte)
  <1>1. s \in [1 .. n -> Byte]
    BY DataAssumption DEF Payload
  <1> QED BY <1>1, SeqDef

\* A chain of clusters is a set of sectors of the card.
LEMMA ChainSectors ==
  ASSUME NEW chain \in Seq(Clusters)
  PROVE  OwnedBy(chain) \subseteq Sectors
  BY DEF OwnedBy, Sectors, Range

LEMMA SectorIsOne ==
  ASSUME NEW chain \in Seq(Clusters), NEW n \in Nat, n < bcs * Len(chain)
  PROVE  SectorAt(chain, n) \in Sectors
  BY SectorHere, ChainSectors

\* A buffer has as many bytes as a sector.
LEMMA WrittenBackTyped ==
  ASSUME Inv, Typed
  PROVE  WrittenBack \in [Sectors -> [1 .. SS -> Byte]]
  BY DEF Typed, WrittenBack

\* So has a sector that is read.
LEMMA FillTyped ==
  ASSUME Inv, Typed, NEW s, s = sect \/ s \in Sectors, Fill(s)
  PROVE  /\ card' \in [Sectors -> [1 .. SS -> Byte]]
         /\ buf' \in [1 .. SS -> Byte]
         /\ sect' \in Sectors \cup {0}
  <1>1. CASE s = sect
    BY <1>1 DEF Fill, Typed
  <1>2. CASE s # sect
    BY <1>2, WrittenBackTyped DEF Fill
  <1> QED BY <1>1, <1>2

\* Steps that move no byte, or a whole sector.
LEMMA QuietlyTyped ==
  ASSUME Inv, Typed,
         \/ \E n \in Lengths : Read(n) \/ Write(n)
         \/ ReadDone \/ WriteDone \/ Truncate \/ Sync \/ Others \/ UNCHANGED data
  PROVE  TypedNext
  <1>1. ASSUME NEW n \in Lengths, Read(n) \/ Write(n) PROVE TypedNext
    BY <1>1, Blanks DEF Read, Write, Begin, object, Typed, TypedNext
  <1>2. CASE ReadDone \/ WriteDone
    BY <1>2, Blanks DEF ReadDone, WriteDone, Return, object, Typed, TypedNext
  <1>3. CASE Truncate \/ Sync
    BY <1>3, Blanks, WrittenBackTyped DEF Truncate, Sync, Typed, TypedNext
  <1>4. CASE Others
    BY <1>4, Blanks DEF Others, object, Typed, TypedNext
  <1>5. CASE UNCHANGED data
    BY <1>5 DEF data, object, Typed, TypedNext
  <1> QED BY <1>1, <1>2, <1>3, <1>4, <1>5

\* f_lseek and f_open read a sector of the file ...
LEMMA SeeksTyped ==
  ASSUME Inv, Typed, NEW target \in Offsets, Seek(target)
  PROVE  TypedNext
  <1>1. target \in Nat /\ Inv'
    BY DataAssumption, Seeks
  <1>2. links' \in Seq(Clusters) /\ fptr' \in Nat
    BY <1>1 DEF Inv, Position
  <1>3. op' = op /\ io' = <<>>
    BY DEF Seek
  <1>4. /\ card' \in [Sectors -> [1 .. SS -> Byte]]
        /\ buf' \in [1 .. SS -> Byte]
        /\ sect' \in Sectors \cup {0}
    <2>1. CASE fptr' % SS # 0
      <3> DEFINE s == SectorAt(links', fptr')
      <3>1. Fill(s)
        BY <2>1 DEF Seek
      <3>2. fptr' < bcs * Len(links')
        BY <1>1, <2>1 DEF Inv, Buffer, Held, bcs
      <3>3. s \in Sectors
        BY <1>2, <3>2, SectorIsOne
      <3> HIDE DEF s
      <3> QED BY <3>1, <3>3, FillTyped
    <2>2. CASE fptr' % SS = 0
      BY <2>2 DEF Seek, Typed
    <2> QED BY <2>1, <2>2
  <1> QED BY <1>3, <1>4, Blanks DEF Typed, TypedNext

LEMMA ReopensTyped ==
  ASSUME Inv, Typed, NEW end \in BOOLEAN, Reopen(end)
  PROVE  TypedNext
  <1>1. /\ links \in Seq(Clusters) /\ objsize \in Nat /\ Len(links) \in Nat
        /\ objsize <= bcs * Len(links)
    BY DEF Inv, Position
  <1>2. card' \in [Sectors -> [1 .. SS -> Byte]] /\ op' = op /\ io' = <<>>
    BY WrittenBackTyped DEF Reopen
  <1>3. buf' \in [1 .. SS -> Byte] /\ sect' \in Sectors \cup {0}
    <2>1. CASE end /\ objsize % SS # 0
      <3>1. sect' = SectorAt(links, objsize) /\ buf' = card'[sect']
        BY <2>1 DEF Reopen
      <3>2. objsize < bcs * Len(links)
        <4>1. (bcs * Len(links)) % SS = 0 /\ bcs * Len(links) \in Nat
          BY <1>1, Sizes, ChainEnd
        <4> QED BY <1>1, <2>1, <4>1
      <3> QED BY <1>1, <1>2, <3>1, <3>2, SectorIsOne
    <2>2. CASE ~(end /\ objsize % SS # 0)
      BY <2>2, Blanks DEF Reopen
    <2> QED BY <2>1, <2>2
  <1> QED BY <1>2, <1>3, Blanks DEF Typed, TypedNext

\* ... f_read hands over bytes ...
LEMMA ReadsDirectlyTyped ==
  ASSUME Inv, Typed, ReadDirect
  PROVE  TypedNext
  <1> DEFINE first == SectorAt(links, fptr)
             from(s) == IF dirty /\ s = sect THEN buf ELSE card[s]
  <1>1. /\ links \in Seq(Clusters) /\ Len(links) \in Nat
        /\ fptr \in Nat /\ objsize \in Nat /\ rest \in Nat
        /\ fptr + rest <= objsize /\ objsize <= bcs * Len(links)
        /\ rest > 0 /\ fptr % SS = 0 /\ Whole > 0
    BY DEF Inv, Position, ReadDirect, Direct, AtSector
  <1>2. fptr < bcs * Len(links)
    <2>1. bcs * Len(links) \in Nat
      BY <1>1, Sizes
    <2> QED BY <1>1, <2>1
  <1>3. Whole \in Nat \ {0} /\ Whole <= csize - ((fptr \div SS) % csize) /\ Whole * SS \in Nat
    <2>1. Whole \in Nat \ {0} /\ Whole <= csize - ((fptr \div SS) % csize)
      BY <1>1, Pieces DEF Inv
    <2> QED BY <2>1, Sizes
  <1>4. first .. (first + Whole - 1) \subseteq Sectors /\ first \in Int
    <2>1. (fptr \div bcs) + 1 \in 1 .. Len(links)
      BY <1>1, <1>2, SectorOfPosition
    <2>2. first .. (first + Whole - 1) \subseteq SectorsOf(ClusterAt(links, fptr))
          /\ first \in SectorsOf(ClusterAt(links, fptr))
      BY <1>1, <1>3, <2>1, SectorsFrom
    <2>3. SectorsOf(ClusterAt(links, fptr)) \subseteq OwnedBy(links)
      BY <1>1, <1>2, SectorHere
    <2> QED BY <1>1, <2>2, <2>3, ChainSectors DEF SectorsOf
  <1>5. \A s \in Sectors : from(s) \in [1 .. SS -> Byte]
    BY DEF Typed
  <1>6. /\ io' = [k \in 1 .. Whole * SS |-> from(first + (k - 1) \div SS)[((k - 1) % SS) + 1]]
        /\ UNCHANGED <<card, buf, sect, op>>
    BY DEF ReadDirect, Advance
  <1> HIDE DEF first, from
  <1>7. ASSUME NEW k \in 1 .. Whole * SS
        PROVE  from(first + (k - 1) \div SS)[((k - 1) % SS) + 1] \in Byte
    <2>1. fptr + (k - 1) \in fptr .. (fptr + Whole * SS - 1)
      BY <1>1, <1>3
    <2>2. PICK j \in 0 .. (Whole - 1), r \in 0 .. (SS - 1) :
            ((fptr + (k - 1)) - fptr) \div SS = j /\ ((fptr + (k - 1)) - fptr) % SS = r
      BY <1>1, <1>3, <2>1, InSectors
    <2>3. (fptr + (k - 1)) - fptr = k - 1
      BY <1>1, <1>3
    <2>4. first + j \in Sectors
      BY <1>3, <1>4
    <2>5. r + 1 \in 1 .. SS
      BY Sizes
    <2>6. from(first + j)[r + 1] \in Byte
      BY <1>5, <2>4, <2>5
    <2> QED BY <2>2, <2>3, <2>6
  <1>8. io' \in [1 .. Whole * SS -> Byte]
    BY <1>6, <1>7
  <1>9. io' \in Seq(Byte)
    BY <1>3, <1>8, SeqDef
  <1> QED BY <1>6, <1>9 DEF Typed, TypedNext

LEMMA ReadsPartTyped ==
  ASSUME Inv, Typed, ReadPart
  PROVE  TypedNext
  <1> DEFINE s == IF AtSector THEN SectorAt(links, fptr) ELSE sect
             base == fptr % SS
  <1>1. /\ links \in Seq(Clusters) /\ Len(links) \in Nat
        /\ fptr \in Nat /\ objsize \in Nat /\ rest \in Nat /\ rest > 0
        /\ fptr + rest <= objsize /\ objsize <= bcs * Len(links)
    BY DEF Inv, Position, ReadPart
  <1>2. fptr < bcs * Len(links)
    <2>1. bcs * Len(links) \in Nat
      BY <1>1, Sizes
    <2> QED BY <1>1, <2>1
  <1>3. base \in 0 .. (SS - 1)
    BY <1>1, Sizes, Division
  <1>4. Part \in Nat /\ Part <= SS - base
    BY Pieces DEF Inv
  <1>5. s = sect \/ s \in Sectors
    BY <1>1, <1>2, SectorIsOne
  <1>6. /\ Fill(s) /\ op' = op
        /\ io' = SubSeq(buf', base + 1, base + Part)
    BY DEF ReadPart, Advance
  <1> HIDE DEF s, base
  <1>7. /\ card' \in [Sectors -> [1 .. SS -> Byte]]
        /\ buf' \in [1 .. SS -> Byte]
        /\ sect' \in Sectors \cup {0}
    BY <1>5, <1>6, FillTyped
  <1>8. io' \in Seq(Byte)
    <2> DEFINE m == base + 1
               n == base + Part
    <2>1. m \in Int /\ n \in Int /\ m .. n \subseteq 1 .. SS
      BY <1>3, <1>4, Sizes
    <2> HIDE DEF m, n
    <2>2. \A k \in m .. n : buf'[k] \in Byte
      BY <1>7, <2>1
    <2>3. SubSeq(buf', m, n) \in Seq(Byte)
      BY <2>1, <2>2, SubSeqProperties
    <2> QED BY <1>6, <2>3 DEF m, n
  <1> QED BY <1>6, <1>7, <1>8 DEF Typed, TypedNext

\* ... and f_write cuts them into sectors, or puts them into one.
LEMMA WritesDirectlyTyped ==
  ASSUME Inv, Typed, WriteDirect
  PROVE  TypedNext
  <1> DEFINE first == SectorAt(links', fptr)
             direct == first .. (first + Whole - 1)
  <1>1. fptr \in Nat /\ rest \in Nat /\ Whole > 0
    BY DEF Inv, Position, WriteDirect, Direct
  <1>2. links' \in Seq(Clusters) /\ fptr < bcs * Len(links')
    BY Chained DEF Inv, WriteDirect, Extends
  <1>3. Whole \in Nat /\ Whole * SS \in Nat
    <2>1. Whole \in Nat
      BY <1>1, Pieces DEF Inv
    <2> QED BY <2>1, Sizes
  <1>4. first \in Int
    BY <1>1, <1>2, SectorHere DEF SectorsOf
  <1>5. /\ io' \in Payload(Whole * SS)
        /\ card' = [s \in Sectors |-> IF s \in direct THEN Slice(io', s - first)
                                      ELSE WrittenBack[s]]
        /\ buf' = IF sect \in direct THEN Slice(io', sect - first) ELSE buf
        /\ UNCHANGED <<sect, op>>
    BY DEF WriteDirect, Advance
  <1>6. io' \in [1 .. Whole * SS -> Byte] /\ io' \in Seq(Byte)
    BY <1>3, <1>5, PayloadTyped
  <1> HIDE DEF first
  <1>7. ASSUME NEW s \in direct
        PROVE  Slice(io', s - first) \in [1 .. SS -> Byte]
    <2> DEFINE j == s - first
               m == j * SS + 1
               n == (j + 1) * SS
    <2>1. j \in 0 .. (Whole - 1)
      BY <1>3, <1>4
    <2> HIDE DEF j
    <2>2. m \in Int /\ n \in Int /\ m .. n \subseteq 1 .. Whole * SS
          /\ n - m + 1 = SS /\ m <= n
      <3>1. /\ j * SS \in Nat /\ (j + 1) * SS = j * SS + SS
        BY <2>1, Sizes
      <3>2. (j + 1) * SS <= Whole * SS
        <4>1. SS * (j + 1) <= SS * Whole
          BY <1>3, <2>1, Sizes, Monotonic
        <4>2. SS * (j + 1) = (j + 1) * SS /\ SS * Whole = Whole * SS
          BY <1>3, <2>1, Sizes
        <4> QED BY <4>1, <4>2
      <3> QED BY <1>3, <3>1, <3>2, Sizes
    <2> HIDE DEF m, n
    <2>3. \A k \in m .. n : io'[k] \in Byte
      BY <1>6, <2>2
    <2>4. /\ SubSeq(io', m, n) \in Seq(Byte)
          /\ Len(SubSeq(io', m, n)) = IF m <= n THEN n - m + 1 ELSE 0
      BY <2>2, <2>3, SubSeqProperties
    <2>5. SubSeq(io', m, n) \in [1 .. SS -> Byte]
      BY <2>2, <2>4, LenProperties
    <2> QED BY <2>5 DEF Slice, m, n, j
  <1> HIDE DEF direct
  <1>8. card' \in [Sectors -> [1 .. SS -> Byte]]
    BY <1>5, <1>7, WrittenBackTyped
  <1>9. buf' \in [1 .. SS -> Byte]
    BY <1>5, <1>7 DEF Typed
  <1> QED BY <1>5, <1>6, <1>8, <1>9 DEF Typed, TypedNext

LEMMA WritesPartTyped ==
  ASSUME Inv, Typed, WritePart
  PROVE  TypedNext
  <1> DEFINE base == fptr % SS
             before == IF AtSector /\ Needed(sect') THEN card'[sect'] ELSE buf
  <1>1. fptr \in Nat
    BY DEF Inv, Position
  <1>2. base \in 0 .. (SS - 1)
    BY <1>1, Sizes, Division
  <1>3. Part \in Nat
    BY Pieces DEF Inv
  <1>4. /\ io' \in Payload(Part) /\ op' = op
        /\ buf' = [k \in 1 .. SS |-> IF k - base \in 1 .. Part THEN io'[k - base]
                                     ELSE before[k]]
        /\ AtSector => links' \in Chains /\ card' = WrittenBack
                       /\ sect' = SectorAt(links', fptr)
        /\ ~AtSector => UNCHANGED <<card, sect>>
    BY DEF WritePart, Advance
  <1>5. card' \in [Sectors -> [1 .. SS -> Byte]]
    BY <1>4, WrittenBackTyped DEF Typed
  <1>6. /\ sect' \in Sectors \cup {0}
        /\ AtSector => sect' \in Sectors
    <2>1. CASE AtSector
      <3>1. links' \in Seq(Clusters) /\ fptr < bcs * Len(links')
        BY <1>4, <2>1, Chained DEF Inv, Extends
      <3> QED BY <1>1, <1>4, <2>1, <3>1, SectorIsOne
    <2>2. CASE ~AtSector
      BY <1>4, <2>2 DEF Typed
    <2> QED BY <2>1, <2>2
  <1>7. before \in [1 .. SS -> Byte]
    BY <1>5, <1>6 DEF Typed
  <1>8. io' \in [1 .. Part -> Byte] /\ io' \in Seq(Byte)
    BY <1>3, <1>4, PayloadTyped
  <1> HIDE DEF base, before
  <1>9. buf' \in [1 .. SS -> Byte]
    BY <1>4, <1>7, <1>8
  <1> QED BY <1>4, <1>5, <1>6, <1>8, <1>9 DEF Typed, TypedNext

LEMMA StartsTyped ==
  ASSUME Init
  PROVE  Typed
  <1>1. card \in [Sectors -> [1 .. SS -> Byte]]
    BY Blanks, DataAssumption DEF Init
  <1> QED BY <1>1, Blanks DEF Init, Typed

LEMMA StepsTyped ==
  ASSUME Inv, Typed, [Next]_data
  PROVE  TypedNext
  <1>1. ASSUME NEW target \in Offsets, Seek(target) PROVE TypedNext
    BY <1>1, SeeksTyped
  <1>2. ASSUME NEW end \in BOOLEAN, Reopen(end) PROVE TypedNext
    BY <1>2, ReopensTyped
  <1> QED BY <1>1, <1>2, QuietlyTyped, ReadsDirectlyTyped, ReadsPartTyped,
             WritesDirectlyTyped, WritesPartTyped DEF Next, Call, Step

\* Type correctness of the bytes of a file: the position stays in the file and
\* the file in its clusters, none of which is in the chain twice.
THEOREM DataTyped == Spec => []TypeOK
  <1>1. Init => Inv /\ Contents /\ Typed
    BY Starts, StartsEmpty, StartsTyped
  <1>2. Inv /\ Contents /\ Typed /\ [Next]_data => Inv' /\ Contents' /\ Typed'
    BY Steps, StepsFaithfully, StepsTyped, TypedPrimed DEF Faithful
  <1>3. Inv /\ Contents /\ Typed => TypeOK
    <2> SUFFICES ASSUME Inv, Contents, Typed PROVE TypeOK
      OBVIOUS
    <2>1. IsInjective(links)
      <3>1. DOMAIN links = 1 .. Len(links)
        BY DEF Inv, Position
      <3> QED BY <3>1 DEF IsInjective, Contents, Distinct
    <2>2. objsize \in 0 .. bcs * Len(links) /\ fptr \in 0 .. objsize
      <3>1. Len(links) \in Nat
        BY DEF Inv, Position
      <3>2. bcs * Len(links) \in Nat
        BY <3>1, Sizes
      <3> QED BY <3>2 DEF Inv, Position
    <2> QED BY <2>1, <2>2 DEF TypeOK, Inv, Position, Buffer, Contents, Typed
  <1> QED BY <1>1, <1>2, <1>3, PTL DEF Spec
=============================================================================
