-------------------------- MODULE FatChain_proofs --------------------------
(***************************************************************************)
(* Facts about cluster chains.                                             *)
(***************************************************************************)
EXTENDS FatVolume, FiniteSetTheorems, WellFoundedInduction, TLAPS

\* The least of a set of natural numbers.
LEMMA Lowest ==
  ASSUME NEW T, T \subseteq Nat, T # {}
  PROVE  \E x \in T : \A q \in T : x <= q
  <1> DEFINE less == OpToRel(<, Nat)
  <1>1. \E x \in T : \A q \in T : ~(<<q, x>> \in less)
    BY NatLessThanWellFounded, WFMin
  <1>2. PICK p \in T : \A q \in T : ~(<<q, p>> \in less)
    BY <1>1
  <1>3. ASSUME NEW q \in T PROVE p <= q
    <2>1. <<q, p>> \in Nat \X Nat
      OBVIOUS
    <2>2. ~(q < p)
      BY <1>2, <2>1 DEF OpToRel
    <2> QED BY <2>2
  <1> QED BY <1>3

\* Induction, for a set of natural numbers.
LEMMA AllNumbers ==
  ASSUME NEW T, 0 \in T, \A n \in Nat : n \in T => n + 1 \in T
  PROVE  Nat \subseteq T
  <1> SUFFICES ASSUME Nat \ T # {} PROVE FALSE
    OBVIOUS
  <1>1. PICK x \in Nat \ T : \A q \in Nat \ T : x <= q
    BY Lowest
  <1>2. x # 0 /\ x - 1 \in Nat /\ x - 1 \in T
    BY <1>1
  <1> QED BY <1>1, <1>2

-----------------------------------------------------------------------------

\* A function can be iterated: there is a sequence of values that follows it.
LEMMA Iterated ==
  ASSUME NEW V, NEW first \in V, NEW g \in [V -> V]
  PROVE  \E at \in [Nat -> V] : at[0] = first /\ \A n \in Nat : at[n + 1] = g[at[n]]
  <1> DEFINE upto(n, a) == /\ a \in [0 .. n -> V]
                           /\ a[0] = first
                           /\ \A k \in 0 .. n - 1 : a[k + 1] = g[a[k]]
             T == {n \in Nat : \E a \in [0 .. n -> V] : upto(n, a)}
  <1>1. 0 \in T
    <2> DEFINE a == [k \in 0 .. 0 |-> first]
    <2>1. a \in [0 .. 0 -> V] /\ upto(0, a)
      OBVIOUS
    <2> QED BY <2>1
  <1>2. ASSUME NEW n \in Nat, n \in T PROVE n + 1 \in T
    <2>1. PICK a \in [0 .. n -> V] : upto(n, a)
      BY <1>2
    <2> DEFINE b == [k \in 0 .. n + 1 |-> IF k = n + 1 THEN g[a[n]] ELSE a[k]]
    <2>2. b \in [0 .. n + 1 -> V]
      OBVIOUS
    <2>3. ASSUME NEW k \in 0 .. n PROVE b[k + 1] = g[b[k]]
      BY <2>1
    <2>4. b[0] = first
      BY <2>1
    <2> HIDE DEF b
    <2>5. upto(n + 1, b)
      <3>1. 0 .. (n + 1) - 1 = 0 .. n
        OBVIOUS
      <3> QED BY <2>2, <2>3, <2>4, <3>1
    <2> QED BY <2>2, <2>5
  <1> HIDE DEF T
  <1>3. Nat \subseteq T
    BY <1>1, <1>2, AllNumbers
  <1> USE DEF T
  <1> DEFINE A(n) == CHOOSE a \in [0 .. n -> V] : upto(n, a)
  <1> HIDE DEF upto
  <1>4. ASSUME NEW n \in Nat PROVE A(n) \in [0 .. n -> V] /\ upto(n, A(n))
    BY <1>3
  <1> HIDE DEF A, T
  <1> USE DEF upto
  <1>5. ASSUME NEW n \in Nat PROVE \A k \in 0 .. n : A(n + 1)[k] = A(n)[k]
    <2> DEFINE same == {k \in Nat : k <= n => A(n + 1)[k] = A(n)[k]}
    <2>1. 0 \in same
      BY <1>4
    <2>2. ASSUME NEW k \in Nat, k \in same PROVE k + 1 \in same
      <3> SUFFICES ASSUME k + 1 <= n PROVE A(n + 1)[k + 1] = A(n)[k + 1]
        OBVIOUS
      <3>1. A(n + 1)[k + 1] = g[A(n + 1)[k]] /\ A(n)[k + 1] = g[A(n)[k]]
        BY <1>4
      <3> QED BY <2>2, <3>1
    <2> HIDE DEF same
    <2>3. Nat \subseteq same
      BY <2>1, <2>2, AllNumbers
    <2> QED BY <2>3 DEF same
  <1> DEFINE at == [n \in Nat |-> A(n)[n]]
  <1>6. at \in [Nat -> V]
    BY <1>4
  <1>7. at[0] = first
    BY <1>4
  <1>8. ASSUME NEW n \in Nat PROVE at[n + 1] = g[at[n]]
    <2>1. A(n + 1)[n + 1] = g[A(n + 1)[n]]
      BY <1>4
    <2> QED BY <1>5, <2>1
  <1> HIDE DEF at
  <1> QED BY <1>6, <1>7, <1>8

\* What Walk is defined to be.
LEMMA Walks ==
  ASSUME NEW m, NEW first
  PROVE  /\ Walk(m, first)[0] = first
         /\ \A n \in Nat : Walk(m, first)[n + 1] = EntryOf(m, Walk(m, first)[n])
  <1> DEFINE V == {EntryOf(m, c) : c \in Clusters} \cup {FREE, first}
             g == [c \in V |-> EntryOf(m, c)]
             def(at) == [k \in Nat |-> IF k = 0 THEN first ELSE EntryOf(m, at[k - 1])]
  <1>1. g \in [V -> V]
    BY DEF EntryOf
  <1>2. PICK at \in [Nat -> V] : at[0] = first /\ \A n \in Nat : at[n + 1] = g[at[n]]
    <2> HIDE DEF g, V
    <2>1. first \in V
      BY DEF V
    <2> QED BY <1>1, <2>1, Iterated
  <1>3. at = def(at)
    <2>1. ASSUME NEW k \in Nat, k # 0 PROVE at[k] = EntryOf(m, at[k - 1])
      <3>1. k - 1 \in Nat /\ (k - 1) + 1 = k
        BY <2>1
      <3>2. at[k] = g[at[k - 1]] /\ at[k - 1] \in V
        BY <1>2, <3>1
      <3> QED BY <3>2
    <2> HIDE DEF V, g
    <2> QED BY <1>2, <2>1
  <1> DEFINE w == CHOOSE x : x = def(x)
  <1>4. w = def(w)
    BY <1>3
  <1>5. Walk(m, first) = w
    BY DEF Walk
  <1> HIDE DEF w
  <1> QED BY <1>4, <1>5

-----------------------------------------------------------------------------
\* A FAT, seen as a set of chains.

\* The owner of a chain that no file has: one that is not linked yet, or that is
\* being removed.
Nobody == CHOOSE x : x \notin Files
Owners == Files \cup {Nobody}

Taken(m) == {c \in Clusters : m[c] # FREE}

\* A cluster that was to be linked or freed when the console was switched off
\* is taken and has no owner.  Nothing is said of where it leads.
Lost   == CHOOSE x : x \notin Owners
Strays == IF "PowerCycle" \in Calls THEN {Lost} ELSE {}

Held(m, own) == {c \in Taken(m) : own[c] \in Owners}

\* Every cluster that is held has a place: one cluster at each place, the one
\* at the head first, each linked to the next.
Places(head, own, rank) ==
  /\ head \in [Owners -> {0} \cup Clusters]
  /\ own \in [Clusters -> Owners \cup Strays]
  /\ rank \in [Clusters -> Nat]

HeadsFirst(m, head, own, rank) ==
  \A o \in Owners : head[o] # 0 =>
    /\ head[o] \in Held(m, own) /\ own[head[o]] = o
    /\ o \in Files => rank[head[o]] = 0

Follows(m, own, rank, d, c) ==
  m[d] = c /\ own[c] = own[d] /\ rank[c] = rank[d] + 1

Preceded(m, head, own, rank) ==
  \A c \in Held(m, own) :
    head[own[c]] = c \/ \E d \in Held(m, own) : Follows(m, own, rank, d, c)

Followed(m, own, rank) ==
  \A c \in Held(m, own) :
    m[c] = EOC \/ (m[c] \in Held(m, own) /\ Follows(m, own, rank, c, m[c]))

PlacesApart(m, own, rank) ==
  \A c, d \in Held(m, own) : own[c] = own[d] /\ rank[c] = rank[d] => c = d

Chained(m, head, own, rank) ==
  /\ Places(head, own, rank)
  /\ HeadsFirst(m, head, own, rank)
  /\ Preceded(m, head, own, rank)
  /\ Followed(m, own, rank)
  /\ PlacesApart(m, own, rank)

LEMMA Numbers ==
  /\ Clusters \subseteq Nat \ {0, 1} /\ EOC \in Nat /\ EOC \notin Clusters
  /\ FREE \notin Clusters /\ EOC # FREE /\ n_fatent \in Nat /\ n_fatent > 2
  BY WindowAssumption DEF Clusters, EOC, FREE

LEMMA NobodyIsNoFile == Nobody \notin Files
  <1>1. \E x : x \notin Files
    BY NoSetContainsEverything
  <1> QED BY <1>1 DEF Nobody

\* Who has clusters has a first one.
LEMMA HasHead ==
  ASSUME NEW m, NEW head, NEW own, NEW rank, Chained(m, head, own, rank),
         NEW c \in Held(m, own)
  PROVE  head[own[c]] # 0
  <1> SUFFICES ASSUME head[own[c]] = 0 PROVE FALSE
    OBVIOUS
  <1> DEFINE T == {rank[d] : d \in {e \in Held(m, own) : own[e] = own[c]}}
  <1>1. T \subseteq Nat /\ T # {}
    BY DEF Chained, Places, HeadsFirst, Preceded, Followed, Follows, PlacesApart, Held, Taken
  <1>2. PICK x \in T : \A y \in T : x <= y
    <2> HIDE DEF T
    <2> QED BY <1>1, Lowest
  <1>3. PICK d \in Held(m, own) : own[d] = own[c] /\ rank[d] = x
    BY <1>2
  <1>4. d # 0
    BY Numbers DEF Held, Taken
  <1>5. PICK e \in Held(m, own) : own[e] = own[d] /\ rank[d] = rank[e] + 1
    BY <1>3, <1>4 DEF Chained, Places, HeadsFirst, Preceded, Followed, Follows, PlacesApart
  <1>6. rank[e] \in T /\ rank[e] \in Nat
    BY <1>3, <1>5 DEF Chained, Places, HeadsFirst, Preceded, Followed, Follows, PlacesApart, Held, Taken
  <1> HIDE DEF T
  <1>7. rank[d] <= rank[e]
    BY <1>2, <1>3, <1>6
  <1> QED BY <1>5, <1>6, <1>7

\* Nothing comes after the end of a chain.
LEMMA EndIsLast ==
  ASSUME NEW m, NEW head, NEW own, NEW rank, Chained(m, head, own, rank),
         NEW c \in Held(m, own), m[c] = EOC,
         NEW d \in Held(m, own), own[d] = own[c],
         own[c] \in Files \/ head[own[c]] = c
  PROVE  rank[d] <= rank[c]
  <1> SUFFICES ASSUME rank[d] > rank[c] PROVE FALSE
    BY DEF Chained, Places, HeadsFirst, Preceded, Followed, Follows, PlacesApart, Held, Taken
  <1> DEFINE later == {e \in Held(m, own) : own[e] = own[c] /\ rank[e] > rank[c]}
             T == {rank[e] : e \in later}
  <1>1. T \subseteq Nat /\ T # {}
    BY DEF Chained, Places, HeadsFirst, Preceded, Followed, Follows, PlacesApart, Held, Taken
  <1>2. PICK x \in T : \A y \in T : x <= y
    <2> HIDE DEF T
    <2> QED BY <1>1, Lowest
  <1>3. PICK e \in later : rank[e] = x
    BY <1>2
  <1>4. head[own[e]] # e
    <2>1. CASE own[c] \in Files
      BY <1>3, <2>1, Numbers DEF Chained, Places, HeadsFirst, Preceded, Followed, Follows, PlacesApart, Held, Taken
    <2>2. CASE head[own[c]] = c
      BY <1>3, <2>2 DEF Chained, Places, HeadsFirst, Preceded, Followed, Follows, PlacesApart, Held, Taken
    <2> QED BY <2>1, <2>2
  <1>5. PICK g \in Held(m, own) : own[g] = own[e] /\ m[g] = e /\ rank[e] = rank[g] + 1
    BY <1>3, <1>4 DEF Chained, Places, HeadsFirst, Preceded, Followed, Follows, PlacesApart
  <1>6. rank[g] \in Nat /\ rank[c] \in Nat
    BY DEF Chained, Places, HeadsFirst, Preceded, Followed, Follows, PlacesApart, Held, Taken
  <1>7. g \notin later
    <2>1. ASSUME g \in later PROVE FALSE
      <3>1. rank[g] \in T
        BY <2>1
      <3> HIDE DEF T
      <3>2. rank[e] <= rank[g]
        BY <1>2, <1>3, <3>1
      <3> QED BY <1>5, <1>6, <3>2
    <2> QED BY <2>1
  <1>8. rank[g] = rank[c]
    BY <1>3, <1>5, <1>6, <1>7
  <1>9. g = c
    BY <1>3, <1>5, <1>8 DEF Chained, Places, HeadsFirst, Preceded, Followed, Follows, PlacesApart
  <1> QED BY <1>5, <1>9, Numbers DEF Held, Taken

\* A chain whose first cluster is its end has no other.
LEMMA Alone ==
  ASSUME NEW m, NEW head, NEW own, NEW rank, Chained(m, head, own, rank),
         NEW c \in Held(m, own), m[c] = EOC, head[own[c]] = c,
         NEW d \in Held(m, own), own[d] = own[c]
  PROVE  d = c
  <1> SUFFICES ASSUME d # c PROVE FALSE
    OBVIOUS
  <1>1. PICK e \in Held(m, own) : own[e] = own[d] /\ m[e] = d /\ rank[d] = rank[e] + 1
    BY DEF Chained, Places, HeadsFirst, Preceded, Followed, Follows, PlacesApart
  <1>2. rank[d] <= rank[c]
    BY EndIsLast
  <1> DEFINE T == {rank[g] : g \in {x \in Held(m, own) : own[x] = own[c]} \ {c}}
  <1>3. T \subseteq Nat /\ T # {}
    BY DEF Chained, Places, HeadsFirst, Preceded, Followed, Follows, PlacesApart, Held, Taken
  <1>4. PICK x \in T : \A y \in T : x <= y
    <2> HIDE DEF T
    <2> QED BY <1>3, Lowest
  <1>5. PICK g \in Held(m, own) \ {c} : own[g] = own[c] /\ rank[g] = x
    BY <1>4
  <1>6. PICK k \in Held(m, own) : own[k] = own[g] /\ m[k] = g /\ rank[g] = rank[k] + 1
    BY <1>5 DEF Chained, Places, HeadsFirst, Preceded, Followed, Follows, PlacesApart
  <1>7. k = c
    <2>1. ASSUME k # c PROVE FALSE
      <3>1. rank[k] \in T /\ rank[k] \in Nat
        BY <1>5, <1>6, <2>1 DEF Chained, Places, HeadsFirst, Preceded, Followed, Follows, PlacesApart, Held, Taken
      <3> HIDE DEF T
      <3>2. rank[g] <= rank[k]
        BY <1>4, <1>5, <3>1
      <3> QED BY <1>6, <3>1, <3>2
    <2> QED BY <2>1
  <1> QED BY <1>5, <1>6, <1>7, Numbers DEF Held, Taken

\* Only what is linked to c comes before it.
LEMMA OnePredecessor ==
  ASSUME NEW m, NEW head, NEW own, NEW rank, Chained(m, head, own, rank),
         NEW c \in Clusters, NEW d \in Held(m, own), NEW e \in Held(m, own),
         m[d] = c, m[e] = c
  PROVE  d = e
  <1>1. c # EOC
    BY Numbers
  <1>2. rank[d] + 1 = rank[e] + 1 /\ own[d] = own[e]
    BY <1>1 DEF Chained, Places, HeadsFirst, Preceded, Followed, Follows, PlacesApart
  <1>3. rank[d] \in Nat /\ rank[e] \in Nat
    BY DEF Chained, Places, HeadsFirst, Preceded, Followed, Follows, PlacesApart, Held, Taken
  <1>4. rank[d] = rank[e]
    BY <1>2, <1>3
  <1> QED BY <1>2, <1>4 DEF Chained, Places, HeadsFirst, Preceded, Followed, Follows, PlacesApart

-----------------------------------------------------------------------------
\* What the steps of create_chain and remove_chain do to the chains.

\* A free cluster becomes a chain that nobody has.
LEMMA Extended ==
  ASSUME NEW m, NEW head, NEW own, NEW rank, Chained(m, head, own, rank),
         NEW c \in Clusters, m[c] = FREE, head[Nobody] = 0,
         NEW m2, m2[c] = EOC, \A d \in Clusters \ {c} : m2[d] = m[d]
  PROVE  Chained(m2, [head EXCEPT ![Nobody] = c], [own EXCEPT ![c] = Nobody],
                 [rank EXCEPT ![c] = 0])
  <1> DEFINE h2 == [head EXCEPT ![Nobody] = c]
             o2 == [own EXCEPT ![c] = Nobody]
             r2 == [rank EXCEPT ![c] = 0]
  <1>1. Held(m2, o2) = Held(m, own) \cup {c} /\ c \notin Held(m, own) /\ Held(m, own) \subseteq Clusters
    <2>1. \A d \in Clusters : d # c => o2[d] = own[d]
      BY DEF Chained, Places
    <2>2. o2[c] \in Owners
      BY DEF Chained, Places, Owners
    <2> HIDE DEF o2
    <2>3. \A d \in Clusters : d \in Held(m2, o2) <=> d \in Held(m, own) \/ d = c
      BY <2>1, <2>2, Numbers DEF Held, Taken
    <2> QED BY <2>3 DEF Held, Taken
  <1>2. \A d \in Held(m, own) : own[d] \in Files /\ d # c
    BY <1>1, HasHead DEF Held, Owners
  <1>3. /\ h2 \in [Owners -> {0} \cup Clusters]
        /\ o2 \in [Clusters -> Owners \cup Strays] /\ r2 \in [Clusters -> Nat]
        /\ h2[Nobody] = c /\ \A o \in Files : h2[o] = head[o]
        /\ o2[c] = Nobody /\ r2[c] = 0
        /\ \A d \in Held(m, own) : o2[d] = own[d] /\ r2[d] = rank[d] /\ m2[d] = m[d]
    BY <1>1, NobodyIsNoFile DEF Chained, Places, Owners
  <1> HIDE DEF h2, o2, r2
  <1>4. Places(h2, o2, r2)
    BY <1>3 DEF Places
  <1>5. HeadsFirst(m2, h2, o2, r2)
    <2>1. HeadsFirst(m, head, own, rank)
      BY DEF Chained
    <2> QED BY <1>1, <1>2, <1>3, <2>1, NobodyIsNoFile DEF HeadsFirst, Owners
  <1>6. Preceded(m2, h2, o2, r2)
    <2>1. Preceded(m, head, own, rank)
      BY DEF Chained
    <2> SUFFICES ASSUME NEW d \in Held(m, own)
                 PROVE  h2[o2[d]] = d \/ \E e \in Held(m2, o2) : Follows(m2, o2, r2, e, d)
      BY <1>1, <1>3 DEF Preceded
    <2>2. CASE head[own[d]] = d
      BY <1>2, <1>3, <2>2
    <2>3. CASE head[own[d]] # d
      <3>1. PICK e \in Held(m, own) : Follows(m, own, rank, e, d)
        BY <2>1, <2>3 DEF Preceded
      <3> QED BY <1>1, <1>3, <3>1 DEF Follows
    <2> QED BY <2>2, <2>3
  <1>7. Followed(m2, o2, r2)
    <2>1. Followed(m, own, rank)
      BY DEF Chained
    <2> QED BY <1>1, <1>3, <2>1 DEF Followed, Follows
  <1>8. PlacesApart(m2, o2, r2)
    <2>1. PlacesApart(m, own, rank)
      BY DEF Chained
    <2> QED BY <1>1, <1>2, <1>3, <2>1, NobodyIsNoFile DEF PlacesApart
  <1>9. Chained(m2, h2, o2, r2)
    BY <1>4, <1>5, <1>6, <1>7, <1>8 DEF Chained
  <1> QED BY <1>9 DEF h2, o2, r2

\* What is known of a chain of one cluster that nobody has.
LEMMA LooseCluster ==
  ASSUME NEW m, NEW head, NEW own, NEW rank, Chained(m, head, own, rank),
         NEW c \in Held(m, own), m[c] = EOC, head[Nobody] = c
  PROVE  /\ own[c] = Nobody
         /\ \A d \in Held(m, own) \ {c} : own[d] \in Files /\ m[d] # c
  <1>1. own[c] = Nobody
    BY Numbers DEF Chained, HeadsFirst, Held, Taken, Owners
  <1>2. \A d \in Held(m, own) \ {c} : own[d] \in Files
    <2>1. \A d \in Held(m, own) : own[d] \in Owners
      BY DEF Chained, Places, Held, Taken
    <2> QED BY <1>1, <2>1, Alone DEF Owners
  <1>3. ASSUME NEW d \in Held(m, own) \ {c}, m[d] = c PROVE FALSE
    <2>1. Followed(m, own, rank) /\ m[d] # EOC
      BY <1>3, Numbers DEF Chained, Held, Taken
    <2>2. own[c] = own[d]
      BY <1>3, <2>1 DEF Followed, Follows
    <2> QED BY <1>1, <1>2, <2>2, NobodyIsNoFile
  <1> QED BY <1>1, <1>2, <1>3

\* It is linked to the end of a file.
LEMMA Joined ==
  ASSUME NEW m, NEW head, NEW own, NEW rank, Chained(m, head, own, rank),
         NEW c \in Held(m, own), m[c] = EOC, head[Nobody] = c,
         NEW e \in Held(m, own), m[e] = EOC, own[e] \in Files,
         NEW m2, m2[e] = c, \A d \in Clusters \ {e} : m2[d] = m[d]
  PROVE  Chained(m2, [head EXCEPT ![Nobody] = 0], [own EXCEPT ![c] = own[e]],
                 [rank EXCEPT ![c] = rank[e] + 1])
  <1> DEFINE h2 == [head EXCEPT ![Nobody] = 0]
             o2 == [own EXCEPT ![c] = own[e]]
             r2 == [rank EXCEPT ![c] = rank[e] + 1]
  <1>1. Held(m2, o2) = Held(m, own) /\ Held(m, own) \subseteq Clusters /\ c # 0 /\ c # EOC
    BY Numbers DEF Held, Taken
  <1>2. own[c] = Nobody /\ e # c /\ \A d \in Held(m, own) \ {c} : own[d] \in Files /\ m[d] # c
    BY LooseCluster, NobodyIsNoFile
  <1>3. /\ h2 \in [Owners -> {0} \cup Clusters]
        /\ o2 \in [Clusters -> Owners \cup Strays] /\ r2 \in [Clusters -> Nat]
        /\ h2[Nobody] = 0 /\ \A o \in Files : h2[o] = head[o]
        /\ o2[c] = own[e] /\ r2[c] = rank[e] + 1
        /\ \A d \in Held(m, own) \ {c} : o2[d] = own[d] /\ r2[d] = rank[d]
        /\ \A d \in Held(m, own) \ {e} : m2[d] = m[d]
    BY <1>1, NobodyIsNoFile DEF Chained, Places, Owners
  <1> HIDE DEF h2, o2, r2
  <1>4. Places(h2, o2, r2)
    BY <1>3 DEF Places
  <1>5. HeadsFirst(m2, h2, o2, r2)
    <2>1. HeadsFirst(m, head, own, rank)
      BY DEF Chained
    <2> QED BY <1>1, <1>2, <1>3, <2>1, NobodyIsNoFile DEF HeadsFirst, Owners
  <1>6. Preceded(m2, h2, o2, r2)
    <2>1. Preceded(m, head, own, rank)
      BY DEF Chained
    <2>2. ASSUME NEW d \in Held(m, own) \ {c}
          PROVE  h2[o2[d]] = d \/ \E g \in Held(m, own) : Follows(m2, o2, r2, g, d)
      <3>1. CASE head[own[d]] = d
        BY <1>2, <1>3, <3>1
      <3>2. CASE head[own[d]] # d
        <4>1. PICK g \in Held(m, own) : Follows(m, own, rank, g, d)
          BY <2>1, <3>2 DEF Preceded
        <4>2. g # c /\ g # e
          BY <1>1, <4>1, Numbers DEF Follows
        <4> QED BY <1>3, <4>1, <4>2 DEF Follows
      <3> QED BY <3>1, <3>2
    <2>3. Follows(m2, o2, r2, e, c)
      BY <1>2, <1>3 DEF Follows
    <2> QED BY <1>1, <2>2, <2>3 DEF Preceded
  <1>7. Followed(m2, o2, r2)
    <2>1. Followed(m, own, rank)
      BY DEF Chained
    <2>2. ASSUME NEW d \in Held(m, own) \ {e}
          PROVE m2[d] = EOC \/ (m2[d] \in Held(m2, o2) /\ Follows(m2, o2, r2, d, m2[d]))
      <3>1. CASE d = c
        BY <1>2, <1>3, <3>1
      <3>2. CASE d # c
        BY <1>1, <1>2, <1>3, <2>1, <3>2 DEF Followed, Follows
      <3> QED BY <3>1, <3>2
    <2>3. m2[e] \in Held(m2, o2) /\ Follows(m2, o2, r2, e, m2[e])
      BY <1>1, <1>2, <1>3 DEF Follows
    <2> QED BY <1>1, <2>2, <2>3 DEF Followed
  <1>8. PlacesApart(m2, o2, r2)
    <2>1. PlacesApart(m, own, rank)
      BY DEF Chained
    <2>2. ASSUME NEW d \in Held(m, own) \ {c}, o2[d] = o2[c] PROVE r2[d] # r2[c]
      <3>1. rank[d] <= rank[e]
        BY <1>2, <1>3, <2>2, EndIsLast
      <3>2. rank[d] \in Nat /\ rank[e] \in Nat
        BY <1>1 DEF Chained, Places
      <3> QED BY <1>3, <3>1, <3>2
    <2>3. \A d, g \in Held(m, own) \ {c} : o2[d] = o2[g] /\ r2[d] = r2[g] => d = g
      BY <1>3, <2>1 DEF PlacesApart
    <2> QED BY <1>1, <2>2, <2>3 DEF PlacesApart
  <1>9. Chained(m2, h2, o2, r2)
    BY <1>4, <1>5, <1>6, <1>7, <1>8 DEF Chained
  <1> QED BY <1>9 DEF h2, o2, r2

\* It becomes the first of a file that has none.
LEMMA Adopted ==
  ASSUME NEW m, NEW head, NEW own, NEW rank, Chained(m, head, own, rank),
         NEW c \in Held(m, own), m[c] = EOC, head[Nobody] = c,
         NEW f \in Files, head[f] = 0
  PROVE  Chained(m, [head EXCEPT ![Nobody] = 0, ![f] = c], [own EXCEPT ![c] = f],
                 [rank EXCEPT ![c] = 0])
  <1> DEFINE h2 == [head EXCEPT ![Nobody] = 0, ![f] = c]
             o2 == [own EXCEPT ![c] = f]
             r2 == [rank EXCEPT ![c] = 0]
  <1>1. Held(m, own) \subseteq Clusters /\ c # 0 /\ c # EOC
    BY Numbers DEF Held, Taken
  <1>2. /\ own[c] = Nobody
        /\ \A d \in Held(m, own) \ {c} : own[d] \in Files /\ m[d] # c /\ own[d] # f
    BY LooseCluster, HasHead
  <1>3. /\ h2 \in [Owners -> {0} \cup Clusters]
        /\ o2 \in [Clusters -> Owners \cup Strays] /\ r2 \in [Clusters -> Nat]
        /\ h2[Nobody] = 0 /\ h2[f] = c /\ \A o \in Files \ {f} : h2[o] = head[o]
        /\ o2[c] = f /\ r2[c] = 0
        /\ \A d \in Held(m, own) \ {c} : o2[d] = own[d] /\ r2[d] = rank[d]
    BY <1>1, NobodyIsNoFile DEF Chained, Places, Owners
  <1>10. Held(m, o2) = Held(m, own)
    <2>1. \A d \in Clusters : d # c => o2[d] = own[d]
      BY DEF Chained, Places
    <2>2. own[c] \in Owners /\ o2[c] \in Owners
      BY <1>2, <1>3 DEF Owners
    <2> HIDE DEF o2
    <2> QED BY <2>1, <2>2 DEF Held, Taken
  <1> HIDE DEF h2, o2, r2
  <1>4. Places(h2, o2, r2)
    BY <1>3 DEF Places
  <1>5. HeadsFirst(m, h2, o2, r2)
    <2>1. HeadsFirst(m, head, own, rank)
      BY DEF Chained
    <2> QED BY <1>1, <1>2, <1>3, <1>10, <2>1, NobodyIsNoFile DEF HeadsFirst, Owners
  <1>6. Preceded(m, h2, o2, r2)
    <2>1. Preceded(m, head, own, rank)
      BY DEF Chained
    <2>2. ASSUME NEW d \in Held(m, own) \ {c}
          PROVE  h2[o2[d]] = d \/ \E g \in Held(m, own) : Follows(m, o2, r2, g, d)
      <3>1. CASE head[own[d]] = d
        BY <1>2, <1>3, <3>1
      <3>2. CASE head[own[d]] # d
        <4>1. PICK g \in Held(m, own) : Follows(m, own, rank, g, d)
          BY <2>1, <3>2 DEF Preceded
        <4>2. g # c
          BY <1>1, <4>1, Numbers DEF Follows
        <4> QED BY <1>3, <4>1, <4>2 DEF Follows
      <3> QED BY <3>1, <3>2
    <2> QED BY <1>3, <1>10, <2>2 DEF Preceded
  <1>7. Followed(m, o2, r2)
    <2>1. Followed(m, own, rank)
      BY DEF Chained
    <2> QED BY <1>2, <1>3, <1>10, <2>1 DEF Followed, Follows
  <1>8. PlacesApart(m, o2, r2)
    <2>1. PlacesApart(m, own, rank)
      BY DEF Chained
    <2> QED BY <1>2, <1>3, <1>10, <2>1 DEF PlacesApart
  <1>9. Chained(m, h2, o2, r2)
    BY <1>4, <1>5, <1>6, <1>7, <1>8 DEF Chained
  <1> QED BY <1>9 DEF h2, o2, r2

\* The chain behind cluster e of a file is cut off.
LEMMA CutOff ==
  ASSUME NEW m, NEW head, NEW own, NEW rank, Chained(m, head, own, rank),
         head[Nobody] = 0,
         NEW e \in Held(m, own), own[e] \in Files, NEW c \in Clusters, m[e] = c,
         NEW m2, m2[e] = EOC, \A d \in Clusters \ {e} : m2[d] = m[d],
         NEW o2, o2 = [d \in Clusters |->
                        IF d \in Taken(m) /\ own[d] = own[e] /\ rank[d] > rank[e]
                          THEN Nobody ELSE own[d]]
  PROVE  Chained(m2, [head EXCEPT ![Nobody] = c], o2, rank)
  <1> DEFINE h2 == [head EXCEPT ![Nobody] = c]
             Behind(d) == own[d] = own[e] /\ rank[d] > rank[e]
  <1>1. Held(m2, o2) = Held(m, own) /\ Held(m, own) \subseteq Clusters /\ c # EOC /\ c # 0
    <2>1. \A d \in Clusters : d \in Held(m2, o2) <=> d \in Held(m, own)
      BY Numbers DEF Held, Taken, Owners
    <2> QED BY <2>1, Numbers DEF Held, Taken
  <1>2. \A d \in Held(m, own) : own[d] \in Files
    BY <1>1, HasHead DEF Held, Owners
  <1>3. /\ h2 \in [Owners -> {0} \cup Clusters]
        /\ o2 \in [Clusters -> Owners \cup Strays] /\ rank \in [Clusters -> Nat]
        /\ h2[Nobody] = c /\ \A o \in Files : h2[o] = head[o]
    BY <1>1, NobodyIsNoFile DEF Chained, Places, Owners
  <1>4. \A d \in Held(m, own) : o2[d] = IF Behind(d) THEN Nobody ELSE own[d]
    BY <1>1 DEF Held
  <1>5. c \in Held(m, own) /\ own[c] = own[e] /\ rank[c] = rank[e] + 1
    BY <1>1 DEF Chained, Followed, Follows
  <1>6. Behind(c) /\ ~Behind(e)
    BY <1>1, <1>3, <1>5
  <1>7. ASSUME NEW d \in Held(m, own), NEW g \in Held(m, own), g # e, Follows(m, own, rank, g, d)
        PROVE  Follows(m2, o2, rank, g, d)
    <2>1. own[d] = own[g] /\ rank[d] = rank[g] + 1 /\ m2[g] = d
      BY <1>1, <1>7 DEF Follows
    <2>2. rank[d] \in Nat /\ rank[g] \in Nat /\ rank[e] \in Nat
      BY <1>1, <1>3
    <2>3. own[g] = own[e] => rank[g] # rank[e]
      BY <1>7 DEF Chained, PlacesApart
    <2>4. Behind(d) <=> Behind(g)
      BY <2>1, <2>2, <2>3
    <2> QED BY <1>4, <2>1, <2>4 DEF Follows
  <1> HIDE DEF h2
  <1>8. Places(h2, o2, rank)
    BY <1>3 DEF Places
  <1>9. HeadsFirst(m2, h2, o2, rank)
    <2>1. HeadsFirst(m, head, own, rank)
      BY DEF Chained
    <2>2. ASSUME NEW o \in Files, h2[o] # 0
          PROVE  h2[o] \in Held(m2, o2) /\ o2[h2[o]] = o /\ rank[h2[o]] = 0
      <3>1. head[o] \in Held(m, own) /\ own[head[o]] = o /\ rank[head[o]] = 0
        BY <1>3, <2>1, <2>2 DEF HeadsFirst, Owners
      <3>2. ~Behind(head[o])
        BY <1>1, <1>3, <3>1
      <3> QED BY <1>1, <1>3, <1>4, <3>1, <3>2
    <2>3. o2[c] = Nobody
      BY <1>4, <1>5, <1>6
    <2> QED BY <1>1, <1>3, <1>5, <2>2, <2>3, NobodyIsNoFile DEF HeadsFirst, Owners
  <1>10. Preceded(m2, h2, o2, rank)
    <2>1. Preceded(m, head, own, rank) /\ HeadsFirst(m, head, own, rank)
      BY DEF Chained
    <2> SUFFICES ASSUME NEW d \in Held(m, own)
                 PROVE  h2[o2[d]] = d \/ \E g \in Held(m, own) : Follows(m2, o2, rank, g, d)
      BY <1>1 DEF Preceded
    <2>2. CASE head[own[d]] = d
      <3>1. rank[d] = 0
        BY <1>1, <1>2, <2>1, <2>2, Numbers DEF HeadsFirst, Owners
      <3>2. o2[d] = own[d]
        BY <1>1, <1>3, <1>4, <3>1
      <3> QED BY <1>2, <1>3, <2>2, <3>2
    <2>3. CASE head[own[d]] # d
      <3>1. PICK g \in Held(m, own) : Follows(m, own, rank, g, d)
        BY <2>1, <2>3 DEF Preceded
      <3>2. CASE g # e
        BY <1>7, <3>1, <3>2
      <3>3. CASE g = e
        <4>1. d = c
          BY <3>1, <3>3 DEF Follows
        <4> QED BY <1>3, <1>4, <1>6, <4>1
      <3> QED BY <3>2, <3>3
    <2> QED BY <2>2, <2>3
  <1>11. Followed(m2, o2, rank)
    <2>1. Followed(m, own, rank)
      BY DEF Chained
    <2>2. ASSUME NEW d \in Held(m, own) \ {e}, m2[d] # EOC
          PROVE  m2[d] \in Held(m, own) /\ Follows(m2, o2, rank, d, m2[d])
      <3>1. m2[d] = m[d]
        BY <1>1
      <3>2. m[d] \in Held(m, own) /\ Follows(m, own, rank, d, m[d])
        BY <2>1, <2>2, <3>1 DEF Followed
      <3> QED BY <1>7, <3>1, <3>2
    <2> QED BY <1>1, <2>2 DEF Followed
  <1>12. PlacesApart(m2, o2, rank)
    <2>1. PlacesApart(m, own, rank)
      BY DEF Chained
    <2>2. \A d, g \in Held(m, own) : o2[d] = o2[g] => own[d] = own[g]
      BY <1>2, <1>4, NobodyIsNoFile
    <2> QED BY <1>1, <2>1, <2>2 DEF PlacesApart
  <1>13. Chained(m2, h2, o2, rank)
    BY <1>8, <1>9, <1>10, <1>11, <1>12 DEF Chained
  <1> QED BY <1>13 DEF h2

\* The chain of a file is given up.
LEMMA GivenUp ==
  ASSUME NEW m, NEW head, NEW own, NEW rank, Chained(m, head, own, rank),
         head[Nobody] = 0, NEW f \in Files, NEW c, head[f] = c, c # 0,
         NEW o2, o2 = [d \in Clusters |-> IF own[d] = f THEN Nobody ELSE own[d]]
  PROVE  Chained(m, [head EXCEPT ![Nobody] = c, ![f] = 0], o2, rank)
  <1> DEFINE h2 == [head EXCEPT ![Nobody] = c, ![f] = 0]
  <1>1. c \in Held(m, own) /\ own[c] = f /\ Held(m, own) \subseteq Clusters
    BY DEF Chained, HeadsFirst, Owners, Held, Taken
  <1>2. \A d \in Held(m, own) : own[d] \in Files
    BY <1>1, HasHead DEF Held, Owners
  <1>3. /\ h2 \in [Owners -> {0} \cup Clusters]
        /\ o2 \in [Clusters -> Owners \cup Strays] /\ rank \in [Clusters -> Nat]
        /\ h2[Nobody] = c /\ h2[f] = 0 /\ \A o \in Files \ {f} : h2[o] = head[o]
        /\ \A d \in Held(m, own) : o2[d] = IF own[d] = f THEN Nobody ELSE own[d]
    BY <1>1, NobodyIsNoFile DEF Chained, Places, Owners
  <1>11. Held(m, o2) = Held(m, own)
    BY DEF Held, Taken, Owners
  <1>4. ASSUME NEW d \in Held(m, own), NEW g \in Held(m, own), Follows(m, own, rank, g, d)
        PROVE  Follows(m, o2, rank, g, d)
    BY <1>3, <1>4 DEF Follows
  <1> HIDE DEF h2
  <1>5. Places(h2, o2, rank)
    BY <1>3 DEF Places
  <1>6. HeadsFirst(m, h2, o2, rank)
    <2>1. HeadsFirst(m, head, own, rank)
      BY DEF Chained
    <2> QED BY <1>1, <1>3, <1>11, <2>1, NobodyIsNoFile DEF HeadsFirst, Owners
  <1>7. Preceded(m, h2, o2, rank)
    <2>1. Preceded(m, head, own, rank)
      BY DEF Chained
    <2> SUFFICES ASSUME NEW d \in Held(m, own)
                 PROVE  h2[o2[d]] = d \/ \E g \in Held(m, own) : Follows(m, o2, rank, g, d)
      BY <1>11 DEF Preceded
    <2>2. CASE head[own[d]] = d
      BY <1>2, <1>3, <2>2
    <2>3. CASE head[own[d]] # d
      BY <1>4, <2>1, <2>3 DEF Preceded
    <2> QED BY <2>2, <2>3
  <1>8. Followed(m, o2, rank)
    <2>1. Followed(m, own, rank)
      BY DEF Chained
    <2> QED BY <1>4, <1>11, <2>1 DEF Followed
  <1>9. PlacesApart(m, o2, rank)
    <2>1. PlacesApart(m, own, rank)
      BY DEF Chained
    <2> QED BY <1>2, <1>3, <1>11, <2>1, NobodyIsNoFile DEF PlacesApart
  <1>10. Chained(m, h2, o2, rank)
    BY <1>5, <1>6, <1>7, <1>8, <1>9 DEF Chained
  <1> QED BY <1>10 DEF h2

\* The head of a chain comes first.
LEMMA HeadIsFirst ==
  ASSUME NEW m, NEW head, NEW own, NEW rank, Chained(m, head, own, rank),
         NEW c \in Held(m, own), head[own[c]] = c,
         NEW d \in Held(m, own), own[d] = own[c]
  PROVE  rank[c] <= rank[d]
  <1>1. \A g \in Held(m, own) : rank[g] \in Nat
    BY DEF Chained, Places, Held, Taken
  <1> SUFFICES ASSUME rank[d] < rank[c] PROVE FALSE
    BY <1>1
  <1> DEFINE before == {g \in Held(m, own) : own[g] = own[c] /\ rank[g] < rank[c]}
             T == {rank[g] : g \in before}
  <1>2. T \subseteq Nat /\ T # {}
    BY <1>1
  <1>3. PICK x \in T : \A y \in T : x <= y
    <2> HIDE DEF T
    <2> QED BY <1>2, Lowest
  <1>4. PICK e \in before : rank[e] = x
    BY <1>3
  <1>5. head[own[e]] # e
    BY <1>1, <1>4
  <1>6. PICK g \in Held(m, own) : own[g] = own[e] /\ rank[e] = rank[g] + 1
    BY <1>4, <1>5 DEF Chained, Preceded, Follows
  <1>7. rank[g] < rank[e] /\ rank[e] \in Nat
    BY <1>1, <1>4, <1>6
  <1>8. rank[g] < rank[c]
    BY <1>1, <1>4, <1>7
  <1>9. g \in before
    BY <1>4, <1>6, <1>8
  <1>10. rank[g] \in T
    BY <1>9
  <1> HIDE DEF T
  <1>11. rank[e] <= rank[g]
    BY <1>3, <1>4, <1>10
  <1> QED BY <1>1, <1>7, <1>11

\* The first of a chain that nobody has is freed.
LEMMA FreedHead ==
  ASSUME NEW m, NEW head, NEW own, NEW rank, Chained(m, head, own, rank),
         NEW c \in Held(m, own), head[Nobody] = c,
         NEW m2, m2[c] = FREE, \A d \in Clusters \ {c} : m2[d] = m[d],
         NEW nxt, nxt = IF m[c] \in Clusters THEN m[c] ELSE 0
  PROVE  Chained(m2, [head EXCEPT ![Nobody] = nxt], own, rank)
  <1> DEFINE h2 == [head EXCEPT ![Nobody] = nxt]
  <1>1. Held(m2, own) = Held(m, own) \ {c} /\ Held(m, own) \subseteq Clusters /\ c # 0
    <2>1. \A d \in Clusters : d \in Held(m2, own) <=> d \in Held(m, own) /\ d # c
      BY DEF Held, Taken
    <2> QED BY <2>1, Numbers DEF Held, Taken
  <1>2. /\ h2 \in [Owners -> {0} \cup Clusters]
        /\ own \in [Clusters -> Owners \cup Strays] /\ rank \in [Clusters -> Nat]
        /\ h2[Nobody] = nxt /\ \A o \in Files : h2[o] = head[o]
    BY <1>1, NobodyIsNoFile DEF Chained, Places, Owners
  <1>3. own[c] = Nobody
    BY <1>1 DEF Chained, HeadsFirst, Owners
  <1>4. ASSUME m[c] \in Clusters
        PROVE m[c] \in Held(m, own) \ {c} /\ own[m[c]] = Nobody /\ rank[m[c]] = rank[c] + 1
    <2>1. m[c] \in Held(m, own) /\ own[m[c]] = Nobody /\ rank[m[c]] = rank[c] + 1
      BY <1>3, <1>4, Numbers DEF Chained, Followed, Follows
    <2>2. rank[c] \in Nat
      BY <1>1, <1>2
    <2> QED BY <2>1, <2>2
  <1> HIDE DEF h2
  <1>5. Places(h2, own, rank)
    BY <1>2 DEF Places
  <1>6. HeadsFirst(m2, h2, own, rank)
    <2>1. HeadsFirst(m, head, own, rank)
      BY DEF Chained
    <2>2. \A o \in Files : h2[o] # c
      BY <1>1, <1>2, <1>3, <2>1, NobodyIsNoFile DEF HeadsFirst, Owners
    <2>3. nxt # 0 => nxt \in Held(m2, own) /\ own[nxt] = Nobody
      BY <1>1, <1>4
    <2> QED BY <1>1, <1>2, <2>1, <2>2, <2>3, NobodyIsNoFile DEF HeadsFirst, Owners
  <1>7. Preceded(m2, h2, own, rank)
    <2>1. Preceded(m, head, own, rank)
      BY DEF Chained
    <2> SUFFICES ASSUME NEW d \in Held(m, own) \ {c}
                 PROVE  h2[own[d]] = d \/ \E e \in Held(m2, own) : Follows(m2, own, rank, e, d)
      BY <1>1 DEF Preceded
    <2>2. CASE head[own[d]] = d
      BY <1>1, <1>2, <2>2 DEF Held, Owners
    <2>3. CASE head[own[d]] # d
      <3>1. PICK g \in Held(m, own) : Follows(m, own, rank, g, d)
        BY <2>1, <2>3 DEF Preceded
      <3>2. CASE g = c
        BY <1>1, <1>2, <1>3, <3>1, <3>2 DEF Follows
      <3>3. CASE g # c
        BY <1>1, <3>1, <3>3 DEF Follows
      <3> QED BY <3>2, <3>3
    <2> QED BY <2>2, <2>3
  <1>8. Followed(m2, own, rank)
    <2>1. Followed(m, own, rank)
      BY DEF Chained
    <2> SUFFICES ASSUME NEW d \in Held(m, own) \ {c}, m2[d] # EOC
                 PROVE  m2[d] \in Held(m2, own) /\ Follows(m2, own, rank, d, m2[d])
      BY <1>1 DEF Followed
    <2>2. m2[d] = m[d] /\ m[d] \in Held(m, own) /\ Follows(m, own, rank, d, m[d])
      BY <1>1, <2>1 DEF Followed
    <2>3. m[d] # c
      <3> SUFFICES ASSUME m[d] = c PROVE FALSE
        OBVIOUS
      <3>1. own[d] = own[c] /\ rank[c] = rank[d] + 1
        BY <2>2 DEF Follows
      <3>2. rank[c] <= rank[d]
        BY <1>3, <3>1, HeadIsFirst
      <3>3. rank[d] \in Nat /\ rank[c] \in Nat
        BY <1>1, <1>2
      <3> QED BY <3>1, <3>2, <3>3
    <2> QED BY <1>1, <2>2, <2>3 DEF Follows
  <1>9. PlacesApart(m2, own, rank)
    <2>1. PlacesApart(m, own, rank)
      BY DEF Chained
    <2> QED BY <1>1, <2>1 DEF PlacesApart
  <1>10. Chained(m2, h2, own, rank)
    BY <1>5, <1>6, <1>7, <1>8, <1>9 DEF Chained
  <1> QED BY <1>10 DEF h2

\* Only the FAT counts.
LEMMA SameChains ==
  ASSUME NEW m, NEW head, NEW own, NEW rank, Chained(m, head, own, rank),
         NEW m2, \A d \in Clusters : m2[d] = m[d]
  PROVE  Chained(m2, head, own, rank)
  <1>1. Held(m2, own) = Held(m, own) /\ \A d \in Held(m, own) : m2[d] = m[d]
    BY DEF Held, Taken
  <1>2. HeadsFirst(m2, head, own, rank) /\ Preceded(m2, head, own, rank)
    BY <1>1 DEF Chained, HeadsFirst, Preceded, Follows
  <1>3. Followed(m2, own, rank) /\ PlacesApart(m2, own, rank)
    BY <1>1 DEF Chained, Followed, Follows, PlacesApart
  <1> QED BY <1>2, <1>3 DEF Chained

-----------------------------------------------------------------------------
\* Walks along a FAT.

\* Behind the end of a chain there is nothing.
LEMMA Stops ==
  ASSUME NEW m, NEW first, NEW i \in Nat, Walk(m, first)[i] \notin Clusters
  PROVE  \A j \in Nat : j > i => Walk(m, first)[j] = FREE
  <1> DEFINE w == Walk(m, first)
             T == {j \in Nat : j > i => w[j] = FREE}
  <1> SUFFICES Nat \subseteq T
    OBVIOUS
  <1>1. 0 \in T
    OBVIOUS
  <1>2. ASSUME NEW j \in Nat, j \in T PROVE j + 1 \in T
    <2> SUFFICES ASSUME j + 1 > i PROVE w[j + 1] = FREE
      OBVIOUS
    <2>1. w[j + 1] = EntryOf(m, w[j])
      BY Walks
    <2>2. j = i \/ w[j] = FREE
      BY <1>2
    <2>3. w[j] \notin Clusters
      BY <2>2, Numbers
    <2> QED BY <2>1, <2>3 DEF EntryOf
  <1> HIDE DEF T
  <1> QED BY <1>1, <1>2, AllNumbers

LEMMA Repeats ==
  ASSUME NEW m, NEW first, NEW i \in Nat, NEW j \in Nat,
         Walk(m, first)[i] = Walk(m, first)[j]
  PROVE  \A t \in Nat : Walk(m, first)[i + t] = Walk(m, first)[j + t]
  <1> DEFINE w == Walk(m, first)
             T == {t \in Nat : w[i + t] = w[j + t]}
  <1> SUFFICES Nat \subseteq T
    OBVIOUS
  <1>1. 0 \in T
    OBVIOUS
  <1>2. ASSUME NEW t \in Nat, t \in T PROVE t + 1 \in T
    <2>1. w[(i + t) + 1] = EntryOf(m, w[i + t]) /\ w[(j + t) + 1] = EntryOf(m, w[j + t])
      BY Walks
    <2>2. (i + t) + 1 = i + (t + 1) /\ (j + t) + 1 = j + (t + 1)
      OBVIOUS
    <2>3. w[i + t] = w[j + t]
      BY <1>2
    <2> QED BY <2>1, <2>2, <2>3
  <1> HIDE DEF T
  <1> QED BY <1>1, <1>2, AllNumbers

\* The walk from the head of a file passes through its clusters in their order.
LEMMA WalkPlaces ==
  ASSUME NEW m, NEW head, NEW own, NEW rank, Chained(m, head, own, rank),
         NEW f \in Files, NEW first, head[f] = IF first \in Clusters THEN first ELSE 0,
         NEW k \in Nat, Walk(m, first)[k] \in Clusters
  PROVE  LET c == Walk(m, first)[k] IN c \in Taken(m) /\ own[c] = f /\ rank[c] = k
  <1> DEFINE w == Walk(m, first)
             There(j) == w[j] \in Taken(m) /\ own[w[j]] = f /\ rank[w[j]] = j
             T == {j \in Nat : w[j] \in Clusters => There(j)}
  <1> SUFFICES Nat \subseteq T
    OBVIOUS
  <1>1. 0 \in T
    <2>1. w[0] = first
      BY Walks
    <2> QED BY <2>1, Numbers DEF Chained, HeadsFirst, Held, Owners
  <1>2. ASSUME NEW j \in Nat, j \in T PROVE j + 1 \in T
    <2> SUFFICES ASSUME w[j + 1] \in Clusters PROVE There(j + 1)
      OBVIOUS
    <2>1. w[j + 1] = EntryOf(m, w[j])
      BY Walks
    <2>2. w[j] \in Clusters /\ w[j + 1] = m[w[j]]
      BY <2>1, Numbers DEF EntryOf
    <2>3. There(j)
      BY <1>2, <2>2
    <2>4. m[w[j]] \in Taken(m) /\ Follows(m, own, rank, w[j], m[w[j]])
      BY <2>2, <2>3, Numbers DEF Chained, Followed, Held, Owners
    <2> QED BY <2>2, <2>3, <2>4 DEF Follows
  <1> HIDE DEF T
  <1> QED BY <1>1, <1>2, AllNumbers

LEMMA PlaceWalked ==
  ASSUME NEW m, NEW head, NEW own, NEW rank, Chained(m, head, own, rank),
         NEW f \in Files, NEW first, head[f] = IF first \in Clusters THEN first ELSE 0,
         NEW c \in Taken(m), own[c] = f
  PROVE  rank[c] \in Nat /\ Walk(m, first)[rank[c]] = c
  <1> DEFINE w == Walk(m, first)
             T == {k \in Nat : \A d \in Taken(m) : own[d] = f /\ rank[d] = k => w[k] = d}
  <1>1. \A d \in Taken(m) : rank[d] \in Nat
    BY DEF Chained, Places, Taken
  <1> SUFFICES Nat \subseteq T
    BY <1>1
  <1>2. 0 \in T
    <2> SUFFICES ASSUME NEW d \in Taken(m), own[d] = f, rank[d] = 0 PROVE w[0] = d
      OBVIOUS
    <2>1. head[f] = d
      <3> SUFFICES ASSUME head[f] # d PROVE FALSE
        OBVIOUS
      <3>1. PICK g \in Taken(m) : rank[d] = rank[g] + 1
        BY DEF Chained, Preceded, Follows, Held, Owners
      <3> QED BY <1>1, <3>1
    <2> QED BY <2>1, Walks, Numbers DEF Taken
  <1>3. ASSUME NEW k \in Nat, k \in T PROVE k + 1 \in T
    <2> SUFFICES ASSUME NEW d \in Taken(m), own[d] = f, rank[d] = k + 1 PROVE w[k + 1] = d
      OBVIOUS
    <2>1. head[f] # d
      BY Numbers DEF Chained, HeadsFirst, Owners, Taken
    <2>2. PICK g \in Taken(m) : m[g] = d /\ own[g] = f /\ rank[d] = rank[g] + 1
      BY <2>1 DEF Chained, Preceded, Follows, Held, Owners
    <2>3. rank[g] = k
      BY <1>1, <2>2
    <2>4. w[k] = g
      BY <1>3, <2>2, <2>3
    <2>5. w[k + 1] = EntryOf(m, w[k])
      BY Walks
    <2> QED BY <2>2, <2>4, <2>5 DEF EntryOf, Taken
  <1> HIDE DEF T
  <1> QED BY <1>2, <1>3, AllNumbers

\* A chain has a cluster at every place before the one of c.
LEMMA PlacesBefore ==
  ASSUME NEW m, NEW head, NEW own, NEW rank, Chained(m, head, own, rank),
         NEW f \in Files, NEW first, head[f] = IF first \in Clusters THEN first ELSE 0,
         NEW c \in Taken(m), own[c] = f, NEW k \in 0 .. rank[c]
  PROVE  /\ Walk(m, first)[k] \in Taken(m)
         /\ own[Walk(m, first)[k]] = f /\ rank[Walk(m, first)[k]] = k
  <1>1. rank[c] \in Nat /\ Walk(m, first)[rank[c]] = c /\ c \in Clusters /\ k \in Nat
    BY PlaceWalked DEF Taken
  <1>2. Walk(m, first)[k] \in Clusters
    <2> SUFFICES ASSUME Walk(m, first)[k] \notin Clusters PROVE FALSE
      OBVIOUS
    <2>1. rank[c] > k
      BY <1>1
    <2> QED BY <1>1, <2>1, Stops, Numbers
  <1> QED BY <1>1, <1>2, WalkPlaces

LEMMA FiniteClusters ==
  IsFiniteSet(Clusters) /\ Cardinality(Clusters) = n_fatent - 2
  <1>1. Cardinality(Clusters) = (n_fatent - 1) - 2 + 1
    BY Numbers, FS_Interval DEF Clusters
  <1> QED BY <1>1, Numbers, FS_Interval DEF Clusters

\* A chain is as long as the place of any of its clusters, and no longer than
\* the FAT.
LEMMA ChainLength ==
  ASSUME NEW m, NEW head, NEW own, NEW rank, Chained(m, head, own, rank),
         NEW f \in Files, NEW c \in Taken(m), own[c] = f
  PROVE  LET S == {d \in Taken(m) : own[d] = f} IN
         /\ IsFiniteSet(S) /\ Cardinality(S) \in Nat
         /\ rank[c] < Cardinality(S) /\ rank[c] < n_fatent - 2
  <1> DEFINE S == {d \in Taken(m) : own[d] = f}
             w == Walk(m, head[f])
             g == [k \in 0 .. rank[c] |-> w[k]]
  <1>1. head[f] = IF head[f] \in Clusters THEN head[f] ELSE 0
    BY DEF Chained, Places, Owners
  <1>2. rank[c] \in Nat
    BY <1>1, PlaceWalked
  <1>3. \A k \in 0 .. rank[c] : w[k] \in S /\ rank[w[k]] = k
    BY <1>1, PlacesBefore
  <1>4. S \subseteq Clusters
    BY DEF Taken
  <1> HIDE DEF S, w
  <1>5. g \in Injection(0 .. rank[c], S)
    BY <1>3 DEF Injection, IsInjective
  <1>6. /\ IsFiniteSet(S) /\ Cardinality(S) \in Nat
        /\ Cardinality(S) <= n_fatent - 2
    BY <1>4, FiniteClusters, FS_Subset, FS_CardinalityType
  <1>7. IsFiniteSet(0 .. rank[c]) /\ Cardinality(0 .. rank[c]) = rank[c] + 1
    <2>1. Cardinality(0 .. rank[c]) = rank[c] - 0 + 1
      BY <1>2, FS_Interval
    <2> QED BY <1>2, <2>1, FS_Interval
  <1> HIDE DEF g
  <1>8. Cardinality(0 .. rank[c]) <= Cardinality(S)
    BY <1>5, <1>6, <1>7, FS_Injection
  <1>9. rank[c] < Cardinality(S) /\ rank[c] < n_fatent - 2
    BY <1>2, <1>6, <1>7, <1>8, Numbers
  <1> QED BY <1>6, <1>9 DEF S

\* The clusters of the chain that begins at the head of a file.
LEMMA ChainOwned ==
  ASSUME NEW m, NEW head, NEW own, NEW rank, Chained(m, head, own, rank),
         NEW f \in Files, NEW first, head[f] = IF first \in Clusters THEN first ELSE 0
  PROVE  ChainIn(m, first) = {d \in Taken(m) : own[d] = f}
  <1> DEFINE w == Walk(m, first)
  <1>1. ASSUME NEW d \in ChainIn(m, first) PROVE d \in Taken(m) /\ own[d] = f
    <2>1. PICK k \in 0 .. n_fatent : d = w[k] /\ d \in Clusters
      BY DEF ChainIn
    <2> QED BY <2>1, WalkPlaces, Numbers
  <1>2. ASSUME NEW d \in Taken(m), own[d] = f PROVE d \in ChainIn(m, first)
    <2>1. rank[d] \in Nat /\ w[rank[d]] = d
      BY <1>2, PlaceWalked
    <2>2. rank[d] < n_fatent - 2
      BY <1>2, ChainLength
    <2>3. rank[d] \in 0 .. n_fatent
      BY <2>1, <2>2, Numbers
    <2> QED BY <2>1, <2>3 DEF ChainIn, Taken
  <1> QED BY <1>1, <1>2

\* It ends.
LEMMA ChainEnds ==
  ASSUME NEW m, NEW head, NEW own, NEW rank, Chained(m, head, own, rank),
         NEW f \in Files, NEW c \in Taken(m), own[c] = f
  PROVE  \E e \in Taken(m) : own[e] = f /\ m[e] = EOC
  <1> DEFINE S == {d \in Taken(m) : own[d] = f}
             T == {n_fatent - rank[d] : d \in S}
  <1>1. \A d \in S : rank[d] \in Nat /\ rank[d] < n_fatent - 2
    BY ChainLength DEF Chained, Places, Taken
  <1>2. T \subseteq Nat /\ T # {}
    BY <1>1, Numbers
  <1>3. PICK x \in T : \A y \in T : x <= y
    <2> HIDE DEF T
    <2> QED BY <1>2, Lowest
  <1>4. PICK e \in S : x = n_fatent - rank[e]
    BY <1>3
  <1>5. m[e] = EOC
    <2> SUFFICES ASSUME m[e] # EOC PROVE FALSE
      OBVIOUS
    <2>1. m[e] \in S /\ rank[m[e]] = rank[e] + 1
      BY <1>4 DEF Chained, Followed, Follows, Held, Owners
    <2>2. n_fatent - rank[m[e]] \in T
      BY <2>1
    <2> HIDE DEF T, S
    <2>3. x <= n_fatent - rank[m[e]]
      BY <1>3, <2>2
    <2> QED BY <1>1, <1>4, <2>1, <2>3, Numbers
  <1> QED BY <1>4, <1>5

\* A chain of n clusters has one at place n - 1, or behind.
LEMMA LongEnough ==
  ASSUME NEW m, NEW head, NEW own, NEW rank, Chained(m, head, own, rank),
         NEW f \in Files, NEW n \in Nat, n > 0,
         n <= Cardinality({d \in Taken(m) : own[d] = f})
  PROVE  \E c \in Taken(m) : own[c] = f /\ rank[c] >= n - 1
  <1> DEFINE S == {d \in Taken(m) : own[d] = f}
             g == [d \in S |-> rank[d]]
  <1>1. \A d \in S : rank[d] \in Nat
    BY DEF Chained, Places, Taken
  <1> SUFFICES ASSUME \A c \in S : rank[c] < n - 1 PROVE FALSE
    BY <1>1
  <1>2. \A c \in S : rank[c] \in 0 .. n - 2
    BY <1>1
  <1>3. g \in Injection(S, 0 .. n - 2)
    <2>1. \A c, d \in S : rank[c] = rank[d] => c = d
      BY DEF Chained, PlacesApart, Held, Owners
    <2> HIDE DEF S
    <2> QED BY <1>2, <2>1 DEF Injection, IsInjective
  <1>4. IsFiniteSet(S) /\ S \subseteq Clusters
    BY FiniteClusters, FS_Subset DEF Taken
  <1>5. IsFiniteSet(0 .. n - 2) /\ Cardinality(0 .. n - 2) = n - 1
    <2>1. CASE n = 1
      <3>1. 0 .. n - 2 = {}
        BY <2>1
      <3> QED BY <2>1, <3>1, FS_EmptySet
    <2>2. CASE n # 1
      <3>1. Cardinality(0 .. n - 2) = (n - 2) - 0 + 1
        BY <2>2, FS_Interval
      <3> QED BY <2>2, <3>1, FS_Interval
    <2> QED BY <2>1, <2>2
  <1> HIDE DEF S, g
  <1>6. Cardinality(S) <= Cardinality(0 .. n - 2)
    BY <1>3, <1>4, <1>5, FS_Injection
  <1>7. n <= Cardinality(S)
    BY DEF S
  <1> QED BY <1>4, <1>5, <1>6, <1>7, FS_CardinalityType

\* A walk that comes to the end of a chain comes to no cluster twice.
LEMMA WalkOnce ==
  ASSUME NEW m, NEW first, NEW E \in Nat, Walk(m, first)[E] \in Clusters,
         m[Walk(m, first)[E]] = EOC,
         NEW i \in Nat, NEW j \in Nat, Walk(m, first)[i] \in Clusters,
         Walk(m, first)[i] = Walk(m, first)[j]
  PROVE  i <= E /\ i = j
  <1> DEFINE w == Walk(m, first)
  <1>1. w[E + 1] \notin Clusters
    BY Walks, Numbers DEF EntryOf
  <1>2. ASSUME NEW k \in Nat, w[k] \in Clusters PROVE k <= E
    <2>1. \A n \in Nat : n > E + 1 => w[n] = FREE
      <3>1. E + 1 \in Nat
        OBVIOUS
      <3> QED BY <1>1, <3>1, Stops
    <2> QED BY <1>1, <1>2, <2>1, Numbers
  <1>3. ASSUME NEW p \in Nat, NEW q \in Nat, p < q, w[p] = w[q], w[q] \in Clusters
        PROVE  FALSE
    <2>1. q <= E
      BY <1>2, <1>3
    <2>2. E - q \in Nat /\ q + (E - q) = E /\ p + (E - q) \in Nat /\ p + (E - q) < E
      BY <1>3, <2>1
    <2>3. w[p + (E - q)] = w[E]
      <3>1. \A t \in Nat : w[p + t] = w[q + t]
        BY <1>3, Repeats
      <3>2. w[p + (E - q)] = w[q + (E - q)]
        BY <2>2, <3>1
      <3> QED BY <2>2, <3>2
    <2>4. w[(p + (E - q)) + 1] = EntryOf(m, w[E])
      BY <2>2, <2>3, Walks
    <2>5. w[(p + (E - q)) + 1] \notin Clusters
      BY <2>4, Numbers DEF EntryOf
    <2> DEFINE n == (p + (E - q)) + 1
    <2>6. n \in Nat /\ n <= E
      BY <2>2
    <2> HIDE DEF n
    <2>7. w[n] \notin Clusters
      BY <2>5 DEF n
    <2>8. w[E] = FREE \/ n = E
      BY <2>6, <2>7, Stops
    <2> QED BY <2>7, <2>8, Numbers
  <1> QED BY <1>2, <1>3

\* The chains that begin at first[f] are apart and end, and only strays are not
\* in one.
SoundIn(m, first) ==
  /\ \A c \in Clusters : m[c] \in {FREE, EOC} \cup Clusters
  /\ \A f \in Files : \A c \in ChainIn(m, first[f]) : m[c] # FREE
  /\ \A f \in Files : ChainIn(m, first[f]) # {} => \E c \in ChainIn(m, first[f]) : m[c] = EOC
  /\ \A f, g \in Files : f # g => ChainIn(m, first[f]) \cap ChainIn(m, first[g]) = {}
  /\ Strays = {} => \A c \in Taken(m) : \E f \in Files : c \in ChainIn(m, first[f])

\* Then every cluster of a chain has an owner and a place.

LEMMA SoundChains ==
  ASSUME NEW m, NEW first, SoundIn(m, first)
  PROVE  \E head, own, rank :
           /\ Chained(m, head, own, rank)
           /\ head[Nobody] = 0
           /\ \A f \in Files : head[f] = IF first[f] \in Clusters THEN first[f] ELSE 0
  <1> DEFINE w(f) == Walk(m, first[f])
             head == [o \in Owners |->
                       IF o \in Files /\ first[o] \in Clusters THEN first[o] ELSE 0]
             InChain(c, f) == c \in ChainIn(m, first[f])
             S == {c \in Taken(m) : \E f \in Files : InChain(c, f)}
             own == [c \in Clusters |->
                      IF c \in S THEN CHOOSE f \in Files : InChain(c, f)
                      ELSE IF c \in Taken(m) THEN Lost ELSE Nobody]
             place(c) == CHOOSE k \in Nat : w(own[c])[k] = c
             rank == [c \in Clusters |-> IF c \in S THEN place(c) ELSE 0]
  <1> USE DEF SoundIn
  <1>1. ASSUME NEW f \in Files, NEW i \in Nat, w(f)[i] \in Clusters
        PROVE  /\ w(f)[i] \in ChainIn(m, first[f])
               /\ \A j \in Nat : w(f)[i] = w(f)[j] => i = j
    <2>1. w(f)[0] \in Clusters
      <3> SUFFICES ASSUME w(f)[0] \notin Clusters PROVE FALSE
        OBVIOUS
      <3>1. i > 0 => w(f)[i] = FREE
        BY Stops
      <3> QED BY <1>1, <3>1, Numbers
    <2>2. 0 \in 0 .. n_fatent
      BY Numbers
    <2>3. w(f)[0] \in ChainIn(m, first[f])
      BY <2>1, <2>2 DEF ChainIn
    <2>4. PICK e \in ChainIn(m, first[f]) : m[e] = EOC
      BY <2>3
    <2>5. PICK E \in 0 .. n_fatent : e = w(f)[E] /\ e \in Clusters
      BY DEF ChainIn
    <2>6. E \in Nat /\ E <= n_fatent
      BY <2>5, Numbers
    <2>7. i <= E /\ \A j \in Nat : w(f)[i] = w(f)[j] => i = j
      BY <1>1, <2>4, <2>5, <2>6, WalkOnce
    <2>8. i \in 0 .. n_fatent
      BY <2>6, <2>7, Numbers
    <2> QED BY <1>1, <2>7, <2>8 DEF ChainIn
  <1>2. ASSUME NEW c \in S PROVE own[c] \in Files /\ c \in ChainIn(m, first[own[c]])
    BY DEF Taken
  <1>3. ASSUME NEW c \in S PROVE rank[c] \in Nat /\ w(own[c])[rank[c]] = c
    <2>1. \E k \in Nat : w(own[c])[k] = c
      <3> HIDE DEF own
      <3>1. c \in {w(own[c])[k] : k \in 0 .. n_fatent}
        BY <1>2 DEF ChainIn
      <3>2. PICK k \in 0 .. n_fatent : c = w(own[c])[k]
        BY <3>1
      <3> QED BY <3>2, Numbers
    <2> QED BY <2>1 DEF Taken
  <1>4. ASSUME NEW f \in Files, NEW k \in Nat, w(f)[k] \in Clusters
        PROVE  w(f)[k] \in S /\ own[w(f)[k]] = f /\ rank[w(f)[k]] = k
    <2> DEFINE c == w(f)[k]
    <2>1. c \in ChainIn(m, first[f])
      BY <1>1, <1>4
    <2>2. c \in S
      BY <1>4, <2>1 DEF Taken
    <2> HIDE DEF c
    <2>3. own[c] = f
      <3> HIDE DEF own
      <3> QED BY <1>2, <2>1, <2>2
    <2>4. rank[c] \in Nat /\ w(f)[rank[c]] = c
      BY <1>3, <2>2, <2>3
    <2> HIDE DEF own, rank
    <2>5. rank[c] = k
      BY <1>1, <1>4, <2>4 DEF c
    <2> QED BY <2>2, <2>3, <2>5 DEF c
  <1>5. /\ head \in [Owners -> {0} \cup Clusters]
        /\ head[Nobody] = 0
        /\ \A f \in Files : head[f] = IF first[f] \in Clusters THEN first[f] ELSE 0
    BY NobodyIsNoFile DEF Owners
  <1>6. own \in [Clusters -> Owners \cup Strays] /\ rank \in [Clusters -> Nat]
    <2>1. \A c \in Clusters : own[c] \in Owners \cup Strays
      BY <1>2 DEF Owners, Strays
    <2>2. \A c \in Clusters : rank[c] \in Nat
      BY <1>3
    <2> QED BY <2>1, <2>2
  <1>13. Held(m, own) = S
    <2>1. Lost \notin Owners
      <3>1. \E x : x \notin Owners
        BY NoSetContainsEverything
      <3> QED BY <3>1 DEF Lost
    <2>2. \A c \in Taken(m) : c \in Clusters /\ (own[c] \in Owners <=> c \in S)
      BY <1>2, <2>1 DEF Owners, Taken
    <2> HIDE DEF own
    <2> QED BY <2>2 DEF Held
  <1>14. S \subseteq Taken(m)
    OBVIOUS
  <1> HIDE DEF head, own, rank, S
  <1>7. Places(head, own, rank)
    BY <1>5, <1>6 DEF Places
  <1>8. HeadsFirst(m, head, own, rank)
    <2>1. \A f \in Files : w(f)[0] = first[f]
      BY Walks
    <2>2. ASSUME NEW f \in Files, head[f] # 0
          PROVE  head[f] \in S /\ own[head[f]] = f /\ rank[head[f]] = 0
      BY <1>4, <1>5, <2>1, <2>2
    <2> QED BY <1>5, <1>13, <2>2 DEF HeadsFirst, Owners
  <1>9. Preceded(m, head, own, rank)
    <2> SUFFICES ASSUME NEW c \in S, head[own[c]] # c
                 PROVE  \E d \in S : Follows(m, own, rank, d, c)
      BY <1>13 DEF Preceded
    <2> DEFINE f == own[c]
    <2>1. f \in Files /\ rank[c] \in Nat /\ w(f)[rank[c]] = c /\ c \in Clusters
      BY <1>2, <1>3, <1>14 DEF Taken
    <2> HIDE DEF f
    <2>2. rank[c] # 0
      BY <1>5, <2>1, Walks DEF f
    <2>3. rank[c] - 1 \in Nat /\ (rank[c] - 1) + 1 = rank[c]
      BY <2>1, <2>2
    <2>4. w(f)[rank[c]] = EntryOf(m, w(f)[rank[c] - 1])
      BY <2>3, Walks
    <2>5. w(f)[rank[c] - 1] \in Clusters /\ m[w(f)[rank[c] - 1]] = c
      BY <2>1, <2>4, Numbers DEF EntryOf
    <2> DEFINE d == w(f)[rank[c] - 1]
    <2>6. d \in S /\ own[d] = f /\ rank[d] = rank[c] - 1
      BY <1>4, <2>1, <2>3, <2>5
    <2> HIDE DEF d
    <2>7. m[d] = c
      BY <2>5 DEF d
    <2> QED BY <2>3, <2>6, <2>7 DEF Follows, f
  <1>10. Followed(m, own, rank)
    <2> SUFFICES ASSUME NEW c \in S, m[c] # EOC
                 PROVE  m[c] \in S /\ Follows(m, own, rank, c, m[c])
      BY <1>13 DEF Followed
    <2>1. own[c] \in Files /\ rank[c] \in Nat /\ w(own[c])[rank[c]] = c /\ c \in Clusters
      BY <1>2, <1>3, <1>14 DEF Taken
    <2>2. m[c] \in Clusters
      BY <1>14, <2>1 DEF Taken
    <2>3. w(own[c])[rank[c] + 1] = m[c]
      BY <2>1, Walks DEF EntryOf
    <2>4. rank[c] + 1 \in Nat
      BY <2>1
    <2> QED BY <1>4, <2>1, <2>2, <2>3, <2>4 DEF Follows
  <1>11. PlacesApart(m, own, rank)
    BY <1>3, <1>13 DEF PlacesApart
  <1>12. Chained(m, head, own, rank)
    BY <1>7, <1>8, <1>9, <1>10, <1>11 DEF Chained
  <1> QED BY <1>5, <1>12
=============================================================================
