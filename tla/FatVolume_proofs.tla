-------------------------- MODULE FatVolume_proofs --------------------------
(***************************************************************************)
(* What holds of FatVolume for every size of the volume and every card.    *)
(***************************************************************************)
EXTENDS FatChain_proofs

-----------------------------------------------------------------------------
\* The window.

WindowFits ==
  /\ Contents(card, Items)
  /\ winsect \in Int /\ Contents(win, ItemsOf(winsect))
  /\ wflag \in BOOLEAN
  /\ ~wflag => \A x \in ItemsOf(winsect) : win[x] = card[x]

LEMMA Kinds ==
  /\ \A f \in Files : f \notin Nat /\ f # FSINFO /\ f \in Items
  /\ FSINFO \notin Nat /\ FSINFO \in Items
  /\ Clusters \subseteq Items
  BY WindowAssumption DEF Items

LEMMA SectorNumbers ==
  /\ \A c \in Nat : SectorOf(c) = FatSector(c)
  /\ \A f \in Files : SectorOf(f) = DIRSECT
  /\ SectorOf(FSINFO) = FSISECT
  /\ \A c \in Nat : SectorOf(c) \in Nat /\ SectorOf(c) > FSISECT
  /\ \A x \in Items : SectorOf(x) \in Nat
  /\ DIRSECT \in Nat /\ FSISECT \in Nat /\ NOSECT \notin Nat /\ NOSECT \in Int
  <1>1. \A c \in Nat : c \div PerSector \in Nat
    BY WindowAssumption
  <1>2. \A c \in Nat : SectorOf(c) = FatSector(c) /\ FatSector(c) \in Nat /\ FatSector(c) > FSISECT
    BY <1>1, Kinds DEF SectorOf, FatSector, FSISECT
  <1>3. \A f \in Files : SectorOf(f) = DIRSECT
    BY DEF SectorOf
  <1>4. SectorOf(FSINFO) = FSISECT
    BY Kinds DEF SectorOf
  <1>5. \A x \in Items : x \in Files \/ x = FSINFO \/ x \in Nat
    BY Numbers DEF Items
  <1> QED BY <1>2, <1>3, <1>4, <1>5 DEF DIRSECT, FSISECT, NOSECT

LEMMA ItemSets == \A s : ItemsOf(s) \subseteq Items /\ \A x \in Items : x \in ItemsOf(s) <=> SectorOf(x) = s
  BY DEF ItemsOf

LEMMA ViewFits ==
  ASSUME WindowFits
  PROVE  Contents(View, Items) /\ Contents(Flushed, Items)
  <1>1. \A x \in Items : SectorOf(x) = winsect => ContentOf(x, win[x])
    BY ItemSets DEF WindowFits, Contents
  <1>2. \A x \in Items : ContentOf(x, card[x])
    BY DEF WindowFits, Contents
  <1>3. \A x \in Items : ContentOf(x, View[x]) /\ ContentOf(x, Flushed[x])
    BY <1>1, <1>2 DEF View, Flushed
  <1>4. DOMAIN View = Items /\ DOMAIN Flushed = Items
    BY DEF View, Flushed
  <1> QED BY <1>3, <1>4 DEF Contents

LEMMA Moved ==
  ASSUME WindowFits, NEW S, NEW s \in S, s \in Int, MoveWindow(S, s)
  PROVE  WindowFits' /\ View' = View /\ (~wflag => ~wflag')
  <1>1. CASE S \subseteq {winsect}
    <2>1. UNCHANGED window
      BY <1>1 DEF MoveWindow, CardVia, WinVia, FlagVia, WindowFits, window
    <2> QED BY <2>1 DEF WindowFits, View, window
  <1>2. CASE ~(S \subseteq {winsect})
    <2>1. card' = Flushed /\ win' = [x \in ItemsOf(s) |-> Flushed[x]] /\ winsect' = s /\ wflag' = FALSE
      BY <1>2 DEF MoveWindow, CardVia, WinVia, FlagVia
    <2>2. Contents(Flushed, Items) /\ Contents(win', ItemsOf(s))
      BY <2>1, ViewFits, ItemSets DEF Contents
    <2>3. WindowFits'
      BY <2>1, <2>2 DEF WindowFits
    <2>4. \A x \in Items : View'[x] = View[x]
      <3> SUFFICES ASSUME NEW x \in Items PROVE View'[x] = View[x]
        OBVIOUS
      <3>1. View'[x] = Flushed[x]
        BY <2>1, ItemSets DEF View
      <3> QED BY <3>1, ItemSets DEF View, Flushed, WindowFits
    <2> QED BY <2>1, <2>3, <2>4 DEF View
  <1> QED BY <1>1, <1>2

LEMMA Changes ==
  ASSUME WindowFits, NEW x \in Items, NEW v, ContentOf(x, v), Put(x, v)
  PROVE  WindowFits' /\ View' = [View EXCEPT ![x] = v]
  <1> DEFINE s == SectorOf(x)
             w == WinVia({s}, s)
  <1>1. card' = CardVia({s}) /\ winsect' = s /\ wflag' = TRUE /\ win' = [w EXCEPT ![x] = v]
    BY DEF Put
  <1>2. s \in Int /\ x \in ItemsOf(s)
    BY SectorNumbers, ItemSets
  <1>3. Contents(CardVia({s}), Items) /\ Contents(w, ItemsOf(s))
        /\ \A y \in Items : View[y] = IF SectorOf(y) = s THEN w[y] ELSE CardVia({s})[y]
    <2>1. CASE s = winsect
      BY <2>1, ItemSets DEF CardVia, WinVia, WindowFits, View
    <2>2. CASE s # winsect
      <3>1. CardVia({s}) = Flushed /\ w = [y \in ItemsOf(s) |-> Flushed[y]]
        BY <2>2 DEF CardVia, WinVia
      <3>2. Contents(Flushed, Items)
        BY ViewFits
      <3> HIDE DEF w, s
      <3>3. Contents(w, ItemsOf(s))
        BY <3>1, <3>2, ItemSets DEF Contents
      <3>4. \A y \in Items : View[y] = Flushed[y]
        BY ItemSets DEF View, Flushed, WindowFits
      <3>5. \A y \in Items : SectorOf(y) = s => w[y] = Flushed[y]
        BY <3>1, ItemSets
      <3> QED BY <3>1, <3>2, <3>3, <3>4, <3>5
    <2> QED BY <2>1, <2>2
  <1> HIDE DEF w, s
  <1>4. Contents(win', ItemsOf(s))
    BY <1>1, <1>2, <1>3 DEF Contents
  <1>5. WindowFits'
    BY <1>1, <1>2, <1>3, <1>4 DEF WindowFits
  <1>6. \A y \in Items : View'[y] = IF y = x THEN v ELSE View[y]
    <2> SUFFICES ASSUME NEW y \in Items PROVE View'[y] = IF y = x THEN v ELSE View[y]
      OBVIOUS
    <2>1. View'[y] = IF SectorOf(y) = s THEN win'[y] ELSE card'[y]
      BY <1>1 DEF View
    <2>2. SectorOf(y) = s => y \in DOMAIN w
      BY <1>3, ItemSets DEF Contents
    <2>3. SectorOf(x) = s
      BY DEF s
    <2> QED BY <1>1, <1>3, <2>1, <2>2, <2>3
  <1> QED BY <1>5, <1>6 DEF View

\* A number that is no cluster has no entry.
LEMMA ChangesNothing ==
  ASSUME WindowFits, NEW x \in Nat, x \notin Items, NEW v, Put(x, v)
  PROVE  WindowFits' /\ View' = View
  <1> DEFINE s == SectorOf(x)
             w == WinVia({s}, s)
  <1>1. card' = CardVia({s}) /\ winsect' = s /\ wflag' = TRUE /\ win' = [w EXCEPT ![x] = v]
    BY DEF Put
  <1>2. s \in Int
    BY SectorNumbers
  <1>3. Contents(CardVia({s}), Items) /\ Contents(w, ItemsOf(s))
        /\ \A y \in Items : View[y] = IF SectorOf(y) = s THEN w[y] ELSE CardVia({s})[y]
    <2>1. CASE s = winsect
      BY <2>1, ItemSets DEF CardVia, WinVia, WindowFits, View
    <2>2. CASE s # winsect
      <3>1. CardVia({s}) = Flushed /\ w = [y \in ItemsOf(s) |-> Flushed[y]]
        BY <2>2 DEF CardVia, WinVia
      <3>2. Contents(Flushed, Items)
        BY ViewFits
      <3> HIDE DEF w, s
      <3>3. Contents(w, ItemsOf(s))
        BY <3>1, <3>2, ItemSets DEF Contents
      <3>4. \A y \in Items : View[y] = Flushed[y]
        BY ItemSets DEF View, Flushed, WindowFits
      <3>5. \A y \in Items : SectorOf(y) = s => w[y] = Flushed[y]
        BY <3>1, ItemSets
      <3> QED BY <3>1, <3>2, <3>3, <3>4, <3>5
    <2> QED BY <2>1, <2>2
  <1> HIDE DEF w, s
  <1>4. \A y \in ItemsOf(s) : win'[y] = w[y]
    BY <1>1, <1>3, ItemSets DEF Contents
  <1>5. WindowFits'
    BY <1>1, <1>2, <1>3, <1>4 DEF WindowFits, Contents
  <1>6. \A y \in Items : View'[y] = View[y]
    <2> SUFFICES ASSUME NEW y \in Items PROVE View'[y] = View[y]
      OBVIOUS
    <2>1. View'[y] = IF SectorOf(y) = s THEN win'[y] ELSE card'[y]
      BY <1>1 DEF View
    <2> QED BY <1>1, <1>3, <1>4, <2>1, ItemSets
  <1> QED BY <1>5, <1>6 DEF View

LEMMA Synced ==
  ASSUME WindowFits, SyncWindow
  PROVE  WindowFits' /\ View' = View /\ ~wflag' /\ \A x \in Items : card'[x] = View[x]
  <1>1. card' = Flushed /\ wflag' = FALSE /\ win' = win /\ winsect' = winsect
    BY DEF SyncWindow
  <1>2. \A x \in Items : Flushed[x] = View[x]
    BY ItemSets DEF View, Flushed, WindowFits
  <1>3. \A x \in ItemsOf(winsect) : win[x] = Flushed[x]
    BY ItemSets DEF Flushed, WindowFits
  <1>4. Contents(Flushed, Items)
    BY ViewFits
  <1>5. WindowFits'
    BY <1>1, <1>3, <1>4 DEF WindowFits
  <1>6. \A x \in Items : View'[x] = View[x]
    BY <1>1, <1>2, <1>3, ItemSets DEF View
  <1> QED BY <1>1, <1>2, <1>5, <1>6 DEF View

-----------------------------------------------------------------------------
AllocFits ==
  /\ fs_type \in {0, 1}
  /\ free_clst \in 0 .. n_fatent /\ last_clst \in 0 .. n_fatent
  /\ fsi_flag \in {0, 1, NOINFO}

LEMMA InfoWritten ==
  ASSUME WindowFits, AllocFits, ~wflag, WriteInfo, fs_type' = fs_type
  PROVE  /\ WindowFits' /\ AllocFits' /\ ~wflag'
         /\ \A x \in Items \ {FSINFO} : View'[x] = View[x] /\ card'[x] = View[x]
         /\ free_clst' = free_clst /\ last_clst' = last_clst
  <1>1. \A x \in Items : card[x] = View[x]
    BY ItemSets DEF View, WindowFits
  <1>2. CASE fsi_flag # 1
    <2>1. UNCHANGED <<window, alloc>>
      BY <1>2 DEF WriteInfo
    <2> QED BY <1>1, <2>1 DEF window, alloc, WindowFits, AllocFits, View
  <1>3. CASE fsi_flag = 1
    <2> DEFINE i == [free |-> free_clst, next |-> last_clst]
    <2>1. /\ fsi_flag' = 0 /\ win' = [x \in {FSINFO} |-> i] /\ winsect' = FSISECT
          /\ card' = [card EXCEPT ![FSINFO] = i] /\ wflag' = wflag
          /\ free_clst' = free_clst /\ last_clst' = last_clst
      BY <1>3 DEF WriteInfo
    <2>2. ContentOf(FSINFO, i)
      BY Kinds DEF ContentOf, Info, AllocFits
    <2> HIDE DEF i
    <2>3. ItemsOf(FSISECT) = {FSINFO}
      <3>1. \A x \in Items : x # FSINFO => SectorOf(x) # FSISECT
        BY SectorNumbers, Numbers DEF Items, DIRSECT, FSISECT
      <3> QED BY <3>1, ItemSets, SectorNumbers, Kinds
    <2>4. Contents(card', Items) /\ Contents(win', {FSINFO})
      BY <2>1, <2>2, Kinds DEF WindowFits, Contents
    <2>5. win'[FSINFO] = card'[FSINFO]
      BY <2>1, Kinds DEF WindowFits, Contents
    <2>6. WindowFits'
      BY <2>1, <2>3, <2>4, <2>5, SectorNumbers DEF WindowFits
    <2>7. \A x \in Items \ {FSINFO} : card'[x] = card[x]
      BY <2>1 DEF WindowFits, Contents
    <2>8. \A x \in Items \ {FSINFO} : View'[x] = card'[x]
      BY <2>1, <2>3, ItemSets DEF View
    <2>9. AllocFits'
      BY <2>1 DEF AllocFits
    <2> QED BY <1>1, <2>1, <2>6, <2>7, <2>8, <2>9
  <1> QED BY <1>2, <1>3

\* What the volume is mounted with.
LEMMA AtMountFits ==
  ASSUME WindowFits, AllocFits
  PROVE  /\ AtMount.free \in 0 .. n_fatent /\ AtMount.next \in 0 .. n_fatent
         /\ AtMount.flag \in {0, 1, NOINFO}
  <1>1. card[FSINFO] \in Info
    BY Kinds DEF WindowFits, Contents, ContentOf
  <1>2. card[FSINFO].free \in 0 .. n_fatent /\ card[FSINFO].next \in 0 .. n_fatent
    BY <1>1 DEF Info
  <1> QED BY <1>2, Numbers DEF AllocFits, AtMount, UNKNOWN

LEMMA Mounted ==
  ASSUME WindowFits, AllocFits, MountVolume
  PROVE  AllocFits' /\ fs_type' = 1
  BY AtMountFits DEF AllocFits, MountVolume

-----------------------------------------------------------------------------
\* The call and the file objects.

Ops == {"none", "open", "read", "write", "seek", "truncate", "sync", "close", "unlink"}
Frame == [op : Ops, fp : Fils \cup {0}, ofs : Nat, cl : Nat, new : FIL]

Creates == {"create", "mark", "link", "created"}
Removes == {"free", "removed"}
Syncs   == {"flush", "info"}

\* Where the functions can be.
Runs ==
  \/ call.op = "none" /\ pc = "idle"
  \/ call.op = "read" /\ pc = "read"
  \/ call.op = "write" /\ pc \in {"write"} \cup Creates
  \/ call.op = "seek" /\ pc \in {"seek"} \cup Creates
  \/ call.op = "truncate" /\ pc \in {"cut"} \cup Removes
  \/ call.op = "open" /\ pc \in Removes
  \/ call.op \in {"sync", "close"} /\ pc \in Syncs
  \/ call.op = "unlink" /\ pc \in Removes \cup Syncs

CallFits ==
  /\ call \in Frame
  /\ Runs
  /\ call.op = "none" => call = Idle
  /\ call.op = "unlink" => cur = 0
  /\ pc \in Creates => call.ofs > 0
  /\ call.op \notin {"none", "unlink"} => cur \in Fils
  /\ call.op \in {"read", "write", "seek", "truncate"} => cur \in opened
  /\ call.op = "open" => /\ call.cl \in Clusters
                         /\ call.new.file \in Files
                         /\ call.new.fptr <= call.new.objsize

ChainFits ==
  /\ clst \in {0} \cup Clusters
  /\ ncl \in {NOSPACE, INSANITY} \cup Clusters
  /\ pc \in {"mark", "link", "cut"} => ncl \in Clusters
  /\ pc \in {"link", "cut"} => clst \in Clusters

\* A position is in the file, but not while it is sought.
FilesFit ==
  /\ fil \in [Fils -> FIL]
  /\ opened \subseteq Fils
  /\ res \in Result
  /\ \A p \in Fils : fil[p].fs => fil[p].file \in Files
  /\ \A p \in Fils :
       \/ fil[p].err
       \/ fil[p].fptr <= fil[p].objsize
       \/ p = cur /\ call.op = "seek"
  /\ call.op = "seek" => call.ofs > 0 /\ (me.write \/ me.fptr + call.ofs <= me.objsize)
  /\ call.op = "read" => me.fptr + call.ofs <= me.objsize

\* Once f_sync has put the entry into the window, it stays.
Saving ==
  /\ call.op \in {"sync", "close"} =>
       me.file \in Files /\ View[me.file] = [sclust |-> me.sclust, size |-> me.objsize]
  /\ pc = "info" => ~wflag

Fits == WindowFits /\ AllocFits /\ ChainFits /\ CallFits /\ FilesFit /\ Saving

LEMMA FitsTyped == Fits => TypeOK
  BY DEF Fits, TypeOK, WindowFits, AllocFits, ChainFits, CallFits, FilesFit, Frame, ChainTypeOK

LEMMA Division ==
  ASSUME NEW n \in Nat, NEW d \in Nat \ {0}
  PROVE  /\ n \div d \in Nat /\ n % d \in 0 .. d - 1
         /\ n % d = n - (n \div d) * d
  <1>1. n \div d \in Nat
    OBVIOUS
  <1>2. n % d \in 0 .. d - 1
    OBVIOUS
  <1>3. n % d = n - (n \div d) * d
    OBVIOUS
  <1> QED BY <1>1, <1>2, <1>3

LEMMA BlankFits == Blank \in FIL /\ Idle \in Frame
  BY DEF Blank, FIL, Idle, Frame, Ops

LEMMA InitFits == Init => Fits
  <1> SUFFICES ASSUME Init PROVE Fits
    OBVIOUS
  <1> USE DEF Init, PowerOn, Unmounted
  <1>1. WindowFits
    <2>1. Contents(card, Items)
      BY WindowAssumption
    <2>2. ItemsOf(NOSECT) = {}
      BY SectorNumbers, ItemSets
    <2> QED BY <2>1, <2>2, SectorNumbers DEF WindowFits, Contents
  <1>2. AllocFits
    BY Numbers DEF AllocFits, UNKNOWN
  <1>3. ChainFits /\ CallFits
    BY BlankFits DEF ChainFits, CallFits, Runs, Idle, NOSPACE, Creates
  <1>4. FilesFit /\ Saving
    BY BlankFits DEF FilesFit, Saving, Idle, Blank, Result
  <1> QED BY <1>1, <1>2, <1>3, <1>4 DEF Fits

-----------------------------------------------------------------------------
\* create_chain and remove_chain.

LEMMA ViewEntry ==
  ASSUME WindowFits
  PROVE  /\ \A c \in Clusters : View[c] \in {FREE, EOC} \cup Clusters
         /\ \A c : EntryOf(View, c) \in {FREE, EOC} \cup Clusters
         /\ \A f \in Files : View[f] \in DirEntry
         /\ DOMAIN View = Items
  <1>1. Contents(View, Items)
    BY ViewFits
  <1>2. \A c \in Clusters : c \notin Files /\ c # FSINFO
    BY Numbers, Kinds
  <1> QED BY <1>1, <1>2, Kinds DEF Contents, ContentOf, EntryOf

LEMMA FreeFound ==
  ASSUME FreeClusters # {}, NEW scl \in Nat
  PROVE  NextFree(scl) \in FreeClusters
  <1> DEFINE T == {Distance(scl, c) + scl : c \in FreeClusters}
  <1>1. T \subseteq Nat /\ T # {}
    BY Numbers DEF Distance, FreeClusters, Clusters
  <1>2. PICK x \in T : \A y \in T : x <= y
    <2> HIDE DEF T
    <2> QED BY <1>1, Lowest
  <1>3. PICK c \in FreeClusters : x = Distance(scl, c) + scl
    BY <1>2
  <1>4. ASSUME NEW d \in FreeClusters PROVE Distance(scl, c) <= Distance(scl, d)
    <2>1. x <= Distance(scl, d) + scl
      BY <1>2
    <2>2. Distance(scl, c) \in Int /\ Distance(scl, d) \in Int
      BY Numbers DEF Distance, FreeClusters, Clusters
    <2> QED BY <1>3, <2>1, <2>2
  <1> QED BY <1>4 DEF NextFree

LEMMA Searches ==
  ASSUME ChainFits
  PROVE  /\ SearchFrom \in Nat
         /\ SearchFrom \in Clusters \cup {1}
         /\ \A c \in Clusters : SectorOf(c) \in Visited(c)
  <1>1. SearchFrom \in Clusters \cup {1}
    BY Numbers DEF SearchFrom, ChainFits
  <1>2. \A c \in Clusters : Distance(SearchFrom, c) \in Int
    BY <1>1, Numbers DEF Distance, Clusters
  <1>3. \A c \in Clusters : SectorOf(c) \in Visited(c)
    BY <1>2 DEF Visited
  <1> QED BY <1>1, <1>3, Numbers

LEMMA AllocatedFits ==
  ASSUME AllocFits, Allocated, ncl \in Clusters, fs_type' = fs_type
  PROVE  AllocFits'
  BY Numbers DEF AllocFits, Allocated, Changed, Clusters

\* What a step of a chain leaves alone.
Elsewhere == UNCHANGED <<fs_type, fil, opened, call, res>>

LEMMA ElsewhereFits ==
  ASSUME Fits, Elsewhere, pc # "idle", Runs', View' = View \/ call.op \notin {"sync", "close"},
         pc' # "info", pc' \in Creates => pc \in Creates
  PROVE  CallFits' /\ FilesFit' /\ Saving'
  <1>1. fil' = fil /\ opened' = opened /\ call' = call /\ res' = res
    BY DEF Elsewhere
  <1>2. CallFits'
    BY <1>1 DEF Fits, CallFits, cur
  <1>3. FilesFit'
    BY <1>1 DEF Fits, FilesFit, me, cur
  <1>4. Saving'
    BY <1>1 DEF Fits, Saving, me, cur
  <1> QED BY <1>2, <1>3, <1>4

LEMMA FollowFits ==
  ASSUME Fits, Follow, Elsewhere
  PROVE  Fits' /\ View' = View
  <1>1. clst \in Clusters /\ pc = "create"
    BY DEF Fits, ChainFits, Follow
  <1>2. WindowFits' /\ View' = View
    BY <1>1, Moved, SectorNumbers, Numbers DEF Fits, Follow
  <1>3. AllocFits'
    BY DEF Fits, Follow, Elsewhere, AllocFits, alloc
  <1>4. ChainFits'
    BY <1>1, ViewEntry DEF Fits, Follow, ChainFits
  <1>5. Runs'
    BY DEF Fits, CallFits, Follow, Elsewhere, Runs, Creates, Removes, Syncs
  <1>6. CallFits' /\ FilesFit' /\ Saving'
    BY <1>1, <1>2, <1>5, ElsewhereFits DEF Follow, Creates
  <1> QED BY <1>2, <1>3, <1>4, <1>6 DEF Fits

LEMMA FullFits ==
  ASSUME Fits, Full, Elsewhere
  PROVE  Fits' /\ View' = View
  <1> USE DEF Fits
  <1>2. WindowFits' /\ View' = View
    <2>1. CASE free_clst = 0 /\ clst = 0
      BY <2>1 DEF Full, window, WindowFits, View
    <2>2. CASE free_clst = 0 /\ clst # 0
      <3>1. clst \in Nat
        BY Numbers DEF ChainFits
      <3> QED BY <2>2, <3>1, Moved, SectorNumbers DEF Full
    <2>3. CASE free_clst # 0
      <3> DEFINE end == IF SearchFrom = 1 THEN n_fatent - 1 ELSE SearchFrom
      <3>1. end \in Clusters
        <4>1. n_fatent - 1 \in Clusters
          BY Numbers DEF Clusters
        <4> QED BY <4>1, Searches
      <3>2. MoveWindow(Visited(end), SectorOf(end))
        BY <2>3 DEF Full
      <3> HIDE DEF end
      <3>3. SectorOf(end) \in Visited(end) /\ SectorOf(end) \in Int
        BY <3>1, Searches, SectorNumbers, Numbers
      <3> QED BY <3>2, <3>3, Moved
    <2> QED BY <2>1, <2>2, <2>3
  <1>3. AllocFits'
    BY DEF Full, Elsewhere, AllocFits, alloc
  <1>4. ChainFits'
    BY DEF Full, ChainFits
  <1>5. Runs'
    BY DEF CallFits, Full, Elsewhere, Runs, Creates, Removes, Syncs
  <1>6. CallFits' /\ FilesFit' /\ Saving'
    BY <1>2, <1>5, ElsewhereFits DEF Full, Creates
  <1> QED BY <1>2, <1>3, <1>4, <1>6

LEMMA FindFits ==
  ASSUME Fits, Find, Elsewhere
  PROVE  Fits' /\ View' = View /\ ncl' \in FreeClusters
  <1> USE DEF Fits
  <1>1. ncl' \in FreeClusters /\ ncl' \in Clusters
    <2>1. FreeClusters # {}
      BY DEF Find, Exhausted
    <2>2. NextFree(SearchFrom) \in FreeClusters
      BY <2>1, Searches, FreeFound
    <2> QED BY <2>2 DEF Find, FreeClusters
  <1>2. WindowFits' /\ View' = View
    <2>1. MoveWindow(Visited(ncl'), SectorOf(ncl'))
      BY DEF Find
    <2>2. SectorOf(ncl') \in Visited(ncl') /\ SectorOf(ncl') \in Int
      BY <1>1, Searches, SectorNumbers, Numbers
    <2> QED BY <2>1, <2>2, Moved
  <1>3. AllocFits'
    BY DEF Find, Elsewhere, AllocFits, alloc
  <1>4. ChainFits'
    BY <1>1 DEF Find, ChainFits
  <1>5. Runs'
    BY DEF CallFits, Find, Elsewhere, Runs, Creates, Removes, Syncs
  <1>6. CallFits' /\ FilesFit' /\ Saving'
    BY <1>2, <1>5, ElsewhereFits DEF Find, Creates
  <1> QED BY <1>1, <1>2, <1>3, <1>4, <1>6

LEMMA MarkFits ==
  ASSUME Fits, Mark, Elsewhere
  PROVE  Fits' /\ View' = [View EXCEPT ![ncl] = EOC]
  <1> USE DEF Fits
  <1>1. ncl \in Clusters /\ ncl \in Items /\ ContentOf(ncl, EOC)
    BY Kinds, Numbers DEF Mark, ChainFits, ContentOf
  <1>2. WindowFits' /\ View' = [View EXCEPT ![ncl] = EOC]
    BY <1>1, Changes DEF Mark
  <1>3. AllocFits'
    BY <1>1, AllocatedFits DEF Mark, Elsewhere, AllocFits, alloc
  <1>4. ChainFits'
    BY DEF Mark, ChainFits
  <1>5. Runs'
    BY DEF CallFits, Mark, Elsewhere, Runs, Creates, Removes, Syncs
  <1>6. CallFits' /\ FilesFit' /\ Saving'
    <2>1. call.op \notin {"sync", "close"}
      BY DEF CallFits, Runs, Mark, Syncs
    <2> QED BY <1>2, <1>5, <2>1, ElsewhereFits DEF Mark, Creates
  <1> QED BY <1>2, <1>3, <1>4, <1>6

LEMMA LinkFits ==
  ASSUME Fits, Link, Elsewhere
  PROVE  Fits' /\ View' = [View EXCEPT ![clst] = ncl]
  <1> USE DEF Fits
  <1>1. ncl \in Clusters /\ clst \in Clusters /\ clst \in Items /\ ContentOf(clst, ncl)
    BY Kinds, Numbers DEF Link, ChainFits, ContentOf
  <1>2. WindowFits' /\ View' = [View EXCEPT ![clst] = ncl]
    BY <1>1, Changes DEF Link
  <1>3. AllocFits'
    BY <1>1, AllocatedFits DEF Link, Elsewhere
  <1>4. ChainFits'
    BY DEF Link, ChainFits
  <1>5. Runs'
    BY DEF CallFits, Link, Elsewhere, Runs, Creates, Removes, Syncs
  <1>6. CallFits' /\ FilesFit' /\ Saving'
    <2>1. call.op \notin {"sync", "close"}
      BY DEF CallFits, Runs, Link, Syncs
    <2> QED BY <1>2, <1>5, <2>1, ElsewhereFits DEF Link, Creates
  <1> QED BY <1>2, <1>3, <1>4, <1>6

LEMMA CutFits ==
  ASSUME Fits, Cut, Elsewhere
  PROVE  Fits' /\ View' = [View EXCEPT ![ncl] = EOC]
  <1> USE DEF Fits
  <1>1. ncl \in Clusters /\ ncl \in Items /\ ContentOf(ncl, EOC)
    BY Kinds, Numbers DEF Cut, ChainFits, ContentOf
  <1>2. WindowFits' /\ View' = [View EXCEPT ![ncl] = EOC]
    BY <1>1, Changes DEF Cut
  <1>3. AllocFits'
    BY DEF Cut, Elsewhere, AllocFits, alloc
  <1>4. ChainFits'
    BY DEF Cut, ChainFits
  <1>5. Runs'
    BY DEF CallFits, Cut, Elsewhere, Runs, Creates, Removes, Syncs
  <1>6. CallFits' /\ FilesFit' /\ Saving'
    <2>1. call.op \notin {"sync", "close"}
      BY DEF CallFits, Runs, Cut, Syncs
    <2> QED BY <1>2, <1>5, <2>1, ElsewhereFits DEF Cut, Creates
  <1> QED BY <1>2, <1>3, <1>4, <1>6

\* Cluster 0, where a chain begins that has none, is no entry of the FAT.
LEMMA FreeNextFits ==
  ASSUME Fits, FreeNext, Elsewhere
  PROVE  /\ Fits'
         /\ View' = IF View[clst] = FREE \/ clst = 0 THEN View
                    ELSE [View EXCEPT ![clst] = FREE]
  <1> USE DEF Fits
  <1>1. clst \in Nat /\ (clst # 0 => clst \in Clusters /\ clst \in Items /\ ContentOf(clst, FREE))
    BY Kinds, Numbers DEF FreeNext, ChainFits, ContentOf
  <1>2. WindowFits' /\ View' = IF View[clst] = FREE \/ clst = 0 THEN View
                               ELSE [View EXCEPT ![clst] = FREE]
    <2>1. CASE View[clst] = FREE
      BY <1>1, <2>1, Moved, SectorNumbers DEF FreeNext
    <2>2. CASE View[clst] # FREE /\ clst # 0
      BY <1>1, <2>2, Changes DEF FreeNext
    <2>3. CASE View[clst] # FREE /\ clst = 0
      <3>1. clst \notin Items
        BY <2>3, Kinds, Numbers DEF Items
      <3> QED BY <1>1, <2>3, <3>1, ChangesNothing DEF FreeNext
    <2> QED BY <2>1, <2>2, <2>3
  <1>3. AllocFits'
    BY Numbers DEF FreeNext, Elsewhere, AllocFits, alloc, Changed
  <1>4. ChainFits'
    BY DEF FreeNext, ChainFits, GoesOn
  <1>5. Runs'
    BY DEF CallFits, FreeNext, Elsewhere, Runs, Creates, Removes, Syncs
  <1>6. CallFits' /\ FilesFit' /\ Saving'
    <2>1. call.op \notin {"sync", "close"}
      BY DEF CallFits, Runs, FreeNext, Syncs
    <2>2. pc # "idle" /\ pc' # "info" /\ pc' \notin Creates
      BY DEF FreeNext, Creates
    <2> QED BY <1>5, <2>1, <2>2, ElsewhereFits
  <1> QED BY <1>2, <1>3, <1>4, <1>6

-----------------------------------------------------------------------------
\* The functions.

LEMMA ReturnFits ==
  ASSUME NEW r \in Result, Return(r)
  PROVE  /\ ChainFits' /\ CallFits' /\ call' = Idle /\ res' \in Result /\ pc' = "idle"
         /\ call'.op = "none" /\ (pc' # "info")
         /\ Saving'
  <1>1. pc' = "idle" /\ clst' = 0 /\ ncl' = 0 /\ call' = Idle /\ res' = r
    BY DEF Return
  <1>2. call'.op = "none"
    BY <1>1 DEF Idle
  <1>3. ChainFits'
    BY <1>1 DEF ChainFits, NOSPACE
  <1>4. CallFits'
    BY <1>1, <1>2, BlankFits DEF CallFits, Runs, Creates
  <1> QED BY <1>1, <1>2, <1>3, <1>4 DEF Saving

LEMMA FileChanged ==
  ASSUME FilesFit, NEW p \in Fils, NEW f \in FIL, fil' = [fil EXCEPT ![p] = f],
         f.fs => f.file \in Files,
         f.err \/ f.fptr <= f.objsize \/ (p = cur' /\ call'.op = "seek"),
         call.op = "seek" => p = cur,
         opened' \subseteq Fils, res' \in Result,
         call'.op \in {"seek", "read"} => cur' = p,
         call'.op = "seek" =>
           call'.ofs > 0 /\ (f.write \/ f.fptr + call'.ofs <= f.objsize),
         call'.op = "read" => f.fptr + call'.ofs <= f.objsize
  PROVE  FilesFit'
  <1>1. fil' \in [Fils -> FIL] /\ fil'[p] = f /\ \A q \in Fils \ {p} : fil'[q] = fil[q]
    BY DEF FilesFit
  <1>2. \A q \in Fils : fil'[q].fs => fil'[q].file \in Files
    BY <1>1 DEF FilesFit
  <1>3. \A q \in Fils : \/ fil'[q].err
                        \/ fil'[q].fptr <= fil'[q].objsize
                        \/ q = cur' /\ call'.op = "seek"
    BY <1>1 DEF FilesFit
  <1>4. call'.op \in {"seek", "read"} => me' = f
    BY <1>1 DEF me
  <1> QED BY <1>1, <1>2, <1>3, <1>4 DEF FilesFit

LEMMA FilesSame ==
  ASSUME FilesFit, fil' = fil, call.op # "seek" \/ fil[cur].fptr <= fil[cur].objsize,
         call'.op \notin {"seek", "read"}, opened' \subseteq Fils, res' \in Result
  PROVE  FilesFit'
  BY DEF FilesFit

\* The fields of a file object.
LEMMA Fields ==
  ASSUME NEW f \in FIL
  PROVE  /\ f.fs \in BOOLEAN /\ f.file \in Files \cup {NOFILE} /\ f.sclust \in {0} \cup Clusters
         /\ f.objsize \in Nat /\ f.fptr \in Nat /\ f.clust \in {0} \cup Clusters
         /\ f.write \in BOOLEAN /\ f.modified \in BOOLEAN /\ f.err \in BOOLEAN
         /\ f.sclust \in Nat /\ f.clust \in Nat
  <1>1. /\ f.fs \in BOOLEAN /\ f.file \in Files \cup {NOFILE} /\ f.sclust \in {0} \cup Clusters
        /\ f.objsize \in Nat /\ f.fptr \in Nat /\ f.clust \in {0} \cup Clusters
        /\ f.write \in BOOLEAN /\ f.modified \in BOOLEAN /\ f.err \in BOOLEAN
    BY DEF FIL
  <1>2. {0} \cup Clusters \subseteq Nat
    BY Numbers
  <1> QED BY <1>1, <1>2

LEMMA AbortFits ==
  ASSUME Fits, cur \in Fils, Abort, opened' = opened
  PROVE  ChainFits' /\ CallFits' /\ FilesFit' /\ Saving' /\ pc' = "idle" /\ call' = Idle
  <1>1. "INT_ERR" \in Result /\ Return("INT_ERR")
    BY DEF Result, Abort
  <1>2. ChainFits' /\ CallFits' /\ Saving' /\ call' = Idle /\ res' \in Result /\ pc' = "idle" /\ call'.op = "none"
    BY <1>1, ReturnFits
  <1> DEFINE f == [me EXCEPT !.err = TRUE]
  <1>3. me \in FIL
    BY DEF Fits, FilesFit, me
  <1>4. f \in FIL /\ f.err /\ f.fs = me.fs /\ f.file = me.file
    BY <1>3 DEF FIL
  <1>5. fil' = [fil EXCEPT ![cur] = f]
    BY DEF Abort, Become
  <1> HIDE DEF f
  <1>6. FilesFit'
    BY <1>2, <1>4, <1>5, FileChanged DEF Fits, FilesFit, me
  <1> QED BY <1>2, <1>6

LEMMA RefuseFits ==
  ASSUME Fits, NEW r \in Result, Refuse(r)
  PROVE  Fits' /\ View' = View /\ UNCHANGED <<card, pc, fil, opened, call>>
  <1>1. UNCHANGED <<card, win, winsect, wflag, fs_type, free_clst, last_clst, fsi_flag>>
        /\ UNCHANGED <<pc, clst, ncl, fil, opened, call>> /\ res' = r
    BY DEF Refuse, disk, window, alloc, chain
  <1>2. WindowFits' /\ AllocFits' /\ View' = View
    BY <1>1 DEF Fits, WindowFits, AllocFits, View
  <1>3. ChainFits' /\ CallFits'
    BY <1>1 DEF Fits, ChainFits, CallFits, Runs, cur
  <1>4. FilesFit'
    BY <1>1 DEF Fits, FilesFit, me, cur
  <1>5. Saving'
    BY <1>1, <1>2 DEF Fits, Saving, me, cur
  <1> QED BY <1>1, <1>2, <1>3, <1>4, <1>5 DEF Fits

\* The disk is not touched.
LEMMA DiskSame ==
  ASSUME Fits, UNCHANGED disk
  PROVE  WindowFits' /\ AllocFits' /\ View' = View
  BY DEF Fits, WindowFits, AllocFits, View, disk, window, alloc

LEMMA Entered ==
  ASSUME NEW op \in Ops, NEW p \in Fils, NEW n \in Nat, NEW at, Enter(op, p, n, at)
  PROVE  /\ call' \in Frame /\ call'.op = op /\ cur' = p /\ call'.ofs = n /\ pc' = at
         /\ call'.cl = 0 /\ call'.new = Blank
  BY BlankFits DEF Enter, Frame, Idle, cur

LEMMA AtIdle ==
  ASSUME Fits, pc = "idle"
  PROVE  call = Idle /\ call.op = "none" /\ cur = 0
  BY DEF Fits, CallFits, Runs, Creates, Removes, Syncs, Idle, cur

LEMMA ReadFits ==
  ASSUME Fits, NEW p \in opened, NEW n \in Nat, Read(p, n)
  PROVE  Fits' /\ View' = View
  <1> DEFINE k == Least(n, fil[p].objsize - fil[p].fptr)
  <1>1. pc = "idle" /\ Usable(p) /\ Enter("read", p, k, "read")
        /\ UNCHANGED <<disk, clst, ncl, fil, opened, res>>
    BY DEF Read
  <1>2. p \in Fils /\ fil[p] \in FIL /\ fil[p].fptr <= fil[p].objsize
    BY <1>1, AtIdle DEF Fits, FilesFit, Usable
  <1>3. k \in Nat /\ fil[p].fptr + k <= fil[p].objsize
    BY <1>2, Fields DEF Least
  <1> HIDE DEF k
  <1>4. WindowFits' /\ AllocFits' /\ View' = View
    BY <1>1, DiskSame
  <1>5. /\ call' \in Frame /\ call'.op = "read" /\ cur' = p /\ call'.ofs = k /\ pc' = "read"
        /\ call'.cl = 0 /\ call'.new = Blank
    BY <1>1, <1>2, <1>3, Entered DEF Ops
  <1>6. CallFits' /\ Saving'
    BY <1>1, <1>2, <1>5 DEF CallFits, Runs, Saving, Creates
  <1>7. ChainFits'
    BY <1>1, <1>5 DEF Fits, ChainFits
  <1>8. FilesFit'
    BY <1>1, <1>2, <1>3, <1>5, AtIdle DEF Fits, FilesFit, me
  <1> QED BY <1>4, <1>6, <1>7, <1>8 DEF Fits

LEMMA ClusterSize == bcs \in Nat /\ bcs > 0
  BY VolumeAssumption

LEMMA ChunkFits ==
  ASSUME Fits, cur \in Fils, call.ofs > 0
  PROVE  /\ Chunk \in Nat /\ Chunk > 0 /\ Chunk <= call.ofs
         /\ me \in FIL /\ call.ofs \in Nat
         /\ Chunk <= bcs - (me.fptr % bcs)
         /\ Chunk = call.ofs \/ Chunk = bcs - (me.fptr % bcs)
  <1>1. me \in FIL /\ call.ofs \in Nat
    BY DEF Fits, FilesFit, CallFits, Frame, me
  <1>2. me.fptr % bcs \in 0 .. bcs - 1
    <2>1. me.fptr \in Nat /\ bcs \in Nat \ {0}
      BY <1>1, Fields, VolumeAssumption
    <2> QED BY <2>1, Division
  <1> DEFINE r == me.fptr % bcs
  <1>3. r \in 0 .. bcs - 1 /\ Chunk = IF call.ofs < bcs - r THEN call.ofs ELSE bcs - r
    <2> DEFINE b == bcs - (me.fptr % bcs)
    <2>1. b \in Nat
      BY <1>2, ClusterSize
    <2>2. Chunk = IF call.ofs < b THEN call.ofs ELSE b
      BY DEF Chunk, Least
    <2> QED BY <1>2, <2>2
  <1> HIDE DEF r
  <1>4. /\ Chunk \in Nat /\ Chunk > 0 /\ Chunk <= call.ofs /\ Chunk <= bcs - r
        /\ Chunk = call.ofs \/ Chunk = bcs - r
    BY <1>1, <1>3, ClusterSize
  <1> QED BY <1>1, <1>4 DEF r

LEMMA AdvanceFits ==
  ASSUME Fits, cur \in Fils, call.ofs > 0, Advance
  PROVE  /\ call' \in Frame /\ call'.op = call.op /\ cur' = cur /\ call'.ofs = call.ofs - Chunk
         /\ call'.ofs \in Nat /\ call'.cl = call.cl /\ call'.new = call.new
  <1>1. Chunk \in Nat /\ Chunk <= call.ofs /\ call.ofs \in Nat
    BY ChunkFits
  <1>2. call.ofs - Chunk \in Nat
    BY <1>1
  <1>3. call' = [call EXCEPT !.ofs = call.ofs - Chunk]
    BY DEF Advance
  <1>4. call \in Frame
    BY DEF Fits, CallFits
  <1> QED BY <1>2, <1>3, <1>4 DEF Frame, cur

LEMMA ReadNextFits ==
  ASSUME Fits, ReadNext
  PROVE  Fits' /\ View' = View
  <1> DEFINE c == IF me.fptr % bcs # 0 THEN me.clust
                  ELSE IF me.fptr = 0 THEN me.sclust ELSE get_fat(me.clust)
  <1>1. pc = "read" /\ call.op = "read" /\ cur \in Fils /\ cur \in opened
    BY DEF ReadNext, Fits, CallFits, Runs, Creates, Removes, Syncs
  <1>2. me \in FIL
    BY <1>1 DEF Fits, FilesFit, me
  <1>3. WindowFits' /\ View' = View
    <2>1. CASE UNCHANGED window
      BY <2>1 DEF window, Fits, WindowFits, View
    <2>2. CASE MoveWindow({SectorOf(me.clust)}, SectorOf(me.clust))
      BY <1>2, <2>2, Fields, Moved, SectorNumbers DEF Fits
    <2> QED BY <2>1, <2>2 DEF ReadNext
  <1>4. AllocFits' /\ opened' = opened
    BY DEF ReadNext, Fits, AllocFits, alloc
  <1>5. ChainFits' /\ CallFits' /\ FilesFit' /\ Saving'
    <2>1. CASE call.ofs = 0
      <3>1. Return("OK") /\ UNCHANGED fil /\ "OK" \in Result
        BY <2>1 DEF ReadNext, Result
      <3>2. ChainFits' /\ CallFits' /\ Saving' /\ call'.op = "none" /\ res' \in Result
        BY <3>1, ReturnFits
      <3> QED BY <1>1, <1>4, <3>1, <3>2, FilesSame DEF Fits, FilesFit
    <2>2. CASE call.ofs # 0 /\ c \notin Clusters
      BY <1>1, <1>4, <2>2, AbortFits DEF ReadNext
    <2>3. CASE call.ofs # 0 /\ c \in Clusters
      <3> DEFINE f == [me EXCEPT !.clust = c, !.fptr = me.fptr + Chunk]
      <3>1. fil' = [fil EXCEPT ![cur] = f] /\ Advance /\ UNCHANGED <<chain, res>>
        BY <2>3 DEF ReadNext, Become
      <3>2. call.ofs \in Nat /\ me.fptr + call.ofs <= me.objsize
        BY <1>1 DEF Fits, CallFits, Frame, FilesFit
      <3>3. Chunk \in Nat /\ Chunk <= call.ofs
        BY <1>1, <2>3, <3>2, ChunkFits
      <3> HIDE DEF c
      <3> DEFINE end == me.fptr + Chunk
      <3>9. end \in Nat
        BY <1>2, <3>3, Fields
      <3>4. /\ f \in FIL /\ f.fptr = me.fptr + Chunk /\ f.objsize = me.objsize
            /\ f.fs = me.fs /\ f.file = me.file
        BY <1>2, <2>3, <3>9, Fields DEF FIL
      <3>5. /\ call' \in Frame /\ call'.op = "read" /\ cur' = cur /\ call'.ofs = call.ofs - Chunk
        BY <1>1, <2>3, <3>1, <3>2, AdvanceFits
      <3>6. f.fptr <= f.objsize /\ f.fptr + call'.ofs <= f.objsize
        BY <1>2, <3>2, <3>3, <3>4, <3>5, Fields
      <3> HIDE DEF f
      <3>7. FilesFit'
        BY <1>1, <1>4, <3>1, <3>4, <3>5, <3>6, FileChanged DEF Fits, FilesFit, me
      <3>8. CallFits' /\ ChainFits' /\ Saving'
        BY <1>1, <1>4, <3>1, <3>5 DEF Fits, CallFits, Runs, ChainFits, Saving, chain, Creates
      <3> QED BY <3>7, <3>8
    <2> QED BY <2>1, <2>2, <2>3
  <1> QED BY <1>3, <1>4, <1>5 DEF Fits

LEMMA WriteFits ==
  ASSUME Fits, NEW p \in opened, NEW n \in Nat, Write(p, n)
  PROVE  Fits' /\ View' = View
  <1>1. CASE Refuse("DENIED")
    BY <1>1, RefuseFits DEF Result
  <1>2. CASE Enter("write", p, n, "write") /\ UNCHANGED <<disk, clst, ncl, fil, opened, res>>
    <2>1. p \in Fils /\ pc = "idle"
      BY DEF Fits, FilesFit, Write
    <2>2. WindowFits' /\ AllocFits' /\ View' = View
      BY <1>2, DiskSame
    <2>3. /\ call' \in Frame /\ call'.op = "write" /\ cur' = p /\ call'.ofs = n /\ pc' = "write"
          /\ call'.cl = 0 /\ call'.new = Blank
      BY <1>2, <2>1, Entered DEF Ops
    <2>4. CallFits' /\ Saving' /\ ChainFits'
      BY <1>2, <2>1, <2>3 DEF Fits, CallFits, Runs, Saving, ChainFits, Creates
    <2>5. FilesFit'
      BY <1>2, <2>1, <2>3, AtIdle, FilesSame DEF Fits, FilesFit
    <2> QED BY <2>2, <2>4, <2>5 DEF Fits
  <1> QED BY <1>1, <1>2 DEF Write

LEMMA WriteToFits ==
  ASSUME Fits, cur \in opened, call.op = "write", call.ofs > 0, NEW c \in {0} \cup Clusters,
         WriteTo(c), UNCHANGED opened
  PROVE  ChainFits' /\ CallFits' /\ FilesFit' /\ Saving'
  <1> DEFINE end == me.fptr + Chunk
             f == [me EXCEPT !.clust = c, !.fptr = end,
                             !.sclust = IF me.sclust = 0 THEN c ELSE me.sclust,
                             !.objsize = IF end > me.objsize THEN end ELSE me.objsize]
  <1>1. fil' = [fil EXCEPT ![cur] = f] /\ Advance /\ pc' = "write" /\ UNCHANGED <<clst, ncl, res>>
    BY DEF WriteTo, Become
  <1>2. cur \in Fils /\ me \in FIL /\ Chunk \in Nat
    BY ChunkFits DEF Fits, FilesFit
  <1>3. end \in Nat
    BY <1>2, Fields
  <1> HIDE DEF end
  <1>4. /\ f \in FIL /\ f.fptr = end /\ f.objsize = IF end > me.objsize THEN end ELSE me.objsize
        /\ f.fs = me.fs /\ f.file = me.file
    <2>1. PICK sc, size : /\ sc = IF me.sclust = 0 THEN c ELSE me.sclust
                          /\ size = IF end > me.objsize THEN end ELSE me.objsize
      OBVIOUS
    <2>2. sc \in {0} \cup Clusters /\ size \in Nat
      BY <1>2, <1>3, <2>1, Fields
    <2>3. f = [me EXCEPT !.clust = c, !.fptr = end, !.sclust = sc, !.objsize = size]
      BY <2>1
    <2> HIDE DEF f
    <2>4. f \in FIL /\ f.fptr = end /\ f.objsize = size /\ f.fs = me.fs /\ f.file = me.file
      BY <1>2, <1>3, <2>2, <2>3 DEF FIL
    <2> QED BY <2>1, <2>4
  <1>5. /\ call' \in Frame /\ call'.op = "write" /\ cur' = cur
    BY <1>1, <1>2, AdvanceFits
  <1>6. f.fptr <= f.objsize
    BY <1>2, <1>3, <1>4, Fields
  <1> HIDE DEF f
  <1>7. FilesFit'
    BY <1>1, <1>2, <1>4, <1>5, <1>6, FileChanged DEF Fits, FilesFit, me
  <1>8. CallFits' /\ ChainFits' /\ Saving'
    BY <1>1, <1>2, <1>5 DEF Fits, CallFits, Runs, ChainFits, Saving, Creates
  <1> QED BY <1>7, <1>8

LEMMA ReturnChanged ==
  ASSUME Fits, cur \in Fils, NEW f \in FIL, Become(f), f.fs => f.file \in Files,
         f.err \/ f.fptr <= f.objsize, NEW r \in Result, Return(r), opened' \subseteq Fils
  PROVE  ChainFits' /\ CallFits' /\ FilesFit' /\ Saving'
  <1>1. ChainFits' /\ CallFits' /\ Saving' /\ call'.op = "none" /\ res' \in Result
    BY ReturnFits
  <1>2. fil' = [fil EXCEPT ![cur] = f]
    BY DEF Become
  <1>3. FilesFit'
    BY <1>1, <1>2, FileChanged DEF Fits
  <1> QED BY <1>1, <1>3

LEMMA WriteDoneFits ==
  ASSUME Fits, cur \in Fils, call.op = "write", WriteDone, UNCHANGED opened
  PROVE  ChainFits' /\ CallFits' /\ FilesFit' /\ Saving'
  <1> DEFINE f == [me EXCEPT !.modified = TRUE]
  <1>1. Become(f) /\ Return("OK") /\ "OK" \in Result
    BY DEF WriteDone, Result
  <1>2. me \in FIL /\ (me.err \/ me.fptr <= me.objsize) /\ (me.fs => me.file \in Files)
    BY DEF Fits, FilesFit, me
  <1>3. f \in FIL /\ f.err = me.err /\ f.fptr = me.fptr /\ f.objsize = me.objsize
        /\ f.fs = me.fs /\ f.file = me.file
    BY <1>2 DEF FIL
  <1> HIDE DEF f
  <1> QED BY <1>1, <1>2, <1>3, ReturnChanged DEF Fits, FilesFit

LEMMA WriteNextFits ==
  ASSUME Fits, WriteNext
  PROVE  Fits' /\ View' = View
  <1>1. pc = "write" /\ call.op = "write" /\ cur \in Fils /\ cur \in opened
    BY DEF WriteNext, Fits, CallFits, Runs, Creates, Removes, Syncs
  <1>2. me \in FIL /\ call.ofs \in Nat
    BY <1>1 DEF Fits, FilesFit, me, CallFits, Frame
  <1>3. WindowFits' /\ AllocFits' /\ View' = View /\ UNCHANGED opened
    BY DiskSame DEF WriteNext
  <1>4. ChainFits' /\ CallFits' /\ FilesFit' /\ Saving'
    <2>1. CASE call.ofs = 0 /\ WriteDone
      BY <1>1, <1>3, <2>1, WriteDoneFits
    <2>2. CASE call.ofs > 0 /\ WriteTo(IF me.fptr = 0 THEN me.sclust ELSE me.clust)
      <3>1. (IF me.fptr = 0 THEN me.sclust ELSE me.clust) \in {0} \cup Clusters
        BY <1>2, Fields
      <3> QED BY <1>1, <1>3, <2>2, <3>1, WriteToFits
    <2>3. CASE /\ call.ofs > 0
               /\ clst' = IF me.fptr = 0 THEN 0 ELSE me.clust
               /\ pc' = "create"
               /\ UNCHANGED <<ncl, fil, call, res>>
      <3>1. ChainFits'
        BY <1>2, <2>3, Fields DEF Fits, ChainFits
      <3>2. CallFits' /\ Saving'
        BY <1>1, <1>3, <2>3 DEF Fits, CallFits, Runs, Creates, Saving, cur
      <3>3. FilesFit'
        BY <1>1, <1>3, <2>3 DEF Fits, FilesFit, cur, me
      <3> QED BY <3>1, <3>2, <3>3
    <2> QED BY <2>1, <2>2, <2>3 DEF WriteNext
  <1> QED BY <1>3, <1>4 DEF Fits

LEMMA WriteCreatedFits ==
  ASSUME Fits, WriteCreated
  PROVE  Fits' /\ View' = View
  <1>1. call.op = "write" /\ cur \in Fils /\ cur \in opened /\ call.ofs > 0
    BY DEF WriteCreated, Fits, CallFits, Creates
  <1>2. WindowFits' /\ AllocFits' /\ View' = View /\ UNCHANGED opened
    BY DiskSame DEF WriteCreated
  <1>3. ChainFits' /\ CallFits' /\ FilesFit' /\ Saving'
    <2>1. CASE WriteDone
      BY <1>1, <1>2, <2>1, WriteDoneFits
    <2>2. CASE Abort
      BY <1>1, <1>2, <2>2, AbortFits
    <2>3. CASE ncl \in Clusters /\ WriteTo(ncl)
      BY <1>1, <1>2, <2>3, WriteToFits
    <2> QED BY <2>1, <2>2, <2>3 DEF WriteCreated
  <1> QED BY <1>2, <1>3 DEF Fits

-----------------------------------------------------------------------------

\* Where a seek that goes on begins: at the start of the cluster.
LEMMA SeekBase ==
  ASSUME NEW fptr \in Nat, fptr > 0, NEW ofs \in Nat, ofs > 0
  PROVE  LET base == ((fptr - 1) \div bcs) * bcs IN
         /\ base \in Nat /\ base < fptr
         /\ Ahead(ofs, fptr) => ofs - base \in Nat /\ ofs - base > 0
  <1> DEFINE q == (fptr - 1) \div bcs
             t == (ofs - 1) \div bcs
  <1>1. fptr - 1 \in Nat /\ ofs - 1 \in Nat /\ bcs \in Nat \ {0}
    BY VolumeAssumption
  <1>2. q \in Nat /\ (fptr - 1) % bcs \in 0 .. bcs - 1 /\ (fptr - 1) % bcs = (fptr - 1) - q * bcs
    BY <1>1, Division
  <1>3. t \in Nat /\ (ofs - 1) % bcs \in 0 .. bcs - 1 /\ (ofs - 1) % bcs = (ofs - 1) - t * bcs
    BY <1>1, Division
  <1>4. q * bcs \in Nat /\ t * bcs \in Nat
    BY <1>1, <1>2, <1>3
  <1>5. q * bcs <= fptr - 1 /\ t * bcs <= ofs - 1
    BY <1>1, <1>2, <1>3, <1>4
  <1>6. t >= q => q * bcs <= t * bcs
    BY <1>1, <1>2, <1>3
  <1>7. Ahead(ofs, fptr) => t >= q
    BY DEF Ahead
  <1> HIDE DEF q, t
  <1>8. Ahead(ofs, fptr) => q * bcs <= ofs - 1
    BY <1>1, <1>4, <1>5, <1>6, <1>7
  <1>9. q * bcs < fptr /\ (Ahead(ofs, fptr) => ofs - q * bcs \in Nat /\ ofs - q * bcs > 0)
    BY <1>1, <1>4, <1>5, <1>8
  <1> QED BY <1>4, <1>9 DEF q

LEMMA SeekFits ==
  ASSUME Fits, NEW p \in opened, NEW target \in Nat, Seek(p, target)
  PROVE  Fits' /\ View' = View
  <1> DEFINE f == fil[p]
             ofs == IF target > f.objsize /\ ~f.write THEN f.objsize ELSE target
             ahead == f.fptr > 0 /\ Ahead(ofs, f.fptr)
             base == ((f.fptr - 1) \div bcs) * bcs
  <1>1. pc = "idle" /\ Usable(p) /\ p \in Fils /\ f \in FIL /\ f.fptr <= f.objsize
    BY AtIdle DEF Seek, Fits, FilesFit, Usable
  <1>2. WindowFits' /\ AllocFits' /\ View' = View /\ UNCHANGED opened
    BY DiskSame DEF Seek
  <1>3. ofs \in Nat /\ (~f.write => ofs <= f.objsize)
    BY <1>1, Fields
  <1>4. f.fs => f.file \in Files
    BY <1>1 DEF Fits, FilesFit
  <1>5. ChainFits' /\ CallFits' /\ FilesFit' /\ Saving'
    <2>1. CASE ofs = 0
      <3> DEFINE g == [f EXCEPT !.fptr = 0]
      <3>1. fil' = [fil EXCEPT ![p] = g] /\ res' = "OK" /\ UNCHANGED <<chain, call>>
        BY <2>1 DEF Seek
      <3>2. /\ g \in FIL /\ g.fptr <= g.objsize /\ g.fs = f.fs /\ g.file = f.file
        BY <1>1, Fields DEF FIL
      <3> HIDE DEF g
      <3>3. call' = call /\ call.op = "none" /\ cur' = cur /\ call'.op = "none"
        BY <1>1, <3>1, AtIdle DEF cur
      <3>4. FilesFit'
        BY <1>1, <1>2, <1>4, <3>1, <3>2, <3>3, FileChanged DEF Fits, FilesFit, Result
      <3>5. ChainFits' /\ CallFits' /\ Saving'
        BY <1>1, <1>2, <3>1, <3>3 DEF Fits, ChainFits, CallFits, Runs, Saving, chain, cur
      <3> QED BY <3>4, <3>5
    <2>2. ASSUME NEW n \in Nat, n > 0, NEW b \in Nat, b <= f.fptr, b + n = ofs,
                 NEW g \in FIL, g = [f EXCEPT !.fptr = b] \/ g = [f EXCEPT !.fptr = b, !.clust = f.sclust],
                 fil' = [fil EXCEPT ![p] = g],
                 NEW at \in {"seek", "create"}, Enter("seek", p, n, at),
                 clst' \in {0} \cup Clusters, UNCHANGED <<ncl, res>>
          PROVE  ChainFits' /\ CallFits' /\ FilesFit' /\ Saving'
      <3>1. /\ call' \in Frame /\ call'.op = "seek" /\ cur' = p /\ call'.ofs = n /\ pc' = at
            /\ call'.cl = 0 /\ call'.new = Blank
        BY <1>1, <2>2, Entered DEF Ops
      <3>2. /\ g.fptr = b /\ g.objsize = f.objsize /\ g.write = f.write
            /\ g.fs = f.fs /\ g.file = f.file
        BY <1>1, <2>2 DEF FIL
      <3>3. g.fptr <= g.objsize /\ (g.write \/ g.fptr + call'.ofs <= g.objsize)
        BY <1>1, <1>3, <2>2, <3>1, <3>2, Fields
      <3>4. call.op = "none"
        BY <1>1, AtIdle
      <3>5. FilesFit'
        BY <1>1, <1>2, <1>4, <2>2, <3>1, <3>2, <3>3, <3>4, FileChanged DEF Fits, FilesFit
      <3>6. CallFits' /\ Saving'
        BY <1>1, <1>2, <2>2, <3>1 DEF CallFits, Runs, Creates, Saving
      <3>7. ChainFits'
        BY <2>2, <3>1 DEF Fits, ChainFits
      <3> QED BY <3>5, <3>6, <3>7
    <2>3. CASE ofs > 0 /\ ahead
      <3>1. /\ fil' = [fil EXCEPT ![p] = [f EXCEPT !.fptr = base]]
            /\ Enter("seek", p, ofs - base, "seek")
            /\ UNCHANGED <<clst, ncl, res>>
        BY <2>3 DEF Seek
      <3>2. base \in Nat /\ base < f.fptr /\ ofs - base \in Nat /\ ofs - base > 0
        BY <1>1, <1>3, <2>3, Fields, SeekBase
      <3> HIDE DEF base
      <3>3. [f EXCEPT !.fptr = base] \in FIL
        BY <1>1, <3>2 DEF FIL
      <3>4. base + (ofs - base) = ofs /\ base <= f.fptr
        BY <1>1, <1>3, <3>2, Fields
      <3>5. clst' \in {0} \cup Clusters
        BY <3>1 DEF Fits, ChainFits
      <3> HIDE DEF ofs, f
      <3> QED BY <2>2, <3>1, <3>2, <3>3, <3>4, <3>5
    <2>4. CASE ofs > 0 /\ ~ahead /\ f.sclust # 0
      <3>1. /\ fil' = [fil EXCEPT ![p] = [f EXCEPT !.fptr = 0, !.clust = f.sclust]]
            /\ Enter("seek", p, ofs, "seek")
            /\ UNCHANGED <<clst, ncl, res>>
        <4>1. /\ fil' = [fil EXCEPT ![p].fptr = 0, ![p].clust = f.sclust]
              /\ Enter("seek", p, ofs, "seek") /\ UNCHANGED <<clst, ncl, res>>
          BY <2>4 DEF Seek
        <4>2. fil \in [Fils -> FIL]
          BY DEF Fits, FilesFit
        <4> HIDE DEF ofs
        <4>3. fil' = [fil EXCEPT ![p] = [f EXCEPT !.fptr = 0, !.clust = f.sclust]]
          BY <1>1, <4>1, <4>2
        <4> QED BY <4>1, <4>3
      <3>2. [f EXCEPT !.fptr = 0, !.clust = f.sclust] \in FIL
        BY <1>1, Fields DEF FIL
      <3>3. 0 + ofs = ofs /\ 0 <= f.fptr
        BY <1>1, <1>3, Fields
      <3>4. clst' \in {0} \cup Clusters
        BY <3>1 DEF Fits, ChainFits
      <3> HIDE DEF ofs, f
      <3> QED BY <1>3, <2>2, <2>4, <3>1, <3>2, <3>3, <3>4
    <2>5. CASE ofs > 0 /\ ~ahead /\ f.sclust = 0
      <3> DEFINE g == [f EXCEPT !.fptr = 0]
      <3>1. /\ fil' = [fil EXCEPT ![p] = g]
            /\ Enter("seek", p, ofs, "create")
            /\ clst' = 0 /\ UNCHANGED <<ncl, res>>
        BY <2>5 DEF Seek
      <3>2. g \in FIL
        BY <1>1, Fields DEF FIL
      <3>3. 0 + ofs = ofs /\ 0 <= f.fptr
        BY <1>1, <1>3, Fields
      <3>4. clst' \in {0} \cup Clusters
        BY <3>1
      <3>5. g = [f EXCEPT !.fptr = 0] /\ ofs \in Nat /\ ofs > 0
        BY <1>3, <2>5
      <3> HIDE DEF ofs, f, g
      <3> QED BY <2>2, <3>1, <3>2, <3>3, <3>4, <3>5
    <2> HIDE DEF base
    <2> QED BY <1>3, <2>1, <2>3, <2>4, <2>5
  <1> QED BY <1>2, <1>5 DEF Fits

LEMMA GrownFits ==
  ASSUME NEW f \in FIL
  PROVE  /\ Grown(f) \in FIL /\ Grown(f).fptr <= Grown(f).objsize
         /\ Grown(f).fs = f.fs /\ Grown(f).file = f.file /\ Grown(f).err = f.err
         /\ Grown(f).fptr = f.fptr /\ Grown(f).sclust = f.sclust /\ Grown(f).clust = f.clust
         /\ Grown(f).write = f.write
         /\ Grown(f).objsize = IF f.fptr > f.objsize THEN f.fptr ELSE f.objsize
         /\ Grown(f).modified <=> (f.modified \/ f.fptr > f.objsize)
  <1>1. CASE f.fptr > f.objsize
    <2>1. Grown(f) = [f EXCEPT !.objsize = f.fptr, !.modified = TRUE]
      BY <1>1 DEF Grown
    <2>2. f.fptr \in Nat
      BY Fields
    <2>3. Grown(f) \in FIL
      BY <2>1, <2>2 DEF FIL
    <2> QED BY <1>1, <2>1, <2>2, <2>3 DEF FIL
  <1>2. CASE ~(f.fptr > f.objsize)
    BY <1>2, Fields DEF Grown
  <1> QED BY <1>1, <1>2

LEMMA SeekNextFits ==
  ASSUME Fits, SeekNext
  PROVE  Fits' /\ View' = View
  <1> DEFINE c == get_fat(me.clust)
  <1>1. pc = "seek" /\ call.op = "seek" /\ cur \in Fils /\ cur \in opened
    BY DEF SeekNext, Fits, CallFits, Runs, Creates, Removes, Syncs
  <1>2. /\ me \in FIL /\ call.ofs \in Nat /\ call.ofs > 0
        /\ (me.write \/ me.fptr + call.ofs <= me.objsize)
        /\ (me.fs => me.file \in Files) /\ call \in Frame
    BY <1>1 DEF Fits, FilesFit, me, CallFits, Frame
  <1>3. WindowFits' /\ View' = View
    <2>1. CASE UNCHANGED window
      BY <2>1 DEF window, Fits, WindowFits, View
    <2>2. CASE MoveWindow({SectorOf(me.clust)}, SectorOf(me.clust))
      BY <1>2, <2>2, Fields, Moved, SectorNumbers DEF Fits
    <2> QED BY <2>1, <2>2 DEF SeekNext
  <1>4. AllocFits' /\ opened' = opened
    BY DEF SeekNext, Fits, AllocFits, alloc
  <1>5. ChainFits' /\ CallFits' /\ FilesFit' /\ Saving'
    <2>1. CASE call.ofs <= bcs
      <3> DEFINE g == [me EXCEPT !.fptr = me.fptr + call.ofs]
      <3>1. Become(Grown(g)) /\ Return("OK") /\ "OK" \in Result
        BY <1>2, <2>1, ClusterSize DEF SeekNext, Result
      <3>2. me.fptr + call.ofs \in Nat
        BY <1>2, Fields
      <3>3. g \in FIL /\ g.fs = me.fs /\ g.file = me.file
        BY <1>2, <3>2 DEF FIL
      <3> HIDE DEF g
      <3> QED BY <1>1, <1>2, <1>4, <3>1, <3>3, GrownFits, ReturnChanged DEF Fits, FilesFit
    <2>2. ASSUME call.ofs > bcs,
                 NEW g \in FIL, g.fs = me.fs, g.file = me.file, g.write = me.write,
                 g.fptr = me.fptr + bcs, g.objsize = me.objsize,
                 fil' = [fil EXCEPT ![cur] = g],
                 call' = [call EXCEPT !.ofs = call.ofs - bcs],
                 clst' \in {0} \cup Clusters, pc' \in {"seek", "create"}, UNCHANGED <<ncl, res>>
          PROVE  ChainFits' /\ CallFits' /\ FilesFit' /\ Saving'
      <3>1. call.ofs - bcs \in Nat /\ call.ofs - bcs > 0
        BY <1>2, <2>2, ClusterSize
      <3>2. call' \in Frame /\ call'.op = "seek" /\ cur' = cur /\ call'.ofs = call.ofs - bcs
        BY <1>1, <1>2, <2>2, <3>1 DEF Frame, cur
      <3>3. g.write \/ g.fptr + call'.ofs <= g.objsize
        BY <1>2, <2>2, <3>1, <3>2, ClusterSize, Fields
      <3>4. FilesFit'
        BY <1>1, <1>2, <1>4, <2>2, <3>1, <3>2, <3>3, FileChanged DEF Fits, FilesFit
      <3>5. CallFits' /\ Saving'
        BY <1>1, <1>4, <2>2, <3>1, <3>2 DEF Fits, CallFits, Runs, Creates, Saving
      <3>6. ChainFits'
        BY <2>2 DEF Fits, ChainFits
      <3> QED BY <3>4, <3>5, <3>6
    <2> DEFINE f == [me EXCEPT !.fptr = me.fptr + bcs]
    <2>3. f \in FIL /\ f.fptr = me.fptr + bcs /\ f.objsize = me.objsize /\ f.fs = me.fs
          /\ f.file = me.file /\ f.write = me.write
      <3>1. me.fptr + bcs \in Nat
        BY <1>2, Fields, ClusterSize
      <3> QED BY <1>2, <3>1 DEF FIL
    <2>4. CASE call.ofs > bcs /\ me.write
      <3>1. /\ fil' = [fil EXCEPT ![cur] = f] /\ call' = [call EXCEPT !.ofs = call.ofs - bcs]
            /\ clst' = me.clust /\ pc' = "create" /\ UNCHANGED <<ncl, res>>
        BY <1>2, <2>4, ClusterSize DEF SeekNext, Become
      <3> HIDE DEF f
      <3> QED BY <1>2, <2>2, <2>3, <2>4, <3>1, Fields
    <2>5. CASE call.ofs > bcs /\ ~me.write /\ c \in Clusters
      <3> DEFINE g == [f EXCEPT !.clust = c]
      <3>1. /\ fil' = [fil EXCEPT ![cur] = g] /\ call' = [call EXCEPT !.ofs = call.ofs - bcs]
            /\ UNCHANGED <<chain, res>>
        BY <1>2, <2>5, ClusterSize DEF SeekNext, Become
      <3> HIDE DEF f, c
      <3>2. g \in FIL /\ g.fptr = f.fptr /\ g.objsize = f.objsize /\ g.fs = f.fs
            /\ g.file = f.file /\ g.write = f.write
        BY <2>3, <2>5 DEF FIL
      <3>3. clst' \in {0} \cup Clusters /\ pc' = "seek" /\ UNCHANGED ncl
        BY <1>1, <3>1 DEF Fits, ChainFits, chain
      <3> HIDE DEF g
      <3> QED BY <2>2, <2>3, <2>5, <3>1, <3>2, <3>3
    <2>6. CASE call.ofs > bcs /\ ~me.write /\ c \notin Clusters
      <3>1. Abort
        BY <1>2, <2>6, ClusterSize DEF SeekNext
      <3> QED BY <1>1, <1>4, <3>1, AbortFits
    <2> QED BY <1>2, <2>1, <2>4, <2>5, <2>6, ClusterSize
  <1> QED BY <1>3, <1>4, <1>5 DEF Fits

LEMMA SeekCreatedFits ==
  ASSUME Fits, SeekCreated
  PROVE  Fits' /\ View' = View
  <1>1. pc = "created" /\ call.op = "seek" /\ cur \in Fils /\ cur \in opened
    BY DEF SeekCreated, Fits, CallFits
  <1>2. /\ me \in FIL /\ (me.write \/ me.fptr + call.ofs <= me.objsize)
        /\ (me.fs => me.file \in Files)
    BY <1>1 DEF Fits, FilesFit, me
  <1>3. WindowFits' /\ AllocFits' /\ View' = View /\ UNCHANGED opened
    BY DiskSame DEF SeekCreated
  <1>4. ChainFits' /\ CallFits' /\ FilesFit' /\ Saving'
    <2>1. CASE Become(Grown(me)) /\ Return("OK")
      <3>1. "OK" \in Result
        BY DEF Result
      <3> QED BY <1>1, <1>2, <1>3, <2>1, <3>1, GrownFits, ReturnChanged DEF Fits, FilesFit
    <2>2. CASE Abort
      BY <1>1, <1>3, <2>2, AbortFits
    <2>3. CASE /\ ncl \in Clusters
               /\ Become([me EXCEPT !.clust = ncl, !.sclust = IF @ = 0 THEN ncl ELSE @])
               /\ pc' = "seek"
               /\ UNCHANGED <<clst, ncl, call, res>>
      <3> DEFINE g == [me EXCEPT !.clust = ncl, !.sclust = IF me.sclust = 0 THEN ncl ELSE me.sclust]
      <3>1. fil' = [fil EXCEPT ![cur] = g]
        BY <2>3 DEF Become
      <3>2. /\ g \in FIL /\ g.fs = me.fs /\ g.file = me.file /\ g.write = me.write
            /\ g.fptr = me.fptr /\ g.objsize = me.objsize
        BY <1>2, <2>3, Fields DEF FIL
      <3> HIDE DEF g
      <3>3. call' = call /\ cur' = cur /\ call.ofs > 0 /\ call'.ofs = call.ofs /\ call'.op = "seek"
        BY <1>1, <2>3 DEF Fits, FilesFit, cur
      <3>4. FilesFit'
        BY <1>1, <1>2, <1>3, <2>3, <3>1, <3>2, <3>3, FileChanged DEF Fits, FilesFit
      <3>5. CallFits' /\ ChainFits' /\ Saving'
        BY <1>1, <1>3, <2>3, <3>3 DEF Fits, CallFits, Runs, ChainFits, Saving
      <3> QED BY <3>4, <3>5
    <2> QED BY <2>1, <2>2, <2>3 DEF SeekCreated
  <1> QED BY <1>3, <1>4 DEF Fits

-----------------------------------------------------------------------------

\* A file object is changed and the call is over at once.
LEMMA ChangedAtOnce ==
  ASSUME Fits, pc = "idle", NEW p \in Fils, NEW f \in FIL, fil' = [fil EXCEPT ![p] = f],
         f.fs => f.file \in Files, f.err \/ f.fptr <= f.objsize,
         UNCHANGED <<pc, clst, ncl, call>>, res' \in Result, opened' \subseteq Fils
  PROVE  ChainFits' /\ CallFits' /\ FilesFit' /\ Saving'
  <1>1. call' = call /\ call.op = "none" /\ cur' = cur /\ call'.op = "none" /\ pc' = "idle"
    BY AtIdle DEF cur
  <1>2. FilesFit'
    BY <1>1, FileChanged DEF Fits
  <1>3. ChainFits'
    BY <1>1 DEF Fits, ChainFits
  <1>4. CallFits' /\ Saving'
    BY <1>1 DEF Fits, CallFits, Runs, Creates, Removes, Syncs, Saving
  <1> QED BY <1>2, <1>3, <1>4

LEMMA SameAtOnce ==
  ASSUME Fits, pc = "idle", UNCHANGED <<pc, clst, ncl, fil, call>>, res' \in Result,
         opened' \subseteq Fils
  PROVE  ChainFits' /\ CallFits' /\ FilesFit' /\ Saving'
  <1>1. call' = call /\ call.op = "none" /\ cur' = cur /\ call'.op = "none" /\ pc' = "idle"
    BY AtIdle DEF cur
  <1>2. FilesFit'
    BY <1>1 DEF Fits, FilesFit
  <1>3. ChainFits'
    BY <1>1 DEF Fits, ChainFits
  <1>4. CallFits' /\ Saving'
    BY <1>1 DEF Fits, CallFits, Runs, Creates, Removes, Syncs, Saving
  <1> QED BY <1>2, <1>3, <1>4

LEMMA CroppedFits ==
  ASSUME NEW f \in FIL
  PROVE  /\ Cropped(f) \in FIL /\ Cropped(f).fptr = f.fptr /\ Cropped(f).objsize = f.fptr
         /\ Cropped(f).fs = f.fs /\ Cropped(f).file = f.file /\ Cropped(f).sclust = f.sclust
         /\ Cropped(f).clust = f.clust /\ Cropped(f).modified = TRUE /\ Cropped(f).err = f.err
         /\ Cropped(f).write = f.write
         /\ Cropped(f).fptr <= Cropped(f).objsize
  <1>1. f.fptr \in Nat
    BY Fields
  <1>2. /\ Cropped(f) \in FIL /\ Cropped(f).fptr = f.fptr /\ Cropped(f).objsize = f.fptr
        /\ Cropped(f).fs = f.fs /\ Cropped(f).file = f.file /\ Cropped(f).sclust = f.sclust
        /\ Cropped(f).clust = f.clust /\ Cropped(f).modified = TRUE /\ Cropped(f).err = f.err
        /\ Cropped(f).write = f.write
    BY <1>1 DEF Cropped, FIL
  <1>3. Cropped(f).fptr <= Cropped(f).objsize
    BY <1>1, <1>2
  <1> QED BY <1>2, <1>3

LEMMA TruncateFits ==
  ASSUME Fits, NEW p \in opened, Truncate(p)
  PROVE  Fits' /\ View' = View
  <1> DEFINE f == fil[p]
             c == get_fat(f.clust)
  <1>1. pc = "idle" /\ p \in Fils /\ f \in FIL /\ (f.fs => f.file \in Files)
        /\ (f.err \/ f.fptr <= f.objsize)
    BY AtIdle DEF Truncate, Fits, FilesFit
  <1>2. WindowFits' /\ View' = View
    <2>1. CASE UNCHANGED window
      BY <2>1 DEF window, Fits, WindowFits, View
    <2>2. CASE MoveWindow({SectorOf(f.clust)}, SectorOf(f.clust))
      BY <1>1, <2>2, Fields, Moved, SectorNumbers DEF Fits
    <2> QED BY <2>1, <2>2 DEF Truncate
  <1>3. AllocFits' /\ opened' = opened /\ opened' \subseteq Fils
    BY DEF Truncate, Fits, AllocFits, alloc, FilesFit
  <1>4. ASSUME NEW at \in {"free", "cut"}, Enter("truncate", p, 0, at), UNCHANGED <<fil, res>>
        PROVE  CallFits' /\ FilesFit' /\ Saving'
    <2>1. /\ call' \in Frame /\ call'.op = "truncate" /\ cur' = p /\ call'.ofs = 0 /\ pc' = at
      BY <1>1, <1>4, Entered DEF Ops
    <2>2. CallFits' /\ Saving'
      BY <1>1, <1>3, <2>1 DEF CallFits, Runs, Removes, Creates, Saving
    <2>3. FilesFit'
      BY <1>1, <1>3, <1>4, <2>1, AtIdle, FilesSame DEF Fits, FilesFit
    <2> QED BY <2>2, <2>3
  <1>5. ChainFits' /\ CallFits' /\ FilesFit' /\ Saving'
    <2>1. CASE res' = (IF f.write THEN "OK" ELSE "DENIED") /\ UNCHANGED <<chain, fil, call>>
      BY <1>1, <1>3, <2>1, SameAtOnce DEF Result, chain
    <2>2. CASE Enter("truncate", p, 0, "free") /\ clst' = f.sclust /\ UNCHANGED <<ncl, fil, res>>
      <3>1. pc' = "free"
        BY <2>2 DEF Enter
      <3>2. ChainFits'
        BY <1>1, <2>2, <3>1, Fields DEF Fits, ChainFits
      <3> QED BY <1>4, <2>2, <3>2
    <2>3. CASE fil' = [fil EXCEPT ![p] = Cropped(f)] /\ res' = "OK" /\ UNCHANGED <<chain, call>>
      <3>1. Cropped(f) \in FIL /\ Cropped(f).fptr <= Cropped(f).objsize
            /\ (Cropped(f).fs => Cropped(f).file \in Files) /\ "OK" \in Result
        BY <1>1, CroppedFits DEF Result
      <3> QED BY <1>1, <1>3, <2>3, <3>1, ChangedAtOnce DEF chain
    <2>4. CASE /\ c \in Clusters /\ Enter("truncate", p, 0, "cut")
               /\ clst' = c /\ ncl' = f.clust /\ UNCHANGED <<fil, res>>
      <3>1. f.clust \in Clusters
        BY <2>4, Numbers DEF get_fat, EntryOf
      <3>2. pc' = "cut"
        BY <2>4 DEF Enter
      <3>3. ChainFits'
        BY <2>4, <3>1, <3>2 DEF ChainFits
      <3> QED BY <1>4, <2>4, <3>3
    <2>5. CASE /\ fil' = [fil EXCEPT ![p] = [Cropped(f) EXCEPT !.err = TRUE]]
               /\ res' = "INT_ERR" /\ UNCHANGED <<chain, call>>
      <3> DEFINE g == [Cropped(f) EXCEPT !.err = TRUE]
      <3>1. g \in FIL /\ g.err /\ (g.fs => g.file \in Files) /\ "INT_ERR" \in Result
        <4>1. PICK h : h = Cropped(f)
          OBVIOUS
        <4>2. h \in FIL /\ (h.fs => h.file \in Files)
          BY <1>1, <4>1, CroppedFits
        <4>3. g = [h EXCEPT !.err = TRUE]
          BY <4>1
        <4> HIDE DEF g
        <4> QED BY <4>2, <4>3 DEF Result, FIL
      <3> HIDE DEF g
      <3>2. fil' = [fil EXCEPT ![p] = g]
        BY <2>5 DEF g
      <3> QED BY <1>1, <1>3, <2>5, <3>1, <3>2, ChangedAtOnce DEF chain
    <2> QED BY <2>1, <2>2, <2>3, <2>4, <2>5 DEF Truncate
  <1> QED BY <1>2, <1>3, <1>5 DEF Fits

LEMMA TruncatedFits ==
  ASSUME Fits, Truncated
  PROVE  Fits' /\ View' = View
  <1>1. cur \in Fils /\ call.op = "truncate"
    BY DEF Truncated, Fits, CallFits
  <1>2. me \in FIL /\ (me.fs => me.file \in Files)
    BY <1>1 DEF Fits, FilesFit, me
  <1>3. WindowFits' /\ AllocFits' /\ View' = View /\ opened' \subseteq Fils
    BY DiskSame DEF Truncated, Fits, FilesFit
  <1> DEFINE g == [me EXCEPT !.sclust = IF me.fptr = 0 THEN 0 ELSE me.sclust]
  <1>4. g \in FIL /\ g.fs = me.fs /\ g.file = me.file
    BY <1>2, Fields DEF FIL
  <1>5. Become(Cropped(g)) /\ Return("OK") /\ "OK" \in Result
    BY DEF Truncated, Result
  <1> HIDE DEF g
  <1>6. Cropped(g) \in FIL /\ Cropped(g).fptr <= Cropped(g).objsize
        /\ (Cropped(g).fs => Cropped(g).file \in Files)
    BY <1>2, <1>4, CroppedFits
  <1>7. ChainFits' /\ CallFits' /\ FilesFit' /\ Saving'
    BY <1>1, <1>3, <1>5, <1>6, ReturnChanged
  <1> QED BY <1>3, <1>7 DEF Fits

-----------------------------------------------------------------------------

LEMMA SyncFits ==
  ASSUME Fits, NEW p \in opened, NEW op \in {"sync", "close"}, Sync(op, p)
  PROVE  /\ Fits'
         /\ \/ View' = View /\ pc' = "idle" /\ (~Valid(p) \/ ~fil[p].modified)
            \/ /\ View' = [View EXCEPT ![fil[p].file] =
                            [sclust |-> fil[p].sclust, size |-> fil[p].objsize]]
               /\ Valid(p) /\ fil' = fil /\ opened' = opened
               /\ pc' = "flush" /\ cur' = p /\ call'.op = op
  <1> DEFINE f == fil[p]
             v == [sclust |-> f.sclust, size |-> f.objsize]
  <1>1. pc = "idle" /\ p \in Fils /\ f \in FIL /\ (f.fs => f.file \in Files)
        /\ (f.err \/ f.fptr <= f.objsize)
    BY AtIdle DEF Sync, Fits, FilesFit
  <1>2. AllocFits' /\ opened' \subseteq Fils
    BY DEF Sync, Fits, AllocFits, alloc, FilesFit
  <1>3. CASE ~Valid(p) \/ ~f.modified
    <2> DEFINE g == [f EXCEPT !.fs = f.fs /\ op # "close"]
    <2>1. /\ res' = (IF Valid(p) THEN "OK" ELSE "INVALID")
          /\ fil' = [fil EXCEPT ![p].fs = @ /\ op # "close"]
          /\ UNCHANGED <<window, chain, call>>
      BY <1>3 DEF Sync
    <2>2. fil' = [fil EXCEPT ![p] = g]
      <3>1. fil \in [Fils -> FIL]
        BY DEF Fits, FilesFit
      <3> QED BY <1>1, <2>1, <3>1
    <2>3. g \in FIL /\ (g.fs => f.fs) /\ g.file = f.file /\ g.err = f.err /\ g.fptr = f.fptr
          /\ g.objsize = f.objsize
      <3>1. (f.fs /\ op # "close") \in BOOLEAN
        OBVIOUS
      <3>2. g \in FIL /\ g.fs = (f.fs /\ op # "close") /\ g.file = f.file /\ g.err = f.err /\ g.fptr = f.fptr
            /\ g.objsize = f.objsize
        BY <1>1, <3>1 DEF FIL
      <3> QED BY <3>2
    <2> HIDE DEF g
    <2>4. res' \in Result /\ UNCHANGED <<pc, clst, ncl, call>>
      BY <2>1 DEF Result, chain
    <2>5. ChainFits' /\ CallFits' /\ FilesFit' /\ Saving'
      BY <1>1, <1>2, <2>2, <2>3, <2>4, ChangedAtOnce
    <2>6. WindowFits' /\ View' = View
      BY <2>1 DEF window, Fits, WindowFits, View
    <2> QED BY <1>1, <1>2, <1>3, <2>4, <2>5, <2>6 DEF Fits
  <1>4. CASE Valid(p) /\ f.modified
    <2>1. Put(f.file, v) /\ Enter(op, p, 0, "flush") /\ UNCHANGED <<clst, ncl, fil, opened, res>>
      BY <1>4 DEF Sync
    <2>2. f.file \in Files /\ f.file \in Items /\ v \in DirEntry
      BY <1>1, <1>4, Fields, Kinds DEF Valid, DirEntry
    <2>3. ContentOf(f.file, v)
      BY <2>2 DEF ContentOf
    <2> HIDE DEF v
    <2>4. WindowFits' /\ View' = [View EXCEPT ![f.file] = v]
      BY <2>1, <2>2, <2>3, Changes DEF Fits
    <2>5. /\ call' \in Frame /\ call'.op = op /\ cur' = p /\ call'.ofs = 0 /\ pc' = "flush"
      BY <1>1, <2>1, Entered DEF Ops
    <2>6. CallFits'
      BY <1>1, <2>1, <2>5 DEF CallFits, Runs, Syncs, Creates
    <2>7. FilesFit'
      BY <1>1, <2>1, <2>5, AtIdle, FilesSame DEF Fits, FilesFit
    <2>8. me' = f
      BY <2>1, <2>5 DEF me
    <2>9. View'[f.file] = v
      BY <2>2, <2>4, ViewEntry DEF Fits
    <2>10. Saving'
      BY <2>2, <2>5, <2>8, <2>9 DEF Saving, v
    <2>11. ChainFits'
      BY <2>1, <2>5 DEF Fits, ChainFits
    <2> QED BY <1>2, <1>4, <2>1, <2>4, <2>5, <2>6, <2>7, <2>10, <2>11 DEF Fits, v
  <1> QED BY <1>3, <1>4

LEMMA FlushFits ==
  ASSUME Fits, Flush
  PROVE  Fits' /\ View' = View
  <1>1. WindowFits' /\ View' = View /\ ~wflag'
    BY Synced DEF Fits, Flush
  <1>2. AllocFits' /\ ChainFits'
    BY DEF Flush, Fits, AllocFits, alloc, ChainFits
  <1>3. pc = "flush" /\ pc' = "info" /\ UNCHANGED <<fil, opened, call, res>>
    BY DEF Flush
  <1>4. CallFits'
    BY <1>3 DEF Fits, CallFits, Runs, Creates, Removes, Syncs, cur
  <1>5. FilesFit' /\ Saving'
    BY <1>1, <1>3 DEF Fits, FilesFit, Saving, me, cur
  <1> QED BY <1>1, <1>2, <1>4, <1>5 DEF Fits

LEMMA SunkFits ==
  ASSUME Fits, Sunk
  PROVE  /\ Fits' /\ ~wflag'
         /\ \A x \in Items \ {FSINFO} : View'[x] = View[x] /\ card'[x] = View[x]
         /\ free_clst' = free_clst
  <1>1. ~wflag /\ WriteInfo /\ fs_type' = fs_type /\ Return("DISK_ERR") /\ pc = "info"
    BY DEF Fits, Saving, Sunk
  <1>2. /\ WindowFits' /\ AllocFits' /\ ~wflag'
        /\ \A x \in Items \ {FSINFO} : View'[x] = View[x] /\ card'[x] = View[x]
        /\ free_clst' = free_clst
    BY <1>1, InfoWritten DEF Fits
  <1>3. "DISK_ERR" \in Result
    BY DEF Result
  <1>4. ChainFits' /\ CallFits' /\ Saving' /\ call'.op = "none" /\ res' \in Result
    BY <1>1, <1>3, ReturnFits
  <1>5. FilesFit'
    <2>1. CASE call.op = "unlink"
      BY <1>4, <2>1, FilesSame DEF Sunk, Fits, FilesFit
    <2>2. CASE call.op # "unlink"
      <3> DEFINE g == [me EXCEPT !.modified = FALSE]
      <3>1. cur \in Fils /\ call.op \in {"sync", "close"}
        BY <1>1, <2>2 DEF Fits, CallFits, Runs, Creates, Removes, Syncs
      <3>2. me \in FIL /\ (me.fs => me.file \in Files) /\ (me.err \/ me.fptr <= me.objsize)
        BY <3>1 DEF Fits, FilesFit, me
      <3>3. g \in FIL /\ g.fs = me.fs /\ g.file = me.file /\ g.err = me.err /\ g.fptr = me.fptr
            /\ g.objsize = me.objsize
        BY <3>2 DEF FIL
      <3>4. fil' = [fil EXCEPT ![cur] = g] /\ opened' \subseteq Fils
        BY <2>2 DEF Sunk, Become, Fits, FilesFit
      <3> HIDE DEF g
      <3> QED BY <1>4, <3>1, <3>2, <3>3, <3>4, FileChanged DEF Fits
    <2> QED BY <2>1, <2>2
  <1> QED BY <1>2, <1>4, <1>5 DEF Fits

-----------------------------------------------------------------------------

LEMMA UnlinkFits ==
  ASSUME Fits, NEW f \in Files, Unlink(f)
  PROVE  /\ Fits'
         /\ \/ View' = View /\ UNCHANGED <<pc, call, clst, ncl>>
            \/ /\ View[f] # NOENTRY
               /\ View' = [View EXCEPT ![f] = NOENTRY]
               /\ pc' = (IF View[f].sclust = 0 THEN "flush" ELSE "free")
               /\ clst' = View[f].sclust /\ call'.op = "unlink" /\ cur' = 0
  <1> DEFINE e == View[f]
  <1>1. AllocFits' /\ pc = "idle"
    BY Mounted DEF Fits, Unlink
  <1>2. fil' = fil /\ opened' = opened /\ opened' \subseteq Fils
    BY DEF Unlink, Fits, FilesFit
  <1>3. CASE e = NOENTRY \/ f \in ReadOnly
    <2>1. /\ MoveWindow({DIRSECT}, DIRSECT)
          /\ res' = (IF e = NOENTRY THEN "NO_FILE" ELSE "DENIED")
          /\ UNCHANGED <<chain, call>>
      BY <1>3 DEF Unlink
    <2>2. WindowFits' /\ View' = View
      BY <2>1, Moved, SectorNumbers DEF Fits
    <2>3. ChainFits' /\ CallFits' /\ FilesFit' /\ Saving'
      BY <1>1, <1>2, <2>1, SameAtOnce DEF chain, Result
    <2> QED BY <1>1, <2>1, <2>2, <2>3 DEF Fits, chain
  <1>4. CASE e # NOENTRY /\ f \notin ReadOnly
    <2>1. /\ Put(f, NOENTRY) /\ call' = [Idle EXCEPT !.op = "unlink"]
          /\ pc' = (IF e.sclust = 0 THEN "flush" ELSE "free")
          /\ clst' = e.sclust /\ UNCHANGED <<ncl, res>>
      BY <1>4 DEF Unlink
    <2>2. f \in Items /\ ContentOf(f, NOENTRY)
      BY Kinds DEF ContentOf, DirEntry
    <2>3. WindowFits' /\ View' = [View EXCEPT ![f] = NOENTRY]
      BY <2>1, <2>2, Changes DEF Fits
    <2>4. e.sclust \in {0} \cup Clusters
      BY <1>4, ViewEntry DEF Fits, DirEntry
    <2>5. call' \in Frame /\ call'.op = "unlink" /\ cur' = 0
      BY <2>1, BlankFits DEF Frame, Idle, Ops, cur
    <2>6. ChainFits'
      BY <2>1, <2>4 DEF Fits, ChainFits
    <2>7. CallFits' /\ Saving'
      BY <2>1, <2>5 DEF CallFits, Runs, Removes, Syncs, Creates, Saving
    <2>8. FilesFit'
      BY <1>1, <1>2, <2>1, <2>5, AtIdle, FilesSame DEF Fits, FilesFit
    <2> QED BY <1>1, <1>4, <2>1, <2>3, <2>5, <2>6, <2>7, <2>8 DEF Fits
  <1> QED BY <1>3, <1>4

LEMMA UnlinkedFits ==
  ASSUME Fits, Unlinked
  PROVE  Fits' /\ View' = View
  <1>1. WindowFits' /\ AllocFits' /\ View' = View
    BY DiskSame DEF Unlinked
  <1>2. call.op = "unlink" /\ pc = "removed" /\ pc' = "flush"
        /\ UNCHANGED <<clst, ncl, fil, opened, call, res>>
    BY DEF Unlinked
  <1>3. CallFits'
    BY <1>2 DEF Fits, CallFits, Runs, Creates, Removes, Syncs, cur
  <1>4. FilesFit' /\ Saving' /\ ChainFits'
    BY <1>2 DEF Fits, FilesFit, Saving, ChainFits, cur, me
  <1> QED BY <1>1, <1>3, <1>4 DEF Fits

LEMMA FreeClustersCount ==
  IsFiniteSet(FreeClusters) /\ Cardinality(FreeClusters) \in 0 .. n_fatent - 2
  <1>1. FreeClusters \subseteq Clusters
    BY DEF FreeClusters
  <1>2. IsFiniteSet(FreeClusters) /\ Cardinality(FreeClusters) <= n_fatent - 2
    BY <1>1, FiniteClusters, FS_Subset
  <1> QED BY <1>2, FS_CardinalityType, Numbers

LEMMA GetFreeFits ==
  ASSUME Fits, GetFree
  PROVE  Fits' /\ View' = View
  <1>1. pc = "idle" /\ UNCHANGED <<chain, fil, opened, call>> /\ res' \in Result
    BY DEF GetFree, Result
  <1>2. CASE MountVolume /\ UNCHANGED window
    <2>1. AllocFits'
      BY <1>2, Mounted DEF Fits
    <2>2. WindowFits' /\ View' = View
      BY <1>2 DEF window, Fits, WindowFits, View
    <2>3. ChainFits' /\ CallFits' /\ FilesFit' /\ Saving'
      BY <1>1, SameAtOnce DEF chain, Fits, FilesFit
    <2> QED BY <2>1, <2>2, <2>3 DEF Fits
  <1>3. CASE /\ fs_type' = 1
             /\ free_clst' = Cardinality(FreeClusters)
             /\ last_clst' = AtMount.next
             /\ fsi_flag' = Changed(AtMount.flag)
             /\ MoveWindow({SectorOf(c) : c \in Clusters}, SectorOf(n_fatent - 1))
    <2>1. AllocFits'
      <3>1. AtMount.next \in 0 .. n_fatent /\ AtMount.flag \in {0, 1, NOINFO}
        BY AtMountFits DEF Fits
      <3>2. Changed(AtMount.flag) \in {0, 1, NOINFO}
        BY <3>1 DEF Changed
      <3> QED BY <1>3, <3>1, <3>2, FreeClustersCount, Numbers DEF AllocFits
    <2>2. n_fatent - 1 \in Clusters
      BY Numbers DEF Clusters
    <2>3. SectorOf(n_fatent - 1) \in {SectorOf(c) : c \in Clusters}
          /\ SectorOf(n_fatent - 1) \in Int
      BY <2>2, SectorNumbers, Numbers
    <2>4. WindowFits' /\ View' = View
      BY <1>3, <2>3, Moved DEF Fits
    <2>5. ChainFits' /\ CallFits' /\ FilesFit' /\ Saving'
      BY <1>1, SameAtOnce DEF chain, Fits, FilesFit
    <2> QED BY <2>1, <2>4, <2>5 DEF Fits
  <1> QED BY <1>2, <1>3 DEF GetFree

LEMMA PowerCycleFits ==
  ASSUME Fits, PowerCycle
  PROVE  Fits'
  <1>1. WindowFits'
    <2>1. Contents(card', Items)
      BY DEF Fits, WindowFits, PowerCycle
    <2>2. ItemsOf(NOSECT) = {}
      BY SectorNumbers, ItemSets
    <2> QED BY <2>1, <2>2, SectorNumbers DEF WindowFits, Contents, PowerCycle
  <1>2. AllocFits'
    BY Numbers DEF AllocFits, UNKNOWN, PowerCycle
  <1>3. "OK" \in Result /\ Return("OK")
    BY DEF Result, PowerCycle
  <1>4. ChainFits' /\ CallFits' /\ Saving' /\ call'.op = "none" /\ res' \in Result
    BY <1>3, ReturnFits
  <1>5. fil' = [p \in Fils |-> Blank] /\ opened' = {}
    BY DEF PowerCycle
  <1>6. FilesFit'
    BY <1>4, <1>5, BlankFits DEF FilesFit, Blank
  <1> QED BY <1>1, <1>2, <1>4, <1>6 DEF Fits

-----------------------------------------------------------------------------
\* f_open.

LEMMA OpenedFits ==
  ASSUME NEW f \in Files, NEW flags, NEW e, NEW p \in Fils, NEW o, NEW u,
         fil \in [Fils -> FIL], e.sclust \in {0} \cup Clusters, e.size \in Nat,
         "SEEKEND" \in flags /\ e.size > 0 =>
           Nth(e.sclust, (e.size - 1) \div bcs) \in {0} \cup Clusters,
         o = Opened(p, f, flags, e), u = [o EXCEPT !.modified = TRUE]
  PROVE  /\ o \in FIL /\ ~o.modified /\ u \in FIL /\ u.modified
         /\ \A g \in {o, u} :
                /\ g.fptr <= g.objsize /\ g.fs /\ g.file = f /\ ~g.err
                /\ g.sclust = e.sclust /\ g.objsize = e.size
                /\ g.fptr = IF "SEEKEND" \in flags THEN e.size ELSE 0
                /\ ("SEEKEND" \in flags /\ e.size > 0) =>
                     g.clust = Nth(e.sclust, (e.size - 1) \div bcs)
  <1> DEFINE c == IF "SEEKEND" \in flags /\ e.size > 0
                    THEN Nth(e.sclust, (e.size - 1) \div bcs) ELSE fil[p].clust
             n == IF "SEEKEND" \in flags THEN e.size ELSE 0
             w == "WRITE" \in flags
             x == [fs |-> TRUE, file |-> f, sclust |-> e.sclust, objsize |-> e.size, fptr |-> n,
                   clust |-> c, write |-> w, modified |-> FALSE, err |-> FALSE]
  <1>1. fil[p].clust \in {0} \cup Clusters
    BY Fields
  <1>2. c \in {0} \cup Clusters /\ n \in Nat /\ n <= e.size /\ w \in BOOLEAN
    BY <1>1
  <1>3. o = x
    BY DEF Opened
  <1>4. "SEEKEND" \in flags /\ e.size > 0 => c = Nth(e.sclust, (e.size - 1) \div bcs)
    OBVIOUS
  <1>5. n = IF "SEEKEND" \in flags THEN e.size ELSE 0
    OBVIOUS
  <1> HIDE DEF c, n, w
  <1>6. x \in FIL
    BY <1>2 DEF FIL
  <1>7. x.fptr = n /\ x.objsize = e.size /\ x.fs /\ x.file = f /\ ~x.err
        /\ x.sclust = e.sclust /\ x.clust = c /\ ~x.modified
    OBVIOUS
  <1> HIDE DEF x
  <1>8. o \in FIL /\ o.fptr = n /\ o.objsize = e.size /\ o.fs /\ o.file = f /\ ~o.err
        /\ o.sclust = e.sclust /\ o.clust = c /\ ~o.modified
    BY <1>3, <1>6, <1>7
  <1>9. u \in FIL /\ u.fptr = o.fptr /\ u.objsize = o.objsize /\ (u.fs <=> o.fs) /\ u.file = o.file
        /\ (u.err <=> o.err) /\ u.sclust = o.sclust /\ u.clust = o.clust /\ u.modified
    BY <1>8 DEF FIL
  <1> QED BY <1>2, <1>4, <1>5, <1>8, <1>9

\* What f_open does to a file that is there: the position at its end is looked
\* for along the FAT.
LEMMA OpenExisting ==
  ASSUME Fits, NEW f \in Files, NEW flags, NEW e \in DirEntry, e # NOENTRY,
         NEW n, n = IF "SEEKEND" \in flags /\ e.size > 0 THEN (e.size - 1) \div bcs ELSE 0
  PROVE  /\ n \in Nat /\ e.sclust \in {0} \cup Clusters /\ e.size \in Nat
         /\ n = 0 \/ Nth(e.sclust, n) \in Clusters =>
              Nth(e.sclust, n) \in {0} \cup Clusters
  <1>1. e.sclust \in {0} \cup Clusters /\ e.size \in Nat
    BY DEF DirEntry
  <1>2. n \in Nat
    <2>1. e.size > 0 => e.size - 1 \in Nat
      BY <1>1
    <2>2. bcs \in Nat \ {0}
      BY VolumeAssumption
    <2> QED BY <1>1, <2>1, <2>2, Division
  <1>3. Nth(e.sclust, 0) = e.sclust
    BY Walks DEF Nth
  <1> QED BY <1>1, <1>2, <1>3

\* Along the first n clusters of a chain, as far as there are such.
AlongChain(first, n) ==
  LET steps == {k \in 0 .. n - 1 : Nth(first, k) \in Clusters}
      sector(k) == SectorOf(Nth(first, k))
  IN  IF steps = {} THEN MoveWindow({DIRSECT}, DIRSECT)
      ELSE \E k \in steps :
             /\ \A j \in steps : j <= k
             /\ MoveWindow({DIRSECT} \cup {sector(j) : j \in steps}, sector(k))

LEMMA AlongFits ==
  ASSUME WindowFits, NEW first, NEW n, AlongChain(first, n)
  PROVE  WindowFits' /\ View' = View
  <1> DEFINE steps == {k \in 0 .. n - 1 : Nth(first, k) \in Clusters}
             sector(k) == SectorOf(Nth(first, k))
  <1>1. CASE MoveWindow({DIRSECT}, DIRSECT)
    BY <1>1, Moved, SectorNumbers
  <1>2. ASSUME NEW k \in steps, MoveWindow({DIRSECT} \cup {sector(j) : j \in steps}, sector(k))
        PROVE  WindowFits' /\ View' = View
    <2>1. Nth(first, k) \in Nat
      BY Numbers
    <2>2. sector(k) \in Int
      BY <2>1, SectorNumbers
    <2> DEFINE S == {DIRSECT} \cup {sector(j) : j \in steps}
    <2>3. sector(k) \in S /\ MoveWindow(S, sector(k))
      BY <1>2
    <2> HIDE DEF S, steps, sector
    <2> QED BY <2>2, <2>3, Moved
  <1> QED BY <1>1, <1>2 DEF AlongChain

LEMMA OpenFits ==
  ASSUME Fits, NEW p \in Fils \ opened, NEW f \in Files, NEW flags, Open(p, f, flags)
  PROVE  Fits'
  <1> DEFINE e == View[f]
             empty == [sclust |-> 0, size |-> 0]
  <1>1. pc = "idle" /\ AllocFits' /\ MountVolume
    BY Mounted DEF Open, Fits
  <1>2. /\ e \in DirEntry /\ fil \in [Fils -> FIL] /\ fil[p] \in FIL /\ opened \subseteq Fils
        /\ p \in Fils /\ res \in Result
    BY ViewEntry DEF Fits, FilesFit
  <1>3. ASSUME fil' = [fil EXCEPT ![p].fs = FALSE], res' \in Result,
               UNCHANGED <<pc, clst, ncl, call>>, opened' \subseteq Fils
        PROVE  ChainFits' /\ CallFits' /\ FilesFit' /\ Saving'
    <2> DEFINE g == [fil[p] EXCEPT !.fs = FALSE]
    <2>1. fil' = [fil EXCEPT ![p] = g]
      BY <1>2, <1>3
    <2>2. g \in FIL /\ ~g.fs /\ g.err = fil[p].err /\ g.fptr = fil[p].fptr
          /\ g.objsize = fil[p].objsize
      BY <1>2 DEF FIL
    <2>3. fil[p].err \/ fil[p].fptr <= fil[p].objsize
      BY <1>1, <1>2, AtIdle DEF Fits, FilesFit
    <2> HIDE DEF g
    <2> QED BY <1>1, <1>2, <1>3, <2>1, <2>2, <2>3, ChangedAtOnce
  <1>4. ASSUME NEW g \in FIL, g.fs, g.file = f, g.fptr <= g.objsize,
               fil' = [fil EXCEPT ![p] = g], opened' = opened \cup {p}, res' = "OK",
               UNCHANGED <<chain, call>>
        PROVE  ChainFits' /\ CallFits' /\ FilesFit' /\ Saving'
    <2>1. res' \in Result /\ opened' \subseteq Fils /\ UNCHANGED <<pc, clst, ncl, call>>
      BY <1>2, <1>4 DEF Result, chain
    <2> QED BY <1>1, <1>2, <1>4, <2>1, ChangedAtOnce
  <1>5. CASE \E r \in Result :
               /\ MoveWindow({DIRSECT}, DIRSECT)
               /\ fil' = [fil EXCEPT ![p].fs = FALSE]
               /\ res' = r
               /\ UNCHANGED <<chain, opened, call>>
    <2>1. WindowFits'
      BY <1>5, Moved, SectorNumbers DEF Fits
    <2> QED BY <1>1, <1>2, <1>3, <1>5, <2>1 DEF Fits, chain
  <1> DEFINE o == [Opened(p, f, flags, empty) EXCEPT !.modified = TRUE]
  <1>6. o \in FIL /\ o.fptr <= o.objsize /\ o.fs /\ o.file = f
    <2>1. empty.sclust = 0 /\ empty.size = 0
      OBVIOUS
    <2>2. empty.sclust \in {0} \cup Clusters /\ empty.size \in Nat
          /\ ~("SEEKEND" \in flags /\ empty.size > 0)
      BY <2>1
    <2> HIDE DEF empty, o, e
    <2>3. o = [Opened(p, f, flags, empty) EXCEPT !.modified = TRUE]
      BY DEF o
    <2> QED BY <1>2, <2>2, <2>3, OpenedFits
  <1>7. ASSUME Put(f, empty) PROVE WindowFits'
    <2>1. f \in Items /\ ContentOf(f, empty)
      BY Kinds DEF ContentOf, DirEntry
    <2> QED BY <1>7, <2>1, Changes DEF Fits
  <1>8. CASE /\ Put(f, empty) /\ e.sclust \in Clusters
             /\ call' = [Idle EXCEPT !.op = "open", !.fp = p, !.cl = e.sclust, !.new = o]
             /\ pc' = "free" /\ clst' = e.sclust
             /\ UNCHANGED <<ncl, fil, opened, res>>
    <2> HIDE DEF o, e, empty
    <2>1. /\ call' \in Frame /\ call'.op = "open" /\ cur' = p /\ call'.cl \in Clusters
          /\ call'.new = o
      BY <1>2, <1>6, <1>8, BlankFits, Numbers DEF Frame, Idle, Ops, cur
    <2>2. CallFits' /\ Saving'
      BY <1>2, <1>6, <1>8, <2>1 DEF CallFits, Runs, Removes, Creates, Saving
    <2>3. FilesFit'
      BY <1>1, <1>2, <1>8, <2>1, AtIdle, FilesSame DEF Fits, FilesFit
    <2>4. ChainFits'
      BY <1>8 DEF Fits, ChainFits
    <2> QED BY <1>1, <1>7, <1>8, <2>2, <2>3, <2>4 DEF Fits
  <1>9. CASE /\ Put(f, empty)
             /\ fil' = [fil EXCEPT ![p] = o] /\ opened' = opened \cup {p} /\ res' = "OK"
             /\ UNCHANGED <<chain, call>>
    <2> HIDE DEF o, empty
    <2> QED BY <1>1, <1>4, <1>6, <1>7, <1>9 DEF Fits
  <1> DEFINE n == IF "SEEKEND" \in flags /\ e.size > 0 THEN (e.size - 1) \div bcs ELSE 0
             last == Nth(e.sclust, n)
             walked == AlongChain(e.sclust, n)
  <1>10. ASSUME walked PROVE WindowFits'
    BY <1>10, AlongFits DEF Fits
  <1>11. CASE /\ e # NOENTRY /\ walked
              /\ IF n = 0 \/ last \in Clusters
                   THEN /\ fil' = [fil EXCEPT ![p] = Opened(p, f, flags, e)]
                        /\ opened' = opened \cup {p}
                        /\ res' = "OK"
                   ELSE /\ fil' = [fil EXCEPT ![p].fs = FALSE]
                        /\ res' = "INT_ERR"
                        /\ UNCHANGED opened
              /\ UNCHANGED <<chain, call>>
    <2>1. WindowFits'
      BY <1>10, <1>11
    <2> HIDE DEF walked, e
    <2>2. CASE n = 0 \/ last \in Clusters
      <3>1. /\ e.sclust \in {0} \cup Clusters /\ e.size \in Nat
            /\ Nth(e.sclust, n) \in {0} \cup Clusters
        BY <1>2, <1>11, <2>2, OpenExisting
      <3>2. "SEEKEND" \in flags /\ e.size > 0 =>
              Nth(e.sclust, (e.size - 1) \div bcs) \in {0} \cup Clusters
        BY <3>1
      <3> DEFINE g == Opened(p, f, flags, e)
      <3>3. g \in FIL /\ g.fptr <= g.objsize /\ g.fs /\ g.file = f
        <4> DEFINE u == [g EXCEPT !.modified = TRUE]
        <4>1. g = Opened(p, f, flags, e) /\ u = [g EXCEPT !.modified = TRUE]
          OBVIOUS
        <4> HIDE DEF g, u, n
        <4> QED BY <1>2, <3>1, <3>2, <4>1, OpenedFits
      <3>4. fil' = [fil EXCEPT ![p] = g] /\ opened' = opened \cup {p} /\ res' = "OK"
            /\ UNCHANGED <<chain, call>>
        BY <1>11, <2>2
      <3> HIDE DEF g
      <3> QED BY <1>1, <1>4, <2>1, <3>3, <3>4 DEF Fits
    <2>3. CASE ~(n = 0 \/ last \in Clusters)
      <3>1. fil' = [fil EXCEPT ![p].fs = FALSE] /\ res' \in Result /\ opened' = opened
            /\ UNCHANGED <<pc, clst, ncl, call>>
        BY <1>11, <2>3 DEF Result, chain
      <3> QED BY <1>1, <1>2, <1>3, <2>1, <3>1 DEF Fits
    <2> QED BY <2>2, <2>3
  <1> DEFINE create == {"CREATE_NEW", "CREATE_ALWAYS", "OPEN_ALWAYS"} \cap flags # {}
             refused ==
               IF e = NOENTRY THEN IF create THEN {} ELSE {"NO_FILE"}
               ELSE IF f \in ReadOnly /\ (create \/ "WRITE" \in flags) THEN {"DENIED"}
               ELSE IF "CREATE_NEW" \in flags THEN {"EXIST"} ELSE {}
  <1>12. refused \subseteq Result
    BY DEF Result
  <1>13. \/ \E r \in refused :
              /\ MoveWindow({DIRSECT}, DIRSECT)
              /\ fil' = [fil EXCEPT ![p].fs = FALSE]
              /\ res' = r
              /\ UNCHANGED <<chain, opened, call>>
         \/ /\ Put(f, empty)
            /\ IF e.sclust \in Clusters
                 THEN /\ call' = [Idle EXCEPT !.op = "open", !.fp = p, !.cl = e.sclust, !.new = o]
                      /\ pc' = "free" /\ clst' = e.sclust
                      /\ UNCHANGED <<ncl, fil, opened, res>>
                 ELSE /\ fil' = [fil EXCEPT ![p] = o]
                      /\ opened' = opened \cup {p}
                      /\ res' = "OK"
                      /\ UNCHANGED <<chain, call>>
         \/ /\ e # NOENTRY /\ walked
            /\ IF n = 0 \/ last \in Clusters
                   THEN /\ fil' = [fil EXCEPT ![p] = Opened(p, f, flags, e)]
                        /\ opened' = opened \cup {p}
                        /\ res' = "OK"
                   ELSE /\ fil' = [fil EXCEPT ![p].fs = FALSE]
                        /\ res' = "INT_ERR"
                        /\ UNCHANGED opened
            /\ UNCHANGED <<chain, call>>
    BY DEF Open, AlongChain
  <1> HIDE DEF refused, walked, o, empty, e, n, last
  <1> QED BY <1>5, <1>8, <1>9, <1>11, <1>12, <1>13

LEMMA OpenEmptiedFits ==
  ASSUME Fits, OpenEmptied
  PROVE  Fits' /\ View' = View
  <1>1. call.op = "open" /\ cur \in Fils /\ call.cl \in Clusters /\ call.new.file \in Files
        /\ call.new.fptr <= call.new.objsize /\ call.new \in FIL
    BY DEF OpenEmptied, Fits, CallFits, Frame
  <1>2. WindowFits' /\ View' = View
    BY Moved, SectorNumbers DEF OpenEmptied, Fits
  <1>3. AllocFits'
    BY <1>1, Numbers DEF OpenEmptied, Fits, AllocFits, Clusters
  <1>4. opened' \subseteq Fils
    BY <1>1 DEF OpenEmptied, Fits, FilesFit
  <1>5. Become(call.new) /\ Return("OK") /\ "OK" \in Result
    BY DEF OpenEmptied, Result
  <1>6. ChainFits' /\ CallFits' /\ FilesFit' /\ Saving'
    BY <1>1, <1>4, <1>5, ReturnChanged
  <1> QED BY <1>2, <1>3, <1>6 DEF Fits

LEMMA UnusableFits ==
  ASSUME Fits, NEW p \in opened, Unusable(p)
  PROVE  Fits' /\ View' = View
  <1>1. (IF Valid(p) THEN "INT_ERR" ELSE "INVALID") \in Result
    BY DEF Result
  <1> QED BY <1>1, RefuseFits DEF Unusable
-----------------------------------------------------------------------------

LEMMA CalledFits ==
  ASSUME Fits, Call
  PROVE  Fits'
  <1>1. ASSUME NEW p \in Fils \ opened, NEW f \in Files, NEW m \in Modes, Open(p, f, m)
        PROVE  Fits'
    BY <1>1, OpenFits
  <1>2. ASSUME NEW p \in opened, NEW n \in 0 .. MaxBytes, Read(p, n) \/ Write(p, n)
        PROVE  Fits'
    <2>1. n \in Nat
      BY VolumeAssumption
    <2> QED BY <1>2, <2>1, ReadFits, WriteFits
  <1>3. ASSUME NEW p \in opened, NEW o \in 0 .. MaxOffset, Seek(p, o)
        PROVE  Fits'
    <2>1. o \in Nat
      BY VolumeAssumption
    <2> QED BY <1>3, <2>1, SeekFits
  <1>4. ASSUME NEW p \in opened, Unusable(p) \/ Truncate(p) \/ Sync("sync", p) \/ Sync("close", p)
        PROVE  Fits'
    <2>1. "sync" \in {"sync", "close"} /\ "close" \in {"sync", "close"}
      OBVIOUS
    <2> QED BY <1>4, <2>1, UnusableFits, TruncateFits, SyncFits
  <1>5. ASSUME NEW f \in Files, Unlink(f) PROVE Fits'
    BY <1>5, UnlinkFits
  <1>6. GetFree => Fits'
    BY GetFreeFits
  <1> QED BY <1>1, <1>2, <1>3, <1>4, <1>5, <1>6 DEF Call

LEMMA StepFits ==
  ASSUME Fits, Step
  PROVE  Fits'
  <1>1. ASSUME ChainStep, Elsewhere PROVE Fits'
    BY <1>1, FollowFits, FullFits, FindFits, MarkFits, LinkFits, CutFits, FreeNextFits DEF ChainStep
  <1>2. ASSUME OpenEmptied \/ ReadNext \/ WriteNext \/ WriteCreated \/ SeekNext \/ SeekCreated
        PROVE  Fits'
    BY <1>2, OpenEmptiedFits, ReadNextFits, WriteNextFits, WriteCreatedFits, SeekNextFits, SeekCreatedFits
  <1>3. ASSUME Truncated \/ Flush \/ Sunk \/ Unlinked PROVE Fits'
    BY <1>3, TruncatedFits, FlushFits, SunkFits, UnlinkedFits
  <1> QED BY <1>1, <1>2, <1>3 DEF Step, Elsewhere

LEMMA NextFits == Fits /\ [Next]_volume => Fits'
  <1>1. ASSUME Fits, UNCHANGED volume PROVE Fits'
    BY <1>1 DEF volume, disk, window, alloc, chain, Fits, WindowFits, AllocFits, ChainFits, CallFits,
               FilesFit, Saving, Runs, cur, me, View
  <1> QED BY <1>1, CalledFits, StepFits, PowerCycleFits DEF Next

\* A step of f_close that ends it is the one that writes FSInfo.
LEMMA Closing ==
  ASSUME Fits, Next, pc = "info", call.op = "close", pc' = "idle", fs_type' # 0
  PROVE  Sunk
  <1>1. ~Call
    BY DEF Call, Open, Read, Write, Seek, Unusable, Truncate, Sync, Unlink, GetFree
  <1>2. ~PowerCycle
    BY DEF PowerCycle
  <1>3. ~ChainStep
    BY DEF ChainStep, Follow, Full, Find, Mark, Link, Cut, FreeNext
  <1> QED BY <1>1, <1>2, <1>3
       DEF Next, Step, OpenEmptied, ReadNext, WriteNext, WriteCreated, SeekNext, SeekCreated, Truncated,
           Flush, Unlinked

-----------------------------------------------------------------------------

\* Whatever is called and whenever the console is switched off, the window, the
\* counts, the file objects and the locals of the call that runs have values of
\* their types: no cluster number that is not one is followed or stored.
THEOREM VolumeTyped == Spec => []TypeOK
  <1>1. Init => Fits
    BY InitFits
  <1>2. Fits /\ [Next]_volume => Fits'
    BY NextFits
  <1> QED BY <1>1, <1>2, FitsTyped, PTL DEF Spec

-----------------------------------------------------------------------------
\* The count of free clusters in FSInfo.

\* While fsi_flag says that nothing has changed, the count on the card is the
\* one in memory; and the window never holds an FSInfo that is still to write.
Informed ==
  /\ winsect = FSISECT => ~wflag
  /\ HasInfo /\ fs_type # 0 => fsi_flag # NOINFO
  /\ HasInfo /\ fs_type # 0 /\ fsi_flag = 0 => card[FSINFO].free = free_clst

InfoStays == card'[FSINFO] = card[FSINFO] /\ (winsect' = FSISECT => ~wflag')

\* The count changes with the flag, or is read from the card.
CountMoves ==
  \/ UNCHANGED <<fs_type, free_clst, fsi_flag>>
  \/ fs_type' = fs_type /\ fsi_flag' = Changed(fsi_flag)
  \/ MountVolume
  \/ fsi_flag' = Changed(AtMount.flag)

LEMMA StaysInformed ==
  ASSUME AllocFits, Informed, InfoStays, CountMoves
  PROVE  Informed'
  <1>1. winsect' = FSISECT => ~wflag'
    BY DEF InfoStays
  <1>2. CASE UNCHANGED <<fs_type, free_clst, fsi_flag>>
    BY <1>1, <1>2 DEF Informed, InfoStays
  <1>3. CASE fs_type' = fs_type /\ fsi_flag' = Changed(fsi_flag)
    BY <1>1, <1>3 DEF Informed, Changed, NOINFO
  <1>4. HasInfo => AtMount.flag \in {0, 1}
    BY DEF AtMount, AllocFits, Informed
  <1>5. CASE MountVolume
    BY <1>1, <1>4, <1>5 DEF MountVolume, AtMount, Informed, InfoStays, NOINFO
  <1>6. CASE fsi_flag' = Changed(AtMount.flag)
    BY <1>1, <1>4, <1>6 DEF Informed, Changed, NOINFO
  <1> QED BY <1>2, <1>3, <1>5, <1>6 DEF CountMoves

LEMMA InfoMoves ==
  ASSUME WindowFits, Informed
  PROVE  /\ \A S, s : s \in S /\ MoveWindow(S, s) => InfoStays
         /\ \A x \in Nat \cup Files : \A v : Put(x, v) => InfoStays
         /\ UNCHANGED window \/ UNCHANGED disk => InfoStays
         /\ SyncWindow => InfoStays
  <1>1. Flushed[FSINFO] = card[FSINFO]
    BY Kinds, SectorNumbers DEF Flushed, Informed
  <1>2. ASSUME NEW S, NEW s, s \in S, MoveWindow(S, s) PROVE InfoStays
    BY <1>1, <1>2 DEF MoveWindow, CardVia, FlagVia, InfoStays, Informed
  <1>3. ASSUME NEW x \in Nat \cup Files, NEW v, Put(x, v) PROVE InfoStays
    <2>1. SectorOf(x) # FSISECT
      BY SectorNumbers DEF DIRSECT, FSISECT
    <2> QED BY <1>1, <1>3, <2>1 DEF Put, CardVia, InfoStays
  <1>4. UNCHANGED window \/ UNCHANGED disk => InfoStays
    BY DEF window, disk, InfoStays, Informed
  <1>5. SyncWindow => InfoStays
    BY <1>1 DEF SyncWindow, InfoStays
  <1> QED BY <1>2, <1>3, <1>4, <1>5

LEMMA ChainInformed ==
  ASSUME Fits, Informed, ChainStep, Elsewhere
  PROVE  InfoStays /\ CountMoves
  <1> USE DEF Fits
  <1>1. fs_type' = fs_type
    BY DEF Elsewhere
  <1>2. clst \in Nat /\ (pc \in {"mark", "link", "cut"} => ncl \in Nat)
    <2>1. clst \in Nat
      BY Numbers DEF ChainFits
    <2>2. ASSUME pc \in {"mark", "link", "cut"} PROVE ncl \in Nat
      <3>1. ncl \in Clusters
        BY <2>2 DEF ChainFits
      <3> QED BY <3>1, Numbers
    <2> QED BY <2>1, <2>2
  <1>3. ASSUME Follow \/ Cut PROVE InfoStays /\ CountMoves
    BY <1>1, <1>2, <1>3, InfoMoves DEF Follow, Cut, CountMoves, alloc
  <1>4. ASSUME Full PROVE InfoStays /\ CountMoves
    <2>1. CASE free_clst = 0
      BY <1>1, <1>4, <2>1, InfoMoves DEF Full, CountMoves, alloc
    <2>2. CASE free_clst # 0
      <3> DEFINE end == IF SearchFrom = 1 THEN n_fatent - 1 ELSE SearchFrom
      <3>1. end \in Clusters
        <4>1. n_fatent - 1 \in Clusters
          BY Numbers DEF Clusters
        <4> QED BY <4>1, Searches
      <3>2. MoveWindow(Visited(end), SectorOf(end)) /\ UNCHANGED alloc
        BY <1>4, <2>2 DEF Full
      <3> HIDE DEF end
      <3>3. SectorOf(end) \in Visited(end)
        BY <3>1, Searches
      <3> QED BY <1>1, <3>2, <3>3, InfoMoves DEF CountMoves, alloc
    <2> QED BY <2>1, <2>2
  <1>5. ASSUME Find PROVE InfoStays /\ CountMoves
    <2>1. FreeClusters # {}
      BY <1>5 DEF Find, Exhausted
    <2>2. ncl' \in Clusters
      BY <1>5, <2>1, Searches, FreeFound DEF Find, FreeClusters
    <2>3. SectorOf(ncl') \in Visited(ncl')
      BY <2>2, Searches
    <2> QED BY <1>1, <1>5, <2>3, InfoMoves DEF Find, CountMoves, alloc
  <1>6. ASSUME Mark \/ Link PROVE InfoStays /\ CountMoves
    <2>1. InfoStays
      BY <1>2, <1>6, InfoMoves DEF Mark, Link
    <2>2. Allocated \/ UNCHANGED alloc
      BY <1>6 DEF Mark, Link
    <2> QED BY <1>1, <2>1, <2>2 DEF Allocated, CountMoves, alloc
  <1>7. ASSUME FreeNext PROVE InfoStays /\ CountMoves
    <2>1. InfoStays
      BY <1>2, <1>7, InfoMoves DEF FreeNext
    <2> QED BY <1>1, <1>7, <2>1 DEF FreeNext, CountMoves, alloc
  <1> QED BY <1>3, <1>4, <1>5, <1>6, <1>7 DEF ChainStep

LEMMA OpenInformed ==
  ASSUME Fits, Informed, NEW p \in Fils \ opened, NEW f \in Files, NEW flags, Open(p, f, flags)
  PROVE  InfoStays /\ CountMoves
  <1>1. WindowFits /\ CountMoves
    BY DEF Fits, Open, CountMoves
  <1>2. \A S, s : s \in S /\ MoveWindow(S, s) => InfoStays
    BY <1>1, InfoMoves
  <1>3. \A v : Put(f, v) => InfoStays
    BY <1>1, InfoMoves
  <1>4. ASSUME NEW first, NEW n, AlongChain(first, n) PROVE InfoStays
    <2> DEFINE steps == {k \in 0 .. n - 1 : Nth(first, k) \in Clusters}
               sector(k) == SectorOf(Nth(first, k))
    <2>1. ASSUME NEW k \in steps, MoveWindow({DIRSECT} \cup {sector(j) : j \in steps}, sector(k))
          PROVE  InfoStays
      <3> DEFINE S == {DIRSECT} \cup {sector(j) : j \in steps}
      <3>1. sector(k) \in S /\ MoveWindow(S, sector(k))
        BY <2>1
      <3> HIDE DEF S, steps, sector
      <3> QED BY <1>2, <3>1
    <2>2. MoveWindow({DIRSECT}, DIRSECT) => InfoStays
      BY <1>2
    <2> QED BY <1>4, <2>1, <2>2 DEF AlongChain
  <1>5. \/ MoveWindow({DIRSECT}, DIRSECT)
        \/ \E v : Put(f, v)
        \/ \E first, n : AlongChain(first, n)
    BY DEF Open, AlongChain
  <1> QED BY <1>1, <1>2, <1>3, <1>4, <1>5

LEMMA CallInformed ==
  ASSUME Fits, Informed, Call
  PROVE  InfoStays /\ CountMoves
  <1>1. WindowFits
    BY DEF Fits
  <1>2. UNCHANGED disk => InfoStays /\ CountMoves
    BY <1>1, InfoMoves DEF disk, alloc, CountMoves
  <1>3. ASSUME NEW p, NEW n, Read(p, n) \/ Write(p, n) \/ Seek(p, n) \/ Unusable(p)
        PROVE  UNCHANGED disk
    BY <1>3 DEF Read, Write, Seek, Unusable, Refuse
  <1>4. ASSUME NEW p \in opened, NEW op, Truncate(p) \/ Sync(op, p)
        PROVE  InfoStays /\ CountMoves
    <2>1. CountMoves
      BY <1>4 DEF Truncate, Sync, CountMoves, alloc
    <2>2. Valid(p) => fil[p].file \in Files
      BY DEF Fits, FilesFit, Valid
    <2>3. Truncate(p) => InfoStays
      BY <1>1, InfoMoves DEF Truncate
    <2>4. Sync(op, p) => InfoStays
      BY <1>1, <2>2, InfoMoves DEF Sync
    <2> QED BY <1>4, <2>1, <2>3, <2>4
  <1>5. ASSUME NEW f \in Files, Unlink(f) PROVE InfoStays /\ CountMoves
    BY <1>1, <1>5, InfoMoves DEF Unlink, CountMoves
  <1>6. ASSUME GetFree PROVE InfoStays /\ CountMoves
    <2>1. n_fatent - 1 \in Clusters
      BY Numbers DEF Clusters
    <2>2. SectorOf(n_fatent - 1) \in {SectorOf(c) : c \in Clusters}
      BY <2>1
    <2> QED BY <1>1, <1>6, <2>2, InfoMoves DEF GetFree, CountMoves
  <1> QED BY <1>2, <1>3, <1>4, <1>5, <1>6, OpenInformed DEF Call

\* The rebuilt FSInfo holds the count of free clusters in memory.
LEMMA SunkInformed ==
  ASSUME Fits, Informed, Sunk
  PROVE  Informed' /\ (HasInfo /\ fs_type' # 0 => card'[FSINFO].free = free_clst')
  <1>1. ~wflag /\ WriteInfo /\ fs_type' = fs_type /\ fsi_flag \in {0, 1, NOINFO}
    BY DEF Fits, Saving, AllocFits, Sunk
  <1>2. CASE fsi_flag # 1
    <2>1. UNCHANGED <<window, alloc>>
      BY <1>1, <1>2 DEF WriteInfo
    <2> QED BY <1>1, <1>2, <2>1 DEF Informed, window, alloc
  <1>3. CASE fsi_flag = 1
    <2>1. /\ fsi_flag' = 0 /\ wflag' = wflag /\ free_clst' = free_clst
          /\ card' = [card EXCEPT ![FSINFO] = [free |-> free_clst, next |-> last_clst]]
      BY <1>1, <1>3 DEF WriteInfo
    <2>2. card'[FSINFO].free = free_clst
      BY <2>1, Kinds DEF Fits, WindowFits, Contents
    <2> QED BY <1>1, <2>1, <2>2 DEF Informed, NOINFO
  <1> QED BY <1>2, <1>3

LEMMA NextInformed == Fits /\ Informed /\ [Next]_volume => Informed'
  <1> SUFFICES ASSUME Fits, Informed, [Next]_volume PROVE Informed'
    OBVIOUS
  <1>1. WindowFits /\ AllocFits
    BY DEF Fits
  <1>2. UNCHANGED disk => InfoStays /\ CountMoves
    BY <1>1, InfoMoves DEF disk, alloc, CountMoves
  <1>3. CASE UNCHANGED volume
    BY <1>1, <1>2, <1>3, StaysInformed DEF volume
  <1>4. CASE Call
    BY <1>1, <1>4, CallInformed, StaysInformed
  <1>5. ASSUME ChainStep, Elsewhere PROVE Informed'
    BY <1>1, <1>5, ChainInformed, StaysInformed
  <1>6. ASSUME WriteNext \/ WriteCreated \/ SeekCreated \/ Truncated \/ Unlinked
        PROVE  Informed'
    <2>1. UNCHANGED disk
      BY <1>6 DEF WriteNext, WriteCreated, SeekCreated, Truncated, Unlinked
    <2> QED BY <1>1, <1>2, <2>1, StaysInformed
  <1>7. ASSUME OpenEmptied \/ ReadNext \/ SeekNext \/ Flush PROVE Informed'
    <2>1. InfoStays
      BY <1>1, <1>7, InfoMoves DEF OpenEmptied, ReadNext, SeekNext, Flush
    <2>2. CountMoves
      BY <1>7 DEF OpenEmptied, ReadNext, SeekNext, Flush, CountMoves, alloc
    <2> QED BY <1>1, <2>1, <2>2, StaysInformed
  <1>8. CASE PowerCycle
    BY <1>8, SectorNumbers DEF PowerCycle, Informed
  <1>9. CASE Step
    BY <1>5, <1>6, <1>7, <1>9, SunkInformed DEF Step, Elsewhere
  <1> QED BY <1>3, <1>4, <1>8, <1>9 DEF Next

LEMMA InitInformed == Init => Informed
  BY SectorNumbers DEF Init, PowerOn, Unmounted, Informed

\* When f_close returns and the console stays on, the entry of the file and all
\* of the FAT and the directory that was in the window are on the card, and so
\* is the count of free clusters, which FSInfo holds: the count is rebuilt
\* there whenever it has changed since it was last written or read.
THEOREM CloseSaves == Spec => CloseCommits
  <1> DEFINE Saved == pc = "info" /\ call.op = "close" /\ pc' = "idle" /\ fs_type' # 0
        => /\ card'[me.file] = [sclust |-> me.sclust, size |-> me.objsize]
           /\ ~wflag'
           /\ \A x \in Items \ {FSINFO} : card'[x] = View[x]
           /\ HasInfo => card'[FSINFO].free = free_clst'
  <1>1. Fits /\ Informed /\ [Next]_volume => [Saved]_volume
    <2> SUFFICES ASSUME Fits, Informed, Next, pc = "info", call.op = "close", pc' = "idle",
                        fs_type' # 0
                 PROVE  /\ card'[me.file] = [sclust |-> me.sclust, size |-> me.objsize]
                        /\ ~wflag'
                        /\ \A x \in Items \ {FSINFO} : card'[x] = View[x]
                        /\ HasInfo => card'[FSINFO].free = free_clst'
      OBVIOUS
    <2>1. ~wflag' /\ \A x \in Items \ {FSINFO} : card'[x] = View[x]
      BY Closing, SunkFits
    <2>2. me.file \in Files /\ View[me.file] = [sclust |-> me.sclust, size |-> me.objsize]
      BY DEF Fits, Saving
    <2>3. me.file \in Items \ {FSINFO}
      BY <2>2, Kinds
    <2>4. HasInfo => card'[FSINFO].free = free_clst'
      BY Closing, SunkInformed
    <2> QED BY <2>1, <2>2, <2>3, <2>4
  <1>2. Init => Fits /\ Informed
    BY InitFits, InitInformed
  <1>3. Fits /\ Informed /\ [Next]_volume => (Fits /\ Informed)'
    BY NextFits, NextInformed
  <1>4. Spec => [][Saved]_volume
    BY <1>1, <1>2, <1>3, PTL DEF Spec
  <1> QED BY <1>4 DEF CloseCommits

-----------------------------------------------------------------------------
(***************************************************************************)
(* The files keep their chains: positions, clusters and the free count.    *)
(***************************************************************************)

\* Positions and clusters.

LEMMA Quotient ==
  ASSUME NEW n \in Nat, NEW d \in Nat \ {0}, NEW q \in Nat, NEW r \in Nat,
         r < d, n = q * d + r
  PROVE  n \div d = q /\ n % d = r
  OBVIOUS

LEMMA Monotone ==
  ASSUME NEW a \in Nat, NEW b \in Nat, a <= b, NEW d \in Nat \ {0}
  PROVE  a \div d <= b \div d
  OBVIOUS

LEMMA Within ==
  ASSUME NEW n \in Nat, NEW d \in Nat \ {0}, NEW k \in Nat, 0 < k, k <= d - (n % d)
  PROVE  (n + k - 1) \div d = n \div d
  OBVIOUS

LEMMA NextOne ==
  ASSUME NEW n \in Nat, NEW d \in Nat \ {0}, n % d = 0
  PROVE  /\ (n + d) % d = 0 /\ (n + d) \div d = n \div d + 1
         /\ n > 0 => n \div d > 0 /\ (n - 1) \div d = n \div d - 1
  <1> DEFINE q == n \div d
  <1>1. q \in Nat /\ n = q * d
    BY Division
  <1>2. n + d = (q + 1) * d + 0 /\ n + d \in Nat /\ q + 1 \in Nat /\ 0 \in Nat /\ 0 < d
    BY <1>1
  <1> HIDE DEF q
  <1>3. (n + d) % d = 0 /\ (n + d) \div d = q + 1
    BY <1>1, <1>2, Quotient
  <1>4. ASSUME n > 0 PROVE q > 0 /\ (n - 1) \div d = q - 1
    <2>1. q > 0
      BY <1>1, <1>4
    <2>2. n - 1 = (q - 1) * d + (d - 1)
      BY <1>1
    <2>3. q - 1 \in Nat /\ d - 1 \in Nat /\ n - 1 \in Nat /\ d - 1 < d
      BY <1>1, <1>4, <2>1
    <2> QED BY <2>1, <2>2, <2>3, Quotient
  <1> QED BY <1>3, <1>4

LEMMA Inside ==
  ASSUME NEW n \in Nat, NEW d \in Nat \ {0}, n % d # 0
  PROVE  n > 0 /\ (n - 1) \div d = n \div d
  OBVIOUS

LEMMA Multiple ==
  ASSUME NEW q \in Nat, NEW d \in Nat \ {0}
  PROVE  q * d \in Nat /\ (q * d) % d = 0 /\ (q * d) \div d = q
  OBVIOUS

LEMMA Fewer ==
  ASSUME NEW n \in Nat, NEW d \in Nat \ {0}, NEW k \in Nat, n < d * k
  PROVE  n \div d < k
  OBVIOUS
-----------------------------------------------------------------------------
\* A FAT with its chains: w.fat is what the code would read.

Sorted(w) == Chained(w.fat, w.head, w.own, w.rank)

First(c) == IF c \in Clusters THEN c ELSE 0

At(w, f, c, n) == c \in Taken(w.fat) /\ w.own[c] = f /\ w.rank[c] = n

\* The chain of f has room for n bytes.
Reaches(w, f, n) ==
  n > 0 => \E c \in Taken(w.fat) : w.own[c] = f /\ w.rank[c] >= (n - 1) \div bcs

Holds(f, w, v) ==
  \A c \in Taken(w.fat) : w.own[c] = f =>
    c \in Taken(v.fat) /\ v.own[c] = f /\ v.rank[c] = w.rank[c]

\* Nothing changes for the files of F.
Keeps(F, w, v) ==
  \A f \in F : Holds(f, w, v) /\ v.head[f] = w.head[f] /\ v.fat[f] = w.fat[f]

\* The FAT, and the entries of the files that are not in F.
Agrees(F, w, m) == \A x \in Clusters \cup (Files \ F) : m[x] = w.fat[x]

LEMMA Everywhere ==
  /\ \A f \in Files : f \notin Clusters /\ f # Nobody /\ f \in Owners
  /\ Nobody \in Owners
  BY Kinds, Numbers, NobodyIsNoFile DEF Owners

\* What a file has, and what nobody has, is held.
LEMMA FileHeld ==
  ASSUME NEW w, NEW c \in Taken(w.fat), w.own[c] \in Files
  PROVE  c \in Held(w.fat, w.own)
  BY DEF Held, Owners

LEMMA HeadHeld ==
  ASSUME NEW w, Sorted(w), NEW c \in Taken(w.fat), w.head[Nobody] = c
  PROVE  c \in Held(w.fat, w.own)
  BY Everywhere, Numbers DEF Sorted, Chained, HeadsFirst, Taken

LEMMA FileHead ==
  ASSUME NEW w, Sorted(w), NEW c \in Taken(w.fat), w.own[c] \in Files
  PROVE  w.head[w.own[c]] # 0
  BY FileHeld, HasHead DEF Sorted

LEMMA FileNext ==
  ASSUME NEW w, Sorted(w), NEW c \in Taken(w.fat), w.own[c] \in Files, w.fat[c] # EOC
  PROVE  /\ w.fat[c] \in Taken(w.fat) /\ w.fat[c] \in Clusters
         /\ w.own[w.fat[c]] = w.own[c] /\ w.rank[w.fat[c]] = w.rank[c] + 1
  <1>1. c \in Held(w.fat, w.own)
    BY FileHeld
  <1> QED BY <1>1 DEF Sorted, Chained, Followed, Follows, Held, Taken

LEMMA GhostExtended ==
  ASSUME NEW w, Sorted(w), NEW c \in Clusters, w.fat[c] = FREE, w.head[Nobody] = 0,
         NEW m, m[c] = EOC, \A x \in Items \ {c} : m[x] = w.fat[x]
  PROVE  \E v : /\ v.fat = m /\ Sorted(v) /\ v.head[Nobody] = c
                /\ Keeps(Files, w, v)
  <1> DEFINE h == [w.head EXCEPT ![Nobody] = c]
             o == [w.own EXCEPT ![c] = Nobody]
             r == [w.rank EXCEPT ![c] = 0]
             v == [fat |-> m, head |-> h, own |-> o, rank |-> r]
  <1>1. m[c] = EOC /\ \A d \in Items \ {c} : m[d] = w.fat[d]
    BY Kinds
  <1>2. Chained(m, h, o, r)
    BY <1>1, Extended, Kinds DEF Sorted
  <1>3. h[Nobody] = c /\ \A f \in Files : h[f] = w.head[f]
    BY Everywhere DEF Sorted, Chained, Places
  <1>4. \A d \in Clusters \ {c} : o[d] = w.own[d] /\ r[d] = w.rank[d]
    BY DEF Sorted, Chained, Places
  <1>5. v.fat = m /\ v.head = h /\ v.own = o /\ v.rank = r
    OBVIOUS
  <1> HIDE DEF h, o, r, v
  <1>6. \A d \in Taken(w.fat) : d \in Clusters \ {c} /\ d \in Taken(m)
    BY <1>1, Kinds DEF Taken
  <1>7. Keeps(Files, w, v)
    BY <1>1, <1>3, <1>4, <1>5, <1>6, Kinds, Everywhere DEF Keeps, Holds
  <1> QED BY <1>2, <1>3, <1>5, <1>7 DEF Sorted

LEMMA GhostJoined ==
  ASSUME NEW w, Sorted(w), NEW c \in Taken(w.fat), w.fat[c] = EOC, w.head[Nobody] = c,
         NEW e \in Taken(w.fat), w.fat[e] = EOC, w.own[e] \in Files,
         NEW m, m[e] = c, \A x \in Items \ {e} : m[x] = w.fat[x]
  PROVE  \E v : /\ v.fat = m /\ Sorted(v) /\ v.head[Nobody] = 0
                /\ Keeps(Files, w, v)
  <1> DEFINE h == [w.head EXCEPT ![Nobody] = 0]
             o == [w.own EXCEPT ![c] = w.own[e]]
             r == [w.rank EXCEPT ![c] = w.rank[e] + 1]
             v == [fat |-> m, head |-> h, own |-> o, rank |-> r]
  <1>1. m[e] = c /\ c \in Clusters /\ e \in Clusters /\ \A d \in Items \ {e} : m[d] = w.fat[d]
    BY Kinds DEF Taken
  <1>2. Chained(m, h, o, r)
    <2>1. c \in Held(w.fat, w.own) /\ e \in Held(w.fat, w.own)
      BY FileHeld, HeadHeld
    <2>2. m[e] = c /\ \A d \in Clusters \ {e} : m[d] = w.fat[d]
      BY <1>1, Kinds
    <2>3. PICK k, hd, ow, rk : k = w.fat /\ hd = w.head /\ ow = w.own /\ rk = w.rank
      OBVIOUS
    <2>4. /\ Chained(k, hd, ow, rk)
          /\ c \in Held(k, ow) /\ k[c] = EOC /\ hd[Nobody] = c
          /\ e \in Held(k, ow) /\ k[e] = EOC /\ ow[e] \in Files
          /\ m[e] = c /\ \A d \in Clusters \ {e} : m[d] = k[d]
      BY <2>1, <2>2, <2>3 DEF Sorted
    <2>5. Chained(m, [hd EXCEPT ![Nobody] = 0], [ow EXCEPT ![c] = ow[e]],
                  [rk EXCEPT ![c] = rk[e] + 1])
      BY <2>4, Joined
    <2> QED BY <2>3, <2>5
  <1>3. h[Nobody] = 0 /\ \A f \in Files : h[f] = w.head[f]
    BY Everywhere DEF Sorted, Chained, Places
  <1>4. \A d \in Clusters \ {c} : o[d] = w.own[d] /\ r[d] = w.rank[d]
    BY DEF Sorted, Chained, Places
  <1>5. v.fat = m /\ v.head = h /\ v.own = o /\ v.rank = r
    OBVIOUS
  <1> HIDE DEF h, o, r, v
  <1>6. \A d \in Taken(w.fat) : d \in Clusters /\ d \in Taken(m)
    BY <1>1, Kinds, Numbers DEF Taken
  <1>7. w.own[c] \notin Files
    BY HeadHeld, LooseCluster, NobodyIsNoFile DEF Sorted
  <1>8. Keeps(Files, w, v)
    BY <1>1, <1>3, <1>4, <1>5, <1>6, <1>7, Kinds, Everywhere DEF Keeps, Holds
  <1> QED BY <1>2, <1>3, <1>5, <1>8 DEF Sorted

LEMMA GhostAdopted ==
  ASSUME NEW w, Sorted(w), NEW c \in Taken(w.fat), w.fat[c] = EOC, w.head[Nobody] = c,
         NEW f \in Files, w.head[f] = 0
  PROVE  \E v : /\ v.fat = w.fat /\ Sorted(v) /\ v.head[Nobody] = 0
                /\ v.head[f] = c /\ At(v, f, c, 0) /\ Keeps(Files \ {f}, w, v)
                /\ Holds(f, w, v)
  <1> DEFINE h == [w.head EXCEPT ![Nobody] = 0, ![f] = c]
             o == [w.own EXCEPT ![c] = f]
             r == [w.rank EXCEPT ![c] = 0]
             v == [fat |-> w.fat, head |-> h, own |-> o, rank |-> r]
  <1>1. c \in Clusters /\ \A d \in Taken(w.fat) : d \in Clusters
    BY DEF Taken
  <1>2. Chained(w.fat, h, o, r)
    BY HeadHeld, Adopted DEF Sorted
  <1>3. h[Nobody] = 0 /\ h[f] = c /\ \A g \in Files \ {f} : h[g] = w.head[g]
    BY Everywhere DEF Sorted, Chained, Places
  <1>4. o[c] = f /\ r[c] = 0 /\ \A d \in Clusters \ {c} : o[d] = w.own[d] /\ r[d] = w.rank[d]
    BY <1>1 DEF Sorted, Chained, Places
  <1>5. v.fat = w.fat /\ v.head = h /\ v.own = o /\ v.rank = r
    OBVIOUS
  <1> HIDE DEF h, o, r, v
  <1>7. w.own[c] \notin Files
    BY HeadHeld, LooseCluster, NobodyIsNoFile DEF Sorted
  <1>8. Keeps(Files \ {f}, w, v) /\ Holds(f, w, v) /\ At(v, f, c, 0)
    BY <1>1, <1>3, <1>4, <1>5, <1>7 DEF Keeps, Holds, At
  <1> QED BY <1>2, <1>3, <1>5, <1>8 DEF Sorted

\* What v is to w when the chain of f is cut behind e, where c came next.
Severed(w, e, f, c, m, v) ==
  /\ v.fat = m /\ Sorted(v) /\ v.head[Nobody] = c /\ v.head[f] = w.head[f]
  /\ At(v, f, e, w.rank[e]) /\ Keeps(Files \ {f}, w, v)

LEMMA GhostCutOff ==
  ASSUME NEW w, Sorted(w), w.head[Nobody] = 0,
         NEW e \in Taken(w.fat), NEW f \in Files, w.own[e] = f,
         NEW c \in Clusters, w.fat[e] = c,
         NEW m, m[e] = EOC, \A x \in Items \ {e} : m[x] = w.fat[x]
  PROVE  \E v : Severed(w, e, f, c, m, v)
  <1> DEFINE h == [w.head EXCEPT ![Nobody] = c]
             o == [d \in Clusters |->
                    IF d \in Taken(w.fat) /\ w.own[d] = w.own[e] /\ w.rank[d] > w.rank[e]
                      THEN Nobody ELSE w.own[d]]
             v == [fat |-> m, head |-> h, own |-> o, rank |-> w.rank]
  <1>1. m[e] = EOC /\ e \in Clusters /\ \A d \in Items \ {e} : m[d] = w.fat[d]
    BY Kinds DEF Taken
  <1>2. Chained(m, h, o, w.rank)
    <2>1. e \in Held(w.fat, w.own)
      BY FileHeld
    <2> QED BY <1>1, <2>1, CutOff, Kinds DEF Sorted
  <1>3. h[Nobody] = c /\ \A g \in Files : h[g] = w.head[g]
    BY Everywhere DEF Sorted, Chained, Places
  <1>4. \A d \in Clusters : w.own[d] # f => o[d] = w.own[d]
    OBVIOUS
  <1>5. o[e] = f
    BY <1>1 DEF Sorted, Chained, Places
  <1>6. v.fat = m /\ v.head = h /\ v.own = o /\ v.rank = w.rank
    OBVIOUS
  <1> HIDE DEF h, o, v
  <1>7. \A d \in Taken(w.fat) : d \in Clusters /\ d \in Taken(m)
    BY <1>1, Kinds, Numbers DEF Taken
  <1>8. Keeps(Files \ {f}, w, v) /\ At(v, f, e, w.rank[e])
    BY <1>1, <1>3, <1>4, <1>5, <1>6, <1>7, Kinds, Everywhere DEF Keeps, Holds, At
  <1> QED BY <1>2, <1>3, <1>6, <1>8 DEF Sorted, Severed

LEMMA GhostGivenUp ==
  ASSUME NEW w, Sorted(w), w.head[Nobody] = 0,
         NEW f \in Files, w.head[f] # 0,
         NEW m, Agrees({f}, w, m)
  PROVE  \E v : /\ v.fat = m /\ Sorted(v) /\ v.head[Nobody] = w.head[f] /\ v.head[f] = 0
                /\ Keeps(Files \ {f}, w, v)
  <1> DEFINE c == w.head[f]
             h == [w.head EXCEPT ![Nobody] = c, ![f] = 0]
             o == [d \in Clusters |-> IF w.own[d] = f THEN Nobody ELSE w.own[d]]
             v == [fat |-> m, head |-> h, own |-> o, rank |-> w.rank]
  <1>1. Chained(w.fat, h, o, w.rank)
    BY GivenUp DEF Sorted
  <1>2. h[Nobody] = c /\ h[f] = 0 /\ \A g \in Files \ {f} : h[g] = w.head[g]
    BY Everywhere DEF Sorted, Chained, Places
  <1>3. \A d \in Clusters : w.own[d] # f => o[d] = w.own[d]
    OBVIOUS
  <1>4. v.fat = m /\ v.head = h /\ v.own = o /\ v.rank = w.rank
    OBVIOUS
  <1> HIDE DEF h, o, v
  <1>5. Chained(m, h, o, w.rank)
    BY <1>1, SameChains DEF Agrees
  <1>6. Taken(m) = Taken(w.fat) /\ Taken(m) \subseteq Clusters
    BY DEF Taken, Agrees
  <1>7. Keeps(Files \ {f}, w, v)
    BY <1>2, <1>3, <1>4, <1>6 DEF Keeps, Holds, Agrees
  <1> QED BY <1>2, <1>4, <1>5, <1>7 DEF Sorted

LEMMA GhostFreed ==
  ASSUME NEW w, Sorted(w), NEW c \in Taken(w.fat), w.head[Nobody] = c,
         NEW m, m[c] = FREE, \A x \in Items \ {c} : m[x] = w.fat[x]
  PROVE  \E v : /\ v.fat = m /\ Sorted(v) /\ v.head[Nobody] = First(w.fat[c])
                /\ Keeps(Files, w, v)
  <1> DEFINE n == First(w.fat[c])
             h == [w.head EXCEPT ![Nobody] = n]
             v == [fat |-> m, head |-> h, own |-> w.own, rank |-> w.rank]
  <1>1. m[c] = FREE /\ c \in Clusters /\ \A d \in Items \ {c} : m[d] = w.fat[d]
    BY Kinds DEF Taken
  <1>2. Chained(m, h, w.own, w.rank)
    BY <1>1, HeadHeld, FreedHead, Kinds DEF Sorted, First
  <1>3. h[Nobody] = n /\ \A f \in Files : h[f] = w.head[f]
    BY Everywhere DEF Sorted, Chained, Places
  <1>4. w.own[c] \notin Files
    BY <1>1, Numbers, Everywhere DEF Sorted, Chained, HeadsFirst
  <1>5. v.fat = m /\ v.head = h /\ v.own = w.own /\ v.rank = w.rank
    OBVIOUS
  <1> HIDE DEF h, n, v
  <1>6. \A d \in Taken(w.fat) : d \in Clusters /\ (d # c => d \in Taken(m))
    BY <1>1, Kinds DEF Taken
  <1>7. Keeps(Files, w, v)
    BY <1>1, <1>3, <1>4, <1>5, <1>6, Kinds, Everywhere DEF Keeps, Holds
  <1> QED BY <1>2, <1>3, <1>5, <1>7 DEF Sorted, n

\* An entry of the directory, or FSInfo, changes.
Rewritten(F, w, m, v) ==
  /\ v.fat = m /\ Sorted(v) /\ v.head = w.head
  /\ Keeps(Files \ F, w, v)
  /\ \A f \in Files : Holds(f, w, v)

LEMMA GhostEntry ==
  ASSUME NEW w, Sorted(w), NEW F, NEW m, Agrees(F, w, m)
  PROVE  \E v : Rewritten(F, w, m, v)
  <1> DEFINE v == [fat |-> m, head |-> w.head, own |-> w.own, rank |-> w.rank]
  <1>1. Chained(m, w.head, w.own, w.rank)
    BY SameChains DEF Sorted, Agrees
  <1>2. v.fat = m /\ v.head = w.head /\ v.own = w.own /\ v.rank = w.rank
    OBVIOUS
  <1> HIDE DEF v
  <1>3. Taken(m) = Taken(w.fat)
    BY DEF Taken, Agrees
  <1>4. Keeps(Files \ F, w, v) /\ \A f \in Files : Holds(f, w, v)
    BY <1>2, <1>3 DEF Keeps, Holds, Agrees
  <1> QED BY <1>1, <1>2, <1>4 DEF Sorted, Rewritten
-----------------------------------------------------------------------------
\* The files.

\* The cluster of a file object is that of the byte before its position.
Cursor(w, g) == g.fptr > 0 => At(w, g.file, g.clust, (g.fptr - 1) \div bcs)

Entry(g) == [sclust |-> g.sclust, size |-> g.objsize]

Current(w, g) == w.fat[g.file] = Entry(g)

\* A file object on which no function runs.
Whole(w, g) ==
  /\ g.fptr <= g.objsize
  /\ Cursor(w, g)
  /\ Reaches(w, g.file, g.objsize)
  /\ g.modified \/ Current(w, g)
  /\ w.head[g.file] = g.sclust

\* A file that is not open.
Shut(w, f) == w.head[f] = First(w.fat[f].sclust) /\ Reaches(w, f, w.fat[f].size)

OpenFine ==
  /\ opened # {} => fs_type # 0
  /\ \A p \in opened : fil[p].fs /\ ~fil[p].err
  /\ \A p, q \in opened : fil[p].file = fil[q].file => p = q

Others(w) ==
  /\ \A p \in opened \ {cur} : Whole(w, fil[p])
  /\ \A f \in Files : NotOpen(f) => Shut(w, f)

\* The first cluster of the chain that nobody has.
Loose ==
  IF pc = "free" THEN clst
  ELSE IF pc = "link" THEN ncl
  ELSE IF pc = "created" /\ clst = 0 /\ ncl \in Clusters THEN ncl ELSE 0

\* create_chain stretches the chain of a file that ends at its position.
Stretched ==
  /\ me.fptr % bcs = 0
  /\ me.fptr = 0 => clst = 0 /\ me.sclust = 0
  /\ me.fptr > 0 => clst = me.clust

MarkMine(w) == pc = "mark" => w.fat[ncl] = FREE
LinkMine(w) == pc = "link" => w.fat[ncl] = EOC
EndMine(w)  == pc \in {"mark", "link"} /\ clst # 0 => w.fat[clst] = EOC
CreatedMine(w) ==
  pc = "created" /\ ncl # NOSPACE =>
    ncl \in Clusters /\ IF clst = 0 THEN w.fat[ncl] = EOC ELSE w.fat[clst] = ncl

CreateMine(w) ==
  pc \in Creates => Stretched /\ MarkMine(w) /\ LinkMine(w) /\ EndMine(w) /\ CreatedMine(w)

ReadMine(w) == call.op = "read" => Whole(w, me)

WriteMine(w) ==
  call.op = "write" =>
    /\ me.fptr <= me.objsize
    /\ Cursor(w, me)
    /\ Reaches(w, me.file, me.objsize)
    /\ w.head[me.file] = me.sclust

\* A seek that has stretched an empty file has not set FA_MODIFIED yet.
SeekMine(w) ==
  call.op = "seek" =>
    /\ Reaches(w, me.file, me.objsize)
    /\ w.head[me.file] = me.sclust
    /\ me.modified \/ Current(w, me) \/ (me.objsize = 0 /\ me.sclust # 0)
    /\ me.fptr % bcs = 0
    /\ pc = "seek" => At(w, me.file, me.clust, me.fptr \div bcs)
    /\ pc \in Creates => me.write /\ Cursor(w, me)

TruncateMine(w) ==
  call.op = "truncate" =>
    /\ me.fptr < me.objsize
    /\ Cursor(w, me)
    /\ w.head[me.file] = IF me.fptr = 0 THEN 0 ELSE me.sclust
    /\ pc = "cut" => me.fptr > 0 /\ ncl = me.clust /\ w.fat[ncl] = clst

OpenMine(w) ==
  call.op = "open" =>
    /\ cur \notin opened /\ fs_type # 0
    /\ call.new.fs /\ ~call.new.err /\ call.new.modified
    /\ call.new.fptr = 0 /\ call.new.objsize = 0 /\ call.new.sclust = 0
    /\ NotOpen(call.new.file)
    /\ w.head[call.new.file] = 0

SyncMine(w) ==
  call.op \in {"sync", "close"} => cur \in opened /\ Whole(w, me) /\ Current(w, me)

Mine(w) ==
  /\ CreateMine(w) /\ ReadMine(w) /\ WriteMine(w) /\ SeekMine(w)
  /\ TruncateMine(w) /\ OpenMine(w) /\ SyncMine(w)

Kept(w) ==
  /\ w.fat = View
  /\ Sorted(w)
  /\ w.head[Nobody] = Loose
  /\ pc = "free" => clst # 0
  /\ OpenFine /\ Others(w) /\ Mine(w)

\* The inductive invariant: every cluster that is taken has an owner and a place.
Linked == \E w : Kept(w)

LEMMA KeepsWhole ==
  ASSUME NEW w, NEW v, NEW g, NEW f, g.file = f, Keeps({f}, w, v), Whole(w, g)
  PROVE  Whole(v, g)
  <1>1. Holds(f, w, v) /\ v.head[f] = w.head[f] /\ v.fat[f] = w.fat[f]
    BY DEF Keeps
  <1>2. Cursor(v, g)
    BY <1>1 DEF Whole, Cursor, At, Holds
  <1>3. Reaches(v, f, g.objsize)
    BY <1>1 DEF Whole, Reaches, Holds
  <1> QED BY <1>1, <1>2, <1>3 DEF Whole, Current

LEMMA HoldsReaches ==
  ASSUME NEW w, NEW v, NEW f, Holds(f, w, v), NEW n, Reaches(w, f, n)
  PROVE  Reaches(v, f, n)
  BY DEF Reaches, Holds

LEMMA HoldsAt ==
  ASSUME NEW w, NEW v, NEW f, Holds(f, w, v), NEW c, NEW n, At(w, f, c, n)
  PROVE  At(v, f, c, n)
  BY DEF At, Holds

LEMMA HoldsCursor ==
  ASSUME NEW w, NEW v, NEW g, Holds(g.file, w, v), Cursor(w, g)
  PROVE  Cursor(v, g)
  BY DEF Cursor, At, Holds

LEMMA KeepsShut ==
  ASSUME NEW w, NEW v, NEW f, Keeps({f}, w, v), Shut(w, f)
  PROVE  Shut(v, f)
  <1>1. Holds(f, w, v) /\ v.head[f] = w.head[f] /\ v.fat[f] = w.fat[f]
    BY DEF Keeps
  <1> QED BY <1>1 DEF Shut, Reaches, Holds

\* A step that changes one open file leaves the others as they are.
LEMMA OthersKept ==
  ASSUME Fits, OpenFine, NEW w, Others(w), NEW v, NEW p \in opened, cur \in {0, p},
         opened' = opened, fil' \in [Fils -> FIL], \A q \in opened \ {p} : fil'[q] = fil[q],
         fil'[p].file = fil[p].file, fil'[p].fs, ~fil'[p].err, fs_type' = fs_type,
         Keeps(Files \ {fil[p].file}, w, v),
         cur' = p \/ Whole(v, fil'[p])
  PROVE  OpenFine' /\ Others(v)'
  <1>1. opened \subseteq Fils /\ \A q \in opened : fil[q].file \in Files
    BY DEF Fits, FilesFit, OpenFine
  <1>2. OpenFine'
    BY DEF OpenFine
  <1>3. ASSUME NEW q \in opened, q # p PROVE Whole(v, fil'[q])
    <2>1. Whole(w, fil[q]) /\ fil[q].file \in Files \ {fil[p].file} /\ fil'[q] = fil[q]
      BY <1>1, <1>3, VolumeAssumption DEF Others, OpenFine
    <2>2. Keeps({fil[q].file}, w, v)
      BY <2>1 DEF Keeps
    <2> QED BY <2>1, <2>2, KeepsWhole
  <1>4. ASSUME NEW f \in Files, \A q \in opened : fil'[q].file # f PROVE Shut(v, f)
    <2>1. \A q \in opened : fil[q].file # f
      BY <1>4
    <2>2. Shut(w, f) /\ f # fil[p].file
      BY <2>1 DEF Others, NotOpen
    <2>3. Keeps({f}, w, v)
      BY <2>2 DEF Keeps
    <2> QED BY <2>2, <2>3, KeepsShut
  <1>5. Others(v)'
    BY <1>3, <1>4 DEF Others, NotOpen
  <1> QED BY <1>2, <1>5

Untouched ==
  /\ opened' = opened
  /\ \A q \in opened : fil'[q] = fil[q]
  /\ opened # {} => fs_type' # 0
  /\ cur \in opened => cur' = cur

\* The files that a step which keeps those of F does not keep.
Leaves(F, v) ==
  \A f \in Files :
    \/ f \in F
    \/ cur \in opened /\ f = me.file
    \/ NotOpen(f) /\ Shut(v, f)

\* So does a step that changes no open file.
LEMMA OthersSame ==
  ASSUME Fits, OpenFine, NEW w, Others(w), NEW v, Untouched,
         NEW F, Keeps(F, w, v), Leaves(F, v)
  PROVE  OpenFine' /\ Others(v)'
  <1> USE DEF Untouched, Leaves
  <1>1. OpenFine'
    BY DEF OpenFine
  <1>2. ASSUME NEW q \in opened, q # cur PROVE Whole(v, fil[q])
    <2>1. Whole(w, fil[q])
      BY <1>2 DEF Others
    <2>2. fil[q].file \in F
      BY <1>2 DEF Fits, FilesFit, OpenFine, me, NotOpen
    <2>3. Keeps({fil[q].file}, w, v)
      BY <2>2 DEF Keeps
    <2> QED BY <2>1, <2>3, KeepsWhole
  <1>3. ASSUME NEW f \in Files, NotOpen(f) PROVE Shut(v, f)
    <2>1. Shut(w, f) /\ (f \in F \/ Shut(v, f))
      BY <1>3 DEF Others, NotOpen, me
    <2>2. CASE f \in F
      <3>1. Keeps({f}, w, v)
        BY <2>2 DEF Keeps
      <3> QED BY <2>1, <3>1, KeepsShut
    <2> QED BY <2>1, <2>2
  <1>4. \A f \in Files : NotOpen(f)' <=> NotOpen(f)
    BY DEF NotOpen
  <1>5. \A q \in opened \ {cur'} : Whole(v, fil'[q])
    BY <1>2
  <1>7. Others(v)'
    BY <1>3, <1>4, <1>5 DEF Others
  <1> QED BY <1>1, <1>7

\* A file is closed whose entry is the one in the directory.
LEMMA OthersClosed ==
  ASSUME Fits, OpenFine, NEW w, Others(w), NEW v, NEW p \in opened, cur \in {0, p},
         opened' = opened \ {p}, \A q \in opened \ {p} : fil'[q] = fil[q], fs_type' = fs_type,
         Keeps(Files, w, v), Whole(w, fil[p]), Current(w, fil[p])
  PROVE  OpenFine' /\ Others(v)'
  <1>1. opened \subseteq Fils /\ fil[p] \in FIL /\ \A q \in opened : fil[q].file \in Files
    BY DEF Fits, FilesFit, OpenFine
  <1>2. OpenFine'
    BY DEF OpenFine
  <1>3. ASSUME NEW q \in opened \ {p} PROVE Whole(v, fil'[q])
    <2>1. Whole(w, fil[q]) /\ fil[q].file \in Files /\ fil'[q] = fil[q]
      BY <1>1, VolumeAssumption DEF Others
    <2>2. Keeps({fil[q].file}, w, v)
      BY <2>1 DEF Keeps
    <2> QED BY <2>1, <2>2, KeepsWhole
  <1>4. Shut(w, fil[p].file)
    <2>1. fil[p].sclust \in {0} \cup Clusters
      BY <1>1 DEF FIL
    <2> QED BY <2>1 DEF Whole, Current, Entry, Shut, First
  <1>5. ASSUME NEW f \in Files, NotOpen(f)' PROVE Shut(v, f)
    <2>1. f = fil[p].file \/ NotOpen(f)
      BY <1>5 DEF NotOpen
    <2>2. Shut(w, f)
      BY <1>4, <2>1 DEF Others
    <2>3. Keeps({f}, w, v)
      BY DEF Keeps
    <2> QED BY <2>2, <2>3, KeepsShut
  <1>6. Others(v)'
    BY <1>3, <1>5 DEF Others
  <1> QED BY <1>2, <1>6

\* A file is opened that was not open.
LEMMA OthersOpened ==
  ASSUME Fits, OpenFine, NEW w, Others(w), NEW v, NEW p \in Fils \ opened, cur \in {0, p},
         opened' = opened \cup {p}, \A q \in opened : fil'[q] = fil[q], fs_type' # 0,
         NEW g, fil'[p] = g, g.fs, ~g.err, NEW f \in Files, g.file = f,
         NotOpen(f), Keeps(Files \ {f}, w, v), Whole(v, g)
  PROVE  OpenFine' /\ Others(v)'
  <1>1. opened \subseteq Fils /\ \A q \in opened : fil[q].file \in Files \ {f}
    BY DEF Fits, FilesFit, OpenFine, NotOpen
  <1>2. OpenFine'
    BY <1>1 DEF OpenFine
  <1>3. ASSUME NEW q \in opened PROVE Whole(v, fil'[q])
    <2>1. Whole(w, fil[q]) /\ fil[q].file \in Files \ {f} /\ fil'[q] = fil[q]
      BY <1>1, VolumeAssumption DEF Others
    <2>2. Keeps({fil[q].file}, w, v)
      BY <2>1 DEF Keeps
    <2> QED BY <2>1, <2>2, KeepsWhole
  <1>4. ASSUME NEW h \in Files, NotOpen(h)' PROVE Shut(v, h)
    <2>1. NotOpen(h) /\ h # f
      BY <1>4 DEF NotOpen
    <2>2. Shut(w, h)
      BY <2>1 DEF Others
    <2>3. Keeps({h}, w, v)
      BY <2>1 DEF Keeps
    <2> QED BY <2>2, <2>3, KeepsShut
  <1>5. Others(v)'
    BY <1>3, <1>4 DEF Others
  <1> QED BY <1>2, <1>5

-----------------------------------------------------------------------------
\* The steps of create_chain and remove_chain.

LEMMA CurIsOpen ==
  ASSUME Fits, NEW w, Kept(w), call.op \in {"read", "write", "seek", "truncate", "sync", "close"}
  PROVE  cur \in opened /\ cur \in Fils /\ me \in FIL /\ me.file \in Files
  BY DEF Fits, CallFits, FilesFit, Kept, OpenFine, Mine, SyncMine, me

\* What a function has of its file stays when no file loses anything.
LEMMA MineKept ==
  ASSUME Fits, NEW w, Kept(w), NEW v, Keeps(Files, w, v),
         UNCHANGED <<fil, opened, call, fs_type>>,
         pc' = "seek" => pc = "seek", pc' \in Creates => pc \in Creates \/ call.op = "write", pc' # "cut"
  PROVE  ReadMine(v)' /\ WriteMine(v)' /\ SeekMine(v)' /\ TruncateMine(v)' /\ OpenMine(v)' /\ SyncMine(v)'
  <1>1. fil' = fil /\ opened' = opened /\ call' = call /\ cur' = cur /\ me' = me /\ fs_type' = fs_type
    BY DEF cur, me
  <1>2. ASSUME call.op \in {"read", "write", "seek", "truncate", "sync", "close"}
        PROVE  Holds(me.file, w, v) /\ v.head[me.file] = w.head[me.file] /\ v.fat[me.file] = w.fat[me.file]
               /\ Keeps({me.file}, w, v)
    BY <1>2, CurIsOpen DEF Keeps
  <1>3. Mine(w)
    BY DEF Kept
  <1>4. ReadMine(v)'
    BY <1>1, <1>2, <1>3, KeepsWhole DEF Mine, ReadMine
  <1>5. WriteMine(v)'
    BY <1>1, <1>2, <1>3, HoldsReaches, HoldsCursor DEF Mine, WriteMine
  <1>6. SeekMine(v)'
    BY <1>1, <1>2, <1>3, HoldsReaches, HoldsCursor, HoldsAt DEF Mine, SeekMine, Current
  <1>7. TruncateMine(v)'
    BY <1>1, <1>2, <1>3, HoldsReaches, HoldsCursor DEF Mine, TruncateMine
  <1>8. OpenMine(v)'
    <2>1. call.op = "open" => v.head[call.new.file] = w.head[call.new.file]
      BY DEF Fits, CallFits, Keeps
    <2>2. \A f : NotOpen(f)' <=> NotOpen(f)
      BY <1>1 DEF NotOpen
    <2> QED BY <1>1, <1>3, <2>1, <2>2 DEF Mine, OpenMine
  <1>9. SyncMine(v)'
    BY <1>1, <1>2, <1>3, KeepsWhole DEF Mine, SyncMine, Current
  <1> QED BY <1>4, <1>5, <1>6, <1>7, <1>8, <1>9

\* So a step that changes neither the files nor the call keeps the invariant.
LEMMA StillKept ==
  ASSUME Fits, NEW w, Kept(w), NEW v, v.fat = View', Sorted(v), Keeps(Files, w, v),
         UNCHANGED <<fil, opened, call, fs_type>>,
         pc' = "seek" => pc = "seek", pc' \in Creates => pc \in Creates \/ call.op = "write", pc' # "cut",
         v.head[Nobody] = Loose', pc' = "free" => clst' # 0, CreateMine(v)'
  PROVE  Kept(v)'
  <1>1. ReadMine(v)' /\ WriteMine(v)' /\ SeekMine(v)' /\ TruncateMine(v)' /\ OpenMine(v)' /\ SyncMine(v)'
    BY MineKept
  <1>2. OpenFine' /\ Others(v)'
    <2>1. OpenFine /\ Others(w)
      BY DEF Kept
    <2>2. Untouched
      BY <2>1 DEF cur, OpenFine, Untouched
    <2>3. Leaves(Files, v)
      BY DEF Leaves
    <2> QED BY <2>1, <2>2, <2>3, OthersSame
  <1> QED BY <1>1, <1>2 DEF Kept, Mine

LEMMA ViewIs ==
  ASSUME Fits
  PROVE  /\ DOMAIN View = Items
         /\ \A c \in Clusters : View[c] \in {FREE, EOC} \cup Clusters
         /\ Taken(View) \subseteq Clusters
  BY ViewEntry DEF Fits, Taken

\* The cluster that create_chain stretches is one of the file.
LEMMA Stretching ==
  ASSUME Fits, NEW w, Kept(w), pc \in Creates, clst # 0
  PROVE  /\ clst \in Taken(w.fat) /\ clst \in Clusters /\ w.own[clst] = me.file /\ me.file \in Files
         /\ w.rank[clst] = (me.fptr - 1) \div bcs /\ me.fptr > 0 /\ me.fptr \in Nat
  <1>1. call.op \in {"write", "seek"}
    BY DEF Fits, CallFits, Runs, Creates, Removes, Syncs
  <1>2. me.file \in Files /\ me \in FIL
    BY <1>1, CurIsOpen
  <1>6. me.fptr \in Nat
    BY <1>2 DEF FIL
  <1>3. me.fptr > 0 /\ clst = me.clust
    BY <1>6 DEF Kept, Mine, CreateMine, Stretched
  <1>4. Cursor(w, me)
    BY <1>1 DEF Kept, Mine, WriteMine, SeekMine
  <1>5. Taken(w.fat) \subseteq Clusters
    BY DEF Taken
  <1> QED BY <1>2, <1>3, <1>4, <1>5, <1>6 DEF Cursor, At

LEMMA FollowKeeps ==
  ASSUME Fits, Follow, Elsewhere, NEW w, Kept(w)
  PROVE  Linked'
  <1>1. View' = View
    BY FollowFits
  <1>2. pc = "create" /\ clst # 0 /\ pc' = "created" /\ clst' = clst
    BY DEF Follow
  <1>3. clst \in Taken(w.fat) /\ w.fat = View /\ Sorted(w)
    BY <1>2, Stretching DEF Creates, Kept
  <1>4. View[clst] \in Clusters /\ ncl' = View[clst]
    <2>1. w.own[clst] \in Files
      BY <1>2, Stretching DEF Creates
    <2> QED BY <1>3, <2>1, FileNext DEF Follow, Taken
  <1>5. Loose = 0 /\ Loose' = 0
    BY <1>2 DEF Loose
  <1>6. CreateMine(w)'
    <2>1. Stretched'
      BY <1>2 DEF Elsewhere, Stretched, cur, me, Kept, Mine, CreateMine, Creates
    <2> QED BY <1>2, <1>3, <1>4, <2>1 DEF CreateMine, MarkMine, LinkMine, EndMine, CreatedMine
  <1>7. Keeps(Files, w, w)
    BY DEF Keeps, Holds
  <1>8. Kept(w)'
    BY <1>1, <1>2, <1>3, <1>5, <1>6, <1>7, StillKept DEF Elsewhere, Creates, Kept
  <1> QED BY <1>8 DEF Linked

LEMMA SelfKeeps == \A w : Keeps(Files, w, w) /\ \A f : Holds(f, w, w)
  BY DEF Keeps, Holds

LEMMA StretchedKept ==
  ASSUME Fits, NEW w, Kept(w), pc \in Creates, UNCHANGED <<fil, call, clst>>
  PROVE  Stretched'
  <1>1. Stretched
    BY DEF Kept, Mine, CreateMine
  <1>2. me' = me /\ clst' = clst
    BY DEF me, cur
  <1> QED BY <1>1, <1>2 DEF Stretched

LEMMA FullKeeps ==
  ASSUME Fits, Full, Elsewhere, NEW w, Kept(w)
  PROVE  Linked'
  <1>1. View' = View
    BY FullFits
  <1>2. pc = "create" /\ pc' = "created" /\ clst' = clst /\ ncl' = NOSPACE
    BY DEF Full
  <1>3. w.fat = View /\ Sorted(w) /\ w.head[Nobody] = Loose
    BY DEF Kept
  <1>4. Loose = 0 /\ Loose' = 0
    BY <1>2, Numbers DEF Loose, NOSPACE
  <1>5. CreateMine(w)'
    <2>1. Stretched'
      BY <1>2, StretchedKept DEF Elsewhere, Creates
    <2> QED BY <1>2, <2>1 DEF CreateMine, MarkMine, LinkMine, EndMine, CreatedMine
  <1>6. Kept(w)'
    BY <1>1, <1>2, <1>3, <1>4, <1>5, SelfKeeps, StillKept DEF Elsewhere, Creates
  <1> QED BY <1>6 DEF Linked

LEMMA FindKeeps ==
  ASSUME Fits, Find, Elsewhere, NEW w, Kept(w)
  PROVE  Linked'
  <1>1. View' = View /\ ncl' \in FreeClusters
    BY FindFits
  <1>2. pc = "create" /\ pc' = "mark" /\ clst' = clst /\ (clst # 0 => View[clst] = EOC)
    BY DEF Find
  <1>3. w.fat = View /\ Sorted(w) /\ w.head[Nobody] = Loose
    BY DEF Kept
  <1>4. Loose = 0 /\ Loose' = 0
    BY <1>2, Numbers DEF Loose
  <1>5. CreateMine(w)'
    <2>1. Stretched'
      BY <1>2, StretchedKept DEF Elsewhere, Creates
    <2>2. w.fat[ncl'] = FREE
      BY <1>1, <1>3 DEF FreeClusters
    <2> QED BY <1>2, <1>3, <2>1, <2>2 DEF CreateMine, MarkMine, LinkMine, EndMine, CreatedMine
  <1>6. Kept(w)'
    BY <1>1, <1>2, <1>3, <1>4, <1>5, SelfKeeps, StillKept DEF Elsewhere, Creates
  <1> QED BY <1>6 DEF Linked

LEMMA MarkKeeps ==
  ASSUME Fits, Mark, Elsewhere, NEW w, Kept(w)
  PROVE  Linked'
  <1>1. View' = [View EXCEPT ![ncl] = EOC]
    BY MarkFits
  <1>2. pc = "mark" /\ pc' = (IF clst = 0 THEN "created" ELSE "link") /\ clst' = clst /\ ncl' = ncl
        /\ ncl \in Clusters
    BY DEF Mark, Fits, ChainFits
  <1>3. w.fat = View /\ Sorted(w) /\ w.head[Nobody] = 0 /\ DOMAIN View = Items
    BY <1>2, ViewIs DEF Kept, Loose
  <1>4. w.fat[ncl] = FREE /\ (clst # 0 => w.fat[clst] = EOC)
    BY <1>2 DEF Kept, Mine, CreateMine, MarkMine, EndMine, Creates
  <1>9. View'[ncl] = EOC /\ \A x \in Items \ {ncl} : View'[x] = w.fat[x]
    BY <1>1, <1>2, <1>3, Kinds
  <1>5. PICK v : /\ v.fat = View' /\ Sorted(v) /\ v.head[Nobody] = ncl /\ Keeps(Files, w, v)
    BY <1>2, <1>3, <1>4, <1>9, GhostExtended
  <1>6. Loose' = ncl
    BY <1>2 DEF Loose
  <1>7. CreateMine(v)'
    <2>1. Stretched'
      BY <1>2, StretchedKept DEF Elsewhere, Creates
    <2>2. v.fat[ncl] = EOC
      BY <1>1, <1>2, <1>3, <1>5, Kinds
    <2>3. clst # 0 => v.fat[clst] = EOC
      BY <1>1, <1>3, <1>4, <1>5, <2>2
    <2> QED BY <1>2, <2>1, <2>2, <2>3 DEF CreateMine, MarkMine, LinkMine, EndMine, CreatedMine
  <1>8. Kept(v)'
    BY <1>2, <1>5, <1>6, <1>7, StillKept DEF Elsewhere, Creates
  <1> QED BY <1>8 DEF Linked

LEMMA LinkKeeps ==
  ASSUME Fits, Link, Elsewhere, NEW w, Kept(w)
  PROVE  Linked'
  <1>1. View' = [View EXCEPT ![clst] = ncl]
    BY LinkFits
  <1>2. pc = "link" /\ pc' = "created" /\ clst' = clst /\ ncl' = ncl
        /\ ncl \in Clusters /\ clst \in Clusters /\ clst # 0
    BY Numbers DEF Link, Fits, ChainFits
  <1>3. w.fat = View /\ Sorted(w) /\ w.head[Nobody] = ncl /\ DOMAIN View = Items
    BY <1>2, ViewIs DEF Kept, Loose
  <1>4. w.fat[ncl] = EOC /\ w.fat[clst] = EOC
    BY <1>2 DEF Kept, Mine, CreateMine, LinkMine, EndMine, Creates
  <1>5. ncl \in Taken(w.fat) /\ clst \in Taken(w.fat)
    BY <1>2, <1>4, Numbers DEF Taken
  <1>6. w.own[clst] \in Files
    BY <1>2, Stretching DEF Creates
  <1>11. View'[clst] = ncl /\ \A x \in Items \ {clst} : View'[x] = w.fat[x]
    BY <1>1, <1>2, <1>3, Kinds
  <1>7. PICK v : /\ v.fat = View' /\ Sorted(v) /\ v.head[Nobody] = 0 /\ Keeps(Files, w, v)
    BY <1>3, <1>4, <1>5, <1>6, <1>11, GhostJoined
  <1>8. Loose' = 0
    BY <1>2 DEF Loose
  <1>9. CreateMine(v)'
    <2>1. Stretched'
      BY <1>2, StretchedKept DEF Elsewhere, Creates
    <2>2. v.fat[clst] = ncl
      BY <1>1, <1>2, <1>3, <1>7, Kinds
    <2> QED BY <1>2, <2>1, <2>2 DEF CreateMine, MarkMine, LinkMine, EndMine, CreatedMine
  <1>10. Kept(v)'
    BY <1>2, <1>7, <1>8, <1>9, StillKept DEF Elsewhere, Creates
  <1> QED BY <1>10 DEF Linked

LEMMA FreeNextKeeps ==
  ASSUME Fits, FreeNext, Elsewhere, NEW w, Kept(w)
  PROVE  Linked' /\ clst \in Taken(View)
  <1>1. pc = "free" /\ clst # 0
    BY DEF FreeNext, Kept
  <1>2. w.fat = View /\ Sorted(w) /\ w.head[Nobody] = clst /\ DOMAIN View = Items
    BY <1>1, ViewIs DEF Kept, Loose
  <1>3. clst \in Taken(w.fat)
    BY <1>1, <1>2, Everywhere DEF Sorted, Chained, HeadsFirst, Held
  <1>4. View' = [View EXCEPT ![clst] = FREE]
    BY <1>1, <1>2, <1>3, FreeNextFits DEF Taken
  <1>5. PICK v : /\ v.fat = View' /\ Sorted(v) /\ v.head[Nobody] = First(w.fat[clst])
                 /\ Keeps(Files, w, v)
    <2>1. View'[clst] = FREE /\ \A x \in Items \ {clst} : View'[x] = w.fat[x]
      BY <1>2, <1>3, <1>4, Kinds DEF Taken
    <2> QED BY <1>2, <1>3, <2>1, GhostFreed
  <1>6. /\ View[clst] \in Clusters => clst' = View[clst] /\ pc' = "free"
        /\ View[clst] \notin Clusters => pc' = "removed"
    BY <1>1, <1>2, <1>3 DEF FreeNext, GoesOn, Taken
  <1>7. First(w.fat[clst]) = Loose' /\ (pc' = "free" => clst' # 0) /\ pc' \in Removes
    BY <1>2, <1>6, Numbers DEF First, Loose, Removes
  <1>8. CreateMine(v)'
    BY <1>7 DEF CreateMine, Creates, Removes
  <1>9. Kept(v)'
    BY <1>5, <1>7, <1>8, StillKept DEF Elsewhere, Creates, Removes
  <1> QED BY <1>2, <1>3, <1>9 DEF Linked

LEMMA CutKeeps ==
  ASSUME Fits, Cut, Elsewhere, NEW w, Kept(w)
  PROVE  Linked'
  <1>1. View' = [View EXCEPT ![ncl] = EOC]
    BY CutFits
  <1>2. pc = "cut" /\ pc' = "free" /\ clst' = clst /\ ncl' = ncl
        /\ ncl \in Clusters /\ clst \in Clusters /\ clst # 0
    BY Numbers DEF Cut, Fits, ChainFits
  <1>3. w.fat = View /\ Sorted(w) /\ w.head[Nobody] = 0 /\ DOMAIN View = Items
    BY <1>2, ViewIs DEF Kept, Loose
  <1>4. call.op = "truncate"
    BY <1>2 DEF Fits, CallFits, Runs, Creates, Removes, Syncs
  <1>5. me.fptr < me.objsize /\ Cursor(w, me) /\ w.head[me.file] = me.sclust
        /\ me.fptr > 0 /\ ncl = me.clust /\ w.fat[ncl] = clst
    <2>1. me.fptr \in Nat
      <3>1. me \in FIL
        BY <1>4, CurIsOpen
      <3> QED BY <3>1 DEF FIL
    <2> QED BY <1>2, <1>4, <2>1 DEF Kept, Mine, TruncateMine
  <1>6. At(w, me.file, ncl, (me.fptr - 1) \div bcs)
    BY <1>5 DEF Cursor
  <1>7. me.file \in Files /\ cur \in opened /\ cur \in Fils
    BY <1>4, CurIsOpen
  <1> DEFINE f == me.file
  <1>8. PICK v : /\ v.fat = View' /\ Sorted(v) /\ v.head[Nobody] = clst /\ v.head[f] = w.head[f]
                 /\ At(v, f, ncl, w.rank[ncl]) /\ Keeps(Files \ {f}, w, v)
    <2>1. ncl \in Taken(w.fat) /\ w.own[ncl] = f /\ f \in Files
      BY <1>6, <1>7 DEF At
    <2> HIDE DEF f
    <2>0. PICK m : m = View'
      OBVIOUS
    <2>2. m[ncl] = EOC /\ \A x \in Items \ {ncl} : m[x] = w.fat[x]
      BY <1>1, <1>2, <1>3, <2>0, Kinds
    <2>3. w.head[Nobody] = 0 /\ Sorted(w) /\ clst \in Clusters /\ w.fat[ncl] = clst
      BY <1>2, <1>3, <1>5
    <2>4. \E v : Severed(w, ncl, f, clst, m, v)
      BY <2>1, <2>2, <2>3, GhostCutOff
    <2> QED BY <2>4, <2>0 DEF Severed
  <1>9. fil' = fil /\ opened' = opened /\ call' = call /\ cur' = cur /\ me' = me /\ fs_type' = fs_type
    BY DEF cur, me, Elsewhere
  <1>10. OpenFine' /\ Others(v)'
    <2>1. OpenFine /\ Others(w)
      BY DEF Kept
    <2>2. Untouched
      BY <1>9, <2>1 DEF OpenFine, Untouched
    <2>3. Leaves(Files \ {f}, v)
      BY <1>7 DEF Leaves
    <2> HIDE DEF f
    <2> QED BY <1>8, <2>1, <2>2, <2>3, OthersSame
  <1>11. Cursor(v, me)
    BY <1>5, <1>6, <1>8 DEF Cursor, At
  <1>12. TruncateMine(v)'
    BY <1>2, <1>5, <1>8, <1>9, <1>11 DEF TruncateMine
  <1>13. Mine(v)'
    BY <1>2, <1>4, <1>9, <1>12 DEF Mine, CreateMine, ReadMine, WriteMine, SeekMine, OpenMine, SyncMine,
          Creates
  <1>14. Loose' = clst
    BY <1>2 DEF Loose
  <1>15. Kept(v)'
    BY <1>2, <1>8, <1>10, <1>13, <1>14 DEF Kept
  <1> QED BY <1>15 DEF Linked
-----------------------------------------------------------------------------
\* The ways a call goes on and returns.

LEMMA IdleMine ==
  ASSUME pc' = "idle", call'.op = "none"
  PROVE  Loose' = 0 /\ (pc' = "free" => clst' # 0) /\ \A v : Mine(v)'
  BY DEF Loose, Mine, CreateMine, ReadMine, WriteMine, SeekMine, TruncateMine, OpenMine, SyncMine,
         Creates

\* A call on an open file returns.
LEMMA Ended ==
  ASSUME Fits, NEW w, Kept(w), NEW v, v.fat = View', Sorted(v), v.head[Nobody] = 0,
         cur \in opened, opened' = opened, fs_type' = fs_type, NEW r, Return(r),
         NEW g \in FIL, fil' = [fil EXCEPT ![cur] = g],
         g.file = me.file, g.fs <=> me.fs, g.err <=> me.err,
         Keeps(Files \ {me.file}, w, v), Whole(v, g)
  PROVE  Linked'
  <1>1. pc' = "idle" /\ call'.op = "none"
    BY DEF Return, Idle
  <1>2. OpenFine' /\ Others(v)'
    <2>1. OpenFine /\ Others(w) /\ me = fil[cur] /\ me.fs /\ ~me.err
      BY DEF Kept, OpenFine, me
    <2>2. cur \in Fils /\ fil \in [Fils -> FIL]
      BY DEF Fits, FilesFit
    <2>3. fil' \in [Fils -> FIL] /\ fil'[cur] = g /\ \A q \in opened \ {cur} : fil'[q] = fil[q]
      BY <2>2 DEF Fits, FilesFit
    <2>4. fil'[cur].file = fil[cur].file /\ fil'[cur].fs /\ ~fil'[cur].err /\ Whole(v, fil'[cur])
          /\ Keeps(Files \ {fil[cur].file}, w, v)
      BY <2>1, <2>3
    <2>5. cur \in {0, cur}
      OBVIOUS
    <2> QED BY <2>1, <2>3, <2>4, <2>5, OthersKept
  <1>3. Loose' = 0 /\ (pc' = "free" => clst' # 0) /\ Mine(v)'
    BY <1>1, IdleMine
  <1>4. Kept(v)'
    BY <1>1, <1>2, <1>3 DEF Kept
  <1> QED BY <1>4 DEF Linked

\* A call on an open file goes on, or begins.
LEMMA GoesOnWith ==
  ASSUME Fits, NEW w, Kept(w), NEW v, v.fat = View', Sorted(v), v.head[Nobody] = Loose',
         pc' = "free" => clst' # 0,
         NEW p \in opened, cur \in {0, p}, opened' = opened, fs_type' = fs_type, cur' = p,
         NEW g \in FIL, fil' = [fil EXCEPT ![p] = g],
         g.file = fil[p].file, g.fs <=> fil[p].fs, g.err <=> fil[p].err,
         Keeps(Files \ {fil[p].file}, w, v), Mine(v)'
  PROVE  Linked'
  <1>1. OpenFine' /\ Others(v)'
    <2>1. OpenFine /\ Others(w) /\ fil[p].fs /\ ~fil[p].err
      BY DEF Kept, OpenFine
    <2>2. p \in Fils /\ fil \in [Fils -> FIL]
      BY DEF Fits, FilesFit
    <2>3. fil' \in [Fils -> FIL] /\ fil'[p] = g /\ \A q \in opened \ {p} : fil'[q] = fil[q]
      BY <2>2 DEF Fits, FilesFit
    <2>4. fil'[p].file = fil[p].file /\ fil'[p].fs /\ ~fil'[p].err
      BY <2>1, <2>3
    <2> QED BY <2>1, <2>3, <2>4, OthersKept
  <1>2. Kept(v)'
    BY <1>1 DEF Kept
  <1> QED BY <1>2 DEF Linked

\* A call returns at once, with an open file changed or none.
LEMMA AtOnce ==
  ASSUME Fits, NEW w, Kept(w), View' = View, pc = "idle", UNCHANGED <<pc, call, opened>>,
         opened # {} => fs_type' # 0, \A q \in opened : fil'[q] = fil[q]
  PROVE  Linked'
  <1>1. cur = 0 /\ cur' = cur /\ cur \notin opened /\ call.op = "none" /\ call'.op = "none" /\ pc' = "idle"
    BY AtIdle, VolumeAssumption DEF Fits, FilesFit, cur, Idle
  <1>2. Loose = 0 /\ Loose' = 0 /\ (pc' = "free" => clst' # 0) /\ Mine(w)'
    BY <1>1, IdleMine DEF Loose
  <1>3. OpenFine' /\ Others(w)'
    <2>1. OpenFine /\ Others(w)
      BY DEF Kept
    <2>2. Untouched
      BY <1>1 DEF Untouched
    <2>3. Leaves(Files, w) /\ Keeps(Files, w, w)
      BY SelfKeeps DEF Leaves
    <2> QED BY <2>1, <2>2, <2>3, OthersSame
  <1>4. Kept(w)'
    BY <1>1, <1>2, <1>3 DEF Kept
  <1> QED BY <1>4 DEF Linked

LEMMA FlushKeeps ==
  ASSUME Fits, Flush, NEW w, Kept(w)
  PROVE  Linked'
  <1>1. View' = View /\ pc = "flush" /\ pc' = "info"
    BY FlushFits DEF Flush
  <1>2. w.fat = View /\ Sorted(w) /\ w.head[Nobody] = Loose /\ Loose = 0 /\ Loose' = 0
    BY <1>1 DEF Kept, Loose
  <1>3. CreateMine(w)'
    BY <1>1 DEF CreateMine, Creates
  <1>4. Kept(w)'
    BY <1>1, <1>2, <1>3, SelfKeeps, StillKept DEF Flush, Creates
  <1> QED BY <1>4 DEF Linked

LEMMA UnlinkedKeeps ==
  ASSUME Fits, Unlinked, NEW w, Kept(w)
  PROVE  Linked'
  <1>1. View' = View /\ pc = "removed" /\ pc' = "flush"
    BY UnlinkedFits DEF Unlinked
  <1>2. w.fat = View /\ Sorted(w) /\ w.head[Nobody] = Loose /\ Loose = 0 /\ Loose' = 0
    BY <1>1 DEF Kept, Loose
  <1>3. CreateMine(w)'
    BY <1>1 DEF CreateMine, Creates
  <1>4. Kept(w)'
    BY <1>1, <1>2, <1>3, SelfKeeps, StillKept DEF Unlinked, disk, Creates
  <1> QED BY <1>4 DEF Linked
-----------------------------------------------------------------------------
\* Along the chain of a file.

LEMMA CurFile ==
  ASSUME Fits, NEW w, Kept(w), call.op \in {"read", "write", "seek", "truncate", "sync", "close"}
  PROVE  /\ cur \in opened /\ cur \in Fils /\ me = fil[cur] /\ me \in FIL /\ me.file \in Files
         /\ me.fptr \in Nat /\ me.objsize \in Nat
         /\ me.sclust \in {0} \cup Clusters /\ me.clust \in {0} \cup Clusters
         /\ bcs \in Nat \ {0} /\ call.ofs \in Nat
  <1>1. cur \in opened /\ cur \in Fils /\ me \in FIL /\ me.file \in Files
    BY CurIsOpen
  <1>2. call.ofs \in Nat
    BY DEF Fits, CallFits, Frame
  <1> QED BY <1>1, <1>2, VolumeAssumption DEF FIL, me

LEMMA NewObject ==
  ASSUME Fits, Fits', NEW p \in Fils, NEW g, fil' = [fil EXCEPT ![p] = g]
  PROVE  g \in FIL
  BY DEF Fits, FilesFit

LEMMA AtFirst ==
  ASSUME NEW w, Sorted(w), NEW f \in Files, w.head[f] # 0
  PROVE  At(w, f, w.head[f], 0) /\ w.head[f] \in Clusters
  BY Everywhere DEF At, Sorted, Chained, HeadsFirst, Held, Taken

LEMMA FirstCluster ==
  ASSUME NEW w, Sorted(w), NEW f \in Files, NEW n, Reaches(w, f, n), n > 0
  PROVE  At(w, f, w.head[f], 0) /\ w.head[f] \in Clusters
  <1>1. PICK c \in Taken(w.fat) : w.own[c] = f
    BY DEF Reaches
  <1>2. w.head[f] # 0
    BY <1>1, FileHead
  <1> QED BY <1>2, AtFirst

LEMMA NextCluster ==
  ASSUME NEW w, Sorted(w), w.fat = View, NEW f \in Files, NEW c, NEW k \in Nat, At(w, f, c, k),
         NEW n \in Nat, Reaches(w, f, n), n > 0, (n - 1) \div bcs > k
  PROVE  At(w, f, get_fat(c), k + 1) /\ get_fat(c) \in Clusters
  <1>1. PICK d \in Taken(w.fat) : w.own[d] = f /\ w.rank[d] >= (n - 1) \div bcs
    BY DEF Reaches
  <1>2. c \in Taken(w.fat) /\ w.own[c] = f /\ w.rank[c] = k /\ c \in Clusters
    BY DEF At, Taken
  <1>3. w.fat[c] # EOC
    <2>1. SUFFICES ASSUME w.fat[c] = EOC PROVE FALSE
      OBVIOUS
    <2>2. w.rank[d] <= k
      <3>1. c \in Held(w.fat, w.own) /\ d \in Held(w.fat, w.own)
        BY <1>1, <1>2, FileHeld
      <3> QED BY <1>1, <1>2, <2>1, <3>1, EndIsLast DEF Sorted
    <2>3. w.rank[d] \in Nat
      BY <1>1 DEF Sorted, Chained, Places, Taken
    <2>4. (n - 1) \div bcs \in Nat
      <3>1. n - 1 \in Nat /\ bcs \in Nat \ {0}
        BY VolumeAssumption
      <3> QED BY <3>1, Division
    <2> QED BY <1>1, <2>2, <2>3, <2>4
  <1>4. w.fat[c] \in Taken(w.fat) /\ Follows(w.fat, w.own, w.rank, c, w.fat[c])
    BY <1>2, <1>3, FileNext DEF Follows
  <1>5. get_fat(c) = w.fat[c]
    BY <1>2 DEF get_fat, EntryOf
  <1> QED BY <1>2, <1>4, <1>5 DEF At, Follows, Taken

\* The cluster that f_read reads from.
LEMMA ReadTarget ==
  ASSUME Fits, NEW w, Kept(w), call.op = "read", call.ofs > 0,
         NEW c, c = IF me.fptr % bcs # 0 THEN me.clust
                    ELSE IF me.fptr = 0 THEN me.sclust ELSE get_fat(me.clust)
  PROVE  At(w, me.file, c, me.fptr \div bcs) /\ c \in Clusters
  <1>1. /\ me.file \in Files /\ me.fptr \in Nat /\ me.objsize \in Nat /\ bcs \in Nat \ {0}
        /\ call.ofs \in Nat
    BY CurFile
  <1>2. Whole(w, me) /\ Sorted(w) /\ w.fat = View
    BY DEF Kept, Mine, ReadMine
  <1>3. me.fptr + call.ofs <= me.objsize
    BY DEF Fits, FilesFit
  <1>4. Cursor(w, me) /\ Reaches(w, me.file, me.objsize) /\ w.head[me.file] = me.sclust
    BY <1>2 DEF Whole
  <1>5. CASE me.fptr % bcs # 0
    <2>1. me.fptr > 0 /\ (me.fptr - 1) \div bcs = me.fptr \div bcs
      BY <1>1, <1>5, Inside
    <2> QED BY <1>4, <1>5, <2>1 DEF Cursor, At, Taken
  <1>6. CASE me.fptr % bcs = 0 /\ me.fptr = 0
    <2>1. me.objsize > 0
      BY <1>1, <1>3, <1>6
    <2>2. At(w, me.file, me.sclust, 0) /\ me.sclust \in Clusters
      BY <1>1, <1>2, <1>4, <2>1, FirstCluster
    <2>3. 0 \div bcs = 0
      BY <1>1
    <2> QED BY <1>6, <2>2, <2>3
  <1>7. CASE me.fptr % bcs = 0 /\ me.fptr # 0
    <2> DEFINE k == (me.fptr - 1) \div bcs
    <2>8. me.fptr > 0
      BY <1>1, <1>7
    <2>1. me.fptr > 0 /\ me.fptr \div bcs > 0 /\ k = me.fptr \div bcs - 1
      BY <1>1, <1>7, <2>8, NextOne
    <2>2. me.fptr \div bcs \in Nat
      BY <1>1
    <2>3. k \in Nat /\ k + 1 = me.fptr \div bcs
      BY <2>1, <2>2
    <2>4. At(w, me.file, me.clust, k)
      BY <1>4, <2>1 DEF Cursor
    <2>5. me.objsize > 0 /\ (me.objsize - 1) \div bcs > k
      <3>1. me.objsize - 1 \in Nat /\ me.fptr <= me.objsize - 1
        BY <1>1, <1>3
      <3>2. me.fptr \div bcs <= (me.objsize - 1) \div bcs
        BY <1>1, <3>1, Monotone
      <3>3. (me.objsize - 1) \div bcs \in Nat
        BY <1>1, <3>1, Division
      <3> HIDE DEF k
      <3> QED BY <1>1, <2>2, <2>3, <3>1, <3>2, <3>3
    <2> HIDE DEF k
    <2>6. At(w, me.file, get_fat(me.clust), k + 1) /\ get_fat(me.clust) \in Clusters
      BY <1>1, <1>2, <1>4, <2>3, <2>4, <2>5, NextCluster
    <2> QED BY <1>7, <2>3, <2>6
  <1> QED BY <1>5, <1>6, <1>7

\* The position after some bytes of a cluster.
LEMMA CursorMoved ==
  ASSUME NEW w, NEW f, NEW c, NEW n \in Nat, NEW k \in Nat, 0 < k, k <= bcs - (n % bcs),
         At(w, f, c, n \div bcs), NEW g, g.file = f, g.clust = c, g.fptr = n + k
  PROVE  Cursor(w, g)
  <1>1. bcs \in Nat \ {0}
    BY VolumeAssumption
  <1>2. (n + k - 1) \div bcs = n \div bcs
    BY <1>1, Within
  <1> QED BY <1>2 DEF Cursor

\* A file has room for the bytes before a position in it.
LEMMA CursorReaches ==
  ASSUME NEW w, Sorted(w), NEW g, g.fptr \in Nat, Cursor(w, g)
  PROVE  Reaches(w, g.file, g.fptr)
  <1>1. SUFFICES ASSUME g.fptr > 0
                 PROVE  \E c \in Taken(w.fat) : w.own[c] = g.file /\ w.rank[c] >= (g.fptr - 1) \div bcs
    BY DEF Reaches
  <1>2. g.clust \in Taken(w.fat) /\ w.own[g.clust] = g.file /\ w.rank[g.clust] = (g.fptr - 1) \div bcs
    BY <1>1 DEF Cursor, At
  <1>3. w.rank[g.clust] \in Nat
    BY <1>2 DEF Sorted, Chained, Places, Taken
  <1> QED BY <1>2, <1>3

LEMMA ReadNextKeeps ==
  ASSUME Fits, Fits', ReadNext, NEW w, Kept(w)
  PROVE  Linked'
  <1> DEFINE c == IF me.fptr % bcs # 0 THEN me.clust
                  ELSE IF me.fptr = 0 THEN me.sclust ELSE get_fat(me.clust)
  <1>1. pc = "read" /\ call.op = "read" /\ View' = View /\ opened' = opened /\ fs_type' = fs_type
    BY ReadNextFits DEF ReadNext, Fits, CallFits, Runs, Creates, Removes, Syncs
  <1>2. /\ cur \in opened /\ cur \in Fils /\ me \in FIL /\ me.file \in Files /\ me = fil[cur]
        /\ me.fptr \in Nat /\ me.objsize \in Nat /\ call.ofs \in Nat
    BY <1>1, CurFile
  <1>3. Whole(w, me) /\ w.fat = View /\ Sorted(w) /\ w.head[Nobody] = Loose /\ Loose = 0
    BY <1>1 DEF Kept, Mine, ReadMine, Loose
  <1>4. Keeps(Files \ {me.file}, w, w)
    BY DEF Keeps, Holds
  <1>5. CASE call.ofs = 0
    <2>1. Return("OK") /\ fil' = [fil EXCEPT ![cur] = me]
      BY <1>2, <1>5 DEF ReadNext, Fits, FilesFit, me
    <2> QED BY <1>1, <1>2, <1>3, <1>4, <2>1, Ended
  <1>6. CASE call.ofs > 0
    <2>1. At(w, me.file, c, me.fptr \div bcs) /\ c \in Clusters
      BY <1>1, <1>6, ReadTarget
    <2> DEFINE g == [me EXCEPT !.clust = c, !.fptr = me.fptr + Chunk]
    <2>2. fil' = [fil EXCEPT ![cur] = g] /\ Advance /\ pc' = pc
      BY <1>2, <1>6, <2>1 DEF ReadNext, Become, chain
    <2>3. /\ Chunk \in Nat /\ Chunk > 0 /\ Chunk <= bcs - (me.fptr % bcs) /\ Chunk <= call.ofs
          /\ cur' = cur /\ call'.op = "read"
      BY <1>1, <1>2, <1>6, <2>2, ChunkFits, AdvanceFits
    <2> HIDE DEF c
    <2>4. /\ g.clust = c /\ g.fptr = me.fptr + Chunk /\ g.file = me.file /\ g.objsize = me.objsize
          /\ g.sclust = me.sclust /\ (g.modified <=> me.modified) /\ (g.fs <=> me.fs) /\ (g.err <=> me.err)
      BY <1>2 DEF FIL
    <2> HIDE DEF g
    <2>5. g \in FIL
      BY <1>2, <2>2, NewObject
    <2>6. Whole(w, g)
      <3>1. Cursor(w, g)
        BY <1>2, <2>1, <2>3, <2>4, CursorMoved
      <3>2. g.fptr <= g.objsize
        <4>1. me.fptr + call.ofs <= me.objsize
          BY <1>1 DEF Fits, FilesFit
        <4> QED BY <1>2, <2>3, <2>4, <4>1
      <3> QED BY <1>3, <2>4, <3>1, <3>2 DEF Whole, Current, Entry
    <2>7. fil'[cur] = g /\ me' = g
      BY <1>2, <2>2, <2>3 DEF Fits, FilesFit, me
    <2>8. Mine(w)'
      BY <1>1, <2>2, <2>3, <2>6, <2>7 DEF Mine, CreateMine, ReadMine, WriteMine, SeekMine, TruncateMine,
            OpenMine, SyncMine, Creates
    <2>9. Loose' = 0 /\ pc' # "free" /\ cur \in {0, cur}
      BY <1>1, <2>2 DEF Loose
    <2> QED BY <1>1, <1>2, <1>3, <1>4, <2>2, <2>3, <2>4, <2>5, <2>8, <2>9, GoesOnWith
  <1> QED BY <1>2, <1>5, <1>6

\* A call begins, with an open file as it is.
LEMMA Begins ==
  ASSUME Fits, NEW w, Kept(w), pc = "idle", NEW p \in opened
  PROVE  /\ cur = 0 /\ cur \notin opened /\ cur \in {0, p} /\ p \in Fils /\ fil[p] \in FIL /\ fil[p].file \in Files
         /\ Whole(w, fil[p]) /\ w.fat = View /\ Sorted(w) /\ w.head[Nobody] = 0 /\ Loose = 0
         /\ fil[p].fs /\ ~fil[p].err /\ fs_type # 0
         /\ fil[p].fptr \in Nat /\ fil[p].objsize \in Nat
         /\ fil[p].sclust \in {0} \cup Clusters /\ fil[p].clust \in {0} \cup Clusters
         /\ Keeps(Files \ {fil[p].file}, w, w)
  <1>1. cur = 0 /\ p \in Fils /\ cur \notin opened
    BY AtIdle, VolumeAssumption DEF Fits, FilesFit
  <1>2. fil[p] \in FIL /\ fil[p].file \in Files /\ fil[p].fs /\ ~fil[p].err /\ fs_type # 0
    BY <1>1 DEF Fits, FilesFit, Kept, OpenFine
  <1>3. /\ fil[p].fptr \in Nat /\ fil[p].objsize \in Nat
        /\ fil[p].sclust \in {0} \cup Clusters /\ fil[p].clust \in {0} \cup Clusters
    BY <1>2 DEF FIL
  <1>4. Whole(w, fil[p])
    BY <1>1 DEF Kept, Others
  <1>5. w.fat = View /\ Sorted(w) /\ w.head[Nobody] = 0 /\ Loose = 0
    BY DEF Kept, Loose
  <1>6. Keeps(Files \ {fil[p].file}, w, w)
    BY DEF Keeps, Holds
  <1> QED BY <1>1, <1>2, <1>3, <1>4, <1>5, <1>6

LEMMA ReadKeeps ==
  ASSUME Fits, NEW p \in opened, NEW n \in Nat, Read(p, n), NEW w, Kept(w)
  PROVE  Linked'
  <1>1. View' = View /\ pc = "idle" /\ opened' = opened /\ fs_type' = fs_type /\ pc' = "read"
        /\ fil' = fil /\ call'.op = "read" /\ cur' = p
    BY ReadFits DEF Read, disk, Enter, Idle, cur
  <1>2. /\ cur \in {0, p} /\ p \in Fils /\ fil[p] \in FIL
        /\ Whole(w, fil[p]) /\ w.fat = View /\ Sorted(w) /\ w.head[Nobody] = 0
        /\ Keeps(Files \ {fil[p].file}, w, w)
    BY <1>1, Begins
  <1>3. Loose' = 0 /\ (pc' = "free" => clst' # 0) /\ me' = fil[p]
    BY <1>1 DEF Loose, me
  <1>4. Mine(w)'
    BY <1>1, <1>2, <1>3 DEF Mine, CreateMine, ReadMine, WriteMine, SeekMine, TruncateMine, OpenMine,
          SyncMine, Creates
  <1>5. fil' = [fil EXCEPT ![p] = fil[p]]
    BY <1>1 DEF Fits, FilesFit
  <1> QED BY <1>1, <1>2, <1>3, <1>4, <1>5, GoesOnWith

LEMMA WriteKeeps ==
  ASSUME Fits, NEW p \in opened, NEW n \in Nat, Write(p, n), NEW w, Kept(w)
  PROVE  Linked'
  <1>1. View' = View /\ pc = "idle" /\ opened' = opened /\ fs_type' = fs_type /\ fil' = fil
    BY WriteFits DEF Write, Refuse, disk
  <1>2. /\ cur \in {0, p} /\ p \in Fils /\ fil[p] \in FIL
        /\ Whole(w, fil[p]) /\ w.fat = View /\ Sorted(w) /\ w.head[Nobody] = 0
        /\ Keeps(Files \ {fil[p].file}, w, w) /\ fs_type # 0
    BY <1>1, Begins
  <1>3. CASE Refuse("DENIED")
    <2>1. UNCHANGED <<pc, call, opened>>
      BY <1>3 DEF Refuse, chain
    <2> QED BY <1>1, <1>2, <2>1, AtOnce
  <1>4. CASE Enter("write", p, n, "write")
    <2>1. pc' = "write" /\ call'.op = "write" /\ cur' = p
      BY <1>4 DEF Enter, Idle, cur
    <2>2. Loose' = 0 /\ (pc' = "free" => clst' # 0) /\ me' = fil[p]
      BY <1>1, <2>1 DEF Loose, me
    <2>3. WriteMine(w)'
      BY <1>2, <2>2 DEF WriteMine, Whole
    <2>4. Mine(w)'
      BY <2>1, <2>3 DEF Mine, CreateMine, ReadMine, SeekMine, TruncateMine, OpenMine, SyncMine, Creates
    <2>5. fil' = [fil EXCEPT ![p] = fil[p]]
      BY <1>1 DEF Fits, FilesFit
    <2> QED BY <1>1, <1>2, <2>1, <2>2, <2>4, <2>5, GoesOnWith
  <1> QED BY <1>3, <1>4 DEF Write

LEMMA UnusableKeeps ==
  ASSUME Fits, NEW p \in opened, Unusable(p), NEW w, Kept(w)
  PROVE  Linked'
  <1>1. View' = View /\ pc = "idle" /\ UNCHANGED <<pc, call, opened, fil, fs_type>>
    BY UnusableFits DEF Unusable, Refuse, disk, chain
  <1>2. fs_type # 0
    BY <1>1, Begins
  <1> QED BY <1>1, <1>2, AtOnce

\* f_write ends.
LEMMA WriteDoneKeeps ==
  ASSUME Fits, Fits', NEW w, Kept(w), call.op = "write", pc \in {"write", "created"}, Loose = 0,
         WriteDone, UNCHANGED <<disk, opened>>
  PROVE  Linked'
  <1>1. /\ cur \in opened /\ cur \in Fils /\ me \in FIL /\ me.file \in Files /\ me = fil[cur]
    BY CurFile
  <1> DEFINE g == [me EXCEPT !.modified = TRUE]
  <1>2. fil' = [fil EXCEPT ![cur] = g] /\ Return("OK") /\ opened' = opened /\ fs_type' = fs_type
    BY DEF WriteDone, Become, disk
  <1>3. View' = View
    BY DEF disk, window, View
  <1>4. w.fat = View /\ Sorted(w) /\ w.head[Nobody] = 0 /\ WriteMine(w) /\ Keeps(Files \ {me.file}, w, w)
    BY DEF Kept, Mine, Keeps, Holds
  <1>5. /\ g.clust = me.clust /\ g.fptr = me.fptr /\ g.file = me.file /\ g.objsize = me.objsize
        /\ g.sclust = me.sclust /\ g.modified /\ (g.fs <=> me.fs) /\ (g.err <=> me.err)
    BY <1>1 DEF FIL
  <1> HIDE DEF g
  <1>6. g \in FIL
    BY <1>1, <1>2, NewObject
  <1>7. Whole(w, g)
    BY <1>4, <1>5 DEF Whole, WriteMine, Cursor
  <1> QED BY <1>1, <1>2, <1>3, <1>4, <1>5, <1>6, <1>7, Ended

\* f_write puts bytes into cluster c, the one of the position.
LEMMA WriteToKeeps ==
  ASSUME Fits, Fits', NEW w, Kept(w), call.op = "write", pc \in {"write", "created"}, call.ofs > 0,
         NEW c, WriteTo(c), UNCHANGED <<disk, opened>>,
         NEW v, v.fat = View, Sorted(v), v.head[Nobody] = 0, Keeps(Files \ {me.file}, w, v),
         At(v, me.file, c, me.fptr \div bcs), Reaches(v, me.file, me.objsize),
         v.head[me.file] = IF me.sclust = 0 THEN c ELSE me.sclust
  PROVE  Linked'
  <1>1. /\ cur \in opened /\ cur \in Fils /\ me \in FIL /\ me.file \in Files /\ me = fil[cur]
        /\ me.fptr \in Nat /\ me.objsize \in Nat /\ call.ofs \in Nat
    BY CurFile
  <1>2. View' = View /\ opened' = opened /\ fs_type' = fs_type
    BY DEF disk, window, View
  <1>3. /\ Chunk \in Nat /\ Chunk > 0 /\ Chunk <= bcs - (me.fptr % bcs) /\ Chunk <= call.ofs
        /\ cur' = cur /\ call'.op = "write" /\ pc' = "write"
    BY <1>1, ChunkFits, AdvanceFits DEF WriteTo
  <1> DEFINE end == me.fptr + Chunk
             s == IF me.sclust = 0 THEN c ELSE me.sclust
             n == IF end > me.objsize THEN end ELSE me.objsize
             g == [me EXCEPT !.clust = c, !.fptr = end, !.sclust = s, !.objsize = n]
  <1>4. fil' = [fil EXCEPT ![cur] = g]
    BY DEF WriteTo, Become
  <1>5. end \in Nat /\ n \in Nat /\ end <= n /\ (n = end \/ n = me.objsize)
    BY <1>1, <1>3
  <1> HIDE DEF n, end, s
  <1>6. /\ g.clust = c /\ g.fptr = end /\ g.file = me.file /\ g.objsize = n
        /\ g.sclust = s /\ (g.fs <=> me.fs) /\ (g.err <=> me.err)
    BY <1>1 DEF FIL
  <1> HIDE DEF g
  <1>7. g \in FIL
    BY <1>1, <1>4, NewObject
  <1>8. Cursor(v, g)
    BY <1>1, <1>3, <1>6, CursorMoved DEF end
  <1>9. Reaches(v, g.file, n)
    <2>1. Reaches(v, g.file, end)
      BY <1>5, <1>6, <1>8, CursorReaches
    <2> QED BY <1>5, <1>6, <2>1
  <1>10. fil'[cur] = g /\ me' = g
    BY <1>1, <1>3, <1>4 DEF Fits, FilesFit, me
  <1>11. WriteMine(v)'
    BY <1>5, <1>6, <1>8, <1>9, <1>10 DEF WriteMine, s
  <1>12. Mine(v)'
    BY <1>3, <1>11 DEF Mine, CreateMine, ReadMine, SeekMine, TruncateMine, OpenMine, SyncMine, Creates
  <1>13. Loose' = 0 /\ pc' # "free" /\ cur \in {0, cur}
    BY <1>3 DEF Loose
  <1> QED BY <1>1, <1>2, <1>3, <1>4, <1>6, <1>7, <1>12, <1>13, GoesOnWith

LEMMA WriteNextKeeps ==
  ASSUME Fits, Fits', WriteNext, NEW w, Kept(w)
  PROVE  Linked'
  <1>1. pc = "write" /\ call.op = "write" /\ UNCHANGED <<disk, opened>> /\ View' = View
    BY WriteNextFits DEF WriteNext, Fits, CallFits, Runs, Creates, Removes, Syncs
  <1>2. /\ cur \in opened /\ cur \in Fils /\ me \in FIL /\ me.file \in Files /\ me = fil[cur]
        /\ me.fptr \in Nat /\ me.objsize \in Nat /\ call.ofs \in Nat /\ bcs \in Nat \ {0}
        /\ me.sclust \in {0} \cup Clusters
    BY <1>1, CurFile
  <1>3. w.fat = View /\ Sorted(w) /\ w.head[Nobody] = 0 /\ WriteMine(w) /\ Loose = 0
        /\ Keeps(Files \ {me.file}, w, w)
    BY <1>1 DEF Kept, Mine, Keeps, Holds, Loose
  <1>4. Cursor(w, me) /\ Reaches(w, me.file, me.objsize) /\ w.head[me.file] = me.sclust
    BY <1>1, <1>3 DEF WriteMine
  <1>5. CASE call.ofs = 0 /\ WriteDone
    BY <1>1, <1>3, <1>5, WriteDoneKeeps
  <1>6. CASE /\ call.ofs > 0 /\ (me.fptr % bcs # 0 \/ (me.fptr = 0 /\ me.sclust # 0))
             /\ WriteTo(IF me.fptr = 0 THEN me.sclust ELSE me.clust)
    <2> DEFINE c == IF me.fptr = 0 THEN me.sclust ELSE me.clust
    <2>1. At(w, me.file, c, me.fptr \div bcs) /\ me.sclust # 0
      <3>1. CASE me.fptr = 0
        <4>1. me.sclust # 0 /\ 0 \div bcs = 0
          BY <1>2, <1>6, <3>1
        <4> QED BY <1>2, <1>3, <1>4, <3>1, <4>1, AtFirst
      <3>2. CASE me.fptr # 0
        <4>1. me.fptr > 0 /\ (me.fptr - 1) \div bcs = me.fptr \div bcs
          BY <1>2, <1>6, <3>2, Inside
        <4>2. At(w, me.file, me.clust, me.fptr \div bcs)
          BY <1>4, <4>1 DEF Cursor
        <4>3. w.head[me.file] # 0
          BY <1>2, <1>3, <4>2, FileHead DEF At
        <4> QED BY <1>4, <3>2, <4>2, <4>3
      <3> QED BY <3>1, <3>2
    <2>2. WriteTo(c) /\ w.head[me.file] = IF me.sclust = 0 THEN c ELSE me.sclust
      BY <1>4, <1>6, <2>1
    <2> HIDE DEF c
    <2> QED BY <1>1, <1>3, <1>4, <1>6, <2>1, <2>2, WriteToKeeps
  <1>7. CASE /\ call.ofs > 0 /\ me.fptr % bcs = 0
             /\ me.fptr = 0 => me.sclust = 0
             /\ clst' = IF me.fptr = 0 THEN 0 ELSE me.clust
             /\ pc' = "create"
             /\ UNCHANGED <<ncl, fil, call, res>>
    <2>1. me' = me /\ fil' = fil /\ opened' = opened /\ call' = call /\ fs_type' = fs_type
      BY <1>1, <1>7 DEF me, cur, disk
    <2>2. Loose' = 0 /\ pc' # "free" /\ pc' # "cut" /\ pc' # "seek"
      BY <1>7 DEF Loose
    <2>3. CreateMine(w)'
      <3>1. Stretched'
        BY <1>2, <1>7, <2>1 DEF Stretched
      <3> QED BY <1>7, <3>1 DEF CreateMine, MarkMine, LinkMine, EndMine, CreatedMine
    <2>4. Kept(w)'
      BY <1>1, <1>3, <2>1, <2>2, <2>3, SelfKeeps, StillKept
    <2> QED BY <2>4 DEF Linked
  <1> QED BY <1>5, <1>6, <1>7 DEF WriteNext

\* What create_chain has found belongs to the file from here on.
LEMMA Adopts ==
  ASSUME Fits, NEW w, Kept(w), pc = "created", ncl # NOSPACE
  PROVE  /\ ncl \in Clusters
         /\ \E v : /\ v.fat = View /\ Sorted(v) /\ v.head[Nobody] = 0
                   /\ Keeps(Files \ {me.file}, w, v) /\ Holds(me.file, w, v)
                   /\ v.fat[me.file] = w.fat[me.file]
                   /\ At(v, me.file, ncl, me.fptr \div bcs)
                   /\ v.head[me.file] = IF me.sclust = 0 THEN ncl ELSE me.sclust
  <1>1. call.op \in {"write", "seek"}
    BY DEF Fits, CallFits, Runs, Creates, Removes, Syncs
  <1>2. me.file \in Files /\ me.fptr \in Nat /\ bcs \in Nat \ {0}
    BY <1>1, CurFile
  <1>3. w.fat = View /\ Sorted(w) /\ w.head[Nobody] = Loose /\ w.head[me.file] = me.sclust
    BY <1>1 DEF Kept, Mine, WriteMine, SeekMine
  <1>4. /\ ncl \in Clusters
        /\ IF clst = 0 THEN w.fat[ncl] = EOC ELSE w.fat[clst] = ncl
        /\ Stretched
    BY DEF Kept, Mine, CreateMine, CreatedMine, Creates
  <1>5. CASE clst = 0
    <2>1. me.fptr = 0 /\ me.sclust = 0
      <3>1. me.fptr > 0 => FALSE
        <4>1. SUFFICES ASSUME me.fptr > 0 PROVE FALSE
          OBVIOUS
        <4>2. me.clust = 0 /\ Cursor(w, me)
          BY <1>1, <1>4, <1>5, <4>1 DEF Stretched, Kept, Mine, WriteMine, SeekMine, Creates
        <4> QED BY <4>1, <4>2, Numbers DEF Cursor, At, Taken
      <3> QED BY <1>2, <1>4, <3>1 DEF Stretched
    <2>2. ncl \in Taken(w.fat) /\ w.fat[ncl] = EOC /\ w.head[Nobody] = ncl /\ w.head[me.file] = 0
      BY <1>3, <1>4, <1>5, <2>1, Numbers DEF Taken, Loose
    <2>3. PICK v : /\ v.fat = w.fat /\ Sorted(v) /\ v.head[Nobody] = 0
                   /\ v.head[me.file] = ncl /\ At(v, me.file, ncl, 0) /\ Keeps(Files \ {me.file}, w, v)
                   /\ Holds(me.file, w, v)
      BY <1>2, <1>3, <2>2, GhostAdopted
    <2>4. 0 \div bcs = 0
      BY <1>2
    <2> QED BY <1>3, <1>4, <2>1, <2>3, <2>4
  <1>6. CASE clst # 0
    <2>1. /\ clst \in Taken(w.fat) /\ w.own[clst] = me.file /\ w.rank[clst] = (me.fptr - 1) \div bcs
          /\ me.fptr > 0
      BY <1>6, Stretching DEF Creates
    <2>2. me.fptr \div bcs > 0 /\ (me.fptr - 1) \div bcs = me.fptr \div bcs - 1 /\ me.fptr \div bcs \in Nat
      BY <1>2, <1>4, <2>1, NextOne, Division DEF Stretched
    <2>3. w.fat[clst] = ncl /\ ncl # EOC
      BY <1>4, <1>6, Numbers
    <2>4. ncl \in Taken(w.fat) /\ w.own[ncl] = me.file /\ w.rank[ncl] = me.fptr \div bcs
      <3>1. ncl \in Taken(w.fat) /\ w.own[ncl] = me.file /\ w.rank[ncl] = w.rank[clst] + 1
        BY <1>2, <1>3, <1>4, <2>1, <2>3, FileNext
      <3> QED BY <2>1, <2>2, <3>1
    <2>5. me.sclust # 0
      BY <1>2, <1>3, <2>1, FileHead
    <2>6. Loose = 0
      BY <1>6 DEF Loose
    <2>7. Keeps(Files \ {me.file}, w, w) /\ Holds(me.file, w, w)
      BY DEF Keeps, Holds
    <2> QED BY <1>3, <1>4, <2>4, <2>5, <2>6, <2>7 DEF At
  <1> QED BY <1>5, <1>6

LEMMA WriteCreatedKeeps ==
  ASSUME Fits, Fits', WriteCreated, NEW w, Kept(w)
  PROVE  Linked'
  <1>1. pc = "created" /\ call.op = "write" /\ UNCHANGED <<disk, opened>> /\ call.ofs > 0
    BY DEF WriteCreated, Fits, CallFits, Creates
  <1>2. CASE ncl = NOSPACE /\ WriteDone
    <2>1. Loose = 0
      BY <1>1, <1>2, Numbers DEF Loose, NOSPACE
    <2> QED BY <1>1, <1>2, <2>1, WriteDoneKeeps
  <1>3. CASE ncl # NOSPACE
    <2>1. ncl \in Clusters
      BY <1>1, <1>3, Adopts
    <2>2. PICK v : /\ v.fat = View /\ Sorted(v) /\ v.head[Nobody] = 0
                   /\ Keeps(Files \ {me.file}, w, v) /\ Holds(me.file, w, v)
                   /\ v.fat[me.file] = w.fat[me.file]
                   /\ At(v, me.file, ncl, me.fptr \div bcs)
                   /\ v.head[me.file] = IF me.sclust = 0 THEN ncl ELSE me.sclust
      BY <1>1, <1>3, Adopts
    <2>3. WriteTo(ncl)
      BY <2>1, <1>3, Numbers DEF WriteCreated, INSANITY
    <2>4. Reaches(v, me.file, me.objsize)
      <3>1. Reaches(w, me.file, me.objsize)
        BY <1>1 DEF Kept, Mine, WriteMine
      <3> QED BY <2>2, <3>1, HoldsReaches
    <2> QED BY <1>1, <2>2, <2>3, <2>4, WriteToKeeps
  <1> QED BY <1>2, <1>3, Numbers DEF WriteCreated, NOSPACE, INSANITY
-----------------------------------------------------------------------------
\* f_lseek.

\* What an f_lseek that runs keeps true of its file object g.
Sought(w, g) ==
  /\ Reaches(w, g.file, g.objsize)
  /\ w.head[g.file] = g.sclust
  /\ g.modified \/ Current(w, g) \/ (g.objsize = 0 /\ g.sclust # 0)

\* It goes on along the chain ...
LEMMA SeekGoesOn ==
  ASSUME Fits, Fits', NEW w, Kept(w), NEW v, v.fat = View', Sorted(v), v.head[Nobody] = 0,
         NEW p \in opened, cur \in {0, p}, opened' = opened, fs_type' = fs_type,
         cur' = p, call'.op = "seek", pc' = "seek", NEW g, fil' = [fil EXCEPT ![p] = g],
         g.file = fil[p].file, g.fs <=> fil[p].fs, g.err <=> fil[p].err,
         Keeps(Files \ {fil[p].file}, w, v),
         Sought(v, g), g.fptr % bcs = 0, At(v, g.file, g.clust, g.fptr \div bcs)
  PROVE  Linked'
  <1>1. p \in Fils /\ fil \in [Fils -> FIL]
    BY DEF Fits, FilesFit
  <1>2. me' = g
    BY <1>1 DEF me
  <1>3. SeekMine(v)'
    BY <1>2 DEF SeekMine, Sought, Creates
  <1>4. Mine(v)'
    BY <1>3 DEF Mine, CreateMine, ReadMine, WriteMine, TruncateMine, OpenMine, SyncMine, Creates
  <1>5. Loose' = 0 /\ (pc' = "free" => clst' # 0)
    BY DEF Loose
  <1>6. g \in FIL
    BY <1>1, NewObject
  <1> QED BY <1>4, <1>5, <1>6, GoesOnWith

\* ... or has it stretched.
LEMMA SeekCreates ==
  ASSUME Fits, Fits', NEW w, Kept(w), w.fat = View', Sorted(w), w.head[Nobody] = 0,
         NEW p \in opened, cur \in {0, p}, opened' = opened, fs_type' = fs_type,
         cur' = p, call'.op = "seek", pc' = "create", NEW g, fil' = [fil EXCEPT ![p] = g],
         g.file = fil[p].file, g.fs <=> fil[p].fs, g.err <=> fil[p].err,
         Sought(w, g), g.fptr % bcs = 0, Cursor(w, g), g.write,
         g.fptr \in Nat,
         IF g.fptr = 0 THEN clst' = 0 /\ g.sclust = 0 ELSE clst' = g.clust
  PROVE  Linked'
  <1>1. p \in Fils /\ fil \in [Fils -> FIL]
    BY DEF Fits, FilesFit
  <1>2. me' = g
    BY <1>1 DEF me
  <1>3. SeekMine(w)'
    BY <1>2 DEF SeekMine, Sought
  <1>4. CreateMine(w)'
    BY <1>2 DEF CreateMine, Stretched, MarkMine, LinkMine, EndMine, CreatedMine
  <1>5. Mine(w)'
    BY <1>3, <1>4 DEF Mine, ReadMine, WriteMine, TruncateMine, OpenMine, SyncMine
  <1>6. Loose' = 0 /\ (pc' = "free" => clst' # 0)
    BY DEF Loose
  <1>7. g \in FIL /\ Keeps(Files \ {fil[p].file}, w, w)
    BY <1>1, NewObject DEF Keeps, Holds
  <1> QED BY <1>5, <1>6, <1>7, GoesOnWith

LEMMA SeekKeeps ==
  ASSUME Fits, Fits', NEW p \in opened, NEW target \in Nat, Seek(p, target), NEW w, Kept(w)
  PROVE  Linked'
  <1> DEFINE f == fil[p]
             ofs == IF target > f.objsize /\ ~f.write THEN f.objsize ELSE target
             ahead == f.fptr > 0 /\ Ahead(ofs, f.fptr)
             base == ((f.fptr - 1) \div bcs) * bcs
  <1>1. View' = View /\ pc = "idle" /\ opened' = opened /\ fs_type' = fs_type
    BY SeekFits DEF Seek, disk
  <1>2. /\ cur \in {0, p} /\ p \in Fils /\ f \in FIL /\ f.file \in Files
        /\ Whole(w, f) /\ w.fat = View /\ Sorted(w) /\ w.head[Nobody] = 0
        /\ f.fptr \in Nat /\ f.objsize \in Nat /\ f.sclust \in {0} \cup Clusters /\ fs_type # 0
        /\ f.fs /\ ~f.err /\ Keeps(Files \ {f.file}, w, w)
    BY <1>1, Begins
  <1>3. fil \in [Fils -> FIL] /\ bcs \in Nat \ {0}
    BY VolumeAssumption DEF Fits, FilesFit
  <1>4. ofs \in Nat /\ (f.write \/ ofs <= f.objsize)
    BY <1>2
  <1> HIDE DEF f, ofs
  <1>5. /\ Cursor(w, f) /\ Reaches(w, f.file, f.objsize) /\ w.head[f.file] = f.sclust
        /\ f.modified \/ Current(w, f)
    BY <1>2 DEF Whole
  <1>6. CASE /\ fil' = [fil EXCEPT ![p].fptr = 0] /\ UNCHANGED <<chain, call>>
    <2> DEFINE g == [f EXCEPT !.fptr = 0]
    <2>1. fil' = [fil EXCEPT ![p] = g]
      BY <1>2, <1>3, <1>6 DEF f
    <2>2. /\ g.fptr = 0 /\ g.file = f.file /\ g.objsize = f.objsize /\ g.sclust = f.sclust
          /\ (g.modified <=> f.modified) /\ (g.fs <=> f.fs) /\ (g.err <=> f.err)
      BY <1>2 DEF FIL
    <2> HIDE DEF g
    <2>3. Whole(w, g)
      BY <1>2, <1>5, <2>2 DEF Whole, Cursor, Current, Entry
    <2>4. fil' \in [Fils -> FIL] /\ fil'[p] = g /\ \A q \in opened \ {p} : fil'[q] = fil[q]
      BY <1>2, <1>3, <2>1 DEF Fits, FilesFit
    <2>5. OpenFine' /\ Others(w)'
      <3>1. OpenFine /\ Others(w)
        BY DEF Kept
      <3>2. fil'[p].file = fil[p].file /\ fil'[p].fs /\ ~fil'[p].err /\ Whole(w, fil'[p])
            /\ Keeps(Files \ {fil[p].file}, w, w)
        BY <1>2, <2>2, <2>3, <2>4 DEF f
      <3> QED BY <1>1, <1>2, <2>4, <3>1, <3>2, OthersKept
    <2>6. pc' = "idle" /\ call'.op = "none"
      BY <1>1, <1>6, AtIdle DEF chain
    <2>7. Loose' = 0 /\ (pc' = "free" => clst' # 0) /\ Mine(w)'
      BY <2>6, IdleMine
    <2>8. Kept(w)'
      BY <1>1, <1>2, <2>5, <2>7 DEF Kept
    <2> QED BY <2>8 DEF Linked
  <1>7. CASE /\ ofs > 0 /\ ahead
             /\ fil' = [fil EXCEPT ![p].fptr = base]
             /\ Enter("seek", p, ofs - base, "seek")
    <2> DEFINE g == [f EXCEPT !.fptr = base]
               k == (f.fptr - 1) \div bcs
    <2>1. fil' = [fil EXCEPT ![p] = g]
      BY <1>2, <1>3, <1>7 DEF f
    <2>2. /\ g.fptr = base /\ g.file = f.file /\ g.objsize = f.objsize /\ g.sclust = f.sclust
          /\ (g.modified <=> f.modified) /\ (g.fs <=> f.fs) /\ (g.err <=> f.err) /\ g.clust = f.clust
      BY <1>2 DEF FIL
    <2>3. f.fptr > 0 /\ f.fptr - 1 \in Nat
      BY <1>2, <1>7
    <2>4. k \in Nat
      BY <1>3, <2>3, Division
    <2>5. base % bcs = 0 /\ base \div bcs = k
      BY <1>3, <2>4, Multiple
    <2>6. At(w, f.file, f.clust, k)
      BY <1>5, <2>3 DEF Cursor
    <2> HIDE DEF g, k, base
    <2>7. Sought(w, g) /\ g.fptr % bcs = 0 /\ At(w, g.file, g.clust, g.fptr \div bcs)
      BY <1>5, <2>2, <2>5, <2>6 DEF Sought, Current, Entry
    <2>8. cur' = p /\ call'.op = "seek" /\ pc' = "seek"
      BY <1>7 DEF Enter, Idle, cur
    <2>9. g.file = fil[p].file /\ (g.fs <=> fil[p].fs) /\ (g.err <=> fil[p].err)
          /\ Keeps(Files \ {fil[p].file}, w, w) /\ w.fat = View'
      BY <1>1, <1>2, <2>2 DEF f
    <2> QED BY <1>1, <1>2, <2>1, <2>7, <2>8, <2>9, SeekGoesOn
  <1>8. CASE /\ ofs > 0 /\ ~ahead /\ f.sclust # 0
             /\ fil' = [fil EXCEPT ![p].fptr = 0, ![p].clust = f.sclust]
             /\ Enter("seek", p, ofs, "seek")
    <2> DEFINE g == [f EXCEPT !.fptr = 0, !.clust = f.sclust]
    <2>1. fil' = [fil EXCEPT ![p] = g]
      BY <1>2, <1>3, <1>8 DEF f
    <2>2. /\ g.fptr = 0 /\ g.file = f.file /\ g.objsize = f.objsize /\ g.sclust = f.sclust
          /\ (g.modified <=> f.modified) /\ (g.fs <=> f.fs) /\ (g.err <=> f.err) /\ g.clust = f.sclust
      BY <1>2 DEF FIL
    <2> HIDE DEF g
    <2>3. At(w, f.file, f.sclust, 0) /\ 0 \div bcs = 0 /\ 0 % bcs = 0
      BY <1>2, <1>3, <1>5, <1>8, AtFirst
    <2>7. Sought(w, g) /\ g.fptr % bcs = 0 /\ At(w, g.file, g.clust, g.fptr \div bcs)
      BY <1>5, <2>2, <2>3 DEF Sought, Current, Entry
    <2>8. cur' = p /\ call'.op = "seek" /\ pc' = "seek"
      BY <1>8 DEF Enter, Idle, cur
    <2>9. g.file = fil[p].file /\ (g.fs <=> fil[p].fs) /\ (g.err <=> fil[p].err)
          /\ Keeps(Files \ {fil[p].file}, w, w) /\ w.fat = View'
      BY <1>1, <1>2, <2>2 DEF f
    <2> QED BY <1>1, <1>2, <2>1, <2>7, <2>8, <2>9, SeekGoesOn
  <1>9. CASE /\ ofs > 0 /\ ~ahead /\ f.sclust = 0
             /\ fil' = [fil EXCEPT ![p].fptr = 0]
             /\ Enter("seek", p, ofs, "create")
             /\ clst' = 0
    <2> DEFINE g == [f EXCEPT !.fptr = 0]
    <2>1. fil' = [fil EXCEPT ![p] = g]
      BY <1>2, <1>3, <1>9 DEF f
    <2>2. /\ g.fptr = 0 /\ g.file = f.file /\ g.objsize = f.objsize /\ g.sclust = f.sclust
          /\ (g.modified <=> f.modified) /\ (g.fs <=> f.fs) /\ (g.err <=> f.err)
          /\ (g.write <=> f.write)
      BY <1>2 DEF FIL
    <2> HIDE DEF g
    <2>3. f.write
      <3>1. f.objsize > 0 => FALSE
        BY <1>2, <1>5, <1>9, Numbers, FirstCluster
      <3> QED BY <1>2, <1>4, <1>9, <3>1
    <2>4. 0 % bcs = 0
      BY <1>3
    <2>5. Sought(w, g) /\ g.fptr % bcs = 0 /\ Cursor(w, g) /\ g.write /\ g.fptr \in Nat
          /\ IF g.fptr = 0 THEN clst' = 0 /\ g.sclust = 0 ELSE clst' = g.clust
      BY <1>5, <1>9, <2>2, <2>3, <2>4 DEF Sought, Current, Entry, Cursor
    <2>8. cur' = p /\ call'.op = "seek" /\ pc' = "create"
      BY <1>9 DEF Enter, Idle, cur
    <2>9. g.file = fil[p].file /\ (g.fs <=> fil[p].fs) /\ (g.err <=> fil[p].err) /\ w.fat = View'
      BY <1>1, <1>2, <2>2 DEF f
    <2> QED BY <1>1, <1>2, <2>1, <2>5, <2>8, <2>9, SeekCreates
  <1> HIDE DEF ahead, base
  <1> QED BY <1>6, <1>7, <1>8, <1>9 DEF Seek, f, ofs, ahead, base
LEMMA SeekNextKeeps ==
  ASSUME Fits, Fits', SeekNext, NEW w, Kept(w)
  PROVE  Linked'
  <1>1. pc = "seek" /\ call.op = "seek" /\ View' = View /\ opened' = opened /\ fs_type' = fs_type
    BY SeekNextFits DEF SeekNext, Fits, CallFits, Runs, Creates, Removes, Syncs
  <1>2. /\ cur \in opened /\ cur \in Fils /\ me \in FIL /\ me.file \in Files /\ me = fil[cur]
        /\ me.fptr \in Nat /\ me.objsize \in Nat /\ call.ofs \in Nat /\ bcs \in Nat \ {0}
        /\ me.clust \in {0} \cup Clusters
    BY <1>1, CurFile
  <1>3. w.fat = View /\ Sorted(w) /\ w.head[Nobody] = 0 /\ SeekMine(w)
        /\ Keeps(Files \ {me.file}, w, w)
    BY <1>1 DEF Kept, Mine, Loose, Keeps, Holds
  <1>4. /\ Sought(w, me) /\ me.fptr % bcs = 0
        /\ At(w, me.file, me.clust, me.fptr \div bcs)
        /\ Reaches(w, me.file, me.objsize) /\ w.head[me.file] = me.sclust
        /\ me.modified \/ Current(w, me) \/ (me.objsize = 0 /\ me.sclust # 0)
    BY <1>1, <1>3 DEF SeekMine, Sought
  <1>5. call.ofs > 0 /\ (me.write \/ me.fptr + call.ofs <= me.objsize)
    BY <1>1 DEF Fits, FilesFit
  <1>6. CASE call.ofs <= bcs
    <2> DEFINE a == [me EXCEPT !.fptr = me.fptr + call.ofs]
               g == Grown(a)
    <2>1. fil' = [fil EXCEPT ![cur] = g] /\ Return("OK")
      BY <1>2, <1>6 DEF SeekNext, Become
    <2>2. me.fptr + call.ofs \in Nat /\ me.fptr + call.ofs > 0
      BY <1>2, <1>5
    <2>3. /\ a \in FIL /\ a.fptr = me.fptr + call.ofs /\ a.file = me.file /\ a.objsize = me.objsize
          /\ a.sclust = me.sclust /\ a.clust = me.clust
          /\ (a.modified <=> me.modified) /\ (a.fs <=> me.fs) /\ (a.err <=> me.err)
      BY <1>2, <2>2 DEF FIL
    <2> HIDE DEF a
    <2>4. /\ g \in FIL /\ g.fptr = me.fptr + call.ofs /\ g.file = me.file
          /\ g.objsize = IF me.fptr + call.ofs > me.objsize THEN me.fptr + call.ofs ELSE me.objsize
          /\ g.fptr <= g.objsize
          /\ g.sclust = me.sclust /\ g.clust = me.clust
          /\ (g.modified <=> (me.modified \/ me.fptr + call.ofs > me.objsize))
          /\ (g.fs <=> me.fs) /\ (g.err <=> me.err)
      BY <2>3, GrownFits
    <2> HIDE DEF g
    <2>5. Cursor(w, g)
      <3>1. call.ofs <= bcs - (me.fptr % bcs)
        BY <1>2, <1>4, <1>6
      <3> QED BY <1>2, <1>4, <1>5, <2>4, <3>1, CursorMoved
    <2>6. Reaches(w, g.file, g.objsize)
      <3>1. Reaches(w, g.file, g.fptr)
        BY <1>3, <2>2, <2>4, <2>5, CursorReaches
      <3> QED BY <1>4, <2>4, <3>1
    <2>7. g.modified \/ Current(w, g)
      <3>1. CASE me.fptr + call.ofs > me.objsize
        BY <2>4, <3>1
      <3>2. CASE ~(me.fptr + call.ofs > me.objsize)
        <4>1. me.objsize # 0 /\ g.objsize = me.objsize
          BY <1>2, <2>2, <2>4, <3>2
        <4> QED BY <1>4, <2>4, <4>1 DEF Current, Entry
      <3> QED BY <3>1, <3>2
    <2>8. Whole(w, g)
      BY <1>4, <2>4, <2>5, <2>6, <2>7 DEF Whole
    <2> QED BY <1>1, <1>2, <1>3, <2>1, <2>4, <2>8, Ended
  <1> DEFINE f == [me EXCEPT !.fptr = me.fptr + bcs]
  <1>7. /\ f.fptr = me.fptr + bcs /\ f.file = me.file /\ f.objsize = me.objsize
        /\ f.sclust = me.sclust /\ f.clust = me.clust /\ (f.write <=> me.write)
        /\ (f.modified <=> me.modified) /\ (f.fs <=> me.fs) /\ (f.err <=> me.err)
        /\ f \in FIL
    <2>1. me.fptr + bcs \in Nat
      BY <1>2
    <2> QED BY <1>2, <2>1 DEF FIL
  <1>8. f.fptr \in Nat /\ f.fptr > 0 /\ f.fptr % bcs = 0 /\ f.fptr \div bcs = me.fptr \div bcs + 1
        /\ (f.fptr - 1) \div bcs = me.fptr \div bcs
    <2>1. f.fptr \in Nat /\ f.fptr > 0
      BY <1>2, <1>7
    <2>2. f.fptr % bcs = 0 /\ f.fptr \div bcs = me.fptr \div bcs + 1
      BY <1>2, <1>4, <1>7, NextOne
    <2>3. (f.fptr - 1) \div bcs = f.fptr \div bcs - 1
      BY <1>2, <2>1, <2>2, NextOne
    <2>4. me.fptr \div bcs \in Nat
      BY <1>2, Division
    <2> QED BY <2>1, <2>2, <2>3, <2>4
  <1>9. CASE call.ofs > bcs /\ me.write
    <2>1. /\ fil' = [fil EXCEPT ![cur] = f] /\ call' = [call EXCEPT !.ofs = call.ofs - bcs]
          /\ clst' = me.clust /\ pc' = "create"
      BY <1>2, <1>9 DEF SeekNext, Become
    <2> HIDE DEF f
    <2>2. cur' = cur /\ call'.op = "seek"
      BY <1>1, <2>1 DEF cur, Fits, CallFits, Frame
    <2>3. Cursor(w, f) /\ Sought(w, f)
      BY <1>4, <1>7, <1>8 DEF Cursor, Sought, Current, Entry
    <2>4. IF f.fptr = 0 THEN clst' = 0 /\ f.sclust = 0 ELSE clst' = f.clust
      BY <1>7, <1>8, <2>1
    <2> QED BY <1>1, <1>2, <1>3, <1>7, <1>8, <1>9, <2>1, <2>2, <2>3, <2>4, SeekCreates
  <1>10. CASE call.ofs > bcs /\ ~me.write
    <2> DEFINE c == get_fat(me.clust)
    <2>1. me.objsize > 0 /\ (me.objsize - 1) \div bcs > me.fptr \div bcs /\ me.fptr \div bcs \in Nat
      <3>1. me.fptr + bcs <= me.objsize - 1 /\ me.objsize - 1 \in Nat /\ me.fptr + bcs \in Nat
        BY <1>2, <1>5, <1>10
      <3>2. (me.fptr + bcs) \div bcs <= (me.objsize - 1) \div bcs
        BY <1>2, <3>1, Monotone
      <3>3. (me.objsize - 1) \div bcs \in Nat /\ me.fptr \div bcs \in Nat
        BY <1>2, <3>1, Division
      <3>4. me.objsize > 0
        BY <1>2, <3>1
      <3> HIDE DEF f
      <3> QED BY <1>7, <1>8, <3>2, <3>3, <3>4
    <2>2. At(w, me.file, c, me.fptr \div bcs + 1) /\ c \in Clusters
      BY <1>2, <1>3, <1>4, <2>1, NextCluster
    <2> DEFINE g == [f EXCEPT !.clust = c]
    <2>3. /\ fil' = [fil EXCEPT ![cur] = g] /\ call' = [call EXCEPT !.ofs = call.ofs - bcs]
          /\ UNCHANGED <<chain, res>>
      BY <1>2, <1>10, <2>2 DEF SeekNext, Become
    <2> HIDE DEF c, f
    <2>4. /\ g.fptr = f.fptr /\ g.file = f.file /\ g.objsize = f.objsize
          /\ g.sclust = f.sclust /\ g.clust = c
          /\ (g.modified <=> f.modified) /\ (g.fs <=> f.fs) /\ (g.err <=> f.err)
      BY <1>7 DEF FIL
    <2> HIDE DEF g
    <2>5. cur' = cur /\ call'.op = "seek" /\ pc' = "seek"
      BY <1>1, <2>3 DEF cur, Fits, CallFits, Frame, chain
    <2>6. Sought(w, g) /\ g.fptr % bcs = 0 /\ At(w, g.file, g.clust, g.fptr \div bcs)
      BY <1>4, <1>7, <1>8, <2>2, <2>4 DEF Sought, Current, Entry
    <2> QED BY <1>1, <1>2, <1>3, <1>7, <2>3, <2>4, <2>5, <2>6, SeekGoesOn
  <1> HIDE DEF f
  <1> QED BY <1>2, <1>6, <1>9, <1>10

LEMMA SeekCreatedKeeps ==
  ASSUME Fits, Fits', SeekCreated, NEW w, Kept(w)
  PROVE  Linked'
  <1>1. pc = "created" /\ call.op = "seek" /\ View' = View /\ opened' = opened /\ fs_type' = fs_type
        /\ cur \in {0, cur}
    BY SeekCreatedFits DEF SeekCreated, disk
  <1>2. /\ cur \in opened /\ cur \in Fils /\ me \in FIL /\ me.file \in Files /\ me = fil[cur]
        /\ me.fptr \in Nat /\ me.objsize \in Nat /\ bcs \in Nat \ {0}
        /\ me.sclust \in {0} \cup Clusters
    BY <1>1, CurFile
  <1>3. w.fat = View /\ Sorted(w) /\ w.head[Nobody] = Loose /\ SeekMine(w)
        /\ Keeps(Files \ {me.file}, w, w)
    BY <1>1 DEF Kept, Mine, Keeps, Holds
  <1>4. /\ me.fptr % bcs = 0 /\ Cursor(w, me)
        /\ Reaches(w, me.file, me.objsize) /\ w.head[me.file] = me.sclust
        /\ me.modified \/ Current(w, me) \/ (me.objsize = 0 /\ me.sclust # 0)
    BY <1>1, <1>3 DEF SeekMine, Creates
  <1>5. CASE ncl = NOSPACE
    <2> DEFINE g == Grown(me)
    <2>1. fil' = [fil EXCEPT ![cur] = g] /\ Return("OK")
      BY <1>1, <1>5, Numbers DEF SeekCreated, Become, NOSPACE, INSANITY
    <2>2. Loose = 0
      BY <1>1, <1>5, Numbers DEF Loose, NOSPACE
    <2>4. /\ g \in FIL /\ g.fptr = me.fptr /\ g.file = me.file
          /\ g.objsize = IF me.fptr > me.objsize THEN me.fptr ELSE me.objsize
          /\ g.fptr <= g.objsize
          /\ g.sclust = me.sclust /\ g.clust = me.clust
          /\ (g.modified <=> (me.modified \/ me.fptr > me.objsize))
          /\ (g.fs <=> me.fs) /\ (g.err <=> me.err)
      BY <1>2, GrownFits
    <2> HIDE DEF g
    <2>5. Cursor(w, g)
      BY <1>4, <2>4 DEF Cursor
    <2>6. Reaches(w, g.file, g.objsize)
      <3>1. Reaches(w, g.file, g.fptr)
        BY <1>2, <1>3, <2>4, <2>5, CursorReaches
      <3> QED BY <1>4, <2>4, <3>1
    <2>7. g.modified \/ Current(w, g)
      <3>1. CASE me.fptr > me.objsize
        BY <2>4, <3>1
      <3>2. CASE ~(me.fptr > me.objsize)
        <4>1. me.fptr = 0 => me.sclust = 0
          BY <1>1 DEF Kept, Mine, CreateMine, Stretched, Creates
        <4>2. ~(me.objsize = 0 /\ me.sclust # 0)
          BY <1>2, <3>2, <4>1
        <4>3. g.objsize = me.objsize
          BY <2>4, <3>2
        <4> QED BY <1>4, <2>4, <4>2, <4>3 DEF Current, Entry
      <3> QED BY <3>1, <3>2
    <2>8. Whole(w, g)
      BY <1>4, <2>4, <2>5, <2>6, <2>7 DEF Whole
    <2> QED BY <1>1, <1>2, <1>3, <2>1, <2>2, <2>4, <2>8, Ended
  <1>6. CASE ncl # NOSPACE
    <2>1. ncl \in Clusters
      BY <1>1, <1>6, Adopts
    <2>2. PICK v : /\ v.fat = View /\ Sorted(v) /\ v.head[Nobody] = 0
                   /\ Keeps(Files \ {me.file}, w, v) /\ Holds(me.file, w, v)
                   /\ v.fat[me.file] = w.fat[me.file]
                   /\ At(v, me.file, ncl, me.fptr \div bcs)
                   /\ v.head[me.file] = IF me.sclust = 0 THEN ncl ELSE me.sclust
      BY <1>1, <1>6, Adopts
    <2> DEFINE s == IF me.sclust = 0 THEN ncl ELSE me.sclust
               g == [me EXCEPT !.clust = ncl, !.sclust = s]
    <2>3. fil' = [fil EXCEPT ![cur] = g] /\ pc' = "seek" /\ call' = call
      BY <2>1, <1>6, Numbers DEF SeekCreated, INSANITY, Become
    <2>4. s # 0 /\ (me.sclust # 0 => s = me.sclust)
      BY <2>1, Numbers
    <2> HIDE DEF s
    <2>5. /\ g.fptr = me.fptr /\ g.file = me.file /\ g.objsize = me.objsize
          /\ g.sclust = s /\ g.clust = ncl
          /\ (g.modified <=> me.modified) /\ (g.fs <=> me.fs) /\ (g.err <=> me.err)
      BY <1>2 DEF FIL
    <2> HIDE DEF g
    <2>6. cur' = cur /\ call'.op = "seek"
      BY <1>1, <2>3 DEF cur
    <2>7. Reaches(v, me.file, me.objsize)
      BY <1>4, <2>2, HoldsReaches
    <2>8. g.modified \/ Current(v, g) \/ (g.objsize = 0 /\ g.sclust # 0)
      <3>1. CASE me.sclust = 0
        <4>1. me.objsize = 0
          <5>1. me.objsize > 0 => FALSE
            BY <1>2, <1>3, <1>4, <3>1, Numbers, FirstCluster
          <5> QED BY <1>2, <5>1
        <4> QED BY <2>4, <2>5, <4>1
      <3>2. CASE me.sclust # 0
        BY <1>4, <2>2, <2>4, <2>5, <3>2 DEF Current, Entry
      <3> QED BY <3>1, <3>2
    <2>9. Sought(v, g) /\ g.fptr % bcs = 0 /\ At(v, g.file, g.clust, g.fptr \div bcs)
      BY <1>4, <2>2, <2>5, <2>7, <2>8 DEF Sought, s
    <2> QED BY <1>1, <1>2, <2>2, <2>3, <2>5, <2>6, <2>9, SeekGoesOn
  <1> QED BY <1>5, <1>6
\* A call changes an open file and returns at once.
LEMMA ChangedFile ==
  ASSUME Fits, NEW w, Kept(w), View' = View, pc = "idle", UNCHANGED <<pc, call, opened, fs_type>>,
         NEW p \in opened, NEW g \in FIL, fil' = [fil EXCEPT ![p] = g],
         g.file = fil[p].file, g.fs <=> fil[p].fs, g.err <=> fil[p].err, Whole(w, g)
  PROVE  Linked'
  <1>1. /\ cur \in {0, p} /\ p \in Fils /\ fil[p].fs /\ ~fil[p].err /\ w.fat = View
        /\ Sorted(w) /\ w.head[Nobody] = 0 /\ Keeps(Files \ {fil[p].file}, w, w)
    BY Begins
  <1>2. fil' \in [Fils -> FIL] /\ fil'[p] = g /\ \A q \in opened \ {p} : fil'[q] = fil[q]
    BY <1>1 DEF Fits, FilesFit
  <1>3. OpenFine /\ Others(w)
    BY DEF Kept
  <1>4. fil'[p].file = fil[p].file /\ fil'[p].fs /\ ~fil'[p].err /\ Whole(w, fil'[p])
    BY <1>1, <1>2
  <1>5. OpenFine' /\ Others(w)'
    BY <1>1, <1>2, <1>3, <1>4, OthersKept
  <1>6. pc' = "idle" /\ call'.op = "none"
    BY AtIdle
  <1>7. Loose' = 0 /\ (pc' = "free" => clst' # 0) /\ Mine(w)'
    BY <1>6, IdleMine
  <1>8. Kept(w)'
    BY <1>1, <1>5, <1>7 DEF Kept
  <1> QED BY <1>8 DEF Linked

LEMMA TruncateKeeps ==
  ASSUME Fits, Fits', NEW p \in opened, Truncate(p), NEW w, Kept(w)
  PROVE  Linked'
  <1> DEFINE f == fil[p]
             c == get_fat(f.clust)
  <1>1. View' = View /\ pc = "idle" /\ opened' = opened /\ fs_type' = fs_type
    BY TruncateFits DEF Truncate
  <1>2. /\ cur \in {0, p} /\ p \in Fils /\ f \in FIL /\ f.file \in Files
        /\ Whole(w, f) /\ w.fat = View /\ Sorted(w) /\ w.head[Nobody] = 0
        /\ f.fptr \in Nat /\ f.objsize \in Nat /\ f.sclust \in {0} \cup Clusters /\ fs_type # 0
        /\ Keeps(Files \ {f.file}, w, w)
    BY <1>1, Begins
  <1>3. Cursor(w, f) /\ Reaches(w, f.file, f.objsize) /\ w.head[f.file] = f.sclust
    BY <1>2 DEF Whole
  <1>4. fil = [fil EXCEPT ![p] = f]
    BY DEF Fits, FilesFit
  <1>5. CASE UNCHANGED <<window, chain, fil, call>>
    BY <1>1, <1>2, <1>5, AtOnce DEF chain
  <1>6. CASE /\ f.fptr = 0 /\ f.objsize > 0 /\ Enter("truncate", p, 0, "free")
             /\ clst' = f.sclust /\ UNCHANGED fil
    <2>1. pc' = "free" /\ cur' = p /\ call'.op = "truncate" /\ me' = f
      BY <1>6 DEF Enter, Idle, cur, me
    <2>2. f.sclust \in Clusters /\ f.sclust # 0
      BY <1>2, <1>3, <1>6, FirstCluster, Numbers
    <2>6. PICK h, m : h = f.file /\ m = View'
      OBVIOUS
    <2>7. h \in Files /\ Sorted(w) /\ w.head[Nobody] = 0 /\ w.head[h] = f.sclust /\ w.head[h] # 0
      BY <1>2, <1>3, <2>2, <2>6
    <2>8. Agrees({h}, w, m)
      BY <1>1, <1>2, <2>6 DEF Agrees
    <2>3. PICK v : /\ v.fat = m /\ Sorted(v) /\ v.head[Nobody] = w.head[h] /\ v.head[h] = 0
                   /\ Keeps(Files \ {h}, w, v)
      BY <2>7, <2>8, GhostGivenUp
    <2>4. Loose' = w.head[h] /\ clst' # 0
      BY <1>6, <2>1, <2>2, <2>7 DEF Loose
    <2>5. Mine(v)'
      BY <1>2, <1>6, <2>1, <2>3, <2>6 DEF Mine, CreateMine, ReadMine, WriteMine, SeekMine, TruncateMine, OpenMine,
            SyncMine, Creates, Cursor
    <2> QED BY <1>1, <1>2, <1>4, <1>6, <2>1, <2>3, <2>4, <2>5, <2>6, GoesOnWith
  <1>7. ASSUME 0 < f.fptr, f.fptr < f.objsize
        PROVE  f.clust \in Clusters /\ c = w.fat[f.clust] /\ c # FREE
    <2>1. f.clust \in Taken(w.fat)
      BY <1>2, <1>3, <1>7 DEF Cursor, At
    <2> QED BY <1>2, <2>1 DEF get_fat, EntryOf, Taken
  <1>8. CASE 0 < f.fptr /\ f.fptr < f.objsize /\ fil' = [fil EXCEPT ![p] = Cropped(f)]
             /\ UNCHANGED <<chain, call>>
    <2> DEFINE g == Cropped(f)
    <2>1. /\ g \in FIL /\ g.fptr = f.fptr /\ g.objsize = f.fptr /\ (g.fs <=> f.fs) /\ g.file = f.file
          /\ g.sclust = f.sclust /\ g.clust = f.clust /\ g.modified /\ (g.err <=> f.err)
          /\ g.fptr <= g.objsize
      BY <1>2, CroppedFits
    <2> HIDE DEF g
    <2>2. Cursor(w, g)
      BY <1>3, <2>1 DEF Cursor
    <2>3. Reaches(w, g.file, g.fptr)
      BY <1>2, <2>1, <2>2, CursorReaches
    <2>4. Whole(w, g)
      BY <1>3, <2>1, <2>2, <2>3 DEF Whole
    <2>5. fil' = [fil EXCEPT ![p] = g] /\ UNCHANGED <<pc, call, opened, fs_type>>
      BY <1>1, <1>8 DEF g, chain
    <2> QED BY <1>1, <2>1, <2>4, <2>5, ChangedFile
  <1>9. CASE /\ 0 < f.fptr /\ f.fptr < f.objsize /\ Enter("truncate", p, 0, "cut")
             /\ clst' = c /\ ncl' = f.clust /\ UNCHANGED fil
    <2>1. pc' = "cut" /\ cur' = p /\ call'.op = "truncate" /\ me' = f
      BY <1>9 DEF Enter, Idle, cur, me
    <2>2. Loose' = 0 /\ pc' # "free"
      BY <2>1 DEF Loose
    <2>3. ncl' = f.clust /\ w.fat[ncl'] = clst' /\ f.fptr < f.objsize /\ f.fptr > 0 /\ f.fptr # 0
      BY <1>2, <1>7, <1>9
    <2>4. Mine(w)'
      BY <1>3, <2>1, <2>3 DEF Mine, CreateMine, ReadMine, WriteMine, SeekMine, TruncateMine, OpenMine,
            SyncMine, Creates
    <2> QED BY <1>1, <1>2, <1>4, <1>9, <2>1, <2>2, <2>4, GoesOnWith
  <1> HIDE DEF c
  <1> QED BY <1>5, <1>6, <1>7, <1>8, <1>9 DEF Truncate, c

LEMMA TruncatedKeeps ==
  ASSUME Fits, Fits', Truncated, NEW w, Kept(w)
  PROVE  Linked'
  <1>1. pc = "removed" /\ call.op = "truncate" /\ View' = View /\ opened' = opened /\ fs_type' = fs_type
    BY TruncatedFits DEF Truncated, disk
  <1>2. /\ cur \in opened /\ cur \in Fils /\ me \in FIL /\ me.file \in Files /\ me = fil[cur]
        /\ me.fptr \in Nat /\ me.objsize \in Nat /\ me.sclust \in {0} \cup Clusters
    BY <1>1, CurFile
  <1>3. w.fat = View /\ Sorted(w) /\ w.head[Nobody] = 0 /\ Keeps(Files \ {me.file}, w, w)
    BY <1>1 DEF Kept, Loose, Keeps, Holds
  <1>4. Cursor(w, me) /\ w.head[me.file] = IF me.fptr = 0 THEN 0 ELSE me.sclust
    BY <1>1 DEF Kept, Mine, TruncateMine
  <1> DEFINE s == IF me.fptr = 0 THEN 0 ELSE me.sclust
             a == [me EXCEPT !.sclust = s]
             g == Cropped(a)
  <1>5. fil' = [fil EXCEPT ![cur] = g] /\ Return("OK")
    BY DEF Truncated, Become
  <1>6. s \in {0} \cup Clusters
    BY <1>2
  <1>7. w.head[me.file] = s
    BY <1>4
  <1> HIDE DEF s
  <1>8. /\ a \in FIL /\ a.fptr = me.fptr /\ a.file = me.file /\ a.sclust = s /\ a.clust = me.clust
        /\ (a.fs <=> me.fs) /\ (a.err <=> me.err)
    BY <1>2, <1>6 DEF FIL
  <1> HIDE DEF a
  <1>9. /\ g \in FIL /\ g.fptr = me.fptr /\ g.objsize = me.fptr /\ (g.fs <=> me.fs) /\ g.file = me.file
        /\ g.sclust = s /\ g.clust = me.clust /\ g.modified /\ (g.err <=> me.err)
        /\ g.fptr <= g.objsize
    BY <1>8, CroppedFits
  <1> HIDE DEF g
  <1>10. Cursor(w, g)
    BY <1>4, <1>9 DEF Cursor
  <1>11. Reaches(w, g.file, g.fptr)
    BY <1>2, <1>3, <1>9, <1>10, CursorReaches
  <1>12. Whole(w, g)
    BY <1>7, <1>9, <1>10, <1>11 DEF Whole
  <1> QED BY <1>1, <1>2, <1>3, <1>5, <1>9, <1>12, Ended
\* A call is over.
LEMMA Over ==
  ASSUME NEW v, v.fat = View', Sorted(v), v.head[Nobody] = 0, pc' = "idle", call'.op = "none",
         OpenFine', Others(v)'
  PROVE  Linked'
  <1>1. Loose' = 0 /\ (pc' = "free" => clst' # 0) /\ Mine(v)'
    BY IdleMine
  <1>2. Kept(v)'
    BY <1>1 DEF Kept
  <1> QED BY <1>2 DEF Linked

LEMMA SyncKeeps ==
  ASSUME Fits, NEW p \in opened, NEW op \in {"sync", "close"}, Sync(op, p), NEW w, Kept(w)
  PROVE  Linked'
  <1> DEFINE f == fil[p]
  <1>1. pc = "idle" /\ fs_type' = fs_type
    BY DEF Sync
  <1>2. /\ cur \in {0, p} /\ p \in Fils /\ f \in FIL /\ f.file \in Files /\ f.fs /\ ~f.err
        /\ Whole(w, f) /\ w.fat = View /\ Sorted(w) /\ w.head[Nobody] = 0 /\ fs_type # 0
        /\ Keeps(Files \ {f.file}, w, w)
    BY <1>1, Begins
  <1>3. OpenFine /\ Others(w)
    BY DEF Kept
  <1>4. fil = [fil EXCEPT ![p] = f] /\ fil \in [Fils -> FIL] /\ opened \subseteq Fils
    BY DEF Fits, FilesFit
  <1>5. CASE ~Valid(p) \/ ~f.modified
    <2>1. View' = View
      <3>1. UNCHANGED window
        BY <1>5 DEF Sync
      <3> QED BY <3>1 DEF window, View
    <2>2. /\ fil' = [fil EXCEPT ![p].fs = @ /\ op # "close"]
          /\ opened' = (IF op = "close" THEN opened \ {p} ELSE opened)
          /\ UNCHANGED <<pc, call>>
      BY <1>5 DEF Sync, chain
    <2>3. Current(w, f)
      BY <1>2, <1>5 DEF Valid, Whole
    <2>4. CASE op = "sync"
      <3> DEFINE g == [f EXCEPT !.fs = TRUE]
      <3>1. fil' = [fil EXCEPT ![p] = g]
        BY <1>2, <1>4, <2>2, <2>4
      <3>2. /\ g.fptr = f.fptr /\ g.objsize = f.objsize /\ (g.fs <=> f.fs) /\ g.file = f.file
            /\ g.sclust = f.sclust /\ g.clust = f.clust /\ (g.modified <=> f.modified) /\ (g.err <=> f.err)
            /\ g \in FIL
        BY <1>2 DEF FIL
      <3> HIDE DEF g
      <3>3. Whole(w, g)
        BY <1>2, <3>2 DEF Whole, Cursor, Current, Entry
      <3>4. UNCHANGED <<pc, call, opened, fs_type>>
        BY <1>1, <2>2, <2>4
      <3> QED BY <1>1, <2>1, <3>1, <3>2, <3>3, <3>4, ChangedFile
    <2>5. CASE op = "close"
      <3>1. opened' = opened \ {p} /\ \A q \in opened \ {p} : fil'[q] = fil[q]
        BY <1>4, <2>2, <2>5
      <3>2. Keeps(Files, w, w)
        BY SelfKeeps
      <3>3. OpenFine' /\ Others(w)'
        BY <1>1, <1>2, <1>3, <2>3, <3>1, <3>2, OthersClosed
      <3>4. pc' = "idle" /\ call'.op = "none"
        BY <1>1, <2>2, AtIdle
      <3> QED BY <1>2, <2>1, <3>3, <3>4, Over
    <2> QED BY <2>4, <2>5
  <1>6. CASE Valid(p) /\ f.modified
    <2>1. PICK h, e : h = f.file /\ e = Entry(f)
      OBVIOUS
    <2>2. /\ View' = [View EXCEPT ![h] = e]
          /\ fil' = fil /\ opened' = opened /\ pc' = "flush" /\ cur' = p /\ call'.op = op
      BY <1>6, <2>1, SyncFits DEF Entry
    <2>3. h \in Files /\ h \notin Clusters /\ h \in Items /\ DOMAIN View = Items
      BY <1>2, <2>1, Everywhere, ViewIs, Kinds
    <2>4. PICK m : m = View'
      OBVIOUS
    <2>5. m[h] = e /\ Agrees({h}, w, m)
      BY <1>2, <2>2, <2>3, <2>4, Kinds DEF Agrees
    <2>6. PICK v : /\ v.fat = m /\ Sorted(v) /\ v.head = w.head
                   /\ Keeps(Files \ {h}, w, v) /\ \A g \in Files : Holds(g, w, v)
      <3>1. Sorted(w) /\ Agrees({h}, w, m)
        BY <1>2, <2>5
      <3> QED BY <3>1, GhostEntry DEF Rewritten
    <2>7. Holds(h, w, v)
      BY <2>3, <2>6
    <2>8. Current(v, f)
      BY <2>1, <2>5, <2>6 DEF Current
    <2>9. Whole(v, f)
      <3>1. Cursor(w, f) /\ Reaches(w, h, f.objsize)
        BY <1>2, <2>1 DEF Whole
      <3>2. Cursor(v, f) /\ Reaches(v, h, f.objsize)
        BY <2>1, <2>7, <3>1, HoldsCursor, HoldsReaches
      <3> QED BY <1>2, <2>1, <2>6, <2>8, <3>2 DEF Whole
    <2>10. me' = f
      BY <2>2 DEF me
    <2>11. Mine(v)'
      BY <2>2, <2>8, <2>9, <2>10 DEF Mine, CreateMine, ReadMine, WriteMine, SeekMine, TruncateMine,
            OpenMine, SyncMine, Creates
    <2>12. Loose' = 0 /\ pc' # "free"
      BY <2>2 DEF Loose
    <2>13. fil' = [fil EXCEPT ![p] = f]
      BY <1>4, <2>2
    <2>14. /\ v.fat = View' /\ Sorted(v) /\ v.head[Nobody] = Loose'
           /\ opened' = opened /\ cur' = p /\ f \in FIL
           /\ Keeps(Files \ {fil[p].file}, w, v)
      BY <1>1, <1>2, <2>1, <2>2, <2>4, <2>6, <2>12
    <2>15. f.file = fil[p].file /\ (f.fs <=> fil[p].fs) /\ (f.err <=> fil[p].err)
      OBVIOUS
    <2>16. cur \in {0, p} /\ fs_type' = fs_type /\ Kept(w) /\ pc' # "free"
      BY <1>1, <1>2, <2>2, <2>12
    <2> HIDE DEF f
    <2> QED BY <2>11, <2>13, <2>14, <2>15, <2>16, GoesOnWith
  <1> QED BY <1>5, <1>6

LEMMA SunkKeeps ==
  ASSUME Fits, Fits', Sunk, NEW w, Kept(w)
  PROVE  Linked'
  <1>1. pc = "info" /\ fs_type' = fs_type /\ Return("DISK_ERR") /\ pc' = "idle" /\ call'.op = "none"
    BY DEF Sunk, Return, Idle
  <1>2. w.fat = View /\ Sorted(w) /\ w.head[Nobody] = 0 /\ OpenFine /\ Others(w)
    BY <1>1 DEF Kept, Loose
  <1>3. PICK m : m = View'
    OBVIOUS
  <1>4. Agrees({}, w, m)
    <2>1. \A x \in Clusters \cup Files : x \in Items \ {FSINFO}
      BY Kinds, Numbers
    <2> QED BY <1>2, <1>3, <2>1, SunkFits DEF Agrees
  <1>5. PICK v : /\ v.fat = m /\ Sorted(v) /\ v.head = w.head
                 /\ Keeps(Files \ {}, w, v) /\ \A g \in Files : Holds(g, w, v)
    BY <1>2, <1>4, GhostEntry DEF Rewritten
  <1>6. Keeps(Files, w, v)
    BY <1>5 DEF Keeps
  <1>7. CASE call.op = "unlink"
    <2>1. fil' = fil /\ opened' = opened /\ cur = 0 /\ cur \notin opened
      BY <1>7, VolumeAssumption DEF Sunk, Fits, CallFits, FilesFit
    <2>2. Untouched
      BY <1>1, <1>2, <2>1 DEF Untouched, OpenFine
    <2>3. Leaves(Files, v)
      BY DEF Leaves
    <2>4. OpenFine' /\ Others(v)'
      BY <1>2, <1>6, <2>2, <2>3, OthersSame
    <2> QED BY <1>1, <1>2, <1>3, <1>5, <2>4, Over
  <1>8. ASSUME call.op \in {"sync", "close"}
        PROVE  /\ cur \in opened /\ cur \in Fils /\ me \in FIL /\ me = fil[cur] /\ me.file \in Files
               /\ Whole(w, me) /\ Current(w, me)
               /\ fil' = [fil EXCEPT ![cur] = [me EXCEPT !.modified = FALSE]]
               /\ opened' = (IF call.op = "close" THEN opened \ {cur} ELSE opened)
    BY <1>8, CurFile DEF Sunk, Become, Kept, Mine, SyncMine
  <1>9. CASE call.op = "sync"
    <2> DEFINE g == [me EXCEPT !.modified = FALSE]
    <2>1. /\ g.fptr = me.fptr /\ g.objsize = me.objsize /\ (g.fs <=> me.fs) /\ g.file = me.file
          /\ g.sclust = me.sclust /\ g.clust = me.clust /\ (g.err <=> me.err) /\ g \in FIL
      BY <1>8, <1>9 DEF FIL
    <2>2. fil' = [fil EXCEPT ![cur] = g]
      BY <1>8, <1>9
    <2> HIDE DEF g
    <2>3. Whole(v, me) /\ Current(v, me)
      <3>1. Keeps({me.file}, w, v)
        BY <1>6, <1>8, <1>9 DEF Keeps
      <3>2. Whole(v, me)
        BY <1>8, <1>9, <3>1, KeepsWhole
      <3>3. v.fat[me.file] = w.fat[me.file]
        BY <3>1 DEF Keeps
      <3> QED BY <1>8, <1>9, <3>2, <3>3 DEF Current
    <2>4. Whole(v, g)
      BY <2>1, <2>3 DEF Whole, Cursor, Current, Entry
    <2>5. Keeps(Files \ {me.file}, w, v) /\ opened' = opened /\ cur \in opened
      BY <1>6, <1>8, <1>9 DEF Keeps
    <2> QED BY <1>1, <1>2, <1>3, <1>5, <2>1, <2>2, <2>4, <2>5, Ended
  <1>10. CASE call.op = "close"
    <2>1. opened' = opened \ {cur} /\ \A q \in opened \ {cur} : fil'[q] = fil[q]
      BY <1>8, <1>10 DEF Fits, FilesFit
    <2>2. cur \in opened /\ cur \in {0, cur} /\ Whole(w, fil[cur]) /\ Current(w, fil[cur])
      BY <1>8, <1>10
    <2>3. OpenFine' /\ Others(v)'
      BY <1>1, <1>2, <1>6, <2>1, <2>2, OthersClosed
    <2> QED BY <1>1, <1>2, <1>3, <1>5, <2>3, Over
  <1> QED BY <1>1, <1>7, <1>9, <1>10 DEF Fits, CallFits, Runs, Creates, Removes

LEMMA UnlinkKeeps ==
  ASSUME Fits, NEW f \in Files, NotOpen(f), Unlink(f), NEW w, Kept(w)
  PROVE  Linked'
  <1>1. pc = "idle" /\ fil' = fil /\ opened' = opened /\ fs_type' = 1
    BY Mounted DEF Unlink, Fits
  <1>2. cur = 0 /\ cur \notin opened
    BY <1>1, AtIdle, VolumeAssumption DEF Fits, FilesFit
  <1>3. w.fat = View /\ Sorted(w) /\ w.head[Nobody] = 0 /\ OpenFine /\ Others(w) /\ Shut(w, f)
    BY <1>1 DEF Kept, Loose, Others
  <1>4. CASE View' = View /\ UNCHANGED <<pc, call, clst, ncl>>
    BY <1>1, <1>4, AtOnce
  <1>5. CASE /\ View[f] # NOENTRY
             /\ View' = [View EXCEPT ![f] = NOENTRY]
             /\ pc' = (IF View[f].sclust = 0 THEN "flush" ELSE "free")
             /\ clst' = View[f].sclust /\ call'.op = "unlink" /\ cur' = 0
    <2>1. PICK m, s : m = View' /\ s = View[f].sclust
      OBVIOUS
    <2>2. s \in {0} \cup Clusters
      BY <1>5, <2>1, ViewEntry DEF Fits, DirEntry
    <2>3. f \notin Clusters /\ f \in Items /\ DOMAIN View = Items
      BY Everywhere, ViewIs, Kinds
    <2>4. m[f] = NOENTRY /\ Agrees({f}, w, m)
      BY <1>3, <1>5, <2>1, <2>3, Kinds DEF Agrees
    <2>5. w.head[f] = s
      BY <1>3, <2>1, <2>2 DEF Shut, First
    <2>6. \E v : /\ v.fat = m /\ Sorted(v) /\ v.head[Nobody] = s /\ v.head[f] = 0
                 /\ Keeps(Files \ {f}, w, v)
      <3>1. CASE s = 0
        <4>1. PICK v : /\ v.fat = m /\ Sorted(v) /\ v.head = w.head /\ Keeps(Files \ {f}, w, v)
          BY <1>3, <2>4, GhostEntry DEF Rewritten
        <4> QED BY <1>3, <2>5, <3>1, <4>1
      <3>2. CASE s # 0
        BY <1>3, <2>4, <2>5, <3>2, GhostGivenUp
      <3> QED BY <3>1, <3>2
    <2>7. PICK v : /\ v.fat = m /\ Sorted(v) /\ v.head[Nobody] = s /\ v.head[f] = 0
                   /\ Keeps(Files \ {f}, w, v)
      BY <2>6
    <2>8. Shut(v, f)
      <3>1. NOENTRY.sclust \notin Clusters /\ NOENTRY.size = 0
        BY Numbers DEF NOENTRY
      <3> QED BY <2>4, <2>7, <3>1 DEF Shut, First, Reaches
    <2>9. Untouched
      BY <1>1, <1>2 DEF Untouched
    <2>10. Leaves(Files \ {f}, v)
      BY <2>8 DEF Leaves
    <2>11. OpenFine' /\ Others(v)'
      BY <1>3, <2>7, <2>9, <2>10, OthersSame
    <2>12. Mine(v)'
      BY <1>5 DEF Mine, CreateMine, ReadMine, WriteMine, SeekMine, TruncateMine, OpenMine, SyncMine,
            Creates
    <2>13. v.head[Nobody] = Loose' /\ (pc' = "free" => clst' # 0)
      BY <1>5, <2>1, <2>7 DEF Loose
    <2>14. Kept(v)'
      BY <2>1, <2>7, <2>11, <2>12, <2>13 DEF Kept
    <2> QED BY <2>14 DEF Linked
  <1> QED BY <1>4, <1>5, UnlinkFits

LEMMA GetFreeKeeps ==
  ASSUME Fits, GetFree, NEW w, Kept(w)
  PROVE  Linked'
  <1>1. View' = View /\ pc = "idle" /\ UNCHANGED <<pc, call, opened, fil>>
    BY GetFreeFits DEF GetFree, chain
  <1>2. opened # {} => fs_type' # 0
    BY Mounted DEF GetFree, Fits
  <1> QED BY <1>1, <1>2, AtOnce
\* The chain of a file that is there is followed to the cluster of its last byte.
LEMMA EndReached ==
  ASSUME NEW w, Sorted(w), w.fat = View, NEW f \in Files, NEW s, w.head[f] = First(s),
         NEW n \in Nat, n > 0, Reaches(w, f, n)
  PROVE  At(w, f, Nth(s, (n - 1) \div bcs), (n - 1) \div bcs)
  <1> DEFINE k == (n - 1) \div bcs
  <1>1. k \in Nat
    <2>1. n - 1 \in Nat /\ bcs \in Nat \ {0}
      BY VolumeAssumption
    <2> QED BY <2>1, Division
  <1>2. PICK c \in Taken(w.fat) : w.own[c] = f /\ w.rank[c] >= k
    BY DEF Reaches
  <1> HIDE DEF k
  <1>3. w.rank[c] \in Nat
    BY <1>2 DEF Sorted, Chained, Places, Taken
  <1>4. k \in 0 .. w.rank[c]
    BY <1>1, <1>2, <1>3
  <1>5. Chained(w.fat, w.head, w.own, w.rank) /\ w.head[f] = IF s \in Clusters THEN s ELSE 0
    BY DEF Sorted, First
  <1>6. /\ Walk(w.fat, s)[k] \in Taken(w.fat)
        /\ w.own[Walk(w.fat, s)[k]] = f /\ w.rank[Walk(w.fat, s)[k]] = k
    BY <1>2, <1>4, <1>5, PlacesBefore
  <1>7. At(w, f, Nth(s, k), k)
    BY <1>6 DEF At, Nth
  <1> QED BY <1>7 DEF k

LEMMA OpenKeeps ==
  ASSUME Fits, NEW p \in Fils \ opened, NEW f \in Files, NEW flags, NotOpen(f),
         Open(p, f, flags), NEW w, Kept(w)
  PROVE  Linked'
  <1> DEFINE e == View[f]
             empty == [sclust |-> 0, size |-> 0]
             o == [Opened(p, f, flags, empty) EXCEPT !.modified = TRUE]
             n == IF "SEEKEND" \in flags /\ e.size > 0 THEN (e.size - 1) \div bcs ELSE 0
             last == Nth(e.sclust, n)
             walked == AlongChain(e.sclust, n)
  <1>1. pc = "idle" /\ fs_type' = 1 /\ fs_type' # 0
    BY Mounted DEF Open, Fits
  <1>2. /\ e \in DirEntry /\ fil \in [Fils -> FIL] /\ fil[p] \in FIL /\ opened \subseteq Fils
        /\ p \in Fils
    BY ViewEntry DEF Fits, FilesFit
  <1>3. cur = 0 /\ cur \notin opened /\ cur \in {0, p} /\ call = Idle
    BY <1>1, <1>2, AtIdle, VolumeAssumption
  <1>4. w.fat = View /\ Sorted(w) /\ w.head[Nobody] = 0 /\ OpenFine /\ Others(w) /\ Shut(w, f)
    BY <1>1 DEF Kept, Loose, Others
  <1>5. w.head[f] = First(e.sclust) /\ Reaches(w, f, e.size)
    BY <1>4 DEF Shut
  <1>6. empty.sclust = 0 /\ empty.size = 0
    OBVIOUS
  <1>7. empty.sclust \in {0} \cup Clusters /\ empty.size \in Nat
        /\ ~("SEEKEND" \in flags /\ empty.size > 0) /\ empty \in DirEntry
    BY <1>6 DEF DirEntry
  <1>8. o \in FIL /\ o.fptr = 0 /\ o.objsize = 0 /\ o.sclust = 0 /\ o.modified /\ o.fs /\ o.file = f /\ ~o.err
    <2> HIDE DEF empty, o, e
    <2>1. o = [Opened(p, f, flags, empty) EXCEPT !.modified = TRUE]
      BY DEF o
    <2>2. o.fptr = IF "SEEKEND" \in flags THEN empty.size ELSE 0
      BY <1>2, <1>7, <2>1, OpenedFits
    <2> QED BY <1>2, <1>6, <1>7, <2>1, <2>2, OpenedFits
  <1>9. f \notin Clusters /\ f \in Items /\ DOMAIN View = Items
    BY Everywhere, ViewIs, Kinds
  <1>10. ASSUME Put(f, empty)
         PROVE  View' = [View EXCEPT ![f] = empty]
    <2>1. ContentOf(f, empty)
      BY <1>7 DEF ContentOf
    <2> HIDE DEF empty
    <2> QED BY <1>9, <1>10, <2>1, Changes DEF Fits
  <1>11. CASE View' = View /\ fil' = [fil EXCEPT ![p].fs = FALSE] /\ UNCHANGED <<chain, call, opened>>
    <2>1. \A q \in opened : fil'[q] = fil[q]
      BY <1>2, <1>11
    <2>2. UNCHANGED <<pc, call, opened>>
      BY <1>11 DEF chain
    <2> QED BY <1>1, <1>11, <2>1, <2>2, AtOnce
  <1>12. CASE /\ Put(f, empty) /\ e.sclust \in Clusters
              /\ call' = [Idle EXCEPT !.op = "open", !.fp = p, !.cl = e.sclust, !.new = o]
              /\ pc' = "free" /\ clst' = e.sclust
              /\ UNCHANGED <<ncl, fil, opened, res>>
    <2>1. PICK m : m = View'
      OBVIOUS
    <2>2. m[f] = empty /\ Agrees({f}, w, m)
      BY <1>4, <1>9, <1>10, <1>12, <2>1, Kinds DEF Agrees
    <2> HIDE DEF o
    <2>3. w.head[f] # 0 /\ w.head[f] = e.sclust
      BY <1>5, <1>12, Numbers DEF First
    <2>4. PICK v : /\ v.fat = m /\ Sorted(v) /\ v.head[Nobody] = w.head[f] /\ v.head[f] = 0
                   /\ Keeps(Files \ {f}, w, v)
      BY <1>4, <2>2, <2>3, GhostGivenUp
    <2>5. Shut(v, f)
      BY <1>6, <2>2, <2>4, Numbers DEF Shut, First, Reaches
    <2>6. Untouched
      BY <1>1, <1>3, <1>12 DEF Untouched
    <2>7. Leaves(Files \ {f}, v)
      BY <2>5 DEF Leaves
    <2>8. OpenFine' /\ Others(v)'
      BY <1>4, <2>4, <2>6, <2>7, OthersSame
    <2>9. call'.op = "open" /\ cur' = p /\ call'.new = o /\ opened' = opened
      BY <1>12 DEF Idle, cur
    <2>10. NotOpen(f)'
      BY <1>12 DEF NotOpen
    <2>11. Mine(v)'
      BY <1>1, <1>8, <1>12, <2>4, <2>9, <2>10 DEF Mine, CreateMine, ReadMine, WriteMine, SeekMine,
            TruncateMine, OpenMine, SyncMine, Creates
    <2>12. v.head[Nobody] = Loose' /\ (pc' = "free" => clst' # 0)
      BY <1>12, <2>3, <2>4 DEF Loose
    <2>13. Kept(v)'
      BY <2>1, <2>4, <2>8, <2>11, <2>12 DEF Kept
    <2> QED BY <2>13 DEF Linked
  <1>13. CASE /\ Put(f, empty) /\ e.sclust \notin Clusters
              /\ fil' = [fil EXCEPT ![p] = o] /\ opened' = opened \cup {p} /\ res' = "OK"
              /\ UNCHANGED <<chain, call>>
    <2>1. PICK m : m = View'
      OBVIOUS
    <2>2. Agrees({f}, w, m)
      BY <1>4, <1>9, <1>10, <1>13, <2>1, Kinds DEF Agrees
    <2> HIDE DEF o
    <2>3. PICK v : /\ v.fat = m /\ Sorted(v) /\ v.head = w.head /\ Keeps(Files \ {f}, w, v)
      BY <1>4, <2>2, GhostEntry DEF Rewritten
    <2>4. v.head[f] = 0 /\ v.head[Nobody] = 0
      BY <1>4, <1>5, <1>13, <2>3 DEF First
    <2>5. Whole(v, o)
      BY <1>8, <2>4 DEF Whole, Cursor, Reaches
    <2>6. fil'[p] = o /\ \A q \in opened : fil'[q] = fil[q]
      BY <1>2, <1>13
    <2>7. OpenFine' /\ Others(v)'
      BY <1>1, <1>3, <1>4, <1>8, <1>13, <2>3, <2>5, <2>6, OthersOpened
    <2>8. pc' = "idle" /\ call'.op = "none"
      BY <1>1, <1>3, <1>13 DEF chain, Idle
    <2> QED BY <2>1, <2>3, <2>4, <2>7, <2>8, Over
  <1>14. CASE /\ e # NOENTRY /\ View' = View /\ (n = 0 \/ last \in Clusters)
              /\ fil' = [fil EXCEPT ![p] = Opened(p, f, flags, e)]
              /\ opened' = opened \cup {p}
              /\ UNCHANGED <<chain, call>>
    <2>1. /\ e.sclust \in {0} \cup Clusters /\ e.size \in Nat
          /\ Nth(e.sclust, n) \in {0} \cup Clusters
      <3> HIDE DEF e
      <3> QED BY <1>2, <1>14, OpenExisting
    <2>2. "SEEKEND" \in flags /\ e.size > 0 => Nth(e.sclust, (e.size - 1) \div bcs) \in {0} \cup Clusters
      BY <2>1
    <2> DEFINE g == Opened(p, f, flags, e)
    <2>3. /\ g \in FIL /\ g.fptr <= g.objsize /\ g.fs /\ g.file = f /\ ~g.err
          /\ g.sclust = e.sclust /\ g.objsize = e.size
          /\ g.fptr = IF "SEEKEND" \in flags THEN e.size ELSE 0
          /\ ("SEEKEND" \in flags /\ e.size > 0) => g.clust = Nth(e.sclust, (e.size - 1) \div bcs)
      <3> DEFINE u == [g EXCEPT !.modified = TRUE]
      <3>1. g = Opened(p, f, flags, e) /\ u = [g EXCEPT !.modified = TRUE]
        OBVIOUS
      <3> HIDE DEF g, u, n, e
      <3> QED BY <1>2, <2>1, <2>2, <3>1, OpenedFits
    <2>4. fil' = [fil EXCEPT ![p] = g]
      BY <1>14
    <2> HIDE DEF g
    <2>5. Cursor(w, g)
      <3>1. ASSUME g.fptr > 0 PROVE At(w, f, g.clust, (g.fptr - 1) \div bcs)
        <4>1. g.fptr = e.size /\ e.size > 0 /\ g.clust = Nth(e.sclust, (e.size - 1) \div bcs)
          BY <2>1, <2>3, <3>1
        <4> HIDE DEF e
        <4>2. At(w, f, Nth(e.sclust, (e.size - 1) \div bcs), (e.size - 1) \div bcs)
          BY <1>4, <1>5, <2>1, <4>1, EndReached
        <4> QED BY <4>1, <4>2
      <3> QED BY <2>3, <3>1 DEF Cursor
    <2>6. Current(w, g)
      <3>1. e = [sclust |-> e.sclust, size |-> e.size]
        BY <1>2 DEF DirEntry, NOENTRY
      <3> QED BY <1>4, <2>3, <3>1 DEF Current, Entry
    <2>7. w.head[f] = e.sclust
      BY <1>5, <2>1 DEF First
    <2>8. Whole(w, g)
      BY <1>5, <2>3, <2>5, <2>6, <2>7 DEF Whole
    <2>9. fil'[p] = g /\ \A q \in opened : fil'[q] = fil[q]
      BY <1>2, <2>4
    <2>10. Keeps(Files \ {f}, w, w)
      BY DEF Keeps, Holds
    <2>11. OpenFine' /\ Others(w)'
      BY <1>1, <1>3, <1>4, <1>14, <2>3, <2>8, <2>9, <2>10, OthersOpened
    <2>12. pc' = "idle" /\ call'.op = "none"
      BY <1>1, <1>3, <1>14 DEF chain, Idle
    <2> QED BY <1>4, <1>14, <2>11, <2>12, Over
  <1> DEFINE create == {"CREATE_NEW", "CREATE_ALWAYS", "OPEN_ALWAYS"} \cap flags # {}
             refused ==
               IF e = NOENTRY THEN IF create THEN {} ELSE {"NO_FILE"}
               ELSE IF f \in ReadOnly /\ (create \/ "WRITE" \in flags) THEN {"DENIED"}
               ELSE IF "CREATE_NEW" \in flags THEN {"EXIST"} ELSE {}
  <1>15. \/ /\ \E r \in refused :
                 /\ MoveWindow({DIRSECT}, DIRSECT)
                 /\ fil' = [fil EXCEPT ![p].fs = FALSE]
                 /\ res' = r
                 /\ UNCHANGED <<chain, opened, call>>
         \/ /\ Put(f, empty)
            /\ IF e.sclust \in Clusters
                 THEN /\ call' = [Idle EXCEPT !.op = "open", !.fp = p, !.cl = e.sclust, !.new = o]
                      /\ pc' = "free" /\ clst' = e.sclust
                      /\ UNCHANGED <<ncl, fil, opened, res>>
                 ELSE /\ fil' = [fil EXCEPT ![p] = o]
                      /\ opened' = opened \cup {p}
                      /\ res' = "OK"
                      /\ UNCHANGED <<chain, call>>
         \/ /\ e # NOENTRY /\ walked
            /\ IF n = 0 \/ last \in Clusters
                   THEN /\ fil' = [fil EXCEPT ![p] = Opened(p, f, flags, e)]
                        /\ opened' = opened \cup {p}
                        /\ res' = "OK"
                   ELSE /\ fil' = [fil EXCEPT ![p].fs = FALSE]
                        /\ res' = "INT_ERR"
                        /\ UNCHANGED opened
            /\ UNCHANGED <<chain, call>>
    BY DEF Open, AlongChain
  <1>16. MoveWindow({DIRSECT}, DIRSECT) => View' = View
    BY Moved, SectorNumbers DEF Fits
  <1>17. walked => View' = View
    BY AlongFits DEF Fits
  <1> HIDE DEF refused, walked, o, empty, e, n, last
  <1> QED BY <1>11, <1>12, <1>13, <1>14, <1>15, <1>16, <1>17

LEMMA OpenEmptiedKeeps ==
  ASSUME Fits, OpenEmptied, NEW w, Kept(w)
  PROVE  Linked'
  <1>1. /\ pc = "removed" /\ call.op = "open" /\ View' = View /\ fs_type' = fs_type
        /\ fil' = [fil EXCEPT ![cur] = call.new] /\ opened' = opened \cup {cur} /\ Return("OK")
    BY OpenEmptiedFits DEF OpenEmptied, Become
  <1>2. pc' = "idle" /\ call'.op = "none"
    BY <1>1 DEF Return, Idle
  <1>3. w.fat = View /\ Sorted(w) /\ w.head[Nobody] = 0 /\ OpenFine /\ Others(w)
    BY <1>1 DEF Kept, Loose
  <1> DEFINE g == call.new
             f == g.file
  <1>4. /\ cur \notin opened /\ fs_type # 0 /\ g.fs /\ ~g.err /\ g.modified
        /\ g.fptr = 0 /\ g.objsize = 0 /\ g.sclust = 0 /\ NotOpen(f) /\ w.head[f] = 0
    BY <1>1 DEF Kept, Mine, OpenMine
  <1>5. cur \in Fils /\ f \in Files /\ fil \in [Fils -> FIL] /\ opened \subseteq Fils
    BY <1>1 DEF Fits, CallFits, FilesFit
  <1>6. fil'[cur] = g /\ \A q \in opened : fil'[q] = fil[q]
    BY <1>1, <1>4, <1>5
  <1>7. Whole(w, g)
    BY <1>4 DEF Whole, Cursor, Reaches
  <1>8. Keeps(Files \ {f}, w, w)
    BY DEF Keeps, Holds
  <1> HIDE DEF g
  <1>9. OpenFine' /\ Others(w)'
    BY <1>1, <1>3, <1>4, <1>5, <1>6, <1>7, <1>8, OthersOpened
  <1> QED BY <1>1, <1>2, <1>3, <1>9, Over

LEMMA LongFile ==
  ASSUME NEW w, Sorted(w), NEW f \in Files, NEW n \in Nat,
         n <= bcs * Cardinality({d \in Taken(w.fat) : w.own[d] = f})
  PROVE  Reaches(w, f, n)
  <1> DEFINE k == Cardinality({d \in Taken(w.fat) : w.own[d] = f})
             q == (n - 1) \div bcs
  <1>1. k \in Nat
    <2>1. {d \in Taken(w.fat) : w.own[d] = f} \subseteq Clusters
      BY DEF Taken
    <2> QED BY <2>1, FiniteClusters, FS_Subset, FS_CardinalityType
  <1>2. bcs \in Nat \ {0}
    BY VolumeAssumption
  <1> HIDE DEF k
  <1>3. ASSUME n > 0 PROVE q \in Nat /\ q + 1 <= k
    <2>1. n - 1 \in Nat /\ n - 1 < bcs * k
      <3>1. n <= bcs * k
        BY DEF k
      <3> QED BY <1>1, <1>2, <1>3, <3>1
    <2>2. q < k
      BY <1>1, <1>2, <2>1, Fewer
    <2>3. q \in Nat
      BY <1>2, <2>1, Division
    <2> QED BY <1>1, <2>2, <2>3
  <1> HIDE DEF q
  <1>4. ASSUME n > 0 PROVE \E c \in Taken(w.fat) : w.own[c] = f /\ w.rank[c] >= q
    <2>1. q \in Nat /\ q + 1 <= k /\ q + 1 \in Nat /\ q + 1 > 0 /\ (q + 1) - 1 = q
      BY <1>3, <1>4
    <2>2. Chained(w.fat, w.head, w.own, w.rank)
      BY DEF Sorted
    <2> QED BY <2>1, <2>2, LongEnough DEF k
  <1> QED BY <1>4 DEF Reaches, q

\* What is on the card.
LEMMA CardEntry ==
  ASSUME WindowFits
  PROVE  /\ \A c \in Clusters : card[c] \in {FREE, EOC} \cup Clusters
         /\ \A f \in Files : card[f] \in DirEntry
         /\ DOMAIN card = Items
  BY Kinds, Numbers DEF WindowFits, Contents, ContentOf

\* A card that makes sense has chains, of which nobody has one.
LEMMA SoundKept ==
  ASSUME NEW k, NEW m, \A x \in Items : m[x] = k[x], Sound(k, k),
         \A f \in Files : k[f] \in DirEntry,
         \A c \in Clusters : k[c] \in {FREE, EOC} \cup Clusters,
         Strays = {} => \A c \in Taken(k) : \E f \in Files : c \in ChainIn(k, k[f].sclust)
  PROVE  \E w : /\ w.fat = m /\ Sorted(w) /\ w.head[Nobody] = 0
                /\ \A f \in Files : Shut(w, f)
  <1> DEFINE first == [f \in Files |-> k[f].sclust]
  <1>1. \A f \in Files : k[f] \in DirEntry /\ first[f] = k[f].sclust
    OBVIOUS
  <1>2. \A f \in Files : k[f].size \in Nat /\ (k[f].sclust \in {0} \cup Clusters \/ k[f] = NOENTRY)
    BY <1>1 DEF DirEntry, NOENTRY
  <1>3. /\ \A f \in Files : \A c \in ChainIn(k, first[f]) : k[c] # FREE
        /\ \A f \in Files : ChainIn(k, first[f]) # {} =>
             \E c \in ChainIn(k, first[f]) : k[c] = EOC
        /\ \A f \in Files : k[f].size <= bcs * Cardinality(ChainIn(k, first[f]))
        /\ \A f, g \in Files : f # g => ChainIn(k, first[f]) \cap ChainIn(k, first[g]) = {}
    BY <1>1 DEF Sound
  <1>4. Strays = {} => \A c \in Taken(k) : \E f \in Files : c \in ChainIn(k, first[f])
    BY <1>1
  <1>5. PICK head, own, rank : /\ Chained(k, head, own, rank)
                               /\ head[Nobody] = 0
                               /\ \A f \in Files : head[f] = IF first[f] \in Clusters THEN first[f] ELSE 0
    <2> HIDE DEF first
    <2>1. SoundIn(k, first)
      BY <1>3, <1>4 DEF SoundIn
    <2> QED BY <2>1, SoundChains
  <1> DEFINE w == [fat |-> m, head |-> head, own |-> own, rank |-> rank]
  <1>6. w.fat = m /\ w.head = head /\ w.own = own /\ w.rank = rank
    OBVIOUS
  <1> HIDE DEF w
  <1>7. Sorted(w) /\ w.head[Nobody] = 0
    <2>1. Chained(m, head, own, rank)
      BY <1>5, Kinds, SameChains
    <2> QED BY <1>5, <1>6, <2>1 DEF Sorted
  <1>8. ASSUME NEW f \in Files PROVE Shut(w, f)
    <2>1. w.head[f] = First(w.fat[f].sclust)
      BY <1>1, <1>5, <1>6, Kinds DEF First
    <2>2. ChainIn(k, first[f]) = {d \in Taken(w.fat) : w.own[d] = f}
      <3>1. Taken(k) = Taken(m)
        BY Kinds DEF Taken
      <3> HIDE DEF first
      <3> QED BY <1>5, <1>6, <3>1, ChainOwned
    <2>3. Reaches(w, f, w.fat[f].size)
      BY <1>2, <1>3, <1>6, <1>7, <2>2, Kinds, LongFile
    <2> QED BY <2>1, <2>3 DEF Shut
  <1> QED BY <1>6, <1>7, <1>8

\* Between calls, with no file open, that is all there is.
LEMMA ShutLinked ==
  ASSUME NEW w, w.fat = View, Sorted(w), w.head[Nobody] = 0, \A f \in Files : Shut(w, f),
         pc = "idle", opened = {}, call = Idle
  PROVE  Kept(w)
  <1>1. Loose = 0 /\ pc # "free" /\ call.op = "none"
    BY DEF Loose, Idle
  <1>2. OpenFine /\ Others(w)
    BY DEF OpenFine, Others
  <1>3. Mine(w)
    BY <1>1 DEF Mine, CreateMine, ReadMine, WriteMine, SeekMine, TruncateMine, OpenMine, SyncMine, Creates
  <1> QED BY <1>1, <1>2, <1>3 DEF Kept

LEMMA InitKeeps == Init => Linked
  <1> SUFFICES ASSUME Init PROVE Linked
    OBVIOUS
  <1>1. /\ card \in InitCards /\ winsect = NOSECT /\ pc = "idle" /\ opened = {} /\ call = Idle
    BY DEF Init, PowerOn, Unmounted
  <1>2. Fits
    BY InitFits
  <1>3. \A x \in Items : View[x] = card[x]
    BY <1>1, SectorNumbers DEF View
  <1>4. /\ \A f \in Files : card[f] \in DirEntry
        /\ \A c \in Clusters : card[c] \in {FREE, EOC} \cup Clusters
    BY <1>2, <1>3, ViewEntry, Kinds DEF Fits
  <1>5. /\ Sound(card, card)
        /\ \A c \in Taken(card) : \E f \in Files : c \in ChainIn(card, card[f].sclust)
    BY <1>1, CardAssumption DEF Taken
  <1>6. PICK w : /\ w.fat = View /\ Sorted(w) /\ w.head[Nobody] = 0
                 /\ \A f \in Files : Shut(w, f)
    BY <1>3, <1>4, <1>5, SoundKept
  <1> QED BY <1>1, <1>6, ShutLinked DEF Linked

LEMMA CallKeeps ==
  ASSUME Fits, Fits', Call, NEW w, Kept(w)
  PROVE  Linked'
  <1>1. ASSUME NEW p \in Fils \ opened, NEW f \in Files, NEW m \in Modes, NotOpen(f), Open(p, f, m)
        PROVE  Linked'
    BY <1>1, OpenKeeps
  <1>2. ASSUME NEW p \in opened, NEW n \in 0 .. MaxBytes, Read(p, n) \/ Write(p, n)
        PROVE  Linked'
    <2>1. n \in Nat
      BY VolumeAssumption
    <2> QED BY <1>2, <2>1, ReadKeeps, WriteKeeps
  <1>3. ASSUME NEW p \in opened, NEW o \in 0 .. MaxOffset, Seek(p, o) PROVE Linked'
    <2>1. o \in Nat
      BY VolumeAssumption
    <2> QED BY <1>3, <2>1, SeekKeeps
  <1>4. ASSUME NEW p \in opened,
               Unusable(p) \/ Truncate(p) \/ Sync("sync", p) \/ Sync("close", p)
        PROVE  Linked'
    BY <1>4, UnusableKeeps, TruncateKeeps, SyncKeeps
  <1>5. ASSUME NEW f \in Files, NotOpen(f), Unlink(f) PROVE Linked'
    BY <1>5, UnlinkKeeps
  <1>6. ASSUME GetFree PROVE Linked'
    BY <1>6, GetFreeKeeps
  <1> QED BY <1>1, <1>2, <1>3, <1>4, <1>5, <1>6 DEF Call

LEMMA StepKeeps ==
  ASSUME Fits, Fits', Step, NEW w, Kept(w)
  PROVE  Linked'
  <1>1. ASSUME ChainStep, Elsewhere PROVE Linked'
    BY <1>1, FollowKeeps, FullKeeps, FindKeeps, MarkKeeps, LinkKeeps, CutKeeps, FreeNextKeeps
       DEF ChainStep
  <1>2. ASSUME OpenEmptied \/ ReadNext \/ WriteNext \/ WriteCreated \/ SeekNext \/ SeekCreated
        PROVE  Linked'
    BY <1>2, OpenEmptiedKeeps, ReadNextKeeps, WriteNextKeeps, WriteCreatedKeeps, SeekNextKeeps,
       SeekCreatedKeeps
  <1>3. ASSUME Truncated \/ Flush \/ Sunk \/ Unlinked PROVE Linked'
    BY <1>3, TruncatedKeeps, FlushKeeps, SunkKeeps, UnlinkedKeeps
  <1> QED BY <1>1, <1>2, <1>3 DEF Step, Elsewhere

LEMMA NextKeeps ==
  ASSUME Fits, Linked, UNCHANGED volume \/ Call \/ Step
  PROVE  Linked'
  <1>1. Fits'
    BY NextFits DEF Next
  <1>2. PICK w : Kept(w)
    BY DEF Linked
  <1>3. ASSUME UNCHANGED volume PROVE Linked'
    <2>1. View' = View /\ Loose' = Loose /\ cur' = cur /\ me' = me /\ OpenFine'
      BY <1>2, <1>3 DEF volume, disk, window, chain, View, Loose, cur, me, Kept, OpenFine
    <2>2. Others(w)'
      BY <1>2, <1>3 DEF volume, Kept, Others, cur, NotOpen
    <2>3. CreateMine(w)'
      BY <1>2, <1>3 DEF volume, disk, chain, Kept, Mine, CreateMine, Stretched, MarkMine, LinkMine,
                        EndMine, CreatedMine, cur, me
    <2>4. ReadMine(w)' /\ WriteMine(w)' /\ SyncMine(w)'
      BY <1>2, <1>3 DEF volume, disk, chain, Kept, Mine, ReadMine, WriteMine, SyncMine, cur, me
    <2>5. SeekMine(w)' /\ TruncateMine(w)'
      BY <1>2, <1>3 DEF volume, disk, chain, Kept, Mine, SeekMine, TruncateMine, cur, me
    <2>6. OpenMine(w)'
      BY <1>2, <1>3 DEF volume, disk, chain, Kept, Mine, OpenMine, cur, me, NotOpen
    <2>7. pc' = pc /\ clst' = clst
      BY <1>3 DEF volume, chain
    <2>8. Kept(w)'
      BY <1>2, <2>1, <2>2, <2>3, <2>4, <2>5, <2>6, <2>7 DEF Kept, Mine
    <2> QED BY <2>8 DEF Linked
  <1> QED BY <1>1, <1>2, <1>3, CallKeeps, StepKeeps

LEMMA Times ==
  ASSUME NEW a \in Nat, NEW b \in Nat, NEW d \in Nat, a <= b
  PROVE  d * a <= d * b
  OBVIOUS

\* The chain of a file has as many bytes as its clusters.
LEMMA RoomEnough ==
  ASSUME NEW w, Sorted(w), NEW f \in Files, NEW n \in Nat, Reaches(w, f, n)
  PROVE  n <= bcs * Cardinality({d \in Taken(w.fat) : w.own[d] = f})
  <1> DEFINE k == Cardinality({d \in Taken(w.fat) : w.own[d] = f})
             q == (n - 1) \div bcs
  <1>1. bcs \in Nat \ {0} /\ bcs \in Nat
    BY VolumeAssumption
  <1>2. k \in Nat
    <2>1. {d \in Taken(w.fat) : w.own[d] = f} \subseteq Clusters
      BY DEF Taken
    <2> QED BY <2>1, FiniteClusters, FS_Subset, FS_CardinalityType
  <1>3. CASE n > 0
    <2>1. PICK c \in Taken(w.fat) : w.own[c] = f /\ w.rank[c] >= q
      BY <1>3 DEF Reaches
    <2>2. w.rank[c] < k /\ w.rank[c] \in Nat
      BY <2>1, ChainLength DEF Sorted, Chained, Places, Taken
    <2>3. n - 1 \in Nat
      BY <1>3
    <2>4. q \in Nat /\ (n - 1) % bcs \in 0 .. bcs - 1 /\ (n - 1) % bcs = (n - 1) - q * bcs
      BY <1>1, <2>3, Division
    <2> HIDE DEF k, q
    <2>5. q + 1 \in Nat /\ q + 1 <= k
      BY <1>2, <2>1, <2>2, <2>4
    <2>6. bcs * (q + 1) <= bcs * k
      BY <1>1, <1>2, <2>5, Times
    <2>7. n <= bcs * (q + 1)
      BY <1>1, <2>3, <2>4
    <2>8. bcs * (q + 1) \in Nat /\ bcs * k \in Nat
      BY <1>1, <1>2, <2>5
    <2>9. n <= bcs * k
      BY <2>6, <2>7, <2>8
    <2> QED BY <2>9 DEF k
  <1>4. CASE n = 0
    <2> HIDE DEF k
    <2>1. n <= bcs * k
      BY <1>1, <1>2, <1>4
    <2> QED BY <2>1 DEF k
  <1> QED BY <1>3, <1>4

LEMMA KnownKept ==
  ASSUME Fits, NEW w, Kept(w), pc = "idle", NEW f \in Files
  PROVE  /\ w.head[f] = First(Known[f].sclust)
         /\ Known[f].size \in Nat /\ Reaches(w, f, Known[f].size)
  <1>1. cur = 0 /\ w.fat = View /\ Others(w) /\ OpenFine
    BY AtIdle DEF Kept
  <1>2. CASE NotOpen(f)
    <2>1. Shut(w, f) /\ Known[f] = View[f]
      BY <1>1, <1>2 DEF Others, Known
    <2>2. View[f] \in DirEntry
      BY ViewEntry DEF Fits
    <2>3. View[f].size \in Nat
      BY <2>2 DEF DirEntry, NOENTRY
    <2> QED BY <1>1, <2>1, <2>3 DEF Shut
  <1>3. CASE ~NotOpen(f)
    <2> DEFINE p == CHOOSE q \in opened : fil[q].file = f
    <2>1. p \in opened /\ fil[p].file = f
      BY <1>3 DEF NotOpen
    <2>2. Known[f] = [sclust |-> fil[p].sclust, size |-> fil[p].objsize]
      BY <1>3 DEF Known
    <2> HIDE DEF p
    <2>3. Known[f].sclust = fil[p].sclust /\ Known[f].size = fil[p].objsize
      BY <2>2
    <2>4. fil[p] \in FIL /\ p # 0
      BY <2>1, VolumeAssumption DEF Fits, FilesFit
    <2>5. fil[p].sclust \in {0} \cup Clusters /\ fil[p].objsize \in Nat
      BY <2>4, Fields
    <2>6. Whole(w, fil[p])
      BY <1>1, <2>1, <2>4 DEF Others
    <2> QED BY <2>1, <2>3, <2>5, <2>6 DEF Whole, First
  <1> QED BY <1>2, <1>3

\* A file whose directory entry has no cluster has none.
LEMMA NoChain ==
  ASSUME NEW m, NEW first, first \notin Clusters
  PROVE  ChainIn(m, first) = {}
  <1>1. Walk(m, first)[0] = first
    BY Walks
  <1>2. ASSUME NEW k \in 0 .. n_fatent PROVE Walk(m, first)[k] \notin Clusters
    <2>1. CASE k = 0
      BY <1>1, <2>1
    <2>2. CASE k # 0
      <3>1. k \in Nat /\ 0 \in Nat /\ k > 0
        BY <2>2
      <3>2. Walk(m, first)[k] = FREE
        BY <1>1, <3>1, Stops
      <3> QED BY <3>2, Numbers
    <2> QED BY <2>1, <2>2
  <1> QED BY <1>2 DEF ChainIn

\* What an entry says of a file: all of its chain, or nothing.
Tells(w, f, e) ==
  /\ e.size \in Nat
  /\ \/ w.head[f] = First(e.sclust) /\ Reaches(w, f, e.size)
     \/ e.sclust \notin Clusters /\ e.size = 0

LEMMA TellsSound ==
  ASSUME NEW w, Sorted(w), NEW entry, \A f \in Files : Tells(w, f, entry[f])
  PROVE  Sound(w.fat, entry)
  <1> DEFINE own(f) == ChainIn(w.fat, entry[f].sclust)
             set(f) == {d \in Taken(w.fat) : w.own[d] = f}
  <1>1. Chained(w.fat, w.head, w.own, w.rank)
    BY DEF Sorted
  <1>2. ASSUME NEW f \in Files
        PROVE  \/ own(f) = set(f) /\ Reaches(w, f, entry[f].size)
               \/ own(f) = {} /\ entry[f].size = 0
    <2>1. CASE w.head[f] = First(entry[f].sclust) /\ Reaches(w, f, entry[f].size)
      <3>1. w.head[f] = IF entry[f].sclust \in Clusters THEN entry[f].sclust ELSE 0
        BY <2>1 DEF First
      <3>2. own(f) = set(f)
        BY <1>1, <1>2, <3>1, ChainOwned
      <3> QED BY <2>1, <3>2
    <2>2. CASE entry[f].sclust \notin Clusters /\ entry[f].size = 0
      BY <2>2, NoChain
    <2> QED BY <1>2, <2>1, <2>2 DEF Tells
  <1> HIDE DEF own
  <1>3. \A f \in Files : own(f) \subseteq set(f)
    BY <1>2
  <1>4. ASSUME NEW f \in Files PROVE \A c \in own(f) : w.fat[c] # FREE
    BY <1>3, <1>4 DEF Taken
  <1>5. ASSUME NEW f \in Files, own(f) # {} PROVE \E c \in own(f) : w.fat[c] = EOC
    <2>1. PICK c \in own(f) : TRUE
      BY <1>5
    <2>2. c \in Taken(w.fat) /\ w.own[c] = f /\ own(f) = set(f)
      BY <1>2, <1>5, <2>1
    <2>3. \E e \in Taken(w.fat) : w.own[e] = f /\ w.fat[e] = EOC
      BY <1>1, <1>5, <2>2, ChainEnds
    <2> QED BY <2>2, <2>3
  <1>6. ASSUME NEW f \in Files PROVE entry[f].size <= bcs * Cardinality(own(f))
    <2>1. entry[f].size \in Nat
      BY <1>6 DEF Tells
    <2>2. CASE own(f) = set(f) /\ Reaches(w, f, entry[f].size)
      BY <1>6, <2>1, <2>2, RoomEnough
    <2>3. CASE own(f) = {} /\ entry[f].size = 0
      <3>1. Cardinality({}) = 0 /\ bcs \in Nat
        BY FS_EmptySet, VolumeAssumption
      <3> QED BY <2>3, <3>1
    <2> QED BY <1>2, <1>6, <2>2, <2>3
  <1>7. ASSUME NEW f \in Files, NEW g \in Files \ {f} PROVE own(f) \cap own(g) = {}
    BY <1>3, <1>7
  <1> QED BY <1>4, <1>5, <1>6, <1>7 DEF Sound, own

LEMMA KeptSound ==
  ASSUME Fits, NEW w, Kept(w), pc = "idle"
  PROVE  /\ Sound(View, Known)
         /\ "PowerCycle" \notin Calls => NoLostClusters
  <1>1. w.fat = View /\ Sorted(w) /\ w.head[Nobody] = 0 /\ Chained(View, w.head, w.own, w.rank)
    BY DEF Kept, Loose, Sorted
  <1>2. Sound(View, Known)
    <2>1. \A f \in Files : Tells(w, f, Known[f])
      BY KnownKept DEF Tells
    <2> QED BY <1>1, <2>1, TellsSound
  <1>3. ASSUME "PowerCycle" \notin Calls, NEW c \in Clusters \ FreeClusters
        PROVE  \E f \in Files : c \in ChainIn(View, Known[f].sclust)
    <2>1. c \in Held(View, w.own) /\ c \in Taken(View)
      BY <1>1, <1>3 DEF Chained, Places, Strays, Held, Taken, FreeClusters
    <2>2. w.head[w.own[c]] # 0 /\ w.own[c] \in Owners
      BY <1>1, <2>1, HasHead DEF Held
    <2>3. w.own[c] \in Files
      BY <1>1, <2>2 DEF Owners
    <2>4. w.head[w.own[c]] = IF Known[w.own[c]].sclust \in Clusters
                               THEN Known[w.own[c]].sclust ELSE 0
      BY <2>3, KnownKept DEF First
    <2>5. ChainIn(View, Known[w.own[c]].sclust) = {d \in Taken(View) : w.own[d] = w.own[c]}
      BY <1>1, <2>3, <2>4, ChainOwned
    <2> QED BY <2>1, <2>3, <2>5
  <1>4. "PowerCycle" \notin Calls => NoLostClusters
    BY <1>3 DEF NoLostClusters
  <1> QED BY <1>2, <1>4

LEMMA KeptCursor ==
  ASSUME Fits, NEW w, Kept(w), pc = "idle"
  PROVE  CursorOnChain /\ UnmodifiedIsCurrent
  <1>1. w.fat = View /\ Sorted(w) /\ Others(w) /\ OpenFine /\ cur = 0
    BY AtIdle DEF Kept
  <1>2. ASSUME NEW p \in opened
        PROVE  /\ fil[p].fptr <= fil[p].objsize
               /\ fil[p].fptr > 0 =>
                    fil[p].clust = Nth(fil[p].sclust, (fil[p].fptr - 1) \div bcs)
               /\ fil[p].modified \/ View[fil[p].file] = Entry(fil[p])
    <2> DEFINE g == fil[p]
               n == (g.fptr - 1) \div bcs
    <2>1. g \in FIL /\ p # 0 /\ g.file \in Files
      BY VolumeAssumption, <1>1 DEF Fits, FilesFit, OpenFine
    <2>2. g.fptr \in Nat /\ g.sclust \in {0} \cup Clusters
      BY <2>1, Fields
    <2>3. Whole(w, g)
      BY <1>1, <2>1 DEF Others
    <2> HIDE DEF g
    <2>4. ASSUME g.fptr > 0 PROVE g.clust = Nth(g.sclust, n)
      <3>1. At(w, g.file, g.clust, n)
        BY <2>3, <2>4 DEF Whole, Cursor
      <3>2. w.head[g.file] = IF g.sclust \in Clusters THEN g.sclust ELSE 0
        BY <2>2, <2>3 DEF Whole
      <3>3. Chained(View, w.head, w.own, w.rank)
        BY <1>1 DEF Sorted
      <3>4. g.clust \in Taken(View) /\ w.own[g.clust] = g.file /\ w.rank[g.clust] = n
        BY <1>1, <3>1 DEF At
      <3>5. Walk(View, g.sclust)[w.rank[g.clust]] = g.clust
        BY <2>1, <3>2, <3>3, <3>4, PlaceWalked
      <3> QED BY <3>4, <3>5 DEF Nth
    <2>5. g.fptr <= g.objsize /\ (g.modified \/ View[g.file] = Entry(g))
      BY <1>1, <2>3 DEF Whole, Current
    <2> QED BY <2>4, <2>5 DEF g
  <1> QED BY <1>2 DEF CursorOnChain, UnmodifiedIsCurrent, Entry

-----------------------------------------------------------------------------
\* What is on the card while a function runs.

\* Switched off and on again, the card makes sense, and a cluster of it may have
\* been lost.
LEMMA PowerCycleKeeps ==
  ASSUME "PowerCycle" \in Calls, Fits, PowerCycle, Sound(card, card)
  PROVE  Linked'
  <1>1. /\ card' = card /\ winsect' = NOSECT /\ pc' = "idle" /\ opened' = {} /\ call' = Idle
    BY DEF PowerCycle, Return
  <1>2. \A x \in Items : View'[x] = card[x]
    BY <1>1, SectorNumbers DEF View
  <1>3. /\ \A f \in Files : card[f] \in DirEntry
        /\ \A c \in Clusters : card[c] \in {FREE, EOC} \cup Clusters
    BY CardEntry DEF Fits
  <1>4. Strays # {}
    BY DEF Strays
  <1>5. PICK w : /\ w.fat = View' /\ Sorted(w) /\ w.head[Nobody] = 0
                 /\ \A f \in Files : Shut(w, f)
    BY <1>2, <1>3, <1>4, SoundKept
  <1>6. Loose' = 0 /\ pc' # "free" /\ call'.op = "none"
    BY <1>1 DEF Loose, Idle
  <1>7. OpenFine' /\ Others(w)'
    BY <1>1, <1>5 DEF OpenFine, Others
  <1>8. Mine(w)'
    BY <1>1, <1>6 DEF Mine, CreateMine, ReadMine, WriteMine, SeekMine, TruncateMine, OpenMine, SyncMine, Creates
  <1>9. Kept(w)'
    BY <1>5, <1>6, <1>7, <1>8 DEF Kept
  <1> QED BY <1>9 DEF Linked

LEMMA ShorterReaches ==
  ASSUME NEW w, Sorted(w), NEW f, NEW n \in Nat, Reaches(w, f, n), NEW k \in Nat, k <= n
  PROVE  Reaches(w, f, k)
  <1> SUFFICES ASSUME k > 0
               PROVE  \E c \in Taken(w.fat) : w.own[c] = f /\ w.rank[c] >= (k - 1) \div bcs
    BY DEF Reaches
  <1>1. PICK c \in Taken(w.fat) : w.own[c] = f /\ w.rank[c] >= (n - 1) \div bcs
    BY DEF Reaches
  <1>2. w.rank[c] \in Nat
    BY DEF Sorted, Chained, Places, Taken
  <1>3. k - 1 \in Nat /\ n - 1 \in Nat /\ k - 1 <= n - 1 /\ bcs \in Nat \ {0}
    BY VolumeAssumption
  <1>4. (k - 1) \div bcs <= (n - 1) \div bcs
    BY <1>3, Monotone
  <1>5. (k - 1) \div bcs \in Nat /\ (n - 1) \div bcs \in Nat
    BY <1>3, Division
  <1>6. w.rank[c] >= (k - 1) \div bcs
    BY <1>1, <1>2, <1>4, <1>5
  <1> QED BY <1>1, <1>6

\* An open file that no function is changing.
LEMMA CurWhole ==
  ASSUME Fits, NEW w, Kept(w), NEW p \in opened,
         p # cur \/ call.op \notin {"write", "seek", "truncate"}
  PROVE  Whole(w, fil[p])
  <1>1. Others(w) /\ Mine(w) /\ p \in Fils /\ p # 0
    BY VolumeAssumption DEF Kept, Fits, FilesFit
  <1>2. CASE p # cur
    BY <1>1, <1>2 DEF Others
  <1>3. CASE p = cur /\ call.op \notin {"write", "seek", "truncate"}
    <2>1. call.op \in {"read", "sync", "close"}
      BY <1>1, <1>3, AtIdle DEF Fits, CallFits, Runs, Mine, OpenMine
    <2> QED BY <1>1, <1>3, <2>1 DEF Mine, ReadMine, SyncMine, me
  <1> QED BY <1>2, <1>3

\* The directory entry of an open file is not ahead of its object.
Behind(e, g) ==
  /\ e.size <= g.objsize
  /\ First(e.sclust) \in {0, g.sclust}
  /\ First(e.sclust) = 0 => e.size = 0

Recorded ==
  /\ call.op # "truncate"
  /\ \A p \in opened : Behind(View[fil[p].file], fil[p])

LEMMA EntryTells ==
  ASSUME Fits, NEW w, Kept(w), Recorded, NEW f \in Files
  PROVE  Tells(w, f, View[f])
  <1>1. w.fat = View /\ Sorted(w) /\ Others(w) /\ OpenFine /\ Mine(w)
    BY DEF Kept
  <1>2. View[f].size \in Nat
    <2>1. View[f] \in DirEntry
      BY ViewEntry DEF Fits
    <2> QED BY <2>1 DEF DirEntry, NOENTRY
  <1>3. CASE NotOpen(f)
    BY <1>1, <1>2, <1>3 DEF Others, Shut, Tells
  <1>4. CASE ~NotOpen(f)
    <2>1. PICK p \in opened : fil[p].file = f
      BY <1>4 DEF NotOpen
    <2>2. p \in Fils /\ fil[p] \in FIL
      BY <2>1 DEF Fits, FilesFit
    <2>3. fil[p].sclust \in {0} \cup Clusters /\ fil[p].objsize \in Nat
      BY <2>2, Fields
    <2>4. w.head[f] = fil[p].sclust /\ Reaches(w, f, fil[p].objsize)
      <3>1. CASE p # cur \/ call.op \notin {"write", "seek"}
        <4>1. Whole(w, fil[p])
          BY <2>1, <3>1, CurWhole DEF Recorded
        <4> QED BY <2>1, <4>1 DEF Whole
      <3>2. CASE p = cur /\ call.op \in {"write", "seek"}
        BY <1>1, <2>1, <3>2 DEF Mine, WriteMine, SeekMine, me
      <3> QED BY <3>1, <3>2
    <2>5. Behind(View[f], fil[p])
      BY <2>1 DEF Recorded
    <2>6. Reaches(w, f, View[f].size)
      BY <1>1, <1>2, <2>3, <2>4, <2>5, ShorterReaches DEF Behind
    <2> QED BY <1>2, <2>3, <2>4, <2>5, <2>6, Numbers DEF Tells, Behind, First
  <1> QED BY <1>3, <1>4

\* What the code would read makes sense, whatever function runs.
LEMMA ViewSound ==
  ASSUME Fits, Linked, Recorded
  PROVE  Sound(View, View)
  <1>1. PICK w : Kept(w)
    BY DEF Linked
  <1>2. w.fat = View /\ Sorted(w)
    BY <1>1 DEF Kept
  <1>3. \A f \in Files : Tells(w, f, View[f])
    BY <1>1, EntryTells
  <1> QED BY <1>2, <1>3, TellsSound

\* An object is ahead of its entry as long as it only grows.
Larger(g, h) ==
  h.file = g.file /\ h.objsize >= g.objsize /\ (h.sclust = g.sclust \/ g.sclust = 0)

EntriesSame == \A f \in Files : View'[f] = View[f]

LEMMA LargerSame ==
  ASSUME NEW g \in FIL, NEW h, h.file = g.file, h.objsize = g.objsize, h.sclust = g.sclust
  PROVE  Larger(g, h)
  BY DEF Larger, FIL

LEMMA OpenObject ==
  ASSUME Fits, OpenFine, NEW p \in opened
  PROVE  /\ p \in Fils /\ p # 0 /\ fil[p] \in FIL /\ fil[p].file \in Files
         /\ fil[p].objsize \in Nat /\ fil[p].sclust \in {0} \cup Clusters
         /\ View[fil[p].file] \in DirEntry
  BY Fields, ViewEntry, VolumeAssumption DEF Fits, FilesFit, OpenFine

LEMMA EntrySize == \A e \in DirEntry : e.size \in Nat
  BY DEF DirEntry, NOENTRY

LEMMA StillRecorded ==
  ASSUME Fits, Fits', OpenFine, Recorded, EntriesSame, call'.op # "truncate",
         \A p \in opened' : p \in opened /\ Larger(fil[p], fil'[p])
  PROVE  Recorded'
  <1> SUFFICES ASSUME NEW p \in opened' PROVE Behind(View'[fil'[p].file], fil'[p])
    BY DEF Recorded
  <1>1. p \in opened /\ Larger(fil[p], fil'[p]) /\ Behind(View[fil[p].file], fil[p])
    BY DEF Recorded
  <1>2. fil[p].file \in Files /\ fil[p].objsize \in Nat /\ View[fil[p].file].size \in Nat
    BY <1>1, OpenObject, EntrySize
  <1>3. fil'[p].objsize \in Nat
    <2>1. fil'[p] \in FIL
      BY DEF Fits, FilesFit
    <2> QED BY <2>1, Fields
  <1>4. View'[fil'[p].file] = View[fil[p].file]
    BY <1>1, <1>2 DEF EntriesSame, Larger
  <1>5. View[fil[p].file].size <= fil'[p].objsize
    BY <1>1, <1>2, <1>3 DEF Larger, Behind
  <1> QED BY <1>1, <1>4, <1>5 DEF Larger, Behind

LEMMA NoneRecorded ==
  ASSUME Fits, Fits', OpenFine, Recorded, EntriesSame, call'.op # "truncate",
         opened' \subseteq opened, \A p \in opened' : fil'[p] = fil[p]
  PROVE  Recorded'
  <1>1. ASSUME NEW p \in opened' PROVE p \in opened /\ Larger(fil[p], fil'[p])
    <2>1. p \in opened /\ fil[p] \in FIL
      BY OpenObject
    <2> QED BY <2>1, LargerSame
  <1> QED BY <1>1, StillRecorded

LEMMA OneRecorded ==
  ASSUME Fits, Fits', OpenFine, Recorded, EntriesSame, call'.op # "truncate",
         opened' \subseteq opened, NEW q, NEW g, fil' = [fil EXCEPT ![q] = g],
         q \in opened' => Larger(fil[q], g)
  PROVE  Recorded'
  <1>1. ASSUME NEW p \in opened' PROVE p \in opened /\ Larger(fil[p], fil'[p])
    <2>1. p \in opened /\ fil[p] \in FIL /\ p \in Fils /\ fil \in [Fils -> FIL]
      BY OpenObject DEF Fits, FilesFit
    <2>2. CASE p = q
      BY <1>1, <2>1, <2>2
    <2>3. CASE p # q
      <3>1. fil'[p] = fil[p]
        BY <2>1, <2>3
      <3> QED BY <2>1, <3>1, LargerSame
    <2> QED BY <2>2, <2>3
  <1> QED BY <1>1, StillRecorded

LEMMA SameEntries == View' = View => EntriesSame
  BY DEF EntriesSame

LEMMA ChainEntries ==
  ASSUME Fits, ChainStep, Elsewhere
  PROVE  EntriesSame
  <1>1. \A c \in Nat, f \in Files : f # c
    BY Kinds
  <1>2. clst \in Nat /\ ncl \in Nat /\ DOMAIN View = Items /\ Files \subseteq Items
    BY Numbers, Kinds, ViewIs DEF Fits, ChainFits, NOSPACE, INSANITY
  <1>3. CASE Follow \/ Full \/ Find
    BY <1>3, FollowFits, FullFits, FindFits DEF EntriesSame
  <1>4. ASSUME NEW c \in Nat, NEW v, View' = [View EXCEPT ![c] = v] PROVE EntriesSame
    BY <1>1, <1>2, <1>4 DEF EntriesSame
  <1>5. CASE Mark \/ Link \/ Cut
    BY <1>2, <1>4, <1>5, MarkFits, LinkFits, CutFits
  <1>6. CASE FreeNext
    BY <1>2, <1>4, <1>6, FreeNextFits DEF EntriesSame
  <1> QED BY <1>3, <1>5, <1>6 DEF ChainStep

LEMMA AbortRecorded ==
  ASSUME Fits, Fits', OpenFine, Recorded, EntriesSame, cur \in opened, opened' = opened, Abort
  PROVE  Recorded'
  <1>1. me \in FIL /\ me = fil[cur]
    BY OpenObject DEF me
  <1> DEFINE g == [me EXCEPT !.err = TRUE]
  <1>2. g.file = me.file /\ g.objsize = me.objsize /\ g.sclust = me.sclust
    BY <1>1 DEF FIL
  <1>3. fil' = [fil EXCEPT ![cur] = g] /\ call'.op # "truncate"
    BY DEF Abort, Become, Return, Idle
  <1> HIDE DEF g
  <1> QED BY <1>1, <1>2, <1>3, LargerSame, OneRecorded

LEMMA WriteToRecorded ==
  ASSUME Fits, Fits', OpenFine, Recorded, EntriesSame, cur \in opened, opened' = opened,
         call.ofs > 0, NEW c, WriteTo(c)
  PROVE  Recorded'
  <1> DEFINE end == me.fptr + Chunk
             g == [me EXCEPT !.clust = c, !.fptr = end, !.sclust = IF @ = 0 THEN c ELSE @,
                             !.objsize = IF end > @ THEN end ELSE @]
  <1>1. me \in FIL /\ me = fil[cur] /\ cur \in Fils
    BY OpenObject DEF me
  <1>2. me.objsize \in Nat /\ me.fptr \in Nat /\ Chunk \in Nat /\ end \in Nat
    BY <1>1, Fields, ChunkFits
  <1> HIDE DEF end
  <1>3. /\ g.file = me.file /\ g.objsize = IF end > me.objsize THEN end ELSE me.objsize
        /\ g.sclust = IF me.sclust = 0 THEN c ELSE me.sclust
    BY <1>1 DEF FIL
  <1>4. fil' = [fil EXCEPT ![cur] = g] /\ call'.op # "truncate"
    <2>1. call' = [call EXCEPT !.ofs = @ - Chunk]
      BY DEF WriteTo, Advance
    <2>2. call \in Frame
      BY DEF Fits, CallFits
    <2> QED BY <2>1, <2>2 DEF WriteTo, Become, end, Recorded, Frame
  <1> HIDE DEF g
  <1>5. Larger(me, g)
    BY <1>2, <1>3 DEF Larger
  <1> QED BY <1>1, <1>4, <1>5, OneRecorded

LEMMA GrownLarger ==
  ASSUME NEW f \in FIL, NEW g \in FIL, g.file = f.file, g.objsize = f.objsize,
         g.sclust = f.sclust \/ f.sclust = 0
  PROVE  Larger(f, Grown(g))
  <1>1. g.fptr \in Nat /\ g.objsize \in Nat /\ f.objsize \in Nat
    BY Fields
  <1>2. Grown(g).file = g.file /\ Grown(g).sclust = g.sclust
    BY GrownFits
  <1>3. Grown(g).objsize >= g.objsize
    BY <1>1 DEF Grown, FIL
  <1> QED BY <1>1, <1>2, <1>3 DEF Larger

LEMMA SeekRecorded ==
  ASSUME Fits, Fits', NEW w, Kept(w), Recorded, SeekNext \/ SeekCreated
  PROVE  Recorded'
  <1>1. EntriesSame /\ opened' = opened /\ OpenFine
    BY SeekNextFits, SeekCreatedFits, SameEntries DEF SeekNext, SeekCreated, Kept
  <1>2. call.op = "seek"
    BY DEF SeekNext, SeekCreated, Fits, CallFits, Runs, Creates, Removes, Syncs
  <1>3. /\ cur \in opened /\ me = fil[cur] /\ me \in FIL /\ call \in Frame /\ call.ofs \in Nat
        /\ me.fptr \in Nat /\ bcs \in Nat
    BY <1>2, CurFile DEF Fits, CallFits
  <1>4. ASSUME NEW g, Become(g), Larger(me, g), call'.op # "truncate" PROVE Recorded'
    BY <1>1, <1>3, <1>4, OneRecorded DEF Become
  <1>5. call' = [call EXCEPT !.ofs = @ - bcs] => call'.op # "truncate"
    BY <1>2, <1>3 DEF Frame
  <1>6. \A r : Return(r) => call'.op # "truncate"
    BY DEF Return, Idle
  <1>7. CASE Abort
    BY <1>1, <1>3, <1>7, AbortRecorded
  <1>8. CASE SeekNext
    <2> DEFINE f == [me EXCEPT !.fptr = @ + bcs]
               a == [me EXCEPT !.fptr = @ + call.ofs]
    <2>1. f.file = me.file /\ f.objsize = me.objsize /\ f.sclust = me.sclust
      BY <1>3 DEF FIL
    <2>2. a \in FIL /\ a.file = me.file /\ a.objsize = me.objsize /\ a.sclust = me.sclust
      BY <1>3 DEF FIL
    <2>3. \A c : LET g == [f EXCEPT !.clust = c] IN
                 g.file = me.file /\ g.objsize = me.objsize /\ g.sclust = me.sclust
      BY <1>3 DEF FIL
    <2>4. CASE Become(Grown(a)) /\ Return("OK")
      <3> HIDE DEF a
      <3>1. Larger(me, Grown(a))
        BY <1>3, <2>2, GrownLarger
      <3> QED BY <1>4, <1>6, <2>4, <3>1
    <2>5. CASE Become(f) /\ call' = [call EXCEPT !.ofs = @ - bcs]
      <3> HIDE DEF f
      <3>1. Larger(me, f)
        BY <1>3, <2>1, LargerSame
      <3> QED BY <1>4, <1>5, <2>5, <3>1
    <2>6. ASSUME NEW c, Become([f EXCEPT !.clust = c]), call' = [call EXCEPT !.ofs = @ - bcs]
          PROVE  Recorded'
      <3> DEFINE g == [f EXCEPT !.clust = c]
      <3>1. g.file = me.file /\ g.objsize = me.objsize /\ g.sclust = me.sclust /\ Become(g)
        BY <2>3, <2>6
      <3> HIDE DEF g
      <3>2. Larger(me, g)
        BY <1>3, <3>1, LargerSame
      <3> QED BY <1>4, <1>5, <2>6, <3>1, <3>2
    <2> QED BY <1>7, <1>8, <2>4, <2>5, <2>6 DEF SeekNext
  <1>9. CASE SeekCreated
    <2>1. CASE Become(Grown(me)) /\ Return("OK")
      BY <1>3, <1>4, <1>6, <2>1, GrownLarger
    <2>2. CASE /\ Become([me EXCEPT !.clust = ncl, !.sclust = IF @ = 0 THEN ncl ELSE @])
               /\ call' = call
      <3> DEFINE g == [me EXCEPT !.clust = ncl, !.sclust = IF @ = 0 THEN ncl ELSE @]
      <3>1. /\ g.file = me.file /\ g.objsize = me.objsize /\ me.objsize \in Nat
            /\ g.sclust = IF me.sclust = 0 THEN ncl ELSE me.sclust
        BY <1>3 DEF FIL
      <3> HIDE DEF g
      <3>2. Larger(me, g)
        BY <3>1 DEF Larger
      <3>3. Become(g) /\ call'.op # "truncate"
        BY <1>2, <2>2 DEF g
      <3> QED BY <1>4, <3>2, <3>3
    <2> QED BY <1>7, <1>9, <2>1, <2>2 DEF SeekCreated
  <1> QED BY <1>8, <1>9

\* A file that has no chain has no bytes.
LEMMA NoHeadNoSize ==
  ASSUME NEW w, Sorted(w), NEW f \in Files, NEW n \in Nat, Reaches(w, f, n), w.head[f] = 0
  PROVE  n = 0
  BY FirstCluster, Numbers

LEMMA OneOpened ==
  ASSUME Fits, Fits', OpenFine, Recorded, NEW f \in Files, NotOpen(f),
         \A g \in Files \ {f} : View'[g] = View[g], call'.op # "truncate",
         NEW p \in Fils \ opened, NEW o, fil' = [fil EXCEPT ![p] = o],
         opened' = opened \cup {p}, o.file = f, Behind(View'[f], o)
  PROVE  Recorded'
  <1> SUFFICES ASSUME NEW q \in opened' PROVE Behind(View'[fil'[q].file], fil'[q])
    BY DEF Recorded
  <1>1. fil \in [Fils -> FIL]
    BY DEF Fits, FilesFit
  <1>2. CASE q = p
    BY <1>1, <1>2
  <1>3. CASE q \in opened
    <2>1. fil'[q] = fil[q] /\ fil[q].file \in Files \ {f}
      BY <1>1, <1>3, OpenObject DEF NotOpen
    <2> QED BY <1>3, <2>1 DEF Recorded
  <1> QED BY <1>2, <1>3

LEMMA OpenEmptiedRecorded ==
  ASSUME Fits, Fits', OpenEmptied, NEW w, Kept(w), Recorded
  PROVE  Recorded'
  <1> DEFINE f == call.new.file
  <1>1. call.op = "open" /\ View' = View /\ fil' = [fil EXCEPT ![cur] = call.new]
        /\ opened' = opened \cup {cur} /\ call'.op # "truncate"
    BY OpenEmptiedFits DEF OpenEmptied, Become, Return, Idle
  <1>2. /\ cur \in Fils \ opened /\ f \in Files /\ NotOpen(f) /\ w.head[f] = 0
        /\ call.new.objsize = 0 /\ call.new.sclust = 0
    BY <1>1 DEF Kept, Mine, OpenMine, Fits, CallFits
  <1>3. OpenFine /\ Shut(w, f) /\ w.fat = View /\ Sorted(w)
    BY <1>2 DEF Kept, Others
  <1>4. View[f].size \in Nat
    BY <1>2, ViewEntry, EntrySize DEF Fits
  <1>5. First(View[f].sclust) = 0 /\ View[f].size = 0
    BY <1>2, <1>3, <1>4, NoHeadNoSize DEF Shut
  <1>6. Behind(View'[f], call.new)
    BY <1>1, <1>2, <1>5 DEF Behind
  <1> HIDE DEF f
  <1>7. call.new.file = f
    BY DEF f
  <1> QED BY <1>1, <1>2, <1>3, <1>6, <1>7, OneOpened

LEMMA StepRecorded ==
  ASSUME Fits, Fits', Step, NEW w, Kept(w), Recorded
  PROVE  Recorded'
  <1>1. OpenFine
    BY DEF Kept
  <1>2. ASSUME ChainStep, Elsewhere PROVE Recorded'
    <2>1. call' = call /\ opened' = opened /\ fil' = fil
      BY <1>2 DEF Elsewhere
    <2>2. EntriesSame /\ call'.op # "truncate"
      BY <1>2, <2>1, ChainEntries DEF Recorded
    <2> QED BY <1>1, <2>1, <2>2, NoneRecorded
  <1>3. ASSUME OpenEmptied PROVE Recorded'
    BY <1>3, OpenEmptiedRecorded
  <1>4. ASSUME ReadNext PROVE Recorded'
    <2>1. EntriesSame /\ pc = "read" /\ opened' = opened
      BY <1>4, ReadNextFits, SameEntries DEF ReadNext
    <2>2. call.op = "read"
      BY <2>1 DEF Fits, CallFits, Runs, Creates, Removes, Syncs
    <2>3. cur \in opened /\ me = fil[cur] /\ me \in FIL /\ call \in Frame
      BY <2>2, CurFile DEF Fits, CallFits
    <2>4. CASE Return("OK") /\ UNCHANGED fil
      BY <1>1, <2>1, <2>4, NoneRecorded DEF Return, Idle
    <2>5. CASE Abort
      BY <1>1, <2>1, <2>3, <2>5, AbortRecorded
    <2>6. ASSUME NEW c, Become([me EXCEPT !.clust = c, !.fptr = @ + Chunk]), Advance
          PROVE  Recorded'
      <3> DEFINE g == [me EXCEPT !.clust = c, !.fptr = @ + Chunk]
      <3>1. g.file = me.file /\ g.objsize = me.objsize /\ g.sclust = me.sclust
        BY <2>3 DEF FIL
      <3>2. fil' = [fil EXCEPT ![cur] = g] /\ call'.op # "truncate"
        BY <2>3, <2>6 DEF Become, Advance, Recorded, Frame
      <3> HIDE DEF g
      <3> QED BY <1>1, <2>1, <2>3, <3>1, <3>2, LargerSame, OneRecorded
    <2> QED BY <1>4, <2>4, <2>5, <2>6 DEF ReadNext
  <1>5. ASSUME WriteDone, EntriesSame, cur \in opened, opened' = opened PROVE Recorded'
    <2> DEFINE g == [me EXCEPT !.modified = TRUE]
    <2>1. me \in FIL /\ me = fil[cur]
      BY <1>1, <1>5, OpenObject DEF me
    <2>2. g.file = me.file /\ g.objsize = me.objsize /\ g.sclust = me.sclust
      BY <2>1 DEF FIL
    <2>3. fil' = [fil EXCEPT ![cur] = g] /\ call'.op # "truncate"
      BY <1>5 DEF WriteDone, Become, Return, Idle
    <2> HIDE DEF g
    <2> QED BY <1>1, <1>5, <2>1, <2>2, <2>3, LargerSame, OneRecorded
  <1>6. ASSUME WriteNext PROVE Recorded'
    <2>1. EntriesSame /\ pc = "write" /\ opened' = opened
      BY <1>6, WriteNextFits, SameEntries DEF WriteNext
    <2>2. call.op = "write"
      BY <2>1 DEF Fits, CallFits, Runs, Creates, Removes, Syncs
    <2>3. cur \in opened
      BY <2>2, CurFile
    <2>4. CASE WriteDone
      BY <1>5, <2>1, <2>3, <2>4
    <2>5. ASSUME NEW c, call.ofs > 0, WriteTo(c) PROVE Recorded'
      BY <1>1, <2>1, <2>3, <2>5, WriteToRecorded
    <2>6. CASE UNCHANGED <<ncl, fil, call, res>>
      BY <1>1, <2>1, <2>6, NoneRecorded DEF Recorded
    <2> QED BY <1>6, <2>4, <2>5, <2>6 DEF WriteNext
  <1>7. ASSUME WriteCreated PROVE Recorded'
    <2>1. EntriesSame /\ call.op = "write" /\ opened' = opened /\ call.ofs > 0
      BY <1>7, WriteCreatedFits, SameEntries DEF WriteCreated, Fits, CallFits, Creates
    <2>2. cur \in opened
      BY <2>1, CurFile
    <2> QED BY <1>1, <1>5, <1>7, <2>1, <2>2, AbortRecorded, WriteToRecorded DEF WriteCreated
  <1>8. ASSUME SeekNext \/ SeekCreated PROVE Recorded'
    BY <1>1, <1>8, SeekRecorded
  <1>9. ASSUME Truncated PROVE Recorded'
    BY <1>9 DEF Truncated, Recorded
  <1>10. ASSUME Flush PROVE Recorded'
    BY <1>1, <1>10, FlushFits, SameEntries, NoneRecorded DEF Flush, Recorded
  <1>11. ASSUME Sunk PROVE Recorded'
    <2>1. EntriesSame
      BY <1>11, SunkFits, Kinds DEF EntriesSame
    <2>2. call'.op # "truncate" /\ opened' \subseteq opened
      BY <1>11 DEF Sunk, Return, Idle
    <2>3. CASE call.op = "unlink"
      BY <1>1, <1>11, <2>1, <2>2, <2>3, NoneRecorded DEF Sunk
    <2>4. CASE call.op # "unlink"
      <3>1. pc = "info"
        BY <1>11 DEF Sunk
      <3>2. cur \in opened /\ me = fil[cur] /\ me \in FIL
        BY <2>4, <3>1, CurFile DEF Fits, CallFits, Runs, Creates, Removes, Syncs
      <3> DEFINE g == [me EXCEPT !.modified = FALSE]
      <3>3. g.file = me.file /\ g.objsize = me.objsize /\ g.sclust = me.sclust
        BY <3>2 DEF FIL
      <3>4. fil' = [fil EXCEPT ![cur] = g]
        BY <1>11, <2>4 DEF Sunk, Become
      <3> HIDE DEF g
      <3> QED BY <1>1, <2>1, <2>2, <3>2, <3>3, <3>4, LargerSame, OneRecorded
    <2> QED BY <2>3, <2>4
  <1>12. ASSUME Unlinked PROVE Recorded'
    BY <1>1, <1>12, UnlinkedFits, SameEntries, NoneRecorded DEF Unlinked, Recorded
  <1> QED BY <1>2, <1>3, <1>4, <1>6, <1>7, <1>8, <1>9, <1>10, <1>11, <1>12 DEF Step, Elsewhere

\* What f_open does to the file objects and the directory, before the first
\* cluster is freed.
LEMMA Opens ==
  ASSUME Fits, NEW p \in Fils \ opened, NEW f \in Files, NEW flags, Open(p, f, flags)
  PROVE  \/ /\ View' = View /\ opened' = opened /\ call' = call
            /\ \A q \in opened : fil'[q] = fil[q]
         \/ /\ View'[f].size = 0 /\ \A g \in Files \ {f} : View'[g] = View[g]
            /\ View'[f].sclust = 0
            /\ fil' = fil /\ opened' = opened /\ call'.op = "open"
         \/ /\ View'[f].size = 0 /\ \A g \in Files \ {f} : View'[g] = View[g]
            /\ View'[f].sclust = 0 /\ opened' = opened \cup {p} /\ call' = call
            /\ \E o : /\ fil' = [fil EXCEPT ![p] = o]
                      /\ o.file = f /\ o.objsize = 0 /\ o.sclust = 0
         \/ /\ View' = View /\ opened' = opened \cup {p} /\ call' = call
            /\ \E o : /\ fil' = [fil EXCEPT ![p] = o]
                      /\ o.file = f /\ o.objsize = View[f].size /\ o.sclust = View[f].sclust
  <1> DEFINE e == View[f]
             empty == [sclust |-> 0, size |-> 0]
             o(x) == Opened(p, f, flags, x)
             c == [o(empty) EXCEPT !.modified = TRUE]
             n == IF "SEEKEND" \in flags /\ e.size > 0 THEN (e.size - 1) \div bcs ELSE 0
             last == Nth(e.sclust, n)
             walked == AlongChain(e.sclust, n)
             create == {"CREATE_NEW", "CREATE_ALWAYS", "OPEN_ALWAYS"} \cap flags # {}
             refused ==
               IF e = NOENTRY THEN IF create THEN {} ELSE {"NO_FILE"}
               ELSE IF f \in ReadOnly /\ (create \/ "WRITE" \in flags) THEN {"DENIED"}
               ELSE IF "CREATE_NEW" \in flags THEN {"EXIST"} ELSE {}
  <1>1. \A x : o(x).file = f /\ o(x).objsize = x.size /\ o(x).sclust = x.sclust
    BY DEF Opened
  <1>2. empty.size = 0 /\ empty.sclust = 0 /\ empty \in DirEntry
    BY DEF DirEntry
  <1>3. c.file = f /\ c.objsize = 0 /\ c.sclust = 0
    BY <1>2 DEF Opened
  <1>4. fil \in [Fils -> FIL] /\ DOMAIN View = Items /\ Files \subseteq Items
    BY ViewIs, Kinds DEF Fits, FilesFit
  <1>5. fil' = [fil EXCEPT ![p].fs = FALSE] => \A q \in opened : fil'[q] = fil[q]
    BY <1>4
  <1>6. Put(f, empty) => View' = [View EXCEPT ![f] = empty]
    <2>1. ContentOf(f, empty)
      BY <1>2 DEF ContentOf
    <2> HIDE DEF empty
    <2> QED BY <1>4, <2>1, Changes DEF Fits
  <1>7. Put(f, empty) => /\ View'[f].size = 0 /\ View'[f].sclust = 0
                         /\ \A g \in Files \ {f} : View'[g] = View[g]
    <2> HIDE DEF empty
    <2> QED BY <1>2, <1>4, <1>6
  <1>8. MoveWindow({DIRSECT}, DIRSECT) \/ walked => View' = View
    BY Moved, SectorNumbers, AlongFits DEF Fits
  <1>9. [Idle EXCEPT !.op = "open", !.fp = p, !.cl = e.sclust, !.new = c].op = "open"
    BY DEF Idle
  <1>10. \/ /\ \E r \in refused : MoveWindow({DIRSECT}, DIRSECT)
            /\ fil' = [fil EXCEPT ![p].fs = FALSE]
            /\ UNCHANGED <<chain, opened, call>>
         \/ /\ Put(f, empty)
            /\ IF e.sclust \in Clusters
                 THEN /\ call' = [Idle EXCEPT !.op = "open", !.fp = p, !.cl = e.sclust, !.new = c]
                      /\ UNCHANGED <<ncl, fil, opened, res>>
                 ELSE /\ fil' = [fil EXCEPT ![p] = c]
                      /\ opened' = opened \cup {p}
                      /\ UNCHANGED <<chain, call>>
         \/ /\ walked
            /\ IF n = 0 \/ last \in Clusters
                 THEN /\ fil' = [fil EXCEPT ![p] = o(e)]
                      /\ opened' = opened \cup {p}
                 ELSE /\ fil' = [fil EXCEPT ![p].fs = FALSE]
                      /\ UNCHANGED opened
            /\ UNCHANGED <<chain, call>>
    BY DEF Open, AlongChain
  <1> HIDE DEF refused, empty, o, c, n, last, walked, e
  <1>11. CASE /\ MoveWindow({DIRSECT}, DIRSECT) \/ walked
              /\ fil' = [fil EXCEPT ![p].fs = FALSE]
              /\ UNCHANGED <<opened, call>>
    BY <1>5, <1>8, <1>11
  <1>12. CASE /\ Put(f, empty)
              /\ call' = [Idle EXCEPT !.op = "open", !.fp = p, !.cl = e.sclust, !.new = c]
              /\ UNCHANGED <<fil, opened>>
    BY <1>7, <1>9, <1>12
  <1>13. CASE /\ Put(f, empty)
              /\ fil' = [fil EXCEPT ![p] = c] /\ opened' = opened \cup {p} /\ UNCHANGED call
    BY <1>3, <1>7, <1>13
  <1>14. CASE /\ walked
              /\ fil' = [fil EXCEPT ![p] = o(e)] /\ opened' = opened \cup {p} /\ UNCHANGED call
    BY <1>1, <1>8, <1>14 DEF e
  <1> QED BY <1>10, <1>11, <1>12, <1>13, <1>14

LEMMA OpenRecorded ==
  ASSUME Fits, Fits', NEW p \in Fils \ opened, NEW f \in Files, NEW flags, NotOpen(f),
         Open(p, f, flags), NEW w, Kept(w), Recorded
  PROVE  Recorded'
  <1>1. OpenFine /\ Shut(w, f) /\ w.fat = View /\ Sorted(w) /\ call.op = "none"
    BY AtIdle DEF Kept, Others, Open
  <1>2. View[f] \in DirEntry /\ View[f].size \in Nat
    BY ViewEntry, EntrySize DEF Fits
  <1>3. First(View[f].sclust) = 0 => View[f].size = 0
    BY <1>1, <1>2, NoHeadNoSize DEF Shut
  <1>4. First(View[f].sclust) \in {0, View[f].sclust}
    BY DEF First
  <1> DEFINE e == View[f]
  <1>5. CASE /\ View' = View /\ opened' = opened /\ call' = call
             /\ \A q \in opened : fil'[q] = fil[q]
    BY <1>1, <1>5, SameEntries, NoneRecorded
  <1>6. CASE /\ \A g \in Files \ {f} : View'[g] = View[g]
             /\ fil' = fil /\ opened' = opened /\ call'.op = "open"
    <2>1. \A q \in opened : fil[q].file \in Files \ {f}
      BY <1>1, OpenObject DEF NotOpen
    <2> QED BY <1>6, <2>1 DEF Recorded
  <1>7. ASSUME NEW o, fil' = [fil EXCEPT ![p] = o], opened' = opened \cup {p}, call' = call,
               o.file = f, \A g \in Files \ {f} : View'[g] = View[g], Behind(View'[f], o)
        PROVE  Recorded'
    BY <1>1, <1>7, OneOpened
  <1>8. CASE /\ View'[f].size = 0 /\ \A g \in Files \ {f} : View'[g] = View[g]
             /\ View'[f].sclust = 0 /\ opened' = opened \cup {p} /\ call' = call
             /\ \E o : /\ fil' = [fil EXCEPT ![p] = o]
                       /\ o.file = f /\ o.objsize = 0 /\ o.sclust = 0
    <2>1. PICK o : fil' = [fil EXCEPT ![p] = o] /\ o.file = f /\ o.objsize = 0 /\ o.sclust = 0
      BY <1>8
    <2>2. Behind(View'[f], o)
      BY <1>8, <2>1, Numbers DEF Behind, First
    <2> QED BY <1>7, <1>8, <2>1, <2>2
  <1>9. CASE /\ View' = View /\ opened' = opened \cup {p} /\ call' = call
             /\ \E o : /\ fil' = [fil EXCEPT ![p] = o]
                       /\ o.file = f /\ o.objsize = e.size /\ o.sclust = e.sclust
    <2>1. PICK o : fil' = [fil EXCEPT ![p] = o] /\ o.file = f /\ o.objsize = e.size /\ o.sclust = e.sclust
      BY <1>9
    <2>2. Behind(View'[f], o)
      BY <1>2, <1>3, <1>4, <1>9, <2>1 DEF Behind
    <2> QED BY <1>7, <1>9, <2>1, <2>2
  <1>10. e = View[f]
    OBVIOUS
  <1> HIDE DEF e
  <1>11. \/ /\ View' = View /\ opened' = opened /\ call' = call
            /\ \A q \in opened : fil'[q] = fil[q]
         \/ /\ View'[f].size = 0 /\ \A g \in Files \ {f} : View'[g] = View[g]
            /\ View'[f].sclust = 0
            /\ fil' = fil /\ opened' = opened /\ call'.op = "open"
         \/ /\ View'[f].size = 0 /\ \A g \in Files \ {f} : View'[g] = View[g]
            /\ View'[f].sclust = 0 /\ opened' = opened \cup {p} /\ call' = call
            /\ \E o : /\ fil' = [fil EXCEPT ![p] = o]
                      /\ o.file = f /\ o.objsize = 0 /\ o.sclust = 0
         \/ /\ View' = View /\ opened' = opened \cup {p} /\ call' = call
            /\ \E o : /\ fil' = [fil EXCEPT ![p] = o]
                      /\ o.file = f /\ o.objsize = e.size /\ o.sclust = e.sclust
    BY <1>10, Opens
  <1> QED BY <1>5, <1>6, <1>8, <1>9, <1>11

LEMMA SyncRecorded ==
  ASSUME Fits, Fits', NEW p \in opened, NEW op \in {"sync", "close"}, Sync(op, p),
         NEW w, Kept(w), Recorded
  PROVE  Recorded'
  <1> DEFINE f == fil[p]
  <1>1. pc = "idle" /\ OpenFine /\ call.op # "truncate"
    BY DEF Sync, Kept, Recorded
  <1>2. /\ p \in Fils /\ f \in FIL /\ f.file \in Files /\ Whole(w, f) /\ Sorted(w)
        /\ f.objsize \in Nat /\ f.sclust \in {0} \cup Clusters
    BY <1>1, Begins
  <1>3. Valid(p) \in BOOLEAN /\ f.modified \in BOOLEAN /\ fil \in [Fils -> FIL]
    BY <1>2, Fields DEF Valid, Fits, FilesFit
  <1>4. CASE View' = View /\ (~Valid(p) \/ ~f.modified)
    <2>1. /\ fil' = [fil EXCEPT ![p].fs = @ /\ op # "close"] /\ call' = call
          /\ opened' = IF op = "close" THEN opened \ {p} ELSE opened
      BY <1>4 DEF Sync
    <2> DEFINE g == [f EXCEPT !.fs = @ /\ op # "close"]
    <2>2. g.file = f.file /\ g.objsize = f.objsize /\ g.sclust = f.sclust
      BY <1>2 DEF FIL
    <2>3. fil' = [fil EXCEPT ![p] = g]
      BY <1>2, <1>3, <2>1
    <2> HIDE DEF g
    <2>4. EntriesSame /\ opened' \subseteq opened /\ call'.op # "truncate"
      BY <1>1, <1>4, <2>1, SameEntries
    <2> QED BY <1>1, <1>2, <2>2, <2>3, <2>4, LargerSame, OneRecorded
  <1>5. CASE /\ View' = [View EXCEPT ![f.file] = [sclust |-> f.sclust, size |-> f.objsize]]
             /\ fil' = fil /\ opened' = opened /\ call'.op = op
    <2> SUFFICES ASSUME NEW q \in opened PROVE Behind(View'[fil[q].file], fil[q])
      BY <1>5 DEF Recorded
    <2>1. DOMAIN View = Items /\ f.file \in Items
      BY <1>2, ViewIs, Kinds
    <2>2. CASE q = p
      <3>1. View'[f.file].sclust = f.sclust /\ View'[f.file].size = f.objsize
        BY <1>5, <2>1
      <3>2. First(f.sclust) = f.sclust /\ (f.sclust = 0 => f.objsize = 0)
        BY <1>2, NoHeadNoSize DEF First, Whole
      <3> QED BY <1>2, <2>2, <3>1, <3>2 DEF Behind
    <2>3. CASE q # p
      <3>1. fil[q].file # f.file
        BY <1>1, <2>3 DEF OpenFine
      <3>2. View'[fil[q].file] = View[fil[q].file]
        BY <1>5, <2>1, <3>1
      <3> QED BY <3>2 DEF Recorded
    <2> QED BY <2>2, <2>3
  <1> QED BY <1>4, <1>5, SyncFits

LEMMA UnlinkRecorded ==
  ASSUME Fits, NEW f \in Files, NotOpen(f), Unlink(f), OpenFine, Recorded
  PROVE  Recorded'
  <1>1. fil' = fil /\ opened' = opened
    BY DEF Unlink
  <1>2. (View' = View /\ call' = call) \/ (View' = [View EXCEPT ![f] = NOENTRY] /\ call'.op = "unlink")
    BY UnlinkFits
  <1>3. \A q \in opened : View'[fil[q].file] = View[fil[q].file]
    <2>1. \A q \in opened : fil[q].file \in Items /\ fil[q].file # f
      BY OpenObject, Kinds DEF NotOpen
    <2> QED BY <1>2, <2>1, ViewIs
  <1> QED BY <1>1, <1>2, <1>3 DEF Recorded

LEMMA SeekStartRecorded ==
  ASSUME Fits, Fits', NEW p \in opened, NEW o \in Nat, Seek(p, o), OpenFine, Recorded
  PROVE  Recorded'
  <1>1. opened' = opened /\ EntriesSame
    BY SeekFits, SameEntries DEF Seek
  <1>2. call'.op # "truncate"
    BY DEF Seek, Enter, Idle, Recorded
  <1>3. p \in Fils /\ fil[p] \in FIL /\ fil \in [Fils -> FIL]
    BY OpenObject DEF Fits, FilesFit
  <1>4. ASSUME NEW q \in opened' PROVE q \in opened /\ Larger(fil[q], fil'[q])
    <2>1. q \in opened /\ q \in Fils /\ fil[q] \in FIL
      BY <1>1, OpenObject
    <2>2. CASE q = p
      <3>1. /\ fil'[p].file = fil[p].file /\ fil'[p].objsize = fil[p].objsize
            /\ fil'[p].sclust = fil[p].sclust
        BY <1>3 DEF Seek, FIL
      <3> QED BY <1>3, <2>1, <2>2, <3>1, LargerSame
    <2>3. CASE q # p
      <3>1. fil'[q] = fil[q]
        BY <1>3, <2>1, <2>3 DEF Seek
      <3> QED BY <2>1, <3>1, LargerSame
    <2> QED BY <2>2, <2>3
  <1> QED BY <1>1, <1>2, <1>4, StillRecorded

LEMMA CallRecorded ==
  ASSUME "Truncate" \notin Calls, Fits, Fits', Call, NEW w, Kept(w), Recorded
  PROVE  Recorded'
  <1>1. OpenFine
    BY DEF Kept
  <1>2. ASSUME View' = View, fil' = fil, opened' = opened, call'.op # "truncate"
        PROVE  Recorded'
    BY <1>1, <1>2, SameEntries, NoneRecorded
  <1>3. ASSUME NEW p \in opened, NEW n \in 0 .. MaxBytes, Read(p, n) \/ Write(p, n)
        PROVE  Recorded'
    <2>1. n \in Nat
      BY VolumeAssumption
    <2>2. View' = View
      BY <1>3, <2>1, ReadFits, WriteFits
    <2> QED BY <1>2, <1>3, <2>2 DEF Read, Write, Enter, Refuse, Idle, Recorded
  <1>4. ASSUME NEW p \in opened, NEW o \in 0 .. MaxOffset, Seek(p, o) PROVE Recorded'
    <2>1. o \in Nat
      BY VolumeAssumption
    <2> QED BY <1>1, <1>4, <2>1, SeekStartRecorded
  <1>5. ASSUME NEW p \in opened, Unusable(p) PROVE Recorded'
    BY <1>2, <1>5, UnusableFits DEF Unusable, Refuse, Recorded
  <1>6. ASSUME GetFree PROVE Recorded'
    BY <1>2, <1>6, GetFreeFits DEF GetFree, Recorded
  <1> QED BY <1>1, <1>3, <1>4, <1>5, <1>6, OpenRecorded, SyncRecorded, UnlinkRecorded DEF Call

-----------------------------------------------------------------------------
\* The card.

\* A step leaves the files and the FAT on the card alone, or brings them up to
\* date.
CardSteps ==
  \/ \A x \in Clusters \cup Files : card'[x] = card[x]
  \/ \A x \in Clusters \cup Files : card'[x] = View[x]

LEMMA FlushedView ==
  ASSUME WindowFits
  PROVE  \A x \in Items : Flushed[x] = View[x]
  BY ItemSets DEF Flushed, View, WindowFits

LEMMA ViaSteps ==
  ASSUME WindowFits, NEW S, card' = CardVia(S)
  PROVE  CardSteps
  <1>1. Clusters \cup Files \subseteq Items
    BY Kinds
  <1> QED BY <1>1, FlushedView DEF CardVia, CardSteps

LEMMA CardMoves ==
  ASSUME WindowFits
  PROVE  /\ \A S, s : MoveWindow(S, s) => CardSteps
         /\ \A x, v : Put(x, v) => CardSteps
         /\ UNCHANGED window \/ UNCHANGED disk \/ UNCHANGED card => CardSteps
         /\ SyncWindow => CardSteps
         /\ WriteInfo => CardSteps
  <1>1. ASSUME NEW S, NEW s, MoveWindow(S, s) PROVE CardSteps
    BY <1>1, ViaSteps DEF MoveWindow
  <1>2. ASSUME NEW x, NEW v, Put(x, v) PROVE CardSteps
    BY <1>2, ViaSteps DEF Put
  <1>3. UNCHANGED window \/ UNCHANGED disk \/ UNCHANGED card => CardSteps
    BY DEF window, disk, CardSteps
  <1>4. ASSUME SyncWindow PROVE CardSteps
    BY <1>4, FlushedView, Kinds DEF SyncWindow, CardSteps
  <1>5. ASSUME WriteInfo PROVE CardSteps
    <2>1. \A x \in Clusters \cup Files : x # FSINFO /\ x \in DOMAIN card
      BY Kinds, Numbers, CardEntry
    <2>2. (card' = [card EXCEPT ![FSINFO] = win'[FSINFO]]) \/ UNCHANGED window
      BY <1>5 DEF WriteInfo
    <2> QED BY <1>3, <2>1, <2>2 DEF CardSteps
  <1> QED BY <1>1, <1>2, <1>3, <1>4, <1>5

LEMMA EveryCardStep ==
  ASSUME Fits, [Next]_volume
  PROVE  CardSteps
  <1>1. WindowFits
    BY DEF Fits
  <1>2. CASE UNCHANGED volume
    BY <1>1, <1>2, CardMoves DEF volume
  <1>3. ASSUME ChainStep PROVE CardSteps
    BY <1>1, <1>3, CardMoves DEF ChainStep, Follow, Full, Find, Mark, Link, Cut, FreeNext
  <1>4. ASSUME OpenEmptied \/ ReadNext \/ WriteNext \/ WriteCreated \/ SeekNext \/ SeekCreated
        PROVE  CardSteps
    BY <1>1, <1>4, CardMoves DEF OpenEmptied, ReadNext, WriteNext, WriteCreated, SeekNext, SeekCreated
  <1>5. ASSUME Truncated \/ Flush \/ Sunk \/ Unlinked PROVE CardSteps
    BY <1>1, <1>5, CardMoves DEF Truncated, Flush, Sunk, Unlinked
  <1>6. ASSUME NEW p, NEW f, NEW flags, Open(p, f, flags) PROVE CardSteps
    BY <1>1, <1>6, CardMoves DEF Open
  <1>7. ASSUME NEW p, NEW n, Read(p, n) \/ Write(p, n) \/ Seek(p, n) PROVE CardSteps
    BY <1>1, <1>7, CardMoves DEF Read, Write, Seek, Refuse
  <1>8. ASSUME NEW p, NEW op, Unusable(p) \/ Truncate(p) \/ Sync(op, p) PROVE CardSteps
    BY <1>1, <1>8, CardMoves DEF Unusable, Refuse, Truncate, Sync
  <1>9. ASSUME NEW f, Unlink(f) \/ GetFree PROVE CardSteps
    BY <1>1, <1>9, CardMoves DEF Unlink, GetFree
  <1>10. ASSUME PowerCycle PROVE CardSteps
    BY <1>1, <1>10, CardMoves DEF PowerCycle
  <1>11. Call => CardSteps
    BY <1>6, <1>7, <1>8, <1>9 DEF Call
  <1>12. Step => CardSteps
    BY <1>3, <1>4, <1>5 DEF Step
  <1> QED BY <1>2, <1>10, <1>11, <1>12 DEF Next

\* What a chain is depends on the FAT alone.
LEMMA SameWalk ==
  ASSUME NEW m, NEW k, \A c \in Clusters : m[c] = k[c], NEW first
  PROVE  ChainIn(m, first) = ChainIn(k, first)
  <1> DEFINE T == {n \in Nat : Walk(m, first)[n] = Walk(k, first)[n]}
  <1>1. \A c : EntryOf(m, c) = EntryOf(k, c)
    BY DEF EntryOf
  <1>2. 0 \in T
    BY Walks
  <1>3. ASSUME NEW n \in Nat, n \in T PROVE n + 1 \in T
    <2>1. Walk(m, first)[n + 1] = Walk(k, first)[n + 1]
      BY <1>1, <1>3, Walks
    <2> QED BY <2>1
  <1> HIDE DEF T
  <1>4. Nat \subseteq T
    BY <1>2, <1>3, AllNumbers
  <1>5. \A n \in 0 .. n_fatent : Walk(m, first)[n] = Walk(k, first)[n]
    BY <1>4 DEF T
  <1> QED BY <1>5 DEF ChainIn

LEMMA SameSound ==
  ASSUME NEW m, NEW k, \A x \in Clusters \cup Files : m[x] = k[x], Sound(k, k)
  PROVE  Sound(m, m)
  <1>1. \A f \in Files : m[f] = k[f] /\ ChainIn(m, m[f].sclust) = ChainIn(k, k[f].sclust)
    BY SameWalk
  <1>2. \A first : ChainIn(k, first) \subseteq Clusters
    BY DEF ChainIn
  <1> QED BY <1>1, <1>2 DEF Sound

-----------------------------------------------------------------------------

Crashes == "Truncate" \notin Calls => Recorded /\ CardSound

LEMMA NextLinked ==
  ASSUME "PowerCycle" \notin Calls \/ "Truncate" \notin Calls,
         Fits, Linked, Crashes, [Next]_volume
  PROVE  Linked'
  <1>1. CASE "PowerCycle" \in Calls /\ PowerCycle
    BY <1>1, PowerCycleKeeps DEF Crashes, CardSound
  <1>2. CASE UNCHANGED volume \/ Call \/ Step
    BY <1>2, NextKeeps
  <1> QED BY <1>1, <1>2 DEF Next

LEMMA NextCrashes ==
  ASSUME Fits, Linked, Crashes, [Next]_volume
  PROVE  Crashes'
  <1> SUFFICES ASSUME "Truncate" \notin Calls PROVE Recorded' /\ CardSound'
    BY DEF Crashes
  <1>1. Recorded /\ CardSound /\ Fits'
    BY NextFits DEF Crashes
  <1>2. PICK w : Kept(w)
    BY DEF Linked
  <1>3. ASSUME UNCHANGED volume PROVE Recorded'
    BY <1>1, <1>3 DEF volume, disk, window, Recorded, View
  <1>4. ASSUME PowerCycle PROVE Recorded'
    BY <1>4 DEF PowerCycle, Return, Idle, Recorded
  <1>5. Recorded'
    BY <1>1, <1>2, <1>3, <1>4, CallRecorded, StepRecorded DEF Next
  <1>6. CardSound'
    <2>1. Sound(View, View) /\ Sound(card, card)
      BY <1>1, ViewSound DEF CardSound
    <2>2. Sound(card', card')
      BY <2>1, EveryCardStep, SameSound DEF CardSteps
    <2> QED BY <2>2 DEF CardSound
  <1> QED BY <1>5, <1>6

LEMMA InitCrashes == Init => Crashes
  <1> SUFFICES ASSUME Init PROVE Recorded /\ CardSound
    BY DEF Crashes
  <1>1. card \in InitCards /\ opened = {} /\ call.op = "none"
    BY DEF Init, PowerOn, Idle
  <1> QED BY <1>1, CardAssumption DEF Recorded, CardSound

\* A call that has begun is part of the invariant, whatever it has done so far.
LEMMA AlwaysLinked ==
  ASSUME "PowerCycle" \notin Calls \/ "Truncate" \notin Calls
  PROVE  Spec => [](Fits /\ Linked /\ Crashes)
  <1>1. Init => Fits /\ Linked /\ Crashes
    BY InitFits, InitKeeps, InitCrashes
  <1>2. Fits /\ Linked /\ Crashes /\ [Next]_volume => (Fits /\ Linked /\ Crashes)'
    BY NextFits, NextLinked, NextCrashes
  <1> QED BY <1>1, <1>2, PTL DEF Spec

\* Unless f_truncate is called, the card by itself makes sense at every instant:
\* wherever a function is when the console is switched off, no file on the card
\* has a chain too short for its size, a freed cluster or one of another file.
THEOREM CardKept ==
  ASSUME "Truncate" \notin Calls
  PROVE  Spec => []CardSound
  <1>1. Crashes => CardSound
    BY DEF Crashes
  <1> QED BY <1>1, AlwaysLinked, PTL

\* Every file has at every return of a function a chain of its own that ends and
\* is long enough for its size, open or not, also after the console was switched
\* off, if f_truncate is not called then.
THEOREM FilesKeepChains ==
  ASSUME "PowerCycle" \notin Calls \/ "Truncate" \notin Calls
  PROVE  Spec => []FilesSound
  <1>1. Fits /\ Linked => FilesSound
    BY KeptSound DEF Linked, FilesSound
  <1> QED BY <1>1, AlwaysLinked, PTL

\* While the console stays on, no cluster is taken that no file has, at every
\* return of a function: what is cut off, emptied or removed is freed to the end.
THEOREM ClustersKept ==
  ASSUME "PowerCycle" \notin Calls
  PROVE  Spec => []NoLostClusters
  <1>1. Fits /\ Linked => NoLostClusters
    <2> SUFFICES ASSUME Fits, Linked, pc = "idle" PROVE NoLostClusters
      BY DEF NoLostClusters
    <2> QED BY KeptSound DEF Linked
  <1> QED BY <1>1, AlwaysLinked, PTL

\* At every return of a function, clust of an open file is the cluster of the
\* byte before its position, whichever functions have moved the two.
THEOREM CursorsKept ==
  ASSUME "PowerCycle" \notin Calls \/ "Truncate" \notin Calls
  PROVE  Spec => []CursorOnChain
  <1>1. Fits /\ Linked => CursorOnChain
    <2> SUFFICES ASSUME Fits, Linked, pc = "idle" PROVE CursorOnChain
      BY DEF CursorOnChain
    <2> QED BY KeptCursor DEF Linked
  <1> QED BY <1>1, AlwaysLinked, PTL

\* A file without FA_MODIFIED is in the directory as it is in its object, so that
\* f_close may write nothing for it.
THEOREM UnmodifiedKept ==
  ASSUME "PowerCycle" \notin Calls \/ "Truncate" \notin Calls
  PROVE  Spec => []UnmodifiedIsCurrent
  <1>1. Fits /\ Linked => UnmodifiedIsCurrent
    <2> SUFFICES ASSUME Fits, Linked, pc = "idle" PROVE UnmodifiedIsCurrent
      BY DEF UnmodifiedIsCurrent
    <2> QED BY KeptCursor DEF Linked
  <1> QED BY <1>1, AlwaysLinked, PTL

-----------------------------------------------------------------------------
\* The count of free clusters.

FreeCount == Cardinality(FreeClusters)

\* Between the two writes of create_chain the new cluster is still counted as free.
CountRight ==
  fs_type # 0 /\ free_clst <= n_fatent - 2 =>
    free_clst = IF pc = "link" THEN FreeCount + 1 ELSE FreeCount

CardRight ==
  fs_type = 0 =>
    /\ pc = "idle"
    /\ HasInfo /\ card[FSINFO].free <= n_fatent - 2 => card[FSINFO].free = FreeCount

FullRight == pc = "created" /\ ncl = NOSPACE => FreeClusters = {}

Counted == CountRight /\ CardRight /\ FullRight

LEMMA FreeSame ==
  ASSUME \A c \in Clusters : View'[c] = FREE <=> View[c] = FREE
  PROVE  FreeClusters' = FreeClusters /\ FreeCount' = FreeCount
  <1>1. FreeClusters' = FreeClusters
    BY DEF FreeClusters
  <1> QED BY <1>1 DEF FreeCount

LEMMA FreeTaken ==
  ASSUME NEW c \in Clusters, View[c] = FREE, View'[c] # FREE,
         \A d \in Clusters \ {c} : View'[d] = View[d]
  PROVE  FreeCount \in Nat /\ FreeCount > 0 /\ FreeCount' = FreeCount - 1
  <1>1. c \in FreeClusters /\ FreeClusters' = FreeClusters \ {c}
    BY DEF FreeClusters
  <1>2. IsFiniteSet(FreeClusters) /\ FreeCount \in 0 .. n_fatent - 2
    BY FreeClustersCount DEF FreeCount
  <1>3. Cardinality(FreeClusters \ {c}) = FreeCount - 1
    BY <1>1, <1>2, FS_RemoveElement DEF FreeCount
  <1>4. Cardinality(FreeClusters \ {c}) \in Nat
    BY <1>2, FS_RemoveElement, FS_CardinalityType
  <1>5. FreeCount' = FreeCount - 1
    BY <1>1, <1>3 DEF FreeCount
  <1> QED BY <1>2, <1>3, <1>4, <1>5, Numbers

LEMMA FreeGiven ==
  ASSUME NEW c \in Clusters, View[c] # FREE, View'[c] = FREE,
         \A d \in Clusters \ {c} : View'[d] = View[d]
  PROVE  FreeCount \in Nat /\ FreeCount < n_fatent - 2 /\ FreeCount' = FreeCount + 1
  <1>1. c \notin FreeClusters /\ FreeClusters' = FreeClusters \cup {c}
    BY DEF FreeClusters
  <1>2. IsFiniteSet(FreeClusters) /\ FreeCount \in 0 .. n_fatent - 2
    BY FreeClustersCount DEF FreeCount
  <1>3. Cardinality(FreeClusters \cup {c}) = FreeCount + 1
    BY <1>1, <1>2, FS_AddElement DEF FreeCount
  <1>4. FreeClusters \cup {c} \subseteq Clusters
    BY DEF FreeClusters
  <1>5. Cardinality(FreeClusters \cup {c}) <= n_fatent - 2
    BY <1>4, FiniteClusters, FS_Subset
  <1>6. FreeCount' = FreeCount + 1
    BY <1>1, <1>3 DEF FreeCount
  <1> QED BY <1>2, <1>3, <1>5, <1>6, Numbers

\* A step that leaves the FAT and the count alone.
LEMMA CountSame ==
  ASSUME Counted, \A c \in Clusters : View'[c] = FREE <=> View[c] = FREE,
         fs_type # 0, fs_type' = fs_type, free_clst' = free_clst,
         pc # "link", pc' # "link", pc' # "created" \/ (ncl' = NOSPACE => FreeClusters = {})
  PROVE  Counted'
  <1>1. FreeClusters' = FreeClusters /\ FreeCount' = FreeCount
    BY FreeSame
  <1> QED BY <1>1 DEF Counted, CountRight, CardRight, FullRight

LEMMA Mountedness ==
  ASSUME Counted, pc # "idle" \/ (OpenFine /\ opened # {})
  PROVE  fs_type # 0
  BY DEF Counted, CardRight, OpenFine

LEMMA FullCounts ==
  ASSUME Fits, Full, Elsewhere, Counted
  PROVE  Counted'
  <1>1. View' = View /\ fs_type' = fs_type /\ free_clst' = free_clst /\ pc = "create" /\ pc' = "created"
    BY FullFits DEF Full, Elsewhere, alloc
  <1>2. fs_type # 0
    BY <1>1, Mountedness
  <1>3. IsFiniteSet(FreeClusters) /\ FreeCount \in Nat
    BY FreeClustersCount, FS_CardinalityType DEF FreeCount
  <1>4. FreeClusters = {}
    <2>1. CASE free_clst = 0
      <3>1. FreeCount = 0
        BY <1>1, <1>2, <2>1, Numbers DEF Counted, CountRight
      <3> QED BY <1>3, <3>1, FS_EmptySet DEF FreeCount
    <2> QED BY <2>1 DEF Full, Exhausted
  <1> QED BY <1>1, <1>2, <1>4, CountSame

LEMMA FollowCounts ==
  ASSUME Fits, Follow, Elsewhere, Counted
  PROVE  Counted'
  <1>1. View' = View /\ fs_type' = fs_type /\ free_clst' = free_clst /\ pc = "create" /\ pc' = "created"
    BY FollowFits DEF Follow, Elsewhere, alloc
  <1>2. ncl' # NOSPACE
    BY Numbers DEF Follow, NOSPACE, INSANITY, FREE
  <1> QED BY <1>1, <1>2, Mountedness, CountSame

LEMMA FindCounts ==
  ASSUME Fits, Find, Elsewhere, Counted
  PROVE  Counted'
  <1>1. View' = View /\ fs_type' = fs_type /\ free_clst' = free_clst /\ pc = "create" /\ pc' = "mark"
    BY FindFits DEF Find, Elsewhere, alloc
  <1> QED BY <1>1, Mountedness, CountSame

LEMMA MarkCounts ==
  ASSUME Fits, Mark, Elsewhere, Counted, NEW w, Kept(w)
  PROVE  Counted'
  <1>1. View' = [View EXCEPT ![ncl] = EOC] /\ fs_type' = fs_type /\ pc = "mark" /\ ncl' = ncl
    BY MarkFits DEF Mark, Elsewhere
  <1>2. fs_type # 0
    BY <1>1, Mountedness
  <1>3. ncl \in Clusters /\ View[ncl] = FREE
    BY <1>1 DEF Fits, ChainFits, Kept, Mine, CreateMine, MarkMine, Creates
  <1>4. View'[ncl] # FREE /\ \A d \in Clusters \ {ncl} : View'[d] = View[d]
    BY <1>1, <1>3, Kinds, Numbers DEF View
  <1>5. FreeCount \in Nat /\ FreeCount > 0 /\ FreeCount' = FreeCount - 1
    BY <1>3, <1>4, FreeTaken
  <1>6. free_clst \in Nat /\ n_fatent \in Nat
    BY Numbers DEF Fits, AllocFits
  <1>7. ncl # NOSPACE
    BY <1>3, Numbers DEF NOSPACE
  <1>8. CASE clst = 0
    <2>1. pc' = "created" /\ free_clst' = IF free_clst \in 1 .. n_fatent - 2 THEN free_clst - 1 ELSE free_clst
      BY <1>8 DEF Mark, Allocated
    <2> QED BY <1>1, <1>2, <1>5, <1>6, <1>7, <2>1 DEF Counted, CountRight, CardRight, FullRight
  <1>9. CASE clst # 0
    <2>1. pc' = "link" /\ free_clst' = free_clst
      BY <1>9 DEF Mark, alloc
    <2> QED BY <1>1, <1>2, <1>5, <1>6, <1>7, <2>1 DEF Counted, CountRight, CardRight, FullRight
  <1> QED BY <1>8, <1>9

LEMMA LinkCounts ==
  ASSUME Fits, Link, Elsewhere, Counted, NEW w, Kept(w)
  PROVE  Counted'
  <1>1. /\ View' = [View EXCEPT ![clst] = ncl] /\ fs_type' = fs_type /\ pc = "link" /\ ncl' = ncl
        /\ pc' = "created"
        /\ free_clst' = IF free_clst \in 1 .. n_fatent - 2 THEN free_clst - 1 ELSE free_clst
    BY LinkFits DEF Link, Elsewhere, Allocated
  <1>2. fs_type # 0
    BY <1>1, Mountedness
  <1>3. ncl \in Clusters /\ clst \in Clusters /\ clst # 0
    BY <1>1, Numbers DEF Fits, ChainFits
  <1>4. View[clst] = EOC
    BY <1>1, <1>3 DEF Kept, Mine, CreateMine, EndMine, Creates
  <1>5. \A d \in Clusters : View'[d] = FREE <=> View[d] = FREE
    BY <1>1, <1>3, <1>4, Kinds, Numbers DEF View
  <1>6. FreeCount' = FreeCount /\ FreeCount \in Nat
    BY <1>5, FreeSame, FreeClustersCount, FS_CardinalityType DEF FreeCount
  <1>7. free_clst \in Nat /\ n_fatent \in Nat /\ ncl # NOSPACE
    BY <1>3, Numbers DEF Fits, AllocFits, NOSPACE
  <1> QED BY <1>1, <1>2, <1>6, <1>7 DEF Counted, CountRight, CardRight, FullRight

LEMMA CutCounts ==
  ASSUME Fits, Cut, Elsewhere, Counted, NEW w, Kept(w)
  PROVE  Counted'
  <1>1. /\ View' = [View EXCEPT ![ncl] = EOC] /\ fs_type' = fs_type /\ free_clst' = free_clst
        /\ pc = "cut" /\ pc' = "free"
    BY CutFits DEF Cut, Elsewhere, alloc
  <1>2. call.op = "truncate"
    BY <1>1 DEF Fits, CallFits, Runs, Creates, Removes, Syncs
  <1>3. ncl \in Clusters /\ clst \in Clusters /\ View[ncl] = clst
    BY <1>1, <1>2 DEF Fits, ChainFits, Kept, Mine, TruncateMine
  <1>4. \A d \in Clusters : View'[d] = FREE <=> View[d] = FREE
    BY <1>1, <1>3, Kinds, Numbers DEF View
  <1> QED BY <1>1, <1>4, Mountedness, CountSame

LEMMA FreeNextCounts ==
  ASSUME Fits, FreeNext, Elsewhere, Counted, NEW w, Kept(w)
  PROVE  Counted'
  <1>1. clst \in Taken(View)
    BY FreeNextKeeps
  <1>2. clst \in Clusters /\ View[clst] # FREE /\ clst # 0
    BY <1>1, Numbers DEF Taken
  <1>3. /\ View' = [View EXCEPT ![clst] = FREE] /\ fs_type' = fs_type /\ pc = "free"
        /\ pc' \in {"free", "removed"}
        /\ free_clst' = IF free_clst < n_fatent - 2 THEN free_clst + 1 ELSE free_clst
    BY <1>2, FreeNextFits DEF FreeNext, Elsewhere
  <1>4. fs_type # 0
    BY <1>3, Mountedness
  <1>5. View'[clst] = FREE /\ \A d \in Clusters \ {clst} : View'[d] = View[d]
    BY <1>2, <1>3, Kinds DEF View
  <1>6. FreeCount \in Nat /\ FreeCount < n_fatent - 2 /\ FreeCount' = FreeCount + 1
    BY <1>2, <1>5, FreeGiven
  <1>7. free_clst \in Nat /\ n_fatent \in Nat
    BY Numbers DEF Fits, AllocFits
  <1> QED BY <1>3, <1>4, <1>6, <1>7 DEF Counted, CountRight, CardRight, FullRight

\* The count is taken over from the card when the volume is mounted.
LEMMA MountCounts ==
  ASSUME Fits, Counted, MountVolume, \A c \in Clusters : View'[c] = FREE <=> View[c] = FREE,
         pc = "idle", pc' \notin {"link", "created"}
  PROVE  Counted'
  <1>1. FreeCount' = FreeCount /\ FreeCount \in Nat
    BY FreeSame, FreeClustersCount, FS_CardinalityType DEF FreeCount
  <1>2. fs_type' = 1 /\ fs_type' # 0
    BY Mounted DEF Fits
  <1>3. CASE fs_type # 0
    <2>1. free_clst' = free_clst
      BY <1>3 DEF MountVolume, AtMount
    <2> QED BY <1>1, <1>2, <1>3, <2>1 DEF Counted, CountRight, CardRight, FullRight
  <1>4. CASE fs_type = 0
    <2>1. free_clst' = IF HasInfo THEN card[FSINFO].free ELSE n_fatent
      BY <1>4 DEF MountVolume, AtMount, UNKNOWN
    <2>2. ~(n_fatent <= n_fatent - 2)
      BY Numbers
    <2> QED BY <1>1, <1>2, <1>4, <2>1, <2>2 DEF Counted, CountRight, CardRight, FullRight
  <1> QED BY <1>3, <1>4

LEMMA EntryAlone ==
  ASSUME NEW f \in Files, NEW v, View' = [View EXCEPT ![f] = v]
  PROVE  \A c \in Clusters : View'[c] = View[c]
  <1>1. DOMAIN View = Items
    BY DEF View
  <1>2. \A c \in Clusters : c # f /\ c \in DOMAIN View
    BY <1>1, Kinds, Numbers
  <1> QED BY <1>2

LEMMA OpenCounts ==
  ASSUME Fits, NEW p, NEW f \in Files, NEW flags, Open(p, f, flags), Counted
  PROVE  Counted'
  <1> DEFINE e == View[f]
             empty == [sclust |-> 0, size |-> 0]
             n == IF "SEEKEND" \in flags /\ e.size > 0 THEN (e.size - 1) \div bcs ELSE 0
             walked == AlongChain(e.sclust, n)
  <1>1. pc = "idle" /\ MountVolume /\ pc' \notin {"link", "created"}
    BY DEF Open, chain
  <1>2. MoveWindow({DIRSECT}, DIRSECT) \/ Put(f, empty) \/ walked
    BY DEF Open, AlongChain
  <1>3. CASE Put(f, empty)
    <2>1. ContentOf(f, empty)
      BY DEF ContentOf, DirEntry
    <2> HIDE DEF empty
    <2>2. View' = [View EXCEPT ![f] = empty]
      BY <1>3, <2>1, Kinds, Changes DEF Fits
    <2>3. \A c \in Clusters : View'[c] = View[c]
      BY <2>2, EntryAlone
    <2> QED BY <1>1, <2>3, MountCounts
  <1>4. CASE MoveWindow({DIRSECT}, DIRSECT) \/ walked
    <2>1. MoveWindow({DIRSECT}, DIRSECT) => View' = View
      BY Moved, SectorNumbers DEF Fits
    <2>2. walked => View' = View
      BY AlongFits DEF Fits
    <2> QED BY <1>1, <1>4, <2>1, <2>2, MountCounts
  <1> HIDE DEF walked, empty
  <1> QED BY <1>2, <1>3, <1>4

LEMMA UnlinkCounts ==
  ASSUME Fits, NEW f \in Files, Unlink(f), Counted
  PROVE  Counted'
  <1>1. pc = "idle" /\ MountVolume /\ pc' \notin {"link", "created"}
    BY DEF Unlink, chain
  <1>2. View' = View \/ View' = [View EXCEPT ![f] = NOENTRY]
    BY UnlinkFits
  <1>3. \A c \in Clusters : View'[c] = View[c]
    BY <1>2, EntryAlone
  <1> QED BY <1>1, <1>3, MountCounts

LEMMA GetFreeCounts ==
  ASSUME Fits, GetFree, Counted
  PROVE  Counted'
  <1>1. pc = "idle" /\ pc' = pc /\ View' = View
    BY GetFreeFits DEF GetFree, chain
  <1>2. CASE MountVolume
    BY <1>1, <1>2, MountCounts
  <1>3. CASE fs_type' = 1 /\ free_clst' = Cardinality(FreeClusters)
    <2>1. FreeCount' = FreeCount
      BY <1>1, FreeSame
    <2> QED BY <1>1, <1>3, <2>1 DEF Counted, CountRight, CardRight, FullRight, FreeCount
  <1> QED BY <1>2, <1>3 DEF GetFree

\* What is done with an open file leaves the count alone, the chains apart.
LEMMA FileCounts ==
  ASSUME Fits, NEW p \in opened, OpenFine, Counted,
         \/ Unusable(p) \/ Truncate(p) \/ Sync("sync", p) \/ Sync("close", p)
         \/ \E n \in Nat : Read(p, n) \/ Write(p, n) \/ Seek(p, n)
  PROVE  Counted'
  <1>1. fs_type # 0
    BY Mountedness
  <1>2. ASSUME View' = View \/ \E f \in Files : \E v : View' = [View EXCEPT ![f] = v],
               pc = "idle", pc' \notin {"link", "created"}, fs_type' = fs_type, free_clst' = free_clst
        PROVE  Counted'
    <2>1. \A c \in Clusters : View'[c] = View[c]
      BY <1>2, EntryAlone
    <2> QED BY <1>1, <1>2, <2>1, CountSame
  <1>3. ASSUME Unusable(p) PROVE Counted'
    BY <1>2, <1>3, UnusableFits DEF Unusable, Refuse, disk, alloc, chain
  <1>4. ASSUME Truncate(p) PROVE Counted'
    BY <1>2, <1>4, TruncateFits DEF Truncate, Enter, alloc, chain
  <1>5. ASSUME NEW op \in {"sync", "close"}, Sync(op, p) PROVE Counted'
    <2>1. /\ pc = "idle" /\ pc' \in {"idle", "flush"} /\ fs_type' = fs_type /\ free_clst' = free_clst
      BY <1>5 DEF Sync, Enter, alloc, chain
    <2>2. CASE View' = View
      BY <1>2, <2>1, <2>2
    <2>3. CASE /\ View' = [View EXCEPT ![fil[p].file] =
                            [sclust |-> fil[p].sclust, size |-> fil[p].objsize]]
               /\ Valid(p)
      <3>1. fil[p].file \in Files
        BY <2>3 DEF Valid, Fits, FilesFit
      <3> QED BY <1>2, <2>1, <2>3, <3>1
    <2> QED BY <1>5, <2>2, <2>3, SyncFits
  <1>6. ASSUME NEW n \in Nat, Read(p, n) PROVE Counted'
    BY <1>2, <1>6, ReadFits DEF Read, Enter, disk, alloc
  <1>7. ASSUME NEW n \in Nat, Write(p, n) PROVE Counted'
    BY <1>2, <1>7, WriteFits DEF Write, Enter, Refuse, disk, alloc, chain
  <1>8. ASSUME NEW n \in Nat, Seek(p, n) PROVE Counted'
    BY <1>2, <1>8, SeekFits DEF Seek, Enter, disk, alloc, chain
  <1> QED BY <1>3, <1>4, <1>5, <1>6, <1>7, <1>8

LEMMA StepCounts ==
  ASSUME Fits, Step, Counted, NEW w, Kept(w)
  PROVE  Counted'
  <1>1. ASSUME ChainStep, Elsewhere PROVE Counted'
    BY <1>1, FollowCounts, FullCounts, FindCounts, MarkCounts, LinkCounts, CutCounts, FreeNextCounts
       DEF ChainStep
  <1>2. ASSUME \A c \in Clusters : View'[c] = View[c], pc \notin {"idle", "link"},
               pc' \notin {"link", "created"}, fs_type' = fs_type, free_clst' = free_clst
        PROVE  Counted'
    BY <1>2, Mountedness, CountSame
  <1>3. ASSUME OpenEmptied PROVE Counted'
    BY <1>2, <1>3, OpenEmptiedFits DEF OpenEmptied, Return
  <1>4. ASSUME ReadNext PROVE Counted'
    BY <1>2, <1>4, ReadNextFits DEF ReadNext, Return, Abort, alloc, chain
  <1>5. ASSUME WriteNext PROVE Counted'
    BY <1>2, <1>5, WriteNextFits DEF WriteNext, WriteDone, WriteTo, Return, disk, alloc
  <1>6. ASSUME WriteCreated PROVE Counted'
    BY <1>2, <1>6, WriteCreatedFits DEF WriteCreated, WriteDone, WriteTo, Abort, Return, disk, alloc
  <1>7. ASSUME SeekNext PROVE Counted'
    BY <1>2, <1>7, SeekNextFits DEF SeekNext, Abort, Return, alloc, chain
  <1>8. ASSUME SeekCreated PROVE Counted'
    BY <1>2, <1>8, SeekCreatedFits DEF SeekCreated, Abort, Return, disk, alloc
  <1>9. ASSUME Truncated PROVE Counted'
    BY <1>2, <1>9, TruncatedFits DEF Truncated, Return, disk, alloc
  <1>10. ASSUME Flush PROVE Counted'
    BY <1>2, <1>10, FlushFits DEF Flush, alloc
  <1>11. ASSUME Sunk PROVE Counted'
    <2>1. \A c \in Clusters : c \in Items \ {FSINFO}
      BY Kinds, Numbers
    <2> QED BY <1>2, <1>11, <2>1, SunkFits DEF Sunk, Return
  <1>12. ASSUME Unlinked PROVE Counted'
    BY <1>2, <1>12, UnlinkedFits DEF Unlinked, disk, alloc
  <1> QED BY <1>1, <1>3, <1>4, <1>5, <1>6, <1>7, <1>8, <1>9, <1>10, <1>11, <1>12 DEF Step, Elsewhere

LEMMA InitCounts == Init => Counted
  <1> SUFFICES ASSUME Init PROVE Counted
    OBVIOUS
  <1>1. card \in InitCards /\ winsect = NOSECT /\ fs_type = 0 /\ pc = "idle"
    BY DEF Init, PowerOn, Unmounted
  <1>2. \A c \in Clusters : View[c] = card[c]
    BY <1>1, Kinds, SectorNumbers DEF View
  <1>3. FreeCount = Cardinality({c \in Clusters : card[c] = FREE})
    <2>1. FreeClusters = {c \in Clusters : card[c] = FREE}
      BY <1>2 DEF FreeClusters
    <2> QED BY <2>1 DEF FreeCount
  <1> QED BY <1>1, <1>3, CardAssumption DEF Counted, CountRight, CardRight, FullRight

LEMMA CallCounts ==
  ASSUME Fits, Call, Counted, OpenFine
  PROVE  Counted'
  <1>1. ASSUME NEW p \in opened, NEW n \in 0 .. MaxBytes, Read(p, n) \/ Write(p, n)
        PROVE  Counted'
    <2>1. n \in Nat
      BY VolumeAssumption
    <2> QED BY <1>1, <2>1, FileCounts
  <1>2. ASSUME NEW p \in opened, NEW o \in 0 .. MaxOffset, Seek(p, o) PROVE Counted'
    <2>1. o \in Nat
      BY VolumeAssumption
    <2> QED BY <1>2, <2>1, FileCounts
  <1> QED BY <1>1, <1>2, OpenCounts, UnlinkCounts, GetFreeCounts, FileCounts DEF Call

LEMMA NextCounts ==
  ASSUME "PowerCycle" \notin Calls, Fits, Linked, Counted, [Next]_volume
  PROVE  Counted'
  <1>1. PICK w : Kept(w)
    BY DEF Linked
  <1>2. OpenFine
    BY <1>1 DEF Kept
  <1>3. ASSUME UNCHANGED volume PROVE Counted'
    BY <1>3 DEF volume, disk, window, alloc, chain, Counted, CountRight, CardRight, FullRight,
               FreeCount, FreeClusters, View
  <1> QED BY <1>1, <1>2, <1>3, CallCounts, StepCounts DEF Next

LEMMA CalledAtIdle == Call => pc = "idle"
  <1>1. \A p, f, m : Open(p, f, m) => pc = "idle"
    BY DEF Open
  <1>2. \A p, n : Read(p, n) \/ Write(p, n) \/ Seek(p, n) => pc = "idle"
    BY DEF Read, Write, Seek
  <1>3. \A p : Unusable(p) \/ Truncate(p) => pc = "idle"
    BY DEF Unusable, Truncate
  <1>4. \A op, p : Sync(op, p) => pc = "idle"
    BY DEF Sync
  <1>5. GetFree \/ (\E f \in Files : Unlink(f)) => pc = "idle"
    BY DEF Unlink, GetFree
  <1> QED BY <1>1, <1>2, <1>3, <1>4, <1>5 DEF Call

\* The steps that end a write or a seek short.
LEMMA FallsShort ==
  ASSUME Fits, Linked, Counted, Next, "PowerCycle" \notin Calls,
         pc # "idle", call.op \in {"write", "seek"}, pc' = "idle", res' = "OK",
         fil'[cur].fptr < me.fptr + call.ofs
  PROVE  FreeClusters = {}
  <1>1. PICK w : Kept(w)
    BY DEF Linked
  <1>2. cur \in Fils /\ fil \in [Fils -> FIL] /\ me = fil[cur] /\ me \in FIL
        /\ me.fptr \in Nat /\ call.ofs \in Nat
    BY <1>1, CurFile DEF Fits, FilesFit
  <1>3. ~Call
    BY CalledAtIdle
  <1>4. ~ChainStep
    BY DEF ChainStep, Follow, Full, Find, Mark, Link, Cut, FreeNext
  <1>5. ~ReadNext /\ ~Truncated /\ ~OpenEmptied /\ ~Flush /\ ~Sunk /\ ~Unlinked
    <2>1. pc \in {"write", "seek"} \cup Creates
      BY DEF Fits, CallFits, Runs, Creates, Removes, Syncs
    <2> QED BY <2>1 DEF Creates, ReadNext, Truncated, OpenEmptied, Flush, Sunk, Unlinked
  <1>6. WriteNext \/ WriteCreated \/ SeekNext \/ SeekCreated
    BY <1>3, <1>4, <1>5 DEF Next, Step
  <1>7. ~WriteNext
    <2>1. SUFFICES ASSUME WriteNext PROVE FALSE
      OBVIOUS
    <2>2. call.ofs = 0 /\ fil' = [fil EXCEPT ![cur] = [me EXCEPT !.modified = TRUE]]
      BY <2>1 DEF WriteNext, WriteDone, WriteTo, Become
    <2>3. fil'[cur].fptr = me.fptr
      BY <1>2, <2>2 DEF FIL
    <2> QED BY <1>2, <2>2, <2>3
  <1>8. ~SeekNext
    <2>1. SUFFICES ASSUME SeekNext PROVE FALSE
      OBVIOUS
    <2> DEFINE g == [me EXCEPT !.fptr = @ + call.ofs]
    <2>2. fil' = [fil EXCEPT ![cur] = Grown(g)]
      BY <2>1 DEF SeekNext, Abort, Return, Become, chain
    <2>3. g \in FIL /\ g.fptr = me.fptr + call.ofs
      BY <1>2 DEF FIL
    <2> HIDE DEF g
    <2>4. Grown(g) \in FIL /\ Grown(g).fptr = me.fptr + call.ofs
      BY <2>3, GrownFits
    <2>5. fil'[cur].fptr = me.fptr + call.ofs
      BY <1>2, <2>2, <2>4
    <2> QED BY <1>2, <2>5
  <1>9. pc = "created" /\ ncl = NOSPACE
    <2>1. Abort => res' = "INT_ERR"
      BY DEF Abort, Return
    <2> QED BY <1>6, <1>7, <1>8, <2>1 DEF WriteCreated, SeekCreated, WriteTo
  <1> QED BY <1>9 DEF Counted, FullRight

-----------------------------------------------------------------------------

LEMMA AlwaysCounted ==
  ASSUME "PowerCycle" \notin Calls
  PROVE  Spec => [](Fits /\ Linked /\ Counted)
  <1>1. Init => Fits /\ Linked /\ Counted
    BY InitFits, InitKeeps, InitCounts
  <1>2. Fits /\ Linked /\ Counted /\ [Next]_volume => (Fits /\ Linked /\ Counted)'
    BY NextFits, NextKeeps, NextCounts DEF Next
  <1> QED BY <1>1, <1>2, PTL DEF Spec

\* While the console stays on, the count of free clusters, once it is known, is
\* that of the FAT at every return of a function: f_getfree may answer from it,
\* and create_chain may take 0 for a full card.
THEOREM FreeCounted ==
  ASSUME "PowerCycle" \notin Calls
  PROVE  Spec => []FreeCountExact
  <1>1. Counted => FreeCountExact
    BY DEF Counted, CountRight, FreeCount, FreeCountExact
  <1> QED BY <1>1, AlwaysCounted, PTL

\* While the console stays on, f_write and f_lseek return FR_OK with fewer bytes
\* than they were asked for only if there was no free cluster when they stopped.
THEOREM ShortOnFullCard ==
  ASSUME "PowerCycle" \notin Calls
  PROVE  Spec => ShortOnlyWhenFull
  <1> DEFINE Short ==
        pc # "idle" /\ call.op \in {"write", "seek"} /\ pc' = "idle"
        /\ res' = "OK" /\ fil'[cur].fptr < me.fptr + call.ofs
          => FreeClusters = {}
  <1>1. Fits /\ Linked /\ Counted /\ [Next]_volume => [Short]_volume
    BY FallsShort
  <1>2. Spec => [][Short]_volume
    BY <1>1, AlwaysCounted, PTL DEF Spec
  <1> QED BY <1>2 DEF ShortOnlyWhenFull
=============================================================================
