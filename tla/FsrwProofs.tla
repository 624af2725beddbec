----------------------------- MODULE FsrwProofs -----------------------------
(***************************************************************************)
(* Proofs about Fsrw, for every layout of the card, file length and number *)
(* of faults: whenever power fails the chains on the card are disjoint,    *)
(* lead to clusters in use and cover the sizes; another file is never      *)
(* touched; a file that was closed is stored; and while nothing fails no   *)
(* cluster is lost.                                                        *)
(***************************************************************************)
EXTENDS Fsrw, Induction, FiniteSetTheorems, TLAPS

\* The metadata d after the locations of new were changed.
Over(d, new) == [l \in Locs |-> IF l \in DOMAIN new THEN new[l] ELSE d[l]]

LEMMA Parameters ==
  /\ NSectors \in Nat /\ MaxFaults \in Nat
  /\ SectorsPerCluster \in Nat /\ SectorsPerCluster > 0
  /\ PerPage \in Nat /\ PerPage > 0
  /\ TotClusters \in Nat /\ EndOfChain \in Nat /\ EndOfChain >= TotClusters /\ TotClusters > 2
BY LayoutAssumption

\* Locations are told apart by what they are and of what.
LEMMA LocFacts ==
  /\ Clusters \subseteq 0 .. EndOfChain - 1
  /\ EndOfChain \in Nat /\ EndOfChain > 2 /\ EndOfChain \notin Clusters /\ 0 \notin Clusters
  /\ \A c \in 0 .. EndOfChain - 1 :
        Fat(c) \in Locs /\ Block(Fat(c)) = Page(c) /\ Fat(c)[1] = "fat" /\ Fat(c)[2] = c
  /\ \A f \in Files : /\ First(f) \in Locs /\ Block(First(f)) = Dir
                      /\ First(f)[1] = "first" /\ First(f)[2] = f
                      /\ Size(f) \in Locs /\ Block(Size(f)) = Dir
                      /\ Size(f)[1] = "size" /\ Size(f)[2] = f
  /\ "file" \in Files
BY LayoutAssumption DEF Locs, Clusters, Fat, First, Size, Block, Files

\* The changes that the steps make, and the locations they name.
LEMMA EntryFacts ==
  ASSUME NEW c \in Int, NEW n \in Int
  PROVE  /\ DOMAIN Entry(c, n) = {First("file"), Size("file")}
         /\ Entry(c, n)[First("file")] = c /\ Entry(c, n)[Size("file")] = n
         /\ \A l \in DOMAIN Entry(c, n) :
              /\ l \in Locs /\ Block(l) = Dir /\ Entry(c, n)[l] \in Int
              /\ l[1] # "size" => l = First("file") /\ Entry(c, n)[l] = c
         /\ \A x \in Clusters : Fat(x) \notin DOMAIN Entry(c, n)
<1>1. First("file") # Size("file") /\ \A x \in Clusters : Fat(x)[1] = "fat"
  BY LocFacts
<1>2. /\ DOMAIN Entry(c, n) = {First("file"), Size("file")}
      /\ Entry(c, n)[First("file")] = c /\ Entry(c, n)[Size("file")] = n
  BY <1>1 DEF Entry
<1> QED BY <1>1, <1>2, LocFacts

LEMMA PutFacts ==
  ASSUME NEW c \in Clusters, NEW v \in Int
  PROVE  /\ DOMAIN Put(Fat(c), v) = {Fat(c)} /\ Put(Fat(c), v)[Fat(c)] = v
         /\ Fat(c) \in Locs /\ Block(Fat(c)) = Page(c) /\ Fat(c)[1] = "fat"
         /\ \A x \in Clusters : Fat(x) \in DOMAIN Put(Fat(c), v) => x = c
BY LocFacts DEF Put

\* A block read through the buffer shows what is on the card or will be.
LEMMA Seen ==
  ASSUME Coherent, pc # "aborted", NEW l \in Locs
  PROVE  Cached(Block(l))[l] = Flushed[l]
<1>1. CASE Block(l) = lastread
  BY <1>1 DEF Coherent, Cached, Contents
<1>2. CASE Block(l) # lastread
  BY <1>2 DEF Cached, Contents, Flushed
<1> QED BY <1>1, <1>2

LEMMA CachedDomain ==
  ASSUME Coherent, pc # "aborted", NEW b
  PROVE  DOMAIN Cached(b) = {x \in Locs : Block(x) = b}
BY DEF Coherent, Cached, Contents

\* A change in the buffer changes Flushed at the locations it names, and puts
\* on the card at most what the buffer held before.
LEMMA Changed ==
  ASSUME disk \in [Locs -> Int], Coherent, pc # "aborted", NEW b, NEW new,
         \A l \in DOMAIN new : l \in Locs /\ Block(l) = b /\ new[l] \in Int,
         Change(b, new)
  PROVE  /\ Flushed' = Over(Flushed, new)
         /\ Flushed' \in [Locs -> Int]
         /\ buf2' = Contents(Flushed', lastread')
         /\ disk' \in {disk, Flushed} /\ disk' \in [Locs -> Int]
         /\ lastread' = b /\ dirty' = TRUE
<1> DEFINE D == {x \in Locs : Block(x) = b}
<1>1. DOMAIN Cached(b) = D
  BY CachedDomain
<1>2. /\ lastread' = b /\ dirty' = TRUE
      /\ buf2' = [l \in D |-> IF l \in DOMAIN new THEN new[l] ELSE Cached(b)[l]]
      /\ disk' = IF b = lastread THEN disk ELSE Flushed
  BY <1>1 DEF Change
<1>3. \A l \in D : Cached(b)[l] = Flushed[l]
  BY Seen
<1>4. buf2' = [l \in D |-> Over(Flushed, new)[l]]
  BY <1>2, <1>3 DEF Over
<1>5. Flushed \in [Locs -> Int] /\ Over(Flushed, new) \in [Locs -> Int]
  BY DEF Coherent, Over
<1>6. ASSUME NEW l \in Locs, Block(l) # b
      PROVE  disk'[l] = Over(Flushed, new)[l]
  <2>1. l \notin DOMAIN new
    BY <1>6
  <2>2. disk'[l] = Flushed[l]
    BY <1>2, <1>6 DEF Flushed
  <2> QED BY <2>1, <2>2 DEF Over
<1>7. Flushed' = [l \in Locs |-> IF Block(l) = b THEN buf2'[l] ELSE disk'[l]]
  BY <1>2 DEF Flushed
<1>8. Flushed' = Over(Flushed, new)
  BY <1>4, <1>6, <1>7 DEF Over
<1>9. buf2' = Contents(Flushed', lastread')
  BY <1>2, <1>4, <1>8 DEF Contents
<1> QED BY <1>2, <1>5, <1>8, <1>9

\* Clearing entries to which nothing points keeps the chains sound.
LEMMA Clearing ==
  ASSUME NEW d \in [Locs -> Int], Sound(d), NEW new,
         \A l \in DOMAIN new : l \in Locs /\ (l[1] # "size" => new[l] = 0),
         \A l \in Pointers(d) : Fat(d[l]) \notin DOMAIN new
  PROVE  Sound(Over(d, new))
<1>1. \A l \in Pointers(Over(d, new)) : l \in Pointers(d) /\ Over(d, new)[l] = d[l]
  BY DEF Pointers, Over
<1>2. \A l \in Pointers(d) : Fat(d[l]) \in Locs /\ Over(d, new)[Fat(d[l])] = d[Fat(d[l])]
  BY LocFacts DEF Sound, Over
<1> QED BY <1>1, <1>2 DEF Sound

\* Marking a cluster as the end of a chain keeps them sound.
LEMMA Marking ==
  ASSUME NEW d \in [Locs -> Int], Sound(d), NEW c \in Clusters
  PROVE  Sound(Over(d, Put(Fat(c), EndOfChain)))
<1> DEFINE new == Put(Fat(c), EndOfChain)
<1>1. EndOfChain \in Int /\ EndOfChain # 0
  BY LocFacts
<1>2. DOMAIN new = {Fat(c)} /\ new[Fat(c)] = EndOfChain /\ Fat(c) \in Locs
  BY <1>1, PutFacts
<1> HIDE DEF new
<1>3. \A l \in Pointers(Over(d, new)) : l \in Pointers(d) /\ Over(d, new)[l] = d[l]
  BY <1>2 DEF Pointers, Over
<1>4. \A l \in Pointers(d) : d[l] \in Clusters /\ Fat(d[l]) \in Locs
  BY LocFacts DEF Sound
<1>5. \A l \in Pointers(d) : Over(d, new)[Fat(d[l])] # 0
  BY <1>1, <1>2, <1>4 DEF Sound, Over
<1>6. Sound(Over(d, new))
  BY <1>3, <1>4, <1>5 DEF Sound
<1> QED BY <1>6 DEF new

\* Pointing to a marked cluster to which nothing points keeps them sound.
LEMMA Linking ==
  ASSUME NEW d \in [Locs -> Int], Sound(d), NEW c \in Clusters, d[Fat(c)] # 0,
         \A l \in Pointers(d) : d[l] # c,
         NEW new, \A l \in DOMAIN new : l \in Locs /\ (l[1] # "size" => new[l] = c),
         \A l, m \in DOMAIN new : l[1] # "size" /\ m[1] # "size" => l = m
  PROVE  Sound(Over(d, new))
<1> DEFINE e == Over(d, new)
<1>1. \A l \in Pointers(e) : \/ l \in Pointers(d) /\ e[l] = d[l]
                             \/ l \in DOMAIN new /\ l[1] # "size" /\ e[l] = c
  BY DEF Pointers, Over
<1>2. \A x \in Clusters : d[Fat(x)] # 0 => e[Fat(x)] # 0
  BY LocFacts DEF Over
<1>3. \A l \in Pointers(e) : e[l] \in Clusters /\ e[Fat(e[l])] # 0
  BY <1>1, <1>2 DEF Sound
<1>4. \A l, m \in Pointers(e) : e[l] = e[m] => l = m
  BY <1>1 DEF Sound
<1> QED BY <1>3, <1>4 DEF Sound

-----------------------------------------------------------------------------
(* The inductive invariant.                                                  *)

LEMMA Initially == Init => IInv
<1> SUFFICES ASSUME Init PROVE IInv
  OBVIOUS
<1>1. disk \in [Locs -> Int] /\ Sound(disk) /\ Flushed = disk
  BY DisksAssumption DEF Init, Flushed
<1>2. data \in [Sectors -> Int]
  BY Parameters DEF Init, Sectors, Clusters
<1>3. /\ lastread \in {None, Dir} \cup Nat /\ dirty \in BOOLEAN /\ ~dirty
      /\ bufat = "empty" /\ pc = "popen" /\ buf2 = Contents(disk, lastread)
  BY DEF Init
<1>4. /\ buf = 0 /\ todo = 1 /\ writelink = 0 /\ fclust = 0 /\ floc = 0 /\ frem = 0
      /\ clust = 0 /\ page = 0 /\ faults = 0
  BY DEF Init
<1>5. TypeOK
  BY <1>1, <1>2, <1>3, <1>4, Parameters DEF TypeOK
<1>6. Coherent /\ ClusterInHand /\ Position
  BY <1>1, <1>3, <1>4 DEF Coherent, ClusterInHand, Position
<1> QED BY <1>1, <1>5, <1>6 DEF IInv

\* What a step that leaves the metadata and the cluster in hand alone preserves.
LEMMA MetadataUntouched ==
  ASSUME IInv, UNCHANGED <<disk, metaVars>>, UNCHANGED <<clust, writelink>>,
         pc' \notin {"popen", "aborted", "free", "link"}, pc # "aborted"
  PROVE  Coherent' /\ Sound(disk)' /\ Sound(Flushed)' /\ ClusterInHand'
<1>1. Flushed' = Flushed
  BY DEF Flushed, metaVars
<1> QED BY <1>1 DEF IInv, Coherent, ClusterInHand, metaVars, Sound, Pointers, Contents

\* What a change of the metadata leaves to be shown.
LEMMA MetadataChanged ==
  ASSUME IInv, pc # "aborted", pc' \notin {"popen", "aborted"}, NEW b, NEW new,
         \A l \in DOMAIN new : l \in Locs /\ Block(l) = b /\ new[l] \in Int,
         Change(b, new), Sound(Over(Flushed, new))
  PROVE  /\ Flushed' = Over(Flushed, new) /\ Sound(Flushed)' /\ Sound(disk)'
         /\ Coherent' /\ disk' \in [Locs -> Int] /\ lastread' = b /\ dirty' = TRUE
<1>1. /\ Flushed' = Over(Flushed, new) /\ Flushed' \in [Locs -> Int]
      /\ buf2' = Contents(Flushed', lastread') /\ disk' \in {disk, Flushed}
      /\ disk' \in [Locs -> Int] /\ lastread' = b /\ dirty' = TRUE
  BY Changed DEF IInv, TypeOK
<1>2. Coherent'
  BY <1>1 DEF Coherent
<1>3. Sound(Flushed)' /\ Sound(disk)'
  BY <1>1 DEF IInv, Sound, Pointers
<1> QED BY <1>1, <1>2, <1>3

\* Fat blocks have natural numbers.
LEMMA PageIsNat == ASSUME NEW c \in Nat PROVE Page(c) \in Nat
BY LayoutAssumption DEF Page

\* When the only entry that points to a cluster is cleared, nothing does.
LEMMA CutOff ==
  ASSUME NEW d \in [Locs -> Int], Sound(d), NEW new,
         \A l \in DOMAIN new : l \in Locs /\ (l[1] # "size" => new[l] = 0),
         \A l \in Pointers(d) : Fat(d[l]) \notin DOMAIN new,
         NEW k \in Pointers(d) \cap DOMAIN new
  PROVE  /\ d[k] \in Clusters /\ Over(d, new)[Fat(d[k])] # 0
         /\ \A l \in Pointers(Over(d, new)) : Over(d, new)[l] # d[k]
<1>1. \A l \in Pointers(Over(d, new)) :
        l \in Pointers(d) /\ l \notin DOMAIN new /\ Over(d, new)[l] = d[l]
  BY DEF Pointers, Over
<1>2. d[k] \in Clusters /\ Fat(d[k]) \in Locs /\ Over(d, new)[Fat(d[k])] = d[Fat(d[k])]
  BY LocFacts DEF Sound, Over
<1> QED BY <1>1, <1>2 DEF Sound

LEMMA PopenExistingStep == IInv /\ PopenExisting => IInv'
<1> SUFFICES ASSUME IInv, PopenExisting PROVE IInv'
  OBVIOUS
<1> DEFINE new == Entry(0, 0)
<1>1. /\ pc = "popen" /\ Change(Dir, new) /\ clust' = Cached(Dir)[First("file")]
      /\ pc' = IF clust' # 0 THEN "free" ELSE "write"
      /\ UNCHANGED <<data, page, faults, buf, bufat, todo, writelink, fclust, floc, frem>>
  BY DEF PopenExisting, bufVars, posVars
<1>2. /\ TypeOK /\ Coherent /\ Sound(disk) /\ Sound(Flushed) /\ ClusterInHand /\ Position
      /\ Flushed \in [Locs -> Int]
  BY DEF IInv, Coherent
<1>3. /\ \A l \in DOMAIN new : /\ l \in Locs /\ Block(l) = Dir /\ new[l] \in Int
                               /\ l[1] # "size" => new[l] = 0
      /\ \A x \in Clusters : Fat(x) \notin DOMAIN new
      /\ First("file") \in DOMAIN new
  BY EntryFacts
<1>4. \A l \in Pointers(Flushed) : Flushed[l] \in Clusters /\ Fat(Flushed[l]) \notin DOMAIN new
  BY <1>2, <1>3 DEF Sound
<1>5. Sound(Over(Flushed, new))
  BY <1>2, <1>3, <1>4, Clearing
<1>6. pc # "aborted" /\ pc' \notin {"popen", "aborted"}
  BY <1>1
<1>7. /\ Flushed' = Over(Flushed, new) /\ Sound(Flushed)' /\ Sound(disk)' /\ Coherent'
      /\ disk' \in [Locs -> Int] /\ lastread' = Dir /\ dirty' = TRUE
  BY <1>1, <1>3, <1>5, <1>6, MetadataChanged
<1>8. clust' = Flushed[First("file")]
  <2>1. First("file") \in Locs /\ Block(First("file")) = Dir
    BY LocFacts
  <2> QED BY <1>1, <1>2, <1>6, <2>1, Seen
<1>9. ClusterInHand' /\ clust' \in 0 .. EndOfChain
  <2>1. CASE First("file") \in Pointers(Flushed)
    <3>1. clust' \in Clusters /\ Flushed'[Fat(clust')] # 0 /\ Unpointed(clust)'
      BY <1>2, <1>3, <1>4, <1>7, <1>8, <2>1, CutOff DEF Unpointed
    <3>2. clust' \in 0 .. EndOfChain
      BY <3>1, LocFacts
    <3> QED BY <1>1, <1>2, <3>1, <3>2 DEF ClusterInHand
  <2>2. CASE First("file") \notin Pointers(Flushed)
    <3>1. clust' = 0 \/ clust' = EndOfChain
      BY <1>8, <2>2, LocFacts DEF Pointers
    <3>2. clust' \in 0 .. EndOfChain
      BY <3>1, LocFacts
    <3> QED BY <1>1, <1>2, <3>1, <3>2 DEF ClusterInHand
  <2> QED BY <2>1, <2>2
<1>10. TypeOK'
  BY <1>1, <1>2, <1>7, <1>9 DEF TypeOK
<1>11. Position'
  BY <1>1, <1>2 DEF Position
<1> QED BY <1>7, <1>9, <1>10, <1>11 DEF IInv

LEMMA PopenNewStep == IInv /\ PopenNew => IInv'
<1> SUFFICES ASSUME IInv, PopenNew PROVE IInv'
  OBVIOUS
<1>1. /\ pc = "popen" /\ pc' = "write" /\ lastread' = Dir
      /\ buf2' = Contents(disk', Dir) /\ UNCHANGED dirty
      /\ UNCHANGED <<data, clust, page, faults, buf, bufat, todo, writelink, fclust, floc, frem>>
      /\ disk' = [disk EXCEPT ![First("file")] = 0, ![Size("file")] = 0]
  BY DEF PopenNew, bufVars, posVars
<1>2. /\ TypeOK /\ Coherent /\ Sound(disk) /\ ClusterInHand /\ Position
      /\ disk \in [Locs -> Int] /\ ~dirty /\ ~dirty' /\ dirty' \in BOOLEAN
  BY <1>1 DEF IInv, TypeOK, Coherent
<1>3. disk' \in [Locs -> Int] /\ Flushed' = disk'
  <2>1. Flushed' = disk'
    <3>1. ~dirty' /\ dirty' \in BOOLEAN
      BY <1>2
    <3> QED BY <3>1 DEF Flushed
  <2>2. disk' \in [Locs -> Int]
    <3>1. First("file") \in Locs /\ Size("file") \in Locs
      BY LocFacts
    <3> QED BY <1>1, <1>2, <3>1
  <2> QED BY <2>1, <2>2
<1>4. Sound(disk')
  <2>1. \A l \in Pointers(disk') : l \in Pointers(disk) /\ disk'[l] = disk[l]
    BY <1>1, <1>2, LocFacts DEF Pointers
  <2>2. \A l \in Pointers(disk) : disk[l] \in Clusters /\ Fat(disk[l]) \in Locs
                                  /\ Fat(disk[l])[1] = "fat"
    BY <1>2, LocFacts DEF Sound
  <2>3. \A l \in Pointers(disk) : disk'[Fat(disk[l])] = disk[Fat(disk[l])]
    BY <1>1, <1>2, <2>2, LocFacts
  <2> QED BY <1>2, <2>1, <2>3 DEF Sound
<1>5. Coherent' /\ ClusterInHand'
  BY <1>1, <1>2, <1>3 DEF Coherent, ClusterInHand
<1>6. TypeOK'
  BY <1>1, <1>2, <1>3 DEF TypeOK
<1>7. Position'
  BY <1>1, <1>2 DEF Position
<1>8. Sound(disk)' /\ Sound(Flushed)'
  BY <1>3, <1>4 DEF Sound, Pointers
<1> QED BY <1>5, <1>6, <1>7, <1>8 DEF IInv

LEMMA PopenRefusedStep == IInv /\ PopenRefused => IInv'
<1> SUFFICES ASSUME IInv, PopenRefused PROVE IInv'
  OBVIOUS
<1>1. /\ TypeOK /\ Coherent /\ Sound(disk) /\ ClusterInHand
      /\ disk \in [Locs -> Int] /\ ~dirty /\ Flushed = disk
      /\ pc = "popen" /\ pc' = "aborted" /\ lastread' = Dir
      /\ UNCHANGED <<data, clust, page, faults, buf, bufat, todo, writelink, fclust, floc, frem>>
  BY DEF IInv, TypeOK, Coherent, PopenRefused, ReadBlock, Flushed, bufVars, posVars
<1>2. disk' = disk /\ ~dirty' /\ dirty' \in BOOLEAN
  BY <1>1 DEF PopenRefused, ReadBlock, TypeOK
<1>3. Flushed' = disk
  BY <1>1, <1>2 DEF Flushed
<1>4. Coherent' /\ ClusterInHand' /\ Position'
  BY <1>1, <1>2, <1>3 DEF Coherent, ClusterInHand, Position
<1>5. TypeOK'
  BY <1>1, <1>2 DEF TypeOK
<1>6. Sound(disk)' /\ Sound(Flushed)'
  BY <1>1, <1>2, <1>3 DEF Sound, Pointers
<1> QED BY <1>4, <1>5, <1>6 DEF IInv

LEMMA FreeClusterStep == IInv /\ FreeCluster => IInv'
<1> SUFFICES ASSUME IInv, FreeCluster PROVE IInv'
  OBVIOUS
<1>1. /\ TypeOK /\ Coherent /\ Sound(disk) /\ Sound(Flushed) /\ ClusterInHand /\ Position
      /\ Flushed \in [Locs -> Int] /\ pc = "free" /\ clust < EndOfChain
  BY DEF IInv, Coherent, FreeCluster
<1>2. clust \in Clusters /\ Flushed[Fat(clust)] # 0 /\ Unpointed(clust) /\ clust >= 2
  BY <1>1, LocFacts DEF ClusterInHand, Clusters
<1> DEFINE new == Put(Fat(clust), 0)
<1>3. /\ Change(Page(clust), new) /\ clust' = Cached(Page(clust))[Fat(clust)] /\ pc' = "free"
      /\ UNCHANGED <<data, page, faults, buf, bufat, todo, writelink, fclust, floc, frem>>
  BY <1>1, <1>2, LocFacts DEF FreeCluster, bufVars, posVars, Clusters
<1>4. /\ DOMAIN new = {Fat(clust)} /\ new[Fat(clust)] = 0
      /\ Fat(clust) \in Locs /\ Block(Fat(clust)) = Page(clust) /\ Fat(clust)[1] = "fat"
      /\ \A x \in Clusters : Fat(x) \in DOMAIN new => x = clust
  BY <1>2, PutFacts
<1> HIDE DEF new
<1>5. \A l \in Pointers(Flushed) : Flushed[l] \in Clusters /\ Fat(Flushed[l]) \notin DOMAIN new
  BY <1>1, <1>2, <1>4 DEF Sound, Unpointed
<1>6. Sound(Over(Flushed, new))
  BY <1>1, <1>4, <1>5, Clearing
<1>7. /\ Flushed' = Over(Flushed, new) /\ Sound(Flushed)' /\ Sound(disk)' /\ Coherent'
      /\ disk' \in [Locs -> Int] /\ lastread' = Page(clust) /\ dirty' = TRUE
  <2>1. \A l \in DOMAIN new : l \in Locs /\ Block(l) = Page(clust) /\ new[l] \in Int
    BY <1>4
  <2>2. pc # "aborted" /\ pc' \notin {"popen", "aborted"}
    BY <1>1, <1>3
  <2> QED BY <1>3, <1>6, <2>1, <2>2, MetadataChanged
<1>8. clust' = Flushed[Fat(clust)]
  BY <1>1, <1>3, <1>4, Seen
<1>9. ClusterInHand' /\ clust' \in 0 .. EndOfChain
  <2>1. CASE Fat(clust) \in Pointers(Flushed)
    <3>1. clust' \in Clusters /\ Flushed'[Fat(clust')] # 0 /\ Unpointed(clust)'
      BY <1>1, <1>4, <1>5, <1>7, <1>8, <2>1, CutOff DEF Unpointed
    <3>2. clust' \in 0 .. EndOfChain
      BY <3>1, LocFacts
    <3> QED BY <1>1, <1>3, <3>1, <3>2 DEF ClusterInHand
  <2>2. CASE Fat(clust) \notin Pointers(Flushed)
    <3>1. clust' = EndOfChain
      BY <1>2, <1>4, <1>8, <2>2 DEF Pointers
    <3>2. clust' \in 0 .. EndOfChain
      BY <3>1, LocFacts
    <3> QED BY <1>1, <1>3, <3>1, <3>2 DEF ClusterInHand
  <2> QED BY <2>1, <2>2
<1>10. clust \in Nat /\ Page(clust) \in Nat
  <2>1. clust \in Nat
    BY <1>2, LocFacts
  <2> QED BY <2>1, PageIsNat
<1>11. TypeOK'
  BY <1>1, <1>3, <1>7, <1>9, <1>10 DEF TypeOK
<1>12. Position'
  BY <1>1, <1>3 DEF Position
<1> QED BY <1>7, <1>9, <1>11, <1>12 DEF IInv

\* Writing the buffer back changes nothing but the card.
LEMMA WrittenBack ==
  ASSUME IInv, pc # "aborted", disk' = Flushed, ~dirty',
         (buf2' = buf2 \/ pc' = "aborted"), (lastread' = lastread \/ pc' = "aborted")
  PROVE  /\ Flushed' = Flushed /\ disk' \in [Locs -> Int] /\ Coherent'
         /\ Sound(disk)' /\ Sound(Flushed)'
<1>1. Flushed' = Flushed /\ disk' \in [Locs -> Int]
  BY DEF IInv, Coherent, Flushed
<1>2. Coherent'
  BY <1>1 DEF IInv, Coherent, Contents
<1>3. Sound(disk)' /\ Sound(Flushed)'
  BY <1>1 DEF IInv, Sound, Pointers
<1> QED BY <1>1, <1>2, <1>3

LEMMA FreedAllStep == IInv /\ FreedAll => IInv'
<1> SUFFICES ASSUME IInv, FreedAll PROVE IInv'
  OBVIOUS
<1>1. /\ pc = "free" /\ pc' = "write" /\ disk' = Flushed /\ ~dirty' /\ dirty' \in BOOLEAN
      /\ UNCHANGED <<data, clust, page, faults, buf, bufat, todo, writelink, fclust, floc, frem>>
      /\ buf2' = buf2 /\ lastread' = lastread
  BY DEF FreedAll, FlushIfDirty, bufVars, posVars
<1>2. /\ Flushed' = Flushed /\ disk' \in [Locs -> Int] /\ Coherent'
      /\ Sound(disk)' /\ Sound(Flushed)'
  BY <1>1, WrittenBack
<1>3. TypeOK'
  BY <1>1, <1>2 DEF IInv, TypeOK
<1>4. ClusterInHand'
  BY <1>1, <1>2 DEF IInv, ClusterInHand
<1>5. Position'
  BY <1>1 DEF IInv, Position
<1> QED BY <1>2, <1>3, <1>4, <1>5 DEF IInv

LEMMA FillStep == IInv /\ Fill => IInv'
<1> SUFFICES ASSUME IInv, Fill PROVE IInv'
  OBVIOUS
<1>1. /\ TypeOK /\ Position /\ pc = "write" /\ pc' = "write"
      /\ todo <= NSectors /\ bufat # "full" /\ buf' = todo /\ todo' = todo + 1
      /\ bufat' = "full" \/ (todo = NSectors /\ bufat' = "part")
      /\ UNCHANGED <<disk, data, buf2, lastread, dirty, writelink, fclust, floc, frem,
                     clust, page, faults>>
  BY DEF IInv, Fill, metaVars, posVars
<1>2. Coherent' /\ Sound(disk)' /\ Sound(Flushed)' /\ ClusterInHand'
  BY <1>1, MetadataUntouched DEF metaVars
<1>3. TypeOK'
  BY <1>1, Parameters DEF TypeOK
<1>4. bufat = "empty" /\ todo - 1 = floc
  BY <1>1, Parameters DEF Position, TypeOK
<1>5. Position'
  BY <1>1, <1>4, Parameters DEF Position, TypeOK
<1> QED BY <1>2, <1>3, <1>5 DEF IInv

LEMMA FlushBufferStep == IInv /\ FlushBuffer => IInv'
<1> SUFFICES ASSUME IInv, FlushBuffer PROVE IInv'
  OBVIOUS
<1>1. /\ TypeOK /\ Position /\ pc = "write" /\ page' = Page(fclust)
      /\ pc' = IF bufat = "empty" THEN "metadata" ELSE IF frem = 0 THEN "search" ELSE "data"
      /\ UNCHANGED <<disk, data, buf2, lastread, dirty, writelink, fclust, floc, frem,
                     clust, buf, bufat, todo, faults>>
  BY DEF IInv, FlushBuffer, metaVars, posVars, bufVars
<1>2. Coherent' /\ Sound(disk)' /\ Sound(Flushed)' /\ ClusterInHand'
  BY <1>1, MetadataUntouched DEF metaVars
<1>3. page' \in Nat
  <2>1. fclust \in Nat
    BY <1>1, LocFacts DEF TypeOK
  <2> QED BY <1>1, <2>1, PageIsNat
<1>4. TypeOK'
  BY <1>1, <1>3 DEF TypeOK
<1>5. Position'
  BY <1>1, Parameters DEF Position, TypeOK
<1> QED BY <1>2, <1>4, <1>5 DEF IInv

LEMMA TakeClusterStep == IInv /\ TakeCluster => IInv'
<1> SUFFICES ASSUME IInv, TakeCluster PROVE IInv'
  OBVIOUS
<1>1. /\ TypeOK /\ Coherent /\ Sound(disk) /\ Sound(Flushed) /\ ClusterInHand /\ Position
      /\ Flushed \in [Locs -> Int] /\ pc = "search" /\ pc' = "link"
      /\ UNCHANGED <<data, page, faults, buf, bufat, todo, writelink, fclust, floc, frem>>
  BY DEF IInv, Coherent, TakeCluster, bufVars, posVars
<1>2. PICK c \in Found(page) : Change(page, Put(Fat(c), EndOfChain)) /\ clust' = c
  BY DEF TakeCluster
<1>3. c \in Clusters /\ Page(c) = page /\ Cached(page)[Fat(c)] = 0
  BY <1>2 DEF Found, FreeEntries
<1> DEFINE new == Put(Fat(c), EndOfChain)
<1>4. EndOfChain \in Int /\ EndOfChain # 0
  BY LocFacts
<1>5. /\ DOMAIN new = {Fat(c)} /\ new[Fat(c)] = EndOfChain
      /\ Fat(c) \in Locs /\ Block(Fat(c)) = page /\ Fat(c)[1] = "fat"
  BY <1>3, <1>4, PutFacts
<1>6. Sound(Over(Flushed, new))
  BY <1>1, <1>3, Marking
<1> HIDE DEF new
<1>7. /\ Flushed' = Over(Flushed, new) /\ Sound(Flushed)' /\ Sound(disk)' /\ Coherent'
      /\ disk' \in [Locs -> Int] /\ lastread' = page /\ dirty' = TRUE
  <2>1. Change(page, new)
    BY <1>2 DEF new
  <2> QED BY <1>1, <1>4, <1>5, <1>6, <2>1, MetadataChanged
<1>8. Flushed[Fat(c)] = 0
  BY <1>1, <1>3, <1>5, Seen
<1>9. ClusterInHand'
  <2>1. \A l \in Pointers(Flushed) : Flushed[l] # c
    BY <1>1, <1>8 DEF Sound
  <2>2. \A l \in Pointers(Flushed') : l \in Pointers(Flushed) /\ Flushed'[l] = Flushed[l]
    BY <1>5, <1>7 DEF Pointers, Over
  <2>3. Flushed'[Fat(c)] = EndOfChain
    BY <1>5, <1>7 DEF Over
  <2>4. writelink # 0 => Flushed[Fat(writelink)] # 0 /\ writelink \in Clusters
    BY <1>1 DEF ClusterInHand, TypeOK
  <2>5. writelink # 0 => Flushed'[Fat(writelink)] # 0
    BY <1>4, <1>5, <1>7, <2>4, LocFacts DEF Over
  <2>6. Unpointed(clust)' /\ clust' # writelink
    BY <1>2, <1>8, <2>1, <2>2, <2>4, LocFacts, <1>3 DEF Unpointed
  <2> QED BY <1>1, <1>2, <1>3, <2>3, <2>5, <2>6 DEF ClusterInHand
<1>10. clust' \in 0 .. EndOfChain
  BY <1>2, <1>3, LocFacts
<1>11. page \in Nat /\ TypeOK'
  BY <1>1, <1>7, <1>10 DEF TypeOK
<1>12. Position'
  BY <1>1 DEF Position
<1> QED BY <1>7, <1>9, <1>11, <1>12 DEF IInv

LEMMA SearchOnStep == IInv /\ SearchOn => IInv'
<1> SUFFICES ASSUME IInv, SearchOn PROVE IInv'
  OBVIOUS
<1>1. /\ TypeOK /\ Coherent /\ Sound(disk) /\ Sound(Flushed) /\ ClusterInHand /\ Position
      /\ Flushed \in [Locs -> Int] /\ disk \in [Locs -> Int]
      /\ pc = "search" /\ pc' = "search" /\ page' = NextPage
      /\ lastread' = page /\ buf2' = Cached(page)
      /\ IF page = lastread THEN UNCHANGED <<disk, dirty>>
                            ELSE disk' = Flushed /\ ~dirty' /\ dirty' \in BOOLEAN
      /\ UNCHANGED <<data, clust, faults, buf, bufat, todo, writelink, fclust, floc, frem>>
  BY DEF IInv, TypeOK, Coherent, SearchOn, ReadBlock, bufVars, posVars
<1>2. Flushed' = Flushed /\ disk' \in {disk, Flushed} /\ disk' \in [Locs -> Int]
  <2>1. CASE page = lastread
    BY <1>1, <2>1 DEF Flushed, Cached
  <2>2. CASE page # lastread
    BY <1>1, <2>2 DEF Flushed
  <2> QED BY <2>1, <2>2
<1>3. buf2' = Contents(Flushed', lastread')
  <2>1. \A l \in Locs : Block(l) = page => Cached(page)[l] = Flushed[l]
    BY <1>1, Seen
  <2>2. Cached(page) = [l \in {x \in Locs : Block(x) = page} |-> Cached(page)[l]]
    BY <1>1 DEF Coherent, Cached, Contents
  <2> QED BY <1>1, <1>2, <2>1, <2>2 DEF Contents
<1>4. Coherent'
  BY <1>1, <1>2, <1>3 DEF Coherent
<1>5. Sound(disk)' /\ Sound(Flushed)'
  BY <1>1, <1>2 DEF Sound, Pointers
<1>6. ClusterInHand'
  BY <1>1, <1>2 DEF ClusterInHand
<1>7. TypeOK'
  <2>1. page \in Nat /\ (NextPage = 0 \/ NextPage = page + 1)
    BY <1>1 DEF TypeOK, NextPage
  <2>2. page' \in Nat /\ lastread' \in Nat /\ dirty' \in BOOLEAN
    BY <1>1, <2>1 DEF TypeOK
  <2> QED BY <1>1, <1>2, <2>2 DEF TypeOK
<1>8. Position'
  BY <1>1 DEF Position
<1> QED BY <1>4, <1>5, <1>6, <1>7, <1>8 DEF IInv

LEMMA LinkStep == IInv /\ Link => IInv'
<1> SUFFICES ASSUME IInv, Link PROVE IInv'
  OBVIOUS
<1>1. /\ TypeOK /\ Coherent /\ Sound(disk) /\ Sound(Flushed) /\ ClusterInHand /\ Position
      /\ Flushed \in [Locs -> Int] /\ pc = "link" /\ pc' = "data"
      /\ writelink' = clust /\ fclust' = clust /\ frem' = SectorsPerCluster
      /\ UNCHANGED <<data, buf, bufat, todo, floc, clust, page, faults>>
  BY DEF IInv, Coherent, Link, bufVars
<1>2. /\ clust \in Clusters /\ clust # writelink /\ Flushed[Fat(clust)] = EndOfChain
      /\ \A l \in Pointers(Flushed) : Flushed[l] # clust
      /\ writelink \in {0} \cup Clusters /\ floc + 1 \in Int /\ clust \in Int /\ EndOfChain # 0
  BY <1>1, LocFacts DEF ClusterInHand, Unpointed, TypeOK, Clusters
<1> DEFINE Fits(b, new, k) ==
             /\ Change(b, new)
             /\ \A l \in DOMAIN new : /\ l \in Locs /\ Block(l) = b /\ new[l] \in Int
                                      /\ l[1] # "size" => l = k /\ new[l] = clust
             /\ Fat(clust) \notin DOMAIN new
             /\ b \in {Dir} \cup Nat
<1>3. \E b, new, k : Fits(b, new, k)
  <2>1. CASE writelink = 0
    <3>1. Change(Dir, Entry(clust, floc + 1))
      BY <2>1 DEF Link
    <3>2. Fits(Dir, Entry(clust, floc + 1), First("file"))
      BY <1>2, <3>1, EntryFacts
    <3> HIDE DEF Fits
    <3> QED BY <3>2
  <2>2. CASE writelink # 0
    <3>1. Change(Page(writelink), Put(Fat(writelink), clust))
      BY <2>2 DEF Link
    <3>2. writelink \in Clusters /\ Page(writelink) \in Nat
      BY <1>2, <2>2, PageIsNat, LocFacts
    <3>3. /\ DOMAIN Put(Fat(writelink), clust) = {Fat(writelink)}
          /\ Put(Fat(writelink), clust)[Fat(writelink)] = clust
          /\ Fat(writelink) \in Locs /\ Block(Fat(writelink)) = Page(writelink)
          /\ Fat(clust) \notin DOMAIN Put(Fat(writelink), clust)
      BY <1>2, <3>2, PutFacts
    <3>4. Fits(Page(writelink), Put(Fat(writelink), clust), Fat(writelink))
      BY <1>2, <3>1, <3>2, <3>3
    <3> HIDE DEF Fits
    <3> QED BY <3>4
  <2> QED BY <2>1, <2>2
<1> PICK b, new, k : Fits(b, new, k)
  BY <1>3
<1>4. Sound(Over(Flushed, new))
  <2>1. /\ \A l \in DOMAIN new : l \in Locs /\ (l[1] # "size" => new[l] = clust)
        /\ \A l, m \in DOMAIN new : l[1] # "size" /\ m[1] # "size" => l = m
    OBVIOUS
  <2>2. Flushed[Fat(clust)] # 0
    BY <1>2
  <2> HIDE DEF Fits
  <2> QED BY <1>1, <1>2, <2>1, <2>2, Linking
<1>5. /\ Flushed' = Over(Flushed, new) /\ Sound(Flushed)' /\ Sound(disk)' /\ Coherent'
      /\ disk' \in [Locs -> Int] /\ lastread' = b /\ dirty' = TRUE
  BY <1>1, <1>4, MetadataChanged
<1>6. Flushed'[Fat(clust)] # 0
  BY <1>2, <1>5, LocFacts DEF Over
<1>7. ClusterInHand'
  BY <1>1, <1>6 DEF ClusterInHand
<1>8. TypeOK'
  BY <1>1, <1>2, <1>5, Parameters DEF TypeOK
<1>9. Position'
  BY <1>1, Parameters DEF Position
<1> QED BY <1>5, <1>7, <1>8, <1>9 DEF IInv

LEMMA WriteDataStep == IInv /\ WriteData => IInv'
<1> SUFFICES ASSUME IInv, WriteData PROVE IInv'
  OBVIOUS
<1>1. /\ TypeOK /\ Position /\ pc = "data"
      /\ pc' = IF todo > NSectors THEN "metadata" ELSE "write"
      /\ data' = [data EXCEPT ![DataBlock] = buf]
      /\ IF bufat = "full"
         THEN floc' = floc + 1 /\ frem' = frem - 1 /\ bufat' = "empty"
         ELSE UNCHANGED <<floc, frem, bufat>>
      /\ UNCHANGED <<disk, buf2, lastread, dirty, buf, todo, writelink, fclust, clust, page,
                     faults>>
  BY DEF IInv, WriteData, Closing, metaVars
<1>2. Coherent' /\ Sound(disk)' /\ Sound(Flushed)' /\ ClusterInHand'
  BY <1>1, MetadataUntouched DEF metaVars
<1>3. data' \in [Sectors -> Int]
  BY <1>1 DEF TypeOK
<1>4. /\ frem > 0 /\ bufat # "empty" /\ todo - 1 = floc + 1
      /\ bufat = "part" => todo = NSectors + 1
  BY <1>1 DEF Position
<1>5. floc' \in 0 .. NSectors /\ frem' \in 0 .. SectorsPerCluster
  BY <1>1, <1>4, Parameters DEF TypeOK
<1>6. TypeOK'
  BY <1>1, <1>3, <1>5 DEF TypeOK
<1>7. Position'
  <2>1. CASE bufat = "full"
    BY <1>1, <1>4, <2>1, Parameters DEF Position, TypeOK
  <2>2. CASE bufat = "part"
    BY <1>1, <1>4, <2>2, Parameters DEF Position, TypeOK
  <2> QED BY <1>1, <1>4, <2>1, <2>2 DEF TypeOK
<1> QED BY <1>2, <1>6, <1>7 DEF IInv

LEMMA WriteMetadataStep == IInv /\ WriteMetadata => IInv'
<1> SUFFICES ASSUME IInv, WriteMetadata PROVE IInv'
  OBVIOUS
<1> DEFINE n == floc + (IF bufat = "part" THEN 1 ELSE 0)
           new == Put(Size("file"), n)
<1>1. /\ TypeOK /\ Coherent /\ Sound(disk) /\ Sound(Flushed) /\ ClusterInHand /\ Position
      /\ Flushed \in [Locs -> Int] /\ pc = "metadata" /\ pc' = "close" /\ Change(Dir, new)
      /\ UNCHANGED <<data, buf, bufat, todo, writelink, fclust, floc, frem, clust, page, faults>>
  BY DEF IInv, Coherent, WriteMetadata, bufVars, posVars
<1>2. n \in Int
  BY <1>1 DEF TypeOK
<1>3. /\ DOMAIN new = {Size("file")} /\ new[Size("file")] = n
      /\ Size("file") \in Locs /\ Block(Size("file")) = Dir /\ Size("file")[1] = "size"
      /\ \A x \in Clusters : Fat(x) \in Locs /\ Fat(x) \notin DOMAIN new
  BY LocFacts DEF Put
<1> HIDE DEF new, n
<1>4. \A l \in Pointers(Flushed) : Fat(Flushed[l]) \notin DOMAIN new
  BY <1>1, <1>3 DEF Sound
<1>5. Sound(Over(Flushed, new))
  BY <1>1, <1>3, <1>4, Clearing
<1>6. /\ Flushed' = Over(Flushed, new) /\ Sound(Flushed)' /\ Sound(disk)' /\ Coherent'
      /\ disk' \in [Locs -> Int] /\ lastread' = Dir /\ dirty' = TRUE
  <2>1. \A l \in DOMAIN new : l \in Locs /\ Block(l) = Dir /\ new[l] \in Int
    BY <1>2, <1>3
  <2>2. pc # "aborted" /\ pc' \notin {"popen", "aborted"}
    BY <1>1
  <2> QED BY <1>1, <1>5, <2>1, <2>2, MetadataChanged
<1>7. ClusterInHand'
  <2>1. writelink # 0 => writelink \in Clusters /\ Flushed[Fat(writelink)] # 0
    BY <1>1 DEF ClusterInHand, TypeOK
  <2>2. writelink # 0 => Flushed'[Fat(writelink)] # 0
    BY <1>3, <1>6, <2>1 DEF Over
  <2> QED BY <1>1, <2>2 DEF ClusterInHand
<1>8. TypeOK'
  BY <1>1, <1>6 DEF TypeOK
<1>9. Position'
  BY <1>1 DEF Position
<1> QED BY <1>6, <1>7, <1>8, <1>9 DEF IInv

LEMMA PcloseStep == IInv /\ Pclose => IInv'
<1> SUFFICES ASSUME IInv, Pclose PROVE IInv'
  OBVIOUS
<1>1. /\ pc = "close" /\ pc' = "done" /\ disk' = Flushed /\ ~dirty' /\ dirty' \in BOOLEAN
      /\ bufat' = "empty" /\ floc' = 0 /\ frem' = 0 /\ writelink' = 0 /\ fclust' = 0
      /\ UNCHANGED <<data, clust, page, faults, buf, todo>>
      /\ buf2' = buf2 /\ lastread' = lastread
  BY DEF Pclose, FlushIfDirty
<1>2. /\ Flushed' = Flushed /\ disk' \in [Locs -> Int] /\ Coherent'
      /\ Sound(disk)' /\ Sound(Flushed)'
  BY <1>1, WrittenBack
<1>3. TypeOK'
  BY <1>1, <1>2, Parameters DEF IInv, TypeOK
<1>4. ClusterInHand' /\ Position'
  BY <1>1 DEF ClusterInHand, Position
<1> QED BY <1>2, <1>3, <1>4 DEF IInv

LEMMA RestartStep == IInv /\ Restart => IInv'
<1> SUFFICES ASSUME IInv, Restart PROVE IInv'
  OBVIOUS
<1>1. /\ faults < MaxFaults /\ faults' = faults + 1 /\ UNCHANGED <<disk, data>>
      /\ buf2' = Contents(disk', None) /\ lastread' = None
      /\ ~dirty' /\ dirty' \in BOOLEAN
      /\ buf' = 0 /\ bufat' = "empty" /\ todo' = 1
      /\ writelink' = 0 /\ fclust' = 0 /\ floc' = 0 /\ frem' = 0
      /\ clust' = 0 /\ page' = 0 /\ pc' = "popen"
  BY DEF Restart, Fault
<1>2. disk \in [Locs -> Int] /\ Sound(disk) /\ Flushed' = disk /\ TypeOK
  BY <1>1 DEF IInv, TypeOK, Flushed
<1>3. TypeOK'
  BY <1>1, <1>2, Parameters DEF TypeOK
<1>4. Coherent' /\ ClusterInHand' /\ Position'
  BY <1>1, <1>2 DEF Coherent, ClusterInHand, Position
<1>5. Sound(disk)' /\ Sound(Flushed)'
  BY <1>1, <1>2 DEF Sound, Pointers
<1> QED BY <1>3, <1>4, <1>5 DEF IInv

LEMMA ReadFailsStep == IInv /\ ReadFails => IInv'
<1> SUFFICES ASSUME IInv, ReadFails PROVE IInv'
  OBVIOUS
<1>1. /\ faults < MaxFaults /\ faults' = faults + 1 /\ Wanted # lastread
      /\ disk' = Flushed /\ ~dirty' /\ dirty' \in BOOLEAN /\ UNCHANGED lastread /\ pc' = "aborted"
      /\ UNCHANGED <<data, clust, page, buf, bufat, todo, writelink, fclust, floc, frem>>
  BY DEF ReadFails, Fault, bufVars, posVars
<1>2. pc # "aborted"
  BY <1>1 DEF Wanted
<1>3. /\ Flushed' = Flushed /\ disk' \in [Locs -> Int] /\ Coherent'
      /\ Sound(disk)' /\ Sound(Flushed)'
  BY <1>1, <1>2, WrittenBack
<1>4. TypeOK'
  BY <1>1, <1>3, Parameters DEF IInv, TypeOK
<1>5. ClusterInHand' /\ Position'
  BY <1>1, <1>3 DEF IInv, ClusterInHand, Position
<1> QED BY <1>3, <1>4, <1>5 DEF IInv

LEMMA Stutter == IInv /\ UNCHANGED vars => IInv'
BY DEF vars, metaVars, bufVars, posVars, IInv, TypeOK, Coherent, ClusterInHand, Position,
       Unpointed, Flushed, Sound, Pointers, Contents

LEMMA StepKeepsInvariant == IInv /\ [Next]_vars => IInv'
BY PopenExistingStep, PopenNewStep, PopenRefusedStep, FreeClusterStep, FreedAllStep, FillStep,
   FlushBufferStep, TakeClusterStep, SearchOnStep, LinkStep, WriteDataStep,
   WriteMetadataStep, PcloseStep, RestartStep, ReadFailsStep, Stutter DEF Next, Step

\* The inductive invariant of the file system's writing side.
THEOREM Invariance == Spec => []IInv
BY Initially, StepKeepsInvariant, PTL DEF Spec

\* Whenever power fails, for every volume, layout and file, no two chains share
\* a cluster and none leads to a free one.
THEOREM CardIsSound == Spec => []DiskSound
<1>1. IInv => DiskSound
  BY DEF IInv, DiskSound
<1> QED BY <1>1, Invariance, PTL

-----------------------------------------------------------------------------
(* Chains: the recursion by which they are defined, and what soundness says   *)
(* of them.                                                                  *)

IsChain(g, d, f) ==
  g = [n \in 0 .. TotClusters |->
         IF n = 0 THEN d[First(f)]
         ELSE IF g[n - 1] \in Clusters THEN d[Fat(g[n - 1])] ELSE g[n - 1]]

LEMMA ChainFacts ==
  ASSUME NEW d \in [Locs -> Int], NEW f \in Files
  PROVE  /\ Chain(d, f) \in [0 .. TotClusters -> Int]
         /\ Chain(d, f)[0] = d[First(f)]
         /\ \A n \in 1 .. TotClusters :
              /\ Chain(d, f)[n - 1] \in Clusters => Chain(d, f)[n] = d[Fat(Chain(d, f)[n - 1])]
              /\ Chain(d, f)[n - 1] \notin Clusters => Chain(d, f)[n] = Chain(d, f)[n - 1]
<1> DEFINE next == [x \in Int |-> IF x \in Clusters THEN d[Fat(x)] ELSE x]
           step == [k \in 1 .. TotClusters |-> next]
<1>1. next \in [Int -> Int] /\ step \in [1 .. TotClusters -> [Int -> Int]] /\ d[First(f)] \in Int
  BY LocFacts
<1>2. PICK g \in [0 .. TotClusters -> Int] : IsRun(g, TotClusters, d[First(f)], step)
  <2> HIDE DEF step
  <2> QED BY <1>1, RunExists, Parameters
<1>3. IsChain(g, d, f)
  <2>1. \A x \in Int : next[x] = IF x \in Clusters THEN d[Fat(x)] ELSE x
    OBVIOUS
  <2>2. \A n \in 1 .. TotClusters : step[n] = next
    OBVIOUS
  <2>3. g = [n \in 0 .. TotClusters |-> IF n = 0 THEN d[First(f)] ELSE step[n][g[n - 1]]]
    BY <1>2 DEF IsRun
  <2>4. \A n \in 0 .. TotClusters : n # 0 => n \in 1 .. TotClusters /\ g[n - 1] \in Int
    BY Parameters
  <2> HIDE DEF next, step
  <2>5. \A n \in 0 .. TotClusters :
          n # 0 => step[n][g[n - 1]] = IF g[n - 1] \in Clusters THEN d[Fat(g[n - 1])] ELSE g[n - 1]
    BY <2>1, <2>2, <2>4
  <2> QED BY <2>3, <2>5 DEF IsChain
<1>4. IsChain(Chain(d, f), d, f)
  BY <1>3, Zenon DEF Chain, IsChain
<1> HIDE DEF next, step
<1>5. /\ Chain(d, f)[0] = d[First(f)] /\ DOMAIN Chain(d, f) = 0 .. TotClusters
      /\ \A n \in 1 .. TotClusters :
           /\ Chain(d, f)[n - 1] \in Clusters => Chain(d, f)[n] = d[Fat(Chain(d, f)[n - 1])]
           /\ Chain(d, f)[n - 1] \notin Clusters => Chain(d, f)[n] = Chain(d, f)[n - 1]
  BY <1>4, Parameters DEF IsChain
<1> DEFINE T == {n \in 0 .. TotClusters : Chain(d, f)[n] \in Int}
<1>6. 0 \in T /\ \A n \in 0 .. TotClusters - 1 : n \in T => n + 1 \in T
  <2>1. \A x \in Clusters : d[Fat(x)] \in Int
    BY LocFacts
  <2>2. ASSUME NEW n \in 0 .. TotClusters - 1, Chain(d, f)[n] \in Int
        PROVE  n + 1 \in 0 .. TotClusters /\ Chain(d, f)[n + 1] \in Int
    <3>1. n + 1 \in 1 .. TotClusters /\ (n + 1) - 1 = n /\ n + 1 \in 0 .. TotClusters
      BY Parameters
    <3>2. /\ Chain(d, f)[n] \in Clusters => Chain(d, f)[n + 1] = d[Fat(Chain(d, f)[n])]
          /\ Chain(d, f)[n] \notin Clusters => Chain(d, f)[n + 1] = Chain(d, f)[n]
      BY <1>5, <3>1
    <3> QED BY <2>1, <2>2, <3>1, <3>2
  <2>3. 0 \in 0 .. TotClusters /\ Chain(d, f)[0] \in Int
    BY <1>1, <1>5, Parameters
  <2> QED BY <2>2, <2>3
<1>7. 0 .. TotClusters \subseteq T
  <2> HIDE DEF T
  <2> QED BY <1>6, InductUpTo, Parameters
<1>8. Chain(d, f) = [n \in 0 .. TotClusters |-> Chain(d, f)[n]]
  BY <1>4 DEF IsChain
<1> QED BY <1>5, <1>7, <1>8

LEMMA ChainStep ==
  ASSUME NEW d \in [Locs -> Int], NEW f \in Files, NEW n \in 0 .. TotClusters - 1
  PROVE  /\ n + 1 \in 0 .. TotClusters /\ n \in 0 .. TotClusters
         /\ Chain(d, f)[n] \in Clusters => Chain(d, f)[n + 1] = d[Fat(Chain(d, f)[n])]
         /\ Chain(d, f)[n] \notin Clusters => Chain(d, f)[n + 1] = Chain(d, f)[n]
<1>1. n + 1 \in 1 .. TotClusters /\ (n + 1) - 1 = n
  BY Parameters
<1> QED BY <1>1, ChainFacts, Parameters

\* Volumes that agree on a file's first cluster and on the entries of the
\* clusters before the n-th agree on the chain as far as the n-th.
LEMMA SameChain ==
  ASSUME NEW d \in [Locs -> Int], NEW e \in [Locs -> Int], NEW f \in Files,
         NEW n \in 0 .. TotClusters, e[First(f)] = d[First(f)],
         \A k \in 0 .. n - 1 :
           Chain(d, f)[k] \in Clusters => e[Fat(Chain(d, f)[k])] = d[Fat(Chain(d, f)[k])]
  PROVE  \A k \in 0 .. n : Chain(e, f)[k] = Chain(d, f)[k]
<1> DEFINE T == {k \in 0 .. n : Chain(e, f)[k] = Chain(d, f)[k]}
<1>1. 0 \in T
  BY ChainFacts
<1>2. ASSUME NEW k \in 0 .. n - 1, k \in T PROVE k + 1 \in T
  <2>1. k \in 0 .. TotClusters - 1 /\ k + 1 \in 0 .. n
    BY Parameters
  <2>2. Chain(e, f)[k] = Chain(d, f)[k]
    BY <1>2
  <2>3. Chain(e, f)[k + 1] = Chain(d, f)[k + 1]
    BY <2>1, <2>2, ChainStep
  <2> QED BY <2>1, <2>3
<1> HIDE DEF T
<1>3. 0 .. n \subseteq T
  BY <1>1, <1>2, InductUpTo
<1> QED BY <1>3 DEF T

\* A cluster of a file is in use, and something points to it.
LEMMA HeldIsPointedTo ==
  ASSUME NEW d \in [Locs -> Int], NEW f \in Files, NEW n \in 0 .. TotClusters,
         Chain(d, f)[n] \in Clusters
  PROVE  /\ n = 0 => First(f) \in Pointers(d) /\ d[First(f)] = Chain(d, f)[n]
         /\ n # 0 => /\ Chain(d, f)[n - 1] \in Clusters
                     /\ Fat(Chain(d, f)[n - 1]) \in Pointers(d)
                     /\ d[Fat(Chain(d, f)[n - 1])] = Chain(d, f)[n]
<1>1. CASE n = 0
  BY <1>1, ChainFacts, LocFacts DEF Pointers
<1>2. CASE n # 0
  <2>1. n \in 1 .. TotClusters
    BY <1>2
  <2>2. Chain(d, f)[n - 1] \in Clusters /\ d[Fat(Chain(d, f)[n - 1])] = Chain(d, f)[n]
    BY <2>1, ChainFacts
  <2>3. \A c \in Clusters : Fat(c) \in Locs /\ Fat(c)[1] = "fat" /\ c # 0 /\ c # EndOfChain
    BY LocFacts
  <2>4. Fat(Chain(d, f)[n - 1]) \in Pointers(d)
    BY <2>2, <2>3 DEF Pointers
  <2> QED BY <1>2, <2>2, <2>4
<1> QED BY <1>1, <1>2

\* No cluster is twice in a chain, and the chains share none.
LEMMA ChainsAreDisjoint ==
  ASSUME NEW d \in [Locs -> Int], Sound(d), NEW f \in Files, NEW g \in Files,
         NEW i \in 0 .. TotClusters, NEW j \in 0 .. TotClusters,
         Chain(d, f)[i] = Chain(d, g)[j], Chain(d, f)[i] \in Clusters
  PROVE  f = g /\ i = j
<1> DEFINE T == {k \in 0 .. TotClusters :
                   \A m \in 0 .. TotClusters :
                     Chain(d, f)[k] = Chain(d, g)[m] /\ Chain(d, f)[k] \in Clusters
                       => f = g /\ k = m}
<1>1. ASSUME NEW k \in 0 .. TotClusters, NEW m \in 0 .. TotClusters,
             Chain(d, f)[k] = Chain(d, g)[m], Chain(d, f)[k] \in Clusters
      PROVE  \/ k = 0 /\ m = 0 /\ f = g
             \/ k # 0 /\ m # 0 /\ Chain(d, f)[k - 1] = Chain(d, g)[m - 1]
                /\ Chain(d, f)[k - 1] \in Clusters
  <2>1. \A c \in Clusters : Fat(c)[1] = "fat" /\ Fat(c)[2] = c
    BY LocFacts
  <2>2. \A h \in Files : First(h)[1] = "first" /\ First(h)[2] = h
    BY LocFacts
  <2>3. \A l, p \in Pointers(d) : d[l] = d[p] => l = p
    BY DEF Sound
  <2>4. CASE k = 0
    BY <1>1, <2>1, <2>2, <2>3, <2>4, HeldIsPointedTo
  <2>5. CASE k # 0
    BY <1>1, <2>1, <2>2, <2>3, <2>5, HeldIsPointedTo
  <2> QED BY <2>4, <2>5
<1>2. 0 \in T
  BY <1>1, Parameters
<1>3. ASSUME NEW k \in 0 .. TotClusters - 1, k \in T PROVE k + 1 \in T
  <2>1. k + 1 \in 0 .. TotClusters /\ k + 1 # 0 /\ (k + 1) - 1 = k
    BY Parameters
  <2>2. SUFFICES ASSUME NEW m \in 0 .. TotClusters,
                        Chain(d, f)[k + 1] = Chain(d, g)[m], Chain(d, f)[k + 1] \in Clusters
                 PROVE  f = g /\ k + 1 = m
    BY <2>1
  <2>3. m # 0 /\ Chain(d, f)[k] = Chain(d, g)[m - 1] /\ Chain(d, f)[k] \in Clusters
    BY <1>1, <2>1, <2>2
  <2>4. m - 1 \in 0 .. TotClusters
    BY <2>3, Parameters
  <2> QED BY <1>3, <2>3, <2>4
<1> HIDE DEF T
<1>4. 0 .. TotClusters \subseteq T
  BY <1>2, <1>3, InductUpTo, Parameters
<1> QED BY <1>4 DEF T

LEMMA ChainBefore ==
  ASSUME NEW d \in [Locs -> Int], NEW f \in Files, NEW n \in 0 .. TotClusters,
         Chain(d, f)[n] \in Clusters
  PROVE  \A k \in 0 .. n : Chain(d, f)[k] \in Clusters
<1> DEFINE T == {j \in 0 .. n : Chain(d, f)[n - j] \in Clusters}
<1>1. 0 \in T
  BY Parameters
<1>2. ASSUME NEW j \in 0 .. n - 1, j \in T PROVE j + 1 \in T
  <2>1. n - j \in 0 .. TotClusters /\ n - j # 0 /\ (n - j) - 1 = n - (j + 1) /\ j + 1 \in 0 .. n
    BY Parameters
  <2>2. Chain(d, f)[n - j] \in Clusters
    BY <1>2
  <2>3. Chain(d, f)[(n - j) - 1] \in Clusters
    BY <2>1, <2>2, HeldIsPointedTo
  <2> QED BY <2>1, <2>3
<1> HIDE DEF T
<1>3. 0 .. n \subseteq T
  BY <1>1, <1>2, InductUpTo, Parameters
<1>4. ASSUME NEW k \in 0 .. n PROVE Chain(d, f)[k] \in Clusters
  <2>1. n - k \in 0 .. n /\ n - (n - k) = k
    BY Parameters
  <2>2. n - k \in T
    BY <1>3, <2>1
  <2> QED BY <2>1, <2>2 DEF T
<1> QED BY <1>4

\* A chain comes to its end: there are not clusters enough to go on.
LEMMA ChainIsShort ==
  ASSUME NEW d \in [Locs -> Int], Sound(d), NEW f \in Files, NEW n \in 0 .. TotClusters,
         Chain(d, f)[n] \in Clusters
  PROVE  n + 1 \in 0 .. TotClusters
<1> DEFINE g == [k \in 0 .. n |-> Chain(d, f)[k]]
<1>1. g \in [0 .. n -> Clusters]
  BY ChainBefore
<1>2. \A i, j \in 0 .. n : g[i] = g[j] => i = j
  BY <1>1, ChainsAreDisjoint, Parameters
<1>3. /\ IsFiniteSet(0 .. n) /\ Cardinality(0 .. n) = n + 1
      /\ IsFiniteSet(Clusters) /\ Cardinality(Clusters) = TotClusters - 2
  BY Parameters, FS_Interval DEF Clusters
<1> HIDE DEF g
<1>4. ~(TotClusters - 2 < n + 1)
  BY <1>1, <1>2, <1>3, FS_PigeonHole
<1> QED BY <1>4, Parameters

\* What a step leaves of a chain that it does not touch.
LEMMA ChainUntouched ==
  ASSUME NEW d \in [Locs -> Int], NEW e \in [Locs -> Int], NEW f \in Files,
         e[First(f)] = d[First(f)],
         \A k \in 0 .. TotClusters :
           Chain(d, f)[k] \in Clusters => e[Fat(Chain(d, f)[k])] = d[Fat(Chain(d, f)[k])]
  PROVE  Chain(e, f) = Chain(d, f)
<1>1. TotClusters \in 0 .. TotClusters /\ \A k \in 0 .. TotClusters - 1 : k \in 0 .. TotClusters
  BY Parameters
<1>2. \A k \in 0 .. TotClusters : Chain(e, f)[k] = Chain(d, f)[k]
  BY <1>1, SameChain
<1>3. /\ Chain(d, f) = [k \in 0 .. TotClusters |-> Chain(d, f)[k]]
      /\ Chain(e, f) = [k \in 0 .. TotClusters |-> Chain(e, f)[k]]
  BY ChainFacts
<1> QED BY <1>2, <1>3

LEMMA Division ==
  ASSUME NEW i \in Nat
  PROVE  i \div SectorsPerCluster \in Nat /\ i % SectorsPerCluster \in 0 .. SectorsPerCluster - 1
BY Parameters

LEMMA Quotient ==
  ASSUME NEW i \in Nat, NEW m \in Nat, i < (m + 1) * SectorsPerCluster
  PROVE  i \div SectorsPerCluster <= m
BY Parameters

LEMMA QuotientIs ==
  ASSUME NEW i \in Nat, NEW q \in Nat, NEW r \in 0 .. SectorsPerCluster - 1,
         i = q * SectorsPerCluster + r
  PROVE  i \div SectorsPerCluster = q
BY Parameters

\* The places of the first sectors of a file: on the card, no two the same.
LEMMA Places ==
  ASSUME NEW d \in [Locs -> Int], Sound(d), NEW m \in 0 .. TotClusters,
         Chain(d, "file")[m] \in Clusters
  PROVE  \A i \in 0 .. (m + 1) * SectorsPerCluster - 1 :
           /\ i \div SectorsPerCluster \in 0 .. m /\ i \div SectorsPerCluster \in 0 .. TotClusters
           /\ Place(d, i) \in Sectors
           /\ \A j \in 0 .. (m + 1) * SectorsPerCluster - 1 :
                Place(d, i) = Place(d, j) => i = j
<1> DEFINE q(i) == i \div SectorsPerCluster
           r(i) == i % SectorsPerCluster
           top == (m + 1) * SectorsPerCluster
<1>1. \A i \in 0 .. top - 1 : q(i) \in 0 .. m /\ r(i) \in 0 .. SectorsPerCluster - 1
  <2>1. ASSUME NEW i \in 0 .. top - 1 PROVE q(i) <= m
    <3>1. i \in Nat /\ m \in Nat /\ i < (m + 1) * SectorsPerCluster
      BY Parameters
    <3> QED BY <3>1, Quotient
  <2>2. \A i \in 0 .. top - 1 : i \in Nat
    BY Parameters
  <2> QED BY <2>1, <2>2, Division, Parameters
<1>2. \A i, j \in 0 .. top - 1 : q(i) = q(j) /\ r(i) = r(j) => i = j
  BY Parameters
<1>3. 0 .. m \subseteq 0 .. TotClusters /\ \A k \in 0 .. m : Chain(d, "file")[k] \in Clusters
  BY ChainBefore, Parameters DEF Files
<1>4. \A i, j \in 0 .. m : Chain(d, "file")[i] = Chain(d, "file")[j] => i = j
  BY <1>3, ChainsAreDisjoint DEF Files
<1> HIDE DEF q, r, top
<1>5. \A i \in 0 .. top - 1 : <<Chain(d, "file")[q(i)], r(i)>> \in Sectors
  BY <1>1, <1>3 DEF Sectors
<1>6. \A i, j \in 0 .. top - 1 :
        <<Chain(d, "file")[q(i)], r(i)>> = <<Chain(d, "file")[q(j)], r(j)>> => i = j
  BY <1>1, <1>2, <1>4
<1>7. \A i : Place(d, i) = <<Chain(d, "file")[q(i)], r(i)>>
  BY DEF Place, q, r
<1>8. \A i \in 0 .. top - 1 : q(i) \in 0 .. m /\ q(i) \in 0 .. TotClusters
  BY <1>1, <1>3
<1>9. \A i \in 0 .. top - 1 :
        /\ q(i) \in 0 .. m /\ q(i) \in 0 .. TotClusters /\ Place(d, i) \in Sectors
        /\ \A j \in 0 .. top - 1 : Place(d, i) = Place(d, j) => i = j
  BY <1>5, <1>6, <1>7, <1>8
<1> QED BY <1>9 DEF q, top

-----------------------------------------------------------------------------
(* What the steps do to the metadata.                                        *)

LEMMA OverPut ==
  ASSUME NEW d, NEW c \in Clusters, NEW v \in Int
  PROVE  /\ Over(d, Put(Fat(c), v))[Fat(c)] = v
         /\ \A l \in Locs : l # Fat(c) => Over(d, Put(Fat(c), v))[l] = d[l]
<1> DEFINE new == Put(Fat(c), v)
<1>1. DOMAIN new = {Fat(c)} /\ new[Fat(c)] = v /\ Fat(c) \in Locs
  BY PutFacts
<1> HIDE DEF new
<1>2. /\ Over(d, new)[Fat(c)] = v
      /\ \A l \in Locs : l # Fat(c) => Over(d, new)[l] = d[l]
  BY <1>1 DEF Over
<1> QED BY <1>2 DEF new

LEMMA PutChange ==
  ASSUME NEW c \in Clusters, NEW v \in Int
  PROVE  \A l \in DOMAIN Put(Fat(c), v) :
           l \in Locs /\ Block(l) = Page(c) /\ Put(Fat(c), v)[l] \in Int
<1> DEFINE new == Put(Fat(c), v)
<1>1. /\ DOMAIN new = {Fat(c)} /\ new[Fat(c)] = v
      /\ Fat(c) \in Locs /\ Block(Fat(c)) = Page(c)
  BY PutFacts
<1> HIDE DEF new
<1>2. \A l \in DOMAIN new : l \in Locs /\ Block(l) = Page(c) /\ new[l] \in Int
  BY <1>1
<1> QED BY <1>2 DEF new

LEMMA PopenExistingEffect ==
  ASSUME IInv, PopenExisting
  PROVE  Flushed' = Over(Flushed, Entry(0, 0)) /\ disk' \in {disk, Flushed}
<1>1. pc = "popen" /\ Change(Dir, Entry(0, 0)) /\ disk \in [Locs -> Int] /\ Coherent
  BY DEF PopenExisting, IInv, TypeOK
<1>2. \A l \in DOMAIN Entry(0, 0) : l \in Locs /\ Block(l) = Dir /\ Entry(0, 0)[l] \in Int
  BY EntryFacts
<1> QED BY <1>1, <1>2, Changed

LEMMA FreeClusterEffect ==
  ASSUME IInv, FreeCluster
  PROVE  /\ Flushed' = Over(Flushed, Put(Fat(clust), 0)) /\ disk' \in {disk, Flushed}
         /\ clust \in Clusters /\ Unpointed(clust) /\ pc = "free" /\ pc' = "free"
<1>1. pc = "free" /\ clust < EndOfChain /\ disk \in [Locs -> Int] /\ Coherent
  BY DEF FreeCluster, IInv, TypeOK
<1>2. clust \in Clusters /\ Unpointed(clust)
  BY <1>1, LocFacts DEF IInv, ClusterInHand
<1>3. Change(Page(clust), Put(Fat(clust), 0)) /\ pc' = "free"
  BY <1>1, <1>2, LocFacts DEF FreeCluster, Clusters
<1>4. \A l \in DOMAIN Put(Fat(clust), 0) :
        l \in Locs /\ Block(l) = Page(clust) /\ Put(Fat(clust), 0)[l] \in Int
  BY <1>2, PutChange
<1> QED BY <1>1, <1>2, <1>3, <1>4, Changed

LEMMA TakeClusterEffect ==
  ASSUME IInv, TakeCluster
  PROVE  /\ clust' \in Clusters /\ Flushed[Fat(clust')] = 0
         /\ Flushed' = Over(Flushed, Put(Fat(clust'), EndOfChain)) /\ disk' \in {disk, Flushed}
<1>1. /\ pc = "search" /\ disk \in [Locs -> Int] /\ Coherent
      /\ clust' \in Found(page) /\ Change(page, Put(Fat(clust'), EndOfChain))
  BY DEF TakeCluster, IInv, TypeOK
<1>2. clust' \in Clusters /\ Page(clust') = page /\ Cached(page)[Fat(clust')] = 0
  BY <1>1 DEF Found, FreeEntries
<1>3. EndOfChain \in Int
  BY LocFacts
<1>4. /\ Fat(clust') \in Locs /\ Block(Fat(clust')) = page
      /\ \A l \in DOMAIN Put(Fat(clust'), EndOfChain) :
           l \in Locs /\ Block(l) = page /\ Put(Fat(clust'), EndOfChain)[l] \in Int
  BY <1>2, <1>3, PutChange, PutFacts
<1>5. Flushed[Fat(clust')] = 0
  BY <1>1, <1>2, <1>4, Seen
<1> QED BY <1>1, <1>2, <1>4, <1>5, Changed

LEMMA LinkEffect ==
  ASSUME IInv, Link
  PROVE  /\ disk' \in {disk, Flushed}
         /\ writelink = 0 => Flushed' = Over(Flushed, Entry(clust, floc + 1))
         /\ writelink # 0 => /\ writelink \in Clusters
                             /\ Flushed' = Over(Flushed, Put(Fat(writelink), clust))
<1>1. /\ pc = "link" /\ disk \in [Locs -> Int] /\ Coherent
      /\ clust \in Clusters /\ clust \in Int /\ writelink \in {0} \cup Clusters /\ floc + 1 \in Int
  BY LocFacts DEF Link, IInv, TypeOK, ClusterInHand
<1>2. CASE writelink = 0
  <2>1. Change(Dir, Entry(clust, floc + 1))
    BY <1>2 DEF Link
  <2>2. \A l \in DOMAIN Entry(clust, floc + 1) :
          l \in Locs /\ Block(l) = Dir /\ Entry(clust, floc + 1)[l] \in Int
    BY <1>1, EntryFacts
  <2> QED BY <1>1, <1>2, <2>1, <2>2, Changed
<1>3. CASE writelink # 0
  <2>1. writelink \in Clusters /\ Change(Page(writelink), Put(Fat(writelink), clust))
    BY <1>1, <1>3 DEF Link
  <2>2. \A l \in DOMAIN Put(Fat(writelink), clust) :
          l \in Locs /\ Block(l) = Page(writelink) /\ Put(Fat(writelink), clust)[l] \in Int
    BY <1>1, <2>1, PutChange
  <2> QED BY <1>1, <1>3, <2>1, <2>2, Changed
<1> QED BY <1>2, <1>3

LEMMA WriteMetadataEffect ==
  ASSUME IInv, WriteMetadata
  PROVE  /\ disk' \in {disk, Flushed}
         /\ Flushed' = Over(Flushed, Put(Size("file"), floc + (IF bufat = "part" THEN 1 ELSE 0)))
<1> DEFINE n == floc + (IF bufat = "part" THEN 1 ELSE 0)
<1>1. /\ pc = "metadata" /\ disk \in [Locs -> Int] /\ Coherent /\ n \in Int
      /\ Change(Dir, Put(Size("file"), n))
  BY DEF WriteMetadata, IInv, TypeOK
<1> HIDE DEF n
<1>2. \A l \in DOMAIN Put(Size("file"), n) :
        l \in Locs /\ Block(l) = Dir /\ Put(Size("file"), n)[l] \in Int
  BY <1>1, LocFacts DEF Put
<1>3. disk' \in {disk, Flushed} /\ Flushed' = Over(Flushed, Put(Size("file"), n))
  BY <1>1, <1>2, Changed
<1> QED BY <1>3 DEF n

LEMMA PopenNewEffect ==
  ASSUME IInv, PopenNew
  PROVE  /\ Flushed = disk /\ Flushed' = disk'
         /\ disk' = [disk EXCEPT ![First("file")] = 0, ![Size("file")] = 0]
<1>1. pc = "popen" /\ ~dirty /\ ~dirty'
  BY DEF PopenNew, IInv, Coherent
<1> QED BY <1>1 DEF Flushed, PopenNew

\* The steps that change no metadata, though they may write back the buffer or
\* lose it.
Quiet == \/ PopenRefused \/ FreedAll \/ Fill \/ FlushBuffer \/ SearchOn \/ WriteData \/ Pclose
         \/ Restart \/ ReadFails \/ UNCHANGED vars

LEMMA QuietEffect ==
  ASSUME IInv, Quiet
  PROVE  /\ disk' \in {disk, Flushed} /\ Flushed' \in {disk, Flushed}
         /\ ~Restart /\ ~PopenRefused => Flushed' = Flushed
         /\ Pclose => disk' = Flushed
<1>1. CASE PopenRefused
  BY <1>1 DEF PopenRefused, ReadBlock, Flushed, Pclose, IInv, Coherent
<1>2. CASE FreedAll \/ Pclose \/ ReadFails
  BY <1>2 DEF FreedAll, Pclose, FlushIfDirty, ReadFails, Flushed
<1>3. CASE Fill \/ FlushBuffer \/ WriteData \/ UNCHANGED vars
  <2>1. UNCHANGED <<disk, buf2, lastread, dirty>>
    BY <1>3 DEF Fill, FlushBuffer, WriteData, vars, metaVars
  <2>2. ~Pclose
    BY <1>3 DEF Fill, FlushBuffer, WriteData, Pclose, vars
  <2> QED BY <2>1, <2>2 DEF Flushed
<1>4. CASE SearchOn
  BY <1>4 DEF SearchOn, ReadBlock, Flushed, Cached, Pclose
<1>5. CASE Restart
  BY <1>5 DEF Restart, Flushed, Pclose
<1> QED BY <1>1, <1>2, <1>3, <1>4, <1>5 DEF Quiet

-----------------------------------------------------------------------------
(* The other file.                                                           *)

\* Its locations are none that the steps change, and its clusters are in use and
\* pointed to.
LEMMA OtherFacts ==
  ASSUME IInv, Apart
  PROVE  /\ disk \in [Locs -> Int] /\ Flushed \in [Locs -> Int]
         /\ First("file") \notin Theirs /\ Size("file") \notin Theirs
         /\ \A c \in Clusters : Fat(c) \in Theirs => c \in Held(disk, "other")
         /\ \A c \in Held(disk, "other") :
              /\ c \in Clusters /\ Flushed[Fat(c)] # 0
              /\ \E l \in Pointers(Flushed) : Flushed[l] = c
<1>1. disk \in [Locs -> Int] /\ Flushed \in [Locs -> Int] /\ Sound(Flushed)
  BY DEF IInv, TypeOK, Coherent
<1>2. "other" \in Files /\ "file" \in Files
  BY DEF Files
<1>3. Held(disk, "other") \subseteq Clusters
  BY DEF Held
<1>4. First("file") \notin Theirs /\ Size("file") \notin Theirs
  <2>1. \A c \in Clusters : Fat(c)[1] = "fat"
    BY LocFacts
  <2> QED BY <1>2, <1>3, <2>1, LocFacts DEF Theirs
<1>5. \A c \in Clusters : Fat(c) \in Theirs => c \in Held(disk, "other")
  <2>1. \A c \in Clusters : Fat(c)[1] = "fat" /\ Fat(c)[2] = c
    BY LocFacts
  <2> QED BY <1>2, <1>3, <2>1, LocFacts DEF Theirs
<1>6. ASSUME NEW c \in Held(disk, "other")
      PROVE  Flushed[Fat(c)] # 0 /\ \E l \in Pointers(Flushed) : Flushed[l] = c
  <2>1. PICK n \in 0 .. TotClusters : c = Chain(disk, "other")[n]
    BY DEF Held
  <2>2. First("other") \in Theirs /\ \A x \in Held(disk, "other") : Fat(x) \in Theirs
    BY DEF Theirs
  <2>3. \A k \in 0 .. TotClusters :
          Chain(disk, "other")[k] \in Clusters => Chain(disk, "other")[k] \in Held(disk, "other")
    BY DEF Held
  <2>4. \E l \in Theirs \cap Pointers(disk) : disk[l] = c
    <3>1. CASE n = 0
      BY <1>1, <1>2, <1>3, <2>1, <2>2, <3>1, HeldIsPointedTo
    <3>2. CASE n # 0
      <4>1. n - 1 \in 0 .. TotClusters
        BY <3>2, Parameters
      <4> QED BY <1>1, <1>2, <1>3, <2>1, <2>2, <2>3, <3>2, <4>1, HeldIsPointedTo
    <3> QED BY <3>1, <3>2
  <2>5. PICK l \in Theirs \cap Pointers(disk) : disk[l] = c
    BY <2>4
  <2>6. Flushed[l] = disk[l]
    BY DEF Apart
  <2>7. l \in Pointers(Flushed) /\ Flushed[l] = c
    BY <2>5, <2>6 DEF Pointers
  <2> QED BY <1>1, <2>7 DEF Sound
<1> QED BY <1>1, <1>3, <1>4, <1>5, <1>6

\* A step that changes none of its locations leaves it as it is.
LEMMA OtherKept ==
  ASSUME IInv, Apart, disk' \in [Locs -> Int], \A l \in Theirs : disk'[l] = disk[l]
  PROVE  /\ Chain(disk', "other") = Chain(disk, "other")
         /\ Held(disk', "other") = Held(disk, "other") /\ Theirs' = Theirs
         /\ disk'[Size("other")] = disk[Size("other")] /\ Readable(disk', "other")
<1>1. "other" \in Files /\ disk \in [Locs -> Int] /\ TotClusters \in 0 .. TotClusters
  BY Parameters DEF Files, IInv, TypeOK
<1>2. /\ disk'[First("other")] = disk[First("other")]
      /\ disk'[Size("other")] = disk[Size("other")]
      /\ \A k \in 0 .. TotClusters - 1 :
           Chain(disk, "other")[k] \in Clusters =>
             disk'[Fat(Chain(disk, "other")[k])] = disk[Fat(Chain(disk, "other")[k])]
  <2>1. \A k \in 0 .. TotClusters - 1 : k \in 0 .. TotClusters
    BY Parameters
  <2> QED BY <2>1 DEF Theirs, Held
<1>3. \A k \in 0 .. TotClusters : Chain(disk', "other")[k] = Chain(disk, "other")[k]
  BY <1>1, <1>2, SameChain
<1>4. Chain(disk', "other") = Chain(disk, "other")
  <2>1. /\ Chain(disk, "other") \in [0 .. TotClusters -> Int]
        /\ Chain(disk', "other") \in [0 .. TotClusters -> Int]
    BY <1>1, ChainFacts
  <2>2. /\ Chain(disk, "other") = [k \in 0 .. TotClusters |-> Chain(disk, "other")[k]]
        /\ Chain(disk', "other") = [k \in 0 .. TotClusters |-> Chain(disk', "other")[k]]
    BY <2>1
  <2> QED BY <1>3, <2>2
<1>5. Held(disk', "other") = Held(disk, "other")
  BY <1>4 DEF Held
<1>6. Readable(disk', "other")
  BY <1>2, <1>4 DEF Readable, Apart
<1> QED BY <1>2, <1>4, <1>5, <1>6 DEF Theirs

LEMMA OverElsewhere ==
  ASSUME NEW d, NEW new, NEW l \in Locs, l \notin DOMAIN new
  PROVE  Over(d, new)[l] = d[l]
BY DEF Over

\* No step changes its metadata, on the card or in the buffer, and the cluster
\* that is written to is not one of its clusters.
LEMMA OtherStep ==
  ASSUME IInv, Apart, [Next]_vars, disk' \in [Locs -> Int]
  PROVE  /\ \A l \in Theirs : disk'[l] = disk[l] /\ Flushed'[l] = disk[l]
         /\ writelink' \notin Held(disk, "other")
<1>1. /\ First("file") \notin Theirs /\ Size("file") \notin Theirs
      /\ \A c \in Clusters : Fat(c) \in Theirs => c \in Held(disk, "other")
      /\ \A c \in Held(disk, "other") :
           /\ c \in Clusters /\ Flushed[Fat(c)] # 0
           /\ \E l \in Pointers(Flushed) : Flushed[l] = c
  BY OtherFacts
<1>2. /\ \A l \in Theirs : Flushed[l] = disk[l]
      /\ writelink \notin Held(disk, "other") /\ 0 \notin Held(disk, "other")
      /\ Theirs \subseteq Locs
  BY LocFacts DEF Apart, Theirs, Held, Files
<1>3. ASSUME NEW new, \A l \in Theirs : l \notin DOMAIN new,
             Flushed' = Over(Flushed, new), disk' \in {disk, Flushed}
      PROVE  \A l \in Theirs : disk'[l] = disk[l] /\ Flushed'[l] = disk[l]
  BY <1>2, <1>3, OverElsewhere
<1>4. \A c \in Clusters, v \in Int :
        c \notin Held(disk, "other") => \A l \in Theirs : l \notin DOMAIN Put(Fat(c), v)
  BY <1>1 DEF Put
<1>5. \A c, n \in Int : \A l \in Theirs : l \notin DOMAIN Entry(c, n)
  BY <1>1 DEF Entry
<1>6. \A c \in Clusters : Unpointed(c) => c \notin Held(disk, "other")
  BY <1>1 DEF Unpointed
<1>7. CASE PopenExisting
  <2>1. \A l \in Theirs : l \notin DOMAIN Entry(0, 0)
    BY <1>5
  <2>2. Flushed' = Over(Flushed, Entry(0, 0)) /\ disk' \in {disk, Flushed}
    BY <1>7, PopenExistingEffect
  <2>3. \A l \in Theirs : disk'[l] = disk[l] /\ Flushed'[l] = disk[l]
    BY <1>3, <2>1, <2>2
  <2> QED BY <1>2, <1>7, <2>3 DEF PopenExisting, posVars
<1>8. CASE PopenNew
  <2>1. \A l \in Theirs : disk'[l] = disk[l]
    BY <1>1, <1>2, <1>8, PopenNewEffect
  <2> QED BY <1>2, <1>8, <2>1, PopenNewEffect DEF PopenNew, posVars
<1>9. CASE FreeCluster
  <2>1. clust \in Clusters /\ clust \notin Held(disk, "other")
    BY <1>6, <1>9, FreeClusterEffect
  <2> QED BY <1>2, <1>3, <1>4, <1>9, <2>1, FreeClusterEffect DEF FreeCluster, posVars
<1>10. CASE TakeCluster
  <2>1. clust' \in Clusters /\ clust' \notin Held(disk, "other") /\ EndOfChain \in Int
    BY <1>1, <1>10, TakeClusterEffect, LocFacts
  <2> QED BY <1>2, <1>3, <1>4, <1>10, <2>1, TakeClusterEffect DEF TakeCluster, posVars
<1>11. CASE Link
  <2>1. clust \in Clusters /\ clust \in Int /\ floc + 1 \in Int /\ Unpointed(clust)
    BY <1>11, LocFacts DEF Link, IInv, ClusterInHand, TypeOK
  <2>2. writelink' \notin Held(disk, "other")
    BY <1>6, <1>11, <2>1 DEF Link
  <2>3. CASE writelink = 0
    BY <1>3, <1>5, <1>11, <2>1, <2>2, <2>3, LinkEffect
  <2>4. CASE writelink # 0
    BY <1>2, <1>3, <1>4, <1>11, <2>1, <2>2, <2>4, LinkEffect
  <2> QED BY <2>3, <2>4
<1>12. CASE WriteMetadata
  <2>1. \A l \in Theirs, n \in Int : l \notin DOMAIN Put(Size("file"), n)
    BY <1>1 DEF Put
  <2>2. floc + (IF bufat = "part" THEN 1 ELSE 0) \in Int
    BY DEF IInv, TypeOK
  <2> QED BY <1>2, <1>3, <1>12, <2>1, <2>2, WriteMetadataEffect DEF WriteMetadata, posVars
<1>13. CASE Quiet
  <2>1. writelink' \in {0, writelink}
    BY <1>13 DEF Quiet, PopenRefused, FreedAll, Fill, FlushBuffer, SearchOn, WriteData, Pclose,
              Restart, ReadFails, posVars, vars
  <2> QED BY <1>2, <1>13, <2>1, QuietEffect
<1> QED BY <1>7, <1>8, <1>9, <1>10, <1>11, <1>12, <1>13 DEF Next, Step, Quiet

LEMMA ApartStep ==
  ASSUME IInv, IInv', Apart, [Next]_vars
  PROVE  Apart'
<1>1. disk' \in [Locs -> Int]
  BY DEF IInv, TypeOK
<1>2. /\ \A l \in Theirs : disk'[l] = disk[l] /\ Flushed'[l] = disk[l]
      /\ writelink' \notin Held(disk, "other")
  BY <1>1, OtherStep
<1>3. /\ Held(disk', "other") = Held(disk, "other") /\ Theirs' = Theirs
      /\ Readable(disk', "other")
  BY <1>1, <1>2, OtherKept
<1> QED BY <1>2, <1>3 DEF Apart

LEMMA StoredStep ==
  ASSUME IInv, Apart, [Next]_vars, IInv'
  PROVE  Stored("other")' = Stored("other")
<1>1. /\ Chain(disk', "other") = Chain(disk, "other")
      /\ disk'[Size("other")] = disk[Size("other")]
  <2>1. disk' \in [Locs -> Int]
    BY DEF IInv, TypeOK
  <2> QED BY <2>1, OtherStep, OtherKept
<1>2. ASSUME NEW i \in 0 .. disk[Size("other")] - 1
      PROVE  data'[<<Chain(disk, "other")[i \div SectorsPerCluster], i % SectorsPerCluster>>]
               = data[<<Chain(disk, "other")[i \div SectorsPerCluster], i % SectorsPerCluster>>]
  <2> DEFINE c == Chain(disk, "other")[i \div SectorsPerCluster]
             k == i % SectorsPerCluster
  <2>1. c \in Clusters /\ c \in Held(disk, "other")
    BY DEF Apart, Readable, Held
  <2>2. disk[Size("other")] \in Int
    BY LocFacts DEF Files, IInv, TypeOK
  <2>3. i \in Nat
    BY <2>2
  <2>4. k \in 0 .. SectorsPerCluster - 1
    BY <2>3, Division
  <2>5. <<c, k>> \in Sectors
    BY <2>1, <2>4 DEF Sectors
  <2>6. data' = data \/ data' = [data EXCEPT ![DataBlock] = buf]
    BY DEF Next, Step, PopenExisting, PopenNew, PopenRefused, FreeCluster, FreedAll, Fill,
           FlushBuffer, TakeCluster, SearchOn, Link, WriteData, WriteMetadata, Pclose, Restart,
           ReadFails, vars
  <2>7. fclust # c
    BY <2>1 DEF Apart, IInv, TypeOK
  <2>8. data \in [Sectors -> Int]
    BY DEF IInv, TypeOK
  <2> HIDE DEF c, k
  <2>9. DataBlock # <<c, k>>
    BY <2>7 DEF DataBlock
  <2>10. data'[<<c, k>>] = data[<<c, k>>]
    BY <2>5, <2>6, <2>8, <2>9
  <2> QED BY <2>10 DEF c, k
<1> QED BY <1>1, <1>2 DEF Stored

\* The hypothesis on the volumes gives the invariant at the start.
LEMMA ApartInitially ==
  ASSUME Whole, Init PROVE Apart
<1>1. disk \in Disks /\ Flushed = disk /\ writelink = 0
  BY DEF Init, Flushed
<1> QED BY <1>1, LocFacts DEF Apart, Whole, Files, Held

\* At every moment, a power failure included, another file keeps its size, its
\* clusters and their contents.
THEOREM OthersAreSafe ==
  ASSUME Whole
  PROVE  Spec => OtherUntouched
<1>1. Init => IInv /\ Apart
  BY Initially, ApartInitially
<1>2. IInv /\ Apart /\ [Next]_vars => (IInv /\ Apart)'
  BY StepKeepsInvariant, ApartStep
<1>3. IInv /\ Apart /\ [Next]_vars => [Stored("other")' = Stored("other")]_vars
  BY StepKeepsInvariant, StoredStep
<1> QED BY <1>1, <1>2, <1>3, PTL DEF Spec, OtherUntouched

-----------------------------------------------------------------------------
(* The file itself.                                                          *)

\* The first steps: nothing is written yet.
LEMMA NothingYet ==
  ASSUME TypeOK', writelink' = 0, floc' = 0, frem' = 0, Flushed'[Size("file")] = 0,
         bufat' = "empty", pc' \in {"free", "write"}
  PROVE  Growing'
BY DEF Growing

LEMMA EmptyIsReadable ==
  ASSUME NEW d, NEW f, d[Size(f)] = 0
  PROVE  Readable(d, f)
BY DEF Readable

LEMMA PopenExistingFiled ==
  ASSUME IInv, IInv', Filed, PopenExisting
  PROVE  Filed'
<1>1. /\ pc = "popen" /\ pc' \in {"free", "write"} /\ writelink = 0 /\ floc = 0 /\ frem = 0
      /\ bufat = "empty" /\ UNCHANGED <<bufat, writelink, floc, frem>>
  BY DEF PopenExisting, IInv, ClusterInHand, Position, Filed, bufVars, posVars
<1>2. Flushed' = Over(Flushed, Entry(0, 0)) /\ disk' \in {disk, Flushed}
  BY PopenExistingEffect
<1>3. Flushed'[Size("file")] = 0
  BY <1>2, EntryFacts, LocFacts DEF Over
<1>4. Readable(disk', "file") /\ Readable(Flushed', "file")
  BY <1>2, <1>3, EmptyIsReadable DEF Filed
<1>5. Growing'
  BY <1>1, <1>3, NothingYet DEF IInv
<1> QED BY <1>1, <1>3, <1>4, <1>5 DEF Filed, FileStored

LEMMA PopenNewFiled ==
  ASSUME IInv, IInv', Filed, PopenNew
  PROVE  Filed'
<1>1. /\ pc = "popen" /\ pc' = "write" /\ writelink = 0 /\ floc = 0 /\ frem = 0
      /\ bufat = "empty" /\ UNCHANGED <<bufat, writelink, floc, frem>>
  BY DEF PopenNew, IInv, ClusterInHand, Position, Filed, bufVars, posVars
<1>2. Flushed' = disk' /\ disk'[Size("file")] = 0
  BY PopenNewEffect, LocFacts DEF IInv, TypeOK
<1>3. Readable(disk', "file") /\ Readable(Flushed', "file")
  BY <1>2, EmptyIsReadable
<1>4. Growing'
  BY <1>1, <1>2, NothingYet DEF IInv
<1> QED BY <1>1, <1>2, <1>3, <1>4 DEF Filed, FileStored

LEMMA FreeClusterFiled ==
  ASSUME IInv, IInv', Filed, FreeCluster
  PROVE  Filed'
<1>1. /\ pc = "free" /\ pc' = "free" /\ frem' = 0
      /\ Flushed' = Over(Flushed, Put(Fat(clust), 0)) /\ disk' \in {disk, Flushed}
      /\ clust \in Clusters /\ Flushed[Size("file")] = 0
  BY FreeClusterEffect DEF FreeCluster, posVars, Filed
<1>2. Size("file") \in Locs /\ Size("file") \notin DOMAIN Put(Fat(clust), 0)
  BY <1>1, LocFacts DEF Put
<1>3. Flushed'[Size("file")] = 0
  BY <1>1, <1>2 DEF Over
<1>4. Readable(disk', "file") /\ Readable(Flushed', "file")
  BY <1>1, <1>3, EmptyIsReadable DEF Filed
<1> QED BY <1>1, <1>3, <1>4 DEF Filed, FileStored, Writing

LEMMA FreedAllFiled ==
  ASSUME IInv, IInv', Filed, FreedAll
  PROVE  Filed'
<1>1. /\ pc = "free" /\ pc' = "write" /\ writelink = 0 /\ floc = 0 /\ frem = 0
      /\ bufat = "empty" /\ UNCHANGED <<bufat, writelink, floc, frem>>
      /\ Flushed[Size("file")] = 0
  BY DEF FreedAll, IInv, ClusterInHand, Position, Filed, bufVars, posVars
<1>2. Flushed' = Flushed /\ disk' \in {disk, Flushed}
  BY <1>1, QuietEffect DEF Quiet, Restart, PopenRefused
<1>3. Growing'
  BY <1>1, <1>2, NothingYet DEF IInv
<1> QED BY <1>1, <1>2, <1>3 DEF Filed, FileStored

\* The steps that lead to no further writing, and the restart.
LEMMA AbandonedFiled ==
  ASSUME IInv, IInv', Filed, PopenRefused \/ ReadFails \/ Restart
  PROVE  Filed'
<1>1. /\ disk' \in {disk, Flushed} /\ Flushed' \in {disk, Flushed}
      /\ pc' \in {"aborted", "popen"}
      /\ pc' = "popen" => frem' = 0
  BY QuietEffect DEF Quiet, PopenRefused, ReadFails, Restart
<1> QED BY <1>1 DEF Filed, FileStored, Writing

\* What is already written stays, and stays where it is, in a step that leaves the
\* chain and the size alone.
LEMMA AtEndKept ==
  ASSUME AtEnd, Chain(Flushed', "file") = Chain(Flushed, "file"),
         Flushed'[Size("file")] = Flushed[Size("file")],
         Flushed'[Fat(writelink)] = Flushed[Fat(writelink)],
         UNCHANGED <<writelink, floc, frem>>
  PROVE  AtEnd'
BY DEF AtEnd

LEMMA FillFiled ==
  ASSUME IInv, IInv', Filed, Fill
  PROVE  Filed'
<1>1. /\ pc = "write" /\ pc' = "write" /\ bufat' # "empty" /\ buf' = todo
      /\ UNCHANGED <<writelink, floc, frem, data>>
      /\ bufat # "full" /\ todo <= NSectors
  BY DEF Fill, posVars
<1>2. Flushed' = Flushed /\ disk' \in {disk, Flushed}
  BY <1>1, QuietEffect DEF Quiet, Restart, PopenRefused
<1>3. buf' = floc + 1
  BY <1>1, Parameters DEF IInv, TypeOK, Position
<1>4. Growing
  BY <1>1 DEF Filed, Writing
<1>5. AtEnd => AtEnd'
  BY <1>1, <1>2, AtEndKept
<1>6. Growing'
  BY <1>1, <1>2, <1>3, <1>4, <1>5 DEF Growing
<1> QED BY <1>1, <1>2, <1>6 DEF Filed, FileStored

LEMMA FlushBufferFiled ==
  ASSUME IInv, IInv', Filed, FlushBuffer
  PROVE  Filed'
<1>1. /\ pc = "write" /\ pc' \in {"metadata", "search", "data"}
      /\ pc' = "search" => frem = 0
      /\ pc' = "metadata" => bufat = "empty" /\ todo > NSectors
      /\ UNCHANGED <<writelink, floc, frem, data, buf, bufat, todo>>
  BY DEF FlushBuffer, posVars, bufVars, Closing
<1>2. Flushed' = Flushed /\ disk' \in {disk, Flushed}
  BY <1>1, QuietEffect DEF Quiet, Restart, PopenRefused
<1>3. pc' = "metadata" => todo = NSectors + 1
  BY <1>1, Parameters DEF IInv, TypeOK
<1>4. Growing
  BY <1>1 DEF Filed, Writing
<1>5. AtEnd => AtEnd'
  BY <1>1, <1>2, AtEndKept
<1>6. Growing'
  BY <1>1, <1>2, <1>3, <1>4, <1>5 DEF Growing
<1> QED BY <1>1, <1>2, <1>6 DEF Filed, FileStored

LEMMA SearchOnFiled ==
  ASSUME IInv, IInv', Filed, SearchOn
  PROVE  Filed'
<1>1. /\ pc = "search" /\ pc' = "search"
      /\ UNCHANGED <<writelink, floc, frem, data, buf, bufat, todo>>
  BY DEF SearchOn, posVars, bufVars
<1>2. Flushed' = Flushed /\ disk' \in {disk, Flushed}
  BY <1>1, QuietEffect DEF Quiet, Restart, PopenRefused
<1>3. Growing
  BY <1>1 DEF Filed, Writing
<1>4. AtEnd => AtEnd'
  BY <1>1, <1>2, AtEndKept
<1>5. Growing'
  BY <1>1, <1>2, <1>3, <1>4 DEF Growing
<1> QED BY <1>1, <1>2, <1>5 DEF Filed, FileStored

\* A free cluster is in no chain, so that marking it changes none.
LEMMA TakeClusterChain ==
  ASSUME IInv, IInv', TakeCluster
  PROVE  /\ Chain(Flushed', "file") = Chain(Flushed, "file")
         /\ Flushed'[First("file")] = Flushed[First("file")]
         /\ Flushed'[Size("file")] = Flushed[Size("file")]
<1> DEFINE c == clust'
<1>1. /\ c \in Clusters /\ Flushed[Fat(c)] = 0
      /\ Flushed' = Over(Flushed, Put(Fat(c), EndOfChain))
  BY TakeClusterEffect
<1> HIDE DEF c
<1>2. /\ Flushed \in [Locs -> Int] /\ Flushed' \in [Locs -> Int] /\ Sound(Flushed)
      /\ "file" \in Files
  BY DEF IInv, Coherent, Files
<1>3. \A l \in Locs : l # Fat(c) => Flushed'[l] = Flushed[l]
  BY <1>1, OverElsewhere DEF Put
<1>4. \A n \in 0 .. TotClusters :
        Chain(Flushed, "file")[n] \in Clusters => Chain(Flushed, "file")[n] # c
  <2>1. ASSUME NEW n \in 0 .. TotClusters, Chain(Flushed, "file")[n] = c PROVE FALSE
    <3>1. \E l \in Pointers(Flushed) : Flushed[l] = c
      BY <1>1, <1>2, <2>1, HeldIsPointedTo
    <3> QED BY <1>1, <1>2, <3>1 DEF Sound
  <2> QED BY <2>1
<1>5. /\ First("file") \in Locs /\ Size("file") \in Locs
      /\ First("file") # Fat(c) /\ Size("file") # Fat(c)
      /\ \A x \in Clusters : x # c => Fat(x) # Fat(c) /\ Fat(x) \in Locs
  BY <1>1, LocFacts
<1>6. Chain(Flushed', "file") = Chain(Flushed, "file")
  BY <1>2, <1>3, <1>4, <1>5, ChainUntouched
<1> QED BY <1>3, <1>5, <1>6

LEMMA TakeClusterFiled ==
  ASSUME IInv, IInv', Filed, TakeCluster
  PROVE  Filed'
<1>1. /\ pc = "search" /\ pc' = "link"
      /\ UNCHANGED <<writelink, floc, frem, data, buf, bufat, todo>>
  BY DEF TakeCluster, posVars, bufVars
<1>2. /\ Flushed[Fat(clust')] = 0 /\ disk' \in {disk, Flushed}
      /\ Flushed' = Over(Flushed, Put(Fat(clust'), EndOfChain))
  BY TakeClusterEffect
<1>3. /\ Chain(Flushed', "file") = Chain(Flushed, "file")
      /\ Flushed'[Size("file")] = Flushed[Size("file")]
  BY TakeClusterChain
<1>4. Growing
  BY <1>1 DEF Filed, Writing
<1>5. AtEnd => AtEnd'
  <2>1. ASSUME AtEnd PROVE Flushed'[Fat(writelink)] = Flushed[Fat(writelink)]
    <3>1. Fat(writelink) \in Locs /\ EndOfChain # 0
      BY LocFacts DEF IInv, TypeOK
    <3>2. Flushed[Fat(writelink)] = EndOfChain
      BY <2>1 DEF AtEnd
    <3>3. Fat(writelink) \notin DOMAIN Put(Fat(clust'), EndOfChain)
      BY <1>2, <3>1, <3>2 DEF Put
    <3> QED BY <1>2, <3>1, <3>3, OverElsewhere
  <2> QED BY <1>1, <1>3, <2>1, AtEndKept
<1>6. Growing'
  BY <1>1, <1>3, <1>4, <1>5 DEF Growing, Place
<1>7. Readable(disk', "file") /\ Readable(Flushed', "file")
  BY <1>2, <1>3 DEF Filed, Readable
<1> QED BY <1>1, <1>6, <1>7 DEF Filed, FileStored

LEMMA StutterFiled ==
  ASSUME IInv, IInv', Filed, UNCHANGED vars
  PROVE  Filed'
<1>1. UNCHANGED <<disk, data, buf, bufat, todo, writelink, floc, frem, pc, dirty>>
      /\ Flushed' = Flushed
  BY DEF vars, metaVars, bufVars, posVars, Flushed
<1>2. Writing => Growing'
  BY <1>1 DEF Filed, Growing, AtEnd, Place
<1>3. FileStored'
  BY <1>1 DEF Filed, FileStored, Stored
<1> QED BY <1>1, <1>2, <1>3 DEF Filed, Writing

\* The first cluster of the file is linked to the directory entry.
LEMMA LinkFirstFiled ==
  ASSUME IInv, IInv', Filed, Link, writelink = 0
  PROVE  Filed'
<1>1. /\ pc = "link" /\ pc' = "data" /\ writelink' = clust /\ frem' = SectorsPerCluster
      /\ UNCHANGED <<floc, data, buf, bufat, todo>>
  BY DEF Link, bufVars
<1>2. /\ clust \in Clusters /\ Flushed[Fat(clust)] = EndOfChain /\ clust \in Int /\ clust # 0
      /\ Flushed \in [Locs -> Int] /\ Flushed' \in [Locs -> Int] /\ "file" \in Files
  BY <1>1, LocFacts, Parameters DEF IInv, ClusterInHand, Coherent, Files, Clusters
<1>3. Growing /\ floc = 0 /\ frem = 0
  BY <1>1 DEF Filed, Writing, Growing
<1>4. Flushed' = Over(Flushed, Entry(clust, 1)) /\ disk' \in {disk, Flushed}
  BY <1>3, LinkEffect
<1>5. /\ Flushed'[First("file")] = clust /\ Flushed'[Size("file")] = 1
      /\ Flushed'[Fat(clust)] = EndOfChain
  BY <1>2, <1>4, EntryFacts, LocFacts DEF Over
<1>6. Chain(Flushed', "file")[0] = clust /\ 0 \in 0 .. TotClusters
  BY <1>2, <1>5, ChainFacts, Parameters
<1>7. AtEnd'
  <2>1. floc' + frem' = (0 + 1) * SectorsPerCluster /\ 1 <= floc' + frem'
    BY <1>1, <1>3, Parameters
  <2> QED BY <1>1, <1>5, <1>6, <2>1 DEF AtEnd
<1>8. Growing'
  BY <1>1, <1>2, <1>3, <1>7 DEF Growing
<1>9. Readable(Flushed', "file")
  <2>1. 0 \div SectorsPerCluster = 0
    BY Parameters, Division, Quotient
  <2>2. \A i \in 0 .. 1 - 1 : i = 0
    OBVIOUS
  <2> QED BY <1>2, <1>5, <1>6, <2>1, <2>2 DEF Readable
<1> QED BY <1>1, <1>4, <1>8, <1>9 DEF Filed, FileStored

\* What AtEnd gives: the chain of the file is that far on the card, and everything
\* written is in it.
LEMMA EndFacts ==
  ASSUME IInv, Growing, writelink # 0
  PROVE  \E m \in 0 .. TotClusters - 1 :
           /\ Chain(Flushed, "file")[m] = writelink /\ Flushed[Fat(writelink)] = EndOfChain
           /\ floc + frem = (m + 1) * SectorsPerCluster
           /\ Flushed[Size("file")] <= floc + frem
           /\ \A i \in 0 .. floc + frem - 1 :
                /\ i \div SectorsPerCluster \in 0 .. m
                /\ Chain(Flushed, "file")[i \div SectorsPerCluster] \in Clusters
                /\ Place(Flushed, i) \in Sectors
                /\ \A j \in 0 .. floc + frem - 1 : Place(Flushed, i) = Place(Flushed, j) => i = j
<1>1. PICK m \in 0 .. TotClusters :
        /\ Chain(Flushed, "file")[m] = writelink /\ Flushed[Fat(writelink)] = EndOfChain
        /\ floc + frem = (m + 1) * SectorsPerCluster
        /\ Flushed[Size("file")] <= floc + frem
  BY DEF Growing, AtEnd
<1>2. /\ Flushed \in [Locs -> Int] /\ Sound(Flushed) /\ "file" \in Files
      /\ Chain(Flushed, "file")[m] \in Clusters
  BY <1>1 DEF IInv, Coherent, TypeOK, Files
<1>3. m \in 0 .. TotClusters - 1
  BY <1>2, ChainIsShort, Parameters
<1>4. \A k \in 0 .. m : Chain(Flushed, "file")[k] \in Clusters
  BY <1>2, ChainBefore
<1> DEFINE top == (m + 1) * SectorsPerCluster
<1>5. \A i \in 0 .. top - 1 :
        /\ i \div SectorsPerCluster \in 0 .. m
        /\ Place(Flushed, i) \in Sectors
        /\ \A j \in 0 .. top - 1 : Place(Flushed, i) = Place(Flushed, j) => i = j
  BY <1>2, Places
<1>6. floc + frem = top /\ floc \in Nat /\ frem \in Nat
  BY <1>1 DEF IInv, TypeOK
<1> HIDE DEF top
<1>7. \A i \in 0 .. floc + frem - 1 :
        /\ i \div SectorsPerCluster \in 0 .. m
        /\ Chain(Flushed, "file")[i \div SectorsPerCluster] \in Clusters
        /\ Place(Flushed, i) \in Sectors
        /\ \A j \in 0 .. floc + frem - 1 : Place(Flushed, i) = Place(Flushed, j) => i = j
  BY <1>4, <1>5, <1>6
<1> QED BY <1>1, <1>3, <1>7

\* Linking another cluster to the last makes the chain one longer.
LEMMA LinkNextChain ==
  ASSUME IInv, IInv', Link, writelink # 0, NEW m \in 0 .. TotClusters - 1,
         Chain(Flushed, "file")[m] = writelink
  PROVE  /\ Chain(Flushed', "file")[m + 1] = clust
         /\ \A k \in 0 .. m : Chain(Flushed', "file")[k] = Chain(Flushed, "file")[k]
         /\ \A l \in Locs : l # Fat(writelink) => Flushed'[l] = Flushed[l]
<1>1. /\ clust \in Clusters /\ clust \in Int /\ Sound(Flushed) /\ "file" \in Files
      /\ Flushed \in [Locs -> Int]
  BY LocFacts, Parameters DEF Link, IInv, ClusterInHand, Coherent, Files, Clusters
<1>2. Flushed' = Over(Flushed, Put(Fat(writelink), clust)) /\ writelink \in Clusters
  BY LinkEffect
<1>3. Flushed' \in [Locs -> Int]
  BY DEF IInv, Coherent
<1>4. m + 1 \in 0 .. TotClusters /\ m \in 0 .. TotClusters
  BY Parameters
<1>5. \A l \in Locs : l # Fat(writelink) => Flushed'[l] = Flushed[l]
  BY <1>2, OverElsewhere DEF Put
<1>6. /\ First("file") \in Locs /\ Fat(writelink) \in Locs /\ First("file") # Fat(writelink)
      /\ \A x \in Clusters : x # writelink => Fat(x) # Fat(writelink) /\ Fat(x) \in Locs
  BY <1>2, LocFacts
<1>7. Flushed'[Fat(writelink)] = clust
  BY <1>1, <1>2, OverPut
<1>8. \A k \in 0 .. m : Chain(Flushed', "file")[k] = Chain(Flushed, "file")[k]
  <2>1. ASSUME NEW k \in 0 .. m - 1, Chain(Flushed, "file")[k] \in Clusters
        PROVE  Chain(Flushed, "file")[k] # writelink
    <3>1. k \in 0 .. TotClusters /\ k # m
      BY <1>4, Parameters
    <3> QED BY <1>1, <1>4, <2>1, <3>1, ChainsAreDisjoint
  <2>2. \A k \in 0 .. m - 1 :
          Chain(Flushed, "file")[k] \in Clusters =>
            Flushed'[Fat(Chain(Flushed, "file")[k])] = Flushed[Fat(Chain(Flushed, "file")[k])]
    BY <1>5, <1>6, <2>1
  <2>3. Flushed'[First("file")] = Flushed[First("file")]
    BY <1>5, <1>6
  <2> QED BY <1>1, <1>3, <1>4, <2>2, <2>3, SameChain
<1>9. Chain(Flushed', "file")[m + 1] = clust
  <2>1. Chain(Flushed', "file")[m] = writelink
    BY <1>8, Parameters
  <2> QED BY <1>1, <1>2, <1>3, <1>7, <2>1, ChainStep
<1> QED BY <1>5, <1>8, <1>9

\* Another cluster is linked to the last.
LEMMA LinkNextFiled ==
  ASSUME IInv, IInv', Filed, Link, writelink # 0
  PROVE  Filed'
<1>1. /\ pc = "link" /\ pc' = "data" /\ writelink' = clust /\ frem' = SectorsPerCluster
      /\ UNCHANGED <<floc, data, buf, bufat, todo>>
  BY DEF Link, bufVars
<1>2. /\ clust \in Clusters /\ Flushed[Fat(clust)] = EndOfChain /\ clust # 0
      /\ clust # writelink /\ Flushed \in [Locs -> Int] /\ floc \in Nat
  BY <1>1, LocFacts DEF IInv, ClusterInHand, Coherent, TypeOK
<1>3. Growing /\ frem = 0
  BY <1>1 DEF Filed, Writing, Growing
<1>4. disk' \in {disk, Flushed} /\ writelink \in Clusters
  BY LinkEffect
<1>5. PICK m \in 0 .. TotClusters - 1 :
        /\ Chain(Flushed, "file")[m] = writelink
        /\ floc + frem = (m + 1) * SectorsPerCluster
        /\ Flushed[Size("file")] <= floc + frem
        /\ \A i \in 0 .. floc + frem - 1 :
             /\ i \div SectorsPerCluster \in 0 .. m
             /\ Chain(Flushed, "file")[i \div SectorsPerCluster] \in Clusters
  BY <1>3, EndFacts
<1>6. floc + frem = floc
  BY <1>2, <1>3
<1>7. m + 1 \in 0 .. TotClusters
  BY Parameters
<1>8. /\ Chain(Flushed', "file")[m + 1] = clust
      /\ \A k \in 0 .. m : Chain(Flushed', "file")[k] = Chain(Flushed, "file")[k]
      /\ \A l \in Locs : l # Fat(writelink) => Flushed'[l] = Flushed[l]
  BY <1>5, LinkNextChain
<1>9. /\ Size("file") \in Locs /\ Size("file") # Fat(writelink)
      /\ \A x \in Clusters : x # writelink => Fat(x) # Fat(writelink) /\ Fat(x) \in Locs
  BY <1>4, LocFacts
<1>10. /\ Flushed'[Size("file")] = Flushed[Size("file")]
       /\ Flushed'[Fat(clust)] = EndOfChain
  BY <1>2, <1>8, <1>9
<1>11. AtEnd'
  <2>1. floc' + frem' = ((m + 1) + 1) * SectorsPerCluster
    BY <1>1, <1>2, <1>5, <1>6, Parameters
  <2>2. Flushed'[Size("file")] <= floc' + frem'
    BY <1>1, <1>2, <1>5, <1>6, <1>10, <1>9, Parameters
  <2> QED BY <1>1, <1>7, <1>8, <1>10, <2>1, <2>2 DEF AtEnd
<1>12. \A i \in 0 .. floc - 1 :
         /\ Chain(Flushed', "file")[i \div SectorsPerCluster]
              = Chain(Flushed, "file")[i \div SectorsPerCluster]
         /\ Place(Flushed', i) = Place(Flushed, i)
  <2>1. \A i \in 0 .. floc - 1 : i \div SectorsPerCluster \in 0 .. m
    BY <1>2, <1>3, <1>5, <1>6
  <2>2. \A i \in 0 .. floc - 1 : Chain(Flushed', "file")[i \div SectorsPerCluster]
                                     = Chain(Flushed, "file")[i \div SectorsPerCluster]
    BY <1>8, <2>1
  <2> QED BY <2>2 DEF Place
<1>13. Growing'
  BY <1>1, <1>2, <1>3, <1>11, <1>12 DEF Growing
<1>14. Readable(Flushed', "file")
  <2>1. \A i \in 0 .. Flushed[Size("file")] - 1 : i \in 0 .. floc - 1
    BY <1>2, <1>5, <1>6, <1>9
  <2> QED BY <1>10, <1>12, <2>1 DEF Readable, Filed
<1> QED BY <1>1, <1>4, <1>13, <1>14 DEF Filed, FileStored

\* A sector is written behind the others.
LEMMA WriteDataFiled ==
  ASSUME IInv, IInv', Filed, WriteData
  PROVE  Filed'
<1>1. /\ pc = "data" /\ pc' = IF todo > NSectors THEN "metadata" ELSE "write"
      /\ data' = [data EXCEPT ![DataBlock] = buf]
      /\ IF bufat = "full"
         THEN floc' = floc + 1 /\ frem' = frem - 1 /\ bufat' = "empty"
         ELSE UNCHANGED <<floc, frem, bufat>>
      /\ UNCHANGED <<disk, buf, todo, writelink>>
  BY DEF WriteData, Closing
<1>2. /\ floc \in Nat /\ frem \in 1 .. SectorsPerCluster /\ bufat \in {"part", "full"}
      /\ data \in [Sectors -> Int] /\ fclust = writelink /\ todo \in 1 .. NSectors + 1
      /\ bufat = "part" => todo = NSectors + 1
      /\ Flushed \in [Locs -> Int]
  BY <1>1, Parameters DEF IInv, TypeOK, Position, Coherent
<1>3. Flushed' = Flushed
  BY <1>1, QuietEffect DEF Quiet, Restart, PopenRefused
<1>4. Growing /\ writelink # 0 /\ buf = floc + 1
  BY <1>1, <1>2 DEF Filed, Writing, Growing
<1>5. PICK m \in 0 .. TotClusters - 1 :
        /\ Chain(Flushed, "file")[m] = writelink
        /\ floc + frem = (m + 1) * SectorsPerCluster
        /\ Flushed[Size("file")] <= floc + frem
        /\ \A i \in 0 .. floc + frem - 1 :
             /\ Place(Flushed, i) \in Sectors
             /\ \A j \in 0 .. floc + frem - 1 : Place(Flushed, i) = Place(Flushed, j) => i = j
  BY <1>4, EndFacts
<1>6. DataBlock = Place(Flushed, floc)
  <2>1. floc \div SectorsPerCluster = m
    <3>1. floc = m * SectorsPerCluster + (SectorsPerCluster - frem)
      BY <1>2, <1>5, Parameters
    <3>2. SectorsPerCluster - frem \in 0 .. SectorsPerCluster - 1 /\ m \in Nat
      BY <1>2, Parameters
    <3> QED BY <1>2, <3>1, <3>2, QuotientIs
  <2> QED BY <1>2, <1>5, <2>1 DEF DataBlock, Place
<1>7. floc \in 0 .. floc + frem - 1 /\ \A i \in 0 .. floc - 1 : i \in 0 .. floc + frem - 1
  BY <1>2
<1>8. /\ data'[Place(Flushed, floc)] = floc + 1
      /\ \A i \in 0 .. floc - 1 : data'[Place(Flushed, i)] = i + 1
  <2>1. Place(Flushed, floc) \in Sectors
    BY <1>5, <1>7
  <2>2. \A i \in 0 .. floc - 1 :
          Place(Flushed, i) \in Sectors /\ Place(Flushed, i) # Place(Flushed, floc)
    BY <1>2, <1>5, <1>7
  <2>3. \A i \in 0 .. floc - 1 : data[Place(Flushed, i)] = i + 1
    BY <1>4 DEF Growing
  <2> QED BY <1>1, <1>2, <1>4, <1>6, <2>1, <2>2, <2>3
<1>9. AtEnd'
  <2>1. floc' + frem' = floc + frem
    BY <1>1, <1>2, Parameters
  <2> QED BY <1>1, <1>3, <1>4, <2>1 DEF AtEnd, Growing
<1>10. \A i \in 0 .. floc' - 1 : data'[Place(Flushed, i)] = i + 1
  <2>1. CASE bufat = "full"
    <3>1. \A i \in 0 .. floc' - 1 : i \in 0 .. floc - 1 \/ i = floc
      BY <1>1, <1>2, <2>1
    <3> QED BY <1>8, <3>1
  <2>2. CASE bufat # "full"
    BY <1>1, <1>8, <2>2
  <2> QED BY <2>1, <2>2
<1>11. Growing'
  <2>1. bufat' # "empty" => bufat = "part" /\ UNCHANGED <<floc, frem, bufat>>
    BY <1>1, <1>2
  <2>2. pc' \in {"metadata", "close"} => todo = NSectors + 1
    BY <1>1, <1>2, Parameters
  <2>3. bufat' = "part" => frem' > 0 /\ data'[Place(Flushed, floc')] = floc' + 1
    BY <1>2, <1>8, <2>1
  <2>4. pc' \notin {"search", "link", "close"} /\ writelink' # 0
    BY <1>1, <1>4
  <2>5. bufat' # "empty" => buf' = floc' + 1
    BY <1>1, <1>4, <2>1
  <2> QED BY <1>1, <1>3, <1>9, <1>10, <2>2, <2>3, <2>4, <2>5 DEF Growing
<1>12. pc' \in {"metadata", "write"} /\ Writing'
  BY <1>1 DEF Writing
<1> QED BY <1>1, <1>3, <1>11, <1>12 DEF Filed, FileStored

\* The size is no part of the chain.
LEMMA WriteMetadataChain ==
  ASSUME IInv, WriteMetadata
  PROVE  /\ Chain(Flushed', "file") = Chain(Flushed, "file")
         /\ Flushed'[First("file")] = Flushed[First("file")]
         /\ Flushed'[Size("file")] = floc + (IF bufat = "part" THEN 1 ELSE 0)
         /\ \A x \in {0} \cup Clusters : Flushed'[Fat(x)] = Flushed[Fat(x)]
<1> DEFINE n == floc + (IF bufat = "part" THEN 1 ELSE 0)
<1>1. Flushed' = Over(Flushed, Put(Size("file"), n)) /\ n \in Int
  BY WriteMetadataEffect DEF IInv, TypeOK
<1> HIDE DEF n
<1>2. Flushed \in [Locs -> Int] /\ Flushed' \in [Locs -> Int] /\ "file" \in Files
  BY <1>1 DEF IInv, Coherent, Files, Over, Put
<1>3. /\ Flushed'[Size("file")] = n
      /\ \A l \in Locs : l # Size("file") => Flushed'[l] = Flushed[l]
  BY <1>1, LocFacts DEF Over, Put
<1>4. /\ First("file") \in Locs /\ First("file") # Size("file")
      /\ \A x \in {0} \cup Clusters : Fat(x) \in Locs /\ Fat(x) # Size("file")
  BY LocFacts
<1>5. /\ Flushed'[First("file")] = Flushed[First("file")]
      /\ \A x \in {0} \cup Clusters : Flushed'[Fat(x)] = Flushed[Fat(x)]
  BY <1>3, <1>4
<1>6. Chain(Flushed', "file") = Chain(Flushed, "file")
  <2>1. \A k \in 0 .. TotClusters :
          Chain(Flushed, "file")[k] \in Clusters =>
            Flushed'[Fat(Chain(Flushed, "file")[k])] = Flushed[Fat(Chain(Flushed, "file")[k])]
    BY <1>5
  <2> QED BY <1>2, <1>5, <2>1, ChainUntouched
<1> QED BY <1>3, <1>5, <1>6 DEF n

\* The size is set to what has been written, all of it in the chain.
LEMMA WriteMetadataFiled ==
  ASSUME IInv, IInv', Filed, WriteMetadata
  PROVE  Filed'
<1>1. /\ pc = "metadata" /\ pc' = "close"
      /\ UNCHANGED <<data, buf, bufat, todo, writelink, floc, frem>>
  BY DEF WriteMetadata, bufVars, posVars
<1>2. disk' \in {disk, Flushed}
  BY WriteMetadataEffect
<1>3. Growing /\ todo = NSectors + 1
  BY <1>1 DEF Filed, Writing, Growing
<1>4. /\ floc \in Nat /\ frem \in Nat /\ NSectors \in Nat
      /\ floc + (IF bufat = "part" THEN 1 ELSE 0) = NSectors
      /\ writelink \in {0} \cup Clusters
  BY <1>1, <1>3, Parameters DEF IInv, TypeOK, Position
<1>5. /\ Chain(Flushed', "file") = Chain(Flushed, "file")
      /\ Flushed'[Size("file")] = NSectors
      /\ Flushed'[Fat(writelink)] = Flushed[Fat(writelink)]
  BY <1>4, WriteMetadataChain
<1>6. NSectors <= floc + frem
  BY <1>1, <1>3, <1>4 DEF Growing
<1>7. CASE writelink = 0
  <2>1. floc = 0 /\ frem = 0 /\ NSectors = 0
    BY <1>3, <1>4, <1>6, <1>7 DEF Growing
  <2>2. Growing'
    BY <1>1, <1>3, <1>5, <1>7, <2>1 DEF Growing, Place
  <2> QED BY <1>1, <1>2, <1>5, <2>1, <2>2, EmptyIsReadable DEF Filed, FileStored
<1>8. CASE writelink # 0
  <2>1. PICK m \in 0 .. TotClusters - 1 :
          /\ Chain(Flushed, "file")[m] = writelink /\ Flushed[Fat(writelink)] = EndOfChain
          /\ floc + frem = (m + 1) * SectorsPerCluster
          /\ \A i \in 0 .. floc + frem - 1 :
               /\ i \div SectorsPerCluster \in 0 .. m
               /\ Chain(Flushed, "file")[i \div SectorsPerCluster] \in Clusters
    BY <1>3, <1>8, EndFacts
  <2>2. m \in 0 .. TotClusters /\ 0 .. m \subseteq 0 .. TotClusters
    BY Parameters
  <2>3. AtEnd'
    BY <1>1, <1>5, <1>6, <2>1, <2>2 DEF AtEnd
  <2>4. Growing'
    BY <1>1, <1>3, <1>5, <1>8, <2>3 DEF Growing, Place
  <2>5. \A i \in 0 .. NSectors - 1 : i \in 0 .. floc + frem - 1
    BY <1>4, <1>6
  <2>6. Readable(Flushed', "file")
    BY <1>5, <2>1, <2>2, <2>5 DEF Readable
  <2> QED BY <1>1, <1>2, <2>4, <2>6 DEF Filed, FileStored
<1> QED BY <1>7, <1>8

LEMMA PcloseFiled ==
  ASSUME IInv, IInv', Filed, Pclose
  PROVE  Filed'
<1>1. /\ pc = "close" /\ pc' = "done" /\ ~dirty' /\ UNCHANGED <<data>>
  BY DEF Pclose, FlushIfDirty
<1>2. disk' = Flushed /\ Flushed' = Flushed
  BY <1>1, QuietEffect DEF Quiet, Restart, PopenRefused
<1>3. Growing /\ todo = NSectors + 1 /\ Flushed[Size("file")] = NSectors
  BY <1>1 DEF Filed, Writing, Growing
<1>4. floc + (IF bufat = "part" THEN 1 ELSE 0) = NSectors /\ floc \in Nat
  BY <1>1, <1>3, Parameters DEF IInv, TypeOK, Position
<1>5. \A i \in 0 .. NSectors - 1 : i \in 0 .. floc - 1 \/ (bufat = "part" /\ i = floc)
  BY <1>4
<1>6. \A i \in 0 .. NSectors - 1 : data[Place(Flushed, i)] = i + 1
  BY <1>1, <1>3, <1>5 DEF Growing
<1>7. Stored("file")' = [i \in 0 .. NSectors - 1 |-> data[Place(Flushed, i)]]
  BY <1>1, <1>2, <1>3 DEF Stored, Place
<1>8. Stored("file")' = [i \in 0 .. NSectors - 1 |-> i + 1]
  BY <1>6, <1>7
<1> QED BY <1>1, <1>2, <1>8 DEF Filed, FileStored, Writing

LEMMA FiledStep ==
  ASSUME IInv, IInv', Filed, [Next]_vars
  PROVE  Filed'
BY PopenExistingFiled, PopenNewFiled, FreeClusterFiled, FreedAllFiled, AbandonedFiled, FillFiled,
   FlushBufferFiled, SearchOnFiled, TakeClusterFiled, StutterFiled, LinkFirstFiled,
   LinkNextFiled, WriteDataFiled, WriteMetadataFiled, PcloseFiled DEF Next, Step

LEMMA FiledInitially ==
  ASSUME Whole, Init PROVE Filed
<1>1. disk \in Disks /\ Flushed = disk /\ pc = "popen" /\ frem = 0
  BY DEF Init, Flushed
<1> QED BY <1>1 DEF Filed, Whole, Files, Writing, FileStored

\* A file that was closed is on the card from first to last sector, whatever the
\* layout, the length and the number of power failures before.
THEOREM ClosedFileIsStored ==
  ASSUME Whole
  PROVE  Spec => []FileStored
<1>1. Init => IInv /\ Filed
  BY Initially, FiledInitially
<1>2. IInv /\ Filed /\ [Next]_vars => (IInv /\ Filed)'
  BY StepKeepsInvariant, FiledStep
<1>3. Filed => FileStored
  BY DEF Filed
<1> QED BY <1>1, <1>2, <1>3, PTL DEF Spec

\* Whenever power fails, what the directory says of a file's size is covered by
\* the chain that the card holds.
THEOREM SizesAreCovered ==
  ASSUME Whole
  PROVE  Spec => []SizeCovered
<1>1. Init => IInv /\ Apart /\ Filed
  BY Initially, ApartInitially, FiledInitially
<1>2. IInv /\ Apart /\ Filed /\ [Next]_vars => (IInv /\ Apart /\ Filed)'
  BY StepKeepsInvariant, ApartStep, FiledStep
<1>3. Apart /\ Filed => SizeCovered
  BY DEF Apart, Filed, SizeCovered, Files
<1> QED BY <1>1, <1>2, <1>3, PTL DEF Spec

-----------------------------------------------------------------------------
(* Clusters that belong to no file.                                          *)

\* A chain stays where it ends.
LEMMA ChainStays ==
  ASSUME NEW d \in [Locs -> Int], NEW f \in Files, NEW n \in 0 .. TotClusters,
         Chain(d, f)[n] \notin Clusters
  PROVE  \A k \in n .. TotClusters : Chain(d, f)[k] = Chain(d, f)[n]
<1> DEFINE T == {j \in 0 .. TotClusters - n : Chain(d, f)[n + j] = Chain(d, f)[n]}
<1>1. TotClusters - n \in Nat /\ 0 \in T
  BY Parameters
<1>2. ASSUME NEW j \in 0 .. (TotClusters - n) - 1, j \in T PROVE j + 1 \in T
  <2>1. n + j \in 0 .. TotClusters - 1 /\ j + 1 \in 0 .. TotClusters - n
        /\ (n + j) + 1 = n + (j + 1)
    BY Parameters
  <2>2. Chain(d, f)[n + j] = Chain(d, f)[n]
    BY <1>2
  <2>3. Chain(d, f)[(n + j) + 1] = Chain(d, f)[n + j]
    BY <2>1, <2>2, ChainStep
  <2> QED BY <2>1, <2>2, <2>3
<1> HIDE DEF T
<1>3. 0 .. TotClusters - n \subseteq T
  BY <1>1, <1>2, InductUpTo
<1>4. ASSUME NEW k \in n .. TotClusters PROVE Chain(d, f)[k] = Chain(d, f)[n]
  <2>1. k - n \in 0 .. TotClusters - n /\ n + (k - n) = k
    BY Parameters
  <2>2. k - n \in T
    BY <1>3, <2>1
  <2> QED BY <2>1, <2>2 DEF T
<1> QED BY <1>4

LEMMA NothingHeld ==
  ASSUME NEW d \in [Locs -> Int], NEW f \in Files, d[First(f)] = 0
  PROVE  Held(d, f) = {}
<1>1. 0 \in 0 .. TotClusters /\ Chain(d, f)[0] = 0 /\ 0 \notin Clusters
  BY ChainFacts, LocFacts, Parameters
<1>2. \A k \in 0 .. TotClusters : Chain(d, f)[k] = 0
  BY <1>1, ChainStays
<1> QED BY <1>1, <1>2 DEF Held

\* A step of the other actions keeps the other file's clusters.
LEMMA OtherHeld ==
  ASSUME IInv, IInv', Apart, [Next]_vars
  PROVE  Held(disk', "other") = Held(disk, "other")
<1>1. disk' \in [Locs -> Int]
  BY DEF IInv, TypeOK
<1> QED BY <1>1, OtherStep, OtherKept

\* The clusters in use after entries were changed.
LEMMA AllocatedElsewhere ==
  ASSUME NEW d, NEW new, \A x \in Clusters : Fat(x) \notin DOMAIN new
  PROVE  Allocated(Over(d, new)) = Allocated(d)
BY LocFacts DEF Allocated, Over

LEMMA AllocatedPut ==
  ASSUME NEW d, NEW c \in Clusters, NEW v \in Int
  PROVE  Allocated(Over(d, Put(Fat(c), v)))
           = IF v = 0 THEN Allocated(d) \ {c} ELSE Allocated(d) \cup {c}
<1>1. /\ Over(d, Put(Fat(c), v))[Fat(c)] = v
      /\ \A x \in Clusters : x # c => Over(d, Put(Fat(c), v))[Fat(x)] = d[Fat(x)]
  <2>1. \A x \in Clusters : Fat(x) \in Locs /\ (Fat(x) = Fat(c) => x = c)
    BY LocFacts
  <2> QED BY <2>1, OverPut
<1> QED BY <1>1 DEF Allocated

\* The directory entry has been cleared, or is new.
LEMMA ClearedIsCovered ==
  ASSUME IInv', Flushed'[First("file")] = 0, writelink' = 0, pc' = "write",
         Allocated(Flushed') = Held(disk', "other")
  PROVE  Covered'
<1>1. Flushed' \in [Locs -> Int] /\ "file" \in Files
  BY DEF IInv, Coherent, Files
<1>2. Held(Flushed', "file") = {}
  BY <1>1, NothingHeld
<1> QED BY <1>2 DEF Covered

LEMMA PopenExistingLeakless ==
  ASSUME Lean, IInv, IInv', Apart, Leakless, PopenExisting
  PROVE  Leakless'
<1>1. /\ pc = "popen" /\ pc' = IF clust' # 0 THEN "free" ELSE "write"
      /\ clust' = Cached(Dir)[First("file")] /\ faults' = faults
      /\ writelink' = 0 /\ Flushed = disk
  BY DEF PopenExisting, posVars, IInv, ClusterInHand, Coherent, Flushed
<1>2. Flushed' = Over(Flushed, Entry(0, 0))
  BY PopenExistingEffect
<1>3. /\ disk \in [Locs -> Int] /\ Flushed' \in [Locs -> Int] /\ "file" \in Files
      /\ First("file") \in Locs /\ Block(First("file")) = Dir /\ Coherent
  BY LocFacts DEF IInv, TypeOK, Coherent
<1>4. clust' = disk[First("file")]
  BY <1>1, <1>3, Seen
<1>5. Flushed'[First("file")] = 0
  BY <1>2, <1>3, EntryFacts DEF Over
<1>6. Held(disk', "other") = Held(disk, "other")
  BY OtherHeld DEF Next, Step
<1>7. Allocated(Flushed') = Allocated(disk)
  BY <1>1, <1>2, AllocatedElsewhere, EntryFacts
<1>8. ASSUME faults = 0
      PROVE  disk \in Disks /\ Allocated(disk) = Held(disk, "file") \cup Held(disk, "other")
  BY <1>1, <1>8 DEF Lean, Leakless
<1>9. CASE clust' # 0
  <2>1. ASSUME faults = 0 PROVE Freeing'
    <3> DEFINE rest == {Chain(disk, "file")[k] : k \in 0 .. TotClusters} \cap Clusters
    <3>1. 0 \in 0 .. TotClusters /\ Chain(disk, "file")[0] = clust'
      BY <1>3, <1>4, ChainFacts, Parameters
    <3>2. \A c \in Clusters : Flushed'[Fat(c)] = disk[Fat(c)]
      BY <1>1, <1>2, LocFacts, EntryFacts, OverElsewhere
    <3>3. Allocated(Flushed') = rest \cup Held(disk', "other")
      BY <1>6, <1>7, <1>8, <2>1 DEF Held
    <3> QED BY <1>8, <2>1, <3>1, <3>2, <3>3 DEF Freeing
  <2> QED BY <1>1, <1>5, <1>9, <2>1 DEF Leakless, NothingLeaked, Writing
<1>10. CASE clust' = 0
  <2>1. Held(disk, "file") = {}
    BY <1>3, <1>4, <1>10, NothingHeld
  <2>2. ASSUME faults = 0 PROVE Covered'
    BY <1>1, <1>5, <1>6, <1>7, <1>8, <1>10, <2>1, <2>2, ClearedIsCovered
  <2> QED BY <1>1, <1>10, <2>2 DEF Leakless, NothingLeaked, Writing
<1> QED BY <1>9, <1>10

LEMMA PopenNewLeakless ==
  ASSUME Lean, IInv, IInv', Apart, Leakless, PopenNew
  PROVE  Leakless'
<1>1. /\ pc = "popen" /\ pc' = "write" /\ Cached(Dir)[Size("file")] = Absent
      /\ faults' = faults /\ writelink' = 0
  BY DEF PopenNew, posVars, IInv, ClusterInHand
<1>2. /\ Flushed = disk /\ Flushed' = disk'
      /\ disk' = [disk EXCEPT ![First("file")] = 0, ![Size("file")] = 0]
  BY PopenNewEffect
<1>3. /\ disk \in [Locs -> Int] /\ "file" \in Files /\ Coherent
      /\ First("file") \in Locs /\ Size("file") \in Locs /\ Block(Size("file")) = Dir
      /\ First("file") # Size("file")
  BY LocFacts DEF IInv, TypeOK
<1>4. disk[Size("file")] = Absent
  BY <1>1, <1>2, <1>3, Seen
<1>5. Flushed'[First("file")] = 0
  BY <1>2, <1>3
<1>6. Held(disk', "other") = Held(disk, "other")
  BY OtherHeld DEF Next, Step
<1>7. Allocated(Flushed') = Allocated(disk)
  <2>1. \A x \in Clusters : Fat(x) \in Locs /\ Fat(x) # First("file") /\ Fat(x) # Size("file")
    BY <1>3, LocFacts
  <2>2. \A x \in Clusters : disk'[Fat(x)] = disk[Fat(x)]
    BY <1>2, <1>3, <2>1
  <2> QED BY <1>2, <2>2 DEF Allocated
<1>8. ASSUME faults = 0 PROVE Covered'
  <2>1. /\ Allocated(disk) = Held(disk, "file") \cup Held(disk, "other")
        /\ disk[First("file")] = 0
    BY <1>1, <1>2, <1>4, <1>8 DEF Lean, Leakless
  <2>2. Held(disk, "file") = {}
    BY <1>3, <2>1, NothingHeld
  <2> QED BY <1>1, <1>5, <1>6, <1>7, <2>1, <2>2, ClearedIsCovered
<1> QED BY <1>1, <1>8 DEF Leakless, NothingLeaked, Writing

\* The first cluster of the rest is freed, and the rest is one shorter.
LEMMA FreeClusterLeakless ==
  ASSUME IInv, IInv', Apart, Leakless, FreeCluster
  PROVE  Leakless'
<1>1. /\ pc = "free" /\ pc' = "free" /\ clust \in Clusters /\ Unpointed(clust)
      /\ Flushed' = Over(Flushed, Put(Fat(clust), 0))
  BY FreeClusterEffect
<1>2. faults' = faults /\ clust' = Cached(Page(clust))[Fat(clust)]
  BY <1>1, LocFacts DEF FreeCluster, Clusters
<1>3. /\ Flushed \in [Locs -> Int] /\ Coherent /\ "file" \in Files
      /\ Fat(clust) \in Locs /\ Block(Fat(clust)) = Page(clust)
  BY <1>1, LocFacts DEF IInv, Coherent
<1>4. clust' = Flushed[Fat(clust)]
  BY <1>1, <1>2, <1>3, Seen
<1>5. Held(disk', "other") = Held(disk, "other")
  BY OtherHeld DEF Next, Step
<1>6. Allocated(Flushed') = Allocated(Flushed) \ {clust}
  BY <1>1, AllocatedPut
<1>7. \A l \in Locs : l # Fat(clust) => Flushed'[l] = Flushed[l]
  BY <1>1, OverElsewhere DEF Put
<1>8. clust \notin Held(disk, "other")
  BY <1>1, OtherFacts DEF Unpointed
<1>9. ASSUME faults = 0 PROVE Freeing' /\ Flushed'[First("file")] = 0
  <2>1. Freeing /\ Flushed[First("file")] = 0
    BY <1>1, <1>9 DEF Leakless
  <2>2. PICK d \in Disks, n \in 0 .. TotClusters :
          LET rest == {Chain(d, "file")[k] : k \in n .. TotClusters} \cap Clusters
          IN  /\ Chain(d, "file")[n] = clust
              /\ \A c \in rest : Flushed[Fat(c)] = d[Fat(c)]
              /\ Allocated(Flushed) = rest \cup Held(disk, "other")
    BY <2>1 DEF Freeing
  <2> DEFINE g == Chain(d, "file")
             rest == {g[k] : k \in n .. TotClusters} \cap Clusters
             left == {g[k] : k \in n + 1 .. TotClusters} \cap Clusters
  <2>3. d \in [Locs -> Int] /\ Sound(d)
    BY DisksAssumption
  <2>4. n + 1 \in 0 .. TotClusters /\ n \in 0 .. TotClusters - 1
    BY <1>1, <1>3, <2>2, <2>3, ChainIsShort, Parameters
  <2>5. g[n + 1] = d[Fat(clust)]
    BY <1>1, <1>3, <2>2, <2>3, <2>4, ChainStep
  <2>6. clust \in rest
    <3>1. n \in n .. TotClusters
      BY <2>4
    <3> QED BY <1>1, <2>2, <3>1
  <2>7. \A k \in n + 1 .. TotClusters : g[k] # clust
    <3>1. \A k \in n + 1 .. TotClusters : k \in 0 .. TotClusters /\ k # n
      BY Parameters
    <3> QED BY <1>1, <1>3, <2>2, <2>3, <3>1, ChainsAreDisjoint
  <2>8. rest = left \cup {clust}
    <3>1. \A k \in n .. TotClusters : k = n \/ k \in n + 1 .. TotClusters
      BY Parameters
    <3>2. \A k \in n + 1 .. TotClusters : k \in n .. TotClusters
      BY Parameters
    <3> QED BY <2>2, <2>6, <3>1, <3>2
  <2>9. clust \notin left
    BY <2>7
  <2> HIDE DEF rest, left
  <2>10. Allocated(Flushed') = left \cup Held(disk', "other")
    BY <1>5, <1>6, <1>8, <2>2, <2>8, <2>9 DEF rest
  <2>11. g[n + 1] = clust'
    BY <1>4, <2>2, <2>5, <2>6 DEF rest
  <2>12. \A c \in left : Flushed'[Fat(c)] = d[Fat(c)]
    <3>1. ASSUME NEW c \in left PROVE Flushed'[Fat(c)] = d[Fat(c)]
      <4>1. c \in rest /\ c \in Clusters /\ c # clust
        BY <2>8, <2>9 DEF left
      <4>2. Fat(c) \in Locs /\ Fat(c) # Fat(clust)
        BY <1>1, <4>1, LocFacts
      <4> QED BY <1>7, <2>2, <4>1, <4>2 DEF rest
    <3> QED BY <3>1
  <2>13. Freeing'
    BY <2>4, <2>10, <2>11, <2>12 DEF Freeing, left
  <2>14. Flushed'[First("file")] = 0
    BY <1>1, <1>7, <2>1, LocFacts
  <2> QED BY <2>13, <2>14
<1> QED BY <1>1, <1>2, <1>9 DEF Leakless, NothingLeaked, Writing

\* Nothing is left of the rest.
LEMMA FreedAllLeakless ==
  ASSUME IInv, IInv', Apart, Leakless, FreedAll
  PROVE  Leakless'
<1>1. /\ pc = "free" /\ pc' = "write" /\ clust >= EndOfChain /\ writelink' = 0
      /\ faults' = faults
  BY DEF FreedAll, posVars, IInv, ClusterInHand
<1>2. Flushed' = Flushed
  BY <1>1, QuietEffect DEF Quiet, Restart, PopenRefused
<1>3. Held(disk', "other") = Held(disk, "other")
  BY OtherHeld DEF Next, Step
<1>4. clust \notin Clusters
  BY <1>1, Parameters DEF Clusters
<1>5. ASSUME faults = 0 PROVE Covered'
  <2>1. Freeing /\ Flushed[First("file")] = 0
    BY <1>1, <1>5 DEF Leakless
  <2>2. PICK d \in Disks, n \in 0 .. TotClusters :
          /\ Chain(d, "file")[n] = clust
          /\ Allocated(Flushed) =
               ({Chain(d, "file")[k] : k \in n .. TotClusters} \cap Clusters)
                 \cup Held(disk, "other")
    BY <2>1 DEF Freeing
  <2>3. d \in [Locs -> Int] /\ "file" \in Files
    BY DisksAssumption DEF Files
  <2>4. \A k \in n .. TotClusters : Chain(d, "file")[k] = clust
    BY <1>4, <2>2, <2>3, ChainStays
  <2>5. Allocated(Flushed) = Held(disk, "other")
    BY <1>4, <2>2, <2>4
  <2> QED BY <1>1, <1>2, <1>3, <2>1, <2>5, ClearedIsCovered
<1> QED BY <1>1, <1>5 DEF Leakless, NothingLeaked, Writing

\* Steps in the middle of writing that leave the chain of the file as it is.
LEMMA StillCovered ==
  ASSUME Covered, Chain(Flushed', "file") = Chain(Flushed, "file"),
         Flushed'[First("file")] = Flushed[First("file")],
         Held(disk', "other") = Held(disk, "other"), UNCHANGED writelink,
         Allocated(Flushed') \cup (IF pc = "link" THEN {clust} ELSE {})
           = Allocated(Flushed) \cup (IF pc' = "link" THEN {clust'} ELSE {}),
         (pc' = "link" => clust' \in Allocated(Flushed')), pc # "link",
         (writelink' # 0 /\ pc' \in {"write", "metadata", "close"} =>
            frem' < SectorsPerCluster \/ (bufat' = "part" /\ pc' # "write"))
  PROVE  Covered'
<1>1. Held(Flushed', "file") = Held(Flushed, "file")
  BY DEF Held
<1>2. CASE pc' = "link"
  BY <1>1, <1>2 DEF Covered
<1>3. CASE pc' # "link"
  BY <1>1, <1>3 DEF Covered
<1> QED BY <1>2, <1>3

LEMMA WritingLeakless ==
  ASSUME IInv, IInv', Apart, Filed, Leakless, Fill \/ FlushBuffer \/ SearchOn \/ WriteData
  PROVE  Leakless'
<1>1. /\ Writing /\ pc \in {"write", "search", "data"} /\ pc' # "link" /\ faults' = faults
      /\ UNCHANGED writelink /\ pc' \notin {"popen", "free", "done"}
  BY DEF Fill, FlushBuffer, SearchOn, WriteData, posVars, Writing, Closing
<1>2. Flushed' = Flushed
  BY QuietEffect DEF Quiet, Restart, PopenRefused, Fill, FlushBuffer, SearchOn, WriteData
<1>3. Held(disk', "other") = Held(disk, "other")
  BY OtherHeld DEF Next, Step
<1>4. Growing
  BY <1>1 DEF Filed
<1>5. ASSUME faults = 0, writelink' # 0, pc' \in {"write", "metadata", "close"}
      PROVE  frem' < SectorsPerCluster \/ (bufat' = "part" /\ pc' # "write")
  <2>1. Covered
    BY <1>1, <1>5 DEF Leakless
  <2>2. CASE Fill
    BY <1>1, <1>5, <2>1, <2>2 DEF Fill, Covered, posVars
  <2>3. CASE FlushBuffer
    BY <1>1, <1>5, <2>1, <2>3 DEF FlushBuffer, Covered, posVars, bufVars
  <2>4. CASE SearchOn
    BY <1>5, <2>4 DEF SearchOn
  <2>5. CASE WriteData
    <3>1. /\ pc = "data" /\ bufat \in {"part", "full"} /\ frem \in 1 .. SectorsPerCluster
          /\ bufat = "part" => todo > NSectors
      BY <2>5, Parameters DEF WriteData, IInv, TypeOK, Position
    <3>2. CASE bufat = "full"
      BY <2>5, <3>1, <3>2, Parameters DEF WriteData
    <3>3. CASE bufat = "part"
      BY <2>5, <3>1, <3>3 DEF WriteData, Closing
    <3> QED BY <3>1, <3>2, <3>3
  <2> QED BY <2>2, <2>3, <2>4, <2>5
<1>6. ASSUME faults = 0 PROVE Covered'
  <2>1. Covered
    BY <1>1, <1>6 DEF Leakless
  <2> QED BY <1>1, <1>2, <1>3, <1>5, <1>6, <2>1, StillCovered
<1> QED BY <1>1, <1>6 DEF Leakless, NothingLeaked

LEMMA TakeClusterLeakless ==
  ASSUME IInv, IInv', Apart, Filed, Leakless, TakeCluster
  PROVE  Leakless'
<1>1. /\ Writing /\ pc = "search" /\ pc' = "link" /\ faults' = faults /\ UNCHANGED writelink
  BY DEF TakeCluster, posVars, Writing
<1>2. /\ clust' \in Clusters /\ Flushed[Fat(clust')] = 0
      /\ Flushed' = Over(Flushed, Put(Fat(clust'), EndOfChain))
  BY TakeClusterEffect
<1>3. Held(disk', "other") = Held(disk, "other")
  BY OtherHeld DEF Next, Step
<1>4. EndOfChain \in Int /\ EndOfChain # 0
  BY LocFacts
<1>5. Allocated(Flushed') = Allocated(Flushed) \cup {clust'}
  BY <1>2, <1>4, AllocatedPut
<1>6. /\ Chain(Flushed', "file") = Chain(Flushed, "file")
      /\ Flushed'[First("file")] = Flushed[First("file")]
  BY TakeClusterChain
<1>7. ASSUME faults = 0 PROVE Covered'
  <2>1. Covered
    BY <1>1, <1>7 DEF Leakless
  <2> QED BY <1>1, <1>3, <1>5, <1>6, <2>1, StillCovered
<1> QED BY <1>1, <1>7 DEF Leakless, NothingLeaked

\* The cluster in hand becomes the last of the file.
LEMMA LinkLeakless ==
  ASSUME IInv, IInv', Apart, Filed, Leakless, Link
  PROVE  Leakless'
<1>1. /\ Writing /\ pc = "link" /\ pc' = "data" /\ faults' = faults
      /\ writelink' = clust /\ clust \in Clusters /\ clust # 0 /\ clust \in Int
      /\ Flushed[Fat(clust)] = EndOfChain /\ clust # writelink
  BY LocFacts, Parameters DEF Link, Writing, IInv, ClusterInHand, Clusters
<1>2. Held(disk', "other") = Held(disk, "other")
  BY OtherHeld DEF Next, Step
<1>3. /\ Flushed \in [Locs -> Int] /\ Flushed' \in [Locs -> Int] /\ "file" \in Files
  BY DEF IInv, Coherent, Files
<1>4. Growing
  BY <1>1 DEF Filed
<1>5. Allocated(Flushed') = Allocated(Flushed)
  <2>1. CASE writelink = 0
    <3>1. floc + 1 \in Int
      BY DEF IInv, TypeOK
    <3> QED BY <1>1, <2>1, <3>1, LinkEffect, AllocatedElsewhere, EntryFacts
  <2>2. CASE writelink # 0
    <3>1. /\ Flushed' = Over(Flushed, Put(Fat(writelink), clust)) /\ writelink \in Clusters
      BY <2>2, LinkEffect
    <3>2. Flushed[Fat(writelink)] # 0
      BY <2>2 DEF IInv, ClusterInHand
    <3>3. writelink \in Allocated(Flushed)
      BY <3>1, <3>2 DEF Allocated
    <3>4. Allocated(Flushed') = Allocated(Flushed) \cup {writelink}
      BY <1>1, <3>1, AllocatedPut
    <3> QED BY <3>3, <3>4
  <2> QED BY <2>1, <2>2
<1>6. Flushed'[Fat(clust)] = EndOfChain /\ EndOfChain \notin Clusters
  <2>1. Fat(clust) \in Locs
    BY <1>1, LocFacts
  <2>2. CASE writelink = 0
    <3>1. floc + 1 \in Int
      BY DEF IInv, TypeOK
    <3> QED BY <1>1, <2>1, <2>2, <3>1, LinkEffect, EntryFacts, OverElsewhere, LocFacts
  <2>3. CASE writelink # 0
    <3>1. Flushed' = Over(Flushed, Put(Fat(writelink), clust)) /\ writelink \in Clusters
      BY <2>3, LinkEffect
    <3>2. Fat(clust) # Fat(writelink)
      BY <1>1, <3>1, LocFacts
    <3>3. Flushed'[Fat(clust)] = Flushed[Fat(clust)]
      BY <1>1, <2>1, <3>1, <3>2, OverPut
    <3> QED BY <1>1, <3>3, LocFacts
  <2> QED BY <2>2, <2>3
<1> DEFINE old == Chain(Flushed, "file")
           new == Chain(Flushed', "file")
<1>7. ASSUME NEW n \in 0 .. TotClusters, new[n] = clust,
             \A k \in 0 .. n - 1 : new[k] = old[k],
             \A k \in n .. TotClusters : old[k] \notin Clusters
      PROVE  Held(Flushed', "file") = Held(Flushed, "file") \cup {clust}
  <2>1. \A k \in 0 .. TotClusters : k \in 0 .. n - 1 \/ k = n \/ k \in n + 1 .. TotClusters
    BY Parameters
  <2>2. \A k \in n + 1 .. TotClusters : new[k] = EndOfChain
    <3>1. CASE n = TotClusters
      BY <3>1, Parameters
    <3>2. CASE n # TotClusters
      <4>1. n \in 0 .. TotClusters - 1
        BY <3>2, Parameters
      <4>2. new[n + 1] = EndOfChain /\ n + 1 \in 0 .. TotClusters
        BY <1>1, <1>3, <1>6, <1>7, <4>1, ChainStep
      <4> QED BY <1>3, <1>6, <4>2, ChainStays
    <3> QED BY <3>1, <3>2
  <2>3. \A k \in 0 .. n - 1 : k \in 0 .. TotClusters
    BY Parameters
  <2> HIDE DEF old, new
  <2>4. {new[k] : k \in 0 .. TotClusters} \cap Clusters
          = ({old[k] : k \in 0 .. TotClusters} \cap Clusters) \cup {clust}
    <3>1. \A k \in 0 .. n : old[k] \in Clusters => k \in 0 .. n - 1
      BY <1>7, <2>3, Parameters
    <3>2. \A x \in Clusters : (\E k \in 0 .. TotClusters : new[k] = x)
                                <=> x = clust \/ \E k \in 0 .. n - 1 : new[k] = x
      BY <1>6, <1>7, <2>1, <2>2, <2>3
    <3>3. \A x \in Clusters : (\E k \in 0 .. TotClusters : old[k] = x)
                                <=> \E k \in 0 .. n - 1 : old[k] = x
      <4>1. \A k \in 0 .. TotClusters : k \in 0 .. n - 1 \/ k \in n .. TotClusters
        BY Parameters
      <4> QED BY <1>7, <2>3, <4>1
    <3>4. \A x \in Clusters : (\E k \in 0 .. n - 1 : new[k] = x)
                                <=> \E k \in 0 .. n - 1 : old[k] = x
      BY <1>7
    <3>5. \A x \in Clusters : (\E k \in 0 .. TotClusters : new[k] = x)
                                <=> x = clust \/ \E k \in 0 .. TotClusters : old[k] = x
      BY <3>2, <3>3, <3>4
    <3> QED BY <1>1, <3>5
  <2> QED BY <2>4 DEF Held, old, new
<1>8. ASSUME faults = 0
      PROVE  Held(Flushed', "file") = Held(Flushed, "file") \cup {clust}
  <2>1. Covered
    BY <1>1, <1>8 DEF Leakless
  <2>2. CASE writelink = 0
    <3>1. Flushed[First("file")] = 0 /\ floc + 1 \in Int
      BY <2>1, <2>2 DEF Covered, IInv, TypeOK
    <3>2. Flushed'[First("file")] = clust
      BY <1>1, <2>2, <3>1, LinkEffect, EntryFacts, LocFacts DEF Over
    <3>3. new[0] = clust /\ old[0] = 0 /\ 0 \notin Clusters /\ 0 \in 0 .. TotClusters
      BY <1>3, <3>1, <3>2, ChainFacts, LocFacts, Parameters
    <3>4. \A k \in 0 .. TotClusters : old[k] = 0
      BY <1>3, <3>3, ChainStays
    <3> QED BY <1>7, <3>3, <3>4
  <2>3. CASE writelink # 0
    <3>1. PICK m \in 0 .. TotClusters - 1 :
            old[m] = writelink /\ Flushed[Fat(writelink)] = EndOfChain
      BY <1>4, <2>3, EndFacts
    <3>2. writelink \in Clusters /\ m + 1 \in 0 .. TotClusters
      BY <2>3, Parameters DEF IInv, TypeOK
    <3>3. old[m + 1] = EndOfChain
      BY <1>3, <3>1, <3>2, ChainStep
    <3>4. \A k \in m + 1 .. TotClusters : old[k] = EndOfChain
      BY <1>3, <1>6, <3>2, <3>3, ChainStays
    <3>5. new[m + 1] = clust /\ \A k \in 0 .. m : new[k] = old[k]
      BY <2>3, <3>1, LinkNextChain
    <3>6. \A k \in 0 .. (m + 1) - 1 : k \in 0 .. m
      BY Parameters
    <3> QED BY <1>6, <1>7, <3>2, <3>4, <3>5, <3>6
  <2> QED BY <2>2, <2>3
<1>9. ASSUME faults = 0 PROVE Covered'
  <2>1. Covered
    BY <1>1, <1>9 DEF Leakless
  <2> QED BY <1>1, <1>2, <1>5, <1>8, <1>9, <2>1 DEF Covered
<1> QED BY <1>1, <1>9 DEF Leakless, NothingLeaked

LEMMA WriteMetadataLeakless ==
  ASSUME IInv, IInv', Apart, Filed, Leakless, WriteMetadata
  PROVE  Leakless'
<1>1. /\ Writing /\ pc = "metadata" /\ pc' = "close" /\ faults' = faults
      /\ UNCHANGED <<writelink, frem, bufat>>
  BY DEF WriteMetadata, posVars, bufVars, Writing
<1>2. Held(disk', "other") = Held(disk, "other")
  BY OtherHeld DEF Next, Step
<1>3. Flushed' = Over(Flushed, Put(Size("file"), floc + (IF bufat = "part" THEN 1 ELSE 0)))
  BY WriteMetadataEffect
<1>4. \A x \in Clusters : Fat(x) # Size("file")
  BY LocFacts
<1>5. Allocated(Flushed') = Allocated(Flushed)
  BY <1>3, <1>4, AllocatedElsewhere DEF Put
<1>6. /\ Chain(Flushed', "file") = Chain(Flushed, "file")
      /\ Flushed'[First("file")] = Flushed[First("file")]
  BY WriteMetadataChain
<1>7. ASSUME faults = 0 PROVE Covered'
  <2>1. Covered
    BY <1>1, <1>7 DEF Leakless
  <2>2. writelink' # 0 => frem' < SectorsPerCluster \/ (bufat' = "part" /\ pc' # "write")
    BY <1>1, <2>1 DEF Covered
  <2> QED BY <1>1, <1>2, <1>5, <1>6, <2>1, <2>2, StillCovered
<1> QED BY <1>1, <1>7 DEF Leakless, NothingLeaked

\* The file ends with the cluster that holds its last sector.
LEMMA PcloseLeakless ==
  ASSUME IInv, IInv', Apart, Filed, Leakless, Pclose
  PROVE  Leakless'
<1>1. Writing /\ pc = "close" /\ pc' = "done" /\ faults' = faults
  BY DEF Pclose, Writing
<1>2. disk' = Flushed /\ Flushed' = Flushed
  BY <1>1, QuietEffect DEF Quiet, Restart, PopenRefused
<1>3. Held(disk', "other") = Held(disk, "other")
  BY OtherHeld DEF Next, Step
<1>4. /\ Growing /\ todo = NSectors + 1
  BY <1>1 DEF Filed, Growing
<1>5. /\ floc + (IF bufat = "part" THEN 1 ELSE 0) = NSectors /\ floc \in Nat
      /\ frem \in 0 .. SectorsPerCluster /\ (bufat = "part" => frem > 0)
      /\ Flushed \in [Locs -> Int] /\ "file" \in Files
  BY <1>1, <1>4, Parameters DEF IInv, TypeOK, Position, Growing, Coherent, Files
<1> DEFINE n == (NSectors + SectorsPerCluster - 1) \div SectorsPerCluster
<1>6. ASSUME faults = 0
      PROVE  /\ Allocated(disk') = Held(disk', "file") \cup Held(disk', "other")
             /\ Chain(disk', "file")[n] \in {0, EndOfChain}
  <2>1. Covered
    BY <1>1, <1>6 DEF Leakless
  <2>2. Allocated(Flushed) = Held(Flushed, "file") \cup Held(disk, "other")
    BY <1>1, <2>1 DEF Covered
  <2>3. CASE writelink = 0
    <3>1. floc = 0 /\ frem = 0 /\ Flushed[First("file")] = 0
      BY <1>4, <2>1, <2>3 DEF Growing, Covered
    <3>2. NSectors = 0
      BY <1>5, <3>1
    <3>3. n = 0
      <4>1. NSectors + SectorsPerCluster - 1 = 0 * SectorsPerCluster + (SectorsPerCluster - 1)
            /\ SectorsPerCluster - 1 \in 0 .. SectorsPerCluster - 1
            /\ NSectors + SectorsPerCluster - 1 \in Nat
        BY <3>2, Parameters
      <4> QED BY <4>1, QuotientIs
    <3>4. Chain(Flushed, "file")[0] = 0
      BY <1>5, <3>1, ChainFacts
    <3> QED BY <1>2, <1>3, <2>2, <3>3, <3>4
  <2>4. CASE writelink # 0
    <3>1. PICK m \in 0 .. TotClusters - 1 :
            /\ Chain(Flushed, "file")[m] = writelink /\ Flushed[Fat(writelink)] = EndOfChain
            /\ floc + frem = (m + 1) * SectorsPerCluster
      BY <1>4, <2>4, EndFacts
    <3>2. frem < SectorsPerCluster \/ bufat = "part"
      BY <1>1, <2>1, <2>4 DEF Covered
    <3>3. n = m + 1
      <4> DEFINE r == SectorsPerCluster - 1 - frem + (IF bufat = "part" THEN 1 ELSE 0)
      <4>1. r \in 0 .. SectorsPerCluster - 1
        BY <1>5, <3>2, Parameters
      <4>2. NSectors + SectorsPerCluster - 1 = (m + 1) * SectorsPerCluster + r
        BY <1>5, <3>1, Parameters
      <4>3. NSectors + SectorsPerCluster - 1 \in Nat /\ m + 1 \in Nat
        BY Parameters
      <4> HIDE DEF r
      <4> QED BY <4>1, <4>2, <4>3, QuotientIs
    <3>4. writelink \in Clusters
      BY <2>4 DEF IInv, TypeOK
    <3>5. Chain(Flushed, "file")[m + 1] = EndOfChain
      BY <1>5, <3>1, <3>4, ChainStep
    <3> QED BY <1>2, <1>3, <2>2, <3>3, <3>5
  <2> QED BY <2>3, <2>4
<1> QED BY <1>1, <1>6 DEF Leakless, NothingLeaked, Writing

LEMMA LeaklessStep ==
  ASSUME Lean, IInv, IInv', Apart, Filed, Leakless, [Next]_vars
  PROVE  Leakless'
<1>1. CASE PopenRefused
  BY <1>1 DEF PopenRefused, Leakless, NothingLeaked, Writing
<1>2. CASE Restart \/ ReadFails
  <2>1. faults' # 0
    BY <1>2 DEF Restart, ReadFails, Fault, IInv, TypeOK
  <2> QED BY <2>1 DEF Leakless, NothingLeaked
<1>3. CASE UNCHANGED vars
  <2>1. UNCHANGED <<disk, bufat, writelink, frem, pc, clust, faults>> /\ Flushed' = Flushed
    BY <1>3 DEF vars, metaVars, bufVars, posVars, Flushed
  <2> QED BY <2>1 DEF Leakless, NothingLeaked, Writing, Covered, Freeing
<1> QED BY <1>1, <1>2, <1>3, PopenExistingLeakless, PopenNewLeakless, FreeClusterLeakless,
           FreedAllLeakless, WritingLeakless, TakeClusterLeakless, LinkLeakless,
           WriteMetadataLeakless, PcloseLeakless DEF Next, Step

\* While nothing fails, replacing a file loses no cluster: what is in use when it
\* is closed belongs to a file, and the file has none to spare.
THEOREM NoClusterIsLost ==
  ASSUME Whole, Lean
  PROVE  Spec => []NothingLeaked
<1> DEFINE Inv == IInv /\ Apart /\ Filed /\ Leakless
<1>1. Init => Inv
  <2>1. Init => Leakless
    BY DEF Init, Leakless, NothingLeaked, Writing, Flushed
  <2> QED BY <2>1, Initially, ApartInitially, FiledInitially
<1>2. Inv /\ [Next]_vars => Inv'
  BY StepKeepsInvariant, ApartStep, FiledStep, LeaklessStep
<1>3. Inv => NothingLeaked
  BY DEF Leakless
<1> QED BY <1>1, <1>2, <1>3, PTL DEF Spec
=============================================================================
