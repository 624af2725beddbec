-------------------------------- MODULE Fsrw --------------------------------
(***************************************************************************)
(* Writing one file to a FAT volume: popen(name, "w"), pwrite and pclose   *)
(* of src/spin/fsrw.spin over the block driver src/spin/safe_spi_c3.spin.  *)
(* The directory and the FAT go through one metadata buffer, buf2, that is *)
(* written back only when another block is needed; data sectors go through *)
(* buf.  The module's subject is the order in which blocks reach the card: *)
(* power may fail at any time, and the file may then be written again.     *)
(*                                                                         *)
(* A step holds at most one write to the card.  The card's metadata is a   *)
(* function of locations: a cluster's entry in the FAT, and a file's first *)
(* cluster and size in the directory, which is taken to be one block.      *)
(* Sizes count sectors, the last of which may be partly filled.  The       *)
(* second FAT, which nothing reads, is left out.                           *)
(***************************************************************************)
EXTENDS Integers

CONSTANTS
  NSectors,     \* sectors to write
  SectorsPerCluster,
  PerPage,      \* entries in a block of the FAT
  TotClusters,  \* totclusters: clusters are numbered from 2 to TotClusters - 1
  EndOfChain,   \* the entries of the FAT are numbered below it
  Disks,        \* the volumes to start from
  MaxFaults     \* bound on power failures and failing reads

Clusters == 2 .. TotClusters - 1
Sectors  == Clusters \X (0 .. SectorsPerCluster - 1)
Files    == {"file", "other"}

Fat(c)   == <<"fat", c>>
First(f) == <<"first", f>>
Size(f)  == <<"size", f>>
Locs     == {Fat(c) : c \in 0 .. EndOfChain - 1} \cup {First(f) : f \in Files}
              \cup {Size(f) : f \in Files}
Absent   == -1            \* the size of a file without a directory entry
Dir      == -1            \* the directory block; FAT blocks are numbered from 0
None     == -2            \* lastread before the first read
Page(c)  == c \div PerPage
Block(l) == IF l[1] = "fat" THEN Page(l[2]) ELSE Dir
Contents(d, b) == [l \in {x \in Locs : Block(x) = b} |-> d[l]]

\* No two chains share a cluster, and none leads to a free or foreign cluster.
Pointers(d) == {l \in Locs : l[1] # "size" /\ d[l] # 0 /\ d[l] # EndOfChain}
Sound(d) ==
  /\ \A l \in Pointers(d) : d[l] \in Clusters /\ d[Fat(d[l])] # 0
  /\ \A l, k \in Pointers(d) : d[l] = d[k] => l = k

ASSUME LayoutAssumption ==
  /\ {NSectors, MaxFaults} \subseteq Nat
  /\ {SectorsPerCluster, PerPage} \subseteq Nat \ {0}
  /\ {TotClusters, EndOfChain} \subseteq Nat /\ 2 < TotClusters /\ TotClusters <= EndOfChain
\* Clusters 0 and 1 do not exist; their entries hold the media descriptor.
ASSUME DisksAssumption ==
  \A d \in Disks : /\ d \in [Locs -> Int] /\ Sound(d)
                   /\ d[Fat(0)] = EndOfChain /\ d[Fat(1)] = EndOfChain
                   /\ \A f \in Files : d[First(f)] # EndOfChain

VARIABLES
  disk,        \* the directory and the FAT on the card
  data,        \* the data sectors on the card
  buf2, lastread, dirty,   \* the metadata buffer
  buf, bufat,  \* the data buffer: a sector, and "empty", "part" or "full"
  writelink,   \* the cluster whose entry is to be linked, 0 for the directory's
  fclust,      \* the current cluster
  floc,        \* sectors written
  frem,        \* sectors left in the current cluster
  clust,       \* the cluster to free, or the one found and not yet linked
  page,        \* the FAT block to search next: cluststart
  todo,        \* the next sector that pwrite is given
  pc,          \* where the helper cog is
  faults       \* faults so far

metaVars == <<buf2, lastread, dirty>>
bufVars  == <<buf, bufat, todo>>
posVars  == <<writelink, fclust, floc, frem>>
vars     == <<disk, data, metaVars, bufVars, posVars, clust, page, pc, faults>>

\* Every sector starts with a content of its own, all below 0.
Init ==
  /\ disk \in Disks
  /\ data = [s \in Sectors |-> -1 - s[1] * SectorsPerCluster - s[2]]
  /\ buf2 = Contents(disk, None) /\ lastread = None /\ dirty = FALSE
  /\ buf = 0 /\ bufat = "empty" /\ todo = 1
  /\ writelink = 0 /\ fclust = 0 /\ floc = 0 /\ frem = 0
  /\ clust = 0 /\ page = 0 /\ pc = "popen" /\ faults = 0

-----------------------------------------------------------------------------
\* The metadata buffer.

FlushedNever == disk       \* a slip: a dirty buffer is given up

\* What flushifdirty leaves on the card.
Flushed ==
  IF dirty THEN [l \in Locs |-> IF Block(l) = lastread THEN buf2[l] ELSE disk[l]]
           ELSE disk

\* What readblockc(b) leaves in the buffer.
Cached(b) == IF b = lastread THEN buf2 ELSE Contents(disk, b)

ReadBlock(b) ==
  /\ lastread' = b /\ buf2' = Cached(b)
  /\ IF b = lastread THEN UNCHANGED <<disk, dirty>> ELSE disk' = Flushed /\ dirty' = FALSE

Put(l, v)   == [x \in {l} |-> v]
Entry(c, n) == [x \in {First("file"), Size("file")} |-> IF x = First("file") THEN c ELSE n]

\* readblockc(b), and brwclust, brwword or brwlong for the locations of new.
Change(b, new) ==
  /\ lastread' = b /\ dirty' = TRUE
  /\ buf2' = [l \in DOMAIN Cached(b) |-> IF l \in DOMAIN new THEN new[l] ELSE Cached(b)[l]]
  /\ disk' = IF b = lastread THEN disk ELSE Flushed

FlushIfDirty ==
  /\ disk' = Flushed /\ dirty' = FALSE
  /\ UNCHANGED <<buf2, lastread>>

-----------------------------------------------------------------------------
\* popen(name, "w").

\* Slips: what the clearing of the entry leaves out.
PopenExistingAs(new, kept) ==
  /\ pc = "popen" /\ Cached(Dir)[Size("file")] # Absent
  /\ Change(Dir, new)
  /\ clust' = IF kept THEN 0 ELSE Cached(Dir)[First("file")]
  /\ pc' = IF clust' # 0 THEN "free" ELSE "write"
  /\ UNCHANGED <<data, bufVars, posVars, page, faults>>
PopenKeepsFirst    == PopenExistingAs(Put(Size("file"), 0), FALSE)
PopenKeepsSize     == PopenExistingAs(Put(First("file"), 0), FALSE)
PopenKeepsClusters == PopenExistingAs(Entry(0, 0), TRUE)

\* The entry exists: it is cleared in the buffer, and its clusters are freed.
PopenExisting ==
  /\ pc = "popen" /\ Cached(Dir)[Size("file")] # Absent
  /\ Change(Dir, Entry(0, 0))
  /\ clust' = Cached(Dir)[First("file")]
  /\ pc' = IF clust' # 0 THEN "free" ELSE "write"
  /\ UNCHANGED <<data, bufVars, posVars, page, faults>>

\* A new entry is written at once.
PopenNew ==
  /\ pc = "popen" /\ Cached(Dir)[Size("file")] = Absent
  /\ disk' = [disk EXCEPT ![First("file")] = 0, ![Size("file")] = 0]
  /\ lastread' = Dir /\ buf2' = Contents(disk', Dir) /\ UNCHANGED dirty
  /\ pc' = "write"
  /\ UNCHANGED <<data, bufVars, posVars, clust, page, faults>>

\* The entry is write-protected, or there is no room for a new one.
PopenRefused ==
  /\ pc = "popen" /\ pc' = "aborted"
  /\ ReadBlock(Dir)
  /\ UNCHANGED <<data, bufVars, posVars, clust, page, faults>>

\* freeclusters.  A cluster number below 2 would be abort(-26).
FreeCluster ==
  /\ pc = "free" /\ clust < EndOfChain
  /\ IF clust < 2
     THEN pc' = "bad" /\ UNCHANGED <<disk, metaVars, clust>>
     ELSE /\ Change(Page(clust), Put(Fat(clust), 0))
          /\ clust' = Cached(Page(clust))[Fat(clust)]
          /\ UNCHANGED pc
  /\ UNCHANGED <<data, bufVars, posVars, page, faults>>

FreedAll ==
  /\ pc = "free" /\ clust >= EndOfChain
  /\ FlushIfDirty /\ pc' = "write"
  /\ UNCHANGED <<data, bufVars, posVars, clust, page, faults>>

-----------------------------------------------------------------------------
\* pwrite and pflushbuf.

\* The next sector is copied to buf; only the last one may be incomplete.
Fill ==
  /\ pc = "write" /\ todo <= NSectors /\ bufat # "full"
  /\ buf' = todo /\ todo' = todo + 1
  /\ bufat' = "full" \/ (todo = NSectors /\ bufat' = "part")
  /\ UNCHANGED <<disk, data, metaVars, posVars, clust, page, pc, faults>>

Closing == todo > NSectors

\* pflushbuf, when the buffer is full or pclose is called.
FlushBuffer ==
  /\ pc = "write" /\ (bufat = "full" \/ Closing)
  /\ pc' = IF bufat = "empty" THEN "metadata" ELSE IF frem = 0 THEN "search" ELSE "data"
  /\ page' = Page(fclust)
  /\ UNCHANGED <<disk, data, metaVars, bufVars, posVars, clust, faults>>

\* A slip: the entries are compared by their low byte alone.
FreeLowByte(b) ==
  {c \in 0 .. EndOfChain - 1 : Page(c) = b /\ Cached(b)[Fat(c)] % 4 = 0}

FreeEntries(b) == {c \in 0 .. EndOfChain - 1 : Page(c) = b /\ Cached(b)[Fat(c)] = 0}

\* The first free entry of the block, unless it lies behind the last cluster.
Found(b) == {c \in FreeEntries(b) \cap Clusters : \A k \in FreeEntries(b) : c <= k}

NextPageInBytes == IF (page + 2) * PerPage >= TotClusters THEN 0 ELSE page + 2   \* a slip
NextPage == IF (page + 1) * PerPage >= TotClusters THEN 0 ELSE page + 1

\* A free cluster is marked as the end of a chain in the buffer.
TakeCluster ==
  /\ pc = "search" /\ pc' = "link"
  /\ \E c \in Found(page) : Change(page, Put(Fat(c), EndOfChain)) /\ clust' = c
  /\ UNCHANGED <<data, bufVars, posVars, page, faults>>

\* Or the next block is tried.  The search has no end: where count should be
\* tested, "if (rcnt < 0)" is.
SearchOn ==
  /\ pc = "search" /\ Found(page) = {}
  /\ ReadBlock(page) /\ page' = NextPage
  /\ UNCHANGED <<data, bufVars, posVars, clust, pc, faults>>

\* A slip: writelink stays on the directory entry.
LinkAtStart ==
  /\ pc = "link" /\ pc' = "data"
  /\ Change(Dir, Entry(clust, floc + 1))
  /\ fclust' = clust /\ frem' = SectorsPerCluster
  /\ UNCHANGED <<data, bufVars, writelink, floc, clust, page, faults>>

\* It is linked to the directory entry, or to the cluster before it.
Link ==
  /\ pc = "link" /\ pc' = "data"
  /\ IF writelink = 0
     THEN Change(Dir, Entry(clust, floc + 1))
     ELSE Change(Page(writelink), Put(Fat(writelink), clust))
  /\ writelink' = clust /\ fclust' = clust /\ frem' = SectorsPerCluster
  /\ UNCHANGED <<data, bufVars, floc, clust, page, faults>>

DataBlock == <<fclust, floc % SectorsPerCluster>>

WriteData ==
  /\ pc = "data"
  /\ data' = [data EXCEPT ![DataBlock] = buf]
  /\ IF bufat = "full"
     THEN floc' = floc + 1 /\ frem' = frem - 1 /\ bufat' = "empty"
     ELSE UNCHANGED <<floc, frem, bufat>>
  /\ pc' = IF Closing THEN "metadata" ELSE "write"
  /\ UNCHANGED <<disk, metaVars, buf, todo, writelink, fclust, clust, page, faults>>

-----------------------------------------------------------------------------
\* pclose.

WriteMetadata ==
  /\ pc = "metadata" /\ pc' = "close"
  /\ Change(Dir, Put(Size("file"), floc + (IF bufat = "part" THEN 1 ELSE 0)))
  /\ UNCHANGED <<data, bufVars, posVars, clust, page, faults>>

Pclose ==
  /\ pc = "close" /\ pc' = "done"
  /\ FlushIfDirty
  /\ bufat' = "empty" /\ floc' = 0 /\ frem' = 0 /\ writelink' = 0 /\ fclust' = 0
  /\ UNCHANGED <<data, buf, todo, clust, page, faults>>

-----------------------------------------------------------------------------
\* Faults.

Fault == faults < MaxFaults /\ faults' = faults + 1

\* Power fails, and the file is sent again from the start.
Restart ==
  /\ Fault
  /\ buf2' = Contents(disk, None) /\ lastread' = None /\ dirty' = FALSE
  /\ buf' = 0 /\ bufat' = "empty" /\ todo' = 1
  /\ writelink' = 0 /\ fclust' = 0 /\ floc' = 0 /\ frem' = 0
  /\ clust' = 0 /\ page' = 0 /\ pc' = "popen"
  /\ UNCHANGED <<disk, data>>

\* The block that the next step looks at.
Wanted ==
  CASE pc = "popen" \/ pc = "metadata" -> Dir
    [] pc = "free" /\ clust < EndOfChain -> Page(clust)
    [] pc = "search" -> page
    [] pc = "link" -> IF writelink = 0 THEN Dir ELSE Page(writelink)
    [] OTHER -> lastread

\* The driver copies its own buffer to buf2 before it reports that the card did
\* not answer, and the abort passes by "lastread := n".
ReadFails ==
  /\ Fault /\ Wanted # lastread
  /\ disk' = Flushed /\ dirty' = FALSE
  /\ buf2' = [l \in DOMAIN buf2 |-> Absent] /\ UNCHANGED lastread
  /\ pc' = "aborted"
  /\ UNCHANGED <<data, bufVars, posVars, clust, page>>

-----------------------------------------------------------------------------
Step ==
  \/ PopenExisting \/ PopenNew \/ PopenRefused \/ FreeCluster \/ FreedAll
  \/ Fill \/ FlushBuffer \/ TakeCluster \/ SearchOn \/ Link \/ WriteData \/ WriteMetadata \/ Pclose
Next == Step \/ Restart \/ ReadFails

\* The helper is one cog, and the driver always answers.
Spec == Init /\ [][Next]_vars /\ WF_vars(Step)
-----------------------------------------------------------------------------
\* Properties.

\* What a file consists of, by the metadata d: its n-th cluster, and its sectors.
Chain(d, f) ==
  LET at[n \in 0 .. TotClusters] ==
        IF n = 0 THEN d[First(f)]
        ELSE IF at[n - 1] \in Clusters THEN d[Fat(at[n - 1])] ELSE at[n - 1]
  IN at
Readable(d, f) ==
  \A i \in 0 .. d[Size(f)] - 1 :
    /\ i \div SectorsPerCluster \in 0 .. TotClusters
    /\ Chain(d, f)[i \div SectorsPerCluster] \in Clusters
Stored(f) ==
  [i \in 0 .. disk[Size(f)] - 1 |->
     data[<<Chain(disk, f)[i \div SectorsPerCluster], i % SectorsPerCluster>>]]
Held(d, f) == {Chain(d, f)[n] : n \in 0 .. TotClusters} \cap Clusters
Allocated(d) == {c \in Clusters : d[Fat(c)] # 0}

TypeOK ==
  /\ disk \in [Locs -> Int] /\ data \in [Sectors -> Int]
  /\ lastread \in {None, Dir} \cup Nat /\ dirty \in BOOLEAN
  /\ buf \in Int /\ bufat \in {"empty", "part", "full"} /\ todo \in 1 .. NSectors + 1
  /\ writelink \in {0} \cup Clusters /\ fclust = writelink
  /\ floc \in 0 .. NSectors /\ frem \in 0 .. SectorsPerCluster
  /\ clust \in 0 .. EndOfChain /\ page \in Nat
  /\ pc \in {"popen", "free", "write", "search", "link", "data", "metadata", "close",
             "done", "aborted"}
  /\ faults \in 0 .. MaxFaults

\* Whenever power fails, the chains on the card are disjoint and lead to no free
\* cluster: a cluster is marked on the card before anything points to it, and
\* nothing points to it any more when it is freed.
DiskSound == Sound(disk)

\* Whenever power fails, the size in the directory is covered by the chain.
SizeCovered == \A f \in Files : Readable(disk, f)

\* Another file keeps its clusters, its contents and its size at every moment.
OtherUntouched == [][Stored("other")' = Stored("other")]_vars

\* A file that was closed is on the card from first to last sector, after any
\* number of power failures and new starts.
FileStored ==
  pc = "done" => /\ ~dirty
                 /\ Stored("file") = [i \in 0 .. NSectors - 1 |-> i + 1]

\* Without a fault every cluster belongs to a file, and none is superfluous.
NothingLeaked ==
  pc = "done" /\ faults = 0 =>
    /\ Allocated(disk) = Held(disk, "file") \cup Held(disk, "other")
    /\ Chain(disk, "file")[(NSectors + SectorsPerCluster - 1) \div SectorsPerCluster]
         \in {0, EndOfChain}

\* Writing comes to an end, unless it needs a cluster and the card is full.
CardFull == pc = "search" /\ \A c \in Clusters : Flushed[Fat(c)] # 0
WriteEnds == <>[](pc \in {"done", "aborted"} \/ CardFull)

-----------------------------------------------------------------------------
\* The inductive invariant behind DiskSound.  What the steps change in order is
\* not the card but Flushed, the card as it is once the buffer is written back;
\* the card is Flushed of some earlier moment.

Coherent ==
  /\ Flushed \in [Locs -> Int]
  /\ pc # "aborted" => buf2 = Contents(Flushed, lastread)
  /\ pc \in {"popen", "aborted"} => ~dirty

Unpointed(c) == \A l \in Pointers(Flushed) : Flushed[l] # c

\* The cluster being freed or linked is marked, and nothing points to it.
ClusterInHand ==
  /\ pc = "free" /\ clust # EndOfChain =>
        clust \in Clusters /\ Flushed[Fat(clust)] # 0 /\ Unpointed(clust)
  /\ pc = "link" =>
        /\ clust \in Clusters /\ clust # writelink
        /\ Flushed[Fat(clust)] = EndOfChain /\ Unpointed(clust)
  /\ pc \in {"popen", "free"} => writelink = 0
  /\ writelink # 0 => Flushed[Fat(writelink)] # 0

\* How much of the file has been written.
Position ==
  /\ pc \in {"popen", "free"} => bufat = "empty" /\ todo = 1 /\ floc = 0
  /\ pc \in {"write", "search", "link", "data", "metadata", "close"} =>
        /\ todo - 1 = floc + (IF bufat = "empty" THEN 0 ELSE 1)
        /\ bufat = "part" => todo = NSectors + 1
  /\ pc \in {"search", "link"} => bufat # "empty"
  /\ pc = "data" => bufat # "empty" /\ frem > 0
  /\ pc \in {"metadata", "close"} => bufat # "full"

IInv == TypeOK /\ Coherent /\ Sound(disk) /\ Sound(Flushed) /\ ClusterInHand /\ Position

-----------------------------------------------------------------------------
\* What is behind the properties of the files' contents, given volumes whose
\* files are covered by their chains.

Whole == \A d \in Disks : \A f \in Files : Readable(d, f)

\* The buffer holds no change of the other file's metadata, and the cluster that
\* is written to is not one of its clusters.
Theirs == {First("other"), Size("other")} \cup {Fat(c) : c \in Held(disk, "other")}
Apart ==
  /\ \A l \in Theirs : Flushed[l] = disk[l]
  /\ writelink \notin Held(disk, "other")
  /\ Readable(disk, "other")

Writing == pc \in {"write", "search", "link", "data", "metadata", "close"}

\* The chain ends with the cluster that is written to, the frem-th sector from
\* whose end is the next.
AtEnd ==
  \E m \in 0 .. TotClusters :
    /\ Chain(Flushed, "file")[m] = writelink /\ Flushed[Fat(writelink)] = EndOfChain
    /\ floc + frem = (m + 1) * SectorsPerCluster
    /\ Flushed[Size("file")] <= floc + frem

\* The sector of the card that holds sector i of the file.
Place(d, i) == <<Chain(d, "file")[i \div SectorsPerCluster], i % SectorsPerCluster>>

\* What has been written of the file is in its place, and what is in the buffer
\* belongs behind it, or is there already when only the size is missing.
Growing ==
  /\ IF writelink = 0 THEN floc = 0 /\ frem = 0 /\ Flushed[Size("file")] = 0 ELSE AtEnd
  /\ pc \in {"search", "link"} => frem = 0
  /\ \A i \in 0 .. floc - 1 : data[Place(Flushed, i)] = i + 1
  /\ bufat # "empty" => buf = floc + 1
  /\ pc \in {"metadata", "close"} =>
        /\ todo = NSectors + 1
        /\ bufat = "part" => frem > 0 /\ data[Place(Flushed, floc)] = floc + 1
  /\ pc = "close" => Flushed[Size("file")] = NSectors

Filed ==
  /\ Readable(disk, "file") /\ Readable(Flushed, "file")
  /\ pc \in {"popen", "free"} => frem = 0
  /\ pc = "free" => Flushed[Size("file")] = 0
  /\ Writing => Growing
  /\ FileStored

\* Given volumes whose clusters all belong to a file: while nothing fails, a
\* cluster in use belongs to a file, or to the rest of the chain that is being
\* freed, or is the one to be linked.
Lean ==
  \A d \in Disks : /\ Allocated(d) = Held(d, "file") \cup Held(d, "other")
                   /\ d[Size("file")] = Absent => d[First("file")] = 0

Freeing ==
  \E d \in Disks, n \in 0 .. TotClusters :
    LET rest == {Chain(d, "file")[k] : k \in n .. TotClusters} \cap Clusters
    IN  /\ Chain(d, "file")[n] = clust
        /\ \A c \in rest : Flushed[Fat(c)] = d[Fat(c)]
        /\ Allocated(Flushed) = rest \cup Held(disk, "other")

Covered ==
  /\ Allocated(Flushed) = Held(Flushed, "file") \cup Held(disk, "other")
                            \cup (IF pc = "link" THEN {clust} ELSE {})
  /\ writelink = 0 => Flushed[First("file")] = 0
  /\ writelink # 0 /\ pc \in {"write", "metadata", "close"} =>
        frem < SectorsPerCluster \/ (bufat = "part" /\ pc # "write")

Leakless ==
  /\ faults = 0 => /\ pc = "popen" => Flushed \in Disks
                   /\ pc = "free" => Freeing /\ Flushed[First("file")] = 0
                   /\ Writing => Covered
  /\ NothingLeaked

-----------------------------------------------------------------------------
\* What a comment says, and the code does not do.

\* readblockc reads "a block into the metadata buffer, if that block is not
\* already there": the buffer holds the block it is said to hold.
CacheCoherent == ~dirty => buf2 = Contents(disk, lastread)
=============================================================================
