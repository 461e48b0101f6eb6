------------------------------- MODULE SdFile -------------------------------
(***************************************************************************)
(* The files of the root directory of a FAT16 card                         *)
(* (libraries/SD/src/utility/SdFile.cpp) on the volume of module SdVolume. *)
(*                                                                         *)
(* One SdFile object per name; they share the volume's one-block cache.    *)
(* A call may be cut short by a power failure at any of its block writes;  *)
(* what is in RAM (cache, allocSearchStart_, the open files) is lost then, *)
(* and the card keeps the blocks written so far.                           *)
(***************************************************************************)
EXTENDS SdVolume

CONSTANTS
  OpenModes,        \* the sets of O_ flags the sketch opens files with
  WriteSizes,       \* how many it writes in one call
  ReadSizes,        \* and reads
  ContiguousSizes,  \* of the files it creates with their clusters in a row
  NoFile,           \* the content of a name without a file
  MaxFileSize,      \* bound: a file grows to at most this many bytes
  MaxPowerLosses,   \* bound: power failures in a behaviour
  Calls,            \* the calls the sketch makes besides opening, writing, sync and close
  CutShort,         \* the calls a power failure may cut short
  RewritesUnsynced  \* whether it writes a whole block over the one it has not synced

ASSUME FileAssumption ==
  /\ WriteSizes \cup ReadSizes \cup ContiguousSizes \subseteq Nat \ {0}
  /\ MaxFileSize \in Nat /\ MaxPowerLosses \in Nat /\ RewritesUnsynced \in BOOLEAN

VARIABLES
  card,              \* the blocks on the card
  cache,             \* cacheBlockNumber_, cacheBuffer_, cacheDirty_, cacheMirrorBlock_
  allocSearchStart,  \* allocSearchStart_
  file,              \* the SdFile of every name
  powerLosses,       \* power failures so far
  live,              \* a function of the above: the content of every file for the program
  durable            \* and on the card alone

vars == <<card, cache, allocSearchStart, file, powerLosses, live, durable>>

(* type_ = FAT_FILE_TYPE_CLOSED; the other fields are read only when open. *)
Closed == [open |-> FALSE, flags |-> {}, dirDirty |-> FALSE, slot |-> 0,
           first |-> 0, size |-> 0, cur |-> 0, pos |-> 0]

Init ==
  /\ card = FormattedCard
  /\ cache = EmptyCache
  /\ allocSearchStart = 2
  /\ file = [n \in Names |-> Closed]
  /\ powerLosses = 0
  /\ live = [n \in Names |-> NoFile]
  /\ durable = live

(* The bytes the sketch writes to a file, by their position in it. *)
Text == [n \in Names |-> [i \in 1 .. MaxFileSize |-> <<n, i>>]]

(* The block writes after which the power fails; no call makes Always.     *)
Always == 100
PowerFails == 0 .. 2 * BlocksPerFat + 4

(* The state a call on the file n starts from. *)
At(n, io) == [card |-> card, cache |-> cache, start |-> allocSearchStart,
              h |-> file[n], io |-> io, power |-> TRUE, ok |-> TRUE, val |-> 0, out |-> <<>>]

-----------------------------------------------------------------------------
(* Positions and the directory entry. *)

(* steps times to the next cluster of the chain. *)
RECURSIVE FollowChain(_, _)
FollowChain(s, steps) ==
  IF steps = 0 THEN s
  ELSE Then(FatGet(s, s.h.cur), LAMBDA t : FollowChain([t EXCEPT !.h.cur = t.val], steps - 1))

(* The index in the chain of the cluster that holds the byte before pos. *)
ClusterIndexOfNext(pos) == pos \div ClusterSize
ClusterIndex(pos) == (pos - 1) \div ClusterSize

(* Forward from the present cluster, or again from the first. *)
WalkTo(s, new, old) ==
  IF s.h.pos = 0 \/ new < old THEN FollowChain([s EXCEPT !.h.cur = s.h.first], new)
  ELSE FollowChain(s, new - old)

SeekSet(s, pos) ==
  IF ~s.h.open \/ pos > s.h.size THEN Fail(s)
  ELSE IF pos = 0 THEN [s EXCEPT !.h.cur = 0, !.h.pos = 0]
  ELSE Then(WalkTo(s, ClusterIndex(pos), ClusterIndex(s.h.pos)), LAMBDA t : [t EXCEPT !.h.pos = pos])

CacheDirEntry(s, forWrite) == CacheRawBlock(s, RootDirStart, forWrite)

(* The entry on the card without what precedes it in the cache. *)
SyncEntryFirst(s) ==
  IF ~s.h.open THEN Fail(s)
  ELSE Then(WriteBlock(s, RootDirStart,
                       [s.card[RootDirStart] EXCEPT ![s.h.slot].first = s.h.first,
                                                    ![s.h.slot].size = s.h.size]),
            LAMBDA t : CacheFlush([t EXCEPT !.h.dirDirty = FALSE]))

SetEntry(s) ==
  [s EXCEPT !.cache.buf[s.h.slot].first = s.h.first, !.cache.buf[s.h.slot].size = s.h.size,
            !.h.dirDirty = FALSE]
Sync(s) ==
  IF ~s.h.open THEN Fail(s)
  ELSE Then(IF s.h.dirDirty THEN Then(CacheDirEntry(s, TRUE), SetEntry) ELSE s, CacheFlush)

Close(s) == Then(Sync(s), LAMBDA t : [t EXCEPT !.h = Closed])

(* What truncate() does to the chain once the position is the new end. *)
FreeAll(s) == Then(FreeChain(s, s.h.first), LAMBDA t : [t EXCEPT !.h.first = 0])
FreeRest(s) ==
  IF IsEOC(s.val) THEN s
  ELSE Then(FreeChain(s, s.val), LAMBDA t : FatPut(t, t.h.cur, EOC))

CutChainKeepsTail(s, length) ==
  IF length = 0 THEN FreeAll(s) ELSE FatPut(s, s.h.cur, EOC)
CutChain(s, length) ==
  IF length = 0 THEN FreeAll(s) ELSE Then(FatGet(s, s.h.cur), FreeRest)

Truncate(s, length) ==
  IF ~s.h.open \/ "WRITE" \notin s.h.flags \/ length > s.h.size THEN Fail(s)
  ELSE IF s.h.size = 0 THEN s
  ELSE Then(Then(Then(SeekSet(s, length), LAMBDA t : CutChain(t, length)),
                 LAMBDA t : Sync([t EXCEPT !.h.size = length, !.h.dirDirty = TRUE])),
            LAMBDA t : SeekSet(t, IF s.h.pos > length THEN length ELSE s.h.pos))

-----------------------------------------------------------------------------
(* Opening, creating and removing. *)

Handle(entry, slot, oflag) ==
  [open |-> TRUE, flags |-> oflag \cap {"READ", "WRITE", "SYNC", "APPEND"}, dirDirty |-> FALSE,
   slot |-> slot, first |-> entry.first, size |-> entry.size, cur |-> 0, pos |-> 0]

OpenCachedEntry(s, slot, oflag) ==
  Then([s EXCEPT !.h = Handle(s.cache.buf[slot], slot, oflag)],
       LAMBDA t : IF "TRUNC" \in oflag THEN Truncate(t, 0) ELSE t)

(* The entries the search reads: none after the first free one. *)
Reached(dir) == {i \in DOMAIN dir : \A j \in 0 .. i - 1 : dir[j].name # Free}
Named(dir, names) == {i \in Reached(dir) : dir[i].name \in names}
Lowest(S) == CHOOSE i \in S : \A j \in S : i <= j

Create(s, n, slot) ==
  Then(CacheDirEntry(s, TRUE),
       LAMBDA t : CacheFlush([t EXCEPT !.cache.buf[slot] = [name |-> n, first |-> 0, size |-> 0]]))

(* The directory is in the cache; the name is in it, or an entry is free. *)
OpenFound(s, slot, oflag) ==
  IF {"CREAT", "EXCL"} \subseteq oflag THEN Fail(s) ELSE OpenCachedEntry(s, slot, oflag)
OpenNew(s, n, empty, oflag) ==
  IF ~({"CREAT", "WRITE"} \subseteq oflag) \/ empty = {} THEN Fail(s)
  ELSE Then(Create(s, n, Lowest(empty)), LAMBDA t : OpenCachedEntry(t, Lowest(empty), oflag))

Open(s, n, oflag) ==
  IF s.h.open THEN Fail(s)
  ELSE Then(CacheRawBlock(s, RootDirStart, FALSE),
            LAMBDA t : IF Named(t.cache.buf, {n}) # {}
                       THEN OpenFound(t, Lowest(Named(t.cache.buf, {n})), oflag)
                       ELSE OpenNew(t, n, Named(t.cache.buf, {Free, Deleted}), oflag))

(* SDClass::open() leaves a file it may write at its end. *)
SdOpen(s, n, oflag) ==
  Then(Open(s, n, oflag),
       LAMBDA t : IF oflag \cap {"APPEND", "WRITE"} # {} THEN SeekSet(t, t.h.size) ELSE t)

RemoveSelf(s) ==
  Then(Then(Truncate(s, 0), LAMBDA t : CacheDirEntry(t, TRUE)),
       LAMBDA t : CacheFlush([t EXCEPT !.cache.buf[t.h.slot] = DeletedEntry]))

(* SdFile::remove(dirFile, fileName) opens a file of its own. *)
RemoveFile(s, n) == Then(Open([s EXCEPT !.h = Closed], n, {"WRITE"}), RemoveSelf)

(* The new file has the bytes that are in its clusters; without as many in *)
(* a row it is removed again.  allocContiguous() is given firstCluster_,   *)
(* which is 0.                                                             *)
GiveClusters(s, size) ==
  LET t == AllocContiguous(s, (size - 1) \div ClusterSize + 1)
  IN IF ~t.ok THEN (IF t.power THEN Fail([RemoveSelf([t EXCEPT !.ok = TRUE]) EXCEPT !.h = Closed]) ELSE t)
     ELSE Sync([t EXCEPT !.h.first = t.h.cur, !.h.cur = 0, !.h.size = size, !.h.dirDirty = TRUE])
CreateContiguous(s, n, size) ==
  Then(Open(s, n, {"READ", "WRITE", "CREAT", "EXCL"}), LAMBDA t : GiveClusters(t, size))

(* The blocks of a file whose clusters are in a row.                       *)
RECURSIVE LastInRow(_, _)
LastInRow(s, c) ==
  Then(FatGet(s, c), LAMBDA t : IF t.val = c + 1 THEN LastInRow(t, c + 1)
                                ELSE IF IsEOC(t.val) THEN [t EXCEPT !.val = c] ELSE Fail(t))
ContiguousRange(s) ==
  IF s.h.first = 0 THEN Fail(s)
  ELSE Then(LastInRow(s, s.h.first),
            LAMBDA t : [t EXCEPT !.out = << ClusterStartBlock(s.h.first),
                                            ClusterStartBlock(t.val) + BlocksPerCluster - 1 >>])

-----------------------------------------------------------------------------
(* Reading and writing. *)

(* At the first byte of a cluster: the next cluster of the chain, a new    *)
(* one at its end.                                                         *)
AddCluster(s) ==
  Then(AllocContiguous(s, 1),
       LAMBDA t : IF t.h.first = 0 THEN [t EXCEPT !.h.first = t.h.cur, !.h.dirDirty = TRUE] ELSE t)

ClusterForWriteNoEnd(s) ==
  IF s.h.pos % ClusterSize # 0 THEN s
  ELSE IF s.h.cur = 0
  THEN IF s.h.first = 0 THEN AddCluster(s) ELSE [s EXCEPT !.h.cur = s.h.first]
  ELSE Then(FatGet(s, s.h.cur), LAMBDA t : [t EXCEPT !.h.cur = t.val])
ClusterForWrite(s) ==
  IF s.h.pos % ClusterSize # 0 THEN s
  ELSE IF s.h.cur = 0
  THEN IF s.h.first = 0 THEN AddCluster(s) ELSE [s EXCEPT !.h.cur = s.h.first]
  ELSE Then(FatGet(s, s.h.cur),
            LAMBDA t : IF IsEOC(t.val) THEN AddCluster(t) ELSE [t EXCEPT !.h.cur = t.val])

(* A whole block goes straight to the card; if the cache holds the block   *)
(* its number is forgotten.                                                *)
WriteWholeBlockForgets(s, block, data) ==
  WriteBlock([s EXCEPT !.cache.block = NoBlock], block, [i \in 0 .. BlockSize - 1 |-> data[i + 1]])
WriteWholeBlock(s, block, data) ==
  WriteBlock([s EXCEPT !.cache.block = IF @ = block THEN NoBlock ELSE @], block,
             [i \in 0 .. BlockSize - 1 |-> data[i + 1]])

(* The first block of new data is not read from the card: what the cache   *)
(* holds of another block stays around the new bytes.                      *)
TakeCache(s, block) ==
  [s EXCEPT !.cache.block = block, !.cache.dirty = TRUE,
            !.cache.buf = [i \in 0 .. BlockSize - 1 |-> Junk]]
NewBlockUnflushed(s, block) == TakeCache(s, block)
NewBlock(s, block) == Then(CacheFlush(s), LAMBDA t : TakeCache(t, block))

WritePartOfBlock(s, block, offset, data) ==
  Then(IF offset = 0 /\ s.h.pos >= s.h.size THEN NewBlock(s, block) ELSE CacheRawBlock(s, block, TRUE),
       LAMBDA t : [t EXCEPT !.cache.buf =
         [i \in 0 .. BlockSize - 1 |->
            IF i \in offset .. offset + Len(data) - 1 THEN data[i - offset + 1] ELSE @[i]]])

AtMost(a, b) == IF a < b THEN a ELSE b
BlockAt(s) == ClusterStartBlock(s.h.cur) + BlockOfCluster(s.h.pos)

WriteToBlock(s, data) ==
  Then(IF Len(data) = BlockSize THEN WriteWholeBlock(s, BlockAt(s), data)
       ELSE WritePartOfBlock(s, BlockAt(s), s.h.pos % BlockSize, data),
       LAMBDA t : [t EXCEPT !.h.pos = @ + Len(data)])

RECURSIVE WriteBytes(_, _)
WriteBytes(s, data) ==
  LET n == AtMost(BlockSize - (s.h.pos % BlockSize), Len(data))
  IN IF data = <<>> THEN s
     ELSE Then(Then(ClusterForWrite(s), LAMBDA t : WriteToBlock(t, SubSeq(data, 1, n))),
               LAMBDA t : WriteBytes(t, SubSeq(data, n + 1, Len(data))))

Grow(s) == IF s.h.pos > s.h.size THEN [s EXCEPT !.h.size = s.h.pos, !.h.dirDirty = TRUE] ELSE s

Write(s, data) ==
  IF ~s.h.open \/ "WRITE" \notin s.h.flags THEN Fail(s)
  ELSE Then(Then(IF "APPEND" \in s.h.flags /\ s.h.pos # s.h.size THEN SeekSet(s, s.h.size) ELSE s,
                 LAMBDA t : WriteBytes(t, data)),
            LAMBDA t : IF "SYNC" \in t.h.flags THEN Sync(Grow(t)) ELSE Grow(t))

ClusterForRead(s) ==
  IF s.h.pos % ClusterSize # 0 THEN s
  ELSE IF s.h.pos = 0 THEN [s EXCEPT !.h.cur = s.h.first]
  ELSE Then(FatGet(s, s.h.cur), LAMBDA t : [t EXCEPT !.h.cur = t.val])

(* n bytes of the block go out. *)
Give(s, bytes, n) ==
  [s EXCEPT !.out = @ \o [i \in 1 .. n |-> bytes[(s.h.pos % BlockSize) + i - 1]], !.h.pos = @ + n]
PastCache(s, block, n) == IF block \in DOMAIN s.card THEN Give(s, s.card[block], n) ELSE Fail(s)

(* A whole block that is not in the cache is read past it, and any part of *)
(* one after setUnbufferedRead().                                          *)
ReadOfBlockPastCache(s, block, n) == PastCache(s, block, n)
ReadOfBlock(s, block, n) ==
  IF (n = BlockSize \/ "UNBUFFERED" \in s.h.flags) /\ block # s.cache.block THEN PastCache(s, block, n)
  ELSE Then(CacheRawBlock(s, block, FALSE), LAMBDA t : Give(t, t.cache.buf, n))

RECURSIVE ReadBytes(_, _)
ReadBytes(s, toRead) ==
  LET n == AtMost(BlockSize - (s.h.pos % BlockSize), toRead)
  IN IF toRead = 0 THEN s
     ELSE Then(Then(ClusterForRead(s), LAMBDA t : ReadOfBlock(t, BlockAt(t), n)),
               LAMBDA t : ReadBytes(t, toRead - n))

(* fileSize_ - curPosition_ is unsigned: past the end it is no limit. *)
Read(s, nbyte) ==
  IF ~s.h.open \/ "READ" \notin s.h.flags THEN Fail(s)
  ELSE ReadBytes(s, IF s.h.pos <= s.h.size THEN AtMost(nbyte, s.h.size - s.h.pos) ELSE nbyte)

(* File::peek() reads a byte and goes back; without one it returns -1.     *)
Peek(s) ==
  LET t == Read(s, 1)
  IN IF ~t.ok \/ t.out = <<>> THEN t ELSE SeekSet(t, t.h.pos - 1)

(* dirEntry(): the entry on the card, once it is made current.             *)
DirEntry(s) ==
  Then(Then(Sync(s), LAMBDA t : CacheDirEntry(t, FALSE)),
       LAMBDA t : [t EXCEPT !.out = << t.cache.buf[t.h.slot] >>])

-----------------------------------------------------------------------------
(* What the card and the cache hold. *)

(* The blocks as the volume sees them: the cached one is the newer. *)
View == [b \in DOMAIN card |-> IF b = cache.block THEN cache.buf ELSE card[b]]

NextCluster(blocks, c) == blocks[FatBlock(c)][c % EntriesPerBlock]

(* The clusters of the chain from c on, at most ClusterCount of them. *)
RECURSIVE ChainFrom(_, _, _)
ChainFrom(blocks, c, fuel) ==
  IF c \notin Clusters \/ fuel = 0 THEN <<>>
  ELSE <<c>> \o ChainFrom(blocks, NextCluster(blocks, c), fuel - 1)
Chain(blocks, c) == ChainFrom(blocks, c, ClusterCount)

Missing == <<0>>       \* of a byte whose cluster the chain does not have
(* The block of a chain that holds the byte after pos. *)
BlockOf(chain, pos) == ClusterStartBlock(chain[pos \div ClusterSize + 1]) + BlockOfCluster(pos)
Bytes(blocks, first, size) ==
  LET chain == Chain(blocks, first)
  IN [i \in 1 .. size |->
        IF (i - 1) \div ClusterSize >= Len(chain) THEN Missing
        ELSE blocks[BlockOf(chain, i - 1)][(i - 1) % BlockSize]]

Entries(blocks, n) == Named(blocks[RootDirStart], {n})
Entry(blocks, n) == blocks[RootDirStart][Lowest(Entries(blocks, n))]

(* Where a file begins, for the program: in its SdFile while it is open. *)
FirstCluster(n) ==
  IF file[n].open THEN file[n].first
  ELSE IF Entries(View, n) = {} THEN 0 ELSE Entry(View, n).first
FileSize(n) ==
  IF file[n].open THEN file[n].size
  ELSE IF Entries(View, n) = {} THEN 0 ELSE Entry(View, n).size
FileChain(n) == Chain(View, FirstCluster(n))

(* Allocated clusters that no file reaches. *)
LostClusters ==
  {c \in Clusters : NextCluster(View, c) # 0} \ UNION {Range(FileChain(n)) : n \in Names}

LiveContent(n) ==
  IF Entries(View, n) = {} THEN NoFile ELSE Bytes(View, FirstCluster(n), FileSize(n))
CardContent(n) ==
  IF Entries(card, n) = {} THEN NoFile
  ELSE Bytes(card, Entry(card, n).first, Entry(card, n).size)

-----------------------------------------------------------------------------
(* The calls of the sketch. *)

(* The call on n ends in t, or the power failed during it. *)
Ends(n, t, io) ==
  /\ io = Always \/ ~t.power
  /\ card' = t.card
  /\ cache' = IF t.power THEN t.cache ELSE EmptyCache
  /\ allocSearchStart' = IF t.power THEN t.start ELSE 2
  /\ file' = IF t.power THEN [file EXCEPT ![n] = t.h] ELSE [m \in Names |-> Closed]
  /\ powerLosses' = IF t.power THEN powerLosses ELSE powerLosses + 1

(* The budgets of block writes to try for a call: one cut short, or none. *)
Budgets(call) == {Always} \cup IF call \in CutShort /\ powerLosses < MaxPowerLosses THEN PowerFails ELSE {}

SdOpenCall(n, oflag) ==
  \E io \in Budgets("open") : ~file[n].open /\ Ends(n, SdOpen(At(n, io), n, oflag), io)

(* Where a write puts its first byte. *)
WritesAt(n) == IF "APPEND" \in file[n].flags THEN file[n].size ELSE file[n].pos

(* The bytes from pos on are all those of the cached block and more, and   *)
(* the block is not on the card yet.                                       *)
CoversUnsynced(n, pos, nbyte) ==
  /\ cache.dirty
  /\ \E first \in pos .. pos + nbyte - BlockSize :
       /\ first % BlockSize = 0 /\ first \div ClusterSize < Len(FileChain(n))
       /\ cache.block = BlockOf(FileChain(n), first)

WriteCall(n, nbyte) ==
  \E io \in Budgets("write") :
    /\ file[n].open /\ file[n].pos <= file[n].size /\ WritesAt(n) + nbyte <= MaxFileSize
    /\ Ends(n, Write(At(n, io), SubSeq(Text[n], WritesAt(n) + 1, WritesAt(n) + nbyte)), io)
    /\ RewritesUnsynced \/ ~CoversUnsynced(n, WritesAt(n), nbyte)

ReadCall(n, nbyte) ==
  /\ "read" \in Calls /\ file[n].open /\ file[n].pos <= file[n].size
  /\ Ends(n, Read(At(n, Always), nbyte), Always)

SeekCall(n, pos) ==
  /\ "seek" \in Calls /\ file[n].open /\ pos # file[n].pos
  /\ Ends(n, SeekSet(At(n, Always), pos), Always)

SyncCall(n) == \E io \in Budgets("sync") : file[n].open /\ Ends(n, Sync(At(n, io)), io)

CloseCall(n) == \E io \in Budgets("close") : file[n].open /\ Ends(n, Close(At(n, io)), io)

TruncateCall(n, length) ==
  \E io \in Budgets("truncate") :
    /\ "truncate" \in Calls /\ file[n].open /\ length <= file[n].size
    /\ Ends(n, Truncate(At(n, io), length), io)

(* No file that is open is removed; the handle is remove()'s own. *)
RemoveCall(n) ==
  \E io \in Budgets("remove") :
    /\ "remove" \in Calls /\ ~file[n].open
    /\ Ends(n, [RemoveFile(At(n, io), n) EXCEPT !.h = Closed], io)

CreateContiguousCall(n, size) ==
  \E io \in Budgets("contiguous") :
    /\ "contiguous" \in Calls /\ ~file[n].open
    /\ Ends(n, CreateContiguous(At(n, io), n, size), io)

(* The power fails between two calls. *)
PowerFailure ==
  /\ powerLosses < MaxPowerLosses
  /\ powerLosses' = powerLosses + 1
  /\ cache' = EmptyCache /\ allocSearchStart' = 2 /\ file' = [n \in Names |-> Closed]
  /\ UNCHANGED card

Call ==
  \/ \E n \in Names, oflag \in OpenModes : SdOpenCall(n, oflag)
  \/ \E n \in Names, nbyte \in WriteSizes : WriteCall(n, nbyte)
  \/ \E n \in Names, nbyte \in ReadSizes : ReadCall(n, nbyte)
  \/ \E n \in Names, size \in ContiguousSizes : CreateContiguousCall(n, size)
  \/ \E n \in Names, pos \in 0 .. MaxFileSize : SeekCall(n, pos)
  \/ \E n \in Names : SyncCall(n) \/ CloseCall(n) \/ RemoveCall(n)
  \/ \E n \in Names, length \in 0 .. MaxFileSize : TruncateCall(n, length)
  \/ PowerFailure

Observe ==
  /\ live' = [n \in Names |-> LiveContent(n)']
  /\ durable' = [n \in Names |-> CardContent(n)']

Next == Call /\ Observe

Spec == Init /\ [][Next]_vars

(* Nothing tells the names apart but the order they are created in.        *)
Symmetry == Permutations(Names)

-----------------------------------------------------------------------------
(* Properties. *)

TypeOK ==
  /\ DOMAIN card = FatStartBlock .. LastBlock
  /\ cache.block \in DOMAIN card \cup {NoBlock}
  /\ cache.dirty \in BOOLEAN /\ cache.mirror \in {NoMirror} \cup FatStartBlock .. RootDirStart - 1
  /\ allocSearchStart \in 2 .. ClusterCount + 2
  /\ \A n \in Names :
       /\ file[n].open \in BOOLEAN /\ file[n].size \in 0 .. MaxFileSize
       /\ file[n].cur \in Clusters \cup {0} /\ file[n].first \in Clusters \cup {0}
  /\ powerLosses \in 0 .. MaxPowerLosses

(* The chains of two files never meet, none runs into itself or out of the *)
(* FAT, and each has the clusters its size needs.                          *)
ChainsAreSound ==
  \A n \in Names :
    LET chain == FileChain(n)
    IN /\ Cardinality(Range(chain)) = Len(chain)
       /\ chain # <<>> => IsEOC(NextCluster(View, Last(chain)))
       /\ Len(chain) * ClusterSize >= FileSize(n)
       /\ \A m \in Names \ {n} : Range(chain) \cap Range(FileChain(m)) = {}

(* curCluster_ is the cluster of the byte before curPosition_, whatever    *)
(* sequence of reads, writes, seeks and truncations led there.             *)
PositionIsInChain ==
  \A n \in Names :
    file[n].open =>
      IF file[n].pos = 0 THEN file[n].cur = 0
      ELSE file[n].cur = FileChain(n)[(file[n].pos - 1) \div ClusterSize + 1]

(* A read at any place returns the bytes of the file from there to the     *)
(* count asked for or the end, though it may take them from the cache, the *)
(* card past the cache, or both; a peek returns the first of them, and the *)
(* position and its cluster are what they were (SdFile.cpp:668-719,        *)
(* File.cpp:76-83).                                                        *)
ReadReturnsContent ==
  \A n \in Names :
    file[n].open /\ "READ" \in file[n].flags /\ file[n].pos <= file[n].size =>
      /\ \A nbyte \in 1 .. MaxFileSize, unbuffered \in SUBSET {"UNBUFFERED"} :
           Read([At(n, Always) EXCEPT !.h.flags = @ \cup unbuffered], nbyte).out =
             SubSeq(live[n], file[n].pos + 1, AtMost(file[n].pos + nbyte, file[n].size))
      /\ Peek(At(n, Always)).h = file[n]
      /\ Peek(At(n, Always)).out = SubSeq(live[n], file[n].pos + 1, AtMost(file[n].pos + 1, file[n].size))

(* dirEntry() tells what the file is now, also what no sync has written    *)
(* yet (SdFile.cpp:160-171).                                               *)
EntryIsTold ==
  \A n \in Names :
    file[n].open =>
      DirEntry(At(n, Always)).out = << [name |-> n, first |-> file[n].first, size |-> file[n].size] >>

(* A file is told to be in a row if and only if its clusters are, and then *)
(* the blocks that are told are its blocks, so that they can be read and   *)
(* written past the file (SdFile.cpp:93-111).                              *)
RangeIsTold ==
  \A n \in Names :
    file[n].open =>
      LET chain == FileChain(n)
          told  == ContiguousRange(At(n, Always))
          inRow == \A i \in 1 .. Len(chain) - 1 : chain[i + 1] = chain[i] + 1
      IN /\ told.ok = (chain # <<>> /\ inRow)
         /\ told.ok => told.out[1] .. told.out[2] =
              UNION { ClusterStartBlock(c) .. ClusterStartBlock(c) + BlocksPerCluster - 1 : c \in Range(chain) }

(* sync() fails only for an I/O error (SdFile.cpp:957-962); here, never. *)
SyncSucceeds == \A n \in Names : file[n].open => Sync(At(n, Always)).ok

(* A step leaves clusters allocated without a file only when the power     *)
(* fails, or when it removes or truncates a file of no bytes that holds    *)
(* the clusters of a write that failed (truncate() frees nothing then).    *)
NoClusterIsLost ==
  [][powerLosses' = powerLosses =>
       LostClusters' \ LostClusters \subseteq
         UNION {Range(FileChain(n)) : n \in {m \in Names : FileSize(m) = 0}}]_vars

(* The second FAT is a copy of the first but for the block in the cache.   *)
FatsAgree ==
  powerLosses = 0 /\ FatCount = 2 =>
    \A b \in FatBlocks : card[b + BlocksPerFat] = card[b]

(* The FAT, the files' places in it and its copy fit together.             *)
VolumeIsSound == ChainsAreSound /\ PositionIsInChain /\ FatsAgree /\ RangeIsTold

(* A read gives what the file holds and a sync writes it, in every state   *)
(* the calls before can have left the cache in.                            *)
CallsAreSound == ReadReturnsContent /\ SyncSucceeds /\ EntryIsTold

Store == INSTANCE FileStore
FileStoreSpec == Store!Spec
=============================================================================
