------------------------------ MODULE SdVolume ------------------------------
(***************************************************************************)
(* The FAT16 volume of the SD library: the one-block cache that FAT, root  *)
(* directory and file data share, the file allocation table and its mirror,*)
(* and the cluster allocator                                               *)
(* (libraries/SD/src/utility/SdVolume.cpp).                                *)
(*                                                                         *)
(* Nothing runs concurrently here, so a call is one operator from a state  *)
(* of the volume to the next.  The state s is a record:                    *)
(*   card   the blocks on the card          cache  the cache (static)      *)
(*   start  allocSearchStart_               h      the SdFile in use       *)
(*   io     block writes left before the power fails                       *)
(*   power  FALSE once it has failed        ok     FALSE once a call of    *)
(*   val, out   what the last call returned        the chain has failed    *)
(* Then(s, F) goes on with F unless the call that led to s has failed: the *)
(* "if (!...) return false" after each call of the source.                 *)
(***************************************************************************)
EXTENDS Integers, FiniteSets, SequencesExt

CONSTANTS
  Names,             \* names of files in the root directory
  ClusterCount,      \* clusterCount_
  BlocksPerCluster,  \* blocksPerCluster_
  BlockSize,         \* bytes of a block, 512
  EntriesPerBlock,   \* FAT entries of a block, 256
  FatCount,          \* fatCount_
  RootDirEntryCount  \* rootDirEntryCount_, all of them in one block

ASSUME VolumeAssumption ==
  /\ ClusterCount \in Nat \ {0} /\ BlocksPerCluster \in {1, 2, 4}
  /\ BlockSize \in Nat \ {0, 1} /\ EntriesPerBlock \in Nat \ {0}
  /\ FatCount \in {1, 2} /\ RootDirEntryCount \in Nat \ {0}

(* Layout of the volume, from SdVolume::init(). *)
FatStartBlock == 1
BlocksPerFat == (ClusterCount + 1) \div EntriesPerBlock + 1
RootDirStart == FatStartBlock + FatCount * BlocksPerFat
DataStartBlock == RootDirStart + 1
LastBlock == DataStartBlock + ClusterCount * BlocksPerCluster - 1

FatBlocks == FatStartBlock .. FatStartBlock + BlocksPerFat - 1
ClusterSize == BlocksPerCluster * BlockSize
Clusters == 2 .. ClusterCount + 1
EOC == ClusterCount + 3      \* what fatPutEOC() stores: beyond every cluster and its successor
IsEOC(c) == c >= EOC
NoBlock == -1                \* cacheBlockNumber_ = 0XFFFFFFFF
NoMirror == 0
Free == "free"               \* DIR_NAME_FREE
Deleted == "deleted"         \* DIR_NAME_DELETED
Junk == <<>>                 \* a byte left in the cache by another block

EmptyEntry == [name |-> Free, first |-> 0, size |-> 0]
(* Only the name of a deleted entry is ever looked at. *)
DeletedEntry == [EmptyEntry EXCEPT !.name = Deleted]

(* A freshly formatted card: only the two reserved FAT entries are used. *)
FormattedCard ==
  [b \in FatStartBlock .. LastBlock |->
     IF b < RootDirStart
     THEN [e \in 0 .. EntriesPerBlock - 1 |->
             IF b \in {FatStartBlock, FatStartBlock + BlocksPerFat} /\ e < 2 THEN EOC ELSE 0]
     ELSE IF b = RootDirStart THEN [e \in 0 .. RootDirEntryCount - 1 |-> EmptyEntry]
     ELSE [i \in 0 .. BlockSize - 1 |-> Junk]]

EmptyCache == [block |-> NoBlock, buf |-> <<>>, dirty |-> FALSE, mirror |-> NoMirror]

ClusterStartBlock(c) == DataStartBlock + (c - 2) * BlocksPerCluster
BlockOfCluster(pos) == (pos \div BlockSize) % BlocksPerCluster
FatBlock(c) == FatStartBlock + c \div EntriesPerBlock

Fail(s) == [s EXCEPT !.ok = FALSE]
Then(s, F(_)) == IF s.ok THEN F(s) ELSE s

-----------------------------------------------------------------------------
(* The card (Sd2Card). *)

WriteBlock(s, b, data) ==
  IF s.io = 0 THEN [s EXCEPT !.ok = FALSE, !.power = FALSE]
  ELSE IF b \notin DOMAIN s.card THEN Fail(s)
  ELSE [s EXCEPT !.card[b] = data, !.io = @ - 1]

ReadBlock(s, b) ==
  IF b \in DOMAIN s.card THEN [s EXCEPT !.cache.buf = s.card[b]] ELSE Fail(s)

-----------------------------------------------------------------------------
(* The cache. *)

(* A block of the FAT goes to its place in the second FAT as well. *)
FlushMirrorSkipped(s) == s
FlushMirror(s) ==
  IF s.cache.mirror = NoMirror THEN s
  ELSE Then(WriteBlock(s, s.cache.mirror, s.cache.buf),
            LAMBDA t : [t EXCEPT !.cache.mirror = NoMirror])

CacheFlush(s) ==
  IF ~s.cache.dirty THEN s
  ELSE Then(Then(WriteBlock(s, s.cache.block, s.cache.buf), FlushMirror),
            LAMBDA t : [t EXCEPT !.cache.dirty = FALSE])

CacheRawBlock(s, b, forWrite) ==
  Then(IF s.cache.block = b THEN s ELSE Then(CacheFlush(s), LAMBDA t : ReadBlock(t, b)),
       LAMBDA t : [t EXCEPT !.cache.block = b, !.cache.dirty = @ \/ forWrite])

-----------------------------------------------------------------------------
(* The file allocation table. *)

(* The entry of c, in s.val. *)
FatGet(s, c) ==
  IF c > ClusterCount + 1 THEN Fail(s)
  ELSE Then(CacheRawBlock(s, FatBlock(c), FALSE),
            LAMBDA t : [t EXCEPT !.val = t.cache.buf[c % EntriesPerBlock]])

FatPut(s, c, value) ==
  IF c \notin Clusters THEN Fail(s)
  ELSE Then(CacheRawBlock(s, FatBlock(c), FALSE),
            LAMBDA t : [t EXCEPT
              !.cache.buf[c % EntriesPerBlock] = value,
              !.cache.dirty = TRUE,
              !.cache.mirror = IF FatCount > 1 THEN FatBlock(c) + BlocksPerFat ELSE @])

(* The first of count free clusters in a row, in s.val: bgn is where the   *)
(* row begins that has reached end, and past the end of the FAT the search *)
(* begins again.  It reads one entry for every cluster of the volume.  The *)
(* entries that are read may push a dirty block out of the cache.          *)
RECURSIVE FindFree(_, _, _, _, _)
FindFree(s, bgn, end, count, left) ==
  IF left = 0 THEN Fail(s)
  ELSE IF end \notin Clusters THEN FindFree(s, 2, 2, count, left)
  ELSE Then(FatGet(s, end),
            LAMBDA t : IF t.val # 0 THEN FindFree(t, end + 1, end + 1, count, left - 1)
                       ELSE IF end - bgn + 1 = count THEN [t EXCEPT !.val = bgn]
                       ELSE FindFree(t, bgn, end + 1, count, left - 1))

(* The last of the row, which begins at s.val, becomes the end of a chain, *)
(* every other points at the next ...                                      *)
RECURSIVE LinkRow(_, _, _)
LinkRow(s, bgn, end) ==
  IF end = bgn THEN [s EXCEPT !.val = bgn]
  ELSE Then(FatPut(s, end - 1, end), LAMBDA t : LinkRow(t, bgn, end - 1))
MarkEnd(s, count) ==
  Then(FatPut(s, s.val + count - 1, EOC), LAMBDA t : LinkRow(t, s.val, s.val + count - 1))
(* ... and the last of the chain of h.cur points at the first.             *)
Link(s) == IF s.h.cur = 0 THEN s ELSE FatPut(s, s.h.cur, s.val)
Allocated(s, count) ==
  [s EXCEPT !.h.cur = s.val, !.start = IF s.h.cur = 0 /\ count = 1 THEN s.val + 1 ELSE @]

FindRow(s, count) ==
  LET bgn == IF s.h.cur # 0 THEN s.h.cur + 1 ELSE s.start IN FindFree(s, bgn, bgn, count, ClusterCount)

AllocContiguousUnlinked(s, count) ==
  Then(Then(FindRow(s, count), LAMBDA t : MarkEnd(t, count)), LAMBDA t : Allocated(t, count))
AllocContiguousLinkedFirst(s, count) ==
  Then(Then(Then(FindRow(s, count), Link), LAMBDA t : MarkEnd(t, count)), LAMBDA t : Allocated(t, count))

(* allocContiguous(count, &curCluster_) *)
AllocContiguous(s, count) ==
  Then(Then(Then(FindRow(s, count), LAMBDA t : MarkEnd(t, count)), Link), LAMBDA t : Allocated(t, count))

RECURSIVE FreeLinks(_, _)
FreeLinks(s, c) ==
  Then(Then(FatGet(s, c), LAMBDA t : FatPut(t, c, 0)),
       LAMBDA t : IF IsEOC(t.val) THEN t ELSE FreeLinks(t, t.val))

FreeChain(s, c) == FreeLinks([s EXCEPT !.start = 2], c)
=============================================================================
