------------------------------- MODULE SdTree -------------------------------
(***************************************************************************)
(* Directories and paths of the SD library: SD.cpp and the directory part  *)
(* of SdFile.cpp.  A directory is the slots of its entries, which keep     *)
(* their places; a card is its directories and files and how many clusters *)
(* are free.  Module SdFile has what is in the files and the FAT.          *)
(***************************************************************************)
EXTENDS Integers, Sequences, FiniteSets, FiniteSetsExt, SequencesExt

CONSTANTS
  Names,            \* names of eight and three letters
  Foreign,          \* names of files that a PC wrote and make83Name refuses
  PathsUsed,        \* the paths of the sketch, as sequences of names
  RootSlots,        \* entries of the root directory
  ClusterSlots,     \* entries of a cluster, with "." and ".." in the first
  Clusters,         \* clusters of the card
  Ids,              \* bound: files and directories besides the root
  ThroughFiles      \* TRUE: the sketch treats files as directories

ASSUME SdTreeAssumption ==
  /\ Names \cap Foreign = {} /\ RootSlots \in Nat \ {0} /\ ClusterSlots \in Nat \ { 0, 1, 2 }
  /\ Clusters \in Nat /\ Ids \subseteq Nat \ {0} /\ ThroughFiles \in BOOLEAN

VARIABLES
  volume,           \* the card: objects by id, and the free clusters
  file,             \* the id of the file that the sketch has open, or -1
  listing,          \* a directory that the sketch goes through
  made,             \* the path of a mkdir() that just returned true, or << >>
  tree              \* a function of the volume: the kind of every path

sdVars == << volume, file, listing, made, tree >>

Root == 0
Never   == [id |-> -1, name |-> "never used"]   \* DIR_NAME_FREE
Deleted == [id |-> -2, name |-> "deleted"]
Missing == [type |-> "none", size |-> 0, slots |-> << >>]
Closed  == [dir |-> -1, at |-> 0, limit |-> 0, seen |-> << >>, expected |-> {}]

Live(entry) == entry.id > 0

\* Entries before the first one never used.
Used(slots) ==
  LET ends == { k \in DOMAIN slots : slots[k] = Never }
  IN IF ends = {} THEN DOMAIN slots ELSE { k \in DOMAIN slots : \A e \in ends : k < e }

EntriesNamed(slots) == { slots[k].name : k \in { k \in Used(slots) : Live(slots[k]) } }
Found(slots, name) == { k \in Used(slots) : Live(slots[k]) /\ slots[k].name = name }
UnusedSlots(slots) == { k \in DOMAIN slots : slots[k] \in { Never, Deleted } }
First(S) == CHOOSE k \in S : \A other \in S : k <= other

Unwritten(n) == [k \in 1 .. n |-> Never]

(***************************************************************************)
(* SdFile::open by name: its result is the volume after it, whether it     *)
(* succeeds and what is open then.  An empty file that is opened as a      *)
(* directory passes for a full one, and gets a cluster of entries.         *)
(***************************************************************************)
Refuse(vol) == [vol |-> vol, ok |-> FALSE, id |-> -1]

addDirCluster(vol, id) ==
  [vol EXCEPT !.free = @ - 1, !.objects[id].size = @ + 1, !.objects[id].slots = @ \o Unwritten(ClusterSlots)]

Created(vol, dir, k, name) ==
  LET id == First({ i \in Ids : vol.objects[i].type = "none" })
  IN [vol |-> [vol EXCEPT !.objects[dir].slots[k] = [id |-> id, name |-> name],
                          !.objects[id] = [type |-> "file", size |-> 0, slots |-> << >>]],
      ok |-> TRUE, id |-> id]

open(vol, dir, name, mode) ==
  LET parent == vol.objects[dir]
      found  == Found(parent.slots, name)
      empty  == UnusedSlots(parent.slots)
  IN CASE parent.type = "file" /\ parent.size > 0 -> Refuse(vol)   \* readDirCache
       [] found # {} ->
            LET id == parent.slots[First(found)].id
            IN IF mode = "new" \/ (mode = "write" /\ vol.objects[id].type = "dir")
               THEN Refuse(vol) ELSE [vol |-> vol, ok |-> TRUE, id |-> id]
       [] found = {} /\ mode \notin { "new", "create" } -> Refuse(vol)
       [] found = {} /\ mode \in { "new", "create" } ->
            IF empty # {} THEN Created(vol, dir, First(empty), name)
            ELSE IF parent.type = "root" \/ vol.free = 0 THEN Refuse(vol)
            ELSE Created(addDirCluster(vol, dir), dir, Len(parent.slots) + 1, name)

\* The modes of the sketch and of the library: O_CREAT with O_EXCL is "new",
\* FILE_WRITE is "create" for a name without a file.
openFile(vol, dir, name, mode) ==
  IF mode = "create" /\ Found(vol.objects[dir].slots, name) # {}
  THEN open(vol, dir, name, "write") ELSE open(vol, dir, name, mode)

\* The entry stays a file of size 0 when there is no cluster for it.
makeDir(vol, dir, name) ==
  LET o == open(vol, dir, name, "new")
  IN IF ~o.ok THEN o
     ELSE IF o.vol.free = 0 THEN Refuse(o.vol)
     ELSE [o EXCEPT !.vol.free = @ - 1,
                    !.vol.objects[o.id] = [type |-> "dir", size |-> 1, slots |-> Unwritten(ClusterSlots - 2)]]

RemovedAsUnused(vol, dir, name) ==
  LET k == First(Found(vol.objects[dir].slots, name))
      id == vol.objects[dir].slots[k].id
  IN [vol EXCEPT !.free = @ + vol.objects[id].size,
                 !.objects[id] = Missing, !.objects[dir].slots[k] = Never]

\* SdFile::remove: the clusters and the entry.
RemovedAt(vol, dir, k) ==
  LET id == vol.objects[dir].slots[k].id
  IN [vol EXCEPT !.free = @ + vol.objects[id].size,
                 !.objects[id] = Missing, !.objects[dir].slots[k] = Deleted]
Removed(vol, dir, name) == RemovedAt(vol, dir, First(Found(vol.objects[dir].slots, name)))

remove(vol, dir, name) ==
  LET o == open(vol, dir, name, "write")
  IN IF o.ok THEN [o EXCEPT !.vol = Removed(vol, dir, name)] ELSE o

rmDir(vol, dir, name) ==
  LET o == open(vol, dir, name, "read")
  IN IF o.ok /\ vol.objects[o.id].type = "dir"
        /\ ~ \E k \in Used(vol.objects[o.id].slots) : Live(vol.objects[o.id].slots[k])
     THEN [o EXCEPT !.vol = Removed(vol, dir, name)] ELSE Refuse(vol)

\* open() by index takes whatever entry is there: names that make83Name
\* refuses too.
openIndex(vol, dir, k) ==
  IF k \notin DOMAIN vol.objects[dir].slots \/ ~Live(vol.objects[dir].slots[k]) THEN Refuse(vol)
  ELSE [vol |-> vol, ok |-> TRUE, id |-> vol.objects[dir].slots[k].id]

\* What is in the directory goes first, entry by entry, and the place of the
\* next is taken up again after each.
RECURSIVE rmRfStar(_, _)
rmRfStar(vol, dir) ==
  LET Visit(v, k) ==
        LET o == openIndex(v, dir, k)
        IN IF k \notin Used(vol.objects[dir].slots) \/ ~o.ok THEN v
           ELSE RemovedAt(IF v.objects[o.id].type = "dir" THEN rmRfStar(v, o.id) ELSE v, dir, k)
  IN FoldLeftDomain(Visit, vol, vol.objects[dir].slots)

\* ls() with LS_R, from an entry on: the paths it prints, with those of a
\* directory after it.
RECURSIVE ls(_, _, _, _)
ls(vol, dir, path, k) ==
  LET slots == vol.objects[dir].slots
      o     == openIndex(vol, dir, k)
      here  == Append(path, slots[k].name)
  IN IF k > Len(slots) \/ slots[k] = Never THEN << >>
     ELSE IF ~o.ok THEN ls(vol, dir, path, k + 1)
     ELSE << here >> \o (IF vol.objects[o.id].type = "dir" THEN ls(vol, o.id, here, 1) ELSE << >>)
            \o ls(vol, dir, path, k + 1)

(***************************************************************************)
(* SD.cpp: walkPath calls back for every name of the path and opens it.    *)
(***************************************************************************)
Passes(vol) == [vol |-> vol, ok |-> TRUE, id |-> -1]

callback_pathExists(vol, dir, name, last) == open(vol, dir, name, "read")

callback_makeDirPath(vol, dir, name, last) ==
  IF callback_pathExists(vol, dir, name, last).ok THEN Passes(vol) ELSE makeDir(vol, dir, name)

callback_remove(vol, dir, name, last) ==
  IF last THEN remove(vol, dir, name) ELSE Passes(vol)

callback_rmdir(vol, dir, name, last) ==
  IF last THEN rmDir(vol, dir, name) ELSE Passes(vol)

\* The callback that is passed to walkPath.
Callback(callback, vol, dir, name, last) ==
  CASE callback = "pathExists"  -> callback_pathExists(vol, dir, name, last)
    [] callback = "makeDirPath" -> callback_makeDirPath(vol, dir, name, last)
    [] callback = "remove"      -> callback_remove(vol, dir, name, last)
    [] callback = "rmdir"       -> callback_rmdir(vol, dir, name, last)

walkPath(vol, path, callback) ==
  LET Visit(acc, k) ==
        IF ~acc.going THEN acc
        ELSE LET c == Callback(callback, acc.vol, acc.id, path[k], k = Len(path))
                 o == open(c.vol, acc.id, path[k], "read")
             IN IF ~c.ok \/ k = Len(path)
                THEN [vol |-> c.vol, id |-> -1, going |-> FALSE, ok |-> c.ok]
                ELSE [vol |-> o.vol, id |-> o.id, going |-> o.ok, ok |-> FALSE]
  IN FoldLeftDomain(Visit, [vol |-> vol, id |-> Root, going |-> TRUE, ok |-> FALSE], path)

\* getParentDir opens all but the last name.
getParentDir(vol, path) ==
  LET Down(acc, k) ==
        IF acc.ok /\ k < Len(path) THEN open(acc.vol, acc.id, path[k], "read") ELSE acc
  IN FoldLeftDomain(Down, [vol |-> vol, ok |-> TRUE, id |-> Root], path)

openPath(vol, path, mode) ==
  LET parent == getParentDir(vol, path)
  IN IF parent.ok THEN openFile(parent.vol, parent.id, Last(path), mode) ELSE parent

(***************************************************************************)
(* The calls of the sketch.                                                *)
(***************************************************************************)
\* What a path leads to, by the entries alone: an id, or -1.
Leads(vol, path) ==
  LET Down(id, k) ==
        LET found == IF id = -1 THEN {} ELSE Found(vol.objects[id].slots, path[k])
        IN IF found = {} THEN -1 ELSE vol.objects[id].slots[First(found)].id
  IN FoldLeftDomain(Down, Root, path)

TreeOf(vol) ==
  [p \in { q \in PathsUsed : Leads(vol, q) # -1 } |-> vol.objects[Leads(vol, p)].type]

Ancestors(path) == { SubSeq(path, 1, k) : k \in 1 .. Len(path) - 1 }
Sensible(path) ==
  ThroughFiles \/ \A q \in Ancestors(path) : q \in DOMAIN tree => tree[q] = "dir"

\* There is an id for everything the call may create.
Room(path) == Cardinality({ i \in Ids : volume.objects[i].type = "none" }) >= Len(path)

Returns(r) == volume' = r.vol /\ tree' = TreeOf(volume') /\ made' = << >>

\* What is removed from the directory being listed need not be listed.
StillThere ==
  IF listing = Closed THEN UNCHANGED listing
  ELSE listing' = [listing EXCEPT !.expected = @ \cap EntriesNamed(volume'.objects[listing.dir].slots)]

exists(path) ==
  /\ Sensible(path) /\ Returns(walkPath(volume, path, "pathExists"))
  /\ UNCHANGED << file, listing >>

mkdir(path) ==
  /\ Room(path) /\ Sensible(path)
  /\ path \in DOMAIN tree /\ tree[path] = "file" => ThroughFiles
  /\ LET r == walkPath(volume, path, "makeDirPath")
     IN /\ volume' = r.vol /\ tree' = TreeOf(volume')
        /\ made' = IF r.ok THEN path ELSE << >>
  /\ UNCHANGED << file, listing >>

\* Not what it has open, or is listing.
removePath(path) ==
  /\ Sensible(path) /\ Leads(volume, path) \notin { file, listing.dir }
  /\ \/ Returns(walkPath(volume, path, "remove"))
     \/ Returns(walkPath(volume, path, "rmdir"))
  /\ StillThere /\ UNCHANGED file

\* The sketch opens a directory itself and has rmRfStar() remove it; it has
\* nothing open then.
removeAll(path) ==
  LET id == Leads(volume, path)
      parent == Leads(volume, Front(path))
      emptied == rmRfStar(volume, id)
  IN /\ Sensible(path) /\ id # -1 /\ volume.objects[id].type # "file"
     /\ file = -1 /\ listing = Closed
     /\ volume' = IF id = Root THEN emptied
                  ELSE RemovedAt(emptied, parent, First(Found(volume.objects[parent].slots, Last(path))))
     /\ tree' = TreeOf(volume') /\ made' = << >> /\ UNCHANGED << file, listing >>

\* A File of a directory is for openNextFile().
openCall(path, mode) ==
  /\ Room(path) /\ Sensible(path) /\ file = -1
  /\ LET o == openPath(volume, path, mode)
     IN /\ Returns(o)
        /\ file' = IF o.ok /\ o.vol.objects[o.id].type = "file" THEN o.id ELSE -1
        /\ IF o.ok /\ o.vol.objects[o.id].type # "file" /\ listing = Closed
           THEN LET slots == o.vol.objects[o.id].slots
                IN listing' = [dir |-> o.id, at |-> 1, limit |-> Len(slots), seen |-> << >>,
                               expected |-> EntriesNamed(slots)]
           ELSE UNCHANGED listing

\* The sketch puts something into an empty file, and closes it.
WriteFile ==
  /\ file # -1 /\ file' = -1
  /\ LET grows == volume.objects[file].size = 0 /\ volume.free > 0
     IN volume' = IF grows THEN [volume EXCEPT !.free = @ - 1, !.objects[file].size = 1] ELSE volume
  /\ UNCHANGED << listing, made, tree >>

Close == file # -1 /\ file' = -1 /\ UNCHANGED << volume, listing, made, tree >>

\* The next live entry is opened by name, which starts over and leaves the
\* directory after the entry found; a name that cannot be opened ends it.
ToList ==
  { k \in Used(volume.objects[listing.dir].slots) \cap listing.at .. listing.limit :
      Live(volume.objects[listing.dir].slots[k]) }
NextName == volume.objects[listing.dir].slots[First(ToList)].name

openNextFile ==
  /\ listing # Closed /\ ToList # {} /\ NextName \notin Foreign
  /\ listing' = [listing EXCEPT
       !.at = First(Found(volume.objects[listing.dir].slots, NextName)) + 1,
       !.seen = Append(@, NextName)]
  /\ UNCHANGED << volume, file, made, tree >>

\* It returns no File, and the sketch closes the directory.
ListingEnds ==
  /\ listing # Closed /\ (ToList # {} => NextName \in Foreign)
  /\ listing' = Closed
  /\ UNCHANGED << volume, file, made, tree >>

(***************************************************************************)
(* Specification and properties.                                           *)
(***************************************************************************)
\* An empty card, or one with a file of a PC.
EmptyCard ==
  [free |-> Clusters,
   objects |-> [i \in Ids \cup { Root } |->
                  IF i = Root THEN [type |-> "root", size |-> 0, slots |-> Unwritten(RootSlots)] ELSE Missing]]

SdInit ==
  /\ volume \in { EmptyCard } \cup { Created(EmptyCard, Root, 1, name).vol : name \in Foreign }
  /\ file = -1 /\ listing = Closed /\ tree = TreeOf(volume)
  /\ made = << >>

SdNext ==
  \/ \E path \in PathsUsed :
       exists(path) \/ mkdir(path) \/ removePath(path) \/ \E mode \in { "read", "create" } : openCall(path, mode)
  \/ \E path \in PathsUsed \cup { << >> } : removeAll(path)
  \/ WriteFile \/ Close \/ openNextFile \/ ListingEnds

SdSpec == SdInit /\ [][SdNext]_sdVars

SdTypeOK ==
  /\ volume.free \in 0 .. Clusters
  /\ \A i \in Ids : volume.objects[i].type \in { "none", "file", "dir" }
  /\ file \in Ids \cup { -1 } /\ listing.dir \in Ids \cup { -1, Root }
  /\ made \in PathsUsed \cup { << >> } /\ DOMAIN tree \subseteq PathsUsed

\* Whatever exists has one entry, in one directory, and the clusters of what
\* exists and the free ones are all there are.
Holders(id) ==
  { h \in { << d, k >> : d \in Ids \cup { Root }, k \in 1 .. RootSlots + Clusters * ClusterSlots } :
      /\ h[2] \in Used(volume.objects[h[1]].slots)
      /\ volume.objects[h[1]].slots[h[2]].id = id }

NothingIsLost ==
  /\ \A i \in Ids : volume.objects[i].type # "none" <=> Cardinality(Holders(i)) = 1
  /\ volume.free + MapThenSumSet(LAMBDA i : volume.objects[i].size, Ids) = Clusters

\* The calls change the tree at the path they name and nowhere else,
\* however slots are reused and directories grow.
Tree == INSTANCE FileTree WITH Paths <- PathsUsed
TreeSpec == Tree!TreeSpec

\* mkdir() "returns true if a directory was created or it already existed"
\* (SD.cpp:265).
MkdirMakesDir ==
  made # << >> => made \in DOMAIN tree /\ tree[made] = "dir"

\* ls() of the card prints every path once, and after its directory
\* (SdFile.cpp:203-244).
LsIsComplete ==
  LET printed == ls(volume, Root, << >>, 1)
  IN /\ Cardinality(Range(printed)) = Len(printed)
     /\ Range(printed) \cap PathsUsed = DOMAIN tree
     /\ \A k \in DOMAIN printed : Len(printed[k]) > 1 =>
          \E j \in 1 .. k - 1 : printed[j] = Front(printed[k])

\* A listing gives every file that is in the directory all the while once,
\* whatever is created and removed between its steps.
Times(name, seq) == Cardinality({ k \in DOMAIN seq : seq[k] = name })
ListingIsComplete ==
  [][listing # Closed /\ listing' = Closed =>
       \A name \in listing.expected : Times(name, listing.seen) = 1]_sdVars

=============================================================================
