----------------------------- MODULE Fat32Invs -----------------------------
(***************************************************************************)
(* The inductive invariants of Fat32 without failures (Events = {}): what  *)
(* a finished volume is (Vol), what of it is finished at each transfer of  *)
(* a call (FatInv), what it shows to the abstract volume meanwhile         *)
(* (TreeInv), and what a call that reads has read so far (AnswerInv).      *)
(* Fat32Proofs proves them.                                                *)
(***************************************************************************)
EXTENDS Fat32

(***************************************************************************)
(* What a volume looks like.                                               *)
(***************************************************************************)
Fats == [Clusters -> {Free} \cup Clusters \cup {EOC}]

\* A chain of clusters, from one link to the next up to an end mark.
IsChain(f, ch) ==
  /\ ch \in Seq(Clusters) /\ ch # <<>>
  /\ \A k \in 1..Len(ch) - 1 : f[ch[k]] = ch[k + 1]
  /\ f[ch[Len(ch)]] = EOC
  /\ \A j, k \in 1..Len(ch) : ch[j] = ch[k] => j = k
Chained(f, x) == IsChain(f, Chain(f, x)) /\ Chain(f, x)[1] = x

\* The chains that start in heads are whole and apart; the clusters that are not
\* free are theirs, or those of the call in progress.
ChainsOK(f, heads, pend) ==
  /\ f \in Fats /\ heads \subseteq Clusters
  /\ \A x \in heads : Chained(f, x)
  /\ \A x, y \in heads : x # y => InChain(f, x) \cap InChain(f, y) = {}
  /\ \A x \in heads : InChain(f, x) \cap pend = {}
  /\ pend \subseteq Clusters
  /\ \A a \in Clusters : f[a] # Free <=> (a \in pend \/ \E x \in heads : a \in InChain(f, x))

\* The clusters of the call in progress: none, or a chain of n from x to prev.
Run(f, pend, x, prev, n) ==
  \/ n = 0 /\ pend = {} /\ prev = 0 /\ x = 0
  \/ /\ n > 0 /\ x # 0 /\ Chained(f, x) /\ pend = InChain(f, x)
     /\ n = Len(Chain(f, x)) /\ prev = Chain(f, x)[n]

\* The entries of a directory, each at a place: a cluster and a slot.
Entry == {End, Deleted} \cup [attr : {"file", "dir"}, name : Names \cup Dots, first : Clusters, size : Nat]
Ent(s, p) == s[p[1]][p[2]]
Put(s, p, e) == [s EXCEPT ![p[1]] = [@ EXCEPT ![p[2]] = e]]
Places(f, d) == InChain(f, d) \X (1..Slots)
Ents(f, s, d) == {p \in Places(f, d) : Live(Ent(s, p)) /\ Ent(s, p).name \notin Dots}
Heads(f, s, dirs) ==
  {x \in Clusters : x = Root \/ \E d \in dirs : \E p \in Ents(f, s, d) : x = Ent(s, p).first}
Child(f, s, d, x) == \E p \in Ents(f, s, d) : Ent(s, p).attr = "dir" /\ Ent(s, p).first = x

\* The end of a directory is in its last sector, and nothing follows it.
TableOK(f, s, a) ==
  /\ s[a] \in Tables
  /\ \A i \in 1..Slots : s[a][i] = End => f[a] = EOC /\ \A j \in i..Slots : s[a][j] = End

\* Each directory but the root is the directory of one entry, and can be
\* reached from the root.
Reachable(f, s, dirs) ==
  \A set \in SUBSET dirs :
    Root \in set /\ (\A d \in set : \A p \in Ents(f, s, d) :
                       Ent(s, p).attr = "dir" => Ent(s, p).first \in set)
      => set = dirs
DirsOK(f, s, dirs) ==
  /\ dirs \subseteq Clusters /\ Root \in dirs /\ DOMAIN s = Clusters
  /\ \A d \in dirs : \A a \in InChain(f, d) : TableOK(f, s, a)
  /\ \A d \in dirs : \A p \in Ents(f, s, d) :
       Ent(s, p).first # Root /\ (Ent(s, p).attr = "dir" => Ent(s, p).first \in dirs)
  /\ \A d, e \in dirs : \A p \in Ents(f, s, d), q \in Ents(f, s, e) :
       Ent(s, p).first = Ent(s, q).first => p = q /\ d = e
  /\ \A d \in dirs : \A p, q \in Ents(f, s, d) : Ent(s, p).name = Ent(s, q).name => p = q
  /\ Reachable(f, s, dirs)

\* A file has the clusters its size needs, an empty one has one.
SizesOK(f, s, dirs) ==
  \A d \in dirs : \A p \in Ents(f, s, d) :
    Ent(s, p).attr = "file" =>
      Len(Chain(f, Ent(s, p).first)) = (IF Ent(s, p).size = 0 THEN 1 ELSE Ent(s, p).size)

Vol(f, s, dirs, pend) ==
  DirsOK(f, s, dirs) /\ ChainsOK(f, Heads(f, s, dirs), pend) /\ SizesOK(f, s, dirs)

\* The directories on the way to the working directory; the stack holds those
\* it had room for.
TreePath(f, s, dirs, at) ==
  /\ at \in Seq(dirs) /\ at # <<>> /\ at[1] = Root
  /\ \A k \in 1..Len(at) - 1 : Child(f, s, at[k], at[k + 1])
PathOK(f, s, dirs, w) ==
  /\ w.cluster \in dirs /\ w.stack \in Seq(dirs)
  /\ \E at \in Seq(dirs) :
       /\ TreePath(f, s, dirs, at) /\ at[Len(at)] = w.cluster /\ Len(w.stack) < Len(at)
       /\ \A k \in 1..Len(w.stack) : w.stack[k] = at[k]
       /\ Len(w.stack) < StackDepth => Len(at) = Len(w.stack) + 1

-----------------------------------------------------------------------------
(***************************************************************************)
(* What a call has come to.                                                *)
(***************************************************************************)
Fields == DOMAIN Blank \cup {"kind", "name", "arg", "dir", "pc"}

Mirrored == disk_fat = [copy \in 1..2 |-> fat]
\* The sectors of the FAT that have been written.
Flushed(step) ==
  \A a \in Clusters, copy \in 1..2 :
    2 * (a \div PerSector) + copy - 1 < step => disk_fat[copy][a] = fat[a]

Sound(s, dirs, pend) == Vol(fat, s, dirs, pend) /\ PathOK(fat, s, dirs, cwd)
Untouched == Mirrored /\ Sound(sector, DOMAIN tree, {}) /\ tree = TreeOf(fat, sector)

NotIn(s, d, n) == \A p \in Ents(fat, s, d) : Ent(s, p).name # n
Spare == Cardinality(FreeClusters(fat))

\* The search has come to cur: the name is in no sector before.
Searching(o) ==
  \E k \in 1..Len(Chain(fat, cwd.cluster)) :
    /\ o.cur = Chain(fat, cwd.cluster)[k]
    /\ \A p \in Ents(fat, sector, cwd.cluster) : Ent(sector, p).name = o.name =>
         \A m \in 1..k - 1 : Chain(fat, cwd.cluster)[m] # p[1]
At2(o) == <<o.cur, o.idx>>
Hit(o) == At2(o) \in Ents(fat, sector, cwd.cluster) /\ Ent(sector, At2(o)).name = o.name

\* What the caller promised.
Roomy(o, n) ==
  /\ NotIn(sector, cwd.cluster, o.name) => Spare >= n + 1
  /\ \A p \in Ents(fat, sector, cwd.cluster) :
       Ent(sector, p).name = o.name /\ Ent(sector, p).attr = "file" =>
         Spare + Len(Chain(fat, Ent(sector, p).first)) >= n + 1
Asked(o) ==
  /\ o.kind \in {"write", "mkdir", "delete", "rename", "read", "chdir"}
  /\ o.name \in Names /\ (o.kind # "chdir" => o.dir = cwd.cluster)
  /\ o.kind \in {"write", "mkdir"} =>
       ~o.exists /\ o.first = 0 /\ o.prev = 0 /\ o.step = 0
  /\ o.kind = "write" => o.arg \in Contents /\ Roomy(o, Needed(o.arg))
  /\ o.kind = "mkdir" => o.idx = 0 /\ Roomy(o, 1)
  /\ o.kind = "delete" =>
       /\ o.step = 0
       /\ \A p \in Ents(fat, sector, o.dir) :
            Ent(sector, p).name = o.name /\ Ent(sector, p).attr = "dir" =>
              Ents(fat, sector, Ent(sector, p).first) = {}
  /\ o.kind = "rename" => o.arg \in Names /\ NotIn(sector, o.dir, o.arg)

\* The entry that is to be rewritten, as if it were deleted already.
Dropped(o) == Put(sector, At2(o), Deleted)
HoleOK(o) ==
  /\ At2(o) \in Places(fat, o.dir) /\ sector[o.cur] \in Tables /\ DOMAIN sector = Clusters
  /\ Live(Ent(sector, At2(o))) /\ Ent(sector, At2(o)).name = o.name

\* The area as a write or a mkdir finds it: the old entry of its file is gone,
\* and the clusters it has so far are nobody's.
Area(o) == IF o.exists THEN Dropped(o) ELSE sector
Making(o, s, pend) ==
  /\ o.kind \in {"write", "mkdir"} /\ o.name \in Names /\ o.dir = cwd.cluster
  /\ o.kind = "write" => o.arg \in Contents
  /\ \E dirs \in SUBSET Clusters : Sound(s, dirs, pend)
  /\ NotIn(s, o.dir, o.name)
  /\ o.exists => o.kind = "write" /\ HoleOK(o) /\ Ent(sector, At2(o)).attr = "file"
Whole(o) == IF o.kind = "write" THEN Needed(o.arg) ELSE 1
Made(o, s) ==
  /\ Making(o, s, InChain(fat, o.first))
  /\ Chained(fat, o.first) /\ Len(Chain(fat, o.first)) = Whole(o)
DotTable(o) == [ZeroSector EXCEPT ![1] = NewEntry(".", "dir", o.first, 0),
                                  ![2] = NewEntry("..", "dir", o.dir, 0)]
Cleared(o) == o.kind = "mkdir" => sector[o.first] = DotTable(o)
Deleting(o) ==
  /\ o.kind = "delete" /\ o.dir = cwd.cluster /\ HoleOK(o) /\ g_io_buf = sector[o.cur]
  /\ \E dirs \in SUBSET Clusters : Sound(Dropped(o), dirs, {})

\* A new directory's cluster is not cleared yet.
NewCluster(o) == o.kind = "mkdir" /\ o.idx = 0 /\ ~o.exists /\ Made(o, sector) /\ Spare >= 1
\* The directory gets a sector more, which is not cleared yet.
Growing(o) ==
  /\ ~o.exists /\ o.idx = 1 /\ o.cur \in InChain(fat, o.dir) /\ o.cur # o.first
  /\ Made(o, [sector EXCEPT ![o.cur] = ZeroSector]) /\ Cleared(o)
\* A slot is looked for.
Placing(o) ==
  /\ Mirrored /\ o.step = 0 /\ ~o.exists /\ Made(o, sector) /\ Spare >= 1 /\ Cleared(o)
  /\ o.cur \in InChain(fat, o.dir)
\* A slot for the entry: free, and before the directory's end.
Slot(o, s) ==
  /\ At2(o) \in Places(fat, o.dir)
  /\ s[o.cur][o.idx] \in {End, Deleted}
  /\ \A j \in 1..o.idx - 1 : s[o.cur][j] # End
Placed(o) == Mirrored /\ Made(o, Area(o)) /\ Slot(o, Area(o)) /\ Cleared(o) /\ o.idx # 0

InData(o) ==
  /\ o.kind = "write" /\ o.step \in Nat /\ o.step < Needed(o.arg)
  /\ \E pend \in SUBSET Clusters :
       Making(o, Area(o), pend) /\ Run(fat, pend, o.first, o.prev, o.step)
  /\ Spare >= Needed(o.arg) - o.step + (IF o.exists THEN 0 ELSE 1)
InFlush(o) ==
  /\ o.step \in 0..2 * FatSectors - 1 /\ Flushed(o.step)
  /\ \/ o.then = "commit" /\ Deleting(o)
     \/ o.then = "reread" /\ o.exists /\ Made(o, Area(o))
     \/ o.then = "slot" /\ ~o.exists /\ o.kind = "write" /\ Made(o, sector) /\ Spare >= 1
     \/ o.then = "zero" /\ (NewCluster(o) \/ Growing(o))
InCommit(o) ==
  /\ g_io_buf = sector[o.cur]
  /\ \/ Mirrored /\ Deleting(o)
     \/ Untouched /\ o.kind = "rename" /\ Asked(o) /\ Hit(o)
     \/ Placed(o)

Phase(o) ==
  \/ o.pc \in {"read", "list"} /\ Untouched
  \/ o.pc = "walk" /\ Untouched /\ o.kind = "chdir"
  \/ o.pc = "find" /\ Untouched /\ Asked(o) /\ Searching(o)
  \/ o.pc = "entry" /\ Untouched /\ Asked(o) /\ Hit(o) /\ o.kind # "mkdir"
  \/ /\ o.pc = "newdir" /\ Untouched /\ Asked(o) /\ o.kind = "mkdir"
     /\ NotIn(sector, o.dir, o.name) /\ Spare >= 2
  \/ o.pc = "data" /\ InData(o)
  \/ o.pc = "flush" /\ InFlush(o)
  \/ /\ o.pc = "zero" /\ Mirrored /\ o.step = 0
     /\ (NewCluster(o) /\ o.cur = o.first) \/ Growing(o)
  \/ /\ o.pc \in {"dots", "dotted"} /\ Mirrored /\ o.step = 0 /\ NewCluster(o)
     /\ o.cur = o.first /\ sector[o.cur] = ZeroSector
     /\ o.pc = "dotted" => g_io_buf = ZeroSector
  \/ o.pc = "slot" /\ Placing(o)
  \/ o.pc = "extend" /\ Placing(o) /\ fat[o.cur] = EOC /\ \A i \in 1..Slots : Live(sector[o.cur][i])
  \/ o.pc = "reread" /\ Placed(o)
  \/ o.pc = "commit" /\ InCommit(o)

FatInv ==
  /\ fat \in Fats /\ disk_fat \in [1..2 -> Fats]
  /\ DOMAIN op = Callers
  /\ \A c, d \in Callers : c = d \/ op[c].pc = "idle" \/ op[d].pc = "idle"
  /\ \A c \in Callers : op[c].pc = "idle" \/ (DOMAIN op[c] = Fields /\ Phase(op[c]))
  /\ Quiet => Untouched
  /\ cwd.cluster \in DOMAIN tree

-----------------------------------------------------------------------------
(***************************************************************************)
(* What the volume shows in the middle of a call.                          *)
(***************************************************************************)
\* The tree without the name that a write is to give again.
Rest(o) == IF o.exists THEN TheVolume!Without(tree, o.dir, o.name) ELSE tree
\* The area as it will be when the directory's new sector is cleared.
Clearing(o) == ~o.exists /\ o.idx # 0 /\ (o.pc = "zero" \/ (o.pc = "flush" /\ o.then = "zero"))
View(o) == IF Clearing(o) THEN [sector EXCEPT ![o.cur] = ZeroSector] ELSE Area(o)
\* The blocks that a write has written so far.
Written(o) ==
  o.kind = "write" /\ o.first # 0 =>
    \A k \in 1..Len(Chain(fat, o.first)) :
      k <= Len(o.arg) => sector[Chain(fat, o.first)[k]] = o.arg[k]
Building(o) ==
  \/ o.pc \in {"data", "zero", "dots", "dotted", "slot", "extend", "reread"}
  \/ o.pc = "flush" /\ o.then # "commit"
  \/ o.pc = "commit" /\ o.kind \in {"write", "mkdir"}
Leaving(o) ==
  \/ o.pc = "flush" /\ o.then = "commit"
  \/ o.pc = "commit" /\ o.kind = "delete"

\* The volume in the making shows the tree as it was, without the name; the
\* volume without the entry shows what a deletion promises.
Built(o) ==
  /\ TreeOf(fat, View(o)) = Rest(o) /\ Written(o)
  /\ o.exists => TheVolume!IsFile(o.dir, o.name)
Erased(o) ==
  /\ TreeOf(fat, Dropped(o)) = Effect(o) /\ o.name \in Names
  /\ \/ TheVolume!IsFile(o.dir, o.name)
     \/ TheVolume!IsDirectory(o.dir, o.name) /\ DOMAIN tree[tree[o.dir][o.name].id] = {}
Shown(o) ==
  /\ Building(o) => Built(o)
  /\ Leaving(o) => Erased(o)
  /\ o.pc = "read" => o.kind = "read"
  /\ o.pc = "list" => o.kind = "readdir"
TreeInv == \A c \in Callers : op[c].pc = "idle" \/ Shown(op[c])

-----------------------------------------------------------------------------
(***************************************************************************)
(* What a call that only reads has read so far.                            *)
(***************************************************************************)

\* The first m blocks of the file; and while the buffer has room, the cluster
\* of the next one.
Reading(o) ==
  \E p \in Ents(fat, sector, o.dir) :
    LET e  == Ent(sector, p)
        ch == Chain(fat, e.first)
    IN  /\ e.name = o.name /\ e.attr = "file"
        /\ \E m \in 0..e.size :
             /\ m <= o.arg /\ o.size = e.size - m
             /\ o.got = [k \in 1..m |-> sector[ch[k]]]
             /\ m = o.arg \/ o.cur = (IF m < Len(ch) THEN ch[m + 1] ELSE EOC)

\* The names of the first k sectors of the directory.
NamesIn(a) == {Ent(sector, <<a, i>>).name : i \in {j \in 1..Slots : Live(Ent(sector, <<a, j>>))}}
Listing(o) ==
  LET ch == Chain(fat, o.dir)
  IN  \E k \in 0..Len(ch) : /\ o.got = [j \in 1..k |-> NamesIn(ch[j])]
                            /\ o.cur = (IF k < Len(ch) THEN ch[k + 1] ELSE EOC)

Answering(o) ==
  /\ o.pc \in {"find", "entry"} /\ o.kind = "read" => o.got = <<>> /\ o.arg \in Nat
  /\ o.pc = "read" => o.dir = cwd.cluster /\ o.arg \in Nat /\ Reading(o)
  /\ o.pc = "list" => o.dir = cwd.cluster /\ Listing(o)
AnswerInv == \A c \in Callers : op[c].pc = "idle" \/ Answering(op[c])
=============================================================================
