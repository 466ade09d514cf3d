-------------------------------- MODULE Fat32 --------------------------------
(***************************************************************************)
(* The FAT32 driver (drivers/fat32.c): the FAT it keeps in memory, its two *)
(* copies on the disk, directories and files as chains of clusters, the    *)
(* working directory.  A call goes from one sector transfer to the next;   *)
(* the machine may be switched off, a transfer may fail, and a program may *)
(* make a call of its own in between.  One sector per cluster.             *)
(***************************************************************************)
EXTENDS Naturals, Sequences, FiniteSets

CONSTANTS Last,       \* the highest cluster number of the volume
          Slots,      \* ENTRIES_PER_SECTOR
          PerSector,  \* FAT entries in one sector of the FAT
          StackDepth, \* FAT32_STACK_DEPTH
          Names,      \* 8.3 names, as encode_name83 leaves them
          Blocks,     \* what a sector of a file may hold
          Contents,   \* what the callers write: sequences of blocks
          Paths,      \* arguments of fat32_chdir: names, ".." and a first "/"
          Rooms,      \* buffer sizes of fat32_read_file, in blocks
          Shell,      \* callers that can be preempted: shell commands
          Programs,   \* callers in a system call, with interrupts off
          Calls,      \* the calls made; "overwrite" is a write to a file that exists
          Events      \* "tight", "crash", "readFail", "writeFail", "preempt",
                      \* "uncleared"

VARIABLES fat,        \* g_fat_buf
          disk_fat,   \* the two copies of the FAT on the disk
          sector,     \* the data area
          g_io_buf,
          cwd,        \* fat32_cwd_cluster, g_parent_stack, fat32_cwd
          op,         \* the call each caller has in progress
          tree        \* the volume a caller sees when no call is in progress

vars == <<fat, disk_fat, sector, g_io_buf, cwd, op, tree>>

Callers  == Shell \cup Programs
Clusters == 2 .. Last
Root     == 2
Free     == 0
EOC      == Last + 1
\* Mutant of FatSectors: the last, partly filled sector is forgotten.
FatSectorsShort == Last \div PerSector

\* g_sectors_per_fat
FatSectors == (Last \div PerSector) + 1

End     == [attr |-> "end"]         \* first byte 0x00
Deleted == [attr |-> "deleted"]     \* first byte 0xE5
NewEntry(n, attr, first, size) ==
  [attr |-> attr, name |-> n, first |-> first, size |-> size]
Live(e) == e.attr \in {"file", "dir"}

ZeroSector == [i \in 1 .. Slots |-> End]
Dots == {".", ".."}
Tables == [1 .. Slots -> {End, Deleted} \cup
             [attr : {"file", "dir"}, name : Names \cup Dots, first : Clusters, size : Nat]]
IsTable(s) == s \notin Blocks

\* A block that a caller writes is not taken for a sector of a directory.
ASSUME Geometry ==
  /\ Last \in Nat /\ Last >= 2 /\ Slots \in Nat /\ Slots >= 2
  /\ PerSector \in Nat \ {0} /\ StackDepth \in Nat
  /\ Contents \subseteq Seq(Blocks) /\ \A block \in Blocks : block \notin Tables
  /\ Rooms \subseteq Nat
  /\ Names \cap (Dots \cup {"/"}) = {}

Idle(ok) == [pc |-> "idle", ok |-> ok]

Init ==
  /\ fat = [c \in Clusters |-> IF c = Root THEN EOC ELSE Free]
  /\ disk_fat = [copy \in 1 .. 2 |-> fat]
  /\ sector = [c \in Clusters |-> ZeroSector]
  /\ g_io_buf = ZeroSector
  /\ cwd = [cluster |-> Root, stack |-> <<>>, path |-> <<>>]
  /\ op = [c \in Callers |-> Idle(TRUE)]
  /\ tree = [d \in {Root} |-> [n \in {} |-> Root]]

-----------------------------------------------------------------------------
(***************************************************************************)
(* Chains and directories.                                                 *)
(***************************************************************************)

\* fat32_next_cluster, as the loops use it: 0 ends them as EOC does.
Chain(f, first) ==
  LET at[k \in 0 .. Last] == IF k = 0 THEN first
                             ELSE IF at[k - 1] \in Clusters THEN f[at[k - 1]] ELSE EOC
      len == Cardinality({k \in 0 .. Last : \A j \in 0 .. k : at[j] \in Clusters})
  IN  [k \in 1 .. len |-> at[k - 1]]

InChain(f, first) == {Chain(f, first)[k] : k \in DOMAIN Chain(f, first)}

FreeClusters(f) == {c \in Clusters : f[c] = Free}
LowestIn(S) == CHOOSE x \in S : \A y \in S : x <= y

\* Mutant of FreeChain: only the first cluster is freed.
FreeFirst(f, first) == [f EXCEPT ![first] = Free]

\* fat32_free_chain
FreeChain(f, first) ==
  [c \in Clusters |-> IF c \in InChain(f, first) THEN Free ELSE f[c]]

\* The entries of the directory at d that a search meets: up to the first End.
Visible(f, s, d) ==
  LET ch    == Chain(f, d)
      all   == 1 .. Len(ch) * Slots
      Slot(j) == LET held == s[ch[((j - 1) \div Slots) + 1]]
                 IN  IF IsTable(held) THEN held[((j - 1) % Slots) + 1] ELSE End
      met   == {j \in all : \A i \in 1 .. j : Slot(i) # End}
  IN  [j \in {i \in met : Live(Slot(i))} |-> Slot(j)]

Named(v, n)  == {j \in DOMAIN v : v[j].name = n}
NamesOf(v)   == {v[j].name : j \in DOMAIN v} \ Dots
Subdirs(v)   == {v[j].first : j \in {i \in DOMAIN v : /\ v[i].attr = "dir"
                                                       /\ v[i].name \notin Dots}}

\* What a file's entry and the FAT say it holds (fat32_read_file).
Data(f, s, e) ==
  LET ch == Chain(f, e.first)
  IN  [k \in 1 .. (IF e.size < Len(ch) THEN e.size ELSE Len(ch)) |-> s[ch[k]]]

\* The directories that can be reached, and the tree they make.
DirsOf(f, s) ==
  LET within[k \in 0 .. Last] ==
        IF k = 0 THEN {Root}
        ELSE within[k - 1] \cup UNION {Subdirs(Visible(f, s, d)) : d \in within[k - 1]}
  IN  within[Last]

TreeOf(f, s) ==
  [d \in DirsOf(f, s) |->
    LET v == Visible(f, s, d)
    IN  [n \in NamesOf(v) |->
          LET e == v[LowestIn(Named(v, n))]
          IN  IF e.attr = "dir" THEN [kind |-> "dir", id |-> e.first]
              ELSE [kind |-> "file", data |-> Data(f, s, e)]]]

-----------------------------------------------------------------------------
(***************************************************************************)
(* Calls.                                                                  *)
(***************************************************************************)

\* A program's system call runs with interrupts off; a shell command can be
\* preempted between two transfers.
MayRun(c) ==
  \A d \in Callers \ {c} : \/ op[d].pc = "idle"
                           \/ d \in Shell /\ c \in Programs /\ "preempt" \in Events

\* The call returns.
Return(c, ok) ==
  /\ op' = [op EXCEPT ![c] = Idle(ok)]
  /\ tree' = TreeOf(fat', sector')

\* The fields of `at' change, the others stay.
Updated(o, at) == [x \in DOMAIN o \cup DOMAIN at |-> IF x \in DOMAIN at THEN at[x] ELSE o[x]]
Goto(c, at) == /\ op' = [op EXCEPT ![c] = Updated(@, at)]
               /\ UNCHANGED tree

At(c, label) == op[c].pc = label /\ MayRun(c)

Blank == [cur |-> 0, idx |-> 0, first |-> 0, prev |-> 0, size |-> 0, step |-> 0,
          exists |-> FALSE, then |-> "", got |-> <<>>]

\* Every call fills g_io_buf before it uses it: what an earlier one left there
\* is forgotten, unless that one is still in progress.
Begin(c, kind, n, arg, label) ==
  /\ op[c].pc = "idle" /\ MayRun(c)
  /\ kind \in Calls
  /\ g_io_buf' = IF \A d \in Callers : op[d].pc = "idle" THEN ZeroSector ELSE g_io_buf
  /\ op' = [op EXCEPT ![c] = Updated(Blank, [cur |-> cwd.cluster, dir |-> cwd.cluster,
                                             kind |-> kind, name |-> n, arg |-> arg,
                                             pc |-> label])]

Needed(data) == IF Len(data) = 0 THEN 1 ELSE Len(data)

\* The callers' own bounds: without "tight" they leave room for what they
\* write, and for one more cluster of the directory.
Here == IF cwd.cluster \in DOMAIN tree THEN tree[cwd.cluster] ELSE [n \in {} |-> Root]
Held(n) == IF n \in DOMAIN Here /\ Here[n].kind = "file" THEN Needed(Here[n].data)
           ELSE 0
Room(n, clusters) == \/ "tight" \in Events
                     \/ Cardinality(FreeClusters(fat)) + Held(n) >= clusters + 1

CallWrite(c) == \E n \in Names, data \in Contents :
  /\ Room(n, Needed(data))
  /\ n \in DOMAIN Here => "overwrite" \in Calls
  /\ Begin(c, "write", n, data, "find")
  /\ UNCHANGED <<fat, disk_fat, sector, cwd, tree>>

CallMkdir(c) == \E n \in Names :
  /\ Room(n, 1)
  /\ n \in DOMAIN Here => "overwrite" \in Calls
  /\ Begin(c, "mkdir", n, <<>>, "find")
  /\ UNCHANGED <<fat, disk_fat, sector, cwd, tree>>

\* fat32_delete looks at no attribute.  The callers delete a directory only
\* when it is empty.
CallDelete(c) == \E n \in Names :
  /\ n \in DOMAIN Here /\ Here[n].kind = "dir" => DOMAIN tree[Here[n].id] = {}
  /\ Begin(c, "delete", n, <<>>, "find")
  /\ UNCHANGED <<fat, disk_fat, sector, cwd, tree>>

\* fat32_rename does not look whether the new name exists; the callers do.
CallRename(c) == \E n \in Names, new \in Names \ DOMAIN Here :
  /\ Begin(c, "rename", n, new, "find")
  /\ UNCHANGED <<fat, disk_fat, sector, cwd, tree>>

CallRead(c) == \E n \in Names, room \in Rooms :
  /\ Begin(c, "read", n, room, "find")
  /\ UNCHANGED <<fat, disk_fat, sector, cwd, tree>>

CallReaddir(c) ==
  /\ Begin(c, "readdir", "", <<>>, "list")
  /\ UNCHANGED <<fat, disk_fat, sector, cwd, tree>>

CallChdir(c) == \E path \in Paths :
  /\ Begin(c, "chdir", "", path, "walk")
  /\ UNCHANGED <<fat, disk_fat, sector, cwd, tree>>

-----------------------------------------------------------------------------
(***************************************************************************)
(* fat32_find_entry: one sector of the directory per step.                 *)
(***************************************************************************)
Hits(s, attrs) == {i \in 1 .. Slots : s[i].attr \in attrs}

NotFound(c) ==
  CASE op[c].kind = "write" -> Goto(c, [pc |-> "data"])
    [] op[c].kind = "mkdir" -> Goto(c, [pc |-> "newdir"])
    [] OTHER -> Return(c, FALSE)

FindEntry(c) ==
  /\ At(c, "find")
  /\ LET s    == sector[op[c].cur]
         ends == Hits(s, {"end"})
         hits == {i \in Hits(s, {"file", "dir"}) :
                    s[i].name = op[c].name /\ \A j \in ends : i < j}
         next == fat[op[c].cur]
     IN  /\ IsTable(s)
         /\ g_io_buf' = s
         /\ UNCHANGED <<fat, disk_fat, sector, cwd>>
         /\ \/ /\ hits # {} /\ op[c].kind # "mkdir"
               /\ Goto(c, [pc |-> "entry", idx |-> LowestIn(hits)])
            \/ /\ hits # {} /\ op[c].kind = "mkdir"
               /\ Return(c, FALSE)
            \/ /\ hits = {} /\ ends = {} /\ next \in Clusters
               /\ Goto(c, [cur |-> next])
            \/ /\ hits = {} /\ (ends # {} \/ next \notin Clusters)
               /\ NotFound(c)

(***************************************************************************)
(* The entry is read again and the call goes on with it.                   *)
(***************************************************************************)
ReadEntry(c, kind) ==
  /\ At(c, "entry") /\ op[c].kind = kind /\ IsTable(sector[op[c].cur])
  /\ g_io_buf' = sector[op[c].cur]
  /\ UNCHANGED <<disk_fat, sector>>

Found(c) == sector[op[c].cur][op[c].idx]

WrongKind(c) ==
  /\ \/ ReadEntry(c, "write") /\ Found(c).attr = "dir"
     \/ ReadEntry(c, "read") /\ Found(c).attr = "dir"
     \/ ReadEntry(c, "chdir") /\ Found(c).attr # "dir"
  /\ UNCHANGED <<fat, cwd>>
  /\ Return(c, FALSE)

FreeOld(c) ==
  /\ ReadEntry(c, "write") /\ Found(c).attr = "file"
  /\ fat' = FreeChain(fat, Found(c).first)
  /\ UNCHANGED cwd
  /\ Goto(c, [pc |-> "data", exists |-> TRUE])

FreeDeleted(c) ==
  /\ ReadEntry(c, "delete")
  /\ fat' = FreeChain(fat, Found(c).first)
  /\ UNCHANGED cwd
  /\ Goto(c, [pc |-> "flush", then |-> "commit"])

\* Mutant of OpenFile: the first block is read whatever the size is.
OpenWhole(c) ==
  /\ ReadEntry(c, "read") /\ Found(c).attr = "file"
  /\ UNCHANGED <<fat, cwd>>
  /\ Goto(c, [pc |-> "read", cur |-> Found(c).first,
              size |-> IF Found(c).size = 0 THEN 1 ELSE Found(c).size])

OpenFile(c) ==
  /\ ReadEntry(c, "read") /\ Found(c).attr = "file"
  /\ UNCHANGED <<fat, cwd>>
  /\ Goto(c, [pc |-> "read", cur |-> Found(c).first, size |-> Found(c).size])

RenameFound(c) ==
  /\ ReadEntry(c, "rename")
  /\ UNCHANGED <<fat, cwd>>
  /\ Goto(c, [pc |-> "commit"])

\* Mutant of EnterDirectory: the stack gets the directory that is entered.
EnterPushed(c) ==
  /\ ReadEntry(c, "chdir") /\ Found(c).attr = "dir"
  /\ cwd' = [cluster |-> Found(c).first, stack |-> Append(cwd.stack, Found(c).first),
              path |-> Append(cwd.path, Found(c).name)]
  /\ UNCHANGED fat
  /\ Goto(c, [pc |-> "walk", arg |-> Tail(op[c].arg)])

\* fat32_chdir_one, a name: the stack has no room beyond StackDepth.
EnterDirectory(c) ==
  /\ ReadEntry(c, "chdir") /\ Found(c).attr = "dir"
  /\ cwd' = [cluster |-> Found(c).first,
              stack |-> IF Len(cwd.stack) < StackDepth
                        THEN Append(cwd.stack, cwd.cluster) ELSE cwd.stack,
              path |-> Append(cwd.path, Found(c).name)]
  /\ UNCHANGED fat
  /\ Goto(c, [pc |-> "walk", arg |-> Tail(op[c].arg)])

-----------------------------------------------------------------------------
(***************************************************************************)
(* fat32_chdir, component by component: one that fails leaves the working  *)
(* directory where the earlier ones took it.                               *)
(***************************************************************************)
Walk(c) ==
  /\ At(c, "walk")
  /\ UNCHANGED <<fat, disk_fat, sector, g_io_buf>>
  /\ LET path == op[c].arg
         rest == [arg |-> Tail(path)]
     IN  \/ path = <<>> /\ UNCHANGED cwd /\ Return(c, TRUE)
         \/ /\ path # <<>> /\ Head(path) = "/"
            /\ cwd' = [cluster |-> Root, stack |-> <<>>, path |-> <<>>]
            /\ Goto(c, rest)
         \/ /\ path # <<>> /\ Head(path) = ".."
            /\ cwd' = IF cwd.stack = <<>> THEN cwd
                      ELSE [cluster |-> cwd.stack[Len(cwd.stack)],
                            stack |-> SubSeq(cwd.stack, 1, Len(cwd.stack) - 1),
                            path |-> SubSeq(cwd.path, 1, Len(cwd.path) - 1)]
            /\ Goto(c, rest)
         \/ /\ path # <<>> /\ Head(path) \in Names
            /\ UNCHANGED cwd
            /\ Goto(c, [pc |-> "find", name |-> Head(path), cur |-> cwd.cluster])

(***************************************************************************)
(* fat32_read_file: blocks until the size, the buffer or the chain ends;   *)
(* and fat32_readdir, fat32_list_dir.                                      *)
(***************************************************************************)
ReadBlock(c) ==
  /\ At(c, "read") /\ op[c].cur \in Clusters /\ op[c].size > 0
  /\ UNCHANGED <<fat, disk_fat, sector, g_io_buf, cwd>>
  /\ IF Len(op[c].got) < op[c].arg
     THEN Goto(c, [got |-> Append(op[c].got, sector[op[c].cur]),
                   size |-> op[c].size - 1, cur |-> fat[op[c].cur]])
     ELSE Goto(c, [cur |-> fat[op[c].cur]])

ReadEnd(c) ==
  /\ At(c, "read") /\ (op[c].cur \notin Clusters \/ op[c].size = 0)
  /\ UNCHANGED <<fat, disk_fat, sector, g_io_buf, cwd>>
  /\ Return(c, TRUE)

ListSector(c) ==
  /\ At(c, "list") /\ op[c].cur \in Clusters /\ IsTable(sector[op[c].cur])
  /\ LET s == sector[op[c].cur]
         ends == Hits(s, {"end"})
         hits == {i \in Hits(s, {"file", "dir"}) : \A j \in ends : i < j}
     IN  /\ g_io_buf' = s
         /\ Goto(c, [got |-> Append(op[c].got, {s[i].name : i \in hits}),
                      cur |-> IF ends = {} THEN fat[op[c].cur] ELSE EOC])
  /\ UNCHANGED <<fat, disk_fat, sector, cwd>>

ListEnd(c) ==
  /\ At(c, "list") /\ op[c].cur \notin Clusters
  /\ UNCHANGED <<fat, disk_fat, sector, g_io_buf, cwd>>
  /\ Return(c, TRUE)

-----------------------------------------------------------------------------
(***************************************************************************)
(* fat32_write_file's loop: fat32_alloc_cluster takes the lowest free      *)
(* cluster, the chain is linked in memory and the block is written.        *)
(***************************************************************************)
\* Mutant of AllocLinked: the cluster before is not linked to the new one.
AllocUnlinked(prev) ==
  LET new == LowestIn(FreeClusters(fat)) IN  [fat EXCEPT ![new] = EOC]

AllocLinked(prev) ==
  LET new == LowestIn(FreeClusters(fat))
  IN  [d \in Clusters |-> IF d = new THEN EOC ELSE IF d = prev THEN new ELSE fat[d]]

WriteBlock(c) ==
  /\ At(c, "data") /\ FreeClusters(fat) # {}
  /\ LET new   == LowestIn(FreeClusters(fat))
         step  == op[c].step + 1
         block == IF op[c].arg = <<>> THEN ZeroSector ELSE op[c].arg[step]
         more  == step < Needed(op[c].arg)
     IN  /\ fat' = AllocLinked(op[c].prev)
         /\ sector' = [sector EXCEPT ![new] = block]
         /\ Goto(c, [first |-> IF op[c].first = 0 THEN new ELSE op[c].first,
                      prev |-> new,
                      step |-> IF more THEN step ELSE 0,
                      pc |-> IF more THEN "data" ELSE "flush",
                      then |-> IF op[c].exists THEN "reread" ELSE "slot"])
  /\ UNCHANGED <<disk_fat, g_io_buf, cwd>>

\* fat32_mkdir's cluster.
NewDirectory(c) ==
  /\ At(c, "newdir") /\ FreeClusters(fat) # {}
  /\ fat' = AllocLinked(0)
  /\ Goto(c, [first |-> LowestIn(FreeClusters(fat)), pc |-> "flush", then |-> "zero"])
  /\ UNCHANGED <<disk_fat, sector, g_io_buf, cwd>>

\* fat32_find_free_slot extends the directory.
ExtendDirectory(c) ==
  /\ At(c, "extend") /\ FreeClusters(fat) # {}
  /\ fat' = AllocLinked(op[c].cur)
  /\ Goto(c, [cur |-> LowestIn(FreeClusters(fat)), idx |-> 1,
               pc |-> "flush", then |-> "zero"])
  /\ UNCHANGED <<disk_fat, sector, g_io_buf, cwd>>

\* What was allocated before stays allocated.
DiskFull(c) ==
  /\ At(c, "data") \/ At(c, "newdir") \/ At(c, "extend")
  /\ FreeClusters(fat) = {}
  /\ UNCHANGED <<fat, disk_fat, sector, g_io_buf, cwd>>
  /\ Return(c, FALSE)

(***************************************************************************)
(* fat32_flush_fat: sector by sector, each to copy 1 and then to copy 2.   *)
(***************************************************************************)
AfterFlush(c) ==
  [pc |-> op[c].then, step |-> 0,
   cur |-> IF op[c].then = "slot" THEN op[c].dir
           ELSE IF op[c].then = "zero" /\ op[c].idx = 0 THEN op[c].first
           ELSE op[c].cur]

\* Mutant of FlushSector: both writes go to the backup copy.
FlushBackup(c) ==
  /\ At(c, "flush")
  /\ disk_fat' = [disk_fat EXCEPT ![2] =
       [d \in Clusters |-> IF d \div PerSector = op[c].step \div 2 THEN fat[d] ELSE @[d]]]
  /\ IF op[c].step + 1 < 2 * FatSectors
     THEN Goto(c, [step |-> op[c].step + 1])
     ELSE Goto(c, AfterFlush(c))
  /\ UNCHANGED <<fat, sector, g_io_buf, cwd>>

FlushSector(c) ==
  /\ At(c, "flush")
  /\ LET copy == (op[c].step % 2) + 1
         s    == op[c].step \div 2
     IN  disk_fat' = [disk_fat EXCEPT ![copy] =
           [d \in Clusters |-> IF d \div PerSector = s THEN fat[d] ELSE @[d]]]
  /\ IF op[c].step + 1 < 2 * FatSectors
     THEN Goto(c, [step |-> op[c].step + 1])
     ELSE Goto(c, AfterFlush(c))
  /\ UNCHANGED <<fat, sector, g_io_buf, cwd>>

\* A new cluster of a directory is cleared; that of a new directory gets its
\* "." and ".." next, that of an extended one the entry.
ZeroCluster(c) ==
  /\ At(c, "zero")
  /\ sector' = [sector EXCEPT ![op[c].cur] = ZeroSector]
  /\ Goto(c, [pc |-> IF op[c].idx = 0 THEN "dots" ELSE "reread"])
  /\ UNCHANGED <<fat, disk_fat, g_io_buf, cwd>>

ReadNewCluster(c) ==
  /\ At(c, "dots") /\ IsTable(sector[op[c].cur])
  /\ g_io_buf' = sector[op[c].cur]
  /\ Goto(c, [pc |-> "dotted"])
  /\ UNCHANGED <<fat, disk_fat, sector, cwd>>

WriteDots(c) ==
  /\ At(c, "dotted") /\ IsTable(g_io_buf)
  /\ LET s == [g_io_buf EXCEPT ![1] = NewEntry(".", "dir", op[c].first, 0),
                               ![2] = NewEntry("..", "dir", op[c].dir, 0)]
     IN  g_io_buf' = s /\ sector' = [sector EXCEPT ![op[c].cur] = s]
  /\ Goto(c, [pc |-> "slot", cur |-> op[c].dir])
  /\ UNCHANGED <<fat, disk_fat, cwd>>

(***************************************************************************)
(* fat32_find_free_slot: the first entry that is End or Deleted.           *)
(***************************************************************************)
FindSlot(c) ==
  /\ At(c, "slot")
  /\ LET s     == sector[op[c].cur]
         empty == Hits(s, {"end", "deleted"})
     IN  /\ IsTable(s)
         /\ g_io_buf' = s
         /\ \/ /\ empty # {}
               /\ Goto(c, [pc |-> "reread", idx |-> LowestIn(empty)])
            \/ /\ empty = {} /\ fat[op[c].cur] \in Clusters
               /\ Goto(c, [cur |-> fat[op[c].cur]])
            \/ /\ empty = {} /\ fat[op[c].cur] \notin Clusters
               /\ Goto(c, [pc |-> "extend"])
  /\ UNCHANGED <<fat, disk_fat, sector, cwd>>

\* The sector of the entry is read again, after the flush has taken its time.
RereadEntry(c) ==
  /\ At(c, "reread")
  /\ g_io_buf' = sector[op[c].cur]
  /\ Goto(c, [pc |-> "commit"])
  /\ UNCHANGED <<fat, disk_fat, sector, cwd>>

\* Mutant of Changed: a deleted entry is marked with 0x00, the end of the directory.
DeleteAsEnd(c, e) ==
  CASE op[c].kind = "delete" -> End
    [] op[c].kind = "rename" -> [e EXCEPT !.name = op[c].arg]
    [] op[c].kind = "mkdir"  -> NewEntry(op[c].name, "dir", op[c].first, 0)
    [] op[c].kind = "write" /\ op[c].exists -> [e EXCEPT !.first = op[c].first, !.size = Len(op[c].arg)]
    [] OTHER -> NewEntry(op[c].name, "file", op[c].first, Len(op[c].arg))

\* Mutant of Changed: a file that is overwritten keeps its old first cluster.
KeepFirst(c, e) ==
  CASE op[c].kind = "delete" -> Deleted
    [] op[c].kind = "rename" -> [e EXCEPT !.name = op[c].arg]
    [] op[c].kind = "mkdir"  -> NewEntry(op[c].name, "dir", op[c].first, 0)
    [] op[c].kind = "write" /\ op[c].exists -> [e EXCEPT !.size = Len(op[c].arg)]
    [] OTHER -> NewEntry(op[c].name, "file", op[c].first, Len(op[c].arg))

Changed(c, e) ==
  CASE op[c].kind = "delete" -> Deleted
    [] op[c].kind = "rename" -> [e EXCEPT !.name = op[c].arg]
    [] op[c].kind = "mkdir"  -> NewEntry(op[c].name, "dir", op[c].first, 0)
    [] op[c].kind = "write" /\ op[c].exists -> [e EXCEPT !.first = op[c].first, !.size = Len(op[c].arg)]
    [] OTHER -> NewEntry(op[c].name, "file", op[c].first, Len(op[c].arg))

\* The entry is changed in g_io_buf and the sector is written back.
CommitEntry(c) ==
  /\ At(c, "commit") /\ IsTable(g_io_buf)
  /\ op[c].kind = "rename" \/ op[c].exists => Live(g_io_buf[op[c].idx])
  /\ LET s == [g_io_buf EXCEPT ![op[c].idx] = Changed(c, @)]
     IN  g_io_buf' = s /\ sector' = [sector EXCEPT ![op[c].cur] = s]
  /\ UNCHANGED <<fat, disk_fat, cwd>>
  /\ Return(c, TRUE)

-----------------------------------------------------------------------------
(***************************************************************************)
(* Failures.  A transfer that fails has not touched the sector (ata.c      *)
(* returns -1 before the data).  A search cannot tell it from a missing    *)
(* name, nor a listing from the end of the directory; fat32_delete does    *)
(* not look at what fat32_flush_fat returns.                               *)
(***************************************************************************)
\* fat32_find_free_slot takes a sector it cannot read for a full directory: it
\* goes to the end of the chain and extends it, whatever free entries there are.
Misread(c) ==
  LET ch == Chain(fat, op[c].dir) IN Goto(c, [pc |-> "extend", cur |-> ch[Len(ch)]])

ReadFails(c) ==
  /\ "readFail" \in Events
  /\ \E label \in {"find", "entry", "read", "list", "slot", "dots", "reread"} : At(c, label)
  /\ op[c].pc \in {"read", "list"} => op[c].cur \in Clusters
  /\ UNCHANGED <<fat, disk_fat, sector, g_io_buf, cwd>>
  /\ CASE op[c].pc = "find" -> NotFound(c)
       [] op[c].pc = "slot" -> Misread(c)
       [] OTHER             -> Return(c, op[c].pc = "list")

\* Between the two, a directory is linked to a cluster that holds what it held
\* last.  Without "uncleared" in Events nothing fails there.
Uncleared(c) ==
  /\ op[c].pc \in {"flush", "zero"} /\ op[c].then = "zero" /\ op[c].idx # 0
  /\ "uncleared" \notin Events

WriteFails(c) ==
  /\ "writeFail" \in Events
  /\ ~ Uncleared(c)
  /\ UNCHANGED <<disk_fat, sector, g_io_buf, cwd>>
  /\ \/ /\ \/ At(c, "zero") \/ At(c, "dotted") \/ At(c, "commit")
           \/ At(c, "flush") /\ op[c].kind # "delete"
        /\ UNCHANGED fat
        /\ Return(c, FALSE)
     \/ /\ At(c, "flush") /\ op[c].kind = "delete"
        /\ UNCHANGED fat
        /\ Goto(c, AfterFlush(c))
     \/ /\ At(c, "data") /\ FreeClusters(fat) # {}
        /\ fat' = AllocLinked(op[c].prev)
        /\ Return(c, FALSE)

\* The machine is switched off and fat32_init mounts the disk again.
Crash ==
  /\ "crash" \in Events
  /\ \A c \in Callers : ~ Uncleared(c)
  /\ fat' = disk_fat[1]
  /\ cwd' = [cluster |-> Root, stack |-> <<>>, path |-> <<>>]
  /\ op' = [c \in Callers |-> Idle(FALSE)]
  /\ g_io_buf' = ZeroSector
  /\ UNCHANGED <<disk_fat, sector>>
  /\ tree' = TreeOf(fat', sector')

Next ==
  \/ \E c \in Callers :
       \/ CallWrite(c) \/ CallMkdir(c) \/ CallDelete(c) \/ CallRename(c)
       \/ CallRead(c) \/ CallReaddir(c) \/ CallChdir(c)
       \/ FindEntry(c) \/ WrongKind(c) \/ FreeOld(c) \/ FreeDeleted(c)
       \/ OpenFile(c) \/ RenameFound(c) \/ EnterDirectory(c) \/ Walk(c)
       \/ ReadBlock(c) \/ ReadEnd(c) \/ ListSector(c) \/ ListEnd(c)
       \/ WriteBlock(c) \/ NewDirectory(c) \/ ExtendDirectory(c) \/ DiskFull(c)
       \/ FlushSector(c) \/ ZeroCluster(c) \/ ReadNewCluster(c) \/ WriteDots(c)
       \/ FindSlot(c) \/ RereadEntry(c) \/ CommitEntry(c)
       \/ ReadFails(c) \/ WriteFails(c)
  \/ Crash

Spec == Init /\ [][Next]_vars

-----------------------------------------------------------------------------
(***************************************************************************)
(* Properties.                                                             *)
(***************************************************************************)
Quiet == \A c \in Callers : op[c].pc = "idle"

TypeOK ==
  /\ fat \in [Clusters -> {Free} \cup Clusters \cup {EOC}]
  /\ \A copy \in 1 .. 2 : disk_fat[copy] \in [Clusters -> {Free} \cup Clusters \cup {EOC}]
  /\ cwd.cluster \in DOMAIN tree

\* Every call is the whole operation of the volume or nothing, also when it
\* fails half way, the disk is full, or the machine is switched off between
\* two of its transfers (fat32_write_file, fat32_mkdir: the FAT is flushed
\* before the entry is written).
TheVolume == INSTANCE Volume WITH Dirs <- Clusters
ImplementsVolume == TheVolume!Spec

\* What a call asks for.
Effect(o) ==
  CASE o.kind = "write"  -> TheVolume!With(o.dir, o.name, TheVolume!File(o.arg))
    [] o.kind = "mkdir"  ->
         TheVolume!Opened(TheVolume!With(o.dir, o.name, TheVolume!Directory(o.first)), o.first)
    [] o.kind = "delete" ->
         LET node == tree[o.dir][o.name]
             gone == IF node.kind = "dir" THEN {node.id} ELSE {}
         IN  [d \in DOMAIN tree \ gone |-> TheVolume!Without(tree, o.dir, o.name)[d]]
    [] o.kind = "rename" ->
         TheVolume!Without(TheVolume!With(o.dir, o.arg, tree[o.dir][o.name]),
                           o.dir, o.name)
    [] OTHER -> tree

\* A directory whose chain goes on behind a sector that ends it: what is written
\* there no search finds (Misread).
Holed ==
  \E d \in DirsOf(fat, sector) :
    LET ch == Chain(fat, d)
    IN  \E k \in 1 .. Len(ch) - 1 : IsTable(sector[ch[k]]) /\ Hits(sector[ch[k]], {"end"}) # {}

Succeeded(c) == op[c].pc # "idle" /\ op'[c] = Idle(TRUE)
AsAsked == \/ \E c \in Callers : Succeeded(c) /\ tree' = Effect(op[c])
           \/ (\A c \in Callers : ~ Succeeded(c)) /\ tree' = tree

\* A call that returns takes a name away, or changes what it stands for.
Affects(d, n) ==
  \E c \in Callers : /\ Succeeded(c) /\ op[c].dir = d /\ op[c].name = n
                     /\ op[c].kind \in {"delete", "rename"} \/ op[c].exists
OthersStay ==
  \A d \in DOMAIN tree : \A n \in DOMAIN tree[d] :
    \/ Affects(d, n)
    \/ d \in DOMAIN tree' /\ n \in DOMAIN tree'[d] /\ tree'[d][n] = tree[d][n]

\* The volume changes exactly when a call returns 0, and then as the call asked:
\* one that returns -1, and a restart of the machine, leave it as it was, so
\* nothing that was reported written is ever lost ("Must be called after any
\* FAT modification to make it durable").  Only where a misread sector has left
\* a hole a call may return 0 for an entry that nobody finds, and later ones
\* bring it to light; but every name that was there stays, and what it stands for.
ReturnsTruth == [][AsAsked \/ (Holed /\ OthersStay)]_vars

\* A read returns what the last write of the file wrote, up to the buffer's
\* size, and a listing every name once, however the chains are scattered.
Flat(parts) == [k \in DOMAIN parts |-> parts[k] \ Dots]
AnswersTruth ==
  [][\A c \in Callers : Succeeded(c) =>
       /\ op[c].kind = "read" =>
            LET data == tree[op[c].dir][op[c].name].data
            IN  op[c].got = SubSeq(data, 1, IF Len(data) < op[c].arg THEN Len(data)
                                            ELSE op[c].arg)
       /\ op[c].kind = "readdir" =>
            /\ UNION {Flat(op[c].got)[k] : k \in DOMAIN op[c].got}
                 = DOMAIN tree[op[c].dir]
            /\ \A j, k \in DOMAIN op[c].got :
                 j # k => Flat(op[c].got)[j] \cap Flat(op[c].got)[k] = {}]_vars

\* Who has a chain, and where it starts: every entry, and the root.
EntriesOf(d) == LET v == Visible(fat, sector, d)
                IN  {<<d, j, v[j].first>> : j \in {k \in DOMAIN v : v[k].name \notin Dots}}
Owners == {<<Root, 0, Root>>} \cup UNION {EntriesOf(d) : d \in DirsOf(fat, sector)}

\* Between calls no cluster belongs to two entries, every chain ends in an end
\* mark and not in a free cluster, and the chain of a directory holds only
\* directory sectors; the FAT and its copies hold clusters and marks only.
ChainsSound == TypeOK /\
  (Quiet =>
    /\ \A o, p \in Owners :
         o # p => InChain(fat, o[3]) \cap InChain(fat, p[3]) = {}
    /\ \A o \in Owners : LET ch == Chain(fat, o[3])
                          IN  ch # <<>> /\ Len(ch) <= Last /\ fat[ch[Len(ch)]] = EOC
    /\ \A d \in DirsOf(fat, sector) : \A k \in InChain(fat, d) : IsTable(sector[k]))

\* Nothing leaks while there is room: a cluster that is not free belongs to an
\* entry; and the disk holds the FAT, twice.
NothingLost ==
  Quiet => /\ Clusters \ FreeClusters(fat) = UNION {InChain(fat, o[3]) : o \in Owners}
           /\ disk_fat[1] = fat /\ disk_fat[2] = fat

\* The path that `pwd' shows and the stack that ".." pops lead where the
\* working directory is.
CwdNamed ==
  Quiet =>
    LET at[k \in 0 .. Len(cwd.path)] ==
          IF k = 0 THEN Root ELSE tree[at[k - 1]][cwd.path[k]].id
    IN  /\ at[Len(cwd.path)] = cwd.cluster
        /\ cwd.stack = [k \in 1 .. Len(cwd.path) |-> at[k - 1]]

\* "Single-sector scratch buffer ... IronKernel is single-threaded, so this is
\* safe" (fat32.c:37-40): what is written back to a directory sector is what it
\* held, but for the one entry of the call.
BufferSafe ==
  [][\A c \in Callers :
       op[c].pc = "commit" /\ op'[c] = Idle(TRUE) =>
         \A i \in 1 .. Slots \ {op[c].idx} :
           sector'[op[c].cur][i] = sector[op[c].cur][i]]_vars
=============================================================================
