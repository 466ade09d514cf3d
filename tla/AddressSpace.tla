---------------------------- MODULE AddressSpace ----------------------------
(***************************************************************************)
(* Physical frames (pmm.c) and per-process page tables (vmm.c): how        *)
(* elf_exec, SYS_EXEC and SYS_FORK build an address space page by page,    *)
(* what happens when frames run out half way, and how an address space is  *)
(* given back.  Each of these runs with the scheduler locked or interrupts *)
(* off, so one operation is in progress at a time; its loop over pages is  *)
(* a sequence of actions.                                                  *)
(*                                                                         *)
(* A page has the number of the frame at its identity address; P pages    *)
(* make a region, which one PD entry covers.  The 512-entry PML4 and PDPT  *)
(* have one entry in use, so a space is three frames and its PD entries.   *)
(***************************************************************************)
EXTENDS Integers, FiniteSets

CONSTANTS
  P,             \* pages of a region: 512
  R,             \* regions covered by the PD: 512
  KernelTop,     \* frames 0 .. KernelTop - 1 hold BIOS areas and the kernel
  RamTop,        \* frames KernelTop .. RamTop - 1 are free RAM at boot
  HeapRegion,    \* region that starts with the kernel heap (HEAP_START)
  HeapPages,     \* pages of the heap
  Images,        \* page sets a program's PT_LOAD segments may cover
  StackPages,    \* pages of the user stack
  Procs,         \* tasks that may own an address space
  NULL

Regions == 0 .. R - 1
Frames  == 0 .. R * P - 1
RAM     == KernelTop .. RamTop - 1
Region(pg) == pg \div P
Leaf(pg)   == pg % P

ASSUME SizeAssumption == /\ P \in Nat \ {0} /\ R \in Nat \ {0} /\ RamTop \in Nat
                         /\ KernelTop \in 1 .. RamTop /\ RamTop <= R * P
ASSUME HeapAssumption == /\ HeapRegion \in 1 .. R - 1
                         /\ HeapPages \in 1 .. P - 1
                         /\ HeapPages + 2 <= RamTop - KernelTop
ASSUME PagesAssumption == Images \subseteq SUBSET Frames /\ StackPages \subseteq Frames
ASSUME NullAssumption == NULL \notin Frames

VARIABLES
  free,         \* frames whose bit in pmm_bitmap is clear
  free_count,   \* pmm_free_frame_count
  tables,       \* the page tables: a function on the frames that hold one
  spaces,       \* the address spaces, by the frame of their PML4
  cr3,          \* tasks[p].cr3, NULL when p has no address space of its own
  op            \* the operation in progress

spaceVars == <<free, free_count, tables, spaces, cr3, op>>

Lowest(S) == CHOOSE x \in S : \A y \in S : x <= y
With(f, x, v) == [y \in DOMAIN f \cup {x} |-> IF y = x THEN v ELSE f[y]]
Idle == [kind |-> "idle"]

-----------------------------------------------------------------------------
(***************************************************************************)
(* The kernel's own table after heap_init.  The heap takes the lowest      *)
(* frames of RAM; mapping its first page splits the huge page of its       *)
(* region, and the guard page below it splits the region before.  A page   *)
(* vmm_map_page splits keeps the USER flag boot.asm gave the huge page.    *)
(* A guard page is mapped with flags 0, which vmm_map_page makes present:  *)
(* it leads to frame 0.                                                    *)
(***************************************************************************)
HeapTable   == KernelTop + 1
GuardTable  == KernelTop + HeapPages + 1
BootFrames  == KernelTop .. GuardTable
HeapFrame(l) == IF l = 0 THEN KernelTop ELSE KernelTop + l + 1

KernelEntry(r) == IF r = HeapRegion THEN HeapTable
                  ELSE IF r = HeapRegion - 1 THEN GuardTable ELSE NULL

\* The 4 KB entries that replace the huge page of region r.
SplitLeaves(r, u) == [l \in 0 .. P - 1 |-> [frame |-> r * P + l, user |-> u]]

HeapLeaves ==
  [l \in 0 .. P - 1 |->
    IF l < HeapPages THEN [frame |-> HeapFrame(l), user |-> FALSE]
    ELSE IF l = HeapPages THEN [frame |-> 0, user |-> FALSE]
    ELSE SplitLeaves(HeapRegion, TRUE)[l]]
GuardLeaves ==
  [SplitLeaves(HeapRegion - 1, TRUE) EXCEPT ![P - 1] =
    [frame |-> 0, user |-> FALSE]]

SpacesInit ==
  /\ free = RAM \ BootFrames
  /\ free_count = Cardinality(RAM \ BootFrames)
  /\ tables = [t \in {HeapTable, GuardTable} |->
                 IF t = HeapTable THEN HeapLeaves ELSE GuardLeaves]
  /\ spaces = [c \in {} |-> NULL]
  /\ cr3 = [p \in Procs |-> NULL]
  /\ op = Idle

\* Where the kernel's table and the table c take page pg.
KernelTranslate(pg) ==
  IF KernelEntry(Region(pg)) = NULL THEN pg
  ELSE tables[KernelEntry(Region(pg))][Leaf(pg)].frame
Translate(c, pg) ==
  LET e == spaces[c].entry[Region(pg)]
  IN  IF e.table = NULL THEN pg ELSE tables[e.table][Leaf(pg)].frame

-----------------------------------------------------------------------------
(***************************************************************************)
(* What vmm_free_user_pt finds in a space: the entries that are USER, the  *)
(* tables behind them and the frames of their USER pages.                  *)
(***************************************************************************)

OwnEntries(c) == {r \in Regions : /\ spaces[c].entry[r].table # NULL
                                  /\ spaces[c].entry[r].user}

UserPages(c) == {pg \in Frames : /\ Region(pg) \in OwnEntries(c)
                                 /\ tables[spaces[c].entry[Region(pg)].table]
                                          [Leaf(pg)].user}

\* Mutant of Uses: the page tables are forgotten.
UsesNoTables(c) ==
  {<<c, "pml4", 0, c>>, <<c, "pdpt", 0, spaces[c].pdpt>>,
   <<c, "pd", 0, spaces[c].pd>>}
  \cup {<<c, "page", pg, Translate(c, pg)>> : pg \in UserPages(c)}

\* One element per pmm_free_frame call: the use a space makes of a frame.
Uses(c) ==
  {<<c, "pml4", 0, c>>, <<c, "pdpt", 0, spaces[c].pdpt>>,
   <<c, "pd", 0, spaces[c].pd>>}
  \cup {<<c, "pt", r, spaces[c].entry[r].table>> : r \in OwnEntries(c)}
  \cup {<<c, "page", pg, Translate(c, pg)>> : pg \in UserPages(c)}

Used(c) == {u[4] : u \in Uses(c)}

\* vmm_free_user_pt(c), when the frames in left are the free ones.
FreeSpace(c, left) ==
  /\ free' = left \cup Used(c)
  /\ free_count' = free_count - Cardinality(free \ left) + Cardinality(Uses(c))
  /\ spaces' = [d \in DOMAIN spaces \ {c} |-> spaces[d]]
  /\ tables' = [t \in DOMAIN tables \ {spaces[c].entry[r].table :
                                         r \in OwnEntries(c)} |-> tables[t]]

(***************************************************************************)
(* pmm_alloc_frame: the lowest free frame, if the count and the bitmap     *)
(* have one.                                                               *)
(***************************************************************************)
CanAlloc(n) == free_count >= n /\ Cardinality(free) >= n
Frame1 == Lowest(free)
Frame2 == Lowest(free \ {Frame1})
Frame3 == Lowest(free \ {Frame1, Frame2})

\* The kernel clears and fills a new frame at its identity address.  What the
\* machine does after a write that lands elsewhere is not modelled.
Reached(S) == \A f \in S : KernelTranslate(f) = f

Take(S) == /\ Reached(S)
           /\ free' = free \ S
           /\ free_count' = free_count - Cardinality(S)

-----------------------------------------------------------------------------
\* Mutant of NewEntries: the USER flag of an inherited table is not stripped.
InheritUser ==
  [r \in Regions |-> [table |-> KernelEntry(r), user |-> KernelEntry(r) # NULL]]

\* The PD of a new space: the kernel's entries, supervisor-only.
NewEntries == [r \in Regions |-> [table |-> KernelEntry(r), user |-> FALSE]]

\* vmm_create_user_pt, and the pages the operation will map after it.
Build(kind, p, src, pages) ==
  /\ op = Idle /\ CanAlloc(3)
  /\ Take({Frame1, Frame2, Frame3})
  /\ spaces' = With(spaces, Frame1, [pdpt |-> Frame2, pd |-> Frame3,
                                     entry |-> NewEntries])
  /\ op' = [kind |-> kind, proc |-> p, src |-> src, new |-> Frame1,
            todo |-> pages]
  /\ UNCHANGED <<tables, cr3>>

LoadProgram(p) ==
  /\ cr3[p] = NULL
  /\ \E image \in Images : Build("load", p, NULL, image \cup StackPages)

ExecProgram(p) ==
  /\ cr3[p] # NULL
  /\ \E image \in Images : Build("exec", p, cr3[p], image \cup StackPages)

\* Mutant of ClonePages: only pages of the first region are copied.
CloneFirst(c) ==
  {pg \in Frames : /\ spaces[c].entry[Region(pg)].table # NULL
                   /\ Region(pg) < 2
                   /\ tables[spaces[c].entry[Region(pg)].table][Leaf(pg)].user}

\* Pages vmm_clone_user_pt copies: it looks at the page's USER flag only, not
\* at that of the PD entry above it.
ClonePages(c) ==
  {pg \in Frames : /\ spaces[c].entry[Region(pg)].table # NULL
                   /\ tables[spaces[c].entry[Region(pg)].table][Leaf(pg)].user}

ForkProcess(p, q) ==
  /\ cr3[p] # NULL /\ cr3[q] = NULL
  /\ Build("fork", q, cr3[p], ClonePages(cr3[p]))

\* vmm_create_user_pt gives back what it took and returns 0.
OutOfFrames == /\ op = Idle /\ ~CanAlloc(3)
               /\ UNCHANGED spaceVars

(***************************************************************************)
(* One iteration of the loops that allocate a frame, fill it and call      *)
(* vmm_map_page_in, which may have to split a huge page first.             *)
(***************************************************************************)
NextPage == Lowest(op.todo)
Entry     == spaces[op.new].entry[Region(NextPage)]
NewLeaf   == [frame |-> Frame1, user |-> TRUE]

MapPage ==
  /\ op # Idle /\ op.todo # {}
  /\ \/ /\ Entry.table # NULL /\ CanAlloc(1)
        /\ Take({Frame1})
        /\ tables' = [tables EXCEPT ![Entry.table][Leaf(NextPage)] = NewLeaf]
        /\ UNCHANGED spaces
     \/ /\ Entry.table = NULL /\ CanAlloc(2)
        /\ Take({Frame1, Frame2})
        /\ tables' = With(tables, Frame2, [SplitLeaves(Region(NextPage), FALSE)
                                             EXCEPT ![Leaf(NextPage)] = NewLeaf])
        /\ spaces' = [spaces EXCEPT ![op.new].entry[Region(NextPage)] =
                        [table |-> Frame2, user |-> TRUE]]
  /\ op' = [op EXCEPT !.todo = @ \ {NextPage}]
  /\ UNCHANGED cr3

\* No frame for the page: the half-built space is given back.
NoFrame ==
  /\ op # Idle /\ op.todo # {} /\ ~CanAlloc(1)
  /\ FreeSpace(op.new, free)
  /\ op' = Idle
  /\ UNCHANGED cr3

\* A frame for the page but none for its table: vmm_clone_user_pt gives the
\* page's frame back; elf_exec and SYS_EXEC do not.
NoTable ==
  /\ op # Idle /\ op.todo # {} /\ CanAlloc(1)
  /\ Entry.table = NULL /\ ~CanAlloc(2)
  /\ FreeSpace(op.new, IF op.kind = "fork" THEN free ELSE free \ {Frame1})
  /\ op' = Idle
  /\ UNCHANGED cr3

(***************************************************************************)
(* The space is complete.  SYS_EXEC gives the old one back first; sched_fork *)
(* gives the new one back if it has no memory for the child's stacks.      *)
(***************************************************************************)
Built == op # Idle /\ op.todo = {}

StartProgram ==
  /\ Built /\ op.kind \in {"load", "fork"}
  /\ cr3' = [cr3 EXCEPT ![op.proc] = op.new]
  /\ op' = Idle
  /\ UNCHANGED <<free, free_count, tables, spaces>>

ReplaceProgram ==
  /\ Built /\ op.kind = "exec"
  /\ FreeSpace(op.src, free)
  /\ cr3' = [cr3 EXCEPT ![op.proc] = op.new]
  /\ op' = Idle

NoStack ==
  /\ Built /\ op.kind = "fork"
  /\ FreeSpace(op.new, free)
  /\ op' = Idle
  /\ UNCHANGED cr3

\* The program has ended: elf_exec, or waitpid for a fork child.
EndProgram(p) ==
  /\ op = Idle /\ cr3[p] # NULL
  /\ FreeSpace(cr3[p], free)
  /\ cr3' = [cr3 EXCEPT ![p] = NULL]
  /\ UNCHANGED op

SpacesNext ==
  \/ \E p \in Procs : LoadProgram(p) \/ ExecProgram(p) \/ EndProgram(p)
  \/ \E p, q \in Procs : ForkProcess(p, q)
  \/ OutOfFrames \/ MapPage \/ NoFrame \/ NoTable
  \/ StartProgram \/ ReplaceProgram \/ NoStack

SpacesSpec == SpacesInit /\ [][SpacesNext]_spaceVars

-----------------------------------------------------------------------------
(***************************************************************************)
(* Properties.                                                             *)
(***************************************************************************)
Live     == DOMAIN spaces
Mappings == UNION {Uses(c) : c \in Live}
Owned    == {u[4] : u \in Mappings}

\* The allocator's frames stay RAM frames that are not the kernel's, though
\* pmm_free_frame trusts its callers, and no space outlives its task.
SpacesTypeOK ==
  /\ free \subseteq RAM \ BootFrames
  /\ free_count \in 0 .. RamTop
  /\ Owned \subseteq RAM \ BootFrames
  /\ Live = ({cr3[p] : p \in Procs} \ {NULL})
            \cup (IF op = Idle THEN {} ELSE {op.new})

\* Isolation: no frame is used twice, by one process or by two, and none that
\* is in use is free or the kernel's, however an operation failed half way.
\* vmm_free_user_pt relies on it to free each frame once.
OwnedOnce ==
  /\ \A u, v \in Mappings : u[4] = v[4] => u = v
  /\ Owned \cap free = {}

\* pmm_free_frame_count agrees with the bitmap: pmm_free_frame does not look
\* whether the frame is free, so one double free would break it for good.
FreeCountExact == free_count = Cardinality(free)

\* Splitting a huge page for a program loses no kernel mapping ("Populate all
\* 512 entries ... so that existing kernel mappings are not lost"): outside the
\* program's own pages its table translates as the kernel's does, also after a
\* fork has rewritten the tables they share.
SpacesExtendKernel ==
  \A c \in Live : \A pg \in Frames \ UserPages(c) :
    Translate(c, pg) = KernelTranslate(pg)

\* Memory after any order of loading, exec, fork, failure and exit (pmm.c, vmm.c):
\* one owner for each frame, an allocator that knows the free ones, and spaces
\* that are the kernel's but for their own pages.
MemorySound == SpacesTypeOK /\ OwnedOnce /\ FreeCountExact /\ SpacesExtendKernel

\* A fork child has exactly its parent's pages, its parent not having changed
\* since the fork began (vmm_clone_user_pt).
ForkCopiesAll ==
  [][op # Idle /\ op.kind = "fork" /\ cr3' # cr3
       => UserPages(op.new) = UserPages(op.src)]_spaceVars

\* RAM that is neither free nor in use: no one will ever free it.
Lost == RAM \ (BootFrames \cup free \cup Owned)

\* A frame is lost only where a fork copies a page of a table it shares with
\* the kernel, or a program's page has a frame and gets no table; one each time.
\* No failure path of create, map, clone, exec or exit loses another.
LossBounded ==
  [][\/ Lost' = Lost
     \/ /\ Lost \subseteq Lost' /\ Cardinality(Lost') = Cardinality(Lost) + 1
        /\ \/ op.kind = "fork" /\ op'.kind = "fork"
              /\ KernelEntry(Region(NextPage)) # NULL
           \/ op.kind # "fork" /\ op' = Idle /\ cr3' = cr3]_spaceVars

\* "Free all frames and page table structures belonging to a process": when no
\* process has an address space every frame is free again (vmm_free_user_pt).
Reclaimed == op = Idle /\ Live = {} => free = RAM \ BootFrames
=============================================================================
