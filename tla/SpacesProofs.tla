--------------------------- MODULE SpacesProofs ---------------------------
(***************************************************************************)
(* Proofs about AddressSpace: whatever order programs are loaded, replaced, *)
(* forked and ended in, and wherever an operation runs out of frames, no   *)
(* frame has two owners, the allocator's count is that of its bitmap, and  *)
(* every address space is the kernel's but for its own pages.              *)
(***************************************************************************)
EXTENDS AddressSpace, FiniteSetTheorems, FunctionTheorems, WellFoundedInduction, TLAPS

LeafRec  == [frame : Frames, user : BOOLEAN]
EntryRec == [table : Frames \cup {NULL}, user : BOOLEAN]
SpaceRec == [pdpt : Frames, pd : Frames, entry : [Regions -> EntryRec]]
OpRec    == [kind : {"load", "exec", "fork"}, proc : Procs, src : Frames \cup {NULL},
             new : Frames, todo : SUBSET Frames]

(***************************************************************************)
(* The types, and what the tables of a space are: in each region it has    *)
(* either the kernel's entry, supervisor-only, or, where the kernel has a  *)
(* huge page, a table of its own whose other pages are the identity.       *)
(***************************************************************************)
Shapes ==
  /\ DOMAIN tables \subseteq Frames /\ tables \in [DOMAIN tables -> [0 .. P - 1 -> LeafRec]]
  /\ Live \subseteq Frames /\ spaces \in [Live -> SpaceRec]
TaskShapes ==
  /\ cr3 \in [Procs -> Frames \cup {NULL}]
  /\ op = Idle \/ op \in OpRec

KernelTables == {HeapTable, GuardTable}

Table(c, r) == spaces[c].entry[r].table

Inherits(c, r) == Table(c, r) = KernelEntry(r) /\ spaces[c].entry[r].user = FALSE
HasOwn(c, r) ==
  /\ KernelEntry(r) = NULL /\ spaces[c].entry[r].user = TRUE
  /\ Table(c, r) \in DOMAIN tables \ KernelTables
  /\ \A l \in 0 .. P - 1 :
       ~tables[Table(c, r)][l].user => tables[Table(c, r)][l].frame = r * P + l

EntryInv == \A c \in Live, r \in Regions : Inherits(c, r) \/ HasOwn(c, r)

\* Every table but the kernel's belongs to a space.
TableInv ==
  \A t \in DOMAIN tables \ KernelTables :
    \E c \in Live : \E r \in OwnEntries(c) : t = Table(c, r)

OneSpaceEach == \A p, q \in Procs : cr3[p] = cr3[q] /\ cr3[p] # NULL => p = q

\* The operation in progress builds a space no task has yet, and maps no page
\* twice; a fork has still to map exactly the parent's pages the child lacks.
OpInv ==
  op # Idle =>
    /\ op.new \in Live /\ \A p \in Procs : cr3[p] # op.new
    /\ op.kind = "exec" => op.src = cr3[op.proc] /\ op.src # NULL
    /\ op.kind # "exec" => cr3[op.proc] = NULL
    /\ op.todo \cap UserPages(op.new) = {}
    /\ op.kind = "fork" =>
         /\ op.src \in Live \ {op.new}
         /\ UserPages(op.src) = UserPages(op.new)
              \cup {pg \in op.todo : KernelEntry(Region(pg)) = NULL}

FramesInv == free \subseteq RAM \ BootFrames /\ Owned \subseteq RAM \ BootFrames

LiveInv == Live = ({cr3[p] : p \in Procs} \ {NULL})
                  \cup (IF op = Idle THEN {} ELSE {op.new})

IndInv ==
  /\ Shapes /\ EntryInv /\ TableInv /\ FramesInv /\ OwnedOnce /\ FreeCountExact
  /\ TaskShapes /\ OneSpaceEach /\ OpInv /\ LiveInv

-----------------------------------------------------------------------------
(***************************************************************************)
(* Pages, regions and frames.                                              *)
(***************************************************************************)

LEMMA PageParts ==
  ASSUME NEW pg \in Frames
  PROVE  /\ Region(pg) \in Regions /\ Leaf(pg) \in 0 .. P - 1
         /\ pg = Region(pg) * P + Leaf(pg)
<1>1. pg \in Nat /\ P \in Nat \ {0} /\ R \in Nat \ {0} /\ pg < R * P
  BY SizeAssumption DEF Frames
<1>2. Region(pg) \in Int /\ Leaf(pg) \in 0 .. P - 1 /\ pg = Region(pg) * P + Leaf(pg)
  BY <1>1 DEF Region, Leaf
<1>3. Region(pg) >= 0
  BY <1>1, <1>2
<1>4. Region(pg) < R
  <2>1. Region(pg) * P < R * P
    BY <1>1, <1>2
  <2>. QED
    BY <1>1, <1>2, <2>1
<1>. QED
  BY <1>1, <1>2, <1>3, <1>4 DEF Regions

LEMMA PageOf ==
  ASSUME NEW r \in Regions, NEW l \in 0 .. P - 1
  PROVE  /\ r * P + l \in Frames
         /\ Region(r * P + l) = r /\ Leaf(r * P + l) = l
<1>1. r \in Nat /\ P \in Nat \ {0} /\ R \in Nat \ {0} /\ r <= R - 1 /\ l \in Nat /\ l < P
  BY SizeAssumption DEF Regions
<1>2. r * P <= (R - 1) * P /\ (R - 1) * P = R * P - P /\ r * P \in Nat
  BY <1>1
<1>3. r * P + l \in Frames
  BY <1>1, <1>2 DEF Frames
<1>4. Region(r * P + l) = r /\ Leaf(r * P + l) = l
  BY <1>1, <1>2 DEF Region, Leaf
<1>. QED
  BY <1>3, <1>4

LEMMA LowestIn ==
  ASSUME NEW S \in SUBSET Nat, S # {}
  PROVE  Lowest(S) \in S
<1>. DEFINE LT == {ss \in Nat \X Nat : ss[1] < ss[2]}
<1>1. IsWellFoundedOn(LT, Nat)
  BY NatLessThanWellFounded DEF OpToRel
<1>2. \E m \in S : \A n \in S : ~(<<n, m>> \in LT)
  <2>. HIDE DEF LT
  <2>. QED
    BY <1>1, WFMin
<1>3. \A m, n \in Nat : <<n, m>> \notin LT => m <= n
  OBVIOUS
<1>. HIDE DEF LT
<1>4. \E m \in S : \A n \in S : m <= n
  BY <1>2, <1>3
<1>. QED
  BY <1>4 DEF Lowest

LEMMA Sizes ==
  /\ RAM \in SUBSET Frames /\ RAM \in SUBSET Nat /\ IsFiniteSet(RAM) /\ IsFiniteSet(Frames)
  /\ HeapTable \in Frames /\ GuardTable \in Frames /\ HeapTable # GuardTable
  /\ KernelTables \subseteq BootFrames /\ NULL \notin Frames
  /\ \A r \in Regions : KernelEntry(r) \in KernelTables \cup {NULL}
<1>1. /\ KernelTop \in Nat \ {0} /\ RamTop \in Nat /\ RamTop <= R * P /\ R * P \in Nat
      /\ HeapPages \in Nat \ {0} /\ KernelTop + HeapPages + 2 <= RamTop
  <2>1. P \in Nat /\ R \in Nat /\ R * P \in Nat /\ KernelTop \in 1 .. RamTop /\ RamTop <= R * P
    BY SizeAssumption
  <2>2. RamTop \in Int /\ KernelTop \in Int
    BY SizeAssumption
  <2>3. HeapPages \in Nat \ {0} /\ HeapPages + 2 <= RamTop - KernelTop
    BY HeapAssumption
  <2>. QED
    BY <2>1, <2>2, <2>3
<1>2. RAM \in SUBSET Frames /\ RAM \in SUBSET Nat
  BY <1>1 DEF RAM, Frames
<1>3. IsFiniteSet(RAM) /\ IsFiniteSet(Frames)
  <2>1. KernelTop \in Int /\ RamTop - 1 \in Int /\ 0 \in Int /\ R * P - 1 \in Int
    BY <1>1
  <2>. QED
    BY <2>1, FS_Interval DEF RAM, Frames
<1>4. /\ HeapTable \in Frames /\ GuardTable \in Frames /\ HeapTable # GuardTable
      /\ HeapTable \in BootFrames /\ GuardTable \in BootFrames
  BY <1>1 DEF HeapTable, GuardTable, BootFrames, Frames
<1>5. \A r \in Regions : KernelEntry(r) \in KernelTables \cup {NULL}
  BY DEF KernelEntry, KernelTables
<1>. QED
  BY <1>2, <1>3, <1>4, <1>5, NullAssumption DEF KernelTables

LEMMA FreeFinite ==
  ASSUME FramesInv
  PROVE  /\ IsFiniteSet(free) /\ Cardinality(free) \in Nat /\ free \in SUBSET Nat
         /\ free \subseteq Frames
  BY Sizes, FS_Subset, FS_CardinalityType DEF FramesInv

\* pmm_alloc_frame returns a free frame, and another one each time.
LEMMA Allocated ==
  ASSUME FramesInv
  PROVE  /\ CanAlloc(1) => Frame1 \in free
         /\ CanAlloc(2) => Frame1 \in free /\ Frame2 \in free \ {Frame1}
         /\ CanAlloc(3) => /\ Frame1 \in free /\ Frame2 \in free \ {Frame1}
                           /\ Frame3 \in free \ {Frame1, Frame2}
<1>1. IsFiniteSet(free) /\ Cardinality(free) \in Nat /\ free \in SUBSET Nat
  BY FreeFinite
<1>2. Cardinality(free) >= 1 => Frame1 \in free
  BY <1>1, FS_EmptySet, LowestIn DEF Frame1
<1>3. Cardinality(free) >= 2 => Frame2 \in free \ {Frame1}
  <2>1. SUFFICES ASSUME Cardinality(free) >= 2 PROVE Frame2 \in free \ {Frame1}
    OBVIOUS
  <2>2. Frame1 \in free
    BY <1>1, <1>2, <2>1
  <2>3. Cardinality(free \ {Frame1}) = Cardinality(free) - 1
    BY <1>1, <2>2, FS_RemoveElement
  <2>4. free \ {Frame1} # {}
    BY <1>1, <2>1, <2>3, FS_EmptySet
  <2>5. free \ {Frame1} \in SUBSET Nat
    BY <1>1
  <2>. QED
    BY <2>4, <2>5, LowestIn DEF Frame2
<1>4. Cardinality(free) >= 3 => Frame3 \in free \ {Frame1, Frame2}
  <2>1. SUFFICES ASSUME Cardinality(free) >= 3 PROVE Frame3 \in free \ {Frame1, Frame2}
    OBVIOUS
  <2>2. Frame1 \in free /\ Frame2 \in free \ {Frame1}
    BY <1>1, <1>2, <1>3, <2>1
  <2>3. IsFiniteSet(free \ {Frame1}) /\ Cardinality(free \ {Frame1}) = Cardinality(free) - 1
    BY <1>1, <2>2, FS_RemoveElement
  <2>4. Cardinality((free \ {Frame1}) \ {Frame2}) = Cardinality(free) - 2
    <3>1. Cardinality((free \ {Frame1}) \ {Frame2}) = Cardinality(free \ {Frame1}) - 1
      BY <2>2, <2>3, FS_RemoveElement
    <3>. QED
      BY <1>1, <2>3, <3>1
  <2>5. (free \ {Frame1}) \ {Frame2} = free \ {Frame1, Frame2}
    OBVIOUS
  <2>6. free \ {Frame1, Frame2} # {}
    BY <1>1, <2>1, <2>4, <2>5, FS_EmptySet
  <2>7. free \ {Frame1, Frame2} \in SUBSET Nat
    BY <1>1
  <2>. QED
    BY <2>6, <2>7, LowestIn DEF Frame3
<1>. QED
  BY <1>1, <1>2, <1>3, <1>4 DEF CanAlloc

-----------------------------------------------------------------------------
(***************************************************************************)
(* Uses.                                                                   *)
(***************************************************************************)

\* The frames of a space are in use by it, each for what it is.
LEMMA UsesMean ==
  ASSUME NEW c
  PROVE  /\ <<c, "pml4", 0, c>> \in Uses(c)
         /\ <<c, "pdpt", 0, spaces[c].pdpt>> \in Uses(c)
         /\ <<c, "pd", 0, spaces[c].pd>> \in Uses(c)
         /\ \A r \in OwnEntries(c) : <<c, "pt", r, Table(c, r)>> \in Uses(c)
         /\ \A pg \in UserPages(c) : <<c, "page", pg, Translate(c, pg)>> \in Uses(c)
         /\ \A u \in Uses(c) : u[1] = c
  BY DEF Uses, Table

LEMMA OwnEntry ==
  ASSUME Shapes, EntryInv, NEW c \in Live, NEW r \in Regions
  PROVE  /\ r \in OwnEntries(c) <=> HasOwn(c, r)
         /\ r \notin OwnEntries(c) <=> Inherits(c, r)
         /\ r \in OwnEntries(c) => Table(c, r) \in DOMAIN tables \ KernelTables
         /\ Table(c, r) = NULL => r \notin OwnEntries(c)
<1>1. Inherits(c, r) \/ HasOwn(c, r)
  BY DEF EntryInv
<1>2. NULL \notin DOMAIN tables
  BY Sizes DEF Shapes
<1>. QED
  BY <1>1, <1>2 DEF Inherits, HasOwn, OwnEntries, Table

LEMMA InOwned ==
  ASSUME Shapes, NEW c \in Live
  PROVE  /\ c \in Owned /\ spaces[c].pdpt \in Owned /\ spaces[c].pd \in Owned
         /\ \A r \in OwnEntries(c) : Table(c, r) \in Owned
         /\ \A pg \in UserPages(c) : Translate(c, pg) \in Owned
<1>1. ASSUME NEW u \in Uses(c) PROVE u \in Mappings /\ u[4] \in Owned
  BY DEF Mappings, Owned
<1>2. c \in Owned /\ spaces[c].pdpt \in Owned /\ spaces[c].pd \in Owned
  <2>. DEFINE u1 == <<c, "pml4", 0, c>>  u2 == <<c, "pdpt", 0, spaces[c].pdpt>>
              u3 == <<c, "pd", 0, spaces[c].pd>>
  <2>1. u1 \in Uses(c) /\ u2 \in Uses(c) /\ u3 \in Uses(c)
    BY UsesMean
  <2>2. u1[4] \in Owned /\ u2[4] \in Owned /\ u3[4] \in Owned
    BY <2>1, <1>1
  <2>. QED
    BY <2>2
<1>3. ASSUME NEW r \in OwnEntries(c) PROVE Table(c, r) \in Owned
  <2>. DEFINE u == <<c, "pt", r, Table(c, r)>>
  <2>1. u \in Uses(c)
    BY UsesMean
  <2>2. u[4] \in Owned
    BY <2>1, <1>1
  <2>. QED
    BY <2>2
<1>4. ASSUME NEW pg \in UserPages(c) PROVE Translate(c, pg) \in Owned
  <2>. DEFINE u == <<c, "page", pg, Translate(c, pg)>>
  <2>1. u \in Uses(c)
    BY UsesMean
  <2>2. u[4] \in Owned
    BY <2>1, <1>1
  <2>. QED
    BY <2>2
<1>. QED
  BY <1>2, <1>3, <1>4

\* A frame the allocator hands out is new to everything.
LEMMA FreshFrame ==
  ASSUME IndInv, NEW f \in free
  PROVE  f \in Frames /\ f \notin Owned /\ f \notin Live /\ f \notin DOMAIN tables
         /\ f \notin KernelTables
<1>1. f \in Frames /\ f \notin Owned /\ f \notin BootFrames
  BY FreeFinite DEF IndInv, OwnedOnce, FramesInv
<1>2. f \notin Live
  BY <1>1, InOwned DEF IndInv
<1>3. f \notin KernelTables
  BY <1>1, Sizes
<1>4. f \notin DOMAIN tables
  BY <1>1, <1>3, InOwned DEF IndInv, TableInv
<1>. QED
  BY <1>1, <1>2, <1>3, <1>4

\* No two regions share a table.
LEMMA TablesApart ==
  ASSUME IndInv, NEW c \in Live, NEW d \in Live,
         NEW r \in OwnEntries(c), NEW s \in OwnEntries(d), Table(c, r) = Table(d, s)
  PROVE  c = d /\ r = s
<1>. DEFINE u == <<c, "pt", r, Table(c, r)>>
            v == <<d, "pt", s, Table(d, s)>>
<1>1. u \in Uses(c) /\ v \in Uses(d)
  BY UsesMean
<1>2. u \in Mappings /\ v \in Mappings /\ u[4] = v[4]
  BY <1>1 DEF Mappings
<1>3. u = v
  BY <1>2 DEF IndInv, OwnedOnce
<1>. QED
  BY <1>3

\* A space whose record and whose own tables a step leaves alone makes the same
\* use of the same frames.
LEMMA SameSpace ==
  ASSUME NEW c, spaces'[c] = spaces[c],
         \A r \in OwnEntries(c) : tables'[Table(c, r)] = tables[Table(c, r)]
  PROVE  /\ OwnEntries(c)' = OwnEntries(c) /\ UserPages(c)' = UserPages(c)
         /\ Uses(c)' = Uses(c) /\ Used(c)' = Used(c)
         /\ \A r : Table(c, r)' = Table(c, r)
<1>1. OwnEntries(c)' = OwnEntries(c)
  BY DEF OwnEntries
<1>2. UserPages(c)' = UserPages(c)
  BY <1>1 DEF UserPages, Table
<1>3. ASSUME NEW pg \in UserPages(c)
      PROVE  Translate(c, pg)' = Translate(c, pg)
  <2>1. Region(pg) \in OwnEntries(c)
    BY DEF UserPages
  <2>. QED
    BY <2>1 DEF Translate, Table, OwnEntries
<1>4. {<<c, "page", pg, Translate(c, pg)>> : pg \in UserPages(c)}' =
        {<<c, "page", pg, Translate(c, pg)>> : pg \in UserPages(c)}
  BY <1>2, <1>3
<1>5. {<<c, "pt", r, spaces[c].entry[r].table>> : r \in OwnEntries(c)}' =
        {<<c, "pt", r, spaces[c].entry[r].table>> : r \in OwnEntries(c)}
  BY <1>1
<1>6. Uses(c)' = Uses(c)
  BY <1>4, <1>5 DEF Uses
<1>. QED
  BY <1>1, <1>2, <1>6 DEF Used, Table

\* A space whose tables are the kernel's and its own is so still after a step
\* that leaves them alone.
LEMMA SameEntries ==
  ASSUME Shapes, EntryInv, NEW c \in Live, spaces'[c] = spaces[c],
         \A r \in OwnEntries(c) : /\ Table(c, r) \in DOMAIN tables'
                                  /\ tables'[Table(c, r)] = tables[Table(c, r)],
         NEW r \in Regions
  PROVE  (Inherits(c, r) \/ HasOwn(c, r))'
<1>1. CASE r \in OwnEntries(c)
  <2>1. HasOwn(c, r)
    BY <1>1, OwnEntry
  <2>2. Table(c, r)' = Table(c, r)
    BY DEF Table
  <2>3. HasOwn(c, r)'
    BY <1>1, <2>1, <2>2 DEF HasOwn
  <2>. QED
    BY <2>3
<1>2. CASE r \notin OwnEntries(c)
  <2>1. Inherits(c, r)
    BY <1>2, OwnEntry
  <2>. QED
    BY <2>1 DEF Inherits, Table
<1>. QED
  BY <1>1, <1>2

-----------------------------------------------------------------------------
(***************************************************************************)
(* The frames, when a step takes some of them or gives a space back.       *)
(***************************************************************************)

\* Frames taken from the allocator and put to new uses, each to one at most.
LEMMA Grows ==
  ASSUME IndInv, NEW N, NEW S, S \subseteq free, Mappings' = Mappings \cup N,
         \A u \in N : u[4] \in S, \A u, v \in N : u[4] = v[4] => u = v,
         free' = free \ S, free_count' = free_count - Cardinality(S)
  PROVE  /\ FramesInv' /\ OwnedOnce' /\ FreeCountExact'
         /\ Owned' = Owned \cup {u[4] : u \in N}
<1>1. /\ free \subseteq RAM \ BootFrames /\ Owned \subseteq RAM \ BootFrames
      /\ Owned \cap free = {} /\ free_count = Cardinality(free)
      /\ \A u, v \in Mappings : u[4] = v[4] => u = v
  BY DEF IndInv, FramesInv, OwnedOnce, FreeCountExact
<1>2. \A u \in Mappings : u[4] \in Owned
  BY DEF Owned
<1>3. \A x \in Owned' : x \in Owned \/ x \in S
  BY DEF Owned
<1>4. FramesInv'
  BY <1>1, <1>3 DEF FramesInv
<1>5. OwnedOnce'
  <2>1. ASSUME NEW u \in Mappings', NEW v \in Mappings', u[4] = v[4] PROVE u = v
    BY <2>1, <1>1, <1>2
  <2>2. (Owned \cap free)' = {}
    BY <1>1, <1>3
  <2>. QED
    BY <2>1, <2>2 DEF OwnedOnce
<1>6. FreeCountExact'
  <2>1. IsFiniteSet(free) /\ free \cap S = S /\ IsFiniteSet(S)
    BY FreeFinite, FS_Subset DEF IndInv
  <2>2. Cardinality(free \ S) = Cardinality(free) - Cardinality(S)
    BY <2>1, FS_Difference
  <2>. QED
    BY <1>1, <2>2 DEF FreeCountExact
<1>7. Owned' = Owned \cup {u[4] : u \in N}
  BY DEF Owned
<1>. QED
  BY <1>4, <1>5, <1>6, <1>7

\* Each use of a frame is given back as one frame, because no frame has two uses.
LEMMA UsesUsed ==
  ASSUME IndInv, NEW c \in Live
  PROVE  /\ IsFiniteSet(Used(c)) /\ Cardinality(Uses(c)) = Cardinality(Used(c))
         /\ Used(c) \subseteq Owned /\ Used(c) \cap free = {}
         /\ \A u \in Mappings : u[4] \in Used(c) <=> u \in Uses(c)
<1>1. Used(c) \subseteq Owned
  BY DEF Used, Owned, Mappings
<1>2. /\ Owned \subseteq RAM /\ Owned \cap free = {}
      /\ \A u, v \in Mappings : u[4] = v[4] => u = v
  BY DEF IndInv, FramesInv, OwnedOnce
<1>3. IsFiniteSet(Used(c))
  BY <1>1, <1>2, Sizes, FS_Subset
<1>4. Uses(c) \subseteq Mappings
  BY DEF Mappings
<1>5. ASSUME NEW u \in Mappings
      PROVE  u[4] \in Used(c) <=> u \in Uses(c)
  BY <1>2, <1>4 DEF Used
<1>6. Cardinality(Uses(c)) = Cardinality(Used(c))
  <2>. DEFINE frameOf == [u \in Uses(c) |-> u[4]]
  <2>1. frameOf \in Bijection(Uses(c), Used(c))
    <3>1. frameOf \in [Uses(c) -> Used(c)]
      BY DEF Used
    <3>2. \A u, v \in Uses(c) : frameOf[u] = frameOf[v] => u = v
      BY <1>2, <1>4
    <3>3. \A x \in Used(c) : \E u \in Uses(c) : frameOf[u] = x
      BY DEF Used
    <3>. HIDE DEF frameOf
    <3>4. IsInjective(frameOf)
      BY <3>1, <3>2 DEF IsInjective
    <3>. QED
      BY <3>1, <3>3, <3>4 DEF Bijection, Injection, Surjection
  <2>2. ExistsBijection(Uses(c), Used(c))
    BY <2>1, Fun_ExistsBij
  <2>3. ExistsBijection(Used(c), Uses(c))
    BY <2>2, Fun_ExistsBijSymmetric
  <2>. QED
    BY <1>3, <2>3, FS_Bijection
<1>. QED
  BY <1>1, <1>2, <1>3, <1>5, <1>6

\* vmm_free_user_pt gives back what the space used, and leaves the others alone.
LEMMA Shrinks ==
  ASSUME IndInv, NEW c \in Live, NEW left, left \subseteq free, FreeSpace(c, left)
  PROVE  /\ Shapes' /\ EntryInv' /\ TableInv' /\ FramesInv' /\ OwnedOnce' /\ FreeCountExact'
         /\ Live' = Live \ {c} /\ \A d \in Live \ {c} : UserPages(d)' = UserPages(d)
         /\ free' \cup Owned' = left \cup Owned
<1>. DEFINE gone == {Table(c, r) : r \in OwnEntries(c)}
<1>1. /\ free' = left \cup Used(c)
      /\ free_count' = free_count - Cardinality(free \ left) + Cardinality(Uses(c))
      /\ spaces' = [d \in Live \ {c} |-> spaces[d]]
      /\ tables' = [t \in DOMAIN tables \ gone |-> tables[t]]
  BY DEF FreeSpace, Live, Table
<1>2. Live' = Live \ {c} /\ \A d \in Live \ {c} : spaces'[d] = spaces[d]
  BY <1>1 DEF Live
<1>3. /\ DOMAIN tables' = DOMAIN tables \ gone
      /\ \A t \in DOMAIN tables \ gone : tables'[t] = tables[t]
  BY <1>1
<1>4. ASSUME NEW d \in Live \ {c}, NEW r \in OwnEntries(d)
      PROVE  Table(d, r) \in DOMAIN tables' /\ tables'[Table(d, r)] = tables[Table(d, r)]
  <2>1. r \in Regions
    BY DEF OwnEntries
  <2>2. Table(d, r) \in DOMAIN tables
    BY <2>1, OwnEntry DEF IndInv
  <2>3. Table(d, r) \notin gone
    BY TablesApart
  <2>. QED
    BY <1>3, <2>2, <2>3
<1>. HIDE DEF gone
<1>5. ASSUME NEW d \in Live \ {c}
      PROVE  /\ OwnEntries(d)' = OwnEntries(d) /\ UserPages(d)' = UserPages(d)
             /\ Uses(d)' = Uses(d) /\ \A r : Table(d, r)' = Table(d, r)
  BY <1>2, <1>4, SameSpace
<1>6. Shapes'
  BY <1>1, <1>2, <1>3 DEF IndInv, Shapes
<1>7. EntryInv'
  <2>1. ASSUME NEW d \in Live \ {c}, NEW r \in Regions
        PROVE  (Inherits(d, r) \/ HasOwn(d, r))'
    BY <1>2, <1>4, SameEntries DEF IndInv
  <2>. QED
    BY <1>2, <2>1 DEF EntryInv
<1>8. TableInv'
  <2>1. SUFFICES ASSUME NEW t \in DOMAIN tables' \ KernelTables
                 PROVE  \E d \in Live' : \E r \in OwnEntries(d)' : t = Table(d, r)'
    BY DEF TableInv
  <2>2. t \in DOMAIN tables \ KernelTables /\ t \notin gone
    BY <1>3
  <2>3. PICK d \in Live : \E r \in OwnEntries(d) : t = Table(d, r)
    BY <2>2 DEF IndInv, TableInv
  <2>4. d # c
    BY <2>2, <2>3 DEF gone
  <2>. QED
    BY <1>2, <1>5, <2>3, <2>4
<1>9. Mappings' = Mappings \ Uses(c)
  <2>1. \A d \in Live \ {c} : Uses(d)' = Uses(d) /\ Uses(d) \cap Uses(c) = {}
    BY <1>5, UsesMean
  <2>. QED
    BY <1>2, <2>1 DEF Mappings
<1>10. Owned' = Owned \ Used(c)
  BY <1>9, UsesUsed DEF Owned
<1>11. FramesInv'
  BY <1>1, <1>10, UsesUsed DEF IndInv, FramesInv
<1>12. OwnedOnce'
  <2>1. Owned' \cap free' = {}
    BY <1>1, <1>10 DEF IndInv, OwnedOnce
  <2>2. \A u, v \in Mappings' : u[4] = v[4] => u = v
    BY <1>9 DEF IndInv, OwnedOnce
  <2>. QED
    BY <2>1, <2>2 DEF OwnedOnce
<1>13. FreeCountExact'
  <2>1. /\ IsFiniteSet(free) /\ IsFiniteSet(left) /\ left \cap Used(c) = {}
        /\ IsFiniteSet(Used(c)) /\ Cardinality(Uses(c)) = Cardinality(Used(c))
    BY FreeFinite, FS_Subset, UsesUsed DEF IndInv
  <2>2. Cardinality(left \cup Used(c)) = Cardinality(left) + Cardinality(Used(c))
    <3>. DEFINE back == Used(c)
    <3>1. IsFiniteSet(left) /\ IsFiniteSet(back) /\ left \cap back = {}
      BY <2>1
    <3>. HIDE DEF back
    <3>2. Cardinality(left \cup back)
            = Cardinality(left) + Cardinality(back) - Cardinality(left \cap back)
      BY <3>1, FS_Union
    <3>3. /\ Cardinality(left) \in Nat /\ Cardinality(back) \in Nat
          /\ Cardinality(left \cap back) = 0
      <4>1. Cardinality({}) = 0
        BY FS_EmptySet
      <4>2. Cardinality(left \cap back) = 0
        BY ONLY <3>1, <4>1
      <4>. QED
        BY <3>1, <4>2, FS_CardinalityType
    <3>4. Cardinality(left \cup back) = Cardinality(left) + Cardinality(back)
      BY <3>2, <3>3
    <3>. QED
      BY <3>4 DEF back
  <2>3. Cardinality(free \ left) = Cardinality(free) - Cardinality(left)
    <3>1. free \cap left = left
      OBVIOUS
    <3>2. Cardinality(free \ left) = Cardinality(free) - Cardinality(free \cap left)
      BY <2>1, FS_Difference
    <3>. QED
      BY <3>1, <3>2
  <2>4. Cardinality(free) \in Nat /\ Cardinality(left) \in Nat /\ Cardinality(Used(c)) \in Nat
    BY <2>1, FS_CardinalityType
  <2>5. free_count = Cardinality(free)
    BY DEF IndInv, FreeCountExact
  <2>. QED
    BY <1>1, <2>1, <2>2, <2>3, <2>4, <2>5 DEF FreeCountExact
<1>14. free' \cup Owned' = left \cup Owned
  BY <1>1, <1>10, UsesUsed
<1>. QED
  BY <1>2, <1>5, <1>6, <1>7, <1>8, <1>11, <1>12, <1>13, <1>14

\* vmm_create_user_pt: the new space has three frames and no page of its own.
LEMMA BuildEffect ==
  ASSUME IndInv, NEW kind, NEW p, NEW src, NEW pages, Build(kind, p, src, pages),
         NEW new, new = Frame1
  PROVE  /\ Shapes' /\ EntryInv' /\ TableInv' /\ FramesInv' /\ OwnedOnce' /\ FreeCountExact'
         /\ new \in Frames \ Live /\ Live' = Live \cup {new}
         /\ UserPages(new)' = {} /\ \A c \in Live : UserPages(c)' = UserPages(c)
         /\ free' \cup Owned' = free \cup Owned
<1>. DEFINE f2 == Frame2  f3 == Frame3
            space == [pdpt |-> f2, pd |-> f3, entry |-> NewEntries]
            N == {<<new, "pml4", 0, new>>, <<new, "pdpt", 0, f2>>, <<new, "pd", 0, f3>>}
<1>1. /\ new \in free /\ f2 \in free \ {new} /\ f3 \in free \ {new, f2}
      /\ new \in Frames \ Live /\ f2 \in Frames /\ f3 \in Frames
  <2>1. CanAlloc(3)
    BY DEF Build
  <2>. QED
    BY <2>1, Allocated, FreshFrame DEF IndInv
<1>2. /\ free' = free \ {new, f2, f3} /\ free_count' = free_count - Cardinality({new, f2, f3})
      /\ spaces' = With(spaces, new, space) /\ tables' = tables
  BY DEF Build, Take
<1>. HIDE DEF f2, f3
<1>3. Live' = Live \cup {new} /\ spaces'[new] = space /\ \A c \in Live : spaces'[c] = spaces[c]
  BY <1>1, <1>2 DEF With, Live
<1>4. ASSUME NEW c \in Live
      PROVE  /\ OwnEntries(c)' = OwnEntries(c) /\ UserPages(c)' = UserPages(c)
             /\ Uses(c)' = Uses(c) /\ \A r : Table(c, r)' = Table(c, r)
  BY <1>2, <1>3, SameSpace
<1>5. \A r \in Regions : /\ spaces'[new].entry[r].table = KernelEntry(r)
                         /\ spaces'[new].entry[r].user = FALSE
  <2>1. spaces'[new].entry = NewEntries
    BY <1>3
  <2>2. \A r \in Regions : NewEntries[r] = [table |-> KernelEntry(r), user |-> FALSE]
    BY DEF NewEntries
  <2>3. ASSUME NEW r \in Regions
        PROVE  spaces'[new].entry[r].table = KernelEntry(r) /\ spaces'[new].entry[r].user = FALSE
    <3>. DEFINE e == spaces'[new].entry[r]
    <3>1. e = [table |-> KernelEntry(r), user |-> FALSE]
      BY <2>1, <2>2, Zenon
    <3>. HIDE DEF e
    <3>2. e.table = KernelEntry(r) /\ e.user = FALSE
      BY <3>1
    <3>. QED
      BY <3>2 DEF e
  <2>. QED
    BY <2>3
<1>6. space \in SpaceRec
  <2>1. NewEntries \in [Regions -> EntryRec]
    BY Sizes DEF NewEntries, EntryRec, KernelTables
  <2>. QED
    BY <1>1, <2>1 DEF SpaceRec
<1>7. OwnEntries(new)' = {} /\ UserPages(new)' = {}
  <2>1. OwnEntries(new)' = {}
    BY <1>5 DEF OwnEntries
  <2>. QED
    BY <2>1 DEF UserPages
<1>8. Uses(new)' = N
  BY <1>3, <1>7 DEF Uses
<1>9. Shapes'
  <2>1. Live' \subseteq Frames
    BY <1>1, <1>3 DEF IndInv, Shapes
  <2>2. spaces' \in [Live' -> SpaceRec]
    BY <1>2, <1>3, <1>6 DEF IndInv, Shapes, With, Live
  <2>. QED
    BY <1>2, <2>1, <2>2 DEF IndInv, Shapes
<1>10. EntryInv'
  <2>1. ASSUME NEW c \in Live, NEW r \in Regions PROVE (Inherits(c, r) \/ HasOwn(c, r))'
    <3>1. \A s \in OwnEntries(c) : /\ Table(c, s) \in DOMAIN tables'
                                   /\ tables'[Table(c, s)] = tables[Table(c, s)]
      BY <1>2, OwnEntry DEF IndInv, OwnEntries
    <3>. QED
      BY <1>3, <3>1, SameEntries DEF IndInv
  <2>2. ASSUME NEW r \in Regions PROVE Inherits(new, r)'
    BY <1>5 DEF Inherits, Table
  <2>. QED
    BY <1>3, <2>1, <2>2 DEF EntryInv
<1>11. TableInv'
  BY <1>2, <1>3, <1>4 DEF IndInv, TableInv
<1>12. Mappings' = Mappings \cup N
  BY <1>1, <1>3, <1>4, <1>8 DEF Mappings
<1>13. /\ {u[4] : u \in N} = {new, f2, f3}
       /\ \A u, v \in N : u[4] = v[4] => u = v
  BY <1>1
<1>. HIDE DEF N
<1>14. /\ FramesInv' /\ OwnedOnce' /\ FreeCountExact'
       /\ free' \cup Owned' = free \cup Owned
  <2>. DEFINE S == {new, f2, f3}
  <2>1. /\ S \subseteq free /\ free' = free \ S /\ free_count' = free_count - Cardinality(S)
        /\ {u[4] : u \in N} = S /\ \A u \in N : u[4] \in S
    BY <1>1, <1>2, <1>13
  <2>. HIDE DEF S
  <2>2. FramesInv' /\ OwnedOnce' /\ FreeCountExact' /\ Owned' = Owned \cup {u[4] : u \in N}
    BY <1>12, <1>13, <2>1, Grows
  <2>. QED
    BY <2>1, <2>2
<1>. QED
  BY <1>1, <1>3, <1>4, <1>7, <1>9, <1>10, <1>11, <1>14

-----------------------------------------------------------------------------
(***************************************************************************)
(* vmm_map_page_in, in each of its three cases.                            *)
(***************************************************************************)

\* What mapping page pg in the space new does: the page becomes the space's own
\* unless the kernel has a table there, which the page then goes into.
MapEffect(new, pg) ==
  /\ Shapes' /\ EntryInv' /\ TableInv' /\ FramesInv' /\ OwnedOnce' /\ FreeCountExact'
  /\ Live' = Live /\ \A c \in Live \ {new} : UserPages(c)' = UserPages(c)
  /\ UserPages(new)' = UserPages(new) \cup {x \in {pg} : KernelEntry(Region(x)) = NULL}
  /\ free' \cup Owned' = (free \cup Owned)
                           \ {x \in {Frame1} : KernelEntry(Region(pg)) # NULL}

LEMMA NextIn ==
  ASSUME TaskShapes, op # Idle, op.todo # {}
  PROVE  NextPage \in op.todo /\ NextPage \in Frames
<1>1. op.todo \in SUBSET Nat /\ op.todo \in SUBSET Frames
  BY DEF TaskShapes, OpRec, Frames
<1>. QED
  BY <1>1, LowestIn DEF NextPage

\* The uses of a space that gets more tables and pages.
LEMMA UsesGrow ==
  ASSUME NEW c, spaces'[c].pdpt = spaces[c].pdpt, spaces'[c].pd = spaces[c].pd,
         NEW R1, OwnEntries(c)' = OwnEntries(c) \cup R1,
         \A r \in OwnEntries(c) : Table(c, r)' = Table(c, r),
         NEW P1, UserPages(c)' = UserPages(c) \cup P1,
         \A pg \in UserPages(c) : Translate(c, pg)' = Translate(c, pg)
  PROVE  Uses(c)' = Uses(c) \cup {<<c, "pt", r, Table(c, r)'>> : r \in R1}
                            \cup {<<c, "page", pg, Translate(c, pg)'>> : pg \in P1}
<1>. DEFINE pts   == {<<c, "pt", r, Table(c, r)>> : r \in OwnEntries(c)}
            pages == {<<c, "page", pg, Translate(c, pg)>> : pg \in UserPages(c)}
            three == {<<c, "pml4", 0, c>>, <<c, "pdpt", 0, spaces[c].pdpt>>,
                      <<c, "pd", 0, spaces[c].pd>>}
<1>1. Uses(c) = three \cup pts \cup pages
  BY DEF Uses, Table
<1>2. Uses(c)' = three' \cup pts' \cup pages'
  BY DEF Uses, Table
<1>3. three' = three
  OBVIOUS
<1>4. pts' = pts \cup {<<c, "pt", r, Table(c, r)'>> : r \in R1}
  OBVIOUS
<1>5. pages' = pages \cup {<<c, "page", pg, Translate(c, pg)'>> : pg \in P1}
  OBVIOUS
<1>. HIDE DEF pts, pages, three
<1>. QED
  BY <1>1, <1>2, <1>3, <1>4, <1>5

\* A leaf is written, and nothing else.
Written(t, l, leaf) == tables' = [tables EXCEPT ![t][l] = leaf]

LEMMA WriteLeaf ==
  ASSUME tables \in [DOMAIN tables -> [0 .. P - 1 -> LeafRec]],
         NEW t, NEW l \in 0 .. P - 1, NEW leaf \in LeafRec, Written(t, l, leaf)
  PROVE  /\ DOMAIN tables' = DOMAIN tables
         /\ \A u \in DOMAIN tables \ {t} : tables'[u] = tables[u]
         /\ tables' \in [DOMAIN tables' -> [0 .. P - 1 -> LeafRec]]
         /\ t \in DOMAIN tables =>
              /\ tables'[t][l] = leaf
              /\ \A k \in 0 .. P - 1 : k # l => tables'[t][k] = tables[t][k]
<1>. DEFINE row == [tables[t] EXCEPT ![l] = leaf]
<1>1. tables' = [tables EXCEPT ![t] = row]
  BY DEF Written
<1>2. ASSUME t \in DOMAIN tables
      PROVE  /\ row \in [0 .. P - 1 -> LeafRec] /\ row[l] = leaf
             /\ \A k \in 0 .. P - 1 : k # l => row[k] = tables[t][k]
  <2>1. tables[t] \in [0 .. P - 1 -> LeafRec]
    BY <1>2
  <2>. QED
    BY <2>1
<1>. HIDE DEF row
<1>3. DOMAIN tables' = DOMAIN tables /\ \A u \in DOMAIN tables \ {t} : tables'[u] = tables[u]
  BY <1>1
<1>4. t \in DOMAIN tables => tables'[t] = row
  BY <1>1
<1>5. \A u \in DOMAIN tables : tables'[u] \in [0 .. P - 1 -> LeafRec]
  BY <1>2, <1>3, <1>4
<1>6. tables' \in [DOMAIN tables' -> [0 .. P - 1 -> LeafRec]]
  <2>1. tables' = [u \in DOMAIN tables |-> tables'[u]]
    BY <1>1
  <2>. QED
    BY <2>1, <1>3, <1>5
<1>. QED
  BY <1>2, <1>3, <1>4, <1>6

\* Into a table the kernel has: no space's own pages change, and the frame is lost.
LEMMA MapShared ==
  ASSUME IndInv, op # Idle, op.todo # {}, CanAlloc(1), Take({Frame1}),
         NEW new, new = op.new, NEW pg, pg = NextPage, Table(new, Region(pg)) # NULL,
         KernelEntry(Region(pg)) # NULL, UNCHANGED spaces,
         tables' = [tables EXCEPT ![Table(new, Region(pg))][Leaf(pg)] = NewLeaf]
  PROVE  MapEffect(new, pg)
<1>. DEFINE t == Table(new, Region(pg))
<1>1. Frame1 \in free /\ Frame1 \in Frames
  BY Allocated, FreeFinite DEF IndInv
<1>2. new \in Live /\ pg \in Frames /\ Region(pg) \in Regions /\ Leaf(pg) \in 0 .. P - 1
  BY NextIn, PageParts DEF IndInv, OpInv
<1>3. t \in KernelTables
  <2>1. Inherits(new, Region(pg))
    BY <1>2 DEF IndInv, EntryInv, HasOwn
  <2>. QED
    BY <1>2, <2>1, Sizes DEF Inherits
<1>4. NewLeaf \in LeafRec
  BY <1>1 DEF NewLeaf, LeafRec
<1>. HIDE DEF t
<1>5. /\ DOMAIN tables' = DOMAIN tables /\ \A u \in DOMAIN tables \ {t} : tables'[u] = tables[u]
      /\ tables' \in [DOMAIN tables' -> [0 .. P - 1 -> LeafRec]]
  <2>1. Written(t, Leaf(pg), NewLeaf)
    BY DEF t, Written
  <2>. QED
    BY <1>2, <1>4, <2>1, WriteLeaf DEF IndInv, Shapes
<1>6. ASSUME NEW c \in Live, NEW r \in OwnEntries(c)
      PROVE  Table(c, r) \in DOMAIN tables' /\ tables'[Table(c, r)] = tables[Table(c, r)]
  <2>1. r \in Regions
    BY DEF OwnEntries
  <2>. QED
    BY <1>3, <1>5, <2>1, OwnEntry DEF IndInv
<1>7. spaces' = spaces /\ Live' = Live
  BY DEF Live
<1>8. ASSUME NEW c \in Live
      PROVE  /\ OwnEntries(c)' = OwnEntries(c) /\ UserPages(c)' = UserPages(c)
             /\ Uses(c)' = Uses(c) /\ \A r : Table(c, r)' = Table(c, r)
  BY <1>6, <1>7, SameSpace
<1>9. Shapes'
  BY <1>5, <1>7 DEF IndInv, Shapes
<1>10. EntryInv'
  <2>1. ASSUME NEW c \in Live, NEW r \in Regions PROVE (Inherits(c, r) \/ HasOwn(c, r))'
    BY <1>6, <1>7, SameEntries DEF IndInv
  <2>. QED
    BY <1>7, <2>1 DEF EntryInv
<1>11. TableInv'
  BY <1>5, <1>7, <1>8 DEF IndInv, TableInv
<1>12. Mappings' = Mappings \cup {}
  BY <1>7, <1>8 DEF Mappings
<1>13. /\ FramesInv' /\ OwnedOnce' /\ FreeCountExact'
       /\ free' \cup Owned' = (free \cup Owned)
                                \ {x \in {Frame1} : KernelEntry(Region(pg)) # NULL}
  <2>. DEFINE N == {}  S == {Frame1}
  <2>1. /\ S \subseteq free /\ Mappings' = Mappings \cup N
        /\ (\A u \in N : u[4] \in S) /\ (\A u, v \in N : u[4] = v[4] => u = v)
        /\ free' = free \ S /\ free_count' = free_count - Cardinality(S)
    BY <1>1, <1>12 DEF Take
  <2>. HIDE DEF N, S
  <2>2. FramesInv' /\ OwnedOnce' /\ FreeCountExact' /\ Owned' = Owned \cup {u[4] : u \in N}
    BY <2>1, Grows
  <2>3. Owned' = Owned /\ Frame1 \notin Owned
    BY <1>1, <2>2, FreshFrame DEF N
  <2>. QED
    BY <2>1, <2>2, <2>3 DEF S
<1>14. UserPages(new)' = UserPages(new) \cup {x \in {pg} : KernelEntry(Region(x)) = NULL}
  BY <1>2, <1>8
<1>. QED
  BY <1>7, <1>8, <1>9, <1>10, <1>11, <1>13, <1>14 DEF MapEffect

\* Into a table the space has: the page was not mapped, so its leaf was the
\* identity, and the frame becomes the space's.
LEMMA MapOwn ==
  ASSUME IndInv, op # Idle, op.todo # {}, CanAlloc(1), Take({Frame1}),
         NEW new, new = op.new, NEW pg, pg = NextPage, Table(new, Region(pg)) # NULL,
         KernelEntry(Region(pg)) = NULL, UNCHANGED spaces, NEW f1, f1 = Frame1,
         tables' = [tables EXCEPT ![Table(new, Region(pg))][Leaf(pg)] = NewLeaf]
  PROVE  MapEffect(new, pg)
<1>. DEFINE r == Region(pg)  l == Leaf(pg)  t == Table(new, r)
            leaf == [frame |-> f1, user |-> TRUE]
<1>1. f1 \in free /\ f1 \in Frames /\ leaf \in LeafRec /\ NewLeaf = leaf
  BY Allocated, FreeFinite DEF IndInv, LeafRec, NewLeaf
<1>2. /\ new \in Live /\ pg \in Frames /\ r \in Regions /\ l \in 0 .. P - 1
      /\ pg \in op.todo /\ pg \notin UserPages(new)
  BY NextIn, PageParts DEF IndInv, OpInv
<1>3. HasOwn(new, r)
  <2>. HIDE DEF r
  <2>1. t # NULL /\ KernelEntry(r) = NULL
    BY DEF r
  <2>. QED
    BY <1>2, <2>1 DEF IndInv, EntryInv, Inherits
<1>4. r \in OwnEntries(new) /\ t \in DOMAIN tables \ KernelTables
  <2>. HIDE DEF r
  <2>. QED
    BY <1>2, <1>3, OwnEntry DEF IndInv
<1>5. \A x \in Frames : Region(x) = r /\ Leaf(x) = l => x = pg
  BY <1>2, PageParts
<1>. HIDE DEF r, l, t, leaf
<1>6. /\ DOMAIN tables' = DOMAIN tables /\ \A u \in DOMAIN tables \ {t} : tables'[u] = tables[u]
      /\ tables' \in [DOMAIN tables' -> [0 .. P - 1 -> LeafRec]]
      /\ tables'[t][l] = leaf /\ \A k \in 0 .. P - 1 : k # l => tables'[t][k] = tables[t][k]
  <2>1. Written(t, l, leaf)
    BY <1>1 DEF r, t, l, Written
  <2>. QED
    BY <1>1, <1>2, <1>4, <2>1, WriteLeaf DEF IndInv, Shapes
<1>7. spaces' = spaces /\ Live' = Live
  BY DEF Live
<1>8. \A c \in Live : /\ OwnEntries(c)' = OwnEntries(c)
                      /\ \A s : Table(c, s)' = Table(c, s)
  BY <1>7 DEF OwnEntries, Table
<1>9. ASSUME NEW c \in Live, NEW s \in OwnEntries(c)
      PROVE  /\ Table(c, s) \in DOMAIN tables
             /\ Table(c, s) = t => c = new /\ s = r
  <2>1. s \in Regions
    BY DEF OwnEntries
  <2>2. Table(c, s) \in DOMAIN tables
    BY <2>1, OwnEntry DEF IndInv
  <2>. QED
    BY <2>2, <1>2, <1>4, TablesApart DEF t
<1>10. ASSUME NEW c \in Live \ {new}
       PROVE  /\ UserPages(c)' = UserPages(c) /\ Uses(c)' = Uses(c)
  <2>1. \A s \in OwnEntries(c) : tables'[Table(c, s)] = tables[Table(c, s)]
    BY <1>6, <1>9
  <2>. QED
    BY <1>7, <2>1, SameSpace
<1>11. UserPages(new)' = UserPages(new) \cup {pg}
  <2>1. ASSUME NEW x \in Frames, Region(x) \in OwnEntries(new), x # pg
        PROVE  tables'[Table(new, Region(x))][Leaf(x)] = tables[Table(new, Region(x))][Leaf(x)]
    <3>1. CASE Region(x) = r
      BY <3>1, <2>1, <1>5, <1>6, PageParts DEF t
    <3>2. CASE Region(x) # r
      BY <3>2, <2>1, <1>2, <1>6, <1>9
    <3>. QED
      BY <3>1, <3>2
  <2>2. tables'[Table(new, Region(pg))][Leaf(pg)].user
    BY <1>6 DEF t, l, r, leaf
  <2>3. \A x \in Frames : x \in UserPages(new)' <=>
          Region(x) \in OwnEntries(new) /\ tables'[Table(new, Region(x))][Leaf(x)].user
    BY <1>2, <1>7, <1>8 DEF UserPages, Table
  <2>4. \A x \in Frames : x \in UserPages(new) <=>
          Region(x) \in OwnEntries(new) /\ tables[Table(new, Region(x))][Leaf(x)].user
    BY DEF UserPages, Table
  <2>5. pg \in UserPages(new)'
    BY <1>2, <1>4, <2>2, <2>3 DEF r
  <2>6. \A x \in Frames \ {pg} : x \in UserPages(new)' <=> x \in UserPages(new)
    BY <2>1, <2>3, <2>4
  <2>7. UserPages(new)' \subseteq Frames /\ UserPages(new) \subseteq Frames
    BY DEF UserPages
  <2>. QED
    BY <2>5, <2>6, <2>7
<1>12. Translate(new, pg)' = f1
  <2>1. Table(new, r)' = t /\ t # NULL
    BY <1>2, <1>3, <1>4, <1>8, Sizes DEF t, IndInv, Shapes
  <2>. QED
    BY <2>1, <1>6 DEF Translate, Table, r, l, leaf
<1>13. \A x \in UserPages(new) : Translate(new, x)' = Translate(new, x)
  <2>1. SUFFICES ASSUME NEW x \in UserPages(new)
                 PROVE  Translate(new, x)' = Translate(new, x)
    OBVIOUS
  <2>2. x \in Frames /\ x # pg /\ Region(x) \in OwnEntries(new)
    BY <1>2 DEF UserPages
  <2>3. tables'[Table(new, Region(x))][Leaf(x)] = tables[Table(new, Region(x))][Leaf(x)]
    <3>1. CASE Region(x) = r
      BY <3>1, <2>2, <1>5, <1>6, PageParts DEF t
    <3>2. CASE Region(x) # r
      BY <3>2, <2>2, <1>2, <1>6, <1>9
    <3>. QED
      BY <3>1, <3>2
  <2>. DEFINE u == Table(new, Region(x))
  <2>4. Translate(new, x) = IF u = NULL THEN x ELSE tables[u][Leaf(x)].frame
    BY DEF Translate, Table
  <2>5. Translate(new, x)' = IF u = NULL THEN x ELSE tables'[u][Leaf(x)].frame
    BY <1>7 DEF Translate, Table
  <2>6. tables'[u][Leaf(x)] = tables[u][Leaf(x)]
    BY <2>3
  <2>. HIDE DEF u
  <2>. QED
    BY <2>4, <2>5, <2>6
<1>14. Uses(new)' = Uses(new) \cup {<<new, "page", pg, f1>>}
  <2>. DEFINE R1 == {}  P1 == {pg}
  <2>1. Uses(new)' = Uses(new) \cup {<<new, "pt", s, Table(new, s)'>> : s \in R1}
                               \cup {<<new, "page", x, Translate(new, x)'>> : x \in P1}
    <3>1. /\ spaces'[new].pdpt = spaces[new].pdpt /\ spaces'[new].pd = spaces[new].pd
          /\ OwnEntries(new)' = OwnEntries(new) \cup R1
          /\ UserPages(new)' = UserPages(new) \cup P1
          /\ \A s \in OwnEntries(new) : Table(new, s)' = Table(new, s)
      BY <1>2, <1>7, <1>8, <1>11
    <3>. HIDE DEF R1, P1
    <3>. QED
      BY <3>1, <1>13, UsesGrow
  <2>2. {<<new, "page", x, Translate(new, x)'>> : x \in P1} = {<<new, "page", pg, f1>>}
    BY <1>12
  <2>. QED
    BY <2>1, <2>2
<1>15. Shapes'
  BY <1>6, <1>7 DEF IndInv, Shapes
<1>16. EntryInv'
  <2>1. ASSUME NEW c \in Live, NEW s \in Regions, ~(c = new /\ s = r)
        PROVE  (Inherits(c, s) \/ HasOwn(c, s))'
    <3>1. CASE s \in OwnEntries(c)
      <4>1. HasOwn(c, s) /\ tables'[Table(c, s)] = tables[Table(c, s)]
        BY <2>1, <3>1, <1>6, <1>9, OwnEntry DEF IndInv
      <4>2. HasOwn(c, s)'
        BY <4>1, <1>6, <1>7, <1>8 DEF HasOwn
      <4>. QED
        BY <4>2
    <3>2. CASE s \notin OwnEntries(c)
      <4>1. Inherits(c, s)
        BY <3>2, OwnEntry DEF IndInv
      <4>. QED
        BY <4>1, <1>7 DEF Inherits, Table
    <3>. QED
      BY <3>1, <3>2
  <2>2. HasOwn(new, r)'
    <3>1. Table(new, r)' = t
      BY <1>2, <1>8 DEF t
    <3>2. ASSUME NEW k \in 0 .. P - 1, ~tables'[t][k].user
          PROVE  tables'[t][k].frame = r * P + k
      <4>1. k # l
        BY <3>2, <1>6 DEF leaf
      <4>. QED
        BY <3>2, <4>1, <1>3, <1>6 DEF HasOwn, t
    <3>3. KernelEntry(r) = NULL /\ spaces'[new].entry[r].user = TRUE
      BY <1>3, <1>7 DEF HasOwn
    <3>. QED
      BY <3>1, <3>2, <3>3, <1>4, <1>6 DEF HasOwn
  <2>. QED
    BY <1>7, <2>1, <2>2 DEF EntryInv
<1>17. TableInv'
  BY <1>6, <1>7, <1>8 DEF IndInv, TableInv
<1>18. Mappings' = Mappings \cup {<<new, "page", pg, f1>>}
  BY <1>2, <1>7, <1>10, <1>14 DEF Mappings
<1>19. /\ FramesInv' /\ OwnedOnce' /\ FreeCountExact'
       /\ free' \cup Owned' = free \cup Owned
  <2>. DEFINE N == {<<new, "page", pg, f1>>}  S == {f1}
  <2>1. /\ S \subseteq free /\ Mappings' = Mappings \cup N
        /\ (\A u \in N : u[4] \in S) /\ (\A u, v \in N : u[4] = v[4] => u = v)
        /\ free' = free \ S /\ free_count' = free_count - Cardinality(S)
    BY <1>1, <1>18 DEF Take
  <2>2. {u[4] : u \in N} = S
    OBVIOUS
  <2>. HIDE DEF N, S
  <2>3. FramesInv' /\ OwnedOnce' /\ FreeCountExact' /\ Owned' = Owned \cup {u[4] : u \in N}
    BY <2>1, Grows
  <2>. QED
    BY <2>1, <2>2, <2>3
<1>20. /\ UserPages(new)' = UserPages(new) \cup {x \in {pg} : KernelEntry(Region(x)) = NULL}
       /\ free' \cup Owned' = (free \cup Owned)
                                \ {x \in {Frame1} : KernelEntry(Region(pg)) # NULL}
  BY <1>11, <1>19
<1>. QED
  BY <1>7, <1>10, <1>15, <1>16, <1>17, <1>19, <1>20 DEF MapEffect

\* Where the kernel has a huge page: the space gets a table of its own, which
\* leads where the huge page did but for the page's frame.
LEMMA MapNew ==
  ASSUME IndInv, op # Idle, op.todo # {}, CanAlloc(2), Take({Frame1, Frame2}),
         NEW new, new = op.new, NEW pg, pg = NextPage, Table(new, Region(pg)) = NULL,
         NEW f1, f1 = Frame1, NEW f2, f2 = Frame2,
         tables' = With(tables, Frame2, [SplitLeaves(Region(pg), FALSE)
                                           EXCEPT ![Leaf(pg)] = NewLeaf]),
         spaces' = [spaces EXCEPT ![new].entry[Region(pg)] = [table |-> Frame2, user |-> TRUE]]
  PROVE  MapEffect(new, pg)
<1>. DEFINE r == Region(pg)  l == Leaf(pg)
            leaf == [frame |-> f1, user |-> TRUE]  row == tables'[f2]
<1>1. /\ f1 \in free /\ f2 \in free /\ f1 # f2 /\ f1 \in Frames /\ f2 \in Frames
      /\ f2 \notin DOMAIN tables /\ f2 \notin KernelTables /\ leaf \in LeafRec /\ NewLeaf = leaf
  <2>1. f1 \in free /\ f2 \in free /\ f1 # f2
    BY Allocated DEF IndInv
  <2>. QED
    BY <2>1, FreshFrame DEF LeafRec, NewLeaf
<1>2. /\ new \in Live /\ pg \in Frames /\ r \in Regions /\ l \in 0 .. P - 1
      /\ pg \in op.todo /\ pg \notin UserPages(new)
  BY NextIn, PageParts DEF IndInv, OpInv
<1>3. KernelEntry(r) = NULL /\ r \notin OwnEntries(new) /\ f2 # NULL
  <2>. HIDE DEF r
  <2>1. Table(new, r) = NULL
    BY DEF r
  <2>2. r \notin OwnEntries(new) /\ Inherits(new, r)
    BY <1>2, <2>1, OwnEntry DEF IndInv
  <2>. QED
    BY <1>1, <2>1, <2>2, Sizes DEF Inherits
<1>4. \A x \in Frames : Region(x) = r /\ Leaf(x) = l => x = pg
  BY <1>2, PageParts
<1>. HIDE DEF r, l, leaf
<1>5. /\ row \in [0 .. P - 1 -> LeafRec] /\ row[l].frame = f1 /\ row[l].user = TRUE
      /\ \A k \in 0 .. P - 1 : k # l => /\ row[k].frame = r * P + k
                                        /\ row[k].user = FALSE
  <2>. DEFINE split == SplitLeaves(r, FALSE)
  <2>1. \A k \in 0 .. P - 1 : split[k] = [frame |-> r * P + k, user |-> FALSE]
    BY DEF SplitLeaves
  <2>2. ASSUME NEW k \in 0 .. P - 1 PROVE split[k] \in LeafRec
    <3>1. r * P + k \in Frames
      BY <1>2, PageOf
    <3>2. [frame |-> r * P + k, user |-> FALSE] \in LeafRec
      BY <3>1 DEF LeafRec
    <3>. QED
      BY <2>1, <3>2, Zenon
  <2>3. split \in [0 .. P - 1 -> LeafRec]
    BY <2>2 DEF SplitLeaves
  <2>4. row = [split EXCEPT ![l] = leaf]
    BY <1>1 DEF With, r, l
  <2>. HIDE DEF split, row
  <2>5. /\ row \in [0 .. P - 1 -> LeafRec] /\ row[l] = leaf
        /\ \A k \in 0 .. P - 1 : k # l => row[k] = split[k]
    BY <2>3, <2>4, <1>1, <1>2
  <2>6. ASSUME NEW k \in 0 .. P - 1, k # l
        PROVE  row[k].frame = r * P + k /\ row[k].user = FALSE
    <3>. DEFINE e == row[k]
    <3>1. e = [frame |-> r * P + k, user |-> FALSE]
      BY <2>1, <2>5, <2>6, Zenon
    <3>. HIDE DEF e
    <3>2. e.frame = r * P + k /\ e.user = FALSE
      BY <3>1
    <3>. QED
      BY <3>2 DEF e
  <2>7. row[l].frame = f1 /\ row[l].user = TRUE
    <3>. DEFINE e == row[l]
    <3>1. e = [frame |-> f1, user |-> TRUE]
      BY <2>5 DEF leaf
    <3>. HIDE DEF e
    <3>2. e.frame = f1 /\ e.user = TRUE
      BY <3>1
    <3>. QED
      BY <3>2 DEF e
  <2>. QED
    BY <2>5, <2>6, <2>7
<1>6. DOMAIN tables' = DOMAIN tables \cup {f2} /\ \A u \in DOMAIN tables : tables'[u] = tables[u]
  BY <1>1 DEF With
<1>. HIDE DEF row
<1>7. /\ Live' = Live /\ \A c \in Live \ {new} : spaces'[c] = spaces[c]
      /\ spaces'[new].pdpt = spaces[new].pdpt /\ spaces'[new].pd = spaces[new].pd
      /\ spaces'[new] \in SpaceRec
      /\ spaces'[new].entry[r].table = f2 /\ spaces'[new].entry[r].user = TRUE
      /\ \A s \in Regions \ {r} : spaces'[new].entry[s] = spaces[new].entry[s]
  <2>. DEFINE entry == [spaces[new].entry EXCEPT ![r] = [table |-> f2, user |-> TRUE]]
              space == [spaces[new] EXCEPT !.entry = entry]
  <2>1. spaces' = [spaces EXCEPT ![new] = space]
    BY DEF r
  <2>2. spaces \in [Live -> SpaceRec] /\ spaces[new] \in SpaceRec
    BY <1>2 DEF IndInv, Shapes
  <2>3. spaces[new].entry \in [Regions -> EntryRec]
    BY <2>2 DEF SpaceRec
  <2>4. [table |-> f2, user |-> TRUE] \in EntryRec
    BY <1>1 DEF EntryRec
  <2>5. /\ entry \in [Regions -> EntryRec] /\ entry[r] = [table |-> f2, user |-> TRUE]
        /\ \A s \in Regions \ {r} : entry[s] = spaces[new].entry[s]
    BY <1>2, <2>3, <2>4
  <2>6. entry[r].table = f2 /\ entry[r].user = TRUE
    <3>. DEFINE e == entry[r]
    <3>1. e = [table |-> f2, user |-> TRUE]
      BY <2>5
    <3>. HIDE DEF e
    <3>. QED
      BY <3>1 DEF e
  <2>. HIDE DEF entry
  <2>7. /\ space \in SpaceRec /\ space.entry = entry
        /\ space.pdpt = spaces[new].pdpt /\ space.pd = spaces[new].pd
    BY <2>2, <2>5 DEF SpaceRec
  <2>. HIDE DEF space
  <2>8. Live' = Live /\ spaces'[new] = space /\ \A c \in Live \ {new} : spaces'[c] = spaces[c]
    BY <1>2, <2>1, <2>2 DEF Live
  <2>. QED
    BY <2>5, <2>6, <2>7, <2>8
<1>8. ASSUME NEW c \in Live, NEW s \in OwnEntries(c)
      PROVE  Table(c, s) \in DOMAIN tables /\ tables'[Table(c, s)] = tables[Table(c, s)]
  <2>1. s \in Regions
    BY DEF OwnEntries
  <2>. QED
    BY <2>1, <1>6, OwnEntry DEF IndInv
<1>9. ASSUME NEW c \in Live \ {new}
      PROVE  /\ OwnEntries(c)' = OwnEntries(c) /\ UserPages(c)' = UserPages(c)
             /\ Uses(c)' = Uses(c) /\ \A s : Table(c, s)' = Table(c, s)
  <2>1. spaces'[c] = spaces[c] /\ \A s \in OwnEntries(c) : tables'[Table(c, s)] = tables[Table(c, s)]
    BY <1>7, <1>8
  <2>. QED
    BY <2>1, SameSpace
<1>10. /\ OwnEntries(new)' = OwnEntries(new) \cup {r} /\ Table(new, r)' = f2
       /\ \A s \in Regions \ {r} : Table(new, s)' = Table(new, s)
  <2>1. Table(new, r)' = f2 /\ \A s \in Regions \ {r} : Table(new, s)' = Table(new, s)
    BY <1>7 DEF Table
  <2>2. \A s \in Regions \ {r} : s \in OwnEntries(new)' <=> s \in OwnEntries(new)
    BY <1>7 DEF OwnEntries
  <2>3. r \in OwnEntries(new)'
    BY <1>2, <1>3, <1>7 DEF OwnEntries
  <2>4. OwnEntries(new) \subseteq Regions /\ OwnEntries(new)' \subseteq Regions
    BY DEF OwnEntries
  <2>. QED
    BY <2>1, <2>2, <2>3, <2>4
<1>11. ASSUME NEW x \in Frames, Region(x) \in OwnEntries(new)
       PROVE  /\ Region(x) # r /\ Table(new, Region(x))' = Table(new, Region(x))
              /\ tables'[Table(new, Region(x))] = tables[Table(new, Region(x))]
  BY <1>2, <1>3, <1>8, <1>10, <1>11, PageParts
<1>12. UserPages(new)' = UserPages(new) \cup {pg}
  <2>1. \A x \in Frames : x \in UserPages(new)' <=>
          Region(x) \in OwnEntries(new)' /\ tables'[Table(new, Region(x))'][Leaf(x)].user
    BY DEF UserPages, Table
  <2>2. \A x \in Frames : x \in UserPages(new) <=>
          Region(x) \in OwnEntries(new) /\ tables[Table(new, Region(x))][Leaf(x)].user
    BY DEF UserPages, Table
  <2>3. pg \in UserPages(new)'
    <3>1. tables'[f2][l].user
      BY <1>5 DEF row
    <3>. QED
      BY <1>2, <1>10, <2>1, <3>1 DEF r, l
  <2>4. ASSUME NEW x \in Frames \ {pg}
        PROVE  x \in UserPages(new)' <=> x \in UserPages(new)
    <3>1. CASE Region(x) = r
      <4>1. Leaf(x) \in 0 .. P - 1 /\ Leaf(x) # l
        BY <3>1, <1>4, PageParts
      <4>2. tables'[f2][Leaf(x)].user = FALSE
        BY <4>1, <1>5 DEF row
      <4>. QED
        BY <3>1, <4>2, <1>3, <1>10, <2>1, <2>2
    <3>2. CASE Region(x) # r
      BY <3>2, <1>10, <1>11, <2>1, <2>2
    <3>. QED
      BY <3>1, <3>2
  <2>5. UserPages(new)' \subseteq Frames /\ UserPages(new) \subseteq Frames
    BY DEF UserPages
  <2>. QED
    BY <1>2, <2>3, <2>4, <2>5
<1>13. Translate(new, pg)' = f1
  <2>1. spaces'[new].entry[Region(pg)].table = f2 /\ tables'[f2][Leaf(pg)].frame = f1
    BY <1>5, <1>7 DEF r, l, row
  <2>. QED
    BY <2>1, <1>3 DEF Translate
<1>14. ASSUME NEW x \in UserPages(new)
       PROVE  Translate(new, x)' = Translate(new, x)
  <2>. DEFINE u == Table(new, Region(x))
  <2>1. Translate(new, x) = IF u = NULL THEN x ELSE tables[u][Leaf(x)].frame
    BY DEF Translate, Table
  <2>2. Translate(new, x)' = IF u' = NULL THEN x ELSE tables'[u'][Leaf(x)].frame
    BY DEF Translate, Table
  <2>3. u' = u /\ tables'[u] = tables[u]
    BY <1>11 DEF UserPages
  <2>. HIDE DEF u
  <2>. QED
    BY <2>1, <2>2, <2>3
<1>15. Uses(new)' = Uses(new) \cup {<<new, "pt", r, f2>>, <<new, "page", pg, f1>>}
  <2>. DEFINE R1 == {r}  P1 == {pg}
  <2>1. Uses(new)' = Uses(new) \cup {<<new, "pt", s, Table(new, s)'>> : s \in R1}
                               \cup {<<new, "page", x, Translate(new, x)'>> : x \in P1}
    <3>1. /\ OwnEntries(new)' = OwnEntries(new) \cup R1
          /\ UserPages(new)' = UserPages(new) \cup P1
      BY <1>10, <1>12
    <3>2. \A s \in OwnEntries(new) : Table(new, s)' = Table(new, s)
      BY <1>3, <1>10 DEF OwnEntries
    <3>3. spaces'[new].pdpt = spaces[new].pdpt /\ spaces'[new].pd = spaces[new].pd
      BY <1>7
    <3>4. \A x \in UserPages(new) : Translate(new, x)' = Translate(new, x)
      BY <1>14
    <3>. HIDE DEF R1, P1
    <3>. QED
      BY ONLY <3>1, <3>2, <3>3, <3>4, UsesGrow
  <2>2. /\ {<<new, "pt", s, Table(new, s)'>> : s \in R1} = {<<new, "pt", r, f2>>}
        /\ {<<new, "page", x, Translate(new, x)'>> : x \in P1} = {<<new, "page", pg, f1>>}
    BY <1>10, <1>13
  <2>. HIDE DEF R1, P1
  <2>. QED
    BY <2>1, <2>2
<1>16. Shapes'
  <2>1. DOMAIN tables' \subseteq Frames /\ tables' \in [DOMAIN tables' -> [0 .. P - 1 -> LeafRec]]
    <3>1. tables' = [u \in DOMAIN tables' |-> tables'[u]]
      BY DEF With
    <3>2. \A u \in DOMAIN tables' : tables'[u] \in [0 .. P - 1 -> LeafRec]
      BY <1>5, <1>6 DEF IndInv, Shapes, row
    <3>. QED
      BY <3>1, <3>2, <1>1, <1>6 DEF IndInv, Shapes
  <2>2. spaces' \in [Live' -> SpaceRec]
    <3>1. spaces' = [c \in DOMAIN spaces' |-> spaces'[c]]
      BY DEF IndInv, Shapes, Live
    <3>2. \A c \in Live : spaces'[c] \in SpaceRec
      BY <1>7 DEF IndInv, Shapes
    <3>. QED
      BY <3>1, <3>2, <1>7 DEF Live
  <2>. QED
    BY <2>1, <2>2, <1>7 DEF IndInv, Shapes
<1>17. EntryInv'
  <2>1. ASSUME NEW c \in Live, NEW s \in Regions, ~(c = new /\ s = r)
        PROVE  (Inherits(c, s) \/ HasOwn(c, s))'
    <3>1. Table(c, s)' = Table(c, s) /\ spaces'[c].entry[s] = spaces[c].entry[s]
      <4>1. CASE c = new
        BY <2>1, <4>1, <1>7, <1>10
      <4>2. CASE c # new
        BY <4>2, <1>7, <1>9
      <4>. QED
        BY <4>1, <4>2
    <3>2. CASE s \in OwnEntries(c)
      <4>1. /\ HasOwn(c, s) /\ Table(c, s) \in DOMAIN tables
            /\ tables'[Table(c, s)] = tables[Table(c, s)]
        BY <3>2, <1>8, OwnEntry DEF IndInv
      <4>2. /\ KernelEntry(s) = NULL /\ spaces[c].entry[s].user = TRUE
            /\ Table(c, s) \notin KernelTables
            /\ \A l2 \in 0 .. P - 1 : ~tables[Table(c, s)][l2].user
                   => tables[Table(c, s)][l2].frame = s * P + l2
        BY <4>1 DEF HasOwn
      <4>3. Table(c, s) \in DOMAIN tables'
        BY <4>1, <1>6
      <4>4. HasOwn(c, s)'
        BY <4>1, <4>2, <4>3, <3>1 DEF HasOwn
      <4>. QED
        BY <4>4
    <3>3. CASE s \notin OwnEntries(c)
      <4>1. Inherits(c, s)
        BY <3>3, OwnEntry DEF IndInv
      <4>. QED
        BY <4>1, <3>1 DEF Inherits
    <3>. QED
      BY <3>2, <3>3
  <2>2. HasOwn(new, r)'
    <3>1. \A k \in 0 .. P - 1 : ~tables'[f2][k].user => tables'[f2][k].frame = r * P + k
      BY <1>5 DEF row
    <3>. QED
      BY <3>1, <1>1, <1>3, <1>6, <1>7, <1>10 DEF HasOwn
  <2>. QED
    BY <1>7, <2>1, <2>2 DEF EntryInv
<1>18. TableInv'
  <2>1. SUFFICES ASSUME NEW t \in DOMAIN tables' \ KernelTables
                 PROVE  \E c \in Live : \E s \in OwnEntries(c)' : t = Table(c, s)'
    BY <1>7 DEF TableInv
  <2>2. CASE t = f2
    BY <2>2, <1>2, <1>10
  <2>3. CASE t # f2
    <3>1. PICK c \in Live : \E s \in OwnEntries(c) : t = Table(c, s)
      BY <2>3, <1>6 DEF IndInv, TableInv
    <3>2. PICK s \in OwnEntries(c) : t = Table(c, s)
      BY <3>1
    <3>3. s \in OwnEntries(c)' /\ Table(c, s)' = t
      <4>1. CASE c = new
        <5>1. s \in Regions \ {r}
          BY <3>2, <4>1, <1>3 DEF OwnEntries
        <5>. QED
          BY <3>2, <4>1, <5>1, <1>10
      <4>2. CASE c # new
        BY <3>2, <4>2, <1>9
      <4>. QED
        BY <4>1, <4>2
    <3>. QED
      BY <3>3
  <2>. QED
    BY <2>2, <2>3
<1>19. Mappings' = Mappings \cup {<<new, "pt", r, f2>>, <<new, "page", pg, f1>>}
  BY <1>2, <1>7, <1>9, <1>15 DEF Mappings
<1>20. /\ FramesInv' /\ OwnedOnce' /\ FreeCountExact'
       /\ free' \cup Owned' = free \cup Owned
  <2>. DEFINE N == {<<new, "pt", r, f2>>, <<new, "page", pg, f1>>}  S == {f1, f2}
  <2>1. /\ S \subseteq free /\ Mappings' = Mappings \cup N
        /\ free' = free \ S /\ free_count' = free_count - Cardinality(S)
    BY <1>1, <1>19 DEF Take
  <2>2. {u[4] : u \in N} = S /\ (\A u \in N : u[4] \in S)
        /\ \A u, v \in N : u[4] = v[4] => u = v
    BY <1>1
  <2>. HIDE DEF N, S
  <2>3. FramesInv' /\ OwnedOnce' /\ FreeCountExact' /\ Owned' = Owned \cup {u[4] : u \in N}
    BY <2>1, <2>2, Grows
  <2>. QED
    BY <2>1, <2>2, <2>3
<1>21. /\ UserPages(new)' = UserPages(new) \cup {x \in {pg} : KernelEntry(Region(x)) = NULL}
       /\ free' \cup Owned' = (free \cup Owned)
                                \ {x \in {Frame1} : KernelEntry(Region(pg)) # NULL}
  BY <1>3, <1>12, <1>20 DEF r
<1>. QED
  BY <1>7, <1>9, <1>16, <1>17, <1>18, <1>20, <1>21 DEF MapEffect

-----------------------------------------------------------------------------
(***************************************************************************)
(* Every step preserves the invariant.                                     *)
(***************************************************************************)

LEMMA MemoryUnchanged ==
  ASSUME IndInv, UNCHANGED <<free, free_count, tables, spaces>>
  PROVE  /\ Shapes' /\ EntryInv' /\ TableInv' /\ FramesInv' /\ OwnedOnce' /\ FreeCountExact'
         /\ Live' = Live /\ Owned' = Owned /\ \A c : UserPages(c)' = UserPages(c)
<1>1. Live' = Live /\ \A c, r : Table(c, r)' = Table(c, r)
  BY DEF Live, Table
<1>2. ASSUME NEW c
      PROVE  /\ OwnEntries(c)' = OwnEntries(c) /\ UserPages(c)' = UserPages(c)
             /\ Uses(c)' = Uses(c)
  <2>1. spaces'[c] = spaces[c] /\ \A r \in OwnEntries(c) : tables'[Table(c, r)] = tables[Table(c, r)]
    OBVIOUS
  <2>. QED
    BY <2>1, SameSpace
<1>3. Mappings' = Mappings /\ Owned' = Owned
  BY <1>1, <1>2 DEF Mappings, Owned
<1>4. FramesInv' /\ OwnedOnce' /\ FreeCountExact'
  BY <1>3 DEF IndInv, FramesInv, OwnedOnce, FreeCountExact
<1>5. Shapes' /\ TableInv'
  BY <1>1, <1>2 DEF IndInv, Shapes, TableInv
<1>6. EntryInv'
  BY <1>1 DEF IndInv, EntryInv, Inherits, HasOwn
<1>. QED
  BY <1>1, <1>2, <1>3, <1>4, <1>5, <1>6

LEMMA TaskSpaces ==
  ASSUME IndInv
  PROVE  /\ \A p \in Procs : cr3[p] # NULL => cr3[p] \in Live /\ cr3[p] \in Frames
         /\ Live \subseteq Frames /\ NULL \notin Live
         /\ op = Idle => Live = {cr3[p] : p \in Procs} \ {NULL}
         /\ op # Idle => Live = ({cr3[p] : p \in Procs} \ {NULL}) \cup {op.new}
  BY Sizes DEF IndInv, Shapes, LiveInv

LEMMA BuildKeeps ==
  ASSUME IndInv, NEW kind \in {"load", "exec", "fork"}, NEW p \in Procs,
         NEW src \in Frames \cup {NULL}, NEW pages \in SUBSET Frames,
         Build(kind, p, src, pages),
         kind = "exec" => src = cr3[p] /\ src # NULL,
         kind # "exec" => cr3[p] = NULL,
         kind = "fork" => /\ src \in Live
                          /\ UserPages(src) = {pg \in pages : KernelEntry(Region(pg)) = NULL}
  PROVE  IndInv'
<1>. DEFINE new == Frame1
<1>1. /\ op = Idle /\ cr3' = cr3
      /\ op' = [kind |-> kind, proc |-> p, src |-> src, new |-> new, todo |-> pages]
  BY DEF Build
<1>. HIDE DEF new
<1>2. PICK n : n = new
  OBVIOUS
<1>3. /\ Shapes' /\ EntryInv' /\ TableInv' /\ FramesInv' /\ OwnedOnce' /\ FreeCountExact'
      /\ n \in Frames \ Live /\ Live' = Live \cup {n}
      /\ UserPages(n)' = {} /\ \A c \in Live : UserPages(c)' = UserPages(c)
  BY <1>2, BuildEffect DEF new
<1>4. /\ op'.kind = kind /\ op'.proc = p /\ op'.src = src /\ op'.new = n /\ op'.todo = pages
      /\ op' # Idle
  BY <1>1, <1>2 DEF Idle
<1>5. TaskShapes'
  <2>1. op' \in OpRec
    BY <1>1, <1>2, <1>3 DEF OpRec
  <2>. QED
    BY <1>1, <2>1 DEF IndInv, TaskShapes
<1>6. OneSpaceEach'
  BY <1>1 DEF IndInv, OneSpaceEach
<1>7. \A q \in Procs : cr3[q] # n
  BY <1>3, TaskSpaces, Sizes
<1>8. OpInv'
  <2>1. op'.new \in Live' /\ \A q \in Procs : cr3'[q] # op'.new
    BY <1>1, <1>3, <1>4, <1>7
  <2>2. /\ op'.kind = "exec" => op'.src = cr3'[op'.proc] /\ op'.src # NULL
        /\ op'.kind # "exec" => cr3'[op'.proc] = NULL
    BY <1>1, <1>4
  <2>3. UserPages(op.new)' = {}
    BY <1>3, <1>4
  <2>4. ASSUME kind = "fork"
        PROVE  /\ src \in Live' \ {n}
               /\ UserPages(src)' = UserPages(n)'
                    \cup {pg \in pages : KernelEntry(Region(pg)) = NULL}
    BY <1>3, <2>4
  <2>. QED
    BY <1>4, <2>1, <2>2, <2>3, <2>4 DEF OpInv
<1>9. LiveInv'
  BY <1>1, <1>3, <1>4, TaskSpaces DEF LiveInv
<1>. QED
  BY <1>3, <1>5, <1>6, <1>8, <1>9 DEF IndInv

LEMMA LoadKeeps ==
  ASSUME IndInv, NEW p \in Procs, LoadProgram(p)
  PROVE  IndInv'
<1>1. PICK image \in Images : Build("load", p, NULL, image \cup StackPages)
  BY DEF LoadProgram
<1>2. cr3[p] = NULL /\ image \cup StackPages \in SUBSET Frames
  BY PagesAssumption DEF LoadProgram
<1>. QED
  BY <1>1, <1>2, BuildKeeps

LEMMA ExecKeeps ==
  ASSUME IndInv, NEW p \in Procs, ExecProgram(p)
  PROVE  IndInv'
<1>1. PICK image \in Images : Build("exec", p, cr3[p], image \cup StackPages)
  BY DEF ExecProgram
<1>2. PICK src : src = cr3[p]
  OBVIOUS
<1>3. /\ src # NULL /\ src \in Frames \cup {NULL} /\ image \cup StackPages \in SUBSET Frames
  BY <1>2, PagesAssumption, TaskSpaces DEF ExecProgram
<1>4. Build("exec", p, src, image \cup StackPages)
  BY <1>1, <1>2
<1>. QED
  BY <1>2, <1>3, <1>4, BuildKeeps

LEMMA ForkKeeps ==
  ASSUME IndInv, NEW p \in Procs, NEW q \in Procs, ForkProcess(p, q)
  PROVE  IndInv'
<1>1. PICK src : src = cr3[p]
  OBVIOUS
<1>2. PICK pages : pages = ClonePages(src)
  OBVIOUS
<1>3. Build("fork", q, src, pages) /\ cr3[q] = NULL /\ src \in Live /\ src \in Frames \cup {NULL}
  BY <1>1, <1>2, TaskSpaces DEF ForkProcess
<1>4. pages \in SUBSET Frames
  BY <1>2 DEF ClonePages
<1>5. UserPages(src) = {pg \in pages : KernelEntry(Region(pg)) = NULL}
  <2>1. ASSUME NEW pg \in Frames
        PROVE  pg \in UserPages(src) <=> pg \in pages /\ KernelEntry(Region(pg)) = NULL
    <3>. DEFINE r == Region(pg)
    <3>1. r \in Regions
      BY PageParts
    <3>2. /\ pg \in UserPages(src) <=>
               (r \in OwnEntries(src) /\ tables[Table(src, r)][Leaf(pg)].user)
          /\ pg \in pages <=> (Table(src, r) # NULL /\ tables[Table(src, r)][Leaf(pg)].user)
      BY <1>2 DEF UserPages, ClonePages, Table
    <3>. HIDE DEF r
    <3>3. r \in OwnEntries(src) => Table(src, r) # NULL /\ KernelEntry(r) = NULL
      BY <1>3, <3>1, OwnEntry DEF IndInv, HasOwn
    <3>4. r \notin OwnEntries(src) => Table(src, r) = KernelEntry(r)
      BY <1>3, <3>1, OwnEntry DEF IndInv, Inherits
    <3>5. pg \in UserPages(src) <=> pg \in pages /\ KernelEntry(r) = NULL
      BY <3>2, <3>3, <3>4
    <3>. QED
      BY <3>5 DEF r
  <2>2. UserPages(src) \subseteq Frames
    BY DEF UserPages
  <2>. QED
    BY <1>4, <2>1, <2>2
<1>. QED
  BY <1>3, <1>4, <1>5, BuildKeeps

\* Every page that is mapped is mapped in one of the three ways.
LEMMA MapDoes ==
  ASSUME IndInv, MapPage, NEW new, new = op.new, NEW pg, pg = NextPage
  PROVE  MapEffect(new, pg)
<1>1. PICK f1 : f1 = Frame1
  OBVIOUS
<1>2. PICK f2 : f2 = Frame2
  OBVIOUS
<1>3. op # Idle /\ op.todo # {}
  BY DEF MapPage
<1>4. Entry.table = Table(new, Region(pg))
  BY DEF Entry, Table
<1>5. CASE /\ Entry.table # NULL /\ CanAlloc(1) /\ Take({Frame1})
           /\ tables' = [tables EXCEPT ![Entry.table][Leaf(NextPage)] = NewLeaf]
           /\ UNCHANGED spaces
  <2>1. tables' = [tables EXCEPT ![Table(new, Region(pg))][Leaf(pg)] = NewLeaf]
    BY <1>4, <1>5
  <2>2. CASE KernelEntry(Region(pg)) = NULL
    BY <1>1, <1>3, <1>4, <1>5, <2>1, <2>2, MapOwn
  <2>3. CASE KernelEntry(Region(pg)) # NULL
    BY <1>3, <1>4, <1>5, <2>1, <2>3, MapShared
  <2>. QED
    BY <2>2, <2>3
<1>6. CASE /\ Entry.table = NULL /\ CanAlloc(2) /\ Take({Frame1, Frame2})
           /\ tables' = With(tables, Frame2, [SplitLeaves(Region(NextPage), FALSE)
                                                EXCEPT ![Leaf(NextPage)] = NewLeaf])
           /\ spaces' = [spaces EXCEPT ![op.new].entry[Region(NextPage)] =
                           [table |-> Frame2, user |-> TRUE]]
  <2>1. tables' = With(tables, Frame2, [SplitLeaves(Region(pg), FALSE)
                                          EXCEPT ![Leaf(pg)] = NewLeaf])
    BY <1>6
  <2>2. spaces' = [spaces EXCEPT ![new].entry[Region(pg)] = [table |-> Frame2, user |-> TRUE]]
    BY <1>6
  <2>. QED
    BY <1>1, <1>2, <1>3, <1>4, <1>6, <2>1, <2>2, MapNew
<1>. QED
  BY <1>5, <1>6 DEF MapPage

LEMMA MapKeeps ==
  ASSUME IndInv, MapPage
  PROVE  IndInv'
<1>1. PICK new : new = op.new
  OBVIOUS
<1>2. PICK pg : pg = NextPage
  OBVIOUS
<1>3. /\ op # Idle /\ op.todo # {} /\ cr3' = cr3 /\ op' = [op EXCEPT !.todo = @ \ {pg}]
      /\ op \in OpRec /\ new \in Live /\ pg \in op.todo
  BY <1>1, <1>2, NextIn DEF MapPage, IndInv, OpInv, TaskShapes
<1>4. MapEffect(new, pg)
  BY <1>1, <1>2, MapDoes
<1>5. /\ Shapes' /\ EntryInv' /\ TableInv' /\ FramesInv' /\ OwnedOnce' /\ FreeCountExact'
      /\ Live' = Live /\ \A c \in Live \ {new} : UserPages(c)' = UserPages(c)
      /\ UserPages(new)' = UserPages(new) \cup {x \in {pg} : KernelEntry(Region(x)) = NULL}
  BY <1>4 DEF MapEffect
<1>6. /\ op' \in OpRec /\ op'.kind = op.kind /\ op'.proc = op.proc /\ op'.src = op.src
      /\ op'.new = new /\ op'.todo = op.todo \ {pg}
  BY <1>1, <1>3 DEF OpRec
<1>7. op' # Idle
  BY <1>6 DEF OpRec, Idle
<1>8. TaskShapes'
  BY <1>3, <1>6 DEF IndInv, TaskShapes
<1>9. OneSpaceEach'
  BY <1>3 DEF IndInv, OneSpaceEach
<1>10. OpInv'
  <2>1. /\ op.new \in Live /\ \A p \in Procs : cr3[p] # op.new
        /\ op.kind = "exec" => op.src = cr3[op.proc] /\ op.src # NULL
        /\ op.kind # "exec" => cr3[op.proc] = NULL
        /\ op.todo \cap UserPages(op.new) = {}
    BY <1>3 DEF IndInv, OpInv
  <2>2. /\ op'.new \in Live' /\ \A p \in Procs : cr3'[p] # op'.new
        /\ op'.kind = "exec" => op'.src = cr3'[op'.proc] /\ op'.src # NULL
        /\ op'.kind # "exec" => cr3'[op'.proc] = NULL
    BY <1>1, <1>3, <1>5, <1>6, <2>1
  <2>3. op'.todo \cap UserPages(new)' = {}
    BY <1>1, <1>5, <1>6, <2>1
  <2>4. ASSUME op.kind = "fork"
        PROVE  /\ op.src \in Live \ {new}
               /\ UserPages(op.src)' = UserPages(new)'
                    \cup {x \in op'.todo : KernelEntry(Region(x)) = NULL}
    <3>1. PICK src : src = op.src
      OBVIOUS
    <3>2. /\ src \in Live \ {new}
          /\ UserPages(src) = UserPages(new) \cup {x \in op.todo : KernelEntry(Region(x)) = NULL}
      BY <1>1, <1>3, <2>4, <3>1 DEF IndInv, OpInv
    <3>3. UserPages(src)' = UserPages(src)
      BY <1>5, <3>2
    <3>4. UserPages(src)' = UserPages(new)' \cup {x \in op'.todo : KernelEntry(Region(x)) = NULL}
      BY <1>3, <1>5, <1>6, <3>2, <3>3
    <3>. QED
      BY <1>6, <3>1, <3>2, <3>4
  <2>. QED
    BY <1>5, <1>6, <2>2, <2>3, <2>4 DEF OpInv
<1>11. LiveInv'
  BY <1>1, <1>3, <1>5, <1>6, <1>7 DEF IndInv, LiveInv
<1>. QED
  BY <1>5, <1>8, <1>9, <1>10, <1>11 DEF IndInv

\* A failed operation gives its space back.
LEMMA GiveUpKeeps ==
  ASSUME IndInv, op # Idle, NEW left, left \subseteq free, FreeSpace(op.new, left),
         op' = Idle, UNCHANGED cr3
  PROVE  IndInv'
<1>1. PICK new : new = op.new
  OBVIOUS
<1>2. new \in Live /\ \A p \in Procs : cr3[p] # new
  BY <1>1 DEF IndInv, OpInv
<1>3. FreeSpace(new, left)
  BY <1>1
<1>4. /\ Shapes' /\ EntryInv' /\ TableInv' /\ FramesInv' /\ OwnedOnce' /\ FreeCountExact'
      /\ Live' = Live \ {new}
  BY <1>2, <1>3, Shrinks
<1>5. TaskShapes' /\ OneSpaceEach' /\ OpInv'
  BY DEF IndInv, TaskShapes, OneSpaceEach, OpInv
<1>6. LiveInv'
  BY <1>1, <1>2, <1>4, TaskSpaces DEF LiveInv
<1>. QED
  BY <1>4, <1>5, <1>6 DEF IndInv

LEMMA StartKeeps ==
  ASSUME IndInv, StartProgram
  PROVE  IndInv'
<1>1. /\ op # Idle /\ op.kind # "exec" /\ op' = Idle /\ op \in OpRec
      /\ cr3' = [cr3 EXCEPT ![op.proc] = op.new]
      /\ UNCHANGED <<free, free_count, tables, spaces>>
  BY DEF StartProgram, Built, IndInv, TaskShapes
<1>2. /\ op.new \in Live /\ \A p \in Procs : cr3[p] # op.new
      /\ cr3[op.proc] = NULL /\ op.proc \in Procs /\ op.new \in Frames
  BY <1>1 DEF IndInv, OpInv, OpRec
<1>3. cr3 \in [Procs -> Frames \cup {NULL}]
  BY DEF IndInv, TaskShapes
<1>4. /\ Shapes' /\ EntryInv' /\ TableInv' /\ FramesInv' /\ OwnedOnce' /\ FreeCountExact'
      /\ Live' = Live
  BY <1>1, MemoryUnchanged
<1>5. /\ cr3'[op.proc] = op.new /\ \A p \in Procs \ {op.proc} : cr3'[p] = cr3[p]
      /\ cr3' \in [Procs -> Frames \cup {NULL}]
  BY <1>1, <1>2, <1>3
<1>6. TaskShapes' /\ OpInv'
  BY <1>1, <1>5 DEF TaskShapes, OpInv
<1>7. OneSpaceEach'
  BY <1>2, <1>5 DEF IndInv, OneSpaceEach
<1>8. LiveInv'
  <2>1. op.new # NULL
    BY <1>2, Sizes
  <2>2. {cr3'[p] : p \in Procs} \ {NULL} = ({cr3[p] : p \in Procs} \ {NULL}) \cup {op.new}
    BY <1>2, <1>5, <2>1
  <2>. QED
    BY <1>1, <1>4, <2>2, TaskSpaces DEF LiveInv
<1>. QED
  BY <1>4, <1>6, <1>7, <1>8 DEF IndInv

LEMMA ReplaceKeeps ==
  ASSUME IndInv, ReplaceProgram
  PROVE  IndInv'
<1>1. /\ op # Idle /\ op.kind = "exec" /\ op' = Idle /\ op \in OpRec
      /\ cr3' = [cr3 EXCEPT ![op.proc] = op.new] /\ FreeSpace(op.src, free)
  BY DEF ReplaceProgram, Built, IndInv, TaskShapes
<1>2. PICK src : src = op.src
  OBVIOUS
<1>3. PICK left : left = free
  OBVIOUS
<1>4. /\ op.new \in Live /\ \A p \in Procs : cr3[p] # op.new
      /\ cr3[op.proc] = src /\ src # NULL /\ op.proc \in Procs /\ op.new \in Frames
  BY <1>1, <1>2 DEF IndInv, OpInv, OpRec
<1>5. cr3 \in [Procs -> Frames \cup {NULL}]
  BY DEF IndInv, TaskShapes
<1>6. src \in Live
  BY <1>4, TaskSpaces
<1>7. FreeSpace(src, left) /\ left \subseteq free
  BY <1>1, <1>2, <1>3
<1>8. /\ Shapes' /\ EntryInv' /\ TableInv' /\ FramesInv' /\ OwnedOnce' /\ FreeCountExact'
      /\ Live' = Live \ {src}
  BY <1>6, <1>7, Shrinks
<1>9. /\ cr3'[op.proc] = op.new /\ \A p \in Procs \ {op.proc} : cr3'[p] = cr3[p]
      /\ cr3' \in [Procs -> Frames \cup {NULL}]
  BY <1>1, <1>4, <1>5
<1>10. TaskShapes' /\ OpInv'
  BY <1>1, <1>9 DEF TaskShapes, OpInv
<1>11. OneSpaceEach'
  BY <1>4, <1>9 DEF IndInv, OneSpaceEach
<1>12. LiveInv'
  <2>1. op.new # NULL /\ op.new # src
    BY <1>4, Sizes
  <2>2. \A p \in Procs \ {op.proc} : cr3[p] # src
    BY <1>4 DEF IndInv, OneSpaceEach
  <2>3. {cr3'[p] : p \in Procs} \ {NULL} =
          (({cr3[p] : p \in Procs} \ {NULL}) \cup {op.new}) \ {src}
    <3>1. ASSUME NEW x, x # NULL
          PROVE  (\E p \in Procs : cr3'[p] = x)
                   <=> ((\E p \in Procs : cr3[p] = x) \/ x = op.new) /\ x # src
      BY <1>4, <1>9, <2>1, <2>2
    <3>. QED
      BY <3>1, <2>1
  <2>4. Live' = {cr3'[p] : p \in Procs} \ {NULL}
    BY <1>1, <1>8, <2>3, TaskSpaces
  <2>. QED
    BY <1>1, <2>4 DEF LiveInv
<1>. QED
  BY <1>8, <1>10, <1>11, <1>12 DEF IndInv

LEMMA EndKeeps ==
  ASSUME IndInv, NEW p \in Procs, EndProgram(p)
  PROVE  IndInv'
<1>1. /\ op = Idle /\ op' = Idle /\ cr3[p] # NULL /\ FreeSpace(cr3[p], free)
      /\ cr3' = [cr3 EXCEPT ![p] = NULL]
  BY DEF EndProgram
<1>2. PICK src : src = cr3[p]
  OBVIOUS
<1>3. PICK left : left = free
  OBVIOUS
<1>4. cr3 \in [Procs -> Frames \cup {NULL}]
  BY DEF IndInv, TaskShapes
<1>5. src \in Live
  BY <1>1, <1>2, TaskSpaces
<1>6. FreeSpace(src, left) /\ left \subseteq free
  BY <1>1, <1>2, <1>3
<1>7. /\ Shapes' /\ EntryInv' /\ TableInv' /\ FramesInv' /\ OwnedOnce' /\ FreeCountExact'
      /\ Live' = Live \ {src}
  BY <1>5, <1>6, Shrinks
<1>8. /\ cr3'[p] = NULL /\ \A q \in Procs \ {p} : cr3'[q] = cr3[q]
      /\ cr3' \in [Procs -> Frames \cup {NULL}]
  BY <1>1, <1>4
<1>9. TaskShapes' /\ OpInv'
  BY <1>1, <1>8 DEF TaskShapes, OpInv
<1>10. OneSpaceEach'
  BY <1>8 DEF IndInv, OneSpaceEach
<1>11. LiveInv'
  <2>1. \A q \in Procs \ {p} : cr3[q] # src
    BY <1>1, <1>2 DEF IndInv, OneSpaceEach
  <2>2. {cr3'[q] : q \in Procs} \ {NULL} = ({cr3[q] : q \in Procs} \ {NULL}) \ {src}
    <3>1. ASSUME NEW x, x # NULL
          PROVE  (\E q \in Procs : cr3'[q] = x) <=> (\E q \in Procs : cr3[q] = x) /\ x # src
      BY <1>1, <1>2, <1>8, <2>1, <3>1
    <3>. QED
      BY <3>1
  <2>3. Live' = {cr3'[q] : q \in Procs} \ {NULL}
    BY <1>1, <1>7, <2>2, TaskSpaces
  <2>. QED
    BY <1>1, <2>3 DEF LiveInv
<1>. QED
  BY <1>7, <1>9, <1>10, <1>11 DEF IndInv

LEMMA Start ==
  ASSUME SpacesInit
  PROVE  IndInv
<1>1. /\ P \in Nat \ {0} /\ R \in Nat \ {0} /\ KernelTop \in Nat \ {0} /\ R * P \in Nat
      /\ HeapPages \in Nat \ {0} /\ HeapPages <= P - 1 /\ KernelTop + HeapPages + 2 <= R * P
      /\ HeapRegion \in Regions /\ HeapRegion - 1 \in Regions /\ P - 1 \in 0 .. P - 1
  <2>1. P \in Nat \ {0} /\ R \in Nat \ {0} /\ RamTop \in Nat /\ KernelTop \in Nat \ {0}
    BY SizeAssumption
  <2>2. R * P \in Nat /\ RamTop <= R * P
    BY <2>1, SizeAssumption
  <2>3. /\ HeapRegion \in 1 .. R - 1 /\ HeapPages \in 1 .. P - 1
        /\ KernelTop + HeapPages + 2 <= RamTop
    BY <2>1, HeapAssumption
  <2>4. HeapRegion \in Regions /\ HeapRegion - 1 \in Regions
    BY <2>1, <2>3 DEF Regions
  <2>. QED
    BY <2>1, <2>2, <2>3, <2>4
<1>2. 0 \in Frames /\ \A l \in 0 .. HeapPages - 1 : HeapFrame(l) \in Frames
  BY <1>1 DEF Frames, HeapFrame
<1>3. \A r \in Regions : SplitLeaves(r, TRUE) \in [0 .. P - 1 -> LeafRec]
  <2>1. SUFFICES ASSUME NEW r \in Regions PROVE SplitLeaves(r, TRUE) \in [0 .. P - 1 -> LeafRec]
    OBVIOUS
  <2>2. \A l \in 0 .. P - 1 : [frame |-> r * P + l, user |-> TRUE] \in LeafRec
    BY PageOf DEF LeafRec
  <2>. QED
    BY <2>2 DEF SplitLeaves
<1>4. /\ [frame |-> 0, user |-> FALSE] \in LeafRec
      /\ \A l \in 0 .. HeapPages - 1 : [frame |-> HeapFrame(l), user |-> FALSE] \in LeafRec
  BY <1>2 DEF LeafRec
<1>5. HeapLeaves \in [0 .. P - 1 -> LeafRec]
  <2>1. ASSUME NEW l \in 0 .. P - 1 PROVE HeapLeaves[l] \in LeafRec
    <3>1. CASE l < HeapPages
      <4>1. HeapLeaves[l] = [frame |-> HeapFrame(l), user |-> FALSE]
        BY <3>1 DEF HeapLeaves
      <4>2. l \in 0 .. HeapPages - 1
        BY <3>1, <1>1
      <4>. QED
        BY <4>1, <4>2, <1>4
    <3>2. CASE l = HeapPages
      <4>1. HeapLeaves[l] = [frame |-> 0, user |-> FALSE]
        BY <3>2, <1>1 DEF HeapLeaves
      <4>. QED
        BY <4>1, <1>4
    <3>3. CASE l > HeapPages
      <4>1. ~(l < HeapPages) /\ l # HeapPages
        BY <3>3, <1>1
      <4>2. HeapLeaves[l] = SplitLeaves(HeapRegion, TRUE)[l]
        BY <4>1 DEF HeapLeaves
      <4>. QED
        BY <4>2, <1>1, <1>3
    <3>. QED
      BY <3>1, <3>2, <3>3, <1>1
  <2>. QED
    BY <2>1 DEF HeapLeaves
<1>6. GuardLeaves \in [0 .. P - 1 -> LeafRec]
  BY <1>1, <1>3, <1>4 DEF GuardLeaves
<1>7. Live = {} /\ Mappings = {} /\ Owned = {} /\ DOMAIN tables = KernelTables
  BY DEF SpacesInit, Live, Mappings, Owned, KernelTables
<1>8. Shapes
  <2>1. KernelTables \subseteq Frames
    BY Sizes DEF KernelTables
  <2>2. tables \in [KernelTables -> [0 .. P - 1 -> LeafRec]]
    BY <1>5, <1>6 DEF SpacesInit, KernelTables
  <2>3. spaces \in [{} -> SpaceRec]
    BY DEF SpacesInit
  <2>. QED
    BY <1>7, <2>1, <2>2, <2>3 DEF Shapes
<1>9. TaskShapes /\ OneSpaceEach /\ OpInv
  BY DEF SpacesInit, TaskShapes, OneSpaceEach, OpInv
<1>10. LiveInv
  BY <1>7 DEF SpacesInit, LiveInv
<1>11. EntryInv /\ TableInv /\ FramesInv /\ OwnedOnce /\ FreeCountExact
  BY <1>7 DEF SpacesInit, EntryInv, TableInv, FramesInv, OwnedOnce, FreeCountExact
<1>. QED
  BY <1>8, <1>9, <1>10, <1>11 DEF IndInv

LEMMA Step ==
  ASSUME IndInv, [SpacesNext]_spaceVars
  PROVE  IndInv'
<1>1. ASSUME NEW p \in Procs, LoadProgram(p) \/ ExecProgram(p) \/ EndProgram(p) PROVE IndInv'
  BY <1>1, LoadKeeps, ExecKeeps, EndKeeps
<1>2. ASSUME NEW p \in Procs, NEW q \in Procs, ForkProcess(p, q) PROVE IndInv'
  BY <1>2, ForkKeeps
<1>3. CASE MapPage
  BY <1>3, MapKeeps
<1>4. CASE NoFrame
  <2>1. PICK left : left = free
    OBVIOUS
  <2>2. op # Idle /\ left \subseteq free /\ FreeSpace(op.new, left) /\ op' = Idle /\ UNCHANGED cr3
    BY <1>4, <2>1 DEF NoFrame
  <2>. QED
    BY <2>2, GiveUpKeeps
<1>5. CASE NoTable
  <2>1. PICK left : left = IF op.kind = "fork" THEN free ELSE free \ {Frame1}
    OBVIOUS
  <2>2. op # Idle /\ left \subseteq free /\ FreeSpace(op.new, left) /\ op' = Idle /\ UNCHANGED cr3
    BY <1>5, <2>1 DEF NoTable
  <2>. QED
    BY <2>2, GiveUpKeeps
<1>6. CASE StartProgram
  BY <1>6, StartKeeps
<1>7. CASE ReplaceProgram
  BY <1>7, ReplaceKeeps
<1>8. CASE NoStack
  <2>1. PICK left : left = free
    OBVIOUS
  <2>2. op # Idle /\ left \subseteq free /\ FreeSpace(op.new, left) /\ op' = Idle /\ UNCHANGED cr3
    BY <1>8, <2>1 DEF NoStack, Built
  <2>. QED
    BY <2>2, GiveUpKeeps
<1>9. CASE UNCHANGED spaceVars
  <2>1. /\ Shapes' /\ EntryInv' /\ TableInv' /\ FramesInv' /\ OwnedOnce' /\ FreeCountExact'
        /\ Live' = Live /\ \A c : UserPages(c)' = UserPages(c)
    BY <1>9, MemoryUnchanged DEF spaceVars
  <2>2. op' = op /\ cr3' = cr3
    BY <1>9 DEF spaceVars
  <2>3. TaskShapes' /\ OneSpaceEach' /\ LiveInv'
    BY <2>1, <2>2 DEF IndInv, TaskShapes, OneSpaceEach, LiveInv
  <2>4. OpInv'
    <3>1. PICK new : new = op.new
      OBVIOUS
    <3>2. PICK src : src = op.src
      OBVIOUS
    <3>3. UserPages(new)' = UserPages(new) /\ UserPages(src)' = UserPages(src)
      BY <2>1
    <3>. QED
      BY <2>1, <2>2, <3>1, <3>2, <3>3 DEF IndInv, OpInv
  <2>. QED
    BY <2>1, <2>3, <2>4 DEF IndInv
<1>10. CASE OutOfFrames
  BY <1>9, <1>10 DEF OutOfFrames
<1>. QED
  BY <1>1, <1>2, <1>3, <1>4, <1>5, <1>6, <1>7, <1>8, <1>9, <1>10 DEF SpacesNext

THEOREM SpacesInduction == SpacesSpec => []IndInv
<1>1. SpacesInit => IndInv
  BY Start
<1>2. IndInv /\ [SpacesNext]_spaceVars => IndInv'
  BY Step
<1>. QED
  BY <1>1, <1>2, PTL DEF SpacesSpec

LEMMA KernelElsewhere ==
  ASSUME IndInv
  PROVE  SpacesExtendKernel
<1>1. SUFFICES ASSUME NEW c \in Live, NEW pg \in Frames \ UserPages(c)
               PROVE  Translate(c, pg) = KernelTranslate(pg)
  BY DEF SpacesExtendKernel
<1>. DEFINE r == Region(pg)  l == Leaf(pg)  t == Table(c, r)
<1>2. r \in Regions /\ l \in 0 .. P - 1 /\ pg = r * P + l
  BY PageParts
<1>3. /\ Translate(c, pg) = IF t = NULL THEN pg ELSE tables[t][l].frame
      /\ KernelTranslate(pg) = IF KernelEntry(r) = NULL THEN pg
                               ELSE tables[KernelEntry(r)][l].frame
  BY DEF Translate, KernelTranslate, Table
<1>4. r \in OwnEntries(c) => ~tables[t][l].user
  BY DEF UserPages, Table
<1>. HIDE DEF r, l
<1>5. CASE r \in OwnEntries(c)
  <2>1. HasOwn(c, r) /\ t # NULL
    BY <1>2, <1>5, OwnEntry, Sizes DEF IndInv, Shapes
  <2>2. tables[t][l].frame = pg /\ KernelEntry(r) = NULL
    BY <1>2, <1>4, <1>5, <2>1 DEF HasOwn
  <2>. QED
    BY <1>3, <2>1, <2>2
<1>6. CASE r \notin OwnEntries(c)
  <2>1. t = KernelEntry(r)
    BY <1>2, <1>6, OwnEntry DEF IndInv, Inherits
  <2>. QED
    BY <1>3, <2>1
<1>. QED
  BY <1>5, <1>6

LEMMA CountBound ==
  ASSUME IndInv
  PROVE  free_count \in 0 .. RamTop
<1>1. free \subseteq RAM /\ IsFiniteSet(RAM) /\ free_count = Cardinality(free)
  BY Sizes DEF IndInv, FramesInv, FreeCountExact
<1>2. Cardinality(free) <= Cardinality(RAM) /\ Cardinality(free) \in Nat
  BY <1>1, FS_Subset, FS_CardinalityType
<1>3. Cardinality(RAM) <= RamTop
  <2>1. KernelTop \in Nat /\ RamTop \in Nat /\ KernelTop <= RamTop
    BY SizeAssumption
  <2>2. Cardinality(KernelTop .. RamTop - 1) =
          IF KernelTop > RamTop - 1 THEN 0 ELSE RamTop - 1 - KernelTop + 1
    BY <2>1, FS_Interval
  <2>. QED
    BY <2>1, <2>2 DEF RAM
<1>4. Cardinality(RAM) \in Nat /\ RamTop \in Nat
  BY <1>1, SizeAssumption, FS_CardinalityType
<1>. QED
  BY <1>1, <1>2, <1>3, <1>4

(***************************************************************************)
(* The allocator knows its frames, every frame in use has one owner, and   *)
(* every space is the kernel's but for its own pages, in every order of    *)
(* loading, exec, fork, failure and exit (pmm.c, vmm.c).                   *)
(***************************************************************************)
THEOREM MemoryIsSound == SpacesSpec => []MemorySound
<1>1. IndInv => MemorySound
  <2>1. SUFFICES ASSUME IndInv PROVE MemorySound
    OBVIOUS
  <2>2. SpacesTypeOK
    BY <2>1, CountBound DEF IndInv, FramesInv, LiveInv, SpacesTypeOK
  <2>. QED
    BY <2>1, <2>2, KernelElsewhere DEF IndInv, MemorySound
<1>. QED
  BY <1>1, SpacesInduction, PTL

(***************************************************************************)
(* When sched_fork starts the child, its pages are its parent's.           *)
(***************************************************************************)
THEOREM ForksCopyAll == SpacesSpec => ForkCopiesAll
<1>1. ASSUME IndInv, [SpacesNext]_spaceVars, op # Idle, op.kind = "fork", cr3' # cr3
      PROVE  UserPages(op.new) = UserPages(op.src)
  <2>1. StartProgram
    BY <1>1 DEF SpacesNext, spaceVars, LoadProgram, ExecProgram, EndProgram, ForkProcess, Build,
                OutOfFrames, MapPage, NoFrame, NoTable, ReplaceProgram, NoStack
  <2>2. op.todo = {}
    BY <2>1 DEF StartProgram, Built
  <2>. QED
    BY <1>1, <2>2 DEF IndInv, OpInv
<1>2. IndInv /\ [SpacesNext]_spaceVars
        => [op # Idle /\ op.kind = "fork" /\ cr3' # cr3
              => UserPages(op.new) = UserPages(op.src)]_spaceVars
  BY <1>1
<1>. QED
  BY <1>2, SpacesInduction, PTL DEF SpacesSpec, ForkCopiesAll

-----------------------------------------------------------------------------
(***************************************************************************)
(* Frames that are lost.                                                   *)
(***************************************************************************)

\* A frame leaves the free ones and those in use: it was lost.
LEMMA LostOne ==
  ASSUME IndInv, NEW f \in free, free' \cup Owned' = (free \cup Owned) \ {f}
  PROVE  Lost \subseteq Lost' /\ Cardinality(Lost') = Cardinality(Lost) + 1
<1>1. f \in RAM \ BootFrames /\ f \notin Lost
  BY DEF IndInv, FramesInv, Lost
<1>2. Lost' = Lost \cup {f}
  BY <1>1 DEF Lost
<1>3. IsFiniteSet(Lost)
  BY Sizes, FS_Subset DEF Lost
<1>. QED
  BY <1>1, <1>2, <1>3, FS_AddElement

LEMMA LostSame ==
  ASSUME free' \cup Owned' = free \cup Owned
  PROVE  Lost' = Lost
  BY DEF Lost

\* The frames after a space is given back.
LEMMA GivenBack ==
  ASSUME IndInv, NEW c \in Live, FreeSpace(c, free)
  PROVE  Lost' = Lost
<1>1. PICK left : left = free
  OBVIOUS
<1>2. FreeSpace(c, left) /\ left \subseteq free
  BY <1>1
<1>3. free' \cup Owned' = left \cup Owned
  BY <1>2, Shrinks
<1>. QED
  BY <1>1, <1>3, LostSame

LEMMA BuildLoses ==
  ASSUME IndInv, NEW kind, NEW p, NEW src, NEW pages, Build(kind, p, src, pages)
  PROVE  Lost' = Lost
<1>1. PICK new : new = Frame1
  OBVIOUS
<1>2. free' \cup Owned' = free \cup Owned
  BY <1>1, BuildEffect
<1>. QED
  BY <1>2, LostSame

\* No program's segment or stack covers a region in which the kernel has a table
\* of its own.  Programs are linked at 2 MB (test/link.ld) and USER_STACK_TOP in
\* elf.c is at 7 MB, below HEAP_START at 16 MB; elf_exec does not check it.
ImagesAvoidHeap ==
  \A image \in Images : \A pg \in image \cup StackPages : KernelEntry(Region(pg)) = NULL

\* So only a fork copies pages into the kernel's tables.
OwnPagesOnly ==
  op # Idle /\ op.kind # "fork" => \A pg \in op.todo : KernelEntry(Region(pg)) = NULL

LossyStep ==
  /\ Lost \subseteq Lost' /\ Cardinality(Lost') = Cardinality(Lost) + 1
  /\ \/ op.kind = "fork" /\ op'.kind = "fork" /\ KernelEntry(Region(NextPage)) # NULL
     \/ op.kind # "fork" /\ op' = Idle /\ cr3' = cr3

LEMMA OwnPagesStep ==
  ASSUME ImagesAvoidHeap, OwnPagesOnly, [SpacesNext]_spaceVars
  PROVE  OwnPagesOnly'
<1>1. ASSUME NEW p \in Procs, LoadProgram(p) PROVE OwnPagesOnly'
  <2>1. PICK image \in Images : Build("load", p, NULL, image \cup StackPages)
    BY <1>1 DEF LoadProgram
  <2>2. op'.todo = image \cup StackPages
    BY <2>1 DEF Build
  <2>. QED
    BY <2>2 DEF OwnPagesOnly, ImagesAvoidHeap
<1>2. ASSUME NEW p \in Procs, ExecProgram(p) PROVE OwnPagesOnly'
  <2>1. PICK image \in Images : Build("exec", p, cr3[p], image \cup StackPages)
    BY <1>2 DEF ExecProgram
  <2>2. op'.todo = image \cup StackPages
    BY <2>1 DEF Build
  <2>. QED
    BY <2>2 DEF OwnPagesOnly, ImagesAvoidHeap
<1>3. ASSUME NEW p \in Procs, NEW q \in Procs, ForkProcess(p, q) PROVE OwnPagesOnly'
  BY <1>3 DEF ForkProcess, Build, OwnPagesOnly
<1>4. CASE MapPage
  <2>1. op # Idle /\ op' = [op EXCEPT !.todo = @ \ {NextPage}]
    BY <1>4 DEF MapPage
  <2>2. CASE op'.kind = "fork"
    BY <2>2 DEF OwnPagesOnly
  <2>3. CASE op'.kind # "fork"
    <3>1. op.kind # "fork" /\ op'.todo \subseteq op.todo
      BY <2>1, <2>3
    <3>. QED
      BY <2>1, <3>1 DEF OwnPagesOnly
  <2>. QED
    BY <2>2, <2>3
<1>5. CASE op' = Idle
  BY <1>5 DEF OwnPagesOnly
<1>6. CASE op' = op
  BY <1>6 DEF OwnPagesOnly
<1>. QED
  BY <1>1, <1>2, <1>3, <1>4, <1>5, <1>6
     DEF SpacesNext, spaceVars, EndProgram, OutOfFrames, NoFrame, NoTable, StartProgram,
         ReplaceProgram, NoStack

LEMMA MapLoses ==
  ASSUME IndInv, OwnPagesOnly, MapPage
  PROVE  Lost' = Lost \/ LossyStep
<1>1. PICK f1 : f1 = Frame1
  OBVIOUS
<1>2. PICK pg : pg = NextPage
  OBVIOUS
<1>3. /\ op # Idle /\ op \in OpRec /\ pg \in op.todo /\ op'.kind = op.kind
      /\ f1 \in free
  <2>1. op # Idle /\ op.todo # {} /\ op' = [op EXCEPT !.todo = @ \ {NextPage}]
    BY DEF MapPage
  <2>2. op \in OpRec
    BY <2>1 DEF IndInv, TaskShapes
  <2>3. pg \in op.todo
    BY <1>2, <2>1, NextIn DEF IndInv
  <2>4. op'.kind = op.kind
    BY <2>1, <2>2 DEF OpRec
  <2>5. f1 \in free
    BY <1>1, Allocated DEF MapPage, IndInv
  <2>. QED
    BY <2>1, <2>2, <2>3, <2>4, <2>5
<1>4. free' \cup Owned' = (free \cup Owned) \ {x \in {f1} : KernelEntry(Region(pg)) # NULL}
  <2>1. PICK new : new = op.new
    OBVIOUS
  <2>2. MapEffect(new, pg)
    BY <1>2, <2>1, MapDoes
  <2>. QED
    BY <1>1, <2>2 DEF MapEffect
<1>5. CASE KernelEntry(Region(pg)) = NULL
  <2>1. free' \cup Owned' = free \cup Owned
    BY <1>4, <1>5
  <2>. QED
    BY <2>1, LostSame
<1>6. CASE KernelEntry(Region(pg)) # NULL
  <2>1. free' \cup Owned' = (free \cup Owned) \ {f1}
    BY <1>4, <1>6
  <2>2. Lost \subseteq Lost' /\ Cardinality(Lost') = Cardinality(Lost) + 1
    BY <1>3, <2>1, LostOne
  <2>3. op.kind = "fork"
    BY <1>3, <1>6 DEF OwnPagesOnly
  <2>. QED
    BY <1>2, <1>3, <1>6, <2>2, <2>3 DEF LossyStep
<1>. QED
  BY <1>5, <1>6

LEMMA NoTableLoses ==
  ASSUME IndInv, NoTable
  PROVE  Lost' = Lost \/ LossyStep
<1>1. PICK left : left = IF op.kind = "fork" THEN free ELSE free \ {Frame1}
  OBVIOUS
<1>2. PICK new : new = op.new
  OBVIOUS
<1>3. PICK f1 : f1 = Frame1
  OBVIOUS
<1>4. /\ op # Idle /\ op' = Idle /\ cr3' = cr3 /\ CanAlloc(1)
      /\ FreeSpace(new, left) /\ left \subseteq free /\ new \in Live
  BY <1>1, <1>2 DEF NoTable, IndInv, OpInv
<1>5. free' \cup Owned' = left \cup Owned
  BY <1>4, Shrinks
<1>6. CASE op.kind = "fork"
  BY <1>1, <1>5, <1>6, LostSame
<1>7. CASE op.kind # "fork"
  <2>1. f1 \in free /\ f1 \notin Owned
    BY <1>3, <1>4, Allocated, FreshFrame DEF IndInv
  <2>2. free' \cup Owned' = (free \cup Owned) \ {f1}
    BY <1>1, <1>3, <1>5, <1>7, <2>1
  <2>3. Lost \subseteq Lost' /\ Cardinality(Lost') = Cardinality(Lost) + 1
    BY <2>1, <2>2, LostOne
  <2>. QED
    BY <1>4, <1>7, <2>3 DEF LossyStep
<1>. QED
  BY <1>6, <1>7

(***************************************************************************)
(* When programs are linked clear of the heap, a step loses at most one    *)
(* frame, and only where a fork copies a page into a table it shares with  *)
(* the kernel or a program's page finds no frame for its table.            *)
(***************************************************************************)
THEOREM LossIsBounded ==
  ASSUME ImagesAvoidHeap
  PROVE  SpacesSpec => LossBounded
<1>1. ASSUME IndInv, OwnPagesOnly, [SpacesNext]_spaceVars
      PROVE  Lost' = Lost \/ LossyStep
  <2>1. ASSUME NEW p \in Procs, LoadProgram(p) \/ ExecProgram(p) \/ EndProgram(p)
        PROVE  Lost' = Lost
    <3>1. CASE LoadProgram(p)
      BY <1>1, <3>1, BuildLoses DEF LoadProgram
    <3>2. CASE ExecProgram(p)
      BY <1>1, <3>2, BuildLoses DEF ExecProgram
    <3>3. CASE EndProgram(p)
      BY <1>1, <3>3, TaskSpaces, GivenBack DEF EndProgram
    <3>. QED
      BY <2>1, <3>1, <3>2, <3>3
  <2>2. ASSUME NEW p \in Procs, NEW q \in Procs, ForkProcess(p, q) PROVE Lost' = Lost
    BY <1>1, <2>2, BuildLoses DEF ForkProcess
  <2>3. CASE MapPage
    BY <1>1, <2>3, MapLoses
  <2>4. CASE NoFrame \/ NoStack
    BY <1>1, <2>4, GivenBack DEF NoFrame, NoStack, Built, IndInv, OpInv
  <2>5. CASE NoTable
    BY <1>1, <2>5, NoTableLoses
  <2>6. CASE ReplaceProgram
    <3>1. op.src \in Live /\ FreeSpace(op.src, free)
      <4>1. op # Idle /\ op.kind = "exec" /\ op \in OpRec
        BY <1>1, <2>6 DEF ReplaceProgram, Built, IndInv, TaskShapes
      <4>2. op.src = cr3[op.proc] /\ op.src # NULL /\ op.proc \in Procs
        BY <1>1, <4>1 DEF IndInv, OpInv, OpRec
      <4>. QED
        BY <1>1, <2>6, <4>2, TaskSpaces DEF ReplaceProgram
    <3>. QED
      BY <1>1, <3>1, GivenBack
  <2>7. CASE StartProgram \/ OutOfFrames \/ UNCHANGED spaceVars
    <3>1. UNCHANGED <<free, free_count, tables, spaces>>
      BY <2>7 DEF StartProgram, OutOfFrames, spaceVars
    <3>2. Owned' = Owned
      BY <1>1, <3>1, MemoryUnchanged
    <3>. QED
      BY <3>1, <3>2, LostSame
  <2>. QED
    BY <1>1, <2>1, <2>2, <2>3, <2>4, <2>5, <2>6, <2>7 DEF SpacesNext
<1>2. SpacesInit => OwnPagesOnly
  BY DEF SpacesInit, OwnPagesOnly
<1>3. OwnPagesOnly /\ [SpacesNext]_spaceVars => OwnPagesOnly'
  BY OwnPagesStep
<1>4. IndInv /\ OwnPagesOnly /\ [SpacesNext]_spaceVars
        => [\/ Lost' = Lost
            \/ /\ Lost \subseteq Lost' /\ Cardinality(Lost') = Cardinality(Lost) + 1
               /\ \/ op.kind = "fork" /\ op'.kind = "fork"
                     /\ KernelEntry(Region(NextPage)) # NULL
                  \/ op.kind # "fork" /\ op' = Idle /\ cr3' = cr3]_spaceVars
  BY <1>1 DEF LossyStep
<1>. QED
  BY <1>2, <1>3, <1>4, SpacesInduction, PTL DEF SpacesSpec, LossBounded

=============================================================================
