-------------------------------- MODULE Heap --------------------------------
(***************************************************************************)
(* The kernel heap (heap.c): blocks with a header each, found by walking   *)
(* from HEAP_START; first fit, split, and coalescing with the next block   *)
(* only; and the table of live allocations.  Nothing in heap.c is locked:  *)
(* a call made with interrupts on may be interrupted between two of its    *)
(* accesses to a header, and another task's call run.                      *)
(*                                                                         *)
(* Addresses and sizes are in units; a header takes Header of them.        *)
(***************************************************************************)
EXTENDS Integers, Sequences, FiniteSets

CONSTANTS
  HeapSize,    \* HEAP_INITIAL_SIZE
  Header,      \* sizeof(heap_block_t)
  MinSplit,    \* HEAP_MIN_SPLIT
  LeakCap,     \* HEAP_LEAK_CAP
  Asked,       \* the sizes callers ask for
  Users,       \* tasks that allocate and free
  Masked,      \* those that call with interrupts off
  MaxCalls     \* bound: calls in a behaviour

Null == -1

ASSUME HeapAssumption ==
  /\ {HeapSize, Header, MinSplit, LeakCap} \subseteq Nat /\ Header > 0 /\ HeapSize > Header
  /\ Asked \subseteq Nat \ {0} /\ Masked \subseteq Users /\ Null \notin Users

NoHeader == [size |-> 0, free |-> FALSE, magic |-> FALSE]
Block(size, free) == [size |-> size, free |-> free, magic |-> TRUE]

VARIABLES
  hdr,       \* what is at every address, where a header may be
  leaks,     \* g_leaks: pointers, in the table's order
  users,     \* where each user is in its call
  owned,     \* ghost: what each user got and has not freed: pointer and size asked
  irqOff,    \* who runs with interrupts off
  panic,     \* heap_panic
  calls

heapVars == <<hdr, leaks, users, owned, irqOff, panic, calls>>

NoCall == [pc |-> "idle", size |-> 0, at |-> 0]
HeapInit ==
  /\ hdr = [a \in 0..HeapSize - 1 |-> IF a = 0 THEN Block(HeapSize - Header, TRUE) ELSE NoHeader]
  /\ leaks = <<>> /\ irqOff = Null /\ panic = FALSE /\ calls = 0
  /\ users = [u \in Users |-> NoCall]
  /\ owned = [u \in Users |-> {}]

NextBlock(h, a) == a + Header + h[a].size
May(u) == ~panic /\ irqOff \in {Null, u}
At(u, pc) == May(u) /\ users[u].pc = pc
GoOn(u, pc, a) == users' = [users EXCEPT ![u].pc = pc, ![u].at = a] /\ UNCHANGED irqOff
Return(u) == users' = [users EXCEPT ![u] = NoCall] /\ irqOff' = Null
Panic == panic' = TRUE /\ UNCHANGED <<users, irqOff>>

CallHeap(u, what) == /\ users[u] = NoCall /\ May(u) /\ calls < MaxCalls
                     /\ users' = [users EXCEPT ![u] = what]
                     /\ irqOff' = IF u \in Masked THEN u ELSE irqOff
                     /\ calls' = calls + 1
                     /\ UNCHANGED <<hdr, leaks, owned, panic>>

(* ------------------------------- kmalloc ------------------------------- *)
CallAlloc(u) == \E size \in Asked : CallHeap(u, [pc |-> "walk", size |-> size, at |-> 0])

\* One block of the walk.
WalkBlock(u) ==
  /\ At(u, "walk")
  /\ LET a == users[u].at
     IN IF a >= HeapSize THEN Return(u) /\ UNCHANGED panic
        ELSE IF ~hdr[a].magic THEN Panic
        ELSE /\ UNCHANGED panic
             /\ IF hdr[a].free /\ hdr[a].size >= users[u].size THEN GoOn(u, "split", a)
                ELSE GoOn(u, "walk", NextBlock(hdr, a))
  /\ UNCHANGED <<hdr, leaks, owned, calls>>

\* Mutant of Rest: the rest's header is not taken off its size.
RestWhole(u) == hdr[users[u].at].size - users[u].size
Rest(u) == hdr[users[u].at].size - users[u].size - Header
\* The rest of the block becomes a free block of its own, if it is worth it.
Split(u) ==
  /\ At(u, "split")
  /\ LET a == users[u].at
         size == users[u].size
     IN hdr' = IF Rest(u) < MinSplit THEN hdr
               ELSE [hdr EXCEPT ![a].size = size, ![a + Header + size] = Block(Rest(u), TRUE)]
  /\ GoOn(u, "take", users[u].at)
  /\ UNCHANGED <<leaks, owned, panic, calls>>

Take(u) ==
  LET a == users[u].at
  IN /\ At(u, "take")
     /\ hdr' = [hdr EXCEPT ![a].free = FALSE]
     /\ leaks' = IF Len(leaks) < LeakCap THEN Append(leaks, a + Header) ELSE leaks
     /\ owned' = [owned EXCEPT ![u] = @ \cup {[ptr |-> a + Header, size |-> users[u].size]}]
     /\ Return(u) /\ UNCHANGED <<panic, calls>>

(* -------------------------------- kfree -------------------------------- *)
CallFree(u) == \E block \in owned[u] :
                 CallHeap(u, [pc |-> "free", size |-> block.size, at |-> block.ptr])

\* leak_del puts the table's last entry in the place of the one it removes.
Removed(t, ptr) ==
  LET found == {i \in DOMAIN t : t[i] = ptr}
      i == CHOOSE j \in found : \A k \in found : j <= k
  IN IF found = {} THEN t
     ELSE SubSeq([t EXCEPT ![i] = t[Len(t)]], 1, Len(t) - 1)

MarkFree(u) ==
  LET ptr == users[u].at
      a == ptr - Header
  IN /\ At(u, "free")
     /\ IF ~hdr[a].magic \/ hdr[a].free THEN Panic /\ UNCHANGED <<hdr, leaks, owned>>
        ELSE /\ hdr' = [hdr EXCEPT ![a].free = TRUE]
             /\ leaks' = Removed(leaks, ptr)
             /\ owned' = [owned EXCEPT ![u] = @ \ {[ptr |-> ptr, size |-> users[u].size]}]
             /\ GoOn(u, "join", a) /\ UNCHANGED panic
     /\ UNCHANGED calls

\* The block after it is absorbed if it is free; its header becomes data.
Coalesced(h, a) ==
  LET n == NextBlock(h, a)
  IN IF n < HeapSize /\ h[n].magic /\ h[n].free
     THEN [h EXCEPT ![a].size = @ + Header + h[n].size, ![n] = NoHeader] ELSE h
Join(u) == /\ At(u, "join") /\ hdr' = Coalesced(hdr, users[u].at)
           /\ Return(u) /\ UNCHANGED <<leaks, owned, panic, calls>>

HeapNext == \E u \in Users : \/ CallAlloc(u) \/ WalkBlock(u) \/ Split(u) \/ Take(u)
                             \/ CallFree(u) \/ MarkFree(u) \/ Join(u)
HeapSpec == HeapInit /\ [][HeapNext]_heapVars

(* ------------------------------ properties ----------------------------- *)
Blocks == {a \in 0..HeapSize - 1 : hdr[a].magic}
Granted == UNION {owned[u] : u \in Users}
Spans(block) == block.ptr..block.ptr + block.size - 1

\* The blocks fill the heap without a gap, each up to the next one or the end,
\* and no header stands inside a block: every walk meets all of them and ends.
Tiled == /\ 0 \in Blocks
         /\ \A a \in Blocks : /\ NextBlock(hdr, a) \in Blocks \cup {HeapSize}
                             /\ \A b \in Blocks : a < b => NextBlock(hdr, a) <= b

\* Memory that was handed out is handed out once, is as large as was asked for,
\* and belongs to a block in use; what nobody holds is free.
InUseOnce ==
  /\ \A u, v \in Users : \A b \in owned[u], c \in owned[v] :
       <<u, b>> # <<v, c>> => Spans(b) \cap Spans(c) = {}
  /\ \A b \in Granted : LET a == b.ptr - Header
                        IN a \in Blocks /\ ~hdr[a].free /\ hdr[a].size >= b.size
  /\ \A a \in Blocks : ~hdr[a].free => \E b \in Granted : b.ptr = a + Header

\* The leak tracker lists live allocations only, each once, and all of them as
\* long as its table never was full.
Tracked == /\ \A i, j \in DOMAIN leaks : leaks[i] = leaks[j] => i = j
           /\ \A i \in DOMAIN leaks : \E b \in Granted : b.ptr = leaks[i]
           /\ calls <= LeakCap => Len(leaks) = Cardinality(Granted)

\* When no call can be interrupted the heap is sound (heap.c), whatever the
\* order of allocations and frees: Tiled, InUseOnce, Tracked, and no panic.
HeapSound == Tiled /\ InUseOnce /\ Tracked /\ ~panic
=============================================================================
