----------------------------- MODULE HeapProofs -----------------------------
(***************************************************************************)
(* Proofs about Heap: when no call can be interrupted, every order of      *)
(* kmalloc and kfree leaves the blocks tiling the heap, hands memory out   *)
(* once, and keeps the table of live allocations true, for every size of   *)
(* the heap, of its headers and of the table.                              *)
(***************************************************************************)
EXTENDS Heap, FiniteSetTheorems, FunctionTheorems, TLAPS

Headers == [size : Nat, free : BOOLEAN, magic : BOOLEAN]
CallRec == [pc : {"idle", "walk", "split", "take", "free", "join"}, size : Nat, at : Nat]

Shapes ==
  /\ hdr \in [0..HeapSize - 1 -> Headers] /\ leaks \in Seq(Nat) /\ calls \in Nat
  /\ users \in [Users -> CallRec] /\ irqOff \in Users \cup {Null} /\ panic = FALSE
  /\ owned \in [Users -> SUBSET [ptr : Nat, size : Nat]]

\* A call in progress has the machine to itself.
Alone == \A u \in Users : /\ irqOff = u => users[u].pc # "idle"
                          /\ irqOff # u => users[u] = NoCall

\* What the locals of a call in progress refer to.
LocalsOf(u) ==
  /\ users[u].pc = "walk" => users[u].at \in Blocks \cup {HeapSize}
  /\ users[u].pc \in {"split", "take"} =>
       /\ users[u].at \in Blocks /\ hdr[users[u].at].free
       /\ hdr[users[u].at].size >= users[u].size
  /\ users[u].pc = "free" => [ptr |-> users[u].at, size |-> users[u].size] \in owned[u]
  /\ users[u].pc = "join" => users[u].at \in Blocks /\ hdr[users[u].at].free
CallInv == \A u \in Users : LocalsOf(u)

\* Different grants are different blocks, and the blocks in use are the granted ones.
Apart  == \A u, v \in Users : \A b \in owned[u], c \in owned[v] :
            b.ptr = c.ptr => u = v /\ b = c
Backs(a, b) == b.ptr = a + Header /\ ~hdr[a].free /\ hdr[a].size >= b.size
Backed == \A b \in Granted : \E a \in Blocks : Backs(a, b)
Held   == \A a \in Blocks : ~hdr[a].free => \E b \in Granted : b.ptr = a + Header

\* The table holds live allocations, each once, and all of them while there have
\* not been more calls than it has entries; a call in progress will add one.
Distinct(t) == \A i, j \in DOMAIN t : t[i] = t[j] => i = j
Has(t, ptr) == \E i \in DOMAIN t : t[i] = ptr
Live(ptr)   == \E b \in Granted : b.ptr = ptr
Asking == \E u \in Users : users[u].pc \in {"walk", "split", "take"}
LeaksInv ==
  /\ Distinct(leaks) /\ \A ptr : Has(leaks, ptr) => Live(ptr)
  /\ Len(leaks) <= calls /\ (Asking => Len(leaks) < calls)
  /\ calls <= LeakCap => \A ptr : Live(ptr) => Has(leaks, ptr)

HeapInv == Shapes /\ Alone /\ CallInv /\ Tiled /\ Apart /\ Backed /\ Held /\ LeaksInv

-----------------------------------------------------------------------------
(***************************************************************************)
(* Blocks.                                                                 *)
(***************************************************************************)

LEMMA Sizes == /\ HeapSize \in Nat /\ Header \in Nat /\ MinSplit \in Nat /\ LeakCap \in Nat
               /\ Header > 0 /\ HeapSize > Header /\ Null \notin Users
  BY HeapAssumption

LEMMA BlockFacts ==
  ASSUME Shapes, NEW a \in Blocks
  PROVE  /\ a \in Nat /\ a < HeapSize /\ a \in 0..HeapSize - 1
         /\ hdr[a] \in Headers /\ hdr[a].size \in Nat /\ hdr[a].magic
         /\ NextBlock(hdr, a) = a + Header + hdr[a].size
         /\ NextBlock(hdr, a) \in Nat /\ NextBlock(hdr, a) > a
<1>1. a \in 0..HeapSize - 1 /\ hdr[a].magic
  BY DEF Blocks
<1>2. a \in Nat /\ a < HeapSize
  BY <1>1, Sizes
<1>3. hdr[a] \in Headers
  BY <1>1 DEF Shapes
<1>4. hdr[a].size \in Nat
  BY <1>3 DEF Headers
<1>. QED
  BY <1>1, <1>2, <1>3, <1>4, Sizes DEF NextBlock

\* A pointer that was handed out leads to one block.
LEMMA OneBlock ==
  ASSUME Shapes, NEW a \in Blocks, NEW b \in Blocks, a + Header = b + Header
  PROVE  a = b
  BY BlockFacts, Sizes

\* Only the free flag of one block changes.
Flagged(a, v) == hdr' = [hdr EXCEPT ![a].free = v]

LEMMA FlagEffect ==
  ASSUME Shapes, Tiled, NEW a \in Blocks, NEW v \in BOOLEAN, Flagged(a, v)
  PROVE  /\ hdr' \in [0..HeapSize - 1 -> Headers] /\ Blocks' = Blocks /\ Tiled'
         /\ hdr'[a].free = v /\ \A b \in Blocks \ {a} : hdr'[b] = hdr[b]
         /\ \A b \in Blocks : hdr'[b].size = hdr[b].size
<1>. DEFINE new == [hdr[a] EXCEPT !.free = v]
<1>1. hdr' = [hdr EXCEPT ![a] = new]
  BY DEF Flagged
<1>2. a \in 0..HeapSize - 1 /\ hdr[a] \in Headers /\ hdr[a].magic
  BY BlockFacts
<1>3. new \in Headers /\ new.free = v /\ new.size = hdr[a].size /\ new.magic = hdr[a].magic
  BY <1>2 DEF Headers
<1>. HIDE DEF new
<1>4. /\ hdr' \in [0..HeapSize - 1 -> Headers] /\ hdr'[a] = new
      /\ \A b \in 0..HeapSize - 1 : b # a => hdr'[b] = hdr[b]
  BY <1>1, <1>2, <1>3 DEF Shapes
<1>5. \A b \in 0..HeapSize - 1 : hdr'[b].magic = hdr[b].magic /\ hdr'[b].size = hdr[b].size
  BY <1>3, <1>4
<1>6. Blocks' = Blocks
  BY <1>5 DEF Blocks
<1>7. Tiled'
  <2>1. \A b \in Blocks : NextBlock(hdr, b)' = NextBlock(hdr, b)
    BY <1>5 DEF NextBlock, Blocks
  <2>. QED
    BY <1>6, <2>1 DEF Tiled
<1>. QED
  BY <1>3, <1>4, <1>5, <1>6, <1>7 DEF Blocks

\* The block a is cut after its header and size units.
Cut(a, size, rest) ==
  hdr' = [hdr EXCEPT ![a].size = size, ![a + Header + size] = Block(rest, TRUE)]

LEMMA CutEffect ==
  ASSUME Shapes, Tiled, NEW a \in Blocks, hdr[a].free, NEW size \in Nat, NEW rest \in Nat,
         hdr[a].size = size + Header + rest, Cut(a, size, rest)
  PROVE  /\ hdr' \in [0..HeapSize - 1 -> Headers] /\ Tiled'
         /\ Blocks' = Blocks \cup {a + Header + size} /\ hdr'[a + Header + size].free
         /\ hdr'[a].free /\ hdr'[a].size = size
         /\ \A b \in Blocks \ {a} : hdr'[b] = hdr[b]
<1>. DEFINE n == a + Header + size  end == NextBlock(hdr, a)
            new == [hdr[a] EXCEPT !.size = size]  second == Block(rest, TRUE)
<1>1. /\ a \in Nat /\ a \in 0..HeapSize - 1 /\ hdr[a] \in Headers /\ hdr[a].magic
      /\ end = n + Header + rest /\ end \in Nat /\ n \in Nat /\ a < n /\ n < end
  BY BlockFacts, Sizes
<1>2. end <= HeapSize /\ n \in 0..HeapSize - 1
  <2>1. end \in Blocks \cup {HeapSize}
    BY DEF Tiled
  <2>2. end <= HeapSize
    BY <2>1, <1>1, BlockFacts, Sizes
  <2>. QED
    BY <2>2, <1>1, Sizes
<1>3. n \notin Blocks
  BY <1>1, BlockFacts DEF Tiled
<1>4. /\ new \in Headers /\ new.free = hdr[a].free /\ new.magic = hdr[a].magic /\ new.size = size
  BY <1>1 DEF Headers
<1>5. second \in Headers /\ second.free = TRUE /\ second.magic = TRUE /\ second.size = rest
  BY DEF Block, Headers
<1>. HIDE DEF new, second
<1>6. hdr' = [[hdr EXCEPT ![a] = new] EXCEPT ![n] = second]
  BY <1>1 DEF Cut, new, second
<1>. HIDE DEF n, end
<1>7. /\ hdr' \in [0..HeapSize - 1 -> Headers] /\ hdr'[a] = new /\ hdr'[n] = second
      /\ \A b \in 0..HeapSize - 1 : b # a /\ b # n => hdr'[b] = hdr[b]
  BY <1>1, <1>2, <1>4, <1>5, <1>6 DEF Shapes
<1>8. Blocks' = Blocks \cup {n}
  BY <1>1, <1>2, <1>4, <1>5, <1>7 DEF Blocks
<1>9. NextBlock(hdr, a)' = n /\ NextBlock(hdr, n)' = end
  BY <1>1, <1>4, <1>5, <1>7 DEF NextBlock, n
<1>10. \A b \in Blocks \ {a} : hdr'[b] = hdr[b] /\ NextBlock(hdr, b)' = NextBlock(hdr, b)
  <2>1. \A b \in Blocks \ {a} : hdr'[b] = hdr[b]
    BY <1>3, <1>7, BlockFacts
  <2>. QED
    BY <2>1 DEF NextBlock
<1>11. Tiled'
  <2>1. 0 \in Blocks'
    BY <1>8 DEF Tiled
  <2>2. ASSUME NEW b \in Blocks'
        PROVE  /\ NextBlock(hdr, b)' \in Blocks' \cup {HeapSize}
               /\ \A c \in Blocks' : b < c => NextBlock(hdr, b)' <= c
    <3>1. CASE b = a
      <4>1. \A c \in Blocks : a < c => end <= c
        BY DEF Tiled, end
      <4>. QED
        BY <3>1, <4>1, <1>1, <1>8, <1>9, BlockFacts
    <3>2. CASE b = n
      <4>1. end \in Blocks \cup {HeapSize} /\ \A c \in Blocks : a < c => end <= c
        BY DEF Tiled, end
      <4>2. \A c \in Blocks : n < c => end <= c
        BY <4>1, <1>1, BlockFacts
      <4>3. NextBlock(hdr, b)' = end
        BY <3>2, <1>9
      <4>4. ASSUME NEW c \in Blocks', b < c PROVE end <= c
        <5>1. n < c /\ c \in Blocks
          BY <3>2, <4>4, <1>1, <1>8
        <5>. QED
          BY <4>2, <5>1
      <4>. QED
        BY <4>1, <4>3, <4>4, <1>8
    <3>3. CASE b \in Blocks \ {a}
      <4>1. /\ NextBlock(hdr, b) \in Blocks \cup {HeapSize}
            /\ \A c \in Blocks : b < c => NextBlock(hdr, b) <= c
        BY <3>3 DEF Tiled
      <4>2. b \in Nat /\ NextBlock(hdr, b) \in Nat
        BY <3>3, BlockFacts
      <4>3. b < n => NextBlock(hdr, b) <= n
        <5>1. b < a => NextBlock(hdr, b) <= a
          BY <4>1
        <5>2. a < b => end <= b
          BY <3>3 DEF Tiled, end
        <5>. QED
          BY <5>1, <5>2, <4>2, <3>3, <1>1
      <4>. QED
        BY <3>3, <4>1, <4>3, <1>8, <1>10
    <3>. QED
      BY <3>1, <3>2, <3>3, <1>8
  <2>. QED
    BY <2>1, <2>2 DEF Tiled
<1>. QED
  BY <1>4, <1>5, <1>7, <1>8, <1>10, <1>11 DEF n

\* The block n, next after a, becomes part of it.
Absorbed(a, n, size) == hdr' = [hdr EXCEPT ![a].size = size, ![n] = NoHeader]

LEMMA AbsorbEffect ==
  ASSUME Shapes, Tiled, NEW a \in Blocks, NEW n \in Blocks, n = NextBlock(hdr, a), NEW size,
         size = hdr[a].size + Header + hdr[n].size, Absorbed(a, n, size)
  PROVE  /\ hdr' \in [0..HeapSize - 1 -> Headers] /\ Tiled'
         /\ Blocks' = Blocks \ {n} /\ a # n /\ hdr'[a].free = hdr[a].free
         /\ \A b \in Blocks \ {a, n} : hdr'[b] = hdr[b]
<1>. DEFINE end == NextBlock(hdr, n)  new == [hdr[a] EXCEPT !.size = size]
<1>1. /\ a \in Nat /\ a \in 0..HeapSize - 1 /\ hdr[a] \in Headers /\ hdr[a].magic
      /\ n \in Nat /\ n \in 0..HeapSize - 1 /\ hdr[n] \in Headers /\ a < n
      /\ end \in Nat /\ n < end /\ size \in Nat /\ end = a + Header + size
  <2>1. n = a + Header + hdr[a].size /\ end = n + Header + hdr[n].size
    BY BlockFacts
  <2>. QED
    BY <2>1, BlockFacts, Sizes
<1>2. /\ new \in Headers /\ new.free = hdr[a].free /\ new.magic = hdr[a].magic /\ new.size = size
  BY <1>1 DEF Headers
<1>3. NoHeader \in Headers /\ NoHeader.magic = FALSE
  BY DEF NoHeader, Headers
<1>. HIDE DEF new
<1>4. hdr' = [[hdr EXCEPT ![a] = new] EXCEPT ![n] = NoHeader]
  BY <1>1 DEF Absorbed, new
<1>. HIDE DEF end
<1>5. /\ hdr' \in [0..HeapSize - 1 -> Headers] /\ hdr'[a] = new /\ hdr'[n] = NoHeader
      /\ \A b \in 0..HeapSize - 1 : b # a /\ b # n => hdr'[b] = hdr[b]
  BY <1>1, <1>2, <1>3, <1>4 DEF Shapes
<1>6. Blocks' = Blocks \ {n}
  BY <1>1, <1>2, <1>3, <1>5 DEF Blocks
<1>7. NextBlock(hdr, a)' = end
  BY <1>1, <1>2, <1>5 DEF NextBlock
<1>8. \A b \in Blocks \ {a, n} : hdr'[b] = hdr[b] /\ NextBlock(hdr, b)' = NextBlock(hdr, b)
  <2>1. \A b \in Blocks \ {a, n} : hdr'[b] = hdr[b]
    BY <1>5, BlockFacts
  <2>. QED
    BY <2>1 DEF NextBlock
<1>9. \A b \in Blocks : b \in Nat
  BY BlockFacts
<1>10. Tiled'
  <2>1. 0 \in Blocks'
    BY <1>1, <1>6 DEF Tiled
  <2>2. ASSUME NEW b \in Blocks'
        PROVE  /\ NextBlock(hdr, b)' \in Blocks' \cup {HeapSize}
               /\ \A c \in Blocks' : b < c => NextBlock(hdr, b)' <= c
    <3>1. CASE b = a
      <4>1. /\ end \in Blocks \cup {HeapSize} /\ \A c \in Blocks : n < c => end <= c
            /\ \A c \in Blocks : a < c => n <= c
        BY DEF Tiled, end
      <4>2. NextBlock(hdr, b)' = end /\ end # n
        BY <3>1, <1>1, <1>7
      <4>3. ASSUME NEW c \in Blocks', b < c PROVE end <= c
        <5>1. c \in Blocks /\ c # n /\ a < c /\ c \in Nat
          BY <3>1, <4>3, <1>6, <1>9
        <5>2. n < c
          BY <4>1, <5>1, <1>1
        <5>. QED
          BY <4>1, <5>1, <5>2
      <4>. QED
        BY <4>1, <4>2, <4>3, <1>6
    <3>2. CASE b \in Blocks \ {a, n}
      <4>1. /\ NextBlock(hdr, b) \in Blocks \cup {HeapSize}
            /\ \A c \in Blocks : b < c => NextBlock(hdr, b) <= c
        BY <3>2 DEF Tiled
      <4>2. NextBlock(hdr, b) # n
        <5>1. b < a => NextBlock(hdr, b) <= a
          BY <4>1
        <5>2. a < b => n < b
          BY <3>2, <1>1, <1>9 DEF Tiled
        <5>3. NextBlock(hdr, b) \in Nat /\ b < NextBlock(hdr, b) /\ b \in Nat
          BY <3>2, BlockFacts
        <5>. QED
          BY <5>1, <5>2, <5>3, <3>2, <1>1
      <4>. QED
        BY <3>2, <4>1, <4>2, <1>6, <1>8
    <3>. QED
      BY <3>1, <3>2, <1>6
  <2>. QED
    BY <2>1, <2>2 DEF Tiled
<1>. QED
  BY <1>1, <1>2, <1>5, <1>6, <1>8, <1>10

\* kfree joins its block with the next one at most.
LEMMA JoinEffect ==
  ASSUME Shapes, Tiled, NEW a \in Blocks, hdr[a].free, hdr' = Coalesced(hdr, a)
  PROVE  /\ hdr' \in [0..HeapSize - 1 -> Headers] /\ Tiled' /\ Blocks' \subseteq Blocks
         /\ a \in Blocks' /\ hdr'[a].free /\ \A b \in Blocks \ Blocks' : hdr[b].free
         /\ \A b \in Blocks' \ {a} : hdr'[b] = hdr[b]
<1>. DEFINE joins == LET n == NextBlock(hdr, a) IN n < HeapSize /\ hdr[n].magic /\ hdr[n].free
<1>1. CASE ~joins
  <2>1. hdr' = hdr
    BY <1>1 DEF Coalesced
  <2>2. Blocks' = Blocks /\ Tiled'
    BY <2>1 DEF Blocks, Tiled, NextBlock
  <2>. QED
    BY <2>1, <2>2 DEF Shapes
<1>2. CASE joins
  <2>1. PICK n : n = NextBlock(hdr, a)
    OBVIOUS
  <2>2. PICK size : size = hdr[a].size + Header + hdr[n].size
    OBVIOUS
  <2>3. n < HeapSize /\ hdr[n].free /\ n \in Blocks
    <3>1. NextBlock(hdr, a) \in Blocks \cup {HeapSize}
      BY DEF Tiled
    <3>. QED
      BY <3>1, <2>1, <1>2, Sizes
  <2>4. Absorbed(a, n, size)
    BY <1>2, <2>1, <2>2 DEF Coalesced, Absorbed
  <2>. QED
    BY <2>1, <2>2, <2>3, <2>4, AbsorbEffect
<1>. QED
  BY <1>1, <1>2

-----------------------------------------------------------------------------
(***************************************************************************)
(* The table of live allocations.                                          *)
(***************************************************************************)

\* leak_del takes the pointer out and moves the last entry into its place.
LEMMA RemovedIs ==
  ASSUME NEW t \in Seq(Nat), Distinct(t), NEW ptr
  PROVE  /\ Removed(t, ptr) \in Seq(Nat) /\ Distinct(Removed(t, ptr))
         /\ Len(Removed(t, ptr)) <= Len(t)
         /\ \A p : Has(Removed(t, ptr), p) <=> Has(t, p) /\ p # ptr
<1>. DEFINE found == {i \in DOMAIN t : t[i] = ptr}
            r == Removed(t, ptr)
<1>1. CASE found = {}
  BY <1>1 DEF Removed, Has
<1>2. CASE found # {}
  <2>1. PICK i \in DOMAIN t : t[i] = ptr
    BY <1>2
  <2>2. \A j \in DOMAIN t : t[j] = ptr => j = i
    BY <2>1 DEF Distinct
  <2>3. i = CHOOSE j \in found : \A k \in found : j <= k
    <3>1. found = {i} /\ i <= i
      BY <2>1, <2>2
    <3>. QED
      BY <3>1
  <2>. DEFINE last == Len(t)  s == [t EXCEPT ![i] = t[last]]
  <2>4. r = SubSeq(s, 1, last - 1)
    BY <1>2, <2>3 DEF Removed
  <2>5. /\ last \in Nat /\ last >= 1 /\ i \in 1..last /\ DOMAIN t = 1..last
        /\ \A j \in 1..last : t[j] \in Nat
    BY <2>1
  <2>6. /\ s \in Seq(Nat) /\ Len(s) = last /\ s[i] = t[last]
        /\ \A j \in 1..last : j # i => s[j] = t[j]
    BY <2>1, <2>5
  <2>. HIDE DEF s, last, r
  <2>7. /\ r \in Seq(Nat) /\ Len(r) = last - 1 /\ DOMAIN r = 1..(last - 1)
        /\ \A j \in 1..(last - 1) : r[j] = s[j]
    BY <2>4, <2>5, <2>6
  <2>8. \A j \in DOMAIN r : /\ r[j] = IF j = i THEN t[last] ELSE t[j]
                            /\ j \in DOMAIN t /\ j # last
    BY <2>5, <2>6, <2>7
  <2>9. Distinct(r)
    BY <2>5, <2>8 DEF Distinct
  <2>10. ASSUME NEW p, Has(r, p) PROVE Has(t, p) /\ p # ptr
    BY <2>2, <2>5, <2>8, <2>10 DEF Has
  <2>11. ASSUME NEW p, Has(t, p), p # ptr PROVE Has(r, p)
    <3>1. PICK j \in DOMAIN t : t[j] = p
      BY <2>11 DEF Has
    <3>2. j # i
      BY <2>1, <2>11, <3>1
    <3>3. CASE j = last
      <4>1. i \in DOMAIN r /\ r[i] = t[last]
        BY <3>2, <3>3, <2>5, <2>6, <2>7
      <4>. QED
        BY <3>1, <3>3, <4>1 DEF Has
    <3>4. CASE j # last
      <4>1. j \in DOMAIN r /\ r[j] = t[j]
        BY <3>2, <3>4, <2>5, <2>6, <2>7
      <4>. QED
        BY <3>1, <4>1 DEF Has
    <3>. QED
      BY <3>3, <3>4
  <2>12. Len(r) <= Len(t)
    BY <2>5, <2>7 DEF last
  <2>. QED
    BY <2>7, <2>9, <2>10, <2>11, <2>12 DEF r
<1>. QED
  BY <1>1, <1>2

-----------------------------------------------------------------------------
(***************************************************************************)
(* Calls: who makes one has the machine until it returns.                  *)
(***************************************************************************)

Pcs == {"walk", "split", "take", "free", "join"}
OnlyOf(u) == \A v \in Users \ {u} : users[v] = NoCall

LEMMA Idle == NoCall \in CallRec /\ NoCall.pc = "idle"
  BY DEF NoCall, CallRec

LEMMA Running ==
  ASSUME Shapes, Alone, NEW u \in Users, NEW pc \in Pcs, At(u, pc)
  PROVE  irqOff = u /\ OnlyOf(u) /\ users[u] \in CallRec /\ users[u].pc = pc
<1>1. users[u] \in CallRec /\ users[u].pc = pc /\ pc # "idle"
  BY DEF Shapes, At, Pcs
<1>2. irqOff = u
  BY <1>1, Idle DEF Alone
<1>. QED
  BY <1>1, <1>2 DEF Alone, OnlyOf

LEMMA GoesOn ==
  ASSUME Shapes, NEW u \in Users, irqOff = u, OnlyOf(u),
         NEW pc \in Pcs, NEW a \in Nat, GoOn(u, pc, a)
  PROVE  /\ users' \in [Users -> CallRec] /\ irqOff' \in Users \cup {Null} /\ Alone'
         /\ users'[u].pc = pc /\ users'[u].at = a /\ users'[u].size = users[u].size
         /\ \A v \in Users \ {u} : users'[v] = NoCall
<1>. DEFINE half == [users[u] EXCEPT !.pc = pc]  rec == [half EXCEPT !.at = a]
<1>1. users[u] \in CallRec /\ pc \in {"idle", "walk", "split", "take", "free", "join"} /\ pc # "idle"
  BY DEF Shapes, Pcs
<1>2. half \in CallRec /\ half.pc = pc /\ half.size = users[u].size
  BY <1>1 DEF CallRec
<1>. HIDE DEF half
<1>3. rec \in CallRec /\ rec.pc = pc /\ rec.at = a /\ rec.size = users[u].size
  BY <1>2 DEF CallRec
<1>. HIDE DEF rec
<1>4. users' = [users EXCEPT ![u] = rec] /\ irqOff' = u
  BY DEF GoOn, rec, half
<1>5. users'[u] = rec /\ users' \in [Users -> CallRec] /\ \A v \in Users \ {u} : users'[v] = NoCall
  BY <1>3, <1>4 DEF Shapes, OnlyOf
<1>6. Alone'
  BY <1>1, <1>3, <1>4, <1>5 DEF Alone
<1>. QED
  BY <1>3, <1>4, <1>5, <1>6

LEMMA Returned ==
  ASSUME Shapes, NEW u \in Users, OnlyOf(u), Return(u)
  PROVE  /\ users' \in [Users -> CallRec] /\ irqOff' \in Users \cup {Null} /\ Alone'
         /\ \A v \in Users : users'[v] = NoCall
<1>1. users' = [users EXCEPT ![u] = NoCall] /\ irqOff' = Null
  BY DEF Return
<1>2. users' \in [Users -> CallRec] /\ \A v \in Users : users'[v] = NoCall
  BY <1>1, Idle DEF Shapes, OnlyOf
<1>. QED
  BY <1>1, <1>2, Sizes DEF Alone

LEMMA Called ==
  ASSUME Shapes, Alone, Masked = Users, NEW u \in Users, NEW rec \in CallRec, rec.pc \in Pcs,
         CallHeap(u, rec)
  PROVE  /\ users' \in [Users -> CallRec] /\ irqOff' \in Users \cup {Null} /\ Alone'
         /\ users'[u] = rec /\ \A v \in Users \ {u} : users'[v] = NoCall
         /\ \A v \in Users : users[v] = NoCall
         /\ calls' = calls + 1 /\ UNCHANGED <<hdr, leaks, owned, panic>>
<1>1. users[u] = NoCall /\ irqOff = Null
  BY Idle DEF CallHeap, May, Alone
<1>2. \A v \in Users : users[v] = NoCall
  BY <1>1, Sizes DEF Alone
<1>3. /\ users' = [users EXCEPT ![u] = rec] /\ irqOff' = u /\ calls' = calls + 1
      /\ UNCHANGED <<hdr, leaks, owned, panic>>
  BY DEF CallHeap
<1>4. users' \in [Users -> CallRec] /\ users'[u] = rec /\ \A v \in Users \ {u} : users'[v] = NoCall
  BY <1>2, <1>3 DEF Shapes
<1>5. rec.pc # "idle"
  BY DEF Pcs
<1>6. Alone'
  BY <1>3, <1>4, <1>5 DEF Alone
<1>. QED
  BY <1>2, <1>3, <1>4, <1>6

\* Only the caller's locals matter: nobody else is in a call.
LEMMA LocalsSuffice ==
  ASSUME NEW u \in Users, \A v \in Users \ {u} : users'[v] = NoCall, LocalsOf(u)'
  PROVE  CallInv'
<1>1. ASSUME NEW v \in Users, users'[v] = NoCall PROVE LocalsOf(v)'
  BY <1>1, Idle DEF LocalsOf
<1>. QED
  BY <1>1 DEF CallInv

LEMMA NoLocals ==
  ASSUME \A v \in Users : users'[v] = NoCall
  PROVE  CallInv' /\ ~Asking'
<1>1. ASSUME NEW v \in Users, users'[v] = NoCall PROVE LocalsOf(v)'
  BY <1>1, Idle DEF LocalsOf
<1>. QED
  BY <1>1, Idle DEF CallInv, Asking

\* Who is in a call at pc is the only one who may be adding to the table.
LEMMA OnlyAsker ==
  ASSUME NEW u \in Users, \A v \in Users \ {u} : users'[v] = NoCall,
         users'[u].pc \notin {"walk", "split", "take"}
  PROVE  ~Asking'
  BY Idle DEF Asking

-----------------------------------------------------------------------------
(***************************************************************************)
(* What is granted.                                                        *)
(***************************************************************************)

LEMMA GrantFacts ==
  ASSUME Shapes
  PROVE  /\ \A b : b \in Granted <=> \E u \in Users : b \in owned[u]
         /\ \A b \in Granted : b.ptr \in Nat /\ b.size \in Nat
  BY DEF Shapes, Granted

\* A step that changes no block in use, and makes none, keeps what is granted.
LEMMA GrantsKept ==
  ASSUME Shapes, Backed, Held, UNCHANGED owned,
         \A a \in Blocks : ~hdr[a].free => a \in Blocks' /\ hdr'[a] = hdr[a],
         \A a \in Blocks' : ~hdr'[a].free => a \in Blocks /\ ~hdr[a].free
  PROVE  Backed' /\ Held'
<1>1. Granted' = Granted
  BY DEF Granted
<1>2. Backed'
  BY <1>1 DEF Backed, Backs
<1>3. Held'
  BY <1>1 DEF Held
<1>. QED
  BY <1>2, <1>3

LEMMA LeaksKept ==
  ASSUME LeaksInv, UNCHANGED <<leaks, owned, calls>>, Asking' => Asking
  PROVE  LeaksInv'
<1>1. \A ptr : Live(ptr)' <=> Live(ptr)
  BY DEF Live, Granted
<1>. QED
  BY <1>1 DEF LeaksInv

LEMMA ApartKept == ASSUME Apart, UNCHANGED owned PROVE Apart'
  BY DEF Apart

LEMMA BlocksKept ==
  ASSUME UNCHANGED hdr PROVE Blocks' = Blocks /\ (Tiled => Tiled')
  BY DEF Blocks, Tiled, NextBlock

-----------------------------------------------------------------------------
(***************************************************************************)
(* kmalloc.                                                                *)
(***************************************************************************)

LEMMA CallAllocKeeps ==
  ASSUME HeapInv, Masked = Users, NEW u \in Users, CallAlloc(u)
  PROVE  HeapInv'
<1>1. PICK size \in Asked : CallHeap(u, [pc |-> "walk", size |-> size, at |-> 0])
  BY DEF CallAlloc
<1>. DEFINE rec == [pc |-> "walk", size |-> size, at |-> 0]
<1>2. rec \in CallRec /\ rec.pc = "walk" /\ rec.pc \in Pcs /\ rec.at = 0
  BY HeapAssumption DEF CallRec, Pcs
<1>. HIDE DEF rec
<1>3. CallHeap(u, rec)
  BY <1>1 DEF rec
<1>4. /\ users' \in [Users -> CallRec] /\ irqOff' \in Users \cup {Null} /\ Alone'
      /\ users'[u] = rec /\ \A v \in Users \ {u} : users'[v] = NoCall
      /\ calls' = calls + 1 /\ UNCHANGED <<hdr, leaks, owned, panic>>
  BY <1>2, <1>3, Called DEF HeapInv
<1>5. Shapes'
  BY <1>4 DEF HeapInv, Shapes
<1>6. Blocks' = Blocks /\ Tiled'
  BY <1>4, BlocksKept DEF HeapInv
<1>7. LocalsOf(u)'
  BY <1>2, <1>4, <1>6 DEF HeapInv, Tiled, LocalsOf
<1>8. CallInv'
  BY <1>4, <1>7, LocalsSuffice
<1>9. Apart' /\ Backed' /\ Held'
  BY <1>4, <1>6, ApartKept, GrantsKept DEF HeapInv
<1>10. LeaksInv'
  <2>1. \A ptr : Live(ptr)' <=> Live(ptr)
    BY <1>4 DEF Live, Granted
  <2>2. calls \in Nat /\ Len(leaks) \in Nat /\ LeakCap \in Nat
    BY Sizes DEF HeapInv, Shapes
  <2>. QED
    BY <1>4, <2>1, <2>2 DEF HeapInv, LeaksInv
<1>. QED
  BY <1>4, <1>5, <1>6, <1>8, <1>9, <1>10 DEF HeapInv

LEMMA WalkBlockKeeps ==
  ASSUME HeapInv, NEW u \in Users, WalkBlock(u)
  PROVE  HeapInv'
<1>. DEFINE a == users[u].at
<1>1. At(u, "walk") /\ UNCHANGED <<hdr, leaks, owned, calls>>
  BY DEF WalkBlock
<1>2. irqOff = u /\ OnlyOf(u) /\ users[u] \in CallRec /\ users[u].pc = "walk"
  BY <1>1, Running DEF HeapInv, Pcs
<1>3. a \in Blocks \cup {HeapSize} /\ (a < HeapSize => a \in Blocks) /\ a \in Nat
  <2>1. a \in Blocks \cup {HeapSize} /\ a \in Nat
    BY <1>2 DEF HeapInv, CallInv, LocalsOf, CallRec
  <2>. QED
    BY <2>1, Sizes
<1>4. Blocks' = Blocks /\ Tiled'
  BY <1>1, BlocksKept DEF HeapInv
<1>5. Apart' /\ Backed' /\ Held'
  BY <1>1, <1>4, ApartKept, GrantsKept DEF HeapInv
<1>6. Asking
  BY <1>2 DEF Asking
<1>7. LeaksInv'
  BY <1>1, <1>6, LeaksKept DEF HeapInv
<1>8. UNCHANGED panic /\ users' \in [Users -> CallRec] /\ irqOff' \in Users \cup {Null} /\ Alone' /\ CallInv'
  <2>1. CASE a >= HeapSize
    <3>1. Return(u) /\ UNCHANGED panic
      BY <2>1 DEF WalkBlock
    <3>. QED
      BY <3>1, <1>2, Returned, NoLocals DEF HeapInv
  <2>2. CASE a < HeapSize /\ hdr[a].free /\ hdr[a].size >= users[u].size
    <3>1. a \in Blocks /\ hdr[a].magic
      BY <2>2, <1>3 DEF Blocks
    <3>2. GoOn(u, "split", a) /\ UNCHANGED panic
      BY <2>2, <3>1, <1>3, Sizes DEF WalkBlock
    <3>3. /\ users' \in [Users -> CallRec] /\ irqOff' \in Users \cup {Null} /\ Alone'
          /\ users'[u].pc = "split" /\ users'[u].at = a /\ users'[u].size = users[u].size
          /\ \A v \in Users \ {u} : users'[v] = NoCall
      BY <3>2, <1>2, <1>3, GoesOn DEF HeapInv, Pcs
    <3>4. LocalsOf(u)'
      BY <2>2, <3>1, <3>3, <1>1, <1>4 DEF LocalsOf
    <3>. QED
      BY <3>2, <3>3, <3>4, LocalsSuffice
  <2>3. CASE a < HeapSize /\ ~(hdr[a].free /\ hdr[a].size >= users[u].size)
    <3>. DEFINE next == NextBlock(hdr, a)
    <3>1. a \in Blocks /\ hdr[a].magic
      BY <2>3, <1>3 DEF Blocks
    <3>2. GoOn(u, "walk", next) /\ UNCHANGED panic
      BY <2>3, <3>1, <1>3, Sizes DEF WalkBlock
    <3>3. next \in Nat /\ next \in Blocks \cup {HeapSize}
      BY <3>1, BlockFacts DEF HeapInv, Tiled
    <3>. HIDE DEF next
    <3>4. /\ users' \in [Users -> CallRec] /\ irqOff' \in Users \cup {Null} /\ Alone'
          /\ users'[u].pc = "walk" /\ users'[u].at = next /\ users'[u].size = users[u].size
          /\ \A v \in Users \ {u} : users'[v] = NoCall
      BY <3>2, <3>3, <1>2, GoesOn DEF HeapInv, Pcs
    <3>5. LocalsOf(u)'
      BY <3>3, <3>4, <1>4 DEF LocalsOf
    <3>. QED
      BY <3>2, <3>4, <3>5, LocalsSuffice
  <2>. QED
    BY <2>1, <2>2, <2>3, <1>3, Sizes
<1>9. Shapes'
  BY <1>1, <1>8 DEF HeapInv, Shapes
<1>. QED
  BY <1>4, <1>5, <1>7, <1>8, <1>9 DEF HeapInv

LEMMA SplitKeeps ==
  ASSUME HeapInv, NEW u \in Users, Split(u)
  PROVE  HeapInv'
<1>1. PICK a : a = users[u].at
  OBVIOUS
<1>2. PICK size : size = users[u].size
  OBVIOUS
<1>3. PICK rest : rest = Rest(u)
  OBVIOUS
<1>4. At(u, "split") /\ GoOn(u, "take", a) /\ UNCHANGED <<leaks, owned, panic, calls>>
  BY <1>1 DEF Split
<1>5. irqOff = u /\ OnlyOf(u) /\ users[u] \in CallRec /\ users[u].pc = "split"
  BY <1>4, Running DEF HeapInv, Pcs
<1>6. a \in Blocks /\ hdr[a].free /\ hdr[a].size >= size /\ size \in Nat
  BY <1>1, <1>2, <1>5 DEF HeapInv, CallInv, LocalsOf, CallRec
<1>7. a \in Nat /\ hdr[a].size \in Nat
  BY <1>6, BlockFacts DEF HeapInv
<1>8. /\ users' \in [Users -> CallRec] /\ irqOff' \in Users \cup {Null} /\ Alone'
      /\ users'[u].pc = "take" /\ users'[u].at = a /\ users'[u].size = size
      /\ \A v \in Users \ {u} : users'[v] = NoCall
  BY <1>2, <1>4, <1>5, <1>7, GoesOn DEF HeapInv, Pcs
<1>9. /\ hdr' \in [0..HeapSize - 1 -> Headers] /\ Tiled' /\ a \in Blocks'
      /\ hdr'[a].free /\ hdr'[a].size >= size
      /\ \A b \in Blocks \ {a} : b \in Blocks' /\ hdr'[b] = hdr[b]
      /\ \A b \in Blocks' : b \in Blocks \/ hdr'[b].free
  <2>1. CASE rest < MinSplit
    <3>1. UNCHANGED hdr
      BY <2>1, <1>3 DEF Split
    <3>. QED
      BY <3>1, <1>6, BlocksKept DEF HeapInv, Shapes
  <2>2. CASE ~(rest < MinSplit)
    <3>1. rest \in Nat /\ hdr[a].size = size + Header + rest
      BY <2>2, <1>1, <1>2, <1>3, <1>6, <1>7, Sizes DEF Rest
    <3>2. Cut(a, size, rest)
      BY <2>2, <1>1, <1>2, <1>3 DEF Split, Cut
    <3>. DEFINE n == a + Header + size
    <3>3. /\ hdr' \in [0..HeapSize - 1 -> Headers] /\ Tiled'
          /\ Blocks' = Blocks \cup {n} /\ hdr'[n].free
          /\ hdr'[a].free /\ hdr'[a].size = size
          /\ \A b \in Blocks \ {a} : hdr'[b] = hdr[b]
      BY <3>1, <3>2, <1>6, CutEffect DEF HeapInv
    <3>. HIDE DEF n
    <3>. QED
      BY <3>3, <1>6
  <2>. QED
    BY <2>1, <2>2
<1>10. Backed' /\ Held'
  <2>1. \A b \in Blocks : ~hdr[b].free => b \in Blocks' /\ hdr'[b] = hdr[b]
    BY <1>6, <1>9
  <2>2. \A b \in Blocks' : ~hdr'[b].free => b \in Blocks /\ ~hdr[b].free
    BY <1>9
  <2>. QED
    BY <2>1, <2>2, <1>4, GrantsKept DEF HeapInv
<1>11. LocalsOf(u)'
  BY <1>8, <1>9 DEF LocalsOf
<1>12. CallInv'
  BY <1>8, <1>11, LocalsSuffice
<1>13. LeaksInv'
  <2>1. Asking
    BY <1>5 DEF Asking
  <2>. QED
    BY <2>1, <1>4, LeaksKept DEF HeapInv
<1>14. Shapes'
  BY <1>4, <1>8, <1>9 DEF HeapInv, Shapes
<1>. QED
  BY <1>4, <1>8, <1>9, <1>10, <1>12, <1>13, <1>14, ApartKept DEF HeapInv

\* Nobody holds a block that is free.
LEMMA NobodyHolds ==
  ASSUME Shapes, Backed, NEW a \in Blocks, hdr[a].free
  PROVE  ~Live(a + Header)
<1>. SUFFICES ASSUME NEW b \in Granted, b.ptr = a + Header PROVE FALSE
  BY DEF Live
<1>1. PICK c \in Blocks : Backs(c, b)
  BY DEF Backed
<1>. QED
  BY <1>1, OneBlock DEF Backs

LEMMA TakeKeeps ==
  ASSUME HeapInv, NEW u \in Users, Take(u)
  PROVE  HeapInv'
<1>1. PICK a : a = users[u].at
  OBVIOUS
<1>2. PICK ptr : ptr = a + Header
  OBVIOUS
<1>3. PICK g : g = [ptr |-> ptr, size |-> users[u].size]
  OBVIOUS
<1>4. /\ At(u, "take") /\ hdr' = [hdr EXCEPT ![a].free = FALSE]
      /\ leaks' = (IF Len(leaks) < LeakCap THEN Append(leaks, ptr) ELSE leaks)
      /\ owned' = [owned EXCEPT ![u] = @ \cup {g}]
      /\ Return(u) /\ UNCHANGED <<panic, calls>>
  BY <1>1, <1>2, <1>3 DEF Take
<1>5. irqOff = u /\ OnlyOf(u) /\ users[u] \in CallRec /\ users[u].pc = "take"
  BY <1>4, Running DEF HeapInv, Pcs
<1>6. a \in Blocks /\ hdr[a].free /\ hdr[a].size >= users[u].size /\ users[u].size \in Nat
  BY <1>1, <1>5 DEF HeapInv, CallInv, LocalsOf, CallRec
<1>7. ptr \in Nat /\ g \in [ptr : Nat, size : Nat] /\ g.ptr = ptr /\ g.size = users[u].size
  BY <1>2, <1>3, <1>6, BlockFacts, Sizes DEF HeapInv
<1>8. /\ users' \in [Users -> CallRec] /\ irqOff' \in Users \cup {Null} /\ Alone'
      /\ \A v \in Users : users'[v] = NoCall
  BY <1>4, <1>5, Returned DEF HeapInv
<1>9. /\ hdr' \in [0..HeapSize - 1 -> Headers] /\ Blocks' = Blocks /\ Tiled'
      /\ ~hdr'[a].free /\ \A b \in Blocks \ {a} : hdr'[b] = hdr[b]
      /\ \A b \in Blocks : hdr'[b].size = hdr[b].size
  <2>1. Flagged(a, FALSE)
    BY <1>4 DEF Flagged
  <2>. QED
    BY <2>1, <1>6, FlagEffect DEF HeapInv
<1>10. /\ owned' \in [Users -> SUBSET [ptr : Nat, size : Nat]]
       /\ owned'[u] = owned[u] \cup {g} /\ \A v \in Users \ {u} : owned'[v] = owned[v]
  BY <1>4, <1>7 DEF HeapInv, Shapes
<1>11. Granted' = Granted \cup {g}
  BY <1>10 DEF Granted
<1>12. ~Live(ptr)
  BY <1>2, <1>6, NobodyHolds DEF HeapInv
<1>13. \A b \in Granted : b.ptr # ptr
  BY <1>12 DEF Live
<1>14. Apart'
  <2>. SUFFICES ASSUME NEW v \in Users, NEW w \in Users, NEW b \in owned'[v], NEW c \in owned'[w],
                       b.ptr = c.ptr
                PROVE  v = w /\ b = c
    BY DEF Apart
  <2>1. (b \in owned[v] \/ (v = u /\ b = g)) /\ (c \in owned[w] \/ (w = u /\ c = g))
    BY <1>10
  <2>2. (b \in owned[v] => b \in Granted) /\ (c \in owned[w] => c \in Granted)
    BY DEF Granted
  <2>3. CASE b \in owned[v] /\ c \in owned[w]
    BY <2>3 DEF HeapInv, Apart
  <2>. QED
    BY <2>1, <2>2, <2>3, <1>7, <1>13
<1>15. Backed'
  <2>. SUFFICES ASSUME NEW b \in Granted' PROVE \E c \in Blocks : Backs(c, b)'
    BY <1>9 DEF Backed
  <2>1. CASE b = g
    <3>1. Backs(a, b)'
      BY <2>1, <1>2, <1>6, <1>7, <1>9 DEF Backs
    <3>. QED
      BY <3>1, <1>6
  <2>2. CASE b \in Granted
    <3>1. PICK c \in Blocks : Backs(c, b)
      BY <2>2 DEF HeapInv, Backed
    <3>2. c # a
      BY <2>2, <3>1, <1>2, <1>13 DEF Backs
    <3>3. Backs(c, b)'
      BY <3>1, <3>2, <1>9 DEF Backs
    <3>. QED
      BY <3>3
  <2>. QED
    BY <2>1, <2>2, <1>11
<1>16. Held'
  <2>. SUFFICES ASSUME NEW c \in Blocks, ~hdr'[c].free
                PROVE  \E b \in Granted' : b.ptr = c + Header
    BY <1>9 DEF Held
  <2>1. CASE c = a
    BY <2>1, <1>2, <1>7, <1>11
  <2>2. CASE c # a
    <3>1. ~hdr[c].free
      BY <2>2, <1>9
    <3>2. \E b \in Granted : b.ptr = c + Header
      BY <3>1 DEF HeapInv, Held
    <3>. QED
      BY <3>2, <1>11
  <2>. QED
    BY <2>1, <2>2
<1>17. \A p : Live(p)' <=> Live(p) \/ p = ptr
  BY <1>7, <1>11 DEF Live
<1>18. leaks \in Seq(Nat) /\ calls \in Nat /\ Len(leaks) \in Nat /\ Len(leaks) < calls
  BY <1>5 DEF HeapInv, Shapes, LeaksInv, Asking
<1>19. leaks' \in Seq(Nat) /\ LeaksInv'
  <2>1. CASE Len(leaks) < LeakCap
    <3>1. leaks' = Append(leaks, ptr)
      BY <2>1, <1>4
    <3>2. leaks' \in Seq(Nat) /\ Len(leaks') = Len(leaks) + 1
      BY <3>1, <1>7, <1>18
    <3>3. \A i \in DOMAIN leaks : i \in DOMAIN leaks' /\ leaks'[i] = leaks[i]
      BY <3>1, <1>7, <1>18
    <3>4. /\ DOMAIN leaks' = DOMAIN leaks \cup {Len(leaks) + 1} /\ Len(leaks) + 1 \notin DOMAIN leaks
          /\ leaks'[Len(leaks) + 1] = ptr
      BY <3>1, <1>7, <1>18
    <3>5. \A p : Has(leaks', p) <=> Has(leaks, p) \/ p = ptr
      BY <3>3, <3>4 DEF Has
    <3>6. ~Has(leaks, ptr)
      BY <1>12 DEF HeapInv, LeaksInv
    <3>7. Distinct(leaks')
      BY <3>3, <3>4, <3>6 DEF HeapInv, LeaksInv, Distinct, Has
    <3>8. ~Asking'
      BY <1>8, NoLocals
    <3>9. Len(leaks') <= calls' /\ UNCHANGED calls
      BY <3>2, <1>4, <1>18
    <3>10. \A p : Has(leaks', p) => Live(p)'
      BY <3>5, <1>17 DEF HeapInv, LeaksInv
    <3>11. calls' <= LeakCap => \A p : Live(p)' => Has(leaks', p)
      BY <3>5, <3>9, <1>17 DEF HeapInv, LeaksInv
    <3>. QED
      BY <3>2, <3>7, <3>8, <3>9, <3>10, <3>11 DEF LeaksInv
  <2>2. CASE ~(Len(leaks) < LeakCap)
    <3>1. UNCHANGED leaks
      BY <2>2, <1>4
    <3>2. ~Asking'
      BY <1>8, NoLocals
    <3>3. ~(calls' <= LeakCap) /\ UNCHANGED calls
      BY <2>2, <1>4, <1>18, Sizes
    <3>4. Len(leaks') <= calls'
      BY <3>1, <3>3, <1>18
    <3>. QED
      BY <3>1, <3>2, <3>3, <3>4, <1>17, <1>18 DEF HeapInv, LeaksInv
  <2>. QED
    BY <2>1, <2>2
<1>20. CallInv'
  BY <1>8, NoLocals
<1>21. Shapes'
  BY <1>4, <1>8, <1>9, <1>10, <1>19 DEF HeapInv, Shapes
<1>. QED
  BY <1>8, <1>9, <1>14, <1>15, <1>16, <1>19, <1>20, <1>21 DEF HeapInv

-----------------------------------------------------------------------------
(***************************************************************************)
(* kfree.                                                                  *)
(***************************************************************************)

LEMMA CallFreeKeeps ==
  ASSUME HeapInv, Masked = Users, NEW u \in Users, CallFree(u)
  PROVE  HeapInv'
<1>1. PICK g \in owned[u] : CallHeap(u, [pc |-> "free", size |-> g.size, at |-> g.ptr])
  BY DEF CallFree
<1>. DEFINE rec == [pc |-> "free", size |-> g.size, at |-> g.ptr]
<1>2. g \in [ptr : Nat, size : Nat]
  BY DEF HeapInv, Shapes
<1>3. /\ rec \in CallRec /\ rec.pc = "free" /\ rec.pc \in Pcs
      /\ [ptr |-> rec.at, size |-> rec.size] = g
  BY <1>2 DEF CallRec, Pcs
<1>. HIDE DEF rec
<1>4. CallHeap(u, rec)
  BY <1>1 DEF rec
<1>5. /\ users' \in [Users -> CallRec] /\ irqOff' \in Users \cup {Null} /\ Alone'
      /\ users'[u] = rec /\ \A v \in Users \ {u} : users'[v] = NoCall
      /\ calls' = calls + 1 /\ UNCHANGED <<hdr, leaks, owned, panic>>
  BY <1>3, <1>4, Called DEF HeapInv
<1>6. Shapes'
  BY <1>5 DEF HeapInv, Shapes
<1>7. Blocks' = Blocks /\ Tiled'
  BY <1>5, BlocksKept DEF HeapInv
<1>8. LocalsOf(u)'
  BY <1>3, <1>5 DEF LocalsOf
<1>9. CallInv'
  BY <1>5, <1>8, LocalsSuffice
<1>10. Apart' /\ Backed' /\ Held'
  BY <1>5, <1>7, ApartKept, GrantsKept DEF HeapInv
<1>11. LeaksInv'
  <2>1. \A ptr : Live(ptr)' <=> Live(ptr)
    BY <1>5 DEF Live, Granted
  <2>2. calls \in Nat /\ Len(leaks) \in Nat /\ LeakCap \in Nat
    BY Sizes DEF HeapInv, Shapes
  <2>3. ~Asking'
    BY <1>3, <1>5, OnlyAsker
  <2>. QED
    BY <1>5, <2>1, <2>2, <2>3 DEF HeapInv, LeaksInv
<1>. QED
  BY <1>5, <1>6, <1>7, <1>9, <1>10, <1>11 DEF HeapInv

LEMMA MarkFreeKeeps ==
  ASSUME HeapInv, NEW u \in Users, MarkFree(u)
  PROVE  HeapInv'
<1>1. PICK ptr : ptr = users[u].at
  OBVIOUS
<1>2. PICK g : g = [ptr |-> ptr, size |-> users[u].size]
  OBVIOUS
<1>3. At(u, "free") /\ UNCHANGED calls
  BY DEF MarkFree
<1>4. irqOff = u /\ OnlyOf(u) /\ users[u] \in CallRec /\ users[u].pc = "free"
  BY <1>3, Running DEF HeapInv, Pcs
<1>5. g \in owned[u] /\ g \in Granted /\ g.ptr = ptr
  BY <1>1, <1>2, <1>4 DEF HeapInv, CallInv, LocalsOf, Granted
<1>6. PICK a \in Blocks : Backs(a, g)
  BY <1>5 DEF HeapInv, Backed
<1>7. ptr = a + Header /\ ptr - Header = a /\ ~hdr[a].free /\ hdr[a].magic /\ a \in Nat
  BY <1>5, <1>6, BlockFacts, Sizes DEF HeapInv, Backs
<1>8. /\ hdr' = [hdr EXCEPT ![a].free = TRUE] /\ leaks' = Removed(leaks, ptr)
      /\ owned' = [owned EXCEPT ![u] = @ \ {g}] /\ GoOn(u, "join", a) /\ UNCHANGED panic
  BY <1>1, <1>2, <1>7 DEF MarkFree
<1>9. /\ users' \in [Users -> CallRec] /\ irqOff' \in Users \cup {Null} /\ Alone'
      /\ users'[u].pc = "join" /\ users'[u].at = a
      /\ \A v \in Users \ {u} : users'[v] = NoCall
  BY <1>4, <1>7, <1>8, GoesOn DEF HeapInv, Pcs
<1>10. /\ hdr' \in [0..HeapSize - 1 -> Headers] /\ Blocks' = Blocks /\ Tiled'
       /\ hdr'[a].free /\ \A b \in Blocks \ {a} : hdr'[b] = hdr[b]
  <2>1. Flagged(a, TRUE)
    BY <1>8 DEF Flagged
  <2>. QED
    BY <2>1, FlagEffect DEF HeapInv
<1>11. /\ owned' \in [Users -> SUBSET [ptr : Nat, size : Nat]]
       /\ owned'[u] = owned[u] \ {g} /\ \A v \in Users \ {u} : owned'[v] = owned[v]
  BY <1>8 DEF HeapInv, Shapes
<1>12. \A v \in Users : \A b \in owned[v] : b.ptr = ptr => v = u /\ b = g
  BY <1>5 DEF HeapInv, Apart
<1>13. \A b : b \in Granted' <=> b \in Granted /\ b.ptr # ptr
  <2>1. \A v \in Users : \A b : b \in owned'[v] <=> b \in owned[v] /\ b.ptr # ptr
    BY <1>5, <1>11, <1>12
  <2>. QED
    BY <2>1 DEF Granted
<1>14. Apart'
  <2>1. \A v \in Users : owned'[v] \subseteq owned[v]
    BY <1>11
  <2>. QED
    BY <2>1 DEF HeapInv, Apart
<1>15. Backed'
  <2>. SUFFICES ASSUME NEW b \in Granted' PROVE \E c \in Blocks : Backs(c, b)'
    BY <1>10 DEF Backed
  <2>1. PICK c \in Blocks : Backs(c, b)
    BY <1>13 DEF HeapInv, Backed
  <2>2. c # a
    BY <2>1, <1>7, <1>13 DEF Backs
  <2>3. Backs(c, b)'
    BY <2>1, <2>2, <1>10 DEF Backs
  <2>. QED
    BY <2>3
<1>16. Held'
  <2>. SUFFICES ASSUME NEW c \in Blocks, ~hdr'[c].free
                PROVE  \E b \in Granted' : b.ptr = c + Header
    BY <1>10 DEF Held
  <2>1. c # a /\ ~hdr[c].free
    BY <1>10
  <2>2. PICK b \in Granted : b.ptr = c + Header
    BY <2>1 DEF HeapInv, Held
  <2>3. b.ptr # ptr
    BY <2>1, <2>2, <1>7, OneBlock DEF HeapInv
  <2>. QED
    BY <2>2, <2>3, <1>13
<1>17. leaks' \in Seq(Nat) /\ LeaksInv'
  <2>1. leaks \in Seq(Nat) /\ Distinct(leaks) /\ calls \in Nat /\ Len(leaks) <= calls
    BY DEF HeapInv, Shapes, LeaksInv
  <2>2. /\ leaks' \in Seq(Nat) /\ Distinct(leaks') /\ Len(leaks') <= Len(leaks)
        /\ \A p : Has(leaks', p) <=> Has(leaks, p) /\ p # ptr
    BY <2>1, <1>8, RemovedIs
  <2>3. \A p : Live(p)' <=> Live(p) /\ p # ptr
    BY <1>13 DEF Live
  <2>4. ~Asking'
    BY <1>9, OnlyAsker
  <2>5. Len(leaks') <= calls'
    BY <2>1, <2>2, <1>3
  <2>. QED
    BY <2>2, <2>3, <2>4, <2>5, <1>3 DEF HeapInv, LeaksInv
<1>18. LocalsOf(u)'
  BY <1>9, <1>10 DEF LocalsOf
<1>19. CallInv'
  BY <1>9, <1>18, LocalsSuffice
<1>20. Shapes'
  BY <1>3, <1>8, <1>9, <1>10, <1>11, <1>17 DEF HeapInv, Shapes
<1>. QED
  BY <1>9, <1>10, <1>14, <1>15, <1>16, <1>17, <1>19, <1>20 DEF HeapInv

LEMMA JoinKeeps ==
  ASSUME HeapInv, NEW u \in Users, Join(u)
  PROVE  HeapInv'
<1>1. PICK a : a = users[u].at
  OBVIOUS
<1>2. At(u, "join") /\ hdr' = Coalesced(hdr, a) /\ Return(u) /\ UNCHANGED <<leaks, owned, panic, calls>>
  BY <1>1 DEF Join
<1>3. irqOff = u /\ OnlyOf(u) /\ users[u] \in CallRec /\ users[u].pc = "join"
  BY <1>2, Running DEF HeapInv, Pcs
<1>4. a \in Blocks /\ hdr[a].free
  BY <1>1, <1>3 DEF HeapInv, CallInv, LocalsOf
<1>5. /\ hdr' \in [0..HeapSize - 1 -> Headers] /\ Tiled' /\ Blocks' \subseteq Blocks
      /\ a \in Blocks' /\ hdr'[a].free /\ \A b \in Blocks \ Blocks' : hdr[b].free
      /\ \A b \in Blocks' \ {a} : hdr'[b] = hdr[b]
  BY <1>2, <1>4, JoinEffect DEF HeapInv
<1>6. /\ users' \in [Users -> CallRec] /\ irqOff' \in Users \cup {Null} /\ Alone'
      /\ \A v \in Users : users'[v] = NoCall
  BY <1>2, <1>3, Returned DEF HeapInv
<1>7. CallInv' /\ ~Asking'
  BY <1>6, NoLocals
<1>8. Backed' /\ Held'
  <2>1. \A b \in Blocks : ~hdr[b].free => b \in Blocks' /\ hdr'[b] = hdr[b]
    BY <1>4, <1>5
  <2>2. \A b \in Blocks' : ~hdr'[b].free => b \in Blocks /\ ~hdr[b].free
    BY <1>5
  <2>. QED
    BY <2>1, <2>2, <1>2, GrantsKept DEF HeapInv
<1>9. LeaksInv'
  BY <1>2, <1>7, LeaksKept DEF HeapInv
<1>10. Shapes'
  BY <1>2, <1>5, <1>6 DEF HeapInv, Shapes
<1>. QED
  BY <1>2, <1>5, <1>6, <1>7, <1>8, <1>9, <1>10, ApartKept DEF HeapInv

-----------------------------------------------------------------------------
(***************************************************************************)
(* The invariant holds.                                                    *)
(***************************************************************************)

LEMMA HeapStarts == HeapInit => HeapInv
<1>. SUFFICES ASSUME HeapInit PROVE HeapInv
  OBVIOUS
<1>. DEFINE whole == Block(HeapSize - Header, TRUE)
<1>1. whole \in Headers /\ whole.free /\ whole.magic /\ whole.size = HeapSize - Header
  BY Sizes DEF Block, Headers
<1>2. NoHeader \in Headers /\ ~NoHeader.magic
  BY DEF NoHeader, Headers
<1>. HIDE DEF whole
<1>3. hdr = [a \in 0..HeapSize - 1 |-> IF a = 0 THEN whole ELSE NoHeader]
  BY DEF HeapInit, whole
<1>4. /\ leaks = <<>> /\ irqOff = Null /\ panic = FALSE /\ calls = 0
      /\ users = [u \in Users |-> NoCall] /\ owned = [u \in Users |-> {}]
  BY DEF HeapInit
<1>5. 0 \in 0..HeapSize - 1 /\ hdr[0] = whole /\ hdr \in [0..HeapSize - 1 -> Headers]
  BY <1>1, <1>2, <1>3, Sizes
<1>6. Blocks = {0}
  BY <1>1, <1>2, <1>3, <1>5 DEF Blocks
<1>7. NextBlock(hdr, 0) = HeapSize
  BY <1>1, <1>5, Sizes DEF NextBlock
<1>8. Tiled
  BY <1>6, <1>7 DEF Tiled
<1>9. Granted = {}
  BY <1>4 DEF Granted
<1>10. Shapes
  BY <1>4, <1>5, Idle DEF Shapes
<1>11. Alone /\ CallInv /\ ~Asking
  BY <1>4, Idle, Sizes DEF Alone, CallInv, LocalsOf, Asking
<1>12. Apart /\ Backed /\ Held
  BY <1>1, <1>4, <1>5, <1>6, <1>9 DEF Apart, Backed, Held
<1>13. LeaksInv
  BY <1>4, <1>9, <1>11 DEF LeaksInv, Live, Has, Distinct
<1>. QED
  BY <1>8, <1>10, <1>11, <1>12, <1>13 DEF HeapInv

LEMMA HeapStays ==
  ASSUME HeapInv, Masked = Users, [HeapNext]_heapVars
  PROVE  HeapInv'
<1>1. CASE UNCHANGED heapVars
  BY <1>1 DEF heapVars, HeapInv, Shapes, Alone, CallInv, LocalsOf, Tiled, Apart, Backed, Backs,
              Held, LeaksInv, Live, Asking, Granted, Blocks, NextBlock
<1>2. CASE HeapNext
  BY <1>2, CallAllocKeeps, WalkBlockKeeps, SplitKeeps, TakeKeeps, CallFreeKeeps, MarkFreeKeeps,
     JoinKeeps DEF HeapNext
<1>. QED
  BY <1>1, <1>2

\* Memory held under two pointers is apart, and as large as was asked for.
LEMMA HeldOnce == HeapInv => InUseOnce
<1>. SUFFICES ASSUME HeapInv PROVE InUseOnce
  OBVIOUS
<1>. USE DEF HeapInv
<1>1. ASSUME NEW u \in Users, NEW v \in Users, NEW b \in owned[u], NEW c \in owned[v],
             <<u, b>> # <<v, c>>
      PROVE  Spans(b) \cap Spans(c) = {}
  <2>1. b \in Granted /\ c \in Granted /\ b.ptr # c.ptr
    BY <1>1 DEF Apart, Granted
  <2>2. PICK a \in Blocks : Backs(a, b)
    BY <2>1 DEF Backed
  <2>3. PICK d \in Blocks : Backs(d, c)
    BY <2>1 DEF Backed
  <2>4. /\ a \in Nat /\ d \in Nat /\ hdr[a].size \in Nat /\ hdr[d].size \in Nat
        /\ b.size \in Nat /\ c.size \in Nat
        /\ NextBlock(hdr, a) = a + Header + hdr[a].size /\ NextBlock(hdr, d) = d + Header + hdr[d].size
    BY <2>1, BlockFacts, GrantFacts
  <2>5. /\ b.ptr = a + Header /\ hdr[a].size >= b.size
        /\ c.ptr = d + Header /\ hdr[d].size >= c.size
    BY <2>2, <2>3 DEF Backs
  <2>6. CASE a < d
    <3>1. NextBlock(hdr, a) <= d
      BY <2>6 DEF Tiled
    <3>2. b.ptr + b.size - 1 < c.ptr
      BY <3>1, <2>4, <2>5, Sizes
    <3>. QED
      BY <3>2, <2>4, <2>5, Sizes DEF Spans
  <2>7. CASE d < a
    <3>1. NextBlock(hdr, d) <= a
      BY <2>7 DEF Tiled
    <3>2. c.ptr + c.size - 1 < b.ptr
      BY <3>1, <2>4, <2>5, Sizes
    <3>. QED
      BY <3>2, <2>4, <2>5, Sizes DEF Spans
  <2>. QED
    BY <2>1, <2>4, <2>5, <2>6, <2>7
<1>2. ASSUME NEW b \in Granted
      PROVE  /\ b.ptr - Header \in Blocks /\ ~hdr[b.ptr - Header].free
             /\ hdr[b.ptr - Header].size >= b.size
  <2>1. PICK a \in Blocks : Backs(a, b)
    BY DEF Backed
  <2>2. b.ptr - Header = a
    BY <2>1, BlockFacts, Sizes DEF Backs
  <2>. QED
    BY <2>1, <2>2 DEF Backs
<1>. QED
  BY <1>1, <1>2 DEF InUseOnce, Held

\* As many entries as live allocations: an entry for each, and one each.
LEMMA AllTracked == HeapInv => Tracked
<1>. SUFFICES ASSUME HeapInv PROVE Tracked
  OBVIOUS
<1>1. ASSUME calls <= LeakCap PROVE Len(leaks) = Cardinality(Granted)
  <2>1. \A b, c \in Granted : b.ptr = c.ptr => b = c
    BY DEF HeapInv, Apart, Granted
  <2>2. PICK n \in Nat : n = Len(leaks) /\ DOMAIN leaks = 1..n
    BY DEF HeapInv, Shapes
  <2>3. \A i \in 1..n : \E b \in Granted : b.ptr = leaks[i]
    BY <2>2 DEF HeapInv, LeaksInv, Has, Live
  <2>4. \A b \in Granted : \E i \in 1..n : leaks[i] = b.ptr
    BY <1>1, <2>2 DEF HeapInv, LeaksInv, Has, Live
  <2>. DEFINE f == [i \in 1..n |-> CHOOSE b \in Granted : b.ptr = leaks[i]]
  <2>5. \A i \in 1..n : f[i] \in Granted /\ f[i].ptr = leaks[i]
    BY <2>3
  <2>6. f \in [1..n -> Granted]
    BY <2>5
  <2>. HIDE DEF f
  <2>7. \A i, j \in 1..n : f[i] = f[j] => i = j
    BY <2>2, <2>5 DEF HeapInv, LeaksInv, Distinct
  <2>8. \A b \in Granted : \E i \in 1..n : f[i] = b
    BY <2>1, <2>4, <2>5
  <2>9. f \in Bijection(1..n, Granted)
    BY <2>6, <2>7, <2>8, Fun_IsBij
  <2>10. ExistsBijection(1..n, Granted)
    BY <2>9 DEF ExistsBijection
  <2>. QED
    BY <2>2, <2>10, FS_CountingElements, FS_Bijection
<1>2. /\ \A i, j \in DOMAIN leaks : leaks[i] = leaks[j] => i = j
      /\ \A i \in DOMAIN leaks : \E b \in Granted : b.ptr = leaks[i]
  BY DEF HeapInv, LeaksInv, Distinct, Has, Live
<1>. QED
  BY <1>1, <1>2 DEF Tracked

\* When every call is made with interrupts off, every order of kmalloc and
\* kfree leaves the heap tiled by its blocks, memory handed out once and as
\* large as was asked, the table of live allocations true, and no panic.
THEOREM HeapIsSound ==
  ASSUME Masked = Users
  PROVE  HeapSpec => []HeapSound
<1>1. HeapInit => HeapInv
  BY HeapStarts
<1>2. HeapInv /\ [HeapNext]_heapVars => HeapInv'
  BY HeapStays
<1>3. HeapInv => HeapSound
  BY HeldOnce, AllTracked DEF HeapInv, HeapSound, Shapes
<1>. QED
  BY <1>1, <1>2, <1>3, PTL DEF HeapSpec

=============================================================================
