---------------------------- MODULE Fat32Proofs ----------------------------
(***************************************************************************)
(* Proofs about Fat32: as long as no transfer fails, the machine stays on, *)
(* no call is preempted and the callers leave room for what they write     *)
(* (Events = {}), every order of calls leaves the chains of the volume     *)
(* whole, apart and accounted for, whatever the size of the volume, of its *)
(* sectors, of the files and of the paths.  FatInv is inductive: it says   *)
(* for each transfer of each call what of the volume is finished and which *)
(* clusters are nobody's yet.                                              *)
(***************************************************************************)
EXTENDS Fat32Invs, Integers, FiniteSetTheorems, WellFoundedInduction, TLAPS

LEMMA NatLeast ==
  ASSUME NEW S \in SUBSET Nat, S # {}
  PROVE  \E m \in S : \A n \in S : m <= n
<1>. DEFINE LT == {ss \in Nat \X Nat : ss[1] < ss[2]}
<1>1. IsWellFoundedOn(LT, Nat)
  BY NatLessThanWellFounded DEF OpToRel
<1>2. \E m \in S : \A n \in S : ~(<<n, m>> \in LT)
  <2>. HIDE DEF LT
  <2>. QED
    BY <1>1, WFMin
<1>3. \A m, n \in Nat : <<n, m>> \notin LT => m <= n
  OBVIOUS
<1>. HIDE DEF LT
<1>. QED
  BY <1>2, <1>3

\* Induction, over a set: a set of naturals that has 0 and with each number its
\* successor has them all.
LEMMA SetInduction ==
  ASSUME NEW S \in SUBSET Nat, 0 \in S, \A n \in S : n + 1 \in S
  PROVE S = Nat
<1>1. SUFFICES ASSUME Nat \ S # {} PROVE FALSE
  OBVIOUS
<1>2. PICK m \in Nat \ S : \A k \in Nat \ S : m <= k
  BY <1>1, NatLeast
<1>3. m # 0
  BY <1>2
<1>4. m - 1 \in Nat /\ m = (m - 1) + 1 /\ ~(m <= m - 1)
  BY <1>3
<1>5. m - 1 \in S
  BY <1>2, <1>4
<1> QED BY <1>2, <1>4, <1>5

LEMMA GotoIs ==
  ASSUME NEW c \in Callers, DOMAIN op = Callers, NEW at, Goto(c, at)
  PROVE  /\ DOMAIN op' = Callers /\ tree' = tree
         /\ \A d \in Callers \ {c} : op'[d] = op[d]
         /\ DOMAIN op'[c] = DOMAIN at \cup DOMAIN op[c]
         /\ \A x \in DOMAIN at : op'[c][x] = at[x]
         /\ \A x \in DOMAIN op[c] \ DOMAIN at : op'[c][x] = op[c][x]
<1>1. op' = [op EXCEPT ![c] = Updated(op[c], at)] /\ tree' = tree
  BY DEF Goto
<1>2. op'[c] = Updated(op[c], at)
  BY <1>1
<1>3. Updated(op[c], at) = [x \in DOMAIN op[c] \cup DOMAIN at |-> IF x \in DOMAIN at THEN at[x] ELSE op[c][x]]
  BY DEF Updated
<1>. QED
  BY <1>1, <1>2, <1>3

LEMMA Consts ==
  /\ Last \in Nat /\ Last >= 2 /\ Slots \in Nat /\ Slots >= 2 /\ PerSector \in Nat \ {0}
  /\ StackDepth \in Nat /\ Contents \subseteq Seq(Blocks) /\ \A block \in Blocks : block \notin Tables
  /\ Names \cap (Dots \cup {"/"}) = {}
BY Geometry

LEMMA Marks ==
  /\ Clusters = 2..Last /\ Clusters \subseteq Nat /\ Root \in Clusters /\ EOC \notin Clusters
  /\ Free \notin Clusters /\ EOC # Free /\ EOC \in Nat /\ 0 \notin Clusters
  /\ IsFiniteSet(Clusters) /\ Cardinality(Clusters) = Last - 1
<1>1. Last \in Nat /\ Last >= 2
  BY Consts
<1>2. IsFiniteSet(2..Last) /\ Cardinality(2..Last) = Last - 1
  BY <1>1, FS_Interval
<1>. QED
  BY <1>1, <1>2 DEF Clusters, EOC, Free, Root

\* An injective sequence of clusters is shorter than the volume.
LEMMA Distinct ==
  ASSUME NEW ch \in Seq(Clusters), \A j, k \in 1..Len(ch) : ch[j] = ch[k] => j = k
  PROVE  /\ Len(ch) <= Last - 1 /\ Len(ch) \in Nat
         /\ IsFiniteSet({ch[k] : k \in 1..Len(ch)})
         /\ Cardinality({ch[k] : k \in 1..Len(ch)}) = Len(ch)
<1>. DEFINE S == 1..Len(ch)
            T == {ch[k] : k \in S}
            g == [k \in S |-> ch[k]]
<1>1. Len(ch) \in Nat
  OBVIOUS
<1>2. IsFiniteSet(S) /\ Cardinality(S) = Len(ch)
  <2>1. /\ IsFiniteSet(1..Len(ch))
        /\ Cardinality(1..Len(ch)) = IF 1 > Len(ch) THEN 0 ELSE Len(ch) - 1 + 1
    BY <1>1, FS_Interval
  <2>. QED
    BY <1>1, <2>1
<1>3. T \in SUBSET Clusters
  OBVIOUS
<1>4. IsFiniteSet(T) /\ Cardinality(T) <= Cardinality(Clusters)
  BY <1>3, Marks, FS_Subset
<1>5. g \in Injection(S, T) /\ g \in Surjection(S, T)
  BY DEF Injection, Surjection, IsInjective
<1>6. Cardinality(S) = Cardinality(T)
  <2>. HIDE DEF S, T, g
  <2>. QED
    BY <1>4, <1>5, FS_Injection
<1>. QED
  BY <1>1, <1>2, <1>4, <1>6, Marks

LEMMA ChainIs ==
  ASSUME NEW f, NEW ch, IsChain(f, ch)
  PROVE  Chain(f, ch[1]) = ch
<1>1. ch \in Seq(Clusters) /\ Len(ch) \in Nat /\ Len(ch) >= 1 /\ Len(ch) <= Last - 1
  <2>1. ch \in Seq(Clusters) /\ ch # <<>> /\ Len(ch) <= Last - 1
    BY Distinct DEF IsChain
  <2>. QED
    BY <2>1
<1>. DEFINE n == Len(ch)
            Rec(at) == at = [k \in 0 .. Last |->
                              IF k = 0 THEN ch[1]
                              ELSE IF at[k - 1] \in Clusters THEN f[at[k - 1]] ELSE EOC]
            run == [k \in 0 .. Last |-> IF k < n THEN ch[k + 1] ELSE EOC]
            at == CHOOSE at : Rec(at)
<1>2. Rec(run)
  <2>1. ASSUME NEW k \in 0 .. Last
        PROVE  run[k] = IF k = 0 THEN ch[1] ELSE IF run[k - 1] \in Clusters THEN f[run[k - 1]] ELSE EOC
    <3>1. CASE k = 0
      BY <1>1, <3>1
    <3>2. CASE k # 0 /\ k < n
      <4>1. run[k - 1] = ch[k] /\ run[k] = ch[k + 1] /\ k \in 1..n - 1
        BY <1>1, <3>2, Consts
      <4>2. ch[k] \in Clusters /\ f[ch[k]] = ch[k + 1]
        BY <1>1, <4>1 DEF IsChain
      <4>. QED
        BY <4>1, <4>2, <3>2
    <3>3. CASE k = n
      <4>1. run[k - 1] = ch[n] /\ run[k] = EOC /\ ch[n] \in Clusters
        BY <1>1, <3>3, Consts
      <4>2. f[ch[n]] = EOC
        BY DEF IsChain
      <4>. QED
        BY <1>1, <4>1, <4>2, <3>3
    <3>4. CASE k > n
      <4>1. run[k - 1] = EOC /\ run[k] = EOC /\ k # 0
        BY <1>1, <3>4, Consts
      <4>. QED
        BY <4>1, Marks
    <3>. QED
      BY <1>1, <3>1, <3>2, <3>3, <3>4
  <2>. HIDE DEF n
  <2>. QED
    BY <2>1
<1>3. Rec(at)
  <2>. HIDE DEF run, Rec
  <2>. QED
    BY <1>2
<1>. HIDE DEF at, run
<1>4. \A k \in 0 .. Last : at[k] = run[k]
  <2>. DEFINE Same == {k \in Nat : k \in 0 .. Last => at[k] = run[k]}
  <2>1. 0 \in Same
    BY <1>2, <1>3, Consts
  <2>2. ASSUME NEW k \in Same  PROVE k + 1 \in Same
    <3>1. CASE k + 1 \in 0 .. Last
      <4>1. k \in 0 .. Last /\ at[k] = run[k] /\ k + 1 # 0 /\ (k + 1) - 1 = k
        BY <3>1, Consts
      <4>2. at[k + 1] = IF at[k] \in Clusters THEN f[at[k]] ELSE EOC
        BY <1>3, <3>1, <4>1
      <4>3. run[k + 1] = IF run[k] \in Clusters THEN f[run[k]] ELSE EOC
        BY <1>2, <3>1, <4>1
      <4>. QED
        BY <4>1, <4>2, <4>3
    <3>. QED
      BY <3>1
  <2>3. Same = Nat
    <3>1. Same \in SUBSET Nat
      OBVIOUS
    <3>. HIDE DEF Same
    <3>. QED
      BY <2>1, <2>2, <3>1, SetInduction
  <2>. QED
    BY <2>3
<1>5. {k \in 0 .. Last : \A j \in 0 .. k : at[j] \in Clusters} = 0 .. n - 1
  <2>1. ASSUME NEW k \in 0 .. n - 1, NEW j \in 0 .. k  PROVE at[j] \in Clusters
    <3>1. j \in 0 .. Last /\ j < n /\ j + 1 \in 1..n
      BY <1>1, Consts
    <3>2. at[j] = ch[j + 1]
      BY <3>1, <1>4 DEF run
    <3>. QED
      BY <1>1, <3>1, <3>2
  <2>2. ASSUME NEW k \in 0 .. Last, k >= n  PROVE n \in 0 .. k /\ at[n] \notin Clusters
    <3>1. n \in 0 .. Last /\ n \in 0 .. k
      BY <1>1, <2>2, Consts
    <3>2. at[n] = EOC
      BY <3>1, <1>1, <1>4 DEF run
    <3>. QED
      BY <3>1, <3>2, Marks
  <2>3. 0 .. n - 1 \subseteq 0 .. Last
    BY <1>1, Consts
  <2>4. ASSUME NEW k \in 0 .. Last, k \notin 0 .. n - 1  PROVE k >= n
    BY <1>1, <2>4, Consts
  <2>. QED
    BY <2>1, <2>2, <2>3, <2>4
<1>6. Cardinality(0 .. n - 1) = n
  BY <1>1, FS_Interval
<1>7. Chain(f, ch[1]) = [k \in 1 .. n |-> at[k - 1]]
  BY <1>5, <1>6 DEF Chain, at
<1>8. \A k \in 1 .. n : at[k - 1] = ch[k]
  <2>1. ASSUME NEW k \in 1..n  PROVE at[k - 1] = ch[k]
    <3>1. k - 1 \in 0 .. Last /\ k - 1 < n /\ (k - 1) + 1 = k
      BY <1>1, Consts
    <3>. QED
      BY <3>1, <1>4 DEF run
  <2>. QED
    BY <2>1
<1>9. ch = [k \in 1..n |-> ch[k]]
  BY <1>1
<1>. QED
  BY <1>7, <1>8, <1>9

LEMMA ChainFacts ==
  ASSUME NEW f, NEW x, Chained(f, x)
  PROVE  LET ch == Chain(f, x)
         IN  /\ ch \in Seq(Clusters) /\ Len(ch) \in Nat /\ Len(ch) >= 1 /\ Len(ch) <= Last - 1
             /\ DOMAIN ch = 1..Len(ch) /\ ch[1] = x /\ 1 \in 1..Len(ch) /\ Len(ch) \in 1..Len(ch)
             /\ x \in InChain(f, x) /\ x \in Clusters /\ ch[Len(ch)] \in InChain(f, x)
             /\ InChain(f, x) = {ch[k] : k \in 1..Len(ch)} /\ InChain(f, x) \subseteq Clusters
             /\ IsFiniteSet(InChain(f, x)) /\ Cardinality(InChain(f, x)) = Len(ch)
             /\ \A k \in 1..Len(ch) : ch[k] \in InChain(f, x) /\ ch[k] \in Clusters
             /\ \A k \in 1..Len(ch) - 1 : f[ch[k]] = ch[k + 1] /\ k \in 1..Len(ch) /\ k + 1 \in 1..Len(ch)
             /\ f[ch[Len(ch)]] = EOC
             /\ \A j, k \in 1..Len(ch) : ch[j] = ch[k] => j = k
<1>. DEFINE ch == Chain(f, x)
<1>1. /\ ch \in Seq(Clusters) /\ ch # <<>> /\ ch[1] = x
      /\ \A k \in 1..Len(ch) - 1 : f[ch[k]] = ch[k + 1]
      /\ f[ch[Len(ch)]] = EOC
      /\ \A j, k \in 1..Len(ch) : ch[j] = ch[k] => j = k
  BY DEF Chained, IsChain
<1>2. InChain(f, x) = {ch[k] : k \in DOMAIN ch}
  BY DEF InChain
<1>. HIDE DEF ch
<1>3. Len(ch) \in Nat /\ Len(ch) >= 1 /\ DOMAIN ch = 1..Len(ch) /\ 1 \in 1..Len(ch) /\ Len(ch) \in 1..Len(ch)
  BY <1>1
<1>4. /\ Len(ch) <= Last - 1 /\ IsFiniteSet({ch[k] : k \in 1..Len(ch)})
      /\ Cardinality({ch[k] : k \in 1..Len(ch)}) = Len(ch)
  BY <1>1, Distinct
<1>5. InChain(f, x) = {ch[k] : k \in 1..Len(ch)}
  BY <1>2, <1>3
<1>6. \A k \in 1..Len(ch) : ch[k] \in InChain(f, x) /\ ch[k] \in Clusters
  BY <1>1, <1>5
<1>7. \A k \in 1..Len(ch) - 1 : k \in 1..Len(ch) /\ k + 1 \in 1..Len(ch)
  BY <1>3
<1>8. InChain(f, x) \subseteq Clusters /\ x \in InChain(f, x) /\ x \in Clusters
  BY <1>1, <1>3, <1>5, <1>6
<1>. QED
  BY <1>1, <1>3, <1>4, <1>5, <1>6, <1>7, <1>8, Zenon DEF ch

LEMMA ChainOf ==
  ASSUME NEW f, NEW ch, IsChain(f, ch)
  PROVE  Chained(f, ch[1]) /\ Chain(f, ch[1]) = ch /\ InChain(f, ch[1]) = {ch[k] : k \in 1..Len(ch)}
<1>1. Chain(f, ch[1]) = ch
  BY ChainIs
<1>2. DOMAIN ch = 1..Len(ch)
  BY DEF IsChain
<1>. QED
  BY <1>1, <1>2 DEF Chained, InChain

\* A link stays in its chain; only the last has the end mark.
LEMMA Links ==
  ASSUME NEW f, NEW x, Chained(f, x), NEW a \in InChain(f, x)
  PROVE  /\ a \in Clusters /\ f[a] # Free
         /\ \/ f[a] = EOC /\ a = Chain(f, x)[Len(Chain(f, x))]
            \/ f[a] \in Clusters /\ f[a] \in InChain(f, x)
<1>. DEFINE ch == Chain(f, x)
<1>1. PICK k \in 1..Len(ch) : a = ch[k]
  BY ChainFacts
<1>2. CASE k = Len(ch)
  <2>1. f[ch[Len(ch)]] = EOC /\ ch[Len(ch)] \in Clusters
    BY ChainFacts
  <2>. QED
    BY <1>1, <1>2, <2>1, Marks
<1>3. CASE k # Len(ch)
  <2>1. k \in 1..Len(ch) - 1
    BY <1>1, <1>3, ChainFacts
  <2>2. f[a] = ch[k + 1] /\ k + 1 \in 1..Len(ch)
    BY <1>1, <2>1, ChainFacts
  <2>3. ch[k + 1] \in InChain(f, x) /\ ch[k + 1] \in Clusters /\ a \in Clusters
    BY <2>2, ChainFacts
  <2>. QED
    BY <2>2, <2>3, Marks
<1>. QED
  BY <1>2, <1>3

LEMMA ChainKept ==
  ASSUME NEW f, NEW g, NEW x, Chained(f, x), \A a \in InChain(f, x) : g[a] = f[a]
  PROVE  Chained(g, x) /\ Chain(g, x) = Chain(f, x) /\ InChain(g, x) = InChain(f, x)
<1>. DEFINE ch == Chain(f, x)
<1>1. \A k \in 1..Len(ch) : g[ch[k]] = f[ch[k]]
  BY ChainFacts
<1>2. IsChain(f, ch) /\ ch[1] = x
  BY DEF Chained
<1>3. \A k \in 1..Len(ch) - 1 : k \in 1..Len(ch)
  BY ChainFacts
<1>4. Len(ch) \in 1..Len(ch)
  BY ChainFacts
<1>. HIDE DEF ch
<1>5. IsChain(g, ch)
  BY <1>1, <1>2, <1>3, <1>4 DEF IsChain
<1>6. Chained(g, x) /\ Chain(g, x) = ch /\ InChain(g, x) = {ch[k] : k \in 1..Len(ch)}
  BY <1>2, <1>5, ChainOf
<1>7. InChain(f, x) = {ch[k] : k \in 1..Len(ch)}
  BY ChainFacts DEF ch
<1>. QED
  BY <1>6, <1>7 DEF ch

LEMMA ChainGrown ==
  ASSUME NEW f, NEW g, NEW x, Chained(f, x), NEW new \in Clusters, new \notin InChain(f, x),
         g[new] = EOC, g[Chain(f, x)[Len(Chain(f, x))]] = new,
         \A a \in InChain(f, x) : a # Chain(f, x)[Len(Chain(f, x))] => g[a] = f[a]
  PROVE  /\ Chained(g, x) /\ Chain(g, x) = Append(Chain(f, x), new)
         /\ InChain(g, x) = InChain(f, x) \cup {new}
         /\ Len(Chain(g, x)) = Len(Chain(f, x)) + 1
         /\ Chain(g, x)[Len(Chain(f, x)) + 1] = new
<1>. DEFINE ch == Chain(f, x)
            n == Len(ch)
            lo == Append(ch, new)
<1>1. /\ ch \in Seq(Clusters) /\ n \in Nat /\ n >= 1 /\ ch[1] = x
      /\ \A k \in 1..n : ch[k] \in InChain(f, x) /\ ch[k] \in Clusters
      /\ \A k \in 1..n - 1 : f[ch[k]] = ch[k + 1]
      /\ \A j, k \in 1..n : ch[j] = ch[k] => j = k
      /\ InChain(f, x) = {ch[k] : k \in 1..n}
  BY ChainFacts
<1>2. g[ch[n]] = new /\ \A a \in InChain(f, x) : a # ch[n] => g[a] = f[a]
  OBVIOUS
<1>. HIDE DEF ch
<1>3. /\ lo \in Seq(Clusters) /\ Len(lo) = n + 1 /\ lo[n + 1] = new /\ lo # <<>>
      /\ \A k \in 1..n : lo[k] = ch[k]
  BY <1>1
<1>. HIDE DEF lo, n
<1>4. ASSUME NEW k \in 1..n  PROVE g[lo[k]] = lo[k + 1]
  <2>1. CASE k = n
    BY <1>1, <1>2, <1>3, <2>1
  <2>2. CASE k # n
    <3>1. k \in 1..n - 1 /\ k + 1 \in 1..n /\ n \in 1..n
      BY <1>1, <2>2
    <3>2. ch[k] # ch[n] /\ lo[k] = ch[k] /\ lo[k + 1] = ch[k + 1]
      BY <1>1, <1>3, <2>2, <3>1
    <3>. QED
      BY <1>1, <1>2, <3>1, <3>2
  <2>. QED
    BY <2>1, <2>2
<1>5. ASSUME NEW j \in 1..n + 1, NEW k \in 1..n + 1, lo[j] = lo[k]  PROVE j = k
  <2>1. CASE j \in 1..n /\ k \in 1..n
    BY <1>1, <1>3, <1>5, <2>1
  <2>2. CASE j = n + 1 /\ k \in 1..n
    BY <1>1, <1>3, <1>5, <2>2
  <2>3. CASE j \in 1..n /\ k = n + 1
    BY <1>1, <1>3, <1>5, <2>3
  <2>4. CASE j = n + 1 /\ k = n + 1
    BY <2>4
  <2>. QED
    BY <1>1, <2>1, <2>2, <2>3, <2>4
<1>6. IsChain(g, lo)
  <2>1. Len(lo) - 1 = n
    BY <1>1, <1>3
  <2>2. g[lo[Len(lo)]] = EOC
    BY <1>3
  <2>. QED
    BY <1>3, <1>4, <1>5, <2>1, <2>2 DEF IsChain
<1>7. lo[1] = x
  BY <1>1, <1>3
<1>8. Chained(g, x) /\ Chain(g, x) = lo /\ InChain(g, x) = {lo[k] : k \in 1..Len(lo)}
  BY <1>6, <1>7, ChainOf
<1>9. {lo[k] : k \in 1..Len(lo)} = {ch[k] : k \in 1..n} \cup {new}
  <2>1. 1..Len(lo) = 1..n \cup {n + 1}
    BY <1>1, <1>3
  <2>. QED
    BY <1>3, <2>1
<1>. QED
  BY <1>1, <1>3, <1>8, <1>9 DEF lo, ch, n

LEMMA Single ==
  ASSUME NEW g, NEW new \in Clusters, g[new] = EOC
  PROVE  Chained(g, new) /\ Chain(g, new) = <<new>> /\ InChain(g, new) = {new}
<1>1. IsChain(g, <<new>>) /\ <<new>>[1] = new /\ Len(<<new>>) = 1
  BY DEF IsChain
<1>2. \A k \in 1..1 : k = 1
  OBVIOUS
<1>3. {<<new>>[k] : k \in 1..1} = {new}
  BY <1>2
<1>. QED
  BY <1>1, <1>3, ChainOf

-----------------------------------------------------------------------------
(***************************************************************************)
(* Operations on the FAT.                                                  *)
(***************************************************************************)
LEMMA FreeSet ==
  ASSUME NEW f
  PROVE  /\ FreeClusters(f) \subseteq Clusters /\ IsFiniteSet(FreeClusters(f))
         /\ Cardinality(FreeClusters(f)) \in Nat
         /\ (FreeClusters(f) = {} <=> Cardinality(FreeClusters(f)) = 0)
<1>1. FreeClusters(f) \in SUBSET Clusters
  BY DEF FreeClusters
<1>2. IsFiniteSet(FreeClusters(f))
  BY <1>1, Marks, FS_Subset
<1>. QED
  BY <1>1, <1>2, FS_CardinalityType, FS_EmptySet

LEMMA LowestIs ==
  ASSUME NEW set \in SUBSET Nat, set # {}
  PROVE  LowestIn(set) \in set /\ \A y \in set : LowestIn(set) <= y
<1>1. \E m \in set : \A n \in set : m <= n
  BY NatLeast
<1>. QED
  BY <1>1 DEF LowestIn

LEMMA LowestFree ==
  ASSUME NEW f, FreeClusters(f) # {}
  PROVE  LowestIn(FreeClusters(f)) \in Clusters /\ f[LowestIn(FreeClusters(f))] = Free
<1>1. FreeClusters(f) \in SUBSET Nat
  BY Marks DEF FreeClusters
<1>2. LowestIn(FreeClusters(f)) \in FreeClusters(f)
  BY <1>1, LowestIs
<1>. QED
  BY <1>2 DEF FreeClusters

LEMMA NotFree ==
  ASSUME NEW f, NEW heads, NEW pend, ChainsOK(f, heads, pend)
  PROVE  /\ \A x \in heads : \A a \in InChain(f, x) : f[a] # Free /\ a \in Clusters
         /\ \A a \in pend : f[a] # Free /\ a \in Clusters
<1>1. /\ pend \subseteq Clusters /\ \A x \in heads : Chained(f, x)
      /\ \A a \in Clusters : f[a] # Free <=> (a \in pend \/ \E x \in heads : a \in InChain(f, x))
  BY DEF ChainsOK
<1>2. \A x \in heads : InChain(f, x) \subseteq Clusters
  BY <1>1, ChainFacts
<1>. QED
  BY <1>1, <1>2

LEMMA Freed ==
  ASSUME NEW f, NEW heads, NEW pend, ChainsOK(f, heads, pend), NEW x \in heads
  PROVE  LET g == FreeChain(f, x)
         IN  /\ ChainsOK(g, heads \ {x}, pend)
             /\ \A y \in heads \ {x} : /\ Chain(g, y) = Chain(f, y) /\ InChain(g, y) = InChain(f, y)
                                       /\ \A a \in InChain(f, y) : g[a] = f[a]
             /\ Cardinality(FreeClusters(g)) = Cardinality(FreeClusters(f)) + Len(Chain(f, x))
<1>. DEFINE g == FreeChain(f, x)
            C == InChain(f, x)
<1>1. /\ f \in Fats /\ heads \subseteq Clusters /\ (\A y \in heads : Chained(f, y))
      /\ (\A y, z \in heads : y # z => InChain(f, y) \cap InChain(f, z) = {})
      /\ (\A y \in heads : InChain(f, y) \cap pend = {})
      /\ pend \subseteq Clusters
      /\ \A a \in Clusters : f[a] # Free <=> (a \in pend \/ \E z \in heads : a \in InChain(f, z))
  BY DEF ChainsOK
<1>2. g = [c \in Clusters |-> IF c \in C THEN Free ELSE f[c]]
  BY DEF FreeChain
<1>3. g \in Fats
  BY <1>1, <1>2 DEF Fats
<1>4. /\ C \subseteq Clusters /\ IsFiniteSet(C) /\ Cardinality(C) = Len(Chain(f, x))
      /\ \A a \in C : f[a] # Free
  BY <1>1, ChainFacts, NotFree
<1>. HIDE DEF g, C
<1>5. ASSUME NEW y \in heads \ {x}
      PROVE  /\ InChain(f, y) \cap C = {} /\ InChain(f, y) \subseteq Clusters
             /\ \A a \in InChain(f, y) : g[a] = f[a]
  <2>1. InChain(f, y) \subseteq Clusters
    BY <1>1, ChainFacts
  <2>2. InChain(f, y) \cap C = {}
    BY <1>1 DEF C
  <2>. QED
    BY <1>2, <2>1, <2>2
<1>6. ASSUME NEW y \in heads \ {x}
      PROVE  Chained(g, y) /\ Chain(g, y) = Chain(f, y) /\ InChain(g, y) = InChain(f, y)
  BY <1>1, <1>5, ChainKept
<1>7. \A a \in Clusters : g[a] # Free <=> (a \in pend \/ \E y \in heads \ {x} : a \in InChain(g, y))
  <2>1. ASSUME NEW a \in Clusters, g[a] # Free
        PROVE  a \in pend \/ \E y \in heads \ {x} : a \in InChain(g, y)
    <3>1. a \notin C /\ f[a] # Free
      BY <1>2, <2>1
    <3>2. a \in pend \/ \E y \in heads : a \in InChain(f, y)
      BY <1>1, <3>1
    <3>3. ASSUME NEW y \in heads, a \in InChain(f, y)  PROVE y \in heads \ {x} /\ a \in InChain(g, y)
      BY <1>6, <3>1, <3>3 DEF C
    <3>. QED
      BY <3>2, <3>3
  <2>2. ASSUME NEW a \in pend  PROVE g[a] # Free
    <3>1. a \in Clusters /\ f[a] # Free /\ a \notin C
      BY <1>1 DEF C
    <3>. QED
      BY <1>2, <3>1
  <2>3. ASSUME NEW y \in heads \ {x}, NEW a \in InChain(g, y)  PROVE g[a] # Free
    <3>1. a \in InChain(f, y) /\ f[a] # Free
      BY <1>6, NotFree
    <3>. QED
      BY <1>5, <3>1
  <2>. QED
    BY <2>1, <2>2, <2>3
<1>8. ChainsOK(g, heads \ {x}, pend)
  <2>1. \A y, z \in heads \ {x} : y # z => InChain(g, y) \cap InChain(g, z) = {}
    BY <1>1, <1>6
  <2>2. \A y \in heads \ {x} : InChain(g, y) \cap pend = {} /\ Chained(g, y)
    BY <1>1, <1>6
  <2>. QED
    BY <1>1, <1>3, <1>7, <2>1, <2>2 DEF ChainsOK
<1>9. Cardinality(FreeClusters(g)) = Cardinality(FreeClusters(f)) + Len(Chain(f, x))
  <2>1. FreeClusters(g) = FreeClusters(f) \cup C
    BY <1>2, <1>4 DEF FreeClusters
  <2>2. FreeClusters(f) \cap C = {}
    BY <1>4 DEF FreeClusters
  <2>3. Cardinality(FreeClusters(f) \cup C) = Cardinality(FreeClusters(f)) + Cardinality(C)
                                                - Cardinality(FreeClusters(f) \cap C)
    BY <1>4, FreeSet, FS_Union
  <2>4. Cardinality(C) \in Nat /\ Cardinality(FreeClusters(f)) \in Nat /\ Cardinality({}) = 0
    BY <1>4, FreeSet, FS_CardinalityType, FS_EmptySet
  <2>5. Cardinality(FreeClusters(g)) = Cardinality(FreeClusters(f)) + Cardinality(C) - 0
    BY <2>1, <2>2, <2>3, <2>4
  <2>6. Cardinality(C) = Len(Chain(f, x))
    BY <1>4
  <2>. QED
    BY <2>4, <2>5, <2>6
<1>. QED
  BY <1>5, <1>6, <1>8, <1>9 DEF g

\* fat32_alloc_cluster, and the link to the new cluster.
Linked(f, new, prev) ==
  [a \in Clusters |-> IF a = new THEN EOC ELSE IF a = prev THEN new ELSE f[a]]

LEMMA LinkedFat ==
  ASSUME NEW f \in Fats, NEW new \in Clusters, f[new] = Free, NEW prev
  PROVE  LET g == Linked(f, new, prev)
         IN  /\ g \in Fats /\ g[new] = EOC
             /\ \A a \in Clusters : a # new /\ a # prev => g[a] = f[a]
             /\ (prev \in Clusters /\ prev # new => g[prev] = new)
             /\ (f[prev] # Free \/ prev \notin Clusters) =>
                  /\ \A a \in Clusters : g[a] # Free <=> (f[a] # Free \/ a = new)
                  /\ Cardinality(FreeClusters(g)) = Cardinality(FreeClusters(f)) - 1
<1>. DEFINE g == Linked(f, new, prev)
<1>1. /\ g \in Fats /\ g[new] = EOC
      /\ \A a \in Clusters : a # new /\ a # prev => g[a] = f[a]
      /\ (prev \in Clusters /\ prev # new => g[prev] = new)
  BY DEF Linked, Fats
<1>. HIDE DEF g
<1>2. ASSUME f[prev] # Free \/ prev \notin Clusters
      PROVE  /\ \A a \in Clusters : g[a] # Free <=> (f[a] # Free \/ a = new)
             /\ Cardinality(FreeClusters(g)) = Cardinality(FreeClusters(f)) - 1
  <2>1. \A a \in Clusters : g[a] # Free <=> (f[a] # Free \/ a = new)
    BY <1>1, <1>2, Marks
  <2>2. FreeClusters(g) = FreeClusters(f) \ {new} /\ new \in FreeClusters(f)
    BY <2>1 DEF FreeClusters
  <2>3. Cardinality(FreeClusters(f) \ {new}) = Cardinality(FreeClusters(f)) - 1
    BY <2>2, FreeSet, FS_RemoveElement
  <2>. QED
    BY <2>1, <2>2, <2>3
<1>. QED
  BY <1>1, <1>2 DEF g

\* A cluster is added to the run.
LEMMA RunGrown ==
  ASSUME NEW f, NEW heads, NEW pend, ChainsOK(f, heads, pend), NEW x, NEW prev, NEW n,
         Run(f, pend, x, prev, n), NEW new \in Clusters, f[new] = Free
  PROVE  LET g == Linked(f, new, prev)
         IN  /\ ChainsOK(g, heads, pend \cup {new})
             /\ Run(g, pend \cup {new}, IF n = 0 THEN new ELSE x, new, n + 1)
             /\ \A y \in heads : /\ Chain(g, y) = Chain(f, y) /\ InChain(g, y) = InChain(f, y)
                                 /\ \A a \in InChain(f, y) : g[a] = f[a]
             /\ Cardinality(FreeClusters(g)) = Cardinality(FreeClusters(f)) - 1
<1>. DEFINE g == Linked(f, new, prev)
<1>1. /\ f \in Fats /\ heads \subseteq Clusters /\ (\A y \in heads : Chained(f, y))
      /\ (\A y, z \in heads : y # z => InChain(f, y) \cap InChain(f, z) = {})
      /\ (\A y \in heads : InChain(f, y) \cap pend = {})
      /\ pend \subseteq Clusters
      /\ \A a \in Clusters : f[a] # Free <=> (a \in pend \/ \E z \in heads : a \in InChain(f, z))
  BY DEF ChainsOK
<1>2. prev \in pend \/ prev \notin Clusters
  BY ChainFacts, Marks DEF Run
<1>3. f[prev] # Free \/ prev \notin Clusters
  BY <1>2, NotFree
<1>4. /\ g \in Fats /\ g[new] = EOC
      /\ (\A a \in Clusters : a # new /\ a # prev => g[a] = f[a])
      /\ (prev \in Clusters /\ prev # new => g[prev] = new)
      /\ \A a \in Clusters : g[a] # Free <=> (f[a] # Free \/ a = new)
      /\ Cardinality(FreeClusters(g)) = Cardinality(FreeClusters(f)) - 1
  BY <1>1, <1>3, LinkedFat
<1>. HIDE DEF g
<1>5. ASSUME NEW y \in heads
      PROVE  /\ Chained(g, y) /\ Chain(g, y) = Chain(f, y) /\ InChain(g, y) = InChain(f, y)
             /\ (\A a \in InChain(f, y) : g[a] = f[a]) /\ new \notin InChain(f, y)
  <2>1. \A a \in InChain(f, y) : a \in Clusters /\ a # new /\ a # prev
    BY <1>1, <1>2, NotFree
  <2>2. \A a \in InChain(f, y) : g[a] = f[a]
    BY <1>4, <2>1
  <2>. QED
    BY <1>1, <2>1, <2>2, ChainKept
<1>6. new \notin pend
  BY NotFree
<1>7. ChainsOK(g, heads, pend \cup {new})
  <2>1. \A y, z \in heads : y # z => InChain(g, y) \cap InChain(g, z) = {}
    BY <1>1, <1>5
  <2>2. \A y \in heads : InChain(g, y) \cap (pend \cup {new}) = {} /\ Chained(g, y)
    BY <1>1, <1>5
  <2>3. \A a \in Clusters : g[a] # Free <=> (a \in pend \cup {new} \/ \E y \in heads : a \in InChain(g, y))
    BY <1>1, <1>4, <1>5
  <2>. QED
    BY <1>1, <1>4, <2>1, <2>2, <2>3 DEF ChainsOK
<1>8. Run(g, pend \cup {new}, IF n = 0 THEN new ELSE x, new, n + 1)
  <2>1. CASE n = 0 /\ pend = {}
    <3>1. Chained(g, new) /\ Chain(g, new) = <<new>> /\ InChain(g, new) = {new}
      BY <1>4, Single
    <3>. QED
      BY <2>1, <3>1, Marks DEF Run
  <2>2. CASE /\ n > 0 /\ x # 0 /\ Chained(f, x) /\ pend = InChain(f, x)
             /\ n = Len(Chain(f, x)) /\ prev = Chain(f, x)[n]
    <3>1. prev \in Clusters /\ prev # new /\ n \in Nat
      BY <1>6, <2>2, ChainFacts
    <3>2. \A a \in InChain(f, x) : a # Chain(f, x)[Len(Chain(f, x))] => g[a] = f[a]
      <4>1. \A a \in InChain(f, x) : a \in Clusters /\ a # new
        BY <1>6, <2>2, ChainFacts
      <4>. QED
        BY <1>4, <2>2, <4>1
    <3>3. /\ Chained(g, x) /\ Chain(g, x) = Append(Chain(f, x), new)
          /\ InChain(g, x) = InChain(f, x) \cup {new}
          /\ Len(Chain(g, x)) = Len(Chain(f, x)) + 1
          /\ Chain(g, x)[Len(Chain(f, x)) + 1] = new
      <4>1. Chained(f, x) /\ g[new] = EOC /\ new \notin InChain(f, x) /\ g[Chain(f, x)[Len(Chain(f, x))]] = new
        BY <1>4, <1>6, <2>2, <3>1
      <4>. QED
        BY <3>2, <4>1, ChainGrown
    <3>. QED
      BY <2>2, <3>1, <3>3 DEF Run
  <2>. QED
    BY <2>1, <2>2 DEF Run
<1>. QED
  BY <1>4, <1>5, <1>7, <1>8 DEF g

\* A cluster is added to a directory's chain.
LEMMA ChainExtended ==
  ASSUME NEW f, NEW heads, NEW pend, ChainsOK(f, heads, pend), NEW x, NEW prev, NEW n,
         Run(f, pend, x, prev, n), NEW new \in Clusters, f[new] = Free,
         NEW y \in heads, NEW cur \in InChain(f, y), f[cur] = EOC
  PROVE  LET g == Linked(f, new, cur)
         IN  /\ ChainsOK(g, heads, pend) /\ Run(g, pend, x, prev, n)
             /\ InChain(g, y) = InChain(f, y) \cup {new} /\ g[new] = EOC /\ g[cur] = new
             /\ \A a \in InChain(f, y) : a # cur => g[a] = f[a] /\ f[a] # EOC
             /\ \A z \in heads \ {y} : /\ Chain(g, z) = Chain(f, z) /\ InChain(g, z) = InChain(f, z)
                                       /\ \A a \in InChain(f, z) : g[a] = f[a]
             /\ Cardinality(FreeClusters(g)) = Cardinality(FreeClusters(f)) - 1
<1>. DEFINE g == Linked(f, new, cur)
<1>1. /\ f \in Fats /\ heads \subseteq Clusters /\ (\A z \in heads : Chained(f, z))
      /\ (\A w, z \in heads : w # z => InChain(f, w) \cap InChain(f, z) = {})
      /\ (\A z \in heads : InChain(f, z) \cap pend = {})
      /\ pend \subseteq Clusters
      /\ \A a \in Clusters : f[a] # Free <=> (a \in pend \/ \E z \in heads : a \in InChain(f, z))
  BY DEF ChainsOK
<1>2. cur \in Clusters /\ f[cur] # Free /\ cur # new
  BY NotFree
<1>3. /\ g \in Fats /\ g[new] = EOC
      /\ (\A a \in Clusters : a # new /\ a # cur => g[a] = f[a])
      /\ g[cur] = new
      /\ \A a \in Clusters : g[a] # Free <=> (f[a] # Free \/ a = new)
      /\ Cardinality(FreeClusters(g)) = Cardinality(FreeClusters(f)) - 1
  BY <1>1, <1>2, LinkedFat
<1>. HIDE DEF g
<1>4. new \notin pend /\ \A z \in heads : new \notin InChain(f, z)
  BY NotFree
<1>5. ASSUME NEW z \in heads \ {y}
      PROVE  /\ Chained(g, z) /\ Chain(g, z) = Chain(f, z) /\ InChain(g, z) = InChain(f, z)
             /\ \A a \in InChain(f, z) : g[a] = f[a]
  <2>1. \A a \in InChain(f, z) : a \in Clusters /\ a # new /\ a # cur
    BY <1>1, <1>4, NotFree
  <2>2. \A a \in InChain(f, z) : g[a] = f[a]
    BY <1>3, <2>1
  <2>. QED
    BY <1>1, <2>2, ChainKept
<1>6. /\ cur = Chain(f, y)[Len(Chain(f, y))] /\ \A a \in InChain(f, y) : a # cur => g[a] = f[a] /\ f[a] # EOC
  <2>1. cur = Chain(f, y)[Len(Chain(f, y))]
    BY <1>1, Links, Marks
  <2>2. ASSUME NEW a \in InChain(f, y), a # cur  PROVE g[a] = f[a] /\ f[a] # EOC
    <3>1. a \in Clusters /\ a # new
      BY <1>4, NotFree
    <3>2. f[a] # EOC
      BY <1>1, <2>1, <2>2, Links, Marks
    <3>. QED
      BY <1>3, <2>2, <3>1, <3>2
  <2>. QED
    BY <2>1, <2>2
<1>7. Chained(g, y) /\ InChain(g, y) = InChain(f, y) \cup {new}
  <2>1. g[Chain(f, y)[Len(Chain(f, y))]] = new
    BY <1>3, <1>6
  <2>2. \A a \in InChain(f, y) : a # Chain(f, y)[Len(Chain(f, y))] => g[a] = f[a]
    BY <1>6
  <2>3. Chained(f, y) /\ new \notin InChain(f, y)
    BY <1>1, <1>4
  <2>. QED
    BY <1>3, <2>1, <2>2, <2>3, ChainGrown
<1>8. Run(g, pend, x, prev, n)
  <2>1. ASSUME Chained(f, x), pend = InChain(f, x)
        PROVE  Chained(g, x) /\ Chain(g, x) = Chain(f, x) /\ InChain(g, x) = InChain(f, x)
    <3>1. \A a \in InChain(f, x) : a \in Clusters /\ a # new /\ a # cur
      BY <1>1, <1>4, <2>1, NotFree
    <3>2. \A a \in InChain(f, x) : g[a] = f[a]
      BY <1>3, <3>1
    <3>. QED
      BY <2>1, <3>2, ChainKept
  <2>. QED
    BY <2>1 DEF Run
<1>9. ChainsOK(g, heads, pend)
  <2>1. \A z \in heads : InChain(g, z) \subseteq InChain(f, z) \cup {new} /\ Chained(g, z)
    BY <1>5, <1>7
  <2>2. \A z \in heads \ {y} : new \notin InChain(g, z)
    BY <1>4, <1>5
  <2>3. \A w, z \in heads : w # z => InChain(g, w) \cap InChain(g, z) = {}
    <3>1. ASSUME NEW w \in heads, NEW z \in heads, w # z, NEW a \in InChain(g, w), a \in InChain(g, z)
          PROVE  FALSE
      <4>1. w \in heads \ {y} \/ z \in heads \ {y}
        BY <3>1
      <4>2. a # new
        BY <2>2, <3>1, <4>1
      <4>3. a \in InChain(f, w) /\ a \in InChain(f, z)
        BY <2>1, <3>1, <4>2
      <4>. QED
        BY <1>1, <3>1, <4>3
    <3>. QED
      BY <3>1
  <2>4. \A z \in heads : InChain(g, z) \cap pend = {}
    BY <1>1, <1>4, <2>1
  <2>5. \A z \in heads : InChain(f, z) \subseteq InChain(g, z)
    BY <1>5, <1>7
  <2>6. \A a \in Clusters : g[a] # Free <=> (a \in pend \/ \E z \in heads : a \in InChain(g, z))
    <3>1. ASSUME NEW a \in Clusters, g[a] # Free
          PROVE  a \in pend \/ \E z \in heads : a \in InChain(g, z)
      BY <1>1, <1>3, <1>7, <2>5, <3>1
    <3>2. ASSUME NEW a \in Clusters, a \in pend \/ \E z \in heads : a \in InChain(g, z)
          PROVE  g[a] # Free
      BY <1>1, <1>3, <2>1, <3>2
    <3>. QED
      BY <3>1, <3>2
  <2>. QED
    BY <1>1, <1>3, <2>1, <2>3, <2>4, <2>6 DEF ChainsOK
<1>. QED
  BY <1>3, <1>5, <1>6, <1>7, <1>8, <1>9 DEF g

\* The call's clusters get their entry.
LEMMA Adopted ==
  ASSUME NEW f, NEW heads, NEW pend, ChainsOK(f, heads, pend), NEW x,
         Chained(f, x), pend = InChain(f, x)
  PROVE  ChainsOK(f, heads \cup {x}, {}) /\ x \notin heads
<1>1. /\ f \in Fats /\ heads \subseteq Clusters /\ (\A y \in heads : Chained(f, y))
      /\ (\A y, z \in heads : y # z => InChain(f, y) \cap InChain(f, z) = {})
      /\ (\A y \in heads : InChain(f, y) \cap pend = {})
      /\ pend \subseteq Clusters
      /\ \A a \in Clusters : f[a] # Free <=> (a \in pend \/ \E z \in heads : a \in InChain(f, z))
  BY DEF ChainsOK
<1>2. x \in pend /\ x \in Clusters
  BY ChainFacts
<1>3. x \notin heads
  <2>1. ASSUME x \in heads  PROVE FALSE
    BY <1>1, <1>2, <2>1
  <2>. QED
    BY <2>1
<1>4. \A y, z \in heads \cup {x} : y # z => InChain(f, y) \cap InChain(f, z) = {}
  BY <1>1
<1>5. \A a \in Clusters : f[a] # Free <=> (a \in {} \/ \E y \in heads \cup {x} : a \in InChain(f, y))
  BY <1>1
<1>6. \A y \in heads \cup {x} : Chained(f, y) /\ InChain(f, y) \cap {} = {}
  BY <1>1
<1>. QED
  BY <1>1, <1>2, <1>3, <1>4, <1>5, <1>6 DEF ChainsOK

-----------------------------------------------------------------------------
(***************************************************************************)
(* What a search of a directory meets.                                     *)
(***************************************************************************)
LEMMA EntIn ==
  ASSUME NEW f, NEW s, NEW d, NEW p
  PROVE  /\ p \in Ents(f, s, d) <=> p \in Places(f, d) /\ Live(Ent(s, p)) /\ Ent(s, p).name \notin Dots
         /\ p \in Places(f, d) => /\ p[1] \in InChain(f, d) /\ p[2] \in 1..Slots /\ p = <<p[1], p[2]>>
                                  /\ p[2] \in Nat
<1>1. p \in Ents(f, s, d) <=> p \in Places(f, d) /\ Live(Ent(s, p)) /\ Ent(s, p).name \notin Dots
  BY DEF Ents
<1>2. p \in Places(f, d) => p[1] \in InChain(f, d) /\ p[2] \in 1..Slots /\ p = <<p[1], p[2]>>
  BY DEF Places
<1>3. 1..Slots \subseteq Nat
  BY Consts
<1>. QED
  BY <1>1, <1>2, <1>3

LEMMA EntriesAre ==
  /\ Live(End) = FALSE /\ Live(Deleted) = FALSE /\ End # Deleted
  /\ \A e \in Entry : \/ e = End \/ e = Deleted
                      \/ /\ Live(e) /\ e.first \in Clusters /\ e.size \in Nat /\ e.name \in Names \cup Dots
                         /\ e.attr \in {"file", "dir"} /\ e = NewEntry(e.name, e.attr, e.first, e.size)
                         /\ e # End /\ e # Deleted
  /\ Tables = [1..Slots -> Entry]
<1>1. End.attr = "end" /\ Deleted.attr = "deleted"
  BY DEF End, Deleted
<1>2. Live(End) = FALSE /\ Live(Deleted) = FALSE /\ End # Deleted
  BY <1>1 DEF Live
<1>3. ASSUME NEW e \in [attr : {"file", "dir"}, name : Names \cup Dots, first : Clusters, size : Nat]
      PROVE  /\ Live(e) /\ e.first \in Clusters /\ e.size \in Nat /\ e.name \in Names \cup Dots
             /\ e.attr \in {"file", "dir"} /\ e = NewEntry(e.name, e.attr, e.first, e.size)
             /\ e # End /\ e # Deleted
  BY <1>1 DEF Live, NewEntry
<1>. QED
  BY <1>2, <1>3 DEF Entry, Tables

\* The place of the j-th entry of a directory.
Place(f, d, j) == <<Chain(f, d)[((j - 1) \div Slots) + 1], ((j - 1) % Slots) + 1>>
All(f, d) == 1..Len(Chain(f, d)) * Slots

LEMMA PlaceIs ==
  ASSUME NEW f, NEW d, Chained(f, d)
  PROVE  /\ \A j \in All(f, d) : /\ Place(f, d, j) \in Places(f, d)
                                 /\ ((j - 1) \div Slots) + 1 \in 1..Len(Chain(f, d))
                                 /\ ((j - 1) % Slots) + 1 \in 1..Slots
         /\ \A p \in Places(f, d) : \E j \in All(f, d) : Place(f, d, j) = p
         /\ \A i, j \in All(f, d) : Place(f, d, i) = Place(f, d, j) => i = j
<1>. DEFINE n == Len(Chain(f, d))
            ch == Chain(f, d)
<1>1. /\ n \in Nat /\ n >= 1 /\ Slots \in Nat /\ Slots >= 2
      /\ \A k \in 1..n : ch[k] \in InChain(f, d)
      /\ \A j, k \in 1..n : ch[j] = ch[k] => j = k
      /\ InChain(f, d) = {ch[k] : k \in 1..n}
  <2>1. Slots \in Nat /\ Slots >= 2
    BY Consts
  <2>. QED
    BY <2>1, ChainFacts
<1>2. All(f, d) = 1..n * Slots /\ \A j : Place(f, d, j) = <<ch[((j - 1) \div Slots) + 1], ((j - 1) % Slots) + 1>>
  BY DEF All, Place
<1>3. Places(f, d) = InChain(f, d) \X (1..Slots)
  BY DEF Places
<1>. HIDE DEF n, ch
<1>4. ASSUME NEW j \in All(f, d)
      PROVE  /\ j - 1 \in Nat /\ (j - 1) \div Slots \in 0..n - 1 /\ (j - 1) % Slots \in 0..Slots - 1
             /\ j = ((j - 1) \div Slots) * Slots + ((j - 1) % Slots) + 1
  <2>1. n * Slots \in Nat
    BY <1>1
  <2>2. j - 1 \in Nat /\ j - 1 < n * Slots
    BY <1>2, <2>1
  <2>3. /\ (j - 1) \div Slots \in Nat /\ (j - 1) % Slots \in 0..Slots - 1
        /\ j - 1 = ((j - 1) \div Slots) * Slots + ((j - 1) % Slots)
    BY <1>1, <2>2
  <2>4. ASSUME NEW q \in Nat, NEW r \in 0..Slots - 1, q * Slots + r < n * Slots  PROVE q < n
    BY <1>1, <2>4
  <2>5. (j - 1) \div Slots < n
    BY <2>2, <2>3, <2>4
  <2>6. \A q \in Nat : q < n => q \in 0..n - 1
    BY <1>1
  <2>7. j \in Nat
    BY <1>2, <2>1
  <2>8. j = (j - 1) + 1
    BY <2>7
  <2>. QED
    BY <2>2, <2>3, <2>5, <2>6, <2>8
<1>5. ASSUME NEW j \in All(f, d)
      PROVE  /\ Place(f, d, j) \in Places(f, d)
             /\ ((j - 1) \div Slots) + 1 \in 1..n /\ ((j - 1) % Slots) + 1 \in 1..Slots
  <2>1. \A q \in 0..n - 1, r \in 0..Slots - 1 : q + 1 \in 1..n /\ r + 1 \in 1..Slots
    BY <1>1
  <2>2. ((j - 1) \div Slots) + 1 \in 1..n /\ ((j - 1) % Slots) + 1 \in 1..Slots
    BY <1>4, <2>1
  <2>. QED
    BY <1>1, <1>2, <1>3, <2>2
<1>6. ASSUME NEW p \in Places(f, d)  PROVE \E j \in All(f, d) : Place(f, d, j) = p
  <2>1. PICK k \in 1..n : p[1] = ch[k]
    BY <1>1, <1>3
  <2>2. p[2] \in 1..Slots /\ p = <<p[1], p[2]>>
    BY <1>3
  <2>. DEFINE i == p[2]
              j == (k - 1) * Slots + i
  <2>. HIDE DEF i
  <2>3. i \in 1..Slots /\ k - 1 \in Nat /\ i - 1 \in 0..Slots - 1
    BY <1>1, <2>2 DEF i
  <2>4. j - 1 = (k - 1) * Slots + (i - 1) /\ j \in Nat /\ j >= 1
    BY <1>1, <2>3
  <2>5. j <= n * Slots
    <3>1. (k - 1) * Slots + Slots <= n * Slots
      <4>1. k - 1 + 1 <= n
        BY <1>1
      <4>2. (k - 1) * Slots + Slots = k * Slots
        BY <1>1
      <4>3. ASSUME NEW a \in Nat, NEW b \in Nat, a <= b  PROVE a * Slots <= b * Slots
        BY <1>1, <4>3
      <4>. QED
        BY <1>1, <4>2, <4>3
    <3>. QED
      BY <1>1, <2>3, <3>1
  <2>6. (j - 1) \div Slots = k - 1 /\ (j - 1) % Slots = i - 1
    <3>1. ASSUME NEW q \in Nat, NEW r \in 0..Slots - 1
          PROVE  (q * Slots + r) \div Slots = q /\ (q * Slots + r) % Slots = r
      BY <1>1, Z3
    <3>. QED
      BY <2>3, <2>4, <3>1
  <2>7. j \in All(f, d)
    <3>1. n * Slots \in Nat
      BY <1>1
    <3>. QED
      BY <1>2, <2>4, <2>5, <3>1
  <2>8. ((j - 1) \div Slots) + 1 = k /\ ((j - 1) % Slots) + 1 = i
    BY <1>1, <2>3, <2>6
  <2>. HIDE DEF j
  <2>. QED
    BY <1>2, <2>1, <2>2, <2>7, <2>8 DEF i
<1>7. ASSUME NEW i \in All(f, d), NEW j \in All(f, d), Place(f, d, i) = Place(f, d, j)
      PROVE  i = j
  <2>1. ((i - 1) \div Slots) + 1 = ((j - 1) \div Slots) + 1 /\ ((i - 1) % Slots) + 1 = ((j - 1) % Slots) + 1
    <3>1. <<ch[((i - 1) \div Slots) + 1], ((i - 1) % Slots) + 1>> = <<ch[((j - 1) \div Slots) + 1], ((j - 1) % Slots) + 1>>
      BY <1>2, <1>7
    <3>2. ch[((i - 1) \div Slots) + 1] = ch[((j - 1) \div Slots) + 1] /\ ((i - 1) % Slots) + 1 = ((j - 1) % Slots) + 1
      BY <3>1
    <3>. QED
      BY <1>1, <1>5, <3>2
  <2>2. (i - 1) \div Slots = (j - 1) \div Slots /\ (i - 1) % Slots = (j - 1) % Slots
    BY <1>4, <2>1
  <2>. QED
    BY <1>4, <2>2
<1>. QED
  BY <1>5, <1>6, <1>7 DEF n

LEMMA VisibleIs ==
  ASSUME NEW f, NEW s, NEW d, Chained(f, d), \A a \in InChain(f, d) : TableOK(f, s, a)
  PROVE  LET v == Visible(f, s, d)
         IN  /\ DOMAIN v = {j \in All(f, d) : Live(Ent(s, Place(f, d, j)))}
             /\ \A j \in DOMAIN v : v[j] = Ent(s, Place(f, d, j))
<1>. DEFINE ch == Chain(f, d)
            Slot_(j) == LET held == s[ch[((j - 1) \div Slots) + 1]]
                        IN  IF IsTable(held) THEN held[((j - 1) % Slots) + 1] ELSE End
            E(j) == Ent(s, Place(f, d, j))
            met == {j \in All(f, d) : \A i \in 1..j : Slot_(i) # End}
<1>1. \A j \in All(f, d) : Slot_(j) = E(j) /\ E(j) \in Entry
  <2>1. ASSUME NEW j \in All(f, d)  PROVE Slot_(j) = E(j) /\ E(j) \in Entry
    <3>1. /\ Place(f, d, j) = <<ch[((j - 1) \div Slots) + 1], ((j - 1) % Slots) + 1>>
          /\ Place(f, d, j) \in Places(f, d)
      BY PlaceIs DEF Place
    <3>2. ch[((j - 1) \div Slots) + 1] \in InChain(f, d) /\ ((j - 1) % Slots) + 1 \in 1..Slots
      BY <3>1, PlaceIs, ChainFacts
    <3>3. s[ch[((j - 1) \div Slots) + 1]] \in Tables
      BY <3>2 DEF TableOK
    <3>4. IsTable(s[ch[((j - 1) \div Slots) + 1]])
      BY <3>3, Consts DEF IsTable
    <3>5. E(j) = s[ch[((j - 1) \div Slots) + 1]][((j - 1) % Slots) + 1]
      BY <3>1 DEF Ent
    <3>. QED
      BY <3>2, <3>3, <3>4, <3>5, EntriesAre
  <2>. QED
    BY <2>1
<1>2. Visible(f, s, d) = [j \in {i \in met : Live(Slot_(i))} |-> Slot_(j)]
  BY DEF Visible, All
<1>3. ASSUME NEW j \in All(f, d), Live(E(j)), NEW i \in 1..j  PROVE Slot_(i) # End
  <2>1. i \in All(f, d) /\ i <= j /\ j \in Nat /\ i \in Nat
    <3>1. Len(ch) * Slots \in Nat
      BY Consts, ChainFacts
    <3>. QED
      BY <3>1 DEF All
  <2>2. SUFFICES ASSUME E(i) = End  PROVE FALSE
    BY <1>1, <2>1
  <2>. DEFINE qi == (i - 1) \div Slots
              qj == (j - 1) \div Slots
              ri == (i - 1) % Slots
              rj == (j - 1) % Slots
  <2>3. /\ qi + 1 \in 1..Len(ch) /\ qj + 1 \in 1..Len(ch) /\ ri + 1 \in 1..Slots /\ rj + 1 \in 1..Slots
    BY <2>1, PlaceIs
  <2>4. E(i) = s[ch[qi + 1]][ri + 1] /\ E(j) = s[ch[qj + 1]][rj + 1]
    BY DEF Ent, Place
  <2>5. ch[qi + 1] \in InChain(f, d)
    BY <2>3, ChainFacts
  <2>6. f[ch[qi + 1]] = EOC /\ \A k \in ri + 1..Slots : s[ch[qi + 1]][k] = End
    BY <2>2, <2>3, <2>4, <2>5 DEF TableOK
  <2>7. qi + 1 = Len(ch)
    <3>1. ch[qi + 1] = ch[Len(ch)]
      BY <2>5, <2>6, Links, Marks
    <3>2. Len(ch) \in 1..Len(ch)
      BY ChainFacts
    <3>. QED
      BY <2>3, <3>1, <3>2, ChainFacts
  <2>8. qi <= qj /\ (qi = qj => ri <= rj)
    <3>1. /\ i - 1 \in Nat /\ j - 1 \in Nat /\ i - 1 <= j - 1 /\ Slots \in Nat /\ Slots >= 1
      BY <2>1, Consts
    <3>2. ASSUME NEW a \in Nat, NEW b \in Nat, a <= b
          PROVE  a \div Slots <= b \div Slots /\ (a \div Slots = b \div Slots => a % Slots <= b % Slots)
      <4>1. /\ a = (a \div Slots) * Slots + (a % Slots) /\ b = (b \div Slots) * Slots + (b % Slots)
            /\ a \div Slots \in Nat /\ b \div Slots \in Nat /\ a % Slots \in 0..Slots - 1 /\ b % Slots \in 0..Slots - 1
        BY <3>1
      <4>2. ASSUME NEW q \in Nat, NEW r \in 0..Slots - 1, NEW p \in Nat, NEW t \in 0..Slots - 1,
                   q * Slots + r <= p * Slots + t
            PROVE  q <= p /\ (q = p => r <= t)
        BY <3>1, <4>2
      <4>. QED
        BY <3>2, <4>1, <4>2
    <3>. QED
      BY <3>1, <3>2
  <2>9. qj = qi
    <3>1. i - 1 \in Nat /\ j - 1 \in Nat /\ Slots \in Nat /\ Slots >= 1
      BY <2>1, Consts
    <3>2. qi \in Nat /\ qj \in Nat
      BY <3>1
    <3>3. Len(ch) \in Nat
      BY ChainFacts
    <3>. HIDE DEF qi, qj
    <3>. QED
      BY <2>3, <2>7, <2>8, <3>2, <3>3
  <2>10. rj + 1 \in ri + 1..Slots
    <3>1. ri \in Nat /\ rj \in Nat /\ ri <= rj /\ Slots \in Nat
      BY <2>1, <2>8, <2>9, Consts
    <3>. HIDE DEF ri, rj
    <3>. QED
      BY <2>3, <3>1
  <2>11. E(j) = End
    BY <2>4, <2>6, <2>9, <2>10
  <2>. QED
    BY <1>3, <2>11, EntriesAre
<1>4. {i \in met : Live(Slot_(i))} = {j \in All(f, d) : Live(E(j))}
  <2>1. \A j \in All(f, d) : Live(E(j)) => j \in met
    BY <1>3
  <2>. HIDE DEF Slot_, E
  <2>2. \A j \in All(f, d) : j \in met => (Live(Slot_(j)) <=> Live(E(j)))
    BY <1>1
  <2>3. \A j \in All(f, d) : Live(Slot_(j)) <=> Live(E(j))
    BY <1>1
  <2>. HIDE DEF met
  <2>4. met \subseteq All(f, d)
    BY DEF met
  <2>. QED
    BY <2>1, <2>3, <2>4
<1>. QED
  BY <1>1, <1>2, <1>4
LEMMA DirFacts ==
  ASSUME NEW f, NEW s, NEW dirs, NEW pend, Vol(f, s, dirs, pend)
  PROVE  /\ dirs \subseteq Heads(f, s, dirs) /\ dirs \subseteq Clusters /\ Root \in dirs
         /\ DOMAIN s = Clusters /\ f \in Fats /\ pend \subseteq Clusters
         /\ \A d \in dirs : Chained(f, d) /\ InChain(f, d) \subseteq Clusters
         /\ \A d \in dirs : \A a \in InChain(f, d) : TableOK(f, s, a) /\ s[a] \in [1..Slots -> Entry]
         /\ \A d \in dirs : \A p \in Places(f, d) : Ent(s, p) \in Entry /\ p[1] \in Clusters
         /\ \A d \in dirs : \A p \in Ents(f, s, d) :
              /\ Live(Ent(s, p)) /\ Ent(s, p).first \in Heads(f, s, dirs) /\ Ent(s, p).first \in Clusters
              /\ Chained(f, Ent(s, p).first) /\ Ent(s, p).name \in Names /\ Ent(s, p).size \in Nat
              /\ Ent(s, p).attr \in {"file", "dir"} /\ p \in Places(f, d)
         /\ \A d, e \in dirs : Places(f, d) \cap Places(f, e) # {} => d = e
         /\ \A d, e \in dirs : InChain(f, d) \cap InChain(f, e) # {} => d = e
<1>1. /\ dirs \subseteq Clusters /\ Root \in dirs /\ DOMAIN s = Clusters /\ Reachable(f, s, dirs)
      /\ \A d \in dirs : \A a \in InChain(f, d) : TableOK(f, s, a)
      /\ \A d \in dirs : \A p \in Ents(f, s, d) : (Ent(s, p).attr = "dir" => Ent(s, p).first \in dirs)
  BY DEF Vol, DirsOK
<1>2. /\ f \in Fats /\ pend \subseteq Clusters /\ \A x \in Heads(f, s, dirs) : Chained(f, x)
      /\ \A x, y \in Heads(f, s, dirs) : x # y => InChain(f, x) \cap InChain(f, y) = {}
  BY DEF Vol, ChainsOK
<1>3. \A d \in dirs : \A a \in InChain(f, d) : TableOK(f, s, a) /\ s[a] \in [1..Slots -> Entry]
  BY <1>1, EntriesAre DEF TableOK
<1>4. ASSUME NEW d \in dirs, NEW p \in Places(f, d)  PROVE Ent(s, p) \in Entry
  BY <1>3, EntIn DEF Ent
<1>5. ASSUME NEW d \in dirs, NEW p \in Ents(f, s, d)
      PROVE  /\ Live(Ent(s, p)) /\ Ent(s, p).first \in Clusters /\ Ent(s, p).first \in Heads(f, s, dirs)
             /\ Ent(s, p).name \in Names /\ Ent(s, p).size \in Nat
             /\ Ent(s, p).attr \in {"file", "dir"} /\ p \in Places(f, d)
  <2>1. p \in Places(f, d) /\ Live(Ent(s, p)) /\ Ent(s, p).name \notin Dots
    BY EntIn
  <2>2. Ent(s, p) \in Entry
    BY <1>4, <2>1
  <2>. DEFINE e == Ent(s, p)
  <2>3. e.first \in Clusters /\ e.name \in Names \cup Dots /\ e.size \in Nat /\ e.attr \in {"file", "dir"}
    <3>. HIDE DEF e
    <3>. QED
      BY <2>1, <2>2, EntriesAre DEF e
  <2>. QED
    BY <2>1, <2>3 DEF Heads
<1>6. dirs \subseteq Heads(f, s, dirs)
  <2>. DEFINE set == dirs \cap Heads(f, s, dirs)
  <2>1. set \in SUBSET dirs /\ Root \in set
    BY <1>1, Marks DEF Heads
  <2>2. \A d \in set : \A p \in Ents(f, s, d) : Ent(s, p).attr = "dir" => Ent(s, p).first \in set
    BY <1>1, <1>5
  <2>. HIDE DEF set
  <2>3. set = dirs
    BY <1>1, <2>1, <2>2 DEF Reachable
  <2>. QED
    BY <2>3 DEF set
<1>7. \A d, e \in dirs : InChain(f, d) \cap InChain(f, e) # {} => d = e
  BY <1>2, <1>6
<1>8. \A d, e \in dirs : Places(f, d) \cap Places(f, e) # {} => d = e
  BY <1>7, EntIn
<1>9. \A d \in dirs : Chained(f, d) /\ InChain(f, d) \subseteq Clusters
  BY <1>2, <1>6, ChainFacts
<1>10. \A d \in dirs : \A p \in Places(f, d) : Ent(s, p) \in Entry /\ p[1] \in Clusters
  BY <1>4, <1>9, EntIn
<1>11. \A d \in dirs : \A p \in Ents(f, s, d) : Chained(f, Ent(s, p).first)
  BY <1>2, <1>5
<1>. QED
  BY <1>1, <1>2, <1>3, <1>5, <1>6, <1>7, <1>8, <1>9, <1>10, <1>11

LEMMA SearchMeets ==
  ASSUME NEW f, NEW s, NEW dirs, NEW pend, Vol(f, s, dirs, pend), NEW d \in dirs
  PROVE  LET v == Visible(f, s, d)
         IN  /\ \A n : n \in NamesOf(v) <=> \E p \in Ents(f, s, d) : n = Ent(s, p).name
             /\ \A x : x \in Subdirs(v) <=> Child(f, s, d, x)
             /\ \A p \in Ents(f, s, d) : v[LowestIn(Named(v, Ent(s, p).name))] = Ent(s, p)
             /\ \A j \in DOMAIN v : v[j].name \notin Dots => Place(f, d, j) \in Ents(f, s, d)
             /\ \A j \in DOMAIN v : v[j] = Ent(s, Place(f, d, j)) /\ j \in All(f, d)
             /\ \A p \in Ents(f, s, d) : \E j \in DOMAIN v : Place(f, d, j) = p
<1>. DEFINE v == Visible(f, s, d)
<1>1. Chained(f, d) /\ \A a \in InChain(f, d) : TableOK(f, s, a)
  BY DirFacts
<1>2. /\ DOMAIN v = {j \in All(f, d) : Live(Ent(s, Place(f, d, j)))}
      /\ \A j \in DOMAIN v : v[j] = Ent(s, Place(f, d, j))
  BY <1>1, VisibleIs
<1>. HIDE DEF v
<1>3. \A j \in DOMAIN v : v[j].name \notin Dots => Place(f, d, j) \in Ents(f, s, d)
  BY <1>1, <1>2, PlaceIs, EntIn
<1>4. ASSUME NEW p \in Ents(f, s, d)  PROVE \E j \in DOMAIN v : Place(f, d, j) = p /\ v[j] = Ent(s, p)
  <2>1. p \in Places(f, d) /\ Live(Ent(s, p))
    BY EntIn
  <2>2. PICK j \in All(f, d) : Place(f, d, j) = p
    BY <1>1, <2>1, PlaceIs
  <2>. QED
    BY <1>2, <2>1, <2>2
<1>5. ASSUME NEW p \in Ents(f, s, d)  PROVE v[LowestIn(Named(v, Ent(s, p).name))] = Ent(s, p)
  <2>. DEFINE n == Ent(s, p).name
  <2>1. Named(v, n) \in SUBSET Nat
    <3>1. Len(Chain(f, d)) \in Nat
      BY <1>1, ChainFacts
    <3>2. Len(Chain(f, d)) * Slots \in Nat
      BY <3>1, Consts
    <3>3. All(f, d) \subseteq Nat
      BY <3>2 DEF All
    <3>. QED
      BY <1>2, <3>3 DEF Named
  <2>2. Named(v, n) # {}
    BY <1>4 DEF Named
  <2>3. LowestIn(Named(v, n)) \in Named(v, n)
    BY <2>1, <2>2, LowestIs
  <2>. DEFINE j == LowestIn(Named(v, n))
  <2>4. j \in DOMAIN v /\ v[j].name = n
    BY <2>3 DEF Named
  <2>5. n \notin Dots
    BY EntIn
  <2>. HIDE DEF n, j
  <2>6. Place(f, d, j) \in Ents(f, s, d) /\ v[j] = Ent(s, Place(f, d, j))
    BY <1>2, <1>3, <2>4, <2>5
  <2>7. Place(f, d, j) = p
    BY <2>4, <2>6 DEF Vol, DirsOK, n
  <2>. QED
    BY <2>6, <2>7 DEF j, n
<1>6. \A n : n \in NamesOf(v) <=> \E p \in Ents(f, s, d) : n = Ent(s, p).name
  <2>1. ASSUME NEW n \in NamesOf(v)  PROVE \E p \in Ents(f, s, d) : n = Ent(s, p).name
    BY <1>2, <1>3 DEF NamesOf
  <2>2. ASSUME NEW p \in Ents(f, s, d)  PROVE Ent(s, p).name \in NamesOf(v)
    <3>1. Ent(s, p).name \notin Dots
      BY EntIn
    <3>. QED
      BY <1>4, <3>1 DEF NamesOf
  <2>. QED
    BY <2>1, <2>2
<1>7. \A x : x \in Subdirs(v) <=> Child(f, s, d, x)
  <2>1. ASSUME NEW x \in Subdirs(v)  PROVE Child(f, s, d, x)
    <3>1. PICK j \in DOMAIN v : v[j].attr = "dir" /\ v[j].name \notin Dots /\ x = v[j].first
      BY DEF Subdirs
    <3>. QED
      BY <1>2, <1>3, <3>1 DEF Child
  <2>2. ASSUME NEW x, Child(f, s, d, x)  PROVE x \in Subdirs(v)
    <3>1. PICK p \in Ents(f, s, d) : Ent(s, p).attr = "dir" /\ Ent(s, p).first = x
      BY <2>2 DEF Child
    <3>2. Ent(s, p).name \notin Dots
      BY EntIn
    <3>. QED
      BY <1>4, <3>1, <3>2 DEF Subdirs
  <2>. QED
    BY <2>1, <2>2
<1>. QED
  BY <1>2, <1>3, <1>4, <1>5, <1>6, <1>7 DEF v

\* The directories that are found in n steps from the root.
Step(f, s, set) == set \cup UNION {Subdirs(Visible(f, s, d)) : d \in set}
IsWithin(f, s, w, n) == w = [k \in 0..n |-> IF k = 0 THEN {Root} ELSE Step(f, s, w[k - 1])]

LEMMA WithinIs ==
  ASSUME NEW f, NEW s
  PROVE  \E w : IsWithin(f, s, w, Last) /\ DirsOf(f, s) = w[Last]
<1>. DEFINE Has == {n \in Nat : \E w : IsWithin(f, s, w, n)}
<1>1. 0 \in Has
  <2>. DEFINE w == [k \in 0..0 |-> {Root}]
  <2>1. \A k \in 0..0 : k = 0
    OBVIOUS
  <2>2. IsWithin(f, s, w, 0)
    BY <2>1 DEF IsWithin
  <2>. QED
    BY <2>2
<1>2. ASSUME NEW n \in Has  PROVE n + 1 \in Has
  <2>1. PICK w : IsWithin(f, s, w, n)
    OBVIOUS
  <2>. DEFINE g == [k \in 0..n + 1 |-> IF k <= n THEN w[k] ELSE Step(f, s, w[n])]
  <2>2. ASSUME NEW k \in 0..n + 1  PROVE g[k] = IF k = 0 THEN {Root} ELSE Step(f, s, g[k - 1])
    <3>1. CASE k = 0
      <4>1. 0 \in 0..n /\ 0 <= n
        OBVIOUS
      <4>2. w[0] = {Root}
        BY <2>1, <4>1 DEF IsWithin
      <4>. QED
        BY <3>1, <4>1, <4>2
    <3>2. CASE k # 0 /\ k <= n
      <4>1. k \in 0..n /\ k - 1 \in 0..n + 1 /\ k - 1 <= n
        BY <3>2
      <4>2. w[k] = Step(f, s, w[k - 1])
        BY <2>1, <3>2, <4>1 DEF IsWithin
      <4>. QED
        BY <3>2, <4>1, <4>2
    <3>3. CASE k = n + 1
      <4>1. k - 1 = n /\ n \in 0..n + 1 /\ n <= n /\ ~(k <= n) /\ k # 0
        BY <3>3
      <4>. QED
        BY <4>1
    <3>. QED
      BY <3>1, <3>2, <3>3
  <2>3. IsWithin(f, s, g, n + 1)
    <3>1. g = [k \in 0..n + 1 |-> g[k]]
      OBVIOUS
    <3>. HIDE DEF g
    <3>. QED
      BY <2>2, <3>1 DEF IsWithin
  <2>. HIDE DEF g
  <2>. QED
    BY <2>3
<1>3. Has = Nat
  <2>1. Has \in SUBSET Nat
    OBVIOUS
  <2>. HIDE DEF Has
  <2>. QED
    BY <1>1, <1>2, <2>1, SetInduction
<1>4. \E w : IsWithin(f, s, w, Last)
  BY <1>3, Consts
<1>. DEFINE within == CHOOSE w : IsWithin(f, s, w, Last)
<1>5. IsWithin(f, s, within, Last)
  BY <1>4
<1>6. DirsOf(f, s) = within[Last]
  BY DEF DirsOf, IsWithin, Step
<1>. HIDE DEF within
<1>. QED
  BY <1>5, <1>6
\* The directories that a search from the root finds are those of the volume:
\* while it has not found them all, every step finds one more.
LEMMA DirsAre ==
  ASSUME NEW f, NEW s, NEW dirs, NEW pend, Vol(f, s, dirs, pend)
  PROVE  DirsOf(f, s) = dirs
<1>1. PICK w : IsWithin(f, s, w, Last) /\ DirsOf(f, s) = w[Last]
  BY WithinIs
<1>2. dirs \subseteq Clusters /\ Root \in dirs /\ IsFiniteSet(dirs) /\ Cardinality(dirs) <= Last - 1
      /\ Cardinality(dirs) \in Nat
  <2>1. dirs \subseteq Clusters /\ Root \in dirs
    BY DirFacts
  <2>2. IsFiniteSet(dirs) /\ Cardinality(dirs) <= Cardinality(Clusters)
    BY <2>1, Marks, FS_Subset
  <2>. QED
    BY <2>1, <2>2, Marks, FS_CardinalityType
<1>3. \A d \in dirs : \A x : x \in Subdirs(Visible(f, s, d)) <=> Child(f, s, d, x)
  BY SearchMeets
<1>4. \A d \in dirs : \A x : Child(f, s, d, x) => x \in dirs
  BY DEF Vol, DirsOK, Child
<1>. DEFINE Good(k) == /\ w[k] \subseteq dirs /\ Root \in w[k]
                       /\ w[k] = dirs \/ Cardinality(w[k]) >= k + 1
            P == {k \in Nat : k \in 0..Last => Good(k)}
<1>5. 0 \in P
  <2>1. 0 \in 0..Last
    BY Consts
  <2>2. w[0] = {Root}
    BY <1>1, <2>1 DEF IsWithin
  <2>3. Cardinality({Root}) = 1
    BY FS_Singleton
  <2>. QED
    BY <1>2, <2>2, <2>3
<1>6. ASSUME NEW k \in P, k + 1 \in 0..Last  PROVE Good(k + 1)
  <2>1. k \in 0..Last /\ Good(k) /\ (k + 1) - 1 = k /\ k + 1 # 0 /\ k \in Nat
    BY <1>6, Consts
  <2>2. w[k + 1] = Step(f, s, w[k])
    BY <1>1, <1>6, <2>1 DEF IsWithin
  <2>3. \A x : x \in w[k + 1] <=> (x \in w[k] \/ \E d \in w[k] : Child(f, s, d, x))
    BY <1>3, <2>1, <2>2 DEF Step
  <2>4. w[k + 1] \subseteq dirs /\ w[k] \subseteq w[k + 1] /\ Root \in w[k + 1]
    BY <1>4, <2>1, <2>3
  <2>5. CASE w[k] = dirs
    BY <2>4, <2>5
  <2>6. CASE w[k] # dirs
    <3>1. ~(\A d \in w[k] : \A p \in Ents(f, s, d) : Ent(s, p).attr = "dir" => Ent(s, p).first \in w[k])
      <4>1. Reachable(f, s, dirs)
        BY DEF Vol, DirsOK
      <4>. QED
        BY <2>1, <2>6, <4>1 DEF Reachable
    <3>2. PICK x : x \in w[k + 1] /\ x \notin w[k]
      BY <2>3, <3>1 DEF Child
    <3>3. IsFiniteSet(w[k]) /\ IsFiniteSet(w[k + 1])
      BY <1>2, <2>1, <2>4, FS_Subset
    <3>4. w[k] \cup {x} \subseteq w[k + 1] /\ IsFiniteSet(w[k] \cup {x})
          /\ Cardinality(w[k] \cup {x}) = Cardinality(w[k]) + 1
      BY <2>4, <3>2, <3>3, FS_AddElement
    <3>5. Cardinality(w[k] \cup {x}) <= Cardinality(w[k + 1])
      BY <3>3, <3>4, FS_Subset
    <3>6. Cardinality(w[k]) \in Nat /\ Cardinality(w[k + 1]) \in Nat
      BY <3>3, FS_CardinalityType
    <3>7. Cardinality(w[k + 1]) >= k + 1 + 1
      BY <2>1, <2>6, <3>4, <3>5, <3>6
    <3>. QED
      BY <2>4, <3>7
  <2>. QED
    BY <2>5, <2>6
<1>7. P = Nat
  <2>1. P \in SUBSET Nat /\ \A k \in P : k + 1 \in P
    <3>1. \A k \in P : k + 1 \in Nat
      OBVIOUS
    <3>. QED
      BY <1>6, <3>1
  <2>. HIDE DEF P
  <2>. QED
    BY <1>5, <2>1, SetInduction
<1>8. Good(Last)
  <2>1. Last \in Nat /\ Last \in 0..Last
    BY Consts
  <2>. QED
    BY <1>7, <2>1
<1>9. w[Last] = dirs
  <2>1. Cardinality(w[Last]) <= Cardinality(dirs) /\ Cardinality(w[Last]) \in Nat
    BY <1>2, <1>8, FS_Subset, FS_CardinalityType
  <2>2. ~(Cardinality(w[Last]) >= Last + 1)
    BY <1>2, <2>1, Consts
  <2>. QED
    BY <1>8, <2>2
<1>. QED
  BY <1>1, <1>9

\* The tree that a caller sees, in terms of the entries.
LEMMA TreeIs ==
  ASSUME NEW f, NEW s, NEW dirs, NEW pend, Vol(f, s, dirs, pend)
  PROVE  LET t == TreeOf(f, s)
         IN  /\ DOMAIN t = dirs
             /\ \A d \in dirs : \A n : n \in DOMAIN t[d] <=> \E p \in Ents(f, s, d) : n = Ent(s, p).name
             /\ \A d \in dirs : \A p \in Ents(f, s, d) :
                  LET node == t[d][Ent(s, p).name]
                  IN  /\ Ent(s, p).attr = "dir" => node = [kind |-> "dir", id |-> Ent(s, p).first]
                      /\ Ent(s, p).attr = "file" =>
                           /\ node.kind = "file"
                           /\ Needed(node.data) = Len(Chain(f, Ent(s, p).first))
<1>. DEFINE t == TreeOf(f, s)
            V(d) == Visible(f, s, d)
<1>1. t = [d \in dirs |-> [n \in NamesOf(V(d)) |->
             LET e == V(d)[LowestIn(Named(V(d), n))]
             IN  IF e.attr = "dir" THEN [kind |-> "dir", id |-> e.first]
                 ELSE [kind |-> "file", data |-> Data(f, s, e)]]]
  BY DirsAre DEF TreeOf
<1>. HIDE DEF t
<1>2. \A d \in dirs : \A n : n \in DOMAIN t[d] <=> \E p \in Ents(f, s, d) : n = Ent(s, p).name
  BY <1>1, SearchMeets
<1>3. ASSUME NEW d \in dirs, NEW p \in Ents(f, s, d)
      PROVE  LET node == t[d][Ent(s, p).name]
             IN  /\ Ent(s, p).attr = "dir" => node = [kind |-> "dir", id |-> Ent(s, p).first]
                 /\ Ent(s, p).attr = "file" =>
                      /\ node.kind = "file"
                      /\ Needed(node.data) = Len(Chain(f, Ent(s, p).first))
  <2>. DEFINE e == Ent(s, p)
              n == e.name
  <2>1. n \in NamesOf(V(d)) /\ V(d)[LowestIn(Named(V(d), n))] = e
    BY SearchMeets
  <2>2. t[d][n] = IF e.attr = "dir" THEN [kind |-> "dir", id |-> e.first]
                  ELSE [kind |-> "file", data |-> Data(f, s, e)]
    BY <1>1, <2>1
  <2>3. ASSUME e.attr = "file"  PROVE Needed(Data(f, s, e)) = Len(Chain(f, e.first))
    <3>. DEFINE m == Len(Chain(f, e.first))
                len == IF e.size < m THEN e.size ELSE m
    <3>1. e.size \in Nat /\ m \in Nat /\ m >= 1
      BY DirFacts, ChainFacts
    <3>2. m = IF e.size = 0 THEN 1 ELSE e.size
      BY <2>3 DEF Vol, SizesOK
    <3>3. Data(f, s, e) = [k \in 1..len |-> s[Chain(f, e.first)[k]]]
      BY DEF Data
    <3>. HIDE DEF m
    <3>4. len \in Nat /\ len = e.size
      BY <3>1, <3>2
    <3>. HIDE DEF len
    <3>5. Len(Data(f, s, e)) = len
      BY <3>3, <3>4
    <3>. QED
      BY <3>1, <3>2, <3>4, <3>5 DEF Needed, m
  <2>. HIDE DEF e
  <2>4. e.attr = "dir" => t[d][n] = [kind |-> "dir", id |-> e.first]
    BY <2>2
  <2>5. e.attr = "file" => t[d][n] = [kind |-> "file", data |-> Data(f, s, e)]
    BY <2>2
  <2>6. e.attr = "file" => t[d][n].kind = "file" /\ Needed(t[d][n].data) = Len(Chain(f, e.first))
    BY <2>3, <2>5
  <2>. QED
    BY <2>4, <2>6 DEF e
<1>. QED
  BY <1>1, <1>2, <1>3 DEF t
\* Who has a chain: the root and the entries, each its own.
LEMMA OwnersAre ==
  ASSUME NEW dirs, Vol(fat, sector, dirs, {})
  PROVE  /\ DirsOf(fat, sector) = dirs
         /\ \A o \in Owners : o[3] \in Heads(fat, sector, dirs)
         /\ \A o, p \in Owners : o[3] = p[3] => o = p
         /\ \A x \in Heads(fat, sector, dirs) : \E o \in Owners : o[3] = x
<1>. DEFINE V(d) == Visible(fat, sector, d)
            first(d, j) == Ent(sector, Place(fat, d, j)).first
            Mine(d) == {j \in DOMAIN V(d) : V(d)[j].name \notin Dots}
<1>1. DirsOf(fat, sector) = dirs
  BY DirsAre
<1>2. ASSUME NEW d \in dirs, NEW j \in Mine(d)
      PROVE  V(d)[j].first = first(d, j) /\ Place(fat, d, j) \in Ents(fat, sector, d) /\ j \in All(fat, d)
  BY SearchMeets
<1>3. \A d : EntriesOf(d) = {<<d, j, V(d)[j].first>> : j \in Mine(d)}
  BY DEF EntriesOf
<1>. HIDE DEF V
<1>4. \A o : o \in Owners <=> \/ o = <<Root, 0, Root>>
                              \/ \E d \in dirs : \E j \in Mine(d) : o = <<d, j, first(d, j)>>
  <2>1. \A d \in dirs : EntriesOf(d) = {<<d, j, first(d, j)>> : j \in Mine(d)}
    BY <1>2, <1>3
  <2>2. \A o : o \in Owners <=> o = <<Root, 0, Root>> \/ \E d \in dirs : o \in EntriesOf(d)
    BY <1>1 DEF Owners
  <2>. HIDE DEF Mine, first
  <2>. QED
    BY <2>1, <2>2
<1>5. \A d \in dirs : \A j \in Mine(d) : first(d, j) \in Heads(fat, sector, dirs) /\ first(d, j) # Root
  <2>1. ASSUME NEW d \in dirs, NEW j \in Mine(d)
        PROVE  first(d, j) \in Heads(fat, sector, dirs) /\ first(d, j) # Root
    <3>1. Place(fat, d, j) \in Ents(fat, sector, d)
      BY <1>2
    <3>. QED
      BY <3>1, DirFacts DEF Vol, DirsOK
  <2>. QED
    BY <2>1
<1>6. ASSUME NEW d \in dirs, NEW e \in dirs, NEW i \in Mine(d), NEW j \in Mine(e), first(d, i) = first(e, j)
      PROVE  d = e /\ i = j
  <2>1. Place(fat, d, i) \in Ents(fat, sector, d) /\ Place(fat, e, j) \in Ents(fat, sector, e)
    BY <1>2
  <2>2. d = e /\ Place(fat, d, i) = Place(fat, e, j)
    BY <1>6, <2>1 DEF Vol, DirsOK
  <2>3. i \in All(fat, d) /\ j \in All(fat, d) /\ Chained(fat, d)
    BY <1>2, <2>2, DirFacts
  <2>. QED
    BY <2>2, <2>3, PlaceIs
<1>7. \A x \in Heads(fat, sector, dirs) : x # Root => \E d \in dirs : \E j \in Mine(d) : first(d, j) = x
  <2>1. ASSUME NEW x \in Heads(fat, sector, dirs), x # Root
        PROVE  \E d \in dirs : \E j \in Mine(d) : first(d, j) = x
    <3>1. PICK d \in dirs : \E p \in Ents(fat, sector, d) : x = Ent(sector, p).first
      BY <2>1 DEF Heads
    <3>2. PICK p \in Ents(fat, sector, d) : x = Ent(sector, p).first
      BY <3>1
    <3>3. PICK j \in DOMAIN V(d) : Place(fat, d, j) = p
      BY SearchMeets DEF V
    <3>4. V(d)[j] = Ent(sector, p) /\ Ent(sector, p).name \notin Dots
      BY <3>3, SearchMeets, EntIn DEF V
    <3>. QED
      BY <3>2, <3>3, <3>4
  <2>. QED
    BY <2>1
<1>. HIDE DEF first, Mine
<1>8. Root \in Heads(fat, sector, dirs)
  BY DirFacts
<1>9. \A o \in Owners : o[3] \in Heads(fat, sector, dirs)
  BY <1>4, <1>5, <1>8
<1>10. \A o, p \in Owners : o[3] = p[3] => o = p
  BY <1>4, <1>5, <1>6
<1>11. \A x \in Heads(fat, sector, dirs) : \E o \in Owners : o[3] = x
  <2>1. ASSUME NEW x \in Heads(fat, sector, dirs)  PROVE \E o \in Owners : o[3] = x
    <3>1. CASE x = Root
      <4>1. <<Root, 0, Root>> \in Owners /\ <<Root, 0, Root>>[3] = Root
        BY <1>4
      <4>. QED
        BY <3>1, <4>1
    <3>2. CASE x # Root
      <4>1. PICK d \in dirs : \E j \in Mine(d) : first(d, j) = x
        BY <1>7, <3>2
      <4>2. PICK j \in Mine(d) : first(d, j) = x
        BY <4>1
      <4>3. <<d, j, first(d, j)>> \in Owners /\ <<d, j, first(d, j)>>[3] = x
        BY <1>4, <4>2
      <4>. QED
        BY <4>3
    <3>. QED
      BY <3>1, <3>2
  <2>. QED
    BY <2>1
<1>. QED
  BY <1>1, <1>9, <1>10, <1>11

-----------------------------------------------------------------------------
(***************************************************************************)
(* The invariant says what the properties say.                             *)
(***************************************************************************)
LEMMA SoundIs ==
  ASSUME FatInv  PROVE ChainsSound /\ NothingLost
<1>1. TypeOK
  BY DEF FatInv, TypeOK, Fats
<1>2. ASSUME Quiet
      PROVE  /\ \A o, p \in Owners :
                  o # p => InChain(fat, o[3]) \cap InChain(fat, p[3]) = {}
             /\ \A o \in Owners : LET ch == Chain(fat, o[3])
                                   IN  ch # <<>> /\ Len(ch) <= Last /\ fat[ch[Len(ch)]] = EOC
             /\ \A d \in DirsOf(fat, sector) : \A k \in InChain(fat, d) : IsTable(sector[k])
             /\ Clusters \ FreeClusters(fat) = UNION {InChain(fat, o[3]) : o \in Owners}
             /\ disk_fat[1] = fat /\ disk_fat[2] = fat
  <2>. DEFINE dirs == DOMAIN tree
              heads == Heads(fat, sector, dirs)
  <2>1. Mirrored /\ Vol(fat, sector, dirs, {})
    BY <1>2 DEF FatInv, Untouched, Sound
  <2>2. /\ DirsOf(fat, sector) = dirs
        /\ \A o \in Owners : o[3] \in heads
        /\ \A o, p \in Owners : o[3] = p[3] => o = p
        /\ \A x \in heads : \E o \in Owners : o[3] = x
    BY <2>1, OwnersAre
  <2>3. /\ \A x \in heads : Chained(fat, x)
        /\ \A x, y \in heads : x # y => InChain(fat, x) \cap InChain(fat, y) = {}
        /\ \A a \in Clusters : fat[a] # Free <=> (a \in {} \/ \E x \in heads : a \in InChain(fat, x))
    BY <2>1 DEF Vol, ChainsOK
  <2>. HIDE DEF heads
  <2>4. \A o, p \in Owners : o # p => InChain(fat, o[3]) \cap InChain(fat, p[3]) = {}
    BY <2>2, <2>3
  <2>5. ASSUME NEW o \in Owners
        PROVE  LET ch == Chain(fat, o[3])
               IN  ch # <<>> /\ Len(ch) <= Last /\ fat[ch[Len(ch)]] = EOC
    <3>1. Chained(fat, o[3])
      BY <2>2, <2>3
    <3>. DEFINE ch == Chain(fat, o[3])
    <3>2. ch \in Seq(Clusters) /\ Len(ch) \in Nat /\ Len(ch) >= 1 /\ Len(ch) <= Last - 1 /\ fat[ch[Len(ch)]] = EOC
      BY <3>1, ChainFacts
    <3>. HIDE DEF ch
    <3>3. ch # <<>> /\ Len(ch) <= Last /\ fat[ch[Len(ch)]] = EOC
      BY <3>2, Consts
    <3>. QED
      BY <3>3 DEF ch
  <2>6. \A d \in DirsOf(fat, sector) : \A k \in InChain(fat, d) : IsTable(sector[k])
    <3>1. \A d \in dirs : \A k \in InChain(fat, d) : TableOK(fat, sector, k)
      BY <2>1, DirFacts
    <3>. QED
      BY <2>2, <3>1, Consts DEF TableOK, IsTable
  <2>7. Clusters \ FreeClusters(fat) = UNION {InChain(fat, o[3]) : o \in Owners}
    <3>1. \A o \in Owners : InChain(fat, o[3]) \subseteq Clusters
      BY <2>2, <2>3, ChainFacts
    <3>2. \A a : a \in Clusters \ FreeClusters(fat) <=> \E o \in Owners : a \in InChain(fat, o[3])
      <4>1. ASSUME NEW a \in Clusters \ FreeClusters(fat)  PROVE \E o \in Owners : a \in InChain(fat, o[3])
        <5>1. PICK x \in heads : a \in InChain(fat, x)
          BY <2>3 DEF FreeClusters
        <5>2. PICK o \in Owners : o[3] = x
          BY <2>2
        <5>. QED
          BY <5>1, <5>2
      <4>2. ASSUME NEW o \in Owners, NEW a \in InChain(fat, o[3])  PROVE a \in Clusters \ FreeClusters(fat)
        BY <2>2, <2>3, <3>1 DEF FreeClusters
      <4>. QED
        BY <4>1, <4>2
    <3>. QED
      BY <3>2
  <2>8. disk_fat[1] = fat /\ disk_fat[2] = fat
    BY <2>1 DEF Mirrored
  <2>. QED
    BY <2>4, <2>5, <2>6, <2>7, <2>8
<1>. QED
  BY <1>1, <1>2 DEF ChainsSound, NothingLost
-----------------------------------------------------------------------------
(***************************************************************************)
(* What keeps a volume, and what changes it.                               *)
(***************************************************************************)
LEMMA PathMoved ==
  ASSUME NEW f, NEW s, NEW dirs, NEW w, PathOK(f, s, dirs, w),
         NEW g, NEW s1, NEW dirs1, dirs \subseteq dirs1,
         \A d, x \in dirs : Child(f, s, d, x) => Child(g, s1, d, x)
  PROVE  PathOK(g, s1, dirs1, w)
<1>1. PICK at \in Seq(dirs) :
        /\ TreePath(f, s, dirs, at) /\ at[Len(at)] = w.cluster /\ Len(w.stack) < Len(at)
        /\ \A k \in 1..Len(w.stack) : w.stack[k] = at[k]
        /\ Len(w.stack) < StackDepth => Len(at) = Len(w.stack) + 1
  BY DEF PathOK
<1>2. w.cluster \in dirs /\ w.stack \in Seq(dirs)
  BY DEF PathOK
<1>3. Seq(dirs) \subseteq Seq(dirs1)
  OBVIOUS
<1>4. \A k \in 1..Len(at) - 1 : at[k] \in dirs /\ at[k + 1] \in dirs
  OBVIOUS
<1>5. TreePath(g, s1, dirs1, at)
  BY <1>1, <1>3, <1>4 DEF TreePath
<1>. QED
  BY <1>1, <1>2, <1>3, <1>5 DEF PathOK

\* Each directory but the root has its entry.
LEMMA DirEntry ==
  ASSUME NEW f, NEW s, NEW dirs, NEW pend, Vol(f, s, dirs, pend), NEW x \in dirs, x # Root
  PROVE  \E d \in dirs : Child(f, s, d, x)
<1>. DEFINE set == {y \in dirs : y = Root \/ \E d \in dirs : Child(f, s, d, y)}
<1>1. /\ Root \in dirs /\ Reachable(f, s, dirs)
      /\ \A d \in dirs : \A p \in Ents(f, s, d) : (Ent(s, p).attr = "dir" => Ent(s, p).first \in dirs)
  BY DEF Vol, DirsOK
<1>2. set \in SUBSET dirs /\ Root \in set
  BY <1>1
<1>3. \A d \in set : \A p \in Ents(f, s, d) : Ent(s, p).attr = "dir" => Ent(s, p).first \in set
  BY <1>1 DEF Child
<1>. HIDE DEF set
<1>4. set = dirs
  BY <1>1, <1>2, <1>3 DEF Reachable
<1>. QED
  BY <1>4 DEF set

LEMMA FileHead ==
  ASSUME NEW f, NEW s, NEW dirs, NEW pend, Vol(f, s, dirs, pend), NEW d \in dirs, NEW p \in Ents(f, s, d),
         Ent(s, p).attr = "file"
  PROVE  Ent(s, p).first \notin dirs
<1>1. SUFFICES ASSUME Ent(s, p).first \in dirs  PROVE FALSE
  OBVIOUS
<1>2. Ent(s, p).first # Root
  BY DEF Vol, DirsOK
<1>3. PICK e \in dirs : Child(f, s, e, Ent(s, p).first)
  BY <1>1, <1>2, DirEntry
<1>4. PICK q \in Ents(f, s, e) : Ent(s, q).attr = "dir" /\ Ent(s, q).first = Ent(s, p).first
  BY <1>3 DEF Child
<1>5. p = q
  BY <1>4 DEF Vol, DirsOK
<1>. QED
  BY <1>4, <1>5

\* A change outside the chains of the entries, and outside the directories'
\* sectors, is none of the volume.
LEMMA Framed ==
  ASSUME NEW f, NEW s, NEW dirs, NEW pend, Vol(f, s, dirs, pend),
         NEW g, NEW s1, NEW pend1, DOMAIN s1 = Clusters,
         \A d \in dirs : \A a \in InChain(f, d) : s1[a] = s[a],
         \A x \in Heads(f, s, dirs) : /\ Chain(g, x) = Chain(f, x) /\ InChain(g, x) = InChain(f, x)
                                      /\ \A a \in InChain(f, x) : g[a] = f[a],
         ChainsOK(g, Heads(f, s, dirs), pend1)
  PROVE  /\ Vol(g, s1, dirs, pend1) /\ Heads(g, s1, dirs) = Heads(f, s, dirs)
         /\ \A d \in dirs : Ents(g, s1, d) = Ents(f, s, d) /\ Places(g, d) = Places(f, d)
         /\ \A d \in dirs : \A p \in Places(f, d) : Ent(s1, p) = Ent(s, p)
         /\ \A w : PathOK(f, s, dirs, w) => PathOK(g, s1, dirs, w)
<1>1. \A d \in dirs : d \in Heads(f, s, dirs) /\ Places(g, d) = Places(f, d)
  BY DirFacts DEF Places
<1>2. \A d \in dirs : \A p \in Places(f, d) : Ent(s1, p) = Ent(s, p)
  BY EntIn DEF Ent
<1>3. \A d \in dirs : Ents(g, s1, d) = Ents(f, s, d)
  BY <1>1, <1>2 DEF Ents
<1>4. \A d \in dirs : \A p \in Ents(f, s, d) : Ent(s1, p) = Ent(s, p)
  BY <1>2, EntIn
<1>5. Heads(g, s1, dirs) = Heads(f, s, dirs)
  BY <1>3, <1>4 DEF Heads
<1>6. \A d \in dirs : \A a \in InChain(g, d) : TableOK(g, s1, a)
  BY <1>1, DirFacts DEF TableOK
<1>7. Reachable(g, s1, dirs)
  <2>1. Reachable(f, s, dirs)
    BY DEF Vol, DirsOK
  <2>2. ASSUME NEW set \in SUBSET dirs, Root \in set,
               \A d \in set : \A p \in Ents(g, s1, d) : Ent(s1, p).attr = "dir" => Ent(s1, p).first \in set
        PROVE  set = dirs
    <3>1. \A d \in set : \A p \in Ents(f, s, d) : Ent(s, p).attr = "dir" => Ent(s, p).first \in set
      BY <1>3, <1>4, <2>2
    <3>. QED
      BY <2>1, <2>2, <3>1 DEF Reachable
  <2>. QED
    BY <2>2 DEF Reachable
<1>8. DirsOK(g, s1, dirs)
  <2>1. /\ dirs \subseteq Clusters /\ Root \in dirs
        /\ \A d \in dirs : \A p \in Ents(f, s, d) :
             Ent(s, p).first # Root /\ (Ent(s, p).attr = "dir" => Ent(s, p).first \in dirs)
        /\ \A d, e \in dirs : \A p \in Ents(f, s, d), q \in Ents(f, s, e) :
             Ent(s, p).first = Ent(s, q).first => p = q /\ d = e
        /\ \A d \in dirs : \A p, q \in Ents(f, s, d) : Ent(s, p).name = Ent(s, q).name => p = q
    BY DEF Vol, DirsOK
  <2>2. \A d, e \in dirs : \A p \in Ents(g, s1, d), q \in Ents(g, s1, e) :
             Ent(s1, p).first = Ent(s1, q).first => p = q /\ d = e
    BY <1>3, <1>4, <2>1
  <2>3. \A d \in dirs : \A p, q \in Ents(g, s1, d) : Ent(s1, p).name = Ent(s1, q).name => p = q
    BY <1>3, <1>4, <2>1
  <2>4. \A d \in dirs : \A p \in Ents(g, s1, d) :
             Ent(s1, p).first # Root /\ (Ent(s1, p).attr = "dir" => Ent(s1, p).first \in dirs)
    BY <1>3, <1>4, <2>1
  <2>. QED
    BY <1>6, <1>7, <2>1, <2>2, <2>3, <2>4 DEF DirsOK
<1>9. SizesOK(g, s1, dirs)
  <2>1. \A d \in dirs : \A p \in Ents(f, s, d) : Chain(g, Ent(s, p).first) = Chain(f, Ent(s, p).first)
    BY DirFacts
  <2>. QED
    BY <1>3, <1>4, <2>1 DEF Vol, SizesOK
<1>10. ASSUME NEW w, PathOK(f, s, dirs, w)  PROVE PathOK(g, s1, dirs, w)
  <2>1. \A d, x \in dirs : Child(f, s, d, x) => Child(g, s1, d, x)
    BY <1>3, <1>4 DEF Child
  <2>. QED
    BY <1>10, <2>1, PathMoved
<1>. QED
  BY <1>1, <1>2, <1>3, <1>5, <1>8, <1>9, <1>10 DEF Vol

LEMMA PutIs ==
  ASSUME NEW s, DOMAIN s = Clusters, NEW p \in Clusters \X (1..Slots), s[p[1]] \in [1..Slots -> Entry],
         NEW e \in Entry
  PROVE  LET s1 == Put(s, p, e)
         IN  /\ DOMAIN s1 = Clusters /\ s1[p[1]] \in [1..Slots -> Entry]
             /\ \A a \in Clusters : a # p[1] => s1[a] = s[a]
             /\ s1[p[1]][p[2]] = e /\ Ent(s1, p) = e
             /\ \A i \in 1..Slots : i # p[2] => s1[p[1]][i] = s[p[1]][i]
             /\ \A q \in Clusters \X (1..Slots) : q # p => Ent(s1, q) = Ent(s, q)
<1>. DEFINE s1 == Put(s, p, e)
            t == [s[p[1]] EXCEPT ![p[2]] = e]
<1>1. p[1] \in Clusters /\ p[2] \in 1..Slots /\ p = <<p[1], p[2]>>
  OBVIOUS
<1>2. s1 = [s EXCEPT ![p[1]] = t]
  BY DEF Put
<1>3. t \in [1..Slots -> Entry] /\ t[p[2]] = e /\ \A i \in 1..Slots : i # p[2] => t[i] = s[p[1]][i]
  BY <1>1
<1>. HIDE DEF t, s1
<1>4. DOMAIN s1 = Clusters /\ s1[p[1]] = t /\ \A a \in Clusters : a # p[1] => s1[a] = s[a]
  BY <1>1, <1>2
<1>5. ASSUME NEW q \in Clusters \X (1..Slots), q # p  PROVE s1[q[1]][q[2]] = s[q[1]][q[2]]
  <2>1. q[1] \in Clusters /\ q[2] \in 1..Slots /\ q = <<q[1], q[2]>>
    OBVIOUS
  <2>2. q[1] # p[1] \/ q[2] # p[2]
    BY <1>1, <1>5, <2>1
  <2>. QED
    BY <1>3, <1>4, <2>1, <2>2
<1>. QED
  BY <1>3, <1>4, <1>5 DEF s1, Ent

\* An entry that is not End, in a slot before the end or at it.
LEMMA PutTable ==
  ASSUME NEW f, NEW g, NEW s, DOMAIN s = Clusters, NEW p \in Clusters \X (1..Slots), TableOK(f, s, p[1]),
         NEW e \in Entry, e # End, \A j \in 1..p[2] - 1 : s[p[1]][j] # End, g[p[1]] = f[p[1]]
  PROVE  TableOK(g, Put(s, p, e), p[1])
<1>. DEFINE s1 == Put(s, p, e)
            a == p[1]
            k == p[2]
<1>1. s[a] \in [1..Slots -> Entry] /\ \A i \in 1..Slots : s[a][i] = End => f[a] = EOC /\ \A j \in i..Slots : s[a][j] = End
  BY EntriesAre DEF TableOK
<1>2. s1[a] \in [1..Slots -> Entry] /\ s1[a][k] = e /\ \A i \in 1..Slots : i # k => s1[a][i] = s[a][i]
  BY <1>1, PutIs
<1>3. k \in 1..Slots /\ Slots \in Nat
  BY Consts
<1>4. g[a] = f[a] /\ e # End /\ \A j \in 1..k - 1 : s[a][j] # End
  OBVIOUS
<1>. HIDE DEF s1, a, k
<1>5. ASSUME NEW i \in 1..Slots, s1[a][i] = End  PROVE g[a] = EOC /\ \A j \in i..Slots : s1[a][j] = End
  <2>1. i # k /\ s[a][i] = End
    BY <1>2, <1>4, <1>5
  <2>2. f[a] = EOC /\ \A j \in i..Slots : s[a][j] = End
    BY <1>1, <2>1
  <2>3. i > k
    <3>1. i \notin 1..k - 1
      BY <1>4, <2>1
    <3>. QED
      BY <1>3, <2>1, <3>1
  <2>4. \A j \in i..Slots : j \in 1..Slots /\ j # k
    BY <1>3, <2>3
  <2>. QED
    BY <1>2, <1>4, <2>2, <2>4
<1>6. s1[a] \in Tables
  BY <1>2, EntriesAre
<1>. QED
  BY <1>5, <1>6 DEF TableOK, s1, a

\* No End comes before a live entry.
LEMMA BeforeLive ==
  ASSUME NEW f, NEW s, NEW a, TableOK(f, s, a), NEW k \in 1..Slots, s[a][k] # End
  PROVE  \A j \in 1..k - 1 : s[a][j] # End
<1>1. ASSUME NEW j \in 1..k - 1, s[a][j] = End  PROVE FALSE
  <2>1. j \in 1..Slots /\ k \in j..Slots
    BY Consts
  <2>. QED
    BY <1>1, <2>1 DEF TableOK
<1>. QED
  BY <1>1
\* An entry is deleted, and its chain is free: that of a file, or of a
\* directory with no entries.
LEMMA EntryRemoved ==
  ASSUME NEW f, NEW s, NEW dirs, Vol(f, s, dirs, {}), NEW d \in dirs, NEW p \in Ents(f, s, d),
         Ent(s, p).attr = "dir" => Ents(f, s, Ent(s, p).first) = {}
  PROVE  LET x     == Ent(s, p).first
             g     == FreeChain(f, x)
             s1    == Put(s, p, Deleted)
             dirs1 == dirs \ {x}
         IN  /\ Vol(g, s1, dirs1, {}) /\ d \in dirs1 /\ p \in Places(g, d)
             /\ \A q \in Ents(g, s1, d) : Ent(s1, q).name # Ent(s, p).name
             /\ \A w : w.cluster = d /\ PathOK(f, s, dirs, w) => PathOK(g, s1, dirs1, w)
             /\ Cardinality(FreeClusters(g)) = Cardinality(FreeClusters(f)) + Len(Chain(f, x))
<1>. DEFINE x     == Ent(s, p).first
            g     == FreeChain(f, x)
            s1    == Put(s, p, Deleted)
            dirs1 == dirs \ {x}
            heads == Heads(f, s, dirs)
<1>1. /\ dirs \subseteq heads /\ dirs \subseteq Clusters /\ Root \in dirs /\ DOMAIN s = Clusters
      /\ \A e \in dirs : Chained(f, e) /\ InChain(f, e) \subseteq Clusters
      /\ \A e \in dirs : \A a \in InChain(f, e) : TableOK(f, s, a) /\ s[a] \in [1..Slots -> Entry]
      /\ x \in heads /\ Live(Ent(s, p)) /\ p \in Places(f, d)
      /\ \A c, e \in dirs : Places(f, c) \cap Places(f, e) # {} => c = e
      /\ \A e \in dirs : \A q \in Ents(f, s, e) : q \in Places(f, e) /\ Ent(s, q).first \in heads
  BY DirFacts
<1>2. /\ x # Root
      /\ \A e \in dirs : \A q \in Ents(f, s, e) :
           Ent(s, q).first # Root /\ (Ent(s, q).attr = "dir" => Ent(s, q).first \in dirs)
      /\ \A c, e \in dirs : \A q \in Ents(f, s, c), r \in Ents(f, s, e) :
           Ent(s, q).first = Ent(s, r).first => q = r /\ c = e
      /\ \A e \in dirs : \A q, r \in Ents(f, s, e) : Ent(s, q).name = Ent(s, r).name => q = r
      /\ Reachable(f, s, dirs)
  BY DEF Vol, DirsOK
<1>3. ChainsOK(f, heads, {})
  BY DEF Vol
<1>4. /\ ChainsOK(g, heads \ {x}, {})
      /\ \A y \in heads \ {x} : /\ Chain(g, y) = Chain(f, y) /\ InChain(g, y) = InChain(f, y)
                                /\ \A a \in InChain(f, y) : g[a] = f[a]
      /\ Cardinality(FreeClusters(g)) = Cardinality(FreeClusters(f)) + Len(Chain(f, x))
  BY <1>1, <1>3, Freed
<1>5. x \in dirs => Ent(s, p).attr = "dir"
  <2>1. Ent(s, p).attr \in {"file", "dir"}
    BY DirFacts
  <2>. QED
    BY <2>1, FileHead
<1>6. d # x
  BY <1>5
<1>7. x \in dirs => Ents(f, s, x) = {}
  BY <1>5
<1>8. /\ p \in Clusters \X (1..Slots) /\ s[p[1]] \in [1..Slots -> Entry] /\ p[1] \in InChain(f, d)
      /\ Deleted \in Entry /\ Deleted # End /\ p[2] \in 1..Slots
  BY <1>1, EntIn, EntriesAre DEF Places, Entry
<1>9. /\ DOMAIN s1 = Clusters /\ \A a \in Clusters : a # p[1] => s1[a] = s[a]
      /\ Ent(s1, p) = Deleted
      /\ \A q \in Clusters \X (1..Slots) : q # p => Ent(s1, q) = Ent(s, q)
  <2>1. DOMAIN s = Clusters
    BY <1>1
  <2>2. /\ p \in Clusters \X (1..Slots) /\ s[p[1]] \in [1..Slots -> Entry] /\ Deleted \in Entry
    BY <1>8
  <2>. QED
    BY <2>1, <2>2, PutIs
<1>10. \A j \in 1..p[2] - 1 : s[p[1]][j] # End
  <2>1. s[p[1]][p[2]] # End /\ TableOK(f, s, p[1])
    BY <1>1, <1>8, EntriesAre DEF Ent
  <2>. QED
    BY <1>8, <2>1, BeforeLive
<1>11. \A e \in dirs1 : \A a \in InChain(g, e) : TableOK(g, s1, a)
  <2>1. ASSUME NEW e \in dirs1, NEW a \in InChain(g, e)  PROVE TableOK(g, s1, a)
    <3>1. a \in InChain(f, e) /\ g[a] = f[a] /\ TableOK(f, s, a) /\ a \in Clusters
      BY <1>1, <1>4
    <3>2. CASE a = p[1]
      BY <1>1, <1>8, <1>10, <3>1, <3>2, PutTable
    <3>3. CASE a # p[1]
      BY <1>9, <3>1, <3>3 DEF TableOK
    <3>. QED
      BY <3>2, <3>3
  <2>. QED
    BY <2>1
<1>. HIDE DEF g, s1, x, heads
<1>12. ASSUME NEW e \in dirs1
       PROVE  /\ Places(g, e) = Places(f, e) /\ Ents(g, s1, e) = Ents(f, s, e) \ {p}
              /\ \A q \in Ents(f, s, e) \ {p} : Ent(s1, q) = Ent(s, q)
  <2>1. e \in heads \ {x}
    BY <1>1
  <2>2. Places(g, e) = Places(f, e)
    BY <1>4, <2>1 DEF Places
  <2>3. \A q \in Places(f, e) : q \in Clusters \X (1..Slots)
    BY <1>1 DEF Places
  <2>4. \A q \in Places(f, e) : q # p => Ent(s1, q) = Ent(s, q)
    BY <1>9, <2>3
  <2>5. p \notin Ents(g, s1, e)
    BY <1>9, EntIn, EntriesAre
  <2>6. \A q : q \in Ents(g, s1, e) <=> q \in Ents(f, s, e) /\ q # p
    BY <2>2, <2>4, <2>5, EntIn
  <2>. QED
    BY <2>2, <2>4, <2>6, <1>1
<1>13. ASSUME NEW e \in dirs1, NEW q \in Ents(g, s1, e)
       PROVE  q \in Ents(f, s, e) /\ q # p /\ Ent(s1, q) = Ent(s, q) /\ e \in dirs
  BY <1>12
<1>14. Reachable(g, s1, dirs1)
  <2>1. ASSUME NEW set \in SUBSET dirs1, Root \in set,
               \A e \in set : \A q \in Ents(g, s1, e) : Ent(s1, q).attr = "dir" => Ent(s1, q).first \in set
        PROVE  set = dirs1
    <3>. DEFINE big == set \cup (dirs \cap {x})
    <3>1. big \in SUBSET dirs /\ Root \in big
      BY <2>1
    <3>2. ASSUME NEW e \in big, NEW q \in Ents(f, s, e), Ent(s, q).attr = "dir"
          PROVE  Ent(s, q).first \in big
      <4>1. e \in set
        BY <1>7, <3>2
      <4>2. CASE q = p
        <5>1. Ent(s, q).first \in dirs /\ Ent(s, q).first = x
          BY <1>2, <2>1, <3>2, <4>1, <4>2 DEF x
        <5>. QED
          BY <5>1
      <4>3. CASE q # p
        <5>1. q \in Ents(g, s1, e) /\ Ent(s1, q) = Ent(s, q)
          BY <1>12, <2>1, <4>1, <4>3
        <5>. QED
          BY <2>1, <3>2, <4>1, <5>1
      <4>. QED
        BY <4>2, <4>3
    <3>3. big = dirs
      <4>. HIDE DEF big
      <4>. QED
        BY <1>2, <3>1, <3>2 DEF Reachable
    <3>. QED
      BY <2>1, <3>3
  <2>. QED
    BY <2>1 DEF Reachable
<1>15. \A e \in dirs1 : \A q \in Ents(f, s, e) : q # p => Ent(s, q).first # x
  BY <1>2 DEF x
<1>16. DirsOK(g, s1, dirs1)
  <2>1. dirs1 \subseteq Clusters /\ Root \in dirs1 /\ DOMAIN s1 = Clusters
    BY <1>1, <1>2, <1>9 DEF x
  <2>2. \A e \in dirs1 : \A q \in Ents(g, s1, e) :
          Ent(s1, q).first # Root /\ (Ent(s1, q).attr = "dir" => Ent(s1, q).first \in dirs1)
    BY <1>2, <1>13, <1>15
  <2>3. \A c, e \in dirs1 : \A q \in Ents(g, s1, c), r \in Ents(g, s1, e) :
          Ent(s1, q).first = Ent(s1, r).first => q = r /\ c = e
    BY <1>2, <1>13
  <2>4. \A e \in dirs1 : \A q, r \in Ents(g, s1, e) : Ent(s1, q).name = Ent(s1, r).name => q = r
    BY <1>2, <1>13
  <2>. QED
    BY <1>11, <1>14, <2>1, <2>2, <2>3, <2>4 DEF DirsOK
<1>17. Heads(g, s1, dirs1) = heads \ {x}
  <2>1. \A y : y \in Heads(g, s1, dirs1) => y \in heads /\ y # x
    BY <1>2, <1>13, <1>15 DEF Heads, heads, x
  <2>2. ASSUME NEW y \in heads, y # x  PROVE y \in Heads(g, s1, dirs1)
    <3>1. CASE y = Root
      BY <3>1, Marks DEF Heads
    <3>2. CASE y # Root
      <4>1. PICK e \in dirs : \E q \in Ents(f, s, e) : y = Ent(s, q).first
        BY <2>2, <3>2 DEF heads, Heads
      <4>2. PICK q \in Ents(f, s, e) : y = Ent(s, q).first
        BY <4>1
      <4>3. e \in dirs1
        BY <1>7
      <4>4. q # p
        BY <2>2, <4>2 DEF x
      <4>5. q \in Ents(g, s1, e) /\ Ent(s1, q) = Ent(s, q) /\ y \in Clusters
        BY <1>12, <4>3, <4>4, <2>2 DEF heads, Heads
      <4>. QED
        BY <4>2, <4>3, <4>5 DEF Heads
    <3>. QED
      BY <3>1, <3>2
  <2>. QED
    BY <2>1, <2>2
<1>18. SizesOK(g, s1, dirs1)
  <2>1. ASSUME NEW e \in dirs1, NEW q \in Ents(g, s1, e), Ent(s1, q).attr = "file"
        PROVE  Len(Chain(g, Ent(s1, q).first)) = (IF Ent(s1, q).size = 0 THEN 1 ELSE Ent(s1, q).size)
    <3>1. q \in Ents(f, s, e) /\ q # p /\ Ent(s1, q) = Ent(s, q) /\ e \in dirs
      BY <1>13
    <3>2. Ent(s, q).first \in heads \ {x}
      BY <1>1, <1>15, <3>1
    <3>3. Chain(g, Ent(s, q).first) = Chain(f, Ent(s, q).first)
      BY <1>4, <3>2
    <3>. QED
      BY <2>1, <3>1, <3>3 DEF Vol, SizesOK
  <2>. QED
    BY <2>1 DEF SizesOK
<1>19. Vol(g, s1, dirs1, {})
  BY <1>4, <1>16, <1>17, <1>18 DEF Vol
<1>20. d \in dirs1 /\ p \in Places(g, d) /\ \A q \in Ents(g, s1, d) : Ent(s1, q).name # Ent(s, p).name
  BY <1>1, <1>2, <1>6, <1>12, <1>13
<1>21. ASSUME NEW w, w.cluster = d, PathOK(f, s, dirs, w)  PROVE PathOK(g, s1, dirs1, w)
  <2>1. PICK at \in Seq(dirs) :
          /\ TreePath(f, s, dirs, at) /\ at[Len(at)] = w.cluster /\ Len(w.stack) < Len(at)
          /\ \A k \in 1..Len(w.stack) : w.stack[k] = at[k]
          /\ Len(w.stack) < StackDepth => Len(at) = Len(w.stack) + 1
    BY <1>21 DEF PathOK
  <2>2. w.cluster \in dirs /\ w.stack \in Seq(dirs)
    BY <1>21 DEF PathOK
  <2>3. \A k \in 1..Len(at) - 1 : Child(f, s, at[k], at[k + 1]) /\ at[k] \in dirs /\ at[k + 1] \in dirs
    BY <2>1 DEF TreePath
  <2>4. \A k \in 1..Len(at) : at[k] # x
    <3>1. ASSUME NEW k \in 1..Len(at), at[k] = x  PROVE FALSE
      <4>1. k # Len(at)
        BY <1>6, <1>21, <2>1, <3>1
      <4>2. k \in 1..Len(at) - 1
        BY <4>1
      <4>3. Child(f, s, x, at[k + 1]) /\ x \in dirs
        BY <2>3, <3>1, <4>2
      <4>. QED
        BY <1>7, <4>3 DEF Child
    <3>. QED
      BY <3>1
  <2>5. at \in Seq(dirs1)
    BY <2>4
  <2>6. \A k \in 1..Len(w.stack) : k \in 1..Len(at)
    BY <2>1, <2>2
  <2>7. w.stack \in Seq(dirs1)
    BY <2>1, <2>2, <2>4, <2>6
  <2>8. ASSUME NEW k \in 1..Len(at) - 1  PROVE Child(g, s1, at[k], at[k + 1])
    <3>1. at[k] \in dirs1 /\ at[k + 1] # x /\ Child(f, s, at[k], at[k + 1])
      <4>1. k \in 1..Len(at) /\ k + 1 \in 1..Len(at)
        OBVIOUS
      <4>. QED
        BY <2>3, <2>4, <4>1
    <3>2. PICK q \in Ents(f, s, at[k]) : Ent(s, q).attr = "dir" /\ Ent(s, q).first = at[k + 1]
      BY <3>1 DEF Child
    <3>3. q # p
      BY <3>1, <3>2 DEF x
    <3>4. q \in Ents(g, s1, at[k]) /\ Ent(s1, q) = Ent(s, q)
      BY <1>12, <3>1, <3>3
    <3>. QED
      BY <3>2, <3>4 DEF Child
  <2>9. TreePath(g, s1, dirs1, at)
    BY <2>1, <2>5, <2>8 DEF TreePath
  <2>. QED
    BY <1>20, <1>21, <2>1, <2>5, <2>7, <2>9 DEF PathOK
<1>. QED
  BY <1>4, <1>19, <1>20, <1>21 DEF g, s1, x
\* What an entry for the clusters of a call takes.
Ready(f, s, dirs, x, d, p, n, attr, size) ==
  /\ Vol(f, s, dirs, InChain(f, x)) /\ Chained(f, x) /\ d \in dirs
  /\ p \in Places(f, d) /\ Ent(s, p) \in {End, Deleted} /\ \A j \in 1..p[2] - 1 : s[p[1]][j] # End
  /\ n \in Names /\ (\A q \in Ents(f, s, d) : Ent(s, q).name # n)
  /\ attr \in {"file", "dir"} /\ size \in Nat
  /\ attr = "file" => Len(Chain(f, x)) = (IF size = 0 THEN 1 ELSE size)
  /\ attr = "dir" => /\ InChain(f, x) = {x} /\ TableOK(f, s, x)
                     /\ \A i \in 1..Slots : Live(s[x][i]) => s[x][i].name \in Dots

\* The call's clusters get their entry, in a slot that is free.
LEMMA EntryAdded ==
  ASSUME NEW f, NEW s, NEW dirs, NEW x, NEW d, NEW p, NEW n, NEW attr, NEW size,
         Ready(f, s, dirs, x, d, p, n, attr, size), NEW e, e = NewEntry(n, attr, x, size),
         NEW dirs1, dirs1 = IF attr = "dir" THEN dirs \cup {x} ELSE dirs
  PROVE  /\ Vol(f, Put(s, p, e), dirs1, {})
         /\ \A w : PathOK(f, s, dirs, w) => PathOK(f, Put(s, p, e), dirs1, w)
<1>. DEFINE s1    == Put(s, p, e)
            heads == Heads(f, s, dirs)
<1>0. /\ Vol(f, s, dirs, InChain(f, x)) /\ Chained(f, x) /\ d \in dirs
      /\ p \in Places(f, d) /\ Ent(s, p) \in {End, Deleted}
      /\ \A j \in 1..p[2] - 1 : s[p[1]][j] # End
      /\ n \in Names /\ (\A q \in Ents(f, s, d) : Ent(s, q).name # n)
      /\ attr \in {"file", "dir"} /\ size \in Nat
      /\ attr = "file" => Len(Chain(f, x)) = (IF size = 0 THEN 1 ELSE size)
      /\ attr = "dir" => /\ InChain(f, x) = {x} /\ TableOK(f, s, x)
                         /\ \A i \in 1..Slots : Live(s[x][i]) => s[x][i].name \in Dots
  BY DEF Ready
<1>. USE <1>0
<1>1. /\ dirs \subseteq heads /\ dirs \subseteq Clusters /\ Root \in dirs /\ DOMAIN s = Clusters
      /\ \A c \in dirs : Chained(f, c) /\ InChain(f, c) \subseteq Clusters
      /\ \A c \in dirs : \A a \in InChain(f, c) : TableOK(f, s, a) /\ s[a] \in [1..Slots -> Entry]
      /\ \A b, c \in dirs : Places(f, b) \cap Places(f, c) # {} => b = c
      /\ \A c \in dirs : \A q \in Ents(f, s, c) : q \in Places(f, c) /\ Ent(s, q).first \in heads
  BY DirFacts
<1>2. /\ \A c \in dirs : \A q \in Ents(f, s, c) :
           Ent(s, q).first # Root /\ (Ent(s, q).attr = "dir" => Ent(s, q).first \in dirs)
      /\ \A b, c \in dirs : \A q \in Ents(f, s, b), r \in Ents(f, s, c) :
           Ent(s, q).first = Ent(s, r).first => q = r /\ b = c
      /\ \A c \in dirs : \A q, r \in Ents(f, s, c) : Ent(s, q).name = Ent(s, r).name => q = r
      /\ Reachable(f, s, dirs)
  BY DEF Vol, DirsOK
<1>3. ChainsOK(f, heads \cup {x}, {}) /\ x \notin heads
  <2>1. ChainsOK(f, heads, InChain(f, x))
    BY DEF Vol
  <2>. QED
    BY <2>1, Adopted
<1>4. x \in Clusters /\ x \in InChain(f, x) /\ x # Root /\ x \notin dirs
      /\ \A c \in dirs : InChain(f, c) \cap InChain(f, x) = {}
  <2>1. x \in Clusters /\ x \in InChain(f, x)
    BY ChainFacts
  <2>2. \A c \in heads : InChain(f, c) \cap InChain(f, x) = {}
    BY DEF Vol, ChainsOK
  <2>. QED
    BY <1>1, <1>3, <2>1, <2>2
<1>5. /\ e \in Entry /\ e # End /\ Live(e) /\ e.name = n /\ e.attr = attr /\ e.first = x /\ e.size = size
      /\ n \notin Dots
  <2>1. e \in [attr : {"file", "dir"}, name : Names \cup Dots, first : Clusters, size : Nat]
    BY <1>4 DEF NewEntry
  <2>2. e.attr = attr /\ e.name = n /\ e.first = x /\ e.size = size
    BY DEF NewEntry
  <2>3. Live(e)
    BY <2>2 DEF Live
  <2>4. n \notin Dots
    BY Consts
  <2>. QED
    BY <2>1, <2>2, <2>3, <2>4, EntriesAre DEF Entry
<1>6. /\ p \in Clusters \X (1..Slots) /\ s[p[1]] \in [1..Slots -> Entry] /\ p[1] \in InChain(f, d)
      /\ p[2] \in 1..Slots /\ p[1] # x
  <2>1. p[1] \in InChain(f, d) /\ p[2] \in 1..Slots /\ p = <<p[1], p[2]>>
    BY EntIn
  <2>2. p[1] \in Clusters /\ s[p[1]] \in [1..Slots -> Entry]
    BY <1>1, <2>1
  <2>. QED
    BY <1>4, <2>1, <2>2
<1>7. /\ DOMAIN s1 = Clusters /\ \A a \in Clusters : a # p[1] => s1[a] = s[a]
      /\ Ent(s1, p) = e
      /\ \A q \in Clusters \X (1..Slots) : q # p => Ent(s1, q) = Ent(s, q)
  <2>1. DOMAIN s = Clusters
    BY <1>1
  <2>2. /\ p \in Clusters \X (1..Slots) /\ s[p[1]] \in [1..Slots -> Entry] /\ e \in Entry
    BY <1>5, <1>6
  <2>. QED
    BY <2>1, <2>2, PutIs
<1>8. \A c \in dirs1 : \A a \in InChain(f, c) : TableOK(f, s1, a)
  <2>1. ASSUME NEW c \in dirs, NEW a \in InChain(f, c)  PROVE TableOK(f, s1, a)
    <3>1. TableOK(f, s, a) /\ a \in Clusters
      BY <1>1
    <3>2. CASE a = p[1]
      <4>1. DOMAIN s = Clusters
        BY <1>1
      <4>. QED
        BY <1>5, <1>6, <3>1, <3>2, <4>1, PutTable
    <3>3. CASE a # p[1]
      BY <1>7, <3>1, <3>3 DEF TableOK
    <3>. QED
      BY <3>2, <3>3
  <2>2. ASSUME attr = "dir"  PROVE \A a \in InChain(f, x) : TableOK(f, s1, a)
    <3>1. s1[x] = s[x]
      BY <1>4, <1>6, <1>7
    <3>. QED
      BY <2>2, <3>1 DEF TableOK
  <2>. QED
    BY <2>1, <2>2
<1>. HIDE DEF s1, heads
<1>9. ASSUME NEW c \in dirs
      PROVE  /\ \A q : q \in Ents(f, s1, c) <=> q \in Ents(f, s, c) \/ (q = p /\ c = d)
             /\ \A q \in Ents(f, s, c) : q # p /\ Ent(s1, q) = Ent(s, q)
  <2>1. \A q \in Places(f, c) : q \in Clusters \X (1..Slots)
    BY <1>1 DEF Places
  <2>2. \A q \in Places(f, c) : q # p => Ent(s1, q) = Ent(s, q)
    BY <1>7, <2>1
  <2>3. p \notin Ents(f, s, c)
    BY EntIn, EntriesAre
  <2>4. p \in Places(f, c) <=> c = d
    BY <1>1
  <2>5. p \in Ents(f, s1, c) <=> c = d
    BY <1>5, <1>7, <2>4, EntIn
  <2>6. \A q : q # p => (q \in Ents(f, s1, c) <=> q \in Ents(f, s, c))
    BY <2>2, EntIn
  <2>. QED
    BY <1>1, <2>2, <2>3, <2>5, <2>6
<1>10. attr = "dir" => Ents(f, s1, x) = {}
  <2>1. ASSUME attr = "dir", NEW q \in Ents(f, s1, x)  PROVE FALSE
    <3>1. q \in Places(f, x) /\ Live(Ent(s1, q)) /\ Ent(s1, q).name \notin Dots /\ q[1] = x /\ q[2] \in 1..Slots
      BY <2>1, EntIn
    <3>2. s1[x] = s[x]
      BY <1>4, <1>6, <1>7
    <3>3. Ent(s1, q) = s[x][q[2]]
      BY <3>1, <3>2 DEF Ent
    <3>. QED
      BY <2>1, <3>1, <3>3
  <2>. QED
    BY <2>1
<1>11. ASSUME NEW c \in dirs1, NEW q \in Ents(f, s1, c)
       PROVE  /\ c \in dirs
              /\ \/ q \in Ents(f, s, c) /\ Ent(s1, q) = Ent(s, q) /\ Ent(s1, q).first # x
                 \/ q = p /\ c = d /\ Ent(s1, q) = e
  <2>1. c \in dirs
    BY <1>10
  <2>. QED
    BY <1>1, <1>3, <1>7, <1>9, <2>1
<1>12. Reachable(f, s1, dirs1)
  <2>1. ASSUME NEW set \in SUBSET dirs1, Root \in set,
               \A c \in set : \A q \in Ents(f, s1, c) : Ent(s1, q).attr = "dir" => Ent(s1, q).first \in set
        PROVE  set = dirs1
    <3>. DEFINE old == set \cap dirs
    <3>1. old \in SUBSET dirs /\ Root \in old
      BY <1>1, <2>1
    <3>2. \A c \in old : \A q \in Ents(f, s, c) : Ent(s, q).attr = "dir" => Ent(s, q).first \in old
      BY <1>2, <1>9, <2>1
    <3>3. old = dirs
      <4>. HIDE DEF old
      <4>. QED
        BY <1>2, <3>1, <3>2 DEF Reachable
    <3>4. attr = "dir" => x \in set
      <4>1. d \in set /\ p \in Ents(f, s1, d)
        BY <1>9, <3>3
      <4>. QED
        BY <1>5, <1>7, <2>1, <4>1
    <3>. QED
      BY <2>1, <3>3, <3>4
  <2>. QED
    BY <2>1 DEF Reachable
<1>13. DirsOK(f, s1, dirs1)
  <2>1. dirs1 \subseteq Clusters /\ Root \in dirs1 /\ DOMAIN s1 = Clusters
    BY <1>1, <1>4, <1>7
  <2>2. \A c \in dirs1 : \A q \in Ents(f, s1, c) :
          Ent(s1, q).first # Root /\ (Ent(s1, q).attr = "dir" => Ent(s1, q).first \in dirs1)
    BY <1>2, <1>4, <1>5, <1>11
  <2>3. ASSUME NEW b \in dirs1, NEW c \in dirs1, NEW q \in Ents(f, s1, b), NEW r \in Ents(f, s1, c),
               Ent(s1, q).first = Ent(s1, r).first
        PROVE  q = r /\ b = c
    <3>1. b \in dirs /\ c \in dirs
      BY <1>11
    <3>2. CASE q \in Ents(f, s, b) /\ Ent(s1, q) = Ent(s, q) /\ Ent(s1, q).first # x
      <4>1. r \in Ents(f, s, c) /\ Ent(s1, r) = Ent(s, r)
        BY <1>5, <1>11, <2>3, <3>2
      <4>. QED
        BY <1>2, <2>3, <3>1, <3>2, <4>1
    <3>3. CASE q = p /\ b = d /\ Ent(s1, q) = e
      <4>1. r = p /\ c = d
        BY <1>5, <1>11, <2>3, <3>3
      <4>. QED
        BY <3>3, <4>1
    <3>. QED
      BY <1>11, <3>2, <3>3
  <2>4. ASSUME NEW c \in dirs1, NEW q \in Ents(f, s1, c), NEW r \in Ents(f, s1, c),
               Ent(s1, q).name = Ent(s1, r).name
        PROVE  q = r
    <3>1. c \in dirs
      BY <1>11
    <3>2. CASE q \in Ents(f, s, c) /\ Ent(s1, q) = Ent(s, q)
      <4>1. r \in Ents(f, s, c) /\ Ent(s1, r) = Ent(s, r)
        BY <1>5, <1>11, <2>4, <3>2
      <4>. QED
        BY <1>2, <2>4, <3>1, <3>2, <4>1
    <3>3. CASE q = p /\ c = d /\ Ent(s1, q) = e
      <4>1. r = p
        BY <1>5, <1>11, <2>4, <3>3
      <4>. QED
        BY <3>3, <4>1
    <3>. QED
      BY <1>11, <3>2, <3>3
  <2>. QED
    BY <1>8, <1>12, <2>1, <2>2, <2>3, <2>4 DEF DirsOK
<1>14. Heads(f, s1, dirs1) = heads \cup {x}
  <2>1. ASSUME NEW y \in Heads(f, s1, dirs1)  PROVE y \in heads \cup {x}
    <3>1. CASE y = Root
      BY <1>1, <3>1
    <3>2. CASE y # Root
      <4>1. PICK c \in dirs1 : \E q \in Ents(f, s1, c) : y = Ent(s1, q).first
        BY <2>1, <3>2 DEF Heads
      <4>2. PICK q \in Ents(f, s1, c) : y = Ent(s1, q).first
        BY <4>1
      <4>. QED
        BY <1>1, <1>5, <1>11, <4>2
    <3>. QED
      BY <3>1, <3>2
  <2>2. ASSUME NEW y \in heads  PROVE y \in Heads(f, s1, dirs1)
    <3>1. CASE y = Root
      BY <3>1, Marks DEF Heads
    <3>2. CASE y # Root
      <4>1. PICK c \in dirs : \E q \in Ents(f, s, c) : y = Ent(s, q).first
        BY <2>2, <3>2 DEF heads, Heads
      <4>2. PICK q \in Ents(f, s, c) : y = Ent(s, q).first
        BY <4>1
      <4>3. q \in Ents(f, s1, c) /\ Ent(s1, q) = Ent(s, q) /\ y \in Clusters /\ c \in dirs1
        BY <1>9, <2>2 DEF heads, Heads
      <4>. QED
        BY <4>2, <4>3 DEF Heads
    <3>. QED
      BY <3>1, <3>2
  <2>3. x \in Heads(f, s1, dirs1)
    <3>1. p \in Ents(f, s1, d) /\ Ent(s1, p).first = x /\ d \in dirs1
      BY <1>5, <1>7, <1>9
    <3>. QED
      BY <1>4, <3>1 DEF Heads
  <2>. QED
    BY <2>1, <2>2, <2>3
<1>15. SizesOK(f, s1, dirs1)
  <2>1. ASSUME NEW c \in dirs1, NEW q \in Ents(f, s1, c), Ent(s1, q).attr = "file"
        PROVE  Len(Chain(f, Ent(s1, q).first)) = (IF Ent(s1, q).size = 0 THEN 1 ELSE Ent(s1, q).size)
    <3>1. CASE q \in Ents(f, s, c) /\ Ent(s1, q) = Ent(s, q)
      BY <1>11, <2>1, <3>1 DEF Vol, SizesOK
    <3>2. CASE Ent(s1, q) = e
      <4>1. attr = "file"
        BY <1>5, <2>1, <3>2
      <4>. QED
        BY <1>5, <3>2, <4>1
    <3>. QED
      BY <1>11, <3>1, <3>2
  <2>. QED
    BY <2>1 DEF SizesOK
<1>16. Vol(f, s1, dirs1, {})
  BY <1>3, <1>13, <1>14, <1>15 DEF Vol
<1>17. ASSUME NEW w, PathOK(f, s, dirs, w)  PROVE PathOK(f, s1, dirs1, w)
  <2>1. \A b, c \in dirs : Child(f, s, b, c) => Child(f, s1, b, c)
    BY <1>9 DEF Child
  <2>2. dirs \subseteq dirs1
    OBVIOUS
  <2>. QED
    BY <1>17, <2>1, <2>2, PathMoved
<1>. QED
  BY <1>16, <1>17 DEF s1

LEMMA EntryRenamed ==
  ASSUME NEW f, NEW s, NEW dirs, NEW pend, Vol(f, s, dirs, pend), NEW d \in dirs, NEW p \in Ents(f, s, d),
         NEW n \in Names, \A q \in Ents(f, s, d) : Ent(s, q).name # n
  PROVE  LET s1 == Put(s, p, [Ent(s, p) EXCEPT !.name = n])
         IN  Vol(f, s1, dirs, pend) /\ \A w : PathOK(f, s, dirs, w) => PathOK(f, s1, dirs, w)
<1>. DEFINE old == Ent(s, p)
            e   == [old EXCEPT !.name = n]
            s1  == Put(s, p, e)
            heads == Heads(f, s, dirs)
<1>1. /\ dirs \subseteq Clusters /\ Root \in dirs /\ DOMAIN s = Clusters
      /\ \A c \in dirs : InChain(f, c) \subseteq Clusters
      /\ \A c \in dirs : \A a \in InChain(f, c) : TableOK(f, s, a) /\ s[a] \in [1..Slots -> Entry]
      /\ \A c \in dirs : \A q \in Places(f, c) : Ent(s, q) \in Entry
      /\ \A b, c \in dirs : Places(f, b) \cap Places(f, c) # {} => b = c
      /\ \A c \in dirs : \A q \in Ents(f, s, c) : q \in Places(f, c)
  BY DirFacts
<1>2. /\ \A c \in dirs : \A q \in Ents(f, s, c) :
           Ent(s, q).first # Root /\ (Ent(s, q).attr = "dir" => Ent(s, q).first \in dirs)
      /\ \A b, c \in dirs : \A q \in Ents(f, s, b), r \in Ents(f, s, c) :
           Ent(s, q).first = Ent(s, r).first => q = r /\ b = c
      /\ \A c \in dirs : \A q, r \in Ents(f, s, c) : Ent(s, q).name = Ent(s, r).name => q = r
      /\ Reachable(f, s, dirs)
  BY DEF Vol, DirsOK
<1>3. old \in Entry /\ Live(old) /\ p \in Places(f, d)
  BY <1>1, EntIn
<1>4. /\ e \in Entry /\ e # End /\ Live(e) /\ e.name = n /\ e.attr = old.attr /\ e.first = old.first /\ e.size = old.size
      /\ n \notin Dots
  <2>. HIDE DEF old
  <2>1. old \in [attr : {"file", "dir"}, name : Names \cup Dots, first : Clusters, size : Nat]
    BY <1>3, EntriesAre DEF Entry
  <2>2. /\ e \in [attr : {"file", "dir"}, name : Names \cup Dots, first : Clusters, size : Nat]
        /\ e.name = n /\ e.attr = old.attr /\ e.first = old.first /\ e.size = old.size
    BY <2>1
  <2>3. Live(e)
    BY <2>1, <2>2 DEF Live
  <2>4. n \notin Dots
    BY Consts
  <2>. HIDE DEF e
  <2>. QED
    BY <2>2, <2>3, <2>4, EntriesAre DEF Entry
<1>5. /\ p \in Clusters \X (1..Slots) /\ s[p[1]] \in [1..Slots -> Entry] /\ p[1] \in InChain(f, d)
      /\ p[2] \in 1..Slots
  <2>1. p[1] \in InChain(f, d) /\ p[2] \in 1..Slots /\ p = <<p[1], p[2]>>
    BY <1>3, EntIn
  <2>2. p[1] \in Clusters /\ s[p[1]] \in [1..Slots -> Entry]
    BY <1>1, <2>1
  <2>. QED
    BY <2>1, <2>2
<1>6. \A j \in 1..p[2] - 1 : s[p[1]][j] # End
  <2>1. s[p[1]][p[2]] # End /\ TableOK(f, s, p[1])
    BY <1>1, <1>3, <1>5, EntriesAre DEF Ent
  <2>. QED
    BY <1>5, <2>1, BeforeLive
<1>. HIDE DEF e
<1>7. /\ DOMAIN s1 = Clusters /\ \A a \in Clusters : a # p[1] => s1[a] = s[a]
      /\ Ent(s1, p) = e
      /\ \A q \in Clusters \X (1..Slots) : q # p => Ent(s1, q) = Ent(s, q)
  <2>1. DOMAIN s = Clusters
    BY <1>1
  <2>2. /\ p \in Clusters \X (1..Slots) /\ s[p[1]] \in [1..Slots -> Entry] /\ e \in Entry
    BY <1>4, <1>5
  <2>. QED
    BY <2>1, <2>2, PutIs
<1>8. \A c \in dirs : \A a \in InChain(f, c) : TableOK(f, s1, a)
  <2>1. ASSUME NEW c \in dirs, NEW a \in InChain(f, c)  PROVE TableOK(f, s1, a)
    <3>1. TableOK(f, s, a) /\ a \in Clusters
      BY <1>1
    <3>2. CASE a = p[1]
      <4>1. DOMAIN s = Clusters
        BY <1>1
      <4>. QED
        BY <1>4, <1>5, <1>6, <3>1, <3>2, <4>1, PutTable
    <3>3. CASE a # p[1]
      BY <1>7, <3>1, <3>3 DEF TableOK
    <3>. QED
      BY <3>2, <3>3
  <2>. QED
    BY <2>1
<1>. HIDE DEF s1, heads
<1>9. ASSUME NEW c \in dirs
      PROVE  /\ \A q : q \in Ents(f, s1, c) <=> q \in Ents(f, s, c)
             /\ \A q \in Ents(f, s, c) : q # p => Ent(s1, q) = Ent(s, q)
             /\ p \in Ents(f, s, c) => c = d
  <2>1. \A q \in Places(f, c) : q \in Clusters \X (1..Slots)
    BY <1>1 DEF Places
  <2>2. \A q \in Places(f, c) : q # p => Ent(s1, q) = Ent(s, q)
    BY <1>7, <2>1
  <2>3. p \in Places(f, c) <=> c = d
    BY <1>1, <1>3
  <2>4. p \in Ents(f, s1, c) <=> p \in Ents(f, s, c)
    BY <1>4, <1>7, <2>3, EntIn
  <2>5. \A q : q # p => (q \in Ents(f, s1, c) <=> q \in Ents(f, s, c))
    BY <2>2, EntIn
  <2>. QED
    BY <1>1, <2>2, <2>3, <2>4, <2>5
<1>10. \A c \in dirs : \A q \in Ents(f, s1, c) :
         /\ q \in Ents(f, s, c) /\ Ent(s1, q).first = Ent(s, q).first /\ Ent(s1, q).attr = Ent(s, q).attr
         /\ Ent(s1, q).size = Ent(s, q).size
         /\ Ent(s1, q).name = (IF q = p THEN n ELSE Ent(s, q).name)
  BY <1>4, <1>7, <1>9
<1>11. Reachable(f, s1, dirs)
  <2>1. ASSUME NEW set \in SUBSET dirs, Root \in set,
               \A c \in set : \A q \in Ents(f, s1, c) : Ent(s1, q).attr = "dir" => Ent(s1, q).first \in set
        PROVE  set = dirs
    <3>1. \A c \in set : \A q \in Ents(f, s, c) : Ent(s, q).attr = "dir" => Ent(s, q).first \in set
      BY <1>9, <1>10, <2>1
    <3>. QED
      BY <1>2, <2>1, <3>1 DEF Reachable
  <2>. QED
    BY <2>1 DEF Reachable
<1>12. DirsOK(f, s1, dirs)
  <2>1. dirs \subseteq Clusters /\ Root \in dirs /\ DOMAIN s1 = Clusters
    BY <1>1, <1>7
  <2>2. \A c \in dirs : \A q \in Ents(f, s1, c) :
          Ent(s1, q).first # Root /\ (Ent(s1, q).attr = "dir" => Ent(s1, q).first \in dirs)
    BY <1>2, <1>10
  <2>3. \A b, c \in dirs : \A q \in Ents(f, s1, b), r \in Ents(f, s1, c) :
          Ent(s1, q).first = Ent(s1, r).first => q = r /\ b = c
    BY <1>2, <1>10
  <2>4. \A c \in dirs : \A q, r \in Ents(f, s1, c) : Ent(s1, q).name = Ent(s1, r).name => q = r
    BY <1>2, <1>9, <1>10
  <2>. QED
    BY <1>8, <1>11, <2>1, <2>2, <2>3, <2>4 DEF DirsOK
<1>13. Heads(f, s1, dirs) = heads
  BY <1>9, <1>10 DEF Heads, heads
<1>14. SizesOK(f, s1, dirs)
  BY <1>10 DEF Vol, SizesOK
<1>15. Vol(f, s1, dirs, pend)
  BY <1>12, <1>13, <1>14 DEF Vol, heads
<1>16. ASSUME NEW w, PathOK(f, s, dirs, w)  PROVE PathOK(f, s1, dirs, w)
  <2>1. \A b, c \in dirs : Child(f, s, b, c) => Child(f, s1, b, c)
    BY <1>9, <1>10 DEF Child
  <2>. QED
    BY <1>16, <2>1, PathMoved
<1>. QED
  BY <1>15, <1>16 DEF s1, e
LEMMA ZeroIs ==
  /\ ZeroSector \in [1..Slots -> Entry] /\ ZeroSector \in Tables /\ \A i \in 1..Slots : ZeroSector[i] = End
  /\ 1 \in 1..Slots /\ 2 \in 1..Slots
<1>1. 1 \in 1..Slots /\ 2 \in 1..Slots
  BY Consts
<1>. QED
  BY <1>1, EntriesAre DEF ZeroSector, Entry

\* The directory at d has a sector more, and the same entries.
Longer(f, s, g, s1, dirs, d, new) ==
  /\ \A w : PathOK(f, s, dirs, w) => PathOK(g, s1, dirs, w)
  /\ \A c \in dirs : Ents(g, s1, c) = Ents(f, s, c) /\ \A q \in Ents(f, s, c) : Ent(s1, q) = Ent(s, q)
  /\ \A p \in Ents(g, s1, d) : p \in Ents(f, s, d) /\ Ent(s1, p) = Ent(s, p)
  /\ new \in InChain(g, d)
  /\ Cardinality(FreeClusters(g)) = Cardinality(FreeClusters(f)) - 1

\* The directory at d gets a sector more: it had no End.
LEMMA DirExtended ==
  ASSUME NEW f, NEW s, NEW dirs, NEW pend, Vol(f, s, dirs, pend), NEW x, NEW prev, NEW n,
         Run(f, pend, x, prev, n), NEW d \in dirs, NEW cur \in InChain(f, d), f[cur] = EOC,
         \A i \in 1..Slots : Live(s[cur][i]), NEW new \in Clusters, f[new] = Free
  PROVE  LET g  == Linked(f, new, cur)
             s1 == [s EXCEPT ![new] = ZeroSector]
         IN  /\ Vol(g, s1, dirs, pend) /\ Run(g, pend, x, prev, n)
             /\ Longer(f, s, g, s1, dirs, d, new) /\ new \notin pend
<1>. DEFINE g  == Linked(f, new, cur)
            s1 == [s EXCEPT ![new] = ZeroSector]
            heads == Heads(f, s, dirs)
<1>1. /\ dirs \subseteq heads /\ dirs \subseteq Clusters /\ Root \in dirs /\ DOMAIN s = Clusters
      /\ \A c \in dirs : Chained(f, c) /\ InChain(f, c) \subseteq Clusters
      /\ \A c \in dirs : \A a \in InChain(f, c) : TableOK(f, s, a) /\ s[a] \in [1..Slots -> Entry]
      /\ \A c \in dirs : \A q \in Ents(f, s, c) : q \in Places(f, c) /\ Ent(s, q).first \in heads
      /\ \A b, c \in dirs : InChain(f, b) \cap InChain(f, c) # {} => b = c
  BY DirFacts
<1>2. /\ \A c \in dirs : \A q \in Ents(f, s, c) :
           Ent(s, q).first # Root /\ (Ent(s, q).attr = "dir" => Ent(s, q).first \in dirs)
      /\ \A b, c \in dirs : \A q \in Ents(f, s, b), r \in Ents(f, s, c) :
           Ent(s, q).first = Ent(s, r).first => q = r /\ b = c
      /\ \A c \in dirs : \A q, r \in Ents(f, s, c) : Ent(s, q).name = Ent(s, r).name => q = r
      /\ Reachable(f, s, dirs)
  BY DEF Vol, DirsOK
<1>3. ChainsOK(f, heads, pend)
  BY DEF Vol
<1>4. /\ ChainsOK(g, heads, pend) /\ Run(g, pend, x, prev, n)
      /\ InChain(g, d) = InChain(f, d) \cup {new} /\ g[new] = EOC /\ g[cur] = new
      /\ \A a \in InChain(f, d) : a # cur => g[a] = f[a] /\ f[a] # EOC
      /\ \A z \in heads \ {d} : /\ Chain(g, z) = Chain(f, z) /\ InChain(g, z) = InChain(f, z)
                                /\ \A a \in InChain(f, z) : g[a] = f[a]
      /\ Cardinality(FreeClusters(g)) = Cardinality(FreeClusters(f)) - 1
  BY <1>1, <1>3, ChainExtended
<1>5. new \notin pend /\ \A c \in heads : new \notin InChain(f, c)
  BY <1>3, NotFree
<1>6. DOMAIN s1 = Clusters /\ s1[new] = ZeroSector /\ \A a \in Clusters : a # new => s1[a] = s[a]
  BY <1>1
<1>. HIDE DEF g, s1, heads
<1>7. \A c \in dirs : \A a \in InChain(f, c) : a # new /\ s1[a] = s[a]
  BY <1>1, <1>5, <1>6
<1>8. ASSUME NEW c \in dirs
      PROVE  \A q : /\ q \in Ents(g, s1, c) <=> q \in Ents(f, s, c)
                    /\ q \in Ents(f, s, c) => Ent(s1, q) = Ent(s, q)
  <2>1. \A q \in Places(f, c) : Ent(s1, q) = Ent(s, q)
    BY <1>7, EntIn DEF Ent
  <2>2. \A q \in Places(f, c) : q \in Places(g, c)
    <3>1. InChain(f, c) \subseteq InChain(g, c)
      BY <1>1, <1>4
    <3>. QED
      BY <3>1 DEF Places
  <2>3. ASSUME NEW q \in Places(g, c), q \notin Places(f, c)  PROVE ~Live(Ent(s1, q))
    <3>1. q[1] \in InChain(g, c) /\ q[2] \in 1..Slots /\ q = <<q[1], q[2]>>
      BY <2>3, EntIn
    <3>2. q[1] \notin InChain(f, c)
      BY <2>3, <3>1 DEF Places
    <3>3. q[1] = new
      BY <1>1, <1>4, <3>1, <3>2
    <3>4. Ent(s1, q) = End
      BY <1>6, <3>1, <3>3, ZeroIs DEF Ent
    <3>. QED
      BY <3>4, EntriesAre
  <2>4. \A q : q \in Ents(g, s1, c) <=> q \in Ents(f, s, c)
    BY <2>1, <2>2, <2>3, EntIn
  <2>. QED
    BY <1>1, <2>1, <2>4
<1>9. \A c \in dirs : \A a \in InChain(g, c) : TableOK(g, s1, a)
  <2>1. ASSUME NEW c \in dirs, NEW a \in InChain(f, c)  PROVE TableOK(g, s1, a)
    <3>1. TableOK(f, s, a) /\ s1[a] = s[a]
      BY <1>1, <1>7
    <3>2. CASE a = cur
      <4>1. \A i \in 1..Slots : s[a][i] # End
        BY <3>2, EntriesAre
      <4>. QED
        BY <3>1, <4>1 DEF TableOK
    <3>3. CASE a # cur
      <4>1. g[a] = f[a]
        BY <1>1, <1>4, <3>3
      <4>. QED
        BY <3>1, <4>1 DEF TableOK
    <3>. QED
      BY <3>2, <3>3
  <2>2. TableOK(g, s1, new)
    <3>1. \A i \in 1..Slots : \A j \in i..Slots : j \in 1..Slots
      BY Consts
    <3>. QED
      BY <1>4, <1>6, <3>1, ZeroIs DEF TableOK
  <2>3. \A c \in dirs : \A a \in InChain(g, c) : a \in InChain(f, c) \/ a = new
    BY <1>1, <1>4
  <2>. QED
    BY <2>1, <2>2, <2>3
<1>10. Reachable(g, s1, dirs)
  <2>1. ASSUME NEW set \in SUBSET dirs, Root \in set,
               \A c \in set : \A q \in Ents(g, s1, c) : Ent(s1, q).attr = "dir" => Ent(s1, q).first \in set
        PROVE  set = dirs
    <3>1. \A c \in set : \A q \in Ents(f, s, c) : Ent(s, q).attr = "dir" => Ent(s, q).first \in set
      BY <1>8, <2>1
    <3>. QED
      BY <1>2, <2>1, <3>1 DEF Reachable
  <2>. QED
    BY <2>1 DEF Reachable
<1>11. DirsOK(g, s1, dirs)
  <2>2. \A c \in dirs : \A q \in Ents(g, s1, c) :
          Ent(s1, q).first # Root /\ (Ent(s1, q).attr = "dir" => Ent(s1, q).first \in dirs)
    BY <1>2, <1>8
  <2>3. \A b, c \in dirs : \A q \in Ents(g, s1, b), r \in Ents(g, s1, c) :
          Ent(s1, q).first = Ent(s1, r).first => q = r /\ b = c
    BY <1>2, <1>8
  <2>4. \A c \in dirs : \A q, r \in Ents(g, s1, c) : Ent(s1, q).name = Ent(s1, r).name => q = r
    BY <1>2, <1>8
  <2>. QED
    BY <1>1, <1>6, <1>9, <1>10, <2>2, <2>3, <2>4 DEF DirsOK
<1>12. Heads(g, s1, dirs) = heads
  BY <1>8 DEF Heads, heads
<1>13. SizesOK(g, s1, dirs)
  <2>1. ASSUME NEW c \in dirs, NEW q \in Ents(g, s1, c), Ent(s1, q).attr = "file"
        PROVE  Len(Chain(g, Ent(s1, q).first)) = (IF Ent(s1, q).size = 0 THEN 1 ELSE Ent(s1, q).size)
    <3>1. q \in Ents(f, s, c) /\ Ent(s1, q) = Ent(s, q)
      BY <1>8
    <3>2. Ent(s, q).first \notin dirs
      BY <2>1, <3>1, FileHead
    <3>3. Chain(g, Ent(s, q).first) = Chain(f, Ent(s, q).first)
      BY <1>1, <1>4, <3>1, <3>2
    <3>. QED
      BY <2>1, <3>1, <3>3 DEF Vol, SizesOK
  <2>. QED
    BY <2>1 DEF SizesOK
<1>14. Vol(g, s1, dirs, pend)
  BY <1>4, <1>11, <1>12, <1>13 DEF Vol
<1>15. ASSUME NEW w, PathOK(f, s, dirs, w)  PROVE PathOK(g, s1, dirs, w)
  <2>1. \A b, c \in dirs : Child(f, s, b, c) => Child(g, s1, b, c)
    BY <1>8 DEF Child
  <2>. QED
    BY <1>15, <2>1, PathMoved
<1>16. new \in InChain(g, d) /\ \A p \in Ents(g, s1, d) : p \in Ents(f, s, d) /\ Ent(s1, p) = Ent(s, p)
  BY <1>4, <1>8
<1>17. \A c \in dirs : Ents(g, s1, c) = Ents(f, s, c) /\ \A q \in Ents(f, s, c) : Ent(s1, q) = Ent(s, q)
  BY <1>8
<1>. QED
  BY <1>4, <1>5, <1>14, <1>15, <1>16, <1>17 DEF g, s1, Longer

\* One sector is written.
OnlyAt(s, s1, new) == DOMAIN s1 = Clusters /\ \A a \in Clusters : a # new => s1[a] = s[a]

\* The entries and the paths are what they were, and one cluster less is free.
Taken(f, s, g, s1, dirs, new) ==
  /\ \A d \in dirs : Ents(g, s1, d) = Ents(f, s, d) /\ Places(g, d) = Places(f, d)
  /\ \A d \in dirs : \A p \in Places(f, d) : Ent(s1, p) = Ent(s, p) /\ p[1] # new
  /\ \A w : PathOK(f, s, dirs, w) => PathOK(g, s1, dirs, w)
  /\ Cardinality(FreeClusters(g)) = Cardinality(FreeClusters(f)) - 1

\* The call takes a cluster and writes what it likes to it.
LEMMA ClusterTaken ==
  ASSUME NEW f, NEW s, NEW dirs, NEW pend, Vol(f, s, dirs, pend), NEW x, NEW prev, NEW n,
         Run(f, pend, x, prev, n), NEW new \in Clusters, f[new] = Free,
         NEW s1, OnlyAt(s, s1, new)
  PROVE  LET g == Linked(f, new, prev)
         IN  /\ Vol(g, s1, dirs, pend \cup {new})
             /\ Run(g, pend \cup {new}, IF n = 0 THEN new ELSE x, new, n + 1)
             /\ Taken(f, s, g, s1, dirs, new)
<1>. DEFINE g == Linked(f, new, prev)
            heads == Heads(f, s, dirs)
<1>1. ChainsOK(f, heads, pend)
  BY DEF Vol
<1>2. /\ ChainsOK(g, heads, pend \cup {new})
      /\ Run(g, pend \cup {new}, IF n = 0 THEN new ELSE x, new, n + 1)
      /\ \A y \in heads : /\ Chain(g, y) = Chain(f, y) /\ InChain(g, y) = InChain(f, y)
                          /\ \A a \in InChain(f, y) : g[a] = f[a]
      /\ Cardinality(FreeClusters(g)) = Cardinality(FreeClusters(f)) - 1
  BY <1>1, RunGrown
<1>. DOMAIN s1 = Clusters /\ \A a \in Clusters : a # new => s1[a] = s[a]
  BY DEF OnlyAt
<1>3. \A y \in heads : new \notin InChain(f, y)
  BY <1>1, NotFree
<1>4. \A d \in dirs : d \in heads /\ InChain(f, d) \subseteq Clusters
  BY DirFacts
<1>5. \A d \in dirs : \A a \in InChain(f, d) : s1[a] = s[a]
  BY <1>3, <1>4
<1>6. ASSUME NEW d \in dirs, NEW p \in Places(f, d)  PROVE p[1] # new
  <2>1. p[1] \in InChain(f, d)
    BY EntIn
  <2>. QED
    BY <1>3, <1>4, <2>1
<1>. HIDE DEF g
<1>7. ASSUME NEW pend1, ChainsOK(g, Heads(f, s, dirs), pend1)
      PROVE  /\ Vol(g, s1, dirs, pend1)
             /\ \A d \in dirs : Ents(g, s1, d) = Ents(f, s, d) /\ Places(g, d) = Places(f, d)
             /\ \A d \in dirs : \A p \in Places(f, d) : Ent(s1, p) = Ent(s, p)
             /\ \A w : PathOK(f, s, dirs, w) => PathOK(g, s1, dirs, w)
  <2>1. \A y \in Heads(f, s, dirs) : /\ Chain(g, y) = Chain(f, y) /\ InChain(g, y) = InChain(f, y)
                                     /\ \A a \in InChain(f, y) : g[a] = f[a]
    BY <1>2
  <2>2. DOMAIN s1 = Clusters
    OBVIOUS
  <2>. QED
    BY <1>5, <1>7, <2>1, <2>2, Framed
<1>8. ChainsOK(g, Heads(f, s, dirs), pend \cup {new})
  BY <1>2
<1>. QED
  BY <1>2, <1>6, <1>7, <1>8 DEF g, Taken

\* The call writes to a cluster that it has already.
LEMMA ClusterWritten ==
  ASSUME NEW f, NEW s, NEW dirs, NEW pend, Vol(f, s, dirs, pend), NEW a \in pend, NEW t
  PROVE  LET s1 == [s EXCEPT ![a] = t]
         IN  /\ Vol(f, s1, dirs, pend) /\ DOMAIN s1 = Clusters /\ s1[a] = t /\ a \in Clusters
             /\ \A d \in dirs : Ents(f, s1, d) = Ents(f, s, d) /\ a \notin InChain(f, d)
             /\ \A d \in dirs : \A p \in Places(f, d) : Ent(s1, p) = Ent(s, p)
             /\ \A w : PathOK(f, s, dirs, w) => PathOK(f, s1, dirs, w)
<1>. DEFINE s1 == [s EXCEPT ![a] = t]
<1>1. DOMAIN s = Clusters /\ pend \subseteq Clusters /\ dirs \subseteq Heads(f, s, dirs)
  BY DirFacts
<1>2. DOMAIN s1 = Clusters /\ s1[a] = t /\ \A b \in Clusters : b # a => s1[b] = s[b]
  BY <1>1
<1>3. ChainsOK(f, Heads(f, s, dirs), pend)
  BY DEF Vol
<1>4. \A d \in dirs : a \notin InChain(f, d)
  BY <1>1, <1>3 DEF ChainsOK
<1>5. \A d \in dirs : \A b \in InChain(f, d) : s1[b] = s[b]
  BY <1>2, <1>4, DirFacts
<1>. HIDE DEF s1
<1>6. /\ Vol(f, s1, dirs, pend)
      /\ \A d \in dirs : Ents(f, s1, d) = Ents(f, s, d)
      /\ \A d \in dirs : \A p \in Places(f, d) : Ent(s1, p) = Ent(s, p)
      /\ \A w : PathOK(f, s, dirs, w) => PathOK(f, s1, dirs, w)
  <2>1. DOMAIN s1 = Clusters
    BY <1>2
  <2>2. PICK g : g = f
    OBVIOUS
  <2>3. /\ \A x \in Heads(f, s, dirs) : /\ Chain(g, x) = Chain(f, x) /\ InChain(g, x) = InChain(f, x)
                                        /\ \A b \in InChain(f, x) : g[b] = f[b]
        /\ ChainsOK(g, Heads(f, s, dirs), pend)
    BY <1>3, <2>2
  <2>4. /\ Vol(g, s1, dirs, pend)
        /\ \A d \in dirs : Ents(g, s1, d) = Ents(f, s, d)
        /\ \A d \in dirs : \A p \in Places(f, d) : Ent(s1, p) = Ent(s, p)
        /\ \A w : PathOK(f, s, dirs, w) => PathOK(g, s1, dirs, w)
    BY <1>5, <2>1, <2>3, Framed, SMTT(30)
  <2>. QED
    BY <2>2, <2>4
<1>. QED
  BY <1>1, <1>2, <1>4, <1>6 DEF s1
-----------------------------------------------------------------------------
(***************************************************************************)
(* Steps.  Without events nobody makes a step while another call is in     *)
(* progress.                                                               *)
(***************************************************************************)
Volatile == <<fat, disk_fat, sector, cwd>>

LEMMA Alone ==
  ASSUME Events = {}, NEW c \in Callers, MayRun(c)
  PROVE  \A d \in Callers \ {c} : op[d].pc = "idle"
BY DEF MayRun

\* The call in progress goes on.
LEMMA GoesOn ==
  ASSUME FatInv, Events = {}, NEW c \in Callers, MayRun(c), op[c].pc # "idle",
         NEW at, DOMAIN at \subseteq Fields, Goto(c, at)
  PROVE  /\ Phase(op[c]) /\ tree' = tree /\ DOMAIN op' = Callers /\ DOMAIN op'[c] = Fields
         /\ \A d \in Callers \ {c} : op'[d].pc = "idle"
         /\ \A x \in DOMAIN at : op'[c][x] = at[x]
         /\ \A x \in Fields \ DOMAIN at : op'[c][x] = op[c][x]
<1>1. DOMAIN op = Callers /\ DOMAIN op[c] = Fields /\ Phase(op[c])
  BY DEF FatInv
<1>2. \A d \in Callers \ {c} : op[d].pc = "idle"
  BY Alone
<1>. QED
  BY <1>1, <1>2, GotoIs

LEMMA StillInv ==
  ASSUME NEW c \in Callers, fat' \in Fats, disk_fat' \in [1..2 -> Fats], DOMAIN op' = Callers,
         \A d \in Callers \ {c} : op'[d].pc = "idle", op'[c].pc # "idle", DOMAIN op'[c] = Fields,
         Phase(op[c])', (cwd.cluster \in DOMAIN tree)'
  PROVE  FatInv'
<1>1. ~Quiet'
  BY DEF Quiet
<1>2. \A b, d \in Callers : b = d \/ op'[b].pc = "idle" \/ op'[d].pc = "idle"
  OBVIOUS
<1>3. \A d \in Callers : op'[d].pc = "idle" \/ (DOMAIN op'[d] = Fields /\ Phase(op[d])')
  OBVIOUS
<1>. QED
  BY <1>1, <1>2, <1>3 DEF FatInv

\* The call in progress returns.
LEMMA Returned ==
  ASSUME FatInv, Events = {}, NEW c \in Callers, MayRun(c), NEW ok, Return(c, ok),
         NEW dirs, Vol(fat', sector', dirs, {}), PathOK(fat', sector', dirs, cwd'), Mirrored'
  PROVE  FatInv'
<1>1. DOMAIN op = Callers
  BY DEF FatInv
<1>2. \A d \in Callers \ {c} : op[d].pc = "idle"
  BY Alone
<1>3. DOMAIN op' = Callers /\ \A d \in Callers : op'[d].pc = "idle"
  BY <1>1, <1>2 DEF Return, Idle
<1>4. tree' = TreeOf(fat', sector') /\ DOMAIN tree' = dirs
  BY TreeIs DEF Return
<1>5. fat' \in Fats /\ cwd'.cluster \in dirs
  BY DirFacts DEF PathOK
<1>6. disk_fat' \in [1..2 -> Fats]
  BY <1>5 DEF Mirrored
<1>7. Untouched'
  BY <1>4 DEF Untouched, Sound
<1>. QED
  BY <1>3, <1>4, <1>5, <1>6, <1>7 DEF FatInv

LEMMA UntouchedIs ==
  ASSUME Untouched
  PROVE  /\ Vol(fat, sector, DOMAIN tree, {}) /\ PathOK(fat, sector, DOMAIN tree, cwd) /\ Mirrored
         /\ tree = TreeOf(fat, sector) /\ cwd.cluster \in DOMAIN tree
         /\ Chained(fat, cwd.cluster)
         /\ \A a \in InChain(fat, cwd.cluster) :
              TableOK(fat, sector, a) /\ sector[a] \in [1..Slots -> Entry] /\ IsTable(sector[a])
<1>1. /\ Vol(fat, sector, DOMAIN tree, {}) /\ PathOK(fat, sector, DOMAIN tree, cwd) /\ Mirrored
      /\ tree = TreeOf(fat, sector) /\ cwd.cluster \in DOMAIN tree
  BY DEF Untouched, Sound, PathOK
<1>2. /\ Chained(fat, cwd.cluster)
      /\ \A a \in InChain(fat, cwd.cluster) : TableOK(fat, sector, a) /\ sector[a] \in [1..Slots -> Entry]
  BY <1>1, DirFacts
<1>3. \A a \in InChain(fat, cwd.cluster) : IsTable(sector[a])
  BY <1>2, EntriesAre, Consts DEF IsTable
<1>. QED
  BY <1>1, <1>2, <1>3

LEMMA UntouchedStays ==
  ASSUME Untouched, UNCHANGED Volatile, tree' = tree
  PROVE  Untouched'
BY DEF Untouched, Volatile, Sound, Mirrored

LEMMA ReturnedUnchanged ==
  ASSUME FatInv, Events = {}, NEW c \in Callers, MayRun(c), NEW ok, Return(c, ok), Untouched,
         UNCHANGED Volatile
  PROVE  FatInv'
<1>1. Vol(fat', sector', DOMAIN tree, {}) /\ PathOK(fat', sector', DOMAIN tree, cwd') /\ Mirrored'
  BY UntouchedIs DEF Volatile, Mirrored
<1>. QED
  BY <1>1, Returned

\* A step that changes no sector, and the call goes on.
LEMMA OnUnchanged ==
  ASSUME FatInv, Events = {}, NEW c \in Callers, MayRun(c), op[c].pc # "idle",
         NEW at, DOMAIN at \subseteq Fields, Goto(c, at), UNCHANGED Volatile,
         op'[c].pc # "idle", Phase(op[c])'
  PROVE  FatInv'
<1>1. /\ tree' = tree /\ DOMAIN op' = Callers /\ DOMAIN op'[c] = Fields
      /\ \A d \in Callers \ {c} : op'[d].pc = "idle"
  BY GoesOn
<1>2. /\ fat' \in Fats /\ disk_fat' \in [1..2 -> Fats] /\ (cwd.cluster \in DOMAIN tree)'
  BY <1>1 DEF FatInv, Volatile
<1>. QED
  BY <1>1, <1>2, StillInv
-----------------------------------------------------------------------------
(***************************************************************************)
(* The calls that only read.                                               *)
(***************************************************************************)
LEMMA FieldsAre ==
  Fields = {"cur", "idx", "first", "prev", "size", "step", "exists", "then", "got",
            "kind", "name", "arg", "dir", "pc"}
BY DEF Fields, Blank

LEMMA ReadBlockKeeps ==
  ASSUME FatInv, Events = {}, NEW c \in Callers, ReadBlock(c)  PROVE FatInv'
<1>1. op[c].pc = "read" /\ MayRun(c) /\ UNCHANGED Volatile
  BY DEF ReadBlock, At, Volatile
<1>2. PICK at : /\ DOMAIN at \subseteq {"got", "size", "cur"} /\ Goto(c, at)
  <2>1. CASE Len(op[c].got) < op[c].arg
    <3>. DEFINE at == [got |-> Append(op[c].got, sector[op[c].cur]),
                       size |-> op[c].size - 1, cur |-> fat[op[c].cur]]
    <3>1. Goto(c, at) /\ DOMAIN at = {"got", "size", "cur"}
      BY <2>1 DEF ReadBlock
    <3>. HIDE DEF at
    <3>. QED
      BY <3>1
  <2>2. CASE ~(Len(op[c].got) < op[c].arg)
    <3>. DEFINE at == [cur |-> fat[op[c].cur]]
    <3>1. Goto(c, at) /\ DOMAIN at = {"cur"}
      BY <2>2 DEF ReadBlock
    <3>. HIDE DEF at
    <3>. QED
      BY <3>1
  <2>. QED
    BY <2>1, <2>2
<1>3. DOMAIN at \subseteq Fields /\ "pc" \in Fields \ DOMAIN at
  BY <1>2, FieldsAre
<1>4. Phase(op[c]) /\ tree' = tree /\ op'[c].pc = "read"
  BY <1>1, <1>2, <1>3, GoesOn
<1>5. Untouched'
  BY <1>1, <1>4, UntouchedStays DEF Phase
<1>6. Phase(op[c])'
  BY <1>4, <1>5 DEF Phase
<1>. QED
  BY <1>1, <1>2, <1>3, <1>4, <1>6, OnUnchanged

LEMMA ReadEndKeeps ==
  ASSUME FatInv, Events = {}, NEW c \in Callers, ReadEnd(c)  PROVE FatInv'
<1>1. op[c].pc = "read" /\ MayRun(c) /\ UNCHANGED Volatile /\ Return(c, TRUE)
  BY DEF ReadEnd, At, Volatile
<1>2. Untouched
  BY <1>1 DEF FatInv, Phase
<1>. QED
  BY <1>1, <1>2, ReturnedUnchanged

LEMMA ListSectorKeeps ==
  ASSUME FatInv, Events = {}, NEW c \in Callers, ListSector(c)  PROVE FatInv'
<1>1. op[c].pc = "list" /\ MayRun(c) /\ UNCHANGED Volatile
  BY DEF ListSector, At, Volatile
<1>2. PICK got, cur : Goto(c, [got |-> got, cur |-> cur])
  BY DEF ListSector
<1>. DEFINE at == [got |-> got, cur |-> cur]
<1>3. DOMAIN at \subseteq Fields /\ "pc" \in Fields \ DOMAIN at /\ Goto(c, at)
  BY <1>2, FieldsAre
<1>. HIDE DEF at
<1>4. Phase(op[c]) /\ tree' = tree /\ op'[c].pc = "list"
  BY <1>1, <1>3, GoesOn
<1>5. Untouched'
  BY <1>1, <1>4, UntouchedStays DEF Phase
<1>6. Phase(op[c])'
  BY <1>4, <1>5 DEF Phase
<1>. QED
  BY <1>1, <1>3, <1>4, <1>6, OnUnchanged

LEMMA ListEndKeeps ==
  ASSUME FatInv, Events = {}, NEW c \in Callers, ListEnd(c)  PROVE FatInv'
<1>1. op[c].pc = "list" /\ MayRun(c) /\ UNCHANGED Volatile /\ Return(c, TRUE)
  BY DEF ListEnd, At, Volatile
<1>2. Untouched
  BY <1>1 DEF FatInv, Phase
<1>. QED
  BY <1>1, <1>2, ReturnedUnchanged

\* What a call finds where its search ended.
LEMMA EntryFacts ==
  ASSUME FatInv, NEW c \in Callers, op[c].pc = "entry"
  PROVE  /\ Untouched /\ Asked(op[c]) /\ Hit(op[c]) /\ op[c].kind # "mkdir"
         /\ Found(c) = Ent(sector, At2(op[c])) /\ Found(c).attr \in {"file", "dir"}
         /\ Found(c).first \in Clusters /\ Found(c).name = op[c].name
         /\ At2(op[c]) \in Places(fat, cwd.cluster) /\ Live(Found(c))
<1>1. Untouched /\ Asked(op[c]) /\ Hit(op[c]) /\ op[c].kind # "mkdir"
  BY DEF FatInv, Phase
<1>2. Found(c) = Ent(sector, At2(op[c]))
  BY DEF Found, Ent, At2
<1>3. Vol(fat, sector, DOMAIN tree, {}) /\ cwd.cluster \in DOMAIN tree
  BY <1>1, UntouchedIs
<1>4. At2(op[c]) \in Ents(fat, sector, cwd.cluster) /\ Ent(sector, At2(op[c])).name = op[c].name
  BY <1>1 DEF Hit
<1>. QED
  BY <1>1, <1>2, <1>3, <1>4, DirFacts

LEMMA WrongKindKeeps ==
  ASSUME FatInv, Events = {}, NEW c \in Callers, WrongKind(c)  PROVE FatInv'
<1>1. op[c].pc = "entry" /\ MayRun(c) /\ UNCHANGED Volatile /\ Return(c, FALSE)
  BY DEF WrongKind, ReadEntry, At, Volatile
<1>. QED
  BY <1>1, EntryFacts, ReturnedUnchanged

LEMMA OpenFileKeeps ==
  ASSUME FatInv, Events = {}, NEW c \in Callers, OpenFile(c)  PROVE FatInv'
<1>1. op[c].pc = "entry" /\ MayRun(c) /\ UNCHANGED Volatile
  BY DEF OpenFile, ReadEntry, At, Volatile
<1>. DEFINE at == [pc |-> "read", cur |-> Found(c).first, size |-> Found(c).size]
<1>2. DOMAIN at \subseteq Fields /\ "pc" \in DOMAIN at /\ Goto(c, at) /\ at["pc"] = "read"
  BY FieldsAre DEF OpenFile
<1>. HIDE DEF at
<1>3. Phase(op[c]) /\ tree' = tree /\ op'[c]["pc"] = "read"
  BY <1>1, <1>2, GoesOn
<1>4. Untouched'
  BY <1>1, <1>3, EntryFacts, UntouchedStays
<1>5. Phase(op[c])'
  BY <1>3, <1>4 DEF Phase
<1>. QED
  BY <1>1, <1>2, <1>3, <1>5, OnUnchanged

LEMMA RenameFoundKeeps ==
  ASSUME FatInv, Events = {}, NEW c \in Callers, RenameFound(c)  PROVE FatInv'
<1>1. /\ op[c].pc = "entry" /\ MayRun(c) /\ UNCHANGED Volatile /\ op[c].kind = "rename"
      /\ g_io_buf' = sector[op[c].cur]
  BY DEF RenameFound, ReadEntry, At, Volatile
<1>. DEFINE at == [pc |-> "commit"]
<1>2. DOMAIN at = {"pc"} /\ Goto(c, at) /\ at["pc"] = "commit"
  BY DEF RenameFound
<1>. HIDE DEF at
<1>3. DOMAIN at \subseteq Fields
  BY <1>2, FieldsAre
<1>4. Phase(op[c]) /\ tree' = tree /\ op'[c]["pc"] = "commit"
  BY <1>1, <1>2, <1>3, GoesOn
<1>5. \A x \in Fields \ {"pc"} : op'[c][x] = op[c][x]
  BY <1>1, <1>2, <1>3, GoesOn
<1>6. /\ op'[c]["cur"] = op[c]["cur"] /\ op'[c]["idx"] = op[c]["idx"] /\ op'[c]["kind"] = op[c]["kind"]
      /\ op'[c]["name"] = op[c]["name"] /\ op'[c]["arg"] = op[c]["arg"] /\ op'[c]["dir"] = op[c]["dir"]
  BY <1>5, FieldsAre
<1>7. Untouched'
  BY <1>1, <1>4, EntryFacts, UntouchedStays
<1>8. Asked(op[c])'
  BY <1>1, <1>6, EntryFacts DEF Asked, NotIn, Volatile
<1>9. Hit(op[c])'
  BY <1>1, <1>6, EntryFacts DEF Hit, At2, Volatile
<1>10. InCommit(op[c])'
  BY <1>1, <1>6, <1>7, <1>8, <1>9 DEF InCommit, Volatile
<1>11. Phase(op[c])'
  BY <1>4, <1>10 DEF Phase
<1>. QED
  BY <1>1, <1>2, <1>3, <1>4, <1>11, OnUnchanged
-----------------------------------------------------------------------------
(***************************************************************************)
(* fat32_find_entry.                                                       *)
(***************************************************************************)
LEMMA AskedStays ==
  ASSUME NEW c \in Callers, Asked(op[c]), UNCHANGED Volatile,
         \A x \in Fields \ {"pc", "cur", "idx"} : op'[c][x] = op[c][x],
         op[c].kind = "mkdir" => op'[c].idx = op[c].idx
  PROVE  Asked(op[c])'
<1>1. /\ op'[c]["kind"] = op[c]["kind"] /\ op'[c]["name"] = op[c]["name"] /\ op'[c]["arg"] = op[c]["arg"]
      /\ op'[c]["dir"] = op[c]["dir"] /\ op'[c]["exists"] = op[c]["exists"]
      /\ op'[c]["first"] = op[c]["first"] /\ op'[c]["prev"] = op[c]["prev"]
      /\ op'[c]["step"] = op[c]["step"]
  BY FieldsAre
<1>2. \A n : Roomy(op[c], n) => Roomy(op[c], n)'
  BY <1>1 DEF Roomy, Spare, NotIn, Volatile
<1>3. \A n : NotIn(sector, op[c].dir, n) => NotIn(sector, op[c].dir, n)'
  BY <1>1 DEF NotIn, Volatile
<1>4. fat' = fat /\ sector' = sector /\ cwd' = cwd
  BY DEF Volatile
<1>. QED
  BY <1>1, <1>2, <1>3, <1>4 DEF Asked

\* The names of the sector at hand, and those that the search has still to meet.
LEMMA SearchFacts ==
  ASSUME FatInv, NEW c \in Callers, op[c].pc = "find"
  PROVE  LET s    == sector[op[c].cur]
             ends == Hits(s, {"end"})
             hits == {i \in Hits(s, {"file", "dir"}) :
                        s[i].name = op[c].name /\ \A j \in ends : i < j}
             next == fat[op[c].cur]
             met  == {p \in Ents(fat, sector, cwd.cluster) : Ent(sector, p).name = op[c].name}
         IN  /\ Untouched /\ Asked(op[c]) /\ Searching(op[c]) /\ hits \in SUBSET Nat
             /\ \A i \in hits : <<op[c].cur, i>> \in met
             /\ hits = {} => \A p \in met : p[1] # op[c].cur
             /\ hits = {} /\ (ends # {} \/ next \notin Clusters) => met = {}
             /\ hits = {} /\ next \in Clusters =>
                  \E k \in 1..Len(Chain(fat, cwd.cluster)) :
                    /\ next = Chain(fat, cwd.cluster)[k]
                    /\ \A p \in met : \A m \in 1..k - 1 : Chain(fat, cwd.cluster)[m] # p[1]
<1>. DEFINE s    == sector[op[c].cur]
            ends == Hits(s, {"end"})
            hits == {i \in Hits(s, {"file", "dir"}) :
                       s[i].name = op[c].name /\ \A j \in ends : i < j}
            next == fat[op[c].cur]
            ch   == Chain(fat, cwd.cluster)
            met  == {p \in Ents(fat, sector, cwd.cluster) : Ent(sector, p).name = op[c].name}
<1>1. Untouched /\ Asked(op[c]) /\ Searching(op[c])
  BY DEF FatInv, Phase
<1>2. /\ Chained(fat, cwd.cluster)
      /\ \A a \in InChain(fat, cwd.cluster) :
           TableOK(fat, sector, a) /\ sector[a] \in [1..Slots -> Entry]
  BY <1>1, UntouchedIs
<1>3. PICK k \in 1..Len(ch) :
        /\ op[c].cur = ch[k]
        /\ \A p \in met : \A m \in 1..k - 1 : ch[m] # p[1]
  BY <1>1 DEF Searching
<1>4. /\ Len(ch) \in Nat /\ \A m \in 1..Len(ch) : ch[m] \in InChain(fat, cwd.cluster)
      /\ InChain(fat, cwd.cluster) = {ch[m] : m \in 1..Len(ch)}
      /\ \A m \in 1..Len(ch) - 1 : fat[ch[m]] = ch[m + 1] /\ m + 1 \in 1..Len(ch)
      /\ fat[ch[Len(ch)]] = EOC
      /\ \A m \in 1..Len(ch) : ch[m] \in Clusters
  <2>1. Chained(fat, cwd.cluster)
    BY <1>2
  <2>2. Len(ch) \in Nat /\ \A m \in 1..Len(ch) : ch[m] \in InChain(fat, cwd.cluster) /\ ch[m] \in Clusters
    BY <2>1, ChainFacts
  <2>3. InChain(fat, cwd.cluster) = {ch[m] : m \in 1..Len(ch)} /\ fat[ch[Len(ch)]] = EOC
    BY <2>1, ChainFacts
  <2>4. \A m \in 1..Len(ch) - 1 : fat[ch[m]] = ch[m + 1] /\ m + 1 \in 1..Len(ch)
    BY <2>1, ChainFacts
  <2>. QED
    BY <2>2, <2>3, <2>4
<1>5. op[c].cur \in InChain(fat, cwd.cluster) /\ TableOK(fat, sector, op[c].cur) /\ s \in [1..Slots -> Entry]
  BY <1>2, <1>3, <1>4
<1>6. op[c].name \in Names /\ op[c].name \notin Dots
  BY <1>1, Consts DEF Asked
<1>7. hits \in SUBSET Nat /\ \A i \in hits : <<op[c].cur, i>> \in met
  <2>1. \A i \in hits : i \in 1..Slots /\ Live(s[i]) /\ s[i].name = op[c].name /\ i \in Nat
    BY DEF Hits, Live
  <2>2. \A i \in hits : Ent(sector, <<op[c].cur, i>>) = s[i] /\ <<op[c].cur, i>> \in Places(fat, cwd.cluster)
    BY <1>5, <2>1 DEF Ent, Places
  <2>3. \A i \in hits : <<op[c].cur, i>> \in Ents(fat, sector, cwd.cluster)
    BY <1>6, <2>1, <2>2, EntIn
  <2>. QED
    BY <2>1, <2>2, <2>3
<1>8. ASSUME NEW p \in met, p[1] = op[c].cur  PROVE p[2] \in hits
  <2>1. p[2] \in 1..Slots /\ Live(s[p[2]]) /\ s[p[2]].name = op[c].name /\ p[2] \in Nat
    BY <1>8, EntIn DEF Ent
  <2>2. ASSUME NEW j \in ends  PROVE p[2] < j
    <3>1. j \in 1..Slots /\ ~Live(s[j]) /\ s[j].attr = "end" /\ j \in Nat
      BY <2>2 DEF Hits, Live
    <3>2. s[j] = End
      <4>1. s[j] \in Entry
        BY <1>5, <3>1
      <4>2. Deleted.attr # "end"
        BY DEF Deleted
      <4>. QED
        BY <3>1, <4>1, <4>2, EntriesAre
    <3>3. \A i \in j..Slots : s[i] = End
      BY <1>5, <3>1, <3>2 DEF TableOK
    <3>4. p[2] \notin j..Slots
      BY <2>1, <3>3, EntriesAre
    <3>. QED
      BY <2>1, <3>1, <3>4, Consts
  <2>. QED
    BY <2>1, <2>2 DEF Hits, Live
<1>9. hits = {} => \A p \in met : p[1] # op[c].cur
  BY <1>8
<1>10. ends # {} => next = EOC
  <2>1. ASSUME NEW j \in ends  PROVE next = EOC
    <3>1. j \in 1..Slots /\ ~Live(s[j]) /\ s[j].attr = "end"
      BY <2>1 DEF Hits, Live
    <3>2. s[j] = End
      <4>1. s[j] \in Entry
        BY <1>5, <3>1
      <4>2. Deleted.attr # "end"
        BY DEF Deleted
      <4>. QED
        BY <3>1, <4>1, <4>2, EntriesAre
    <3>. QED
      BY <1>5, <3>1, <3>2 DEF TableOK
  <2>. QED
    BY <2>1
<1>11. ASSUME hits = {}, NEW p \in met  PROVE next \in Clusters /\ ends = {} /\ \E m \in k + 1..Len(ch) : p[1] = ch[m]
  <2>1. p[1] \in InChain(fat, cwd.cluster)
    BY EntIn
  <2>2. PICK m \in 1..Len(ch) : p[1] = ch[m]
    <3>1. InChain(fat, cwd.cluster) = {ch[m] : m \in 1..Len(ch)}
      BY <1>4
    <3>. QED
      BY <2>1, <3>1
  <2>3. m \notin 1..k - 1 /\ m # k
    BY <1>3, <1>9, <1>11, <2>2
  <2>4. m \in k + 1..Len(ch) /\ k \in 1..Len(ch) - 1
    BY <1>4, <2>3
  <2>5. next \in Clusters
    BY <1>3, <1>4, <2>4
  <2>. QED
    BY <1>10, <2>2, <2>4, <2>5, Marks
<1>12. hits = {} /\ (ends # {} \/ next \notin Clusters) => met = {}
  BY <1>11
<1>13. ASSUME hits = {}, next \in Clusters
       PROVE  \E i \in 1..Len(ch) : next = ch[i] /\ \A p \in met : \A m \in 1..i - 1 : ch[m] # p[1]
  <2>1. k # Len(ch)
    BY <1>3, <1>4, <1>13, Marks
  <2>2. k \in 1..Len(ch) - 1 /\ k + 1 \in 1..Len(ch) /\ next = ch[k + 1]
    BY <1>3, <1>4, <2>1
  <2>3. \A m \in 1..(k + 1) - 1 : m \in 1..k - 1 \/ m = k
    OBVIOUS
  <2>4. \A p \in met : \A m \in 1..(k + 1) - 1 : ch[m] # p[1]
    BY <1>3, <1>9, <1>13, <2>3
  <2>. QED
    BY <2>2, <2>4
<1>. HIDE DEF hits, met, ends, next, s, ch
<1>14. /\ Untouched /\ Asked(op[c]) /\ Searching(op[c]) /\ hits \in SUBSET Nat
       /\ \A i \in hits : <<op[c].cur, i>> \in met
       /\ hits = {} => \A p \in met : p[1] # op[c].cur
       /\ hits = {} /\ (ends # {} \/ next \notin Clusters) => met = {}
       /\ hits = {} /\ next \in Clusters =>
            \E k1 \in 1..Len(ch) :
              next = ch[k1] /\ \A p \in met : \A m \in 1..k1 - 1 : ch[m] # p[1]
  BY <1>1, <1>7, <1>9, <1>12, <1>13
<1>. QED
  BY <1>14 DEF hits, met, ends, next, s, ch

LEMMA NeededIs ==
  ASSUME NEW data \in Contents
  PROVE  Needed(data) \in Nat /\ Needed(data) >= 1 /\ Len(data) \in Nat
         /\ Needed(data) = (IF Len(data) = 0 THEN 1 ELSE Len(data))
<1>1. data \in Seq(Blocks)
  BY Consts
<1>2. Len(data) \in Nat
  BY <1>1
<1>. QED
  BY <1>2 DEF Needed
LEMMA NotFoundKeeps ==
  ASSUME FatInv, Events = {}, NEW c \in Callers, op[c].pc = "find", MayRun(c), UNCHANGED Volatile,
         NotFound(c), Untouched, Asked(op[c]), NotIn(sector, cwd.cluster, op[c].name)
  PROVE  FatInv'
<1>1. CASE op[c].kind = "write"
  <2>. DEFINE at == [pc |-> "data"]
  <2>1. DOMAIN at = {"pc"} /\ Goto(c, at) /\ at["pc"] = "data"
    BY <1>1 DEF NotFound
  <2>. HIDE DEF at
  <2>2. DOMAIN at \subseteq Fields
    BY <2>1, FieldsAre
  <2>3. Phase(op[c]) /\ tree' = tree /\ op'[c]["pc"] = "data"
    BY <2>1, <2>2, GoesOn
  <2>4. \A x \in Fields \ {"pc"} : op'[c][x] = op[c][x]
    BY <2>1, <2>2, GoesOn
  <2>5. /\ op'[c]["kind"] = "write" /\ op'[c]["name"] = op[c]["name"] /\ op'[c]["arg"] = op[c]["arg"]
        /\ op'[c]["dir"] = op[c]["dir"] /\ op'[c]["exists"] = op[c]["exists"]
        /\ op'[c]["first"] = op[c]["first"] /\ op'[c]["prev"] = op[c]["prev"]
        /\ op'[c]["step"] = op[c]["step"]
    BY <1>1, <2>4, FieldsAre
  <2>6. /\ op[c].arg \in Contents /\ op[c].name \in Names /\ op[c].dir = cwd.cluster /\ ~op[c].exists
        /\ op[c].first = 0 /\ op[c].prev = 0 /\ op[c].step = 0
        /\ Spare >= Needed(op[c].arg) + 1
    BY <1>1 DEF Asked, Roomy
  <2>7. Needed(op[c].arg) \in Nat /\ Needed(op[c].arg) >= 1
    BY <2>6, NeededIs
  <2>8. Area(op[c])' = sector
    BY <2>5, <2>6 DEF Area, Volatile
  <2>9. Vol(fat, sector, DOMAIN tree, {}) /\ PathOK(fat, sector, DOMAIN tree, cwd) /\ DOMAIN tree \subseteq Clusters
    BY UntouchedIs, DirFacts
  <2>10. Making(op[c], sector, {})'
    BY <2>5, <2>6, <2>9 DEF Making, Sound, NotIn, Volatile
  <2>11. Run(fat', {}, op'[c].first, op'[c].prev, op'[c].step)
    BY <2>5, <2>6 DEF Run
  <2>12. Spare' = Spare /\ sector' = sector
    BY DEF Spare, Volatile
  <2>13. Spare \in Nat
    BY FreeSet DEF Spare
  <2>14. Spare' >= Needed(op'[c].arg) - op'[c].step + 1
    BY <2>5, <2>6, <2>7, <2>12, <2>13
  <2>15. InData(op[c])'
    BY <2>5, <2>6, <2>7, <2>8, <2>10, <2>11, <2>12, <2>14 DEF InData
  <2>16. Phase(op[c])'
    BY <2>3, <2>15 DEF Phase
  <2>. QED
    BY <2>1, <2>2, <2>3, <2>16, OnUnchanged
<1>2. CASE op[c].kind = "mkdir"
  <2>. DEFINE at == [pc |-> "newdir"]
  <2>1. DOMAIN at = {"pc"} /\ Goto(c, at) /\ at["pc"] = "newdir"
    BY <1>2 DEF NotFound
  <2>. HIDE DEF at
  <2>2. DOMAIN at \subseteq Fields
    BY <2>1, FieldsAre
  <2>3. Phase(op[c]) /\ tree' = tree /\ op'[c]["pc"] = "newdir"
    BY <2>1, <2>2, GoesOn
  <2>4. \A x \in Fields \ {"pc"} : op'[c][x] = op[c][x]
    BY <2>1, <2>2, GoesOn
  <2>5. /\ op'[c]["kind"] = "mkdir" /\ op'[c]["name"] = op[c]["name"] /\ op'[c]["idx"] = op[c]["idx"]
        /\ op'[c]["dir"] = op[c]["dir"]
    BY <1>2, <2>4, FieldsAre
  <2>6. Untouched'
    BY <2>3, UntouchedStays
  <2>7. Asked(op[c])'
    BY <2>4, <2>5, AskedStays
  <2>8. op[c].dir = cwd.cluster /\ Spare >= 1 + 1
    BY <1>2 DEF Asked, Roomy
  <2>9. NotIn(sector, op[c].dir, op[c].name)' /\ Spare' = Spare
    BY <2>5, <2>8 DEF NotIn, Spare, Volatile
  <2>10. Phase(op[c])'
    BY <2>3, <2>5, <2>6, <2>7, <2>8, <2>9 DEF Phase
  <2>. QED
    BY <2>1, <2>2, <2>3, <2>10, OnUnchanged
<1>3. CASE op[c].kind \notin {"write", "mkdir"}
  <2>1. Return(c, FALSE)
    BY <1>3 DEF NotFound
  <2>. QED
    BY <2>1, ReturnedUnchanged
<1>. QED
  BY <1>1, <1>2, <1>3

LEMMA FindEntryKeeps ==
  ASSUME FatInv, Events = {}, NEW c \in Callers, FindEntry(c)  PROVE FatInv'
<1>. DEFINE s    == sector[op[c].cur]
            ends == Hits(s, {"end"})
            hits == {i \in Hits(s, {"file", "dir"}) :
                       s[i].name = op[c].name /\ \A j \in ends : i < j}
            next == fat[op[c].cur]
            met  == {p \in Ents(fat, sector, cwd.cluster) : Ent(sector, p).name = op[c].name}
<1>1. op[c].pc = "find" /\ MayRun(c) /\ UNCHANGED Volatile
  BY DEF FindEntry, At, Volatile
<1>2. \/ /\ hits # {} /\ op[c].kind # "mkdir"
         /\ Goto(c, [pc |-> "entry", idx |-> LowestIn(hits)])
      \/ /\ hits # {} /\ op[c].kind = "mkdir"
         /\ Return(c, FALSE)
      \/ /\ hits = {} /\ ends = {} /\ next \in Clusters
         /\ Goto(c, [cur |-> next])
      \/ /\ hits = {} /\ (ends # {} \/ next \notin Clusters)
         /\ NotFound(c)
  BY DEF FindEntry
<1>3. /\ Untouched /\ Asked(op[c]) /\ Searching(op[c]) /\ hits \in SUBSET Nat
      /\ \A i \in hits : <<op[c].cur, i>> \in met
      /\ hits = {} /\ (ends # {} \/ next \notin Clusters) => met = {}
      /\ hits = {} /\ next \in Clusters =>
           \E k \in 1..Len(Chain(fat, cwd.cluster)) :
             /\ next = Chain(fat, cwd.cluster)[k]
             /\ \A p \in met : \A m \in 1..k - 1 : Chain(fat, cwd.cluster)[m] # p[1]
  BY <1>1, SearchFacts
<1>. HIDE DEF s, ends, hits, next
<1>4. ASSUME hits # {}, op[c].kind # "mkdir", Goto(c, [pc |-> "entry", idx |-> LowestIn(hits)])
      PROVE  FatInv'
  <2>. DEFINE low == LowestIn(hits)
              at  == [pc |-> "entry", idx |-> low]
  <2>1. low \in hits
    BY <1>3, <1>4, LowestIs
  <2>2. DOMAIN at = {"pc", "idx"} /\ Goto(c, at) /\ at["pc"] = "entry" /\ at["idx"] = low
    BY <1>4
  <2>. HIDE DEF at, low
  <2>3. DOMAIN at \subseteq Fields
    BY <2>2, FieldsAre
  <2>4. Phase(op[c]) /\ tree' = tree /\ op'[c]["pc"] = "entry" /\ op'[c]["idx"] = low
    BY <1>1, <2>2, <2>3, GoesOn
  <2>5. \A x \in Fields \ {"pc", "idx"} : op'[c][x] = op[c][x]
    BY <1>1, <2>2, <2>3, GoesOn
  <2>6. /\ op'[c]["cur"] = op[c]["cur"] /\ op'[c]["name"] = op[c]["name"] /\ op'[c]["kind"] = op[c]["kind"]
    BY <2>5, FieldsAre
  <2>7. Untouched' /\ Asked(op[c])'
    BY <1>1, <1>3, <1>4, <2>4, <2>5, UntouchedStays, AskedStays
  <2>8. Hit(op[c])'
    BY <1>1, <1>3, <2>1, <2>4, <2>6 DEF Hit, At2, Volatile
  <2>9. Phase(op[c])'
    BY <1>4, <2>4, <2>6, <2>7, <2>8 DEF Phase
  <2>. QED
    BY <1>1, <2>2, <2>3, <2>4, <2>9, OnUnchanged
<1>5. ASSUME Return(c, FALSE)  PROVE FatInv'
  BY <1>1, <1>3, <1>5, ReturnedUnchanged
<1>6. ASSUME hits = {}, next \in Clusters, Goto(c, [cur |-> next])  PROVE FatInv'
  <2>. DEFINE at == [cur |-> next]
  <2>1. DOMAIN at = {"cur"} /\ Goto(c, at) /\ at["cur"] = next
    BY <1>6
  <2>. HIDE DEF at
  <2>2. DOMAIN at \subseteq Fields
    BY <2>1, FieldsAre
  <2>3. Phase(op[c]) /\ tree' = tree /\ op'[c]["cur"] = next
    BY <1>1, <2>1, <2>2, GoesOn
  <2>4. \A x \in Fields \ {"cur"} : op'[c][x] = op[c][x]
    BY <1>1, <2>1, <2>2, GoesOn
  <2>5. op'[c]["pc"] = "find" /\ op'[c]["name"] = op[c]["name"] /\ op'[c]["idx"] = op[c]["idx"]
    BY <1>1, <2>4, FieldsAre
  <2>6. Untouched' /\ Asked(op[c])'
    BY <1>1, <1>3, <2>3, <2>4, <2>5, UntouchedStays, AskedStays
  <2>7. PICK k \in 1..Len(Chain(fat, cwd.cluster)) :
             /\ next = Chain(fat, cwd.cluster)[k]
             /\ \A p \in met : \A m \in 1..k - 1 : Chain(fat, cwd.cluster)[m] # p[1]
    BY <1>3, <1>6
  <2>8. Searching(op[c])'
    BY <1>1, <2>3, <2>5, <2>7 DEF Searching, Volatile
  <2>9. Phase(op[c])'
    BY <2>5, <2>6, <2>8 DEF Phase
  <2>. QED
    BY <1>1, <2>1, <2>2, <2>5, <2>9, OnUnchanged
<1>7. ASSUME hits = {}, ends # {} \/ next \notin Clusters, NotFound(c)  PROVE FatInv'
  <2>1. NotIn(sector, cwd.cluster, op[c].name)
    BY <1>3, <1>7 DEF NotIn
  <2>. QED
    BY <1>1, <1>3, <1>7, <2>1, NotFoundKeeps
<1>. QED
  BY <1>2, <1>4, <1>5, <1>6, <1>7
-----------------------------------------------------------------------------
(***************************************************************************)
(* fat32_chdir.                                                            *)
(***************************************************************************)
LEMMA PathRoot ==
  ASSUME NEW f, NEW s, NEW dirs, Root \in dirs
  PROVE  PathOK(f, s, dirs, [cluster |-> Root, stack |-> <<>>, path |-> <<>>])
<1>. DEFINE w == [cluster |-> Root, stack |-> <<>>, path |-> <<>>]
<1>1. w.cluster = Root /\ w.stack = <<>>
  OBVIOUS
<1>. HIDE DEF w
<1>2. <<Root>> \in Seq(dirs) /\ Len(<<Root>>) = 1 /\ <<Root>> # <<>> /\ <<Root>>[1] = Root
  OBVIOUS
<1>3. TreePath(f, s, dirs, <<Root>>)
  BY <1>2 DEF TreePath
<1>4. Len(w.stack) = 0 /\ w.stack \in Seq(dirs)
  BY <1>1
<1>5. PICK at : at = <<Root>>
  OBVIOUS
<1>6. /\ at \in Seq(dirs) /\ TreePath(f, s, dirs, at) /\ at[Len(at)] = w.cluster /\ Len(w.stack) < Len(at)
      /\ Len(at) = Len(w.stack) + 1
  BY <1>1, <1>2, <1>3, <1>4, <1>5
<1>7. \A k \in 1..Len(w.stack) : w.stack[k] = at[k]
  BY <1>4
<1>8. PathOK(f, s, dirs, w)
  BY <1>1, <1>4, <1>6, <1>7 DEF PathOK
<1>. QED
  BY <1>8 DEF w

LEMMA PathUp ==
  ASSUME NEW f, NEW s, NEW dirs, NEW w, PathOK(f, s, dirs, w), w.stack # <<>>, NEW v,
         v.cluster = w.stack[Len(w.stack)], v.stack = SubSeq(w.stack, 1, Len(w.stack) - 1)
  PROVE  PathOK(f, s, dirs, v)
<1>1. PICK at \in Seq(dirs) :
        /\ TreePath(f, s, dirs, at) /\ at[Len(at)] = w.cluster /\ Len(w.stack) < Len(at)
        /\ \A k \in 1..Len(w.stack) : w.stack[k] = at[k]
        /\ Len(w.stack) < StackDepth => Len(at) = Len(w.stack) + 1
  BY DEF PathOK
<1>2. w.stack \in Seq(dirs)
  BY DEF PathOK
<1>. DEFINE n == Len(w.stack)
<1>3. n \in Nat /\ n >= 1 /\ Len(at) \in Nat /\ n <= Len(at)
  BY <1>1, <1>2
<1>. DEFINE b == SubSeq(at, 1, n)
<1>4. b \in Seq(dirs) /\ Len(b) = n /\ \A k \in 1..n : b[k] = at[k]
  BY <1>3
<1>5. v.stack \in Seq(dirs) /\ Len(v.stack) = n - 1 /\ \A k \in 1..n - 1 : v.stack[k] = w.stack[k]
  BY <1>2, <1>3
<1>. HIDE DEF b
<1>6. v.cluster = b[n] /\ v.cluster \in dirs
  BY <1>1, <1>2, <1>3, <1>4
<1>7. TreePath(f, s, dirs, b)
  <2>1. b # <<>> /\ b[1] = Root
    BY <1>1, <1>3, <1>4 DEF TreePath
  <2>2. ASSUME NEW k \in 1..n - 1  PROVE Child(f, s, b[k], b[k + 1])
    <3>1. k \in 1..n /\ k + 1 \in 1..n /\ k \in 1..Len(at) - 1
      BY <1>3
    <3>. QED
      BY <1>1, <1>4, <3>1 DEF TreePath
  <2>. QED
    BY <1>4, <2>1, <2>2 DEF TreePath
<1>8. ASSUME NEW k \in 1..Len(v.stack)  PROVE v.stack[k] = b[k]
  <2>1. k \in 1..n - 1 /\ k \in 1..n
    BY <1>3, <1>5
  <2>2. v.stack[k] = w.stack[k] /\ b[k] = at[k]
    BY <1>4, <1>5, <2>1
  <2>3. w.stack[k] = at[k]
    BY <1>1, <2>1
  <2>. QED
    BY <2>2, <2>3
<1>9. /\ b[Len(b)] = v.cluster /\ Len(v.stack) < Len(b) /\ Len(b) = Len(v.stack) + 1
  BY <1>3, <1>4, <1>5, <1>6
<1>. QED
  BY <1>4, <1>5, <1>6, <1>7, <1>8, <1>9 DEF PathOK

LEMMA PathDown ==
  ASSUME NEW f, NEW s, NEW dirs, NEW w, PathOK(f, s, dirs, w), NEW x \in dirs, Child(f, s, w.cluster, x),
         NEW v, v.cluster = x,
         v.stack = IF Len(w.stack) < StackDepth THEN Append(w.stack, w.cluster) ELSE w.stack
  PROVE  PathOK(f, s, dirs, v)
<1>1. PICK at \in Seq(dirs) :
        /\ TreePath(f, s, dirs, at) /\ at[Len(at)] = w.cluster /\ Len(w.stack) < Len(at)
        /\ \A k \in 1..Len(w.stack) : w.stack[k] = at[k]
        /\ Len(w.stack) < StackDepth => Len(at) = Len(w.stack) + 1
  BY DEF PathOK
<1>2. w.stack \in Seq(dirs) /\ w.cluster \in dirs
  BY DEF PathOK
<1>3. Len(w.stack) \in Nat /\ Len(at) \in Nat /\ Len(at) >= 1
  BY <1>1, <1>2
<1>. DEFINE b == Append(at, x)
<1>4. /\ b \in Seq(dirs) /\ Len(b) = Len(at) + 1 /\ b[Len(at) + 1] = x
      /\ \A k \in 1..Len(at) : b[k] = at[k]
  OBVIOUS
<1>. HIDE DEF b
<1>5. TreePath(f, s, dirs, b)
  <2>1. b # <<>> /\ b[1] = Root
    BY <1>1, <1>3, <1>4 DEF TreePath
  <2>2. ASSUME NEW k \in 1..Len(b) - 1  PROVE Child(f, s, b[k], b[k + 1])
    <3>1. CASE k = Len(at)
      BY <1>1, <1>3, <1>4, <3>1
    <3>2. CASE k # Len(at)
      <4>1. k \in 1..Len(at) /\ k + 1 \in 1..Len(at) /\ k \in 1..Len(at) - 1
        BY <1>3, <1>4, <3>2
      <4>. QED
        BY <1>1, <1>4, <4>1 DEF TreePath
    <3>. QED
      BY <3>1, <3>2
  <2>. QED
    BY <1>4, <2>1, <2>2 DEF TreePath
<1>6. CASE Len(w.stack) < StackDepth
  <2>1. v.stack = Append(w.stack, w.cluster) /\ Len(at) = Len(w.stack) + 1
    BY <1>1, <1>6
  <2>2. /\ v.stack \in Seq(dirs) /\ Len(v.stack) = Len(w.stack) + 1
        /\ v.stack[Len(w.stack) + 1] = w.cluster /\ \A k \in 1..Len(w.stack) : v.stack[k] = w.stack[k]
    BY <1>2, <2>1
  <2>3. Len(v.stack) < Len(b) /\ Len(b) = Len(v.stack) + 1 /\ b[Len(b)] = v.cluster
    BY <1>3, <1>4, <2>1, <2>2
  <2>4. \A k \in 1..Len(v.stack) : v.stack[k] = b[k]
    BY <1>1, <1>3, <1>4, <2>1, <2>2
  <2>. QED
    BY <1>4, <1>5, <2>2, <2>3, <2>4 DEF PathOK
<1>7. CASE ~(Len(w.stack) < StackDepth)
  <2>1. v.stack = w.stack
    BY <1>7
  <2>2. Len(v.stack) < Len(b) /\ b[Len(b)] = v.cluster /\ ~(Len(v.stack) < StackDepth)
    BY <1>1, <1>3, <1>4, <1>7, <2>1
  <2>3. \A k \in 1..Len(v.stack) : v.stack[k] = b[k]
    BY <1>1, <1>3, <1>4, <2>1
  <2>. QED
    BY <1>2, <1>4, <1>5, <2>1, <2>2, <2>3 DEF PathOK
<1>. QED
  BY <1>6, <1>7

\* The working directory moves, and the rest of the path is walked.
LEMMA Moves ==
  ASSUME FatInv, Events = {}, NEW c \in Callers, MayRun(c), op[c].pc # "idle", op[c].kind = "chdir", Untouched,
         fat' = fat, disk_fat' = disk_fat, sector' = sector,
         PathOK(fat, sector, DOMAIN tree, cwd'), NEW at, DOMAIN at \subseteq {"pc", "arg"}, Goto(c, at),
         op'[c].pc = "walk"
  PROVE  FatInv'
<1>1. DOMAIN at \subseteq Fields /\ "kind" \in Fields \ DOMAIN at
  BY FieldsAre
<1>2. /\ Phase(op[c]) /\ tree' = tree /\ DOMAIN op' = Callers /\ DOMAIN op'[c] = Fields
      /\ \A d \in Callers \ {c} : op'[d].pc = "idle"
      /\ op'[c].kind = "chdir"
  BY <1>1, GoesOn
<1>3. Untouched'
  BY <1>2 DEF Untouched, Sound, Mirrored
<1>4. Phase(op[c])'
  BY <1>2, <1>3 DEF Phase
<1>5. /\ fat' \in Fats /\ disk_fat' \in [1..2 -> Fats] /\ (cwd.cluster \in DOMAIN tree)'
  BY <1>2 DEF FatInv, PathOK
<1>. QED
  BY <1>2, <1>4, <1>5, StillInv

LEMMA EnterDirectoryKeeps ==
  ASSUME FatInv, Events = {}, NEW c \in Callers, EnterDirectory(c)  PROVE FatInv'
<1>1. /\ op[c].pc = "entry" /\ MayRun(c) /\ fat' = fat /\ disk_fat' = disk_fat /\ sector' = sector
      /\ op[c].kind = "chdir" /\ Found(c).attr = "dir"
      /\ Goto(c, [pc |-> "walk", arg |-> Tail(op[c].arg)])
  BY DEF EnterDirectory, ReadEntry, At
<1>2. /\ cwd'.cluster = Found(c).first
      /\ cwd'.stack = IF Len(cwd.stack) < StackDepth THEN Append(cwd.stack, cwd.cluster) ELSE cwd.stack
  BY DEF EnterDirectory
<1>3. Untouched /\ Found(c) = Ent(sector, At2(op[c])) /\ At2(op[c]) \in Ents(fat, sector, cwd.cluster)
  BY <1>1, EntryFacts DEF Hit
<1>4. Child(fat, sector, cwd.cluster, Found(c).first)
  BY <1>1, <1>3 DEF Child
<1>5. Found(c).first \in DOMAIN tree /\ PathOK(fat, sector, DOMAIN tree, cwd)
  BY <1>1, <1>3, UntouchedIs DEF Vol, DirsOK
<1>6. PathOK(fat, sector, DOMAIN tree, cwd')
  BY <1>2, <1>4, <1>5, PathDown
<1>. DEFINE at == [pc |-> "walk", arg |-> Tail(op[c].arg)]
<1>7. DOMAIN at = {"pc", "arg"} /\ at["pc"] = "walk" /\ Goto(c, at)
  BY <1>1
<1>. HIDE DEF at
<1>8. DOMAIN at \subseteq Fields
  BY <1>7, FieldsAre
<1>9. op'[c]["pc"] = "walk"
  BY <1>1, <1>7, <1>8, GoesOn
<1>. QED
  BY <1>1, <1>3, <1>6, <1>7, <1>9, Moves

LEMMA WalkKeeps ==
  ASSUME FatInv, Events = {}, NEW c \in Callers, Walk(c)  PROVE FatInv'
<1>1. op[c].pc = "walk" /\ MayRun(c) /\ fat' = fat /\ disk_fat' = disk_fat /\ sector' = sector
  BY DEF Walk, At
<1>2. Untouched /\ op[c].kind = "chdir"
  BY <1>1 DEF FatInv, Phase
<1>3. /\ PathOK(fat, sector, DOMAIN tree, cwd) /\ cwd.cluster \in DOMAIN tree /\ Root \in DOMAIN tree
      /\ Chained(fat, cwd.cluster)
  BY <1>2, UntouchedIs, DirFacts
<1>4. ASSUME UNCHANGED cwd, Return(c, TRUE)  PROVE FatInv'
  BY <1>1, <1>2, <1>4, ReturnedUnchanged DEF Volatile
<1>5. ASSUME Goto(c, [arg |-> Tail(op[c].arg)]), PathOK(fat, sector, DOMAIN tree, cwd')  PROVE FatInv'
  <2>. DEFINE at == [arg |-> Tail(op[c].arg)]
  <2>1. DOMAIN at = {"arg"} /\ Goto(c, at)
    BY <1>5
  <2>. HIDE DEF at
  <2>2. DOMAIN at \subseteq Fields /\ "pc" \in Fields \ DOMAIN at
    BY <2>1, FieldsAre
  <2>3. op'[c]["pc"] = "walk"
    BY <1>1, <2>1, <2>2, GoesOn
  <2>. QED
    BY <1>1, <1>2, <1>5, <2>1, <2>3, Moves
<1>6. ASSUME cwd' = [cluster |-> Root, stack |-> <<>>, path |-> <<>>]
      PROVE  PathOK(fat, sector, DOMAIN tree, cwd')
  BY <1>3, <1>6, PathRoot
<1>7. ASSUME cwd' = IF cwd.stack = <<>> THEN cwd
                    ELSE [cluster |-> cwd.stack[Len(cwd.stack)],
                          stack |-> SubSeq(cwd.stack, 1, Len(cwd.stack) - 1),
                          path |-> SubSeq(cwd.path, 1, Len(cwd.path) - 1)]
      PROVE  PathOK(fat, sector, DOMAIN tree, cwd')
  <2>1. CASE cwd.stack = <<>>
    BY <1>3, <1>7, <2>1
  <2>2. CASE cwd.stack # <<>>
    <3>1. cwd'.cluster = cwd.stack[Len(cwd.stack)] /\ cwd'.stack = SubSeq(cwd.stack, 1, Len(cwd.stack) - 1)
      BY <1>7, <2>2
    <3>. QED
      BY <1>3, <2>2, <3>1, PathUp
  <2>. QED
    BY <2>1, <2>2
<1>8. ASSUME UNCHANGED cwd, NEW n \in Names, Goto(c, [pc |-> "find", name |-> n, cur |-> cwd.cluster])
      PROVE  FatInv'
  <2>. DEFINE at == [pc |-> "find", name |-> n, cur |-> cwd.cluster]
  <2>1. /\ DOMAIN at = {"pc", "name", "cur"} /\ Goto(c, at)
        /\ at["pc"] = "find" /\ at["name"] = n /\ at["cur"] = cwd.cluster
    BY <1>8
  <2>. HIDE DEF at
  <2>2. DOMAIN at \subseteq Fields /\ "kind" \in Fields \ DOMAIN at
    BY <2>1, FieldsAre
  <2>3. /\ Phase(op[c]) /\ tree' = tree /\ op'[c]["pc"] = "find" /\ op'[c]["name"] = n
        /\ op'[c]["cur"] = cwd.cluster /\ op'[c]["kind"] = "chdir"
    BY <1>1, <1>2, <2>1, <2>2, GoesOn
  <2>4. UNCHANGED Volatile
    BY <1>1, <1>8 DEF Volatile
  <2>5. Untouched'
    BY <1>2, <2>3, <2>4, UntouchedStays
  <2>6. Asked(op[c])'
    BY <2>3 DEF Asked
  <2>7. Searching(op[c])'
    <3>1. 1 \in 1..Len(Chain(fat, cwd.cluster)) /\ Chain(fat, cwd.cluster)[1] = cwd.cluster
      BY <1>3, ChainFacts
    <3>2. \A m \in 1..1 - 1 : FALSE
      OBVIOUS
    <3>. QED
      BY <1>1, <1>8, <2>3, <3>1, <3>2 DEF Searching
  <2>8. Phase(op[c])'
    BY <2>3, <2>5, <2>6, <2>7 DEF Phase
  <2>. QED
    BY <1>1, <2>1, <2>2, <2>3, <2>4, <2>8, OnUnchanged
<1>9. \/ UNCHANGED cwd /\ Return(c, TRUE)
      \/ /\ cwd' = [cluster |-> Root, stack |-> <<>>, path |-> <<>>]
         /\ Goto(c, [arg |-> Tail(op[c].arg)])
      \/ /\ cwd' = IF cwd.stack = <<>> THEN cwd
                   ELSE [cluster |-> cwd.stack[Len(cwd.stack)],
                         stack |-> SubSeq(cwd.stack, 1, Len(cwd.stack) - 1),
                         path |-> SubSeq(cwd.path, 1, Len(cwd.path) - 1)]
         /\ Goto(c, [arg |-> Tail(op[c].arg)])
      \/ \E n \in Names : UNCHANGED cwd /\ Goto(c, [pc |-> "find", name |-> n, cur |-> cwd.cluster])
  BY DEF Walk
<1>. QED
  BY <1>4, <1>5, <1>6, <1>7, <1>8, <1>9
-----------------------------------------------------------------------------
(***************************************************************************)
(* A call begins.                                                          *)
(***************************************************************************)
Fresh(o, kind, n, arg, d) ==
  /\ o.kind = kind /\ o.name = n /\ o.arg = arg /\ o.dir = d /\ o.cur = d
  /\ ~o.exists /\ o.first = 0 /\ o.prev = 0 /\ o.step = 0 /\ o.idx = 0 /\ o.got = <<>>

LEMMA Begun ==
  ASSUME FatInv, Events = {}, NEW c \in Callers, NEW kind, NEW n, NEW arg, NEW label,
         Begin(c, kind, n, arg, label), label # "idle", UNCHANGED <<fat, disk_fat, sector, cwd, tree>>
  PROVE  /\ Untouched /\ Untouched' /\ DOMAIN op' = Callers /\ UNCHANGED Volatile
         /\ \A d \in Callers \ {c} : op'[d].pc = "idle"
         /\ DOMAIN op'[c] = Fields /\ op'[c].pc = label
         /\ Fresh(op'[c], kind, n, arg, cwd.cluster)
         /\ fat' \in Fats /\ disk_fat' \in [1..2 -> Fats] /\ (cwd.cluster \in DOMAIN tree)'
<1>. DEFINE at == [cur |-> cwd.cluster, dir |-> cwd.cluster, kind |-> kind, name |-> n,
                   arg |-> arg, pc |-> label]
<1>1. op[c].pc = "idle" /\ MayRun(c) /\ op' = [op EXCEPT ![c] = Updated(Blank, at)]
  BY DEF Begin
<1>2. DOMAIN op = Callers
  BY DEF FatInv
<1>3. \A d \in Callers \ {c} : op[d].pc = "idle"
  BY <1>1, Alone
<1>4. Quiet
  BY <1>1, <1>3 DEF Quiet
<1>5. Untouched
  BY <1>4 DEF FatInv
<1>6. UNCHANGED Volatile /\ Untouched'
  BY <1>5, UntouchedStays DEF Volatile
<1>7. Updated(Blank, at) = [x \in DOMAIN Blank \cup DOMAIN at |-> IF x \in DOMAIN at THEN at[x] ELSE Blank[x]]
  BY DEF Updated
<1>8. /\ DOMAIN at = {"cur", "dir", "kind", "name", "arg", "pc"} /\ at["cur"] = cwd.cluster
      /\ at["dir"] = cwd.cluster /\ at["kind"] = kind /\ at["name"] = n /\ at["arg"] = arg
      /\ at["pc"] = label
  OBVIOUS
<1>9. /\ DOMAIN Blank = {"cur", "idx", "first", "prev", "size", "step", "exists", "then", "got"}
      /\ Blank["exists"] = FALSE /\ Blank["first"] = 0 /\ Blank["prev"] = 0 /\ Blank["step"] = 0
      /\ Blank["idx"] = 0 /\ Blank["got"] = <<>>
  BY DEF Blank
<1>. HIDE DEF at
<1>10. op'[c] = [x \in DOMAIN Blank \cup DOMAIN at |-> IF x \in DOMAIN at THEN at[x] ELSE Blank[x]]
  BY <1>1, <1>2, <1>7
<1>11. DOMAIN op'[c] = Fields
  BY <1>8, <1>9, <1>10, FieldsAre
<1>12. /\ op'[c]["pc"] = label /\ op'[c]["kind"] = kind /\ op'[c]["name"] = n /\ op'[c]["arg"] = arg
       /\ op'[c]["dir"] = cwd.cluster /\ op'[c]["cur"] = cwd.cluster
  BY <1>8, <1>10
<1>13. /\ op'[c]["exists"] = FALSE /\ op'[c]["first"] = 0 /\ op'[c]["prev"] = 0 /\ op'[c]["step"] = 0
       /\ op'[c]["idx"] = 0 /\ op'[c]["got"] = <<>>
  BY <1>8, <1>9, <1>10
<1>14. DOMAIN op' = Callers /\ \A d \in Callers \ {c} : op'[d].pc = "idle"
  BY <1>1, <1>2, <1>3
<1>15. fat' \in Fats /\ disk_fat' \in [1..2 -> Fats] /\ (cwd.cluster \in DOMAIN tree)'
  BY DEF FatInv
<1>16. Fresh(op'[c], kind, n, arg, cwd.cluster)
  BY <1>12, <1>13 DEF Fresh
<1>. QED
  BY <1>5, <1>6, <1>11, <1>12, <1>14, <1>15, <1>16

\* What the callers know of the working directory, they know of its sectors.
LEMMA HereIs ==
  ASSUME Untouched
  PROVE  /\ Here = tree[cwd.cluster]
         /\ \A n : n \in DOMAIN Here <=> ~NotIn(sector, cwd.cluster, n)
         /\ \A p \in Ents(fat, sector, cwd.cluster) :
              LET n == Ent(sector, p).name
              IN  /\ Ent(sector, p).attr = "file" => Held(n) = Len(Chain(fat, Ent(sector, p).first))
                  /\ Ent(sector, p).attr = "dir" /\ DOMAIN tree[Here[n].id] = {} /\ Here[n].kind = "dir" =>
                       Ents(fat, sector, Ent(sector, p).first) = {}
                  /\ Ent(sector, p).attr = "dir" => Here[n].kind = "dir"
         /\ \A n : NotIn(sector, cwd.cluster, n) => Held(n) = 0
<1>. DEFINE d == cwd.cluster
            dirs == DOMAIN tree
<1>1. /\ Vol(fat, sector, dirs, {}) /\ d \in dirs /\ tree = TreeOf(fat, sector)
  BY UntouchedIs
<1>2. Here = tree[d]
  BY <1>1 DEF Here
<1>3. /\ \A b \in dirs : \A n : n \in DOMAIN tree[b] <=> \E p \in Ents(fat, sector, b) : n = Ent(sector, p).name
      /\ \A b \in dirs : \A p \in Ents(fat, sector, b) :
           LET node == tree[b][Ent(sector, p).name]
           IN  /\ Ent(sector, p).attr = "dir" => node = [kind |-> "dir", id |-> Ent(sector, p).first]
               /\ Ent(sector, p).attr = "file" =>
                    /\ node.kind = "file"
                    /\ Needed(node.data) = Len(Chain(fat, Ent(sector, p).first))
  BY <1>1, TreeIs
<1>4. \A n : n \in DOMAIN Here <=> ~NotIn(sector, d, n)
  BY <1>1, <1>2, <1>3 DEF NotIn
<1>5. ASSUME NEW p \in Ents(fat, sector, d)
      PROVE  LET n == Ent(sector, p).name
              IN  /\ Ent(sector, p).attr = "file" => Held(n) = Len(Chain(fat, Ent(sector, p).first))
                  /\ Ent(sector, p).attr = "dir" /\ DOMAIN tree[Here[n].id] = {} /\ Here[n].kind = "dir" =>
                       Ents(fat, sector, Ent(sector, p).first) = {}
                  /\ Ent(sector, p).attr = "dir" => Here[n].kind = "dir"
  <2>. DEFINE n == Ent(sector, p).name
  <2>1. n \in DOMAIN Here
    BY <1>4, <1>5 DEF NotIn
  <2>2. ASSUME Ent(sector, p).attr = "file"  PROVE Held(n) = Len(Chain(fat, Ent(sector, p).first))
    <3>1. Here[n].kind = "file" /\ Needed(Here[n].data) = Len(Chain(fat, Ent(sector, p).first))
      BY <1>1, <1>2, <1>3, <2>2
    <3>. QED
      BY <2>1, <3>1 DEF Held
  <2>3. ASSUME Ent(sector, p).attr = "dir"  PROVE Here[n].kind = "dir" /\ Here[n].id = Ent(sector, p).first
    <3>1. tree[cwd.cluster][n] = [kind |-> "dir", id |-> Ent(sector, p).first]
      BY <1>1, <1>3, <2>3
    <3>. QED
      BY <1>2, <3>1
  <2>4. ASSUME Ent(sector, p).attr = "dir", DOMAIN tree[Here[n].id] = {}
        PROVE  Ents(fat, sector, Ent(sector, p).first) = {}
    <3>1. Ent(sector, p).first \in dirs
      BY <1>1, <2>4 DEF Vol, DirsOK
    <3>2. DOMAIN tree[Ent(sector, p).first] = {}
      BY <2>3, <2>4
    <3>. QED
      BY <1>3, <3>1, <3>2
  <2>. QED
    BY <2>2, <2>3, <2>4
<1>6. \A n : NotIn(sector, d, n) => Held(n) = 0
  BY <1>4 DEF Held
<1>. QED
  BY <1>2, <1>4, <1>5, <1>6

LEMMA RoomIs ==
  ASSUME Untouched, Events = {}, NEW n, NEW k, Room(n, k), NEW o, o.name = n
  PROVE  Roomy(o, k)
<1>1. Cardinality(FreeClusters(fat)) + Held(n) >= k + 1
  BY DEF Room
<1>2. Spare \in Nat /\ Spare + Held(n) >= k + 1
  BY <1>1, FreeSet DEF Spare
<1>3. NotIn(sector, cwd.cluster, n) => Spare >= k + 1
  <2>1. NotIn(sector, cwd.cluster, n) => Held(n) = 0
    BY HereIs
  <2>. QED
    BY <1>2, <2>1
<1>4. ASSUME NEW p \in Ents(fat, sector, cwd.cluster), Ent(sector, p).name = n, Ent(sector, p).attr = "file"
      PROVE  Spare + Len(Chain(fat, Ent(sector, p).first)) >= k + 1
  <2>1. Held(n) = Len(Chain(fat, Ent(sector, p).first))
    BY <1>4, HereIs
  <2>. QED
    BY <1>2, <2>1
<1>. QED
  BY <1>3, <1>4 DEF Roomy

\* A call that starts with a search of the working directory.
LEMMA SearchBegins ==
  ASSUME FatInv, Events = {}, NEW c \in Callers, NEW kind, NEW n, NEW arg,
         Begin(c, kind, n, arg, "find"), UNCHANGED <<fat, disk_fat, sector, cwd, tree>>,
         Untouched /\ UNCHANGED Volatile /\ Fresh(op'[c], kind, n, arg, cwd.cluster) => Asked(op[c])'
  PROVE  FatInv'
<1>1. /\ Untouched /\ Untouched' /\ DOMAIN op' = Callers /\ UNCHANGED Volatile
      /\ \A d \in Callers \ {c} : op'[d].pc = "idle"
      /\ DOMAIN op'[c] = Fields /\ op'[c].pc = "find"
      /\ fat' \in Fats /\ disk_fat' \in [1..2 -> Fats] /\ (cwd.cluster \in DOMAIN tree)'
      /\ Fresh(op'[c], kind, n, arg, cwd.cluster)
  BY Begun
<1>2. 1 \in 1..Len(Chain(fat, cwd.cluster)) /\ Chain(fat, cwd.cluster)[1] = cwd.cluster
  BY <1>1, UntouchedIs, ChainFacts
<1>3. \A m \in 1..1 - 1 : FALSE
  OBVIOUS
<1>4. Searching(op[c])'
  BY <1>1, <1>2, <1>3 DEF Searching, Volatile, Fresh
<1>5. Phase(op[c])'
  BY <1>1, <1>4 DEF Phase
<1>. QED
  BY <1>1, <1>5, StillInv

LEMMA CallsKeep ==
  ASSUME FatInv, Events = {}, NEW c \in Callers,
         \/ CallWrite(c) \/ CallMkdir(c) \/ CallDelete(c) \/ CallRename(c)
         \/ CallRead(c) \/ CallReaddir(c) \/ CallChdir(c)
  PROVE  FatInv'
<1>1. ASSUME CallWrite(c)  PROVE FatInv'
  <2>1. PICK n \in Names, data \in Contents :
          /\ Room(n, Needed(data)) /\ Begin(c, "write", n, data, "find")
          /\ UNCHANGED <<fat, disk_fat, sector, cwd, tree>>
    BY <1>1 DEF CallWrite
  <2>2. SUFFICES ASSUME Untouched, UNCHANGED Volatile, Fresh(op'[c], "write", n, data, cwd.cluster)
               PROVE  Asked(op[c])'
    BY <2>1, SearchBegins
  <2>3. Roomy(op'[c], Needed(data))
    BY <2>1, <2>2, RoomIs DEF Fresh
  <2>4. Roomy(op[c], Needed(data))'
    BY <2>2, <2>3 DEF Roomy, NotIn, Fresh, Spare, Volatile
  <2>. QED
    BY <2>1, <2>2, <2>4 DEF Asked, Fresh
<1>2. ASSUME CallMkdir(c)  PROVE FatInv'
  <2>1. PICK n \in Names :
          /\ Room(n, 1) /\ Begin(c, "mkdir", n, <<>>, "find")
          /\ UNCHANGED <<fat, disk_fat, sector, cwd, tree>>
    BY <1>2 DEF CallMkdir
  <2>2. SUFFICES ASSUME Untouched, UNCHANGED Volatile, Fresh(op'[c], "mkdir", n, <<>>, cwd.cluster)
               PROVE  Asked(op[c])'
    BY <2>1, SearchBegins
  <2>3. Roomy(op'[c], 1)
    BY <2>1, <2>2, RoomIs DEF Fresh
  <2>4. Roomy(op[c], 1)'
    BY <2>2, <2>3 DEF Roomy, NotIn, Fresh, Spare, Volatile
  <2>. QED
    BY <2>1, <2>2, <2>4 DEF Asked, Fresh
<1>3. ASSUME CallDelete(c)  PROVE FatInv'
  <2>1. PICK n \in Names :
          /\ n \in DOMAIN Here /\ Here[n].kind = "dir" => DOMAIN tree[Here[n].id] = {}
          /\ Begin(c, "delete", n, <<>>, "find")
          /\ UNCHANGED <<fat, disk_fat, sector, cwd, tree>>
    BY <1>3 DEF CallDelete
  <2>2. SUFFICES ASSUME Untouched, UNCHANGED Volatile, Fresh(op'[c], "delete", n, <<>>, cwd.cluster)
               PROVE  Asked(op[c])'
    BY <2>1, SearchBegins
  <2>3. ASSUME NEW p \in Ents(fat, sector, cwd.cluster), Ent(sector, p).name = n, Ent(sector, p).attr = "dir"
        PROVE  Ents(fat, sector, Ent(sector, p).first) = {}
    <3>1. n \in DOMAIN Here /\ Here[n].kind = "dir"
      BY <2>2, <2>3, HereIs DEF NotIn
    <3>2. DOMAIN tree[Here[n].id] = {}
      BY <2>1, <3>1
    <3>. QED
      BY <2>2, <2>3, <3>1, <3>2, HereIs
  <2>. QED
    BY <2>1, <2>2, <2>3 DEF Asked, Fresh, Volatile
<1>4. ASSUME CallRename(c)  PROVE FatInv'
  <2>1. PICK n \in Names, new \in Names :
          /\ new \notin DOMAIN Here /\ Begin(c, "rename", n, new, "find")
          /\ UNCHANGED <<fat, disk_fat, sector, cwd, tree>>
    BY <1>4 DEF CallRename
  <2>2. SUFFICES ASSUME Untouched, UNCHANGED Volatile, Fresh(op'[c], "rename", n, new, cwd.cluster)
               PROVE  Asked(op[c])'
    BY <2>1, SearchBegins
  <2>3. NotIn(sector, cwd.cluster, new)
    BY <2>1, <2>2, HereIs
  <2>. QED
    BY <2>1, <2>2, <2>3 DEF Asked, Fresh, NotIn, Volatile
<1>5. ASSUME CallRead(c)  PROVE FatInv'
  <2>1. PICK n \in Names, room \in Rooms :
          Begin(c, "read", n, room, "find") /\ UNCHANGED <<fat, disk_fat, sector, cwd, tree>>
    BY <1>5 DEF CallRead
  <2>2. SUFFICES ASSUME Untouched, UNCHANGED Volatile, Fresh(op'[c], "read", n, room, cwd.cluster)
               PROVE  Asked(op[c])'
    BY <2>1, SearchBegins
  <2>. QED
    BY <2>1, <2>2 DEF Asked, Fresh, Volatile
<1>6. ASSUME CallReaddir(c)  PROVE FatInv'
  <2>1. Begin(c, "readdir", "", <<>>, "list") /\ UNCHANGED <<fat, disk_fat, sector, cwd, tree>>
    BY <1>6 DEF CallReaddir
  <2>2. /\ Untouched' /\ DOMAIN op' = Callers /\ \A d \in Callers \ {c} : op'[d].pc = "idle"
        /\ DOMAIN op'[c] = Fields /\ op'[c].pc = "list"
        /\ fat' \in Fats /\ disk_fat' \in [1..2 -> Fats] /\ (cwd.cluster \in DOMAIN tree)'
    BY <2>1, Begun
  <2>3. Phase(op[c])'
    BY <2>2 DEF Phase
  <2>. QED
    BY <2>2, <2>3, StillInv
<1>7. ASSUME CallChdir(c)  PROVE FatInv'
  <2>1. PICK path \in Paths : Begin(c, "chdir", "", path, "walk") /\ UNCHANGED <<fat, disk_fat, sector, cwd, tree>>
    BY <1>7 DEF CallChdir
  <2>2. /\ Untouched' /\ DOMAIN op' = Callers /\ \A d \in Callers \ {c} : op'[d].pc = "idle"
        /\ DOMAIN op'[c] = Fields /\ op'[c].pc = "walk" /\ Fresh(op'[c], "chdir", "", path, cwd.cluster)
        /\ fat' \in Fats /\ disk_fat' \in [1..2 -> Fats] /\ (cwd.cluster \in DOMAIN tree)'
    BY <2>1, Begun
  <2>3. Phase(op[c])'
    BY <2>2 DEF Phase, Fresh
  <2>. QED
    BY <2>2, <2>3, StillInv
<1>. QED
  BY <1>1, <1>2, <1>3, <1>4, <1>5, <1>6, <1>7
-----------------------------------------------------------------------------
(***************************************************************************)
(* The clusters of a file that is overwritten, or of what is deleted.      *)
(***************************************************************************)
LEMMA SectorsIs == FatSectors \in Nat /\ FatSectors >= 1
<1>1. Last \div PerSector \in Nat
  BY Consts
<1>. QED
  BY <1>1 DEF FatSectors

\* Where each sector of the FAT is.
LEMMA DivIs ==
  ASSUME NEW a \in Clusters
  PROVE  a \div PerSector \in Nat /\ a \div PerSector <= Last \div PerSector
<1>1. a \in Nat /\ a <= Last /\ Last \in Nat /\ PerSector \in Nat \ {0}
  BY Consts, Marks
<1>. QED
  BY <1>1

LEMMA RemovedFrom ==
  ASSUME NEW f, NEW s, NEW dirs, Vol(f, s, dirs, {}), NEW w, PathOK(f, s, dirs, w),
         NEW p \in Ents(f, s, w.cluster), Ent(s, p).attr = "dir" => Ents(f, s, Ent(s, p).first) = {}
  PROVE  LET g  == FreeChain(f, Ent(s, p).first)
             s1 == Put(s, p, Deleted)
         IN  /\ g \in Fats /\ p \in Places(g, w.cluster) /\ DOMAIN s = Clusters /\ s[p[1]] \in Tables
             /\ \E dirs1 \in SUBSET Clusters : Vol(g, s1, dirs1, {}) /\ PathOK(g, s1, dirs1, w)
             /\ \A q \in Ents(g, s1, w.cluster) : Ent(s1, q).name # Ent(s, p).name
             /\ Cardinality(FreeClusters(g)) = Cardinality(FreeClusters(f)) + Len(Chain(f, Ent(s, p).first))
<1>. DEFINE g  == FreeChain(f, Ent(s, p).first)
            s1 == Put(s, p, Deleted)
            dirs1 == dirs \ {Ent(s, p).first}
            d  == w.cluster
<1>1. d \in dirs
  BY DEF PathOK
<1>2. /\ Vol(g, s1, dirs1, {}) /\ p \in Places(g, d)
      /\ \A q \in Ents(g, s1, d) : Ent(s1, q).name # Ent(s, p).name
      /\ Cardinality(FreeClusters(g)) = Cardinality(FreeClusters(f)) + Len(Chain(f, Ent(s, p).first))
  BY <1>1, EntryRemoved
<1>3. PathOK(g, s1, dirs1, w)
  BY <1>1, EntryRemoved
<1>4. dirs1 \in SUBSET Clusters /\ g \in Fats /\ DOMAIN s = Clusters
  BY <1>2, DirFacts
<1>5. s[p[1]] \in Tables
  <2>1. p[1] \in InChain(f, d)
    BY EntIn
  <2>. QED
    BY <1>1, <2>1, DirFacts, EntriesAre
<1>. HIDE DEF g, s1, dirs1
<1>. QED
  BY <1>2, <1>3, <1>4, <1>5 DEF g, s1

LEMMA Removing ==
  ASSUME FatInv, NEW c \in Callers, op[c].pc = "entry", op[c].kind \in {"write", "delete"},
         op[c].kind = "write" => Found(c).attr = "file"
  PROVE  LET g == FreeChain(fat, Found(c).first)
             d == cwd.cluster
             s == Dropped(op[c])
         IN  /\ g \in Fats /\ At2(op[c]) \in Places(g, d) /\ DOMAIN sector = Clusters
             /\ sector[op[c].cur] \in Tables
             /\ \E dirs \in SUBSET Clusters : Vol(g, s, dirs, {}) /\ PathOK(g, s, dirs, cwd)
             /\ \A q \in Ents(g, s, d) : Ent(s, q).name # op[c].name
             /\ Cardinality(FreeClusters(g)) = Spare + Len(Chain(fat, Found(c).first))
<1>. DEFINE p == At2(op[c])
<1>1. /\ Untouched /\ Asked(op[c]) /\ Found(c) = Ent(sector, p) /\ Found(c).name = op[c].name
      /\ p \in Ents(fat, sector, cwd.cluster)
  BY EntryFacts DEF Hit
<1>2. /\ Vol(fat, sector, DOMAIN tree, {}) /\ PathOK(fat, sector, DOMAIN tree, cwd)
  BY <1>1, UntouchedIs
<1>3. Ent(sector, p).attr = "dir" => Ents(fat, sector, Ent(sector, p).first) = {}
  BY <1>1 DEF Asked
<1>4. p[1] = op[c].cur
  BY DEF At2
<1>5. Dropped(op[c]) = Put(sector, p, Deleted)
  BY DEF Dropped
<1>. HIDE DEF p
<1>6. LET g  == FreeChain(fat, Ent(sector, p).first)
          s1 == Put(sector, p, Deleted)
      IN  /\ g \in Fats /\ p \in Places(g, cwd.cluster) /\ DOMAIN sector = Clusters /\ sector[p[1]] \in Tables
          /\ \E dirs1 \in SUBSET Clusters : Vol(g, s1, dirs1, {}) /\ PathOK(g, s1, dirs1, cwd)
          /\ \A q \in Ents(g, s1, cwd.cluster) : Ent(s1, q).name # Ent(sector, p).name
          /\ Cardinality(FreeClusters(g)) = Cardinality(FreeClusters(fat)) + Len(Chain(fat, Ent(sector, p).first))
  BY <1>1, <1>2, <1>3, RemovedFrom
<1>. QED
  BY <1>1, <1>4, <1>5, <1>6 DEF Spare, p

LEMMA FreeOldKeeps ==
  ASSUME FatInv, Events = {}, NEW c \in Callers, FreeOld(c)  PROVE FatInv'
<1>. DEFINE at == [pc |-> "data", exists |-> TRUE]
            g == FreeChain(fat, Found(c).first)
            d == cwd.cluster
            s == Dropped(op[c])
<1>1. /\ op[c].pc = "entry" /\ MayRun(c) /\ op[c].kind = "write" /\ Found(c).attr = "file"
      /\ fat' = g /\ cwd' = cwd /\ disk_fat' = disk_fat /\ sector' = sector
      /\ Goto(c, at)
  BY DEF FreeOld, ReadEntry, At
<1>2. /\ g \in Fats /\ At2(op[c]) \in Places(g, d) /\ DOMAIN sector = Clusters
      /\ sector[op[c].cur] \in Tables
      /\ \E dirs \in SUBSET Clusters : Vol(g, s, dirs, {}) /\ PathOK(g, s, dirs, cwd)
      /\ \A q \in Ents(g, s, d) : Ent(s, q).name # op[c].name
      /\ Cardinality(FreeClusters(g)) = Spare + Len(Chain(fat, Found(c).first))
  BY <1>1, Removing
<1>3. /\ Asked(op[c]) /\ Found(c) = Ent(sector, At2(op[c])) /\ Found(c).name = op[c].name /\ Live(Found(c))
      /\ At2(op[c]) \in Ents(fat, sector, d)
  BY <1>1, EntryFacts DEF Hit
<1>4. DOMAIN at = {"pc", "exists"} /\ at["pc"] = "data" /\ at["exists"] = TRUE
  OBVIOUS
<1>. HIDE DEF at, g
<1>5. DOMAIN at \subseteq Fields
  BY <1>4, FieldsAre
<1>6. /\ tree' = tree /\ DOMAIN op' = Callers /\ DOMAIN op'[c] = Fields
      /\ \A e \in Callers \ {c} : op'[e].pc = "idle"
      /\ op'[c]["pc"] = "data" /\ op'[c]["exists"] = TRUE
      /\ \A f \in Fields \ {"pc", "exists"} : op'[c][f] = op[c][f]
  BY <1>1, <1>4, <1>5, GoesOn
<1>7. /\ op'[c]["kind"] = "write" /\ op'[c]["name"] = op[c]["name"] /\ op'[c]["arg"] = op[c]["arg"]
      /\ op'[c]["dir"] = op[c]["dir"] /\ op'[c]["cur"] = op[c]["cur"] /\ op'[c]["idx"] = op[c]["idx"]
      /\ op'[c]["first"] = op[c]["first"] /\ op'[c]["prev"] = op[c]["prev"]
      /\ op'[c]["step"] = op[c]["step"]
  BY <1>1, <1>6, FieldsAre
<1>8. /\ op[c].arg \in Contents /\ op[c].name \in Names /\ op[c].dir = d
      /\ op[c].first = 0 /\ op[c].prev = 0 /\ op[c].step = 0
      /\ Spare + Len(Chain(fat, Found(c).first)) >= Needed(op[c].arg) + 1
  BY <1>1, <1>3 DEF Asked, Roomy
<1>9. /\ At2(op[c])' = At2(op[c]) /\ Dropped(op[c])' = s /\ Area(op[c])' = s
  BY <1>1, <1>6, <1>7 DEF At2, Dropped, Area
<1>10. HoleOK(op[c])'
  BY <1>1, <1>2, <1>3, <1>7, <1>8, <1>9 DEF HoleOK
<1>11. NotIn(s, d, op[c].name)'
  BY <1>1, <1>2, <1>7, <1>9 DEF NotIn
<1>12. Making(op[c], s, {})'
  BY <1>1, <1>2, <1>3, <1>6, <1>7, <1>8, <1>9, <1>10, <1>11 DEF Making, Sound
<1>13. Run(fat', {}, op'[c].first, op'[c].prev, op'[c].step)
  BY <1>7, <1>8 DEF Run
<1>14. Spare' >= Needed(op'[c].arg) - op'[c].step + 0 /\ op'[c].step \in Nat /\ op'[c].step < Needed(op'[c].arg)
  <2>1. Needed(op[c].arg) \in Nat /\ Needed(op[c].arg) >= 1
    BY <1>8, NeededIs
  <2>2. Spare' \in Nat /\ Spare' = Cardinality(FreeClusters(g))
    BY <1>1, FreeSet DEF Spare
  <2>. QED
    BY <1>2, <1>7, <1>8, <2>1, <2>2
<1>15. InData(op[c])'
  BY <1>6, <1>7, <1>9, <1>12, <1>13, <1>14 DEF InData
<1>16. Phase(op[c])'
  BY <1>6, <1>15 DEF Phase
<1>17. fat' \in Fats /\ disk_fat' \in [1..2 -> Fats] /\ (cwd.cluster \in DOMAIN tree)'
  BY <1>1, <1>2, <1>6 DEF FatInv
<1>. QED
  BY <1>6, <1>16, <1>17, StillInv

LEMMA FreeDeletedKeeps ==
  ASSUME FatInv, Events = {}, NEW c \in Callers, FreeDeleted(c)  PROVE FatInv'
<1>. DEFINE at == [pc |-> "flush", then |-> "commit"]
            g == FreeChain(fat, Found(c).first)
            d == cwd.cluster
            s == Dropped(op[c])
<1>1. /\ op[c].pc = "entry" /\ MayRun(c) /\ op[c].kind = "delete"
      /\ fat' = g /\ cwd' = cwd /\ disk_fat' = disk_fat /\ sector' = sector
      /\ g_io_buf' = sector[op[c].cur] /\ Goto(c, at)
  BY DEF FreeDeleted, ReadEntry, At
<1>2. /\ g \in Fats /\ At2(op[c]) \in Places(g, d) /\ DOMAIN sector = Clusters
      /\ sector[op[c].cur] \in Tables
      /\ \E dirs \in SUBSET Clusters : Vol(g, s, dirs, {}) /\ PathOK(g, s, dirs, cwd)
  BY <1>1, Removing
<1>3. /\ Asked(op[c]) /\ Found(c) = Ent(sector, At2(op[c])) /\ Found(c).name = op[c].name /\ Live(Found(c))
  BY <1>1, EntryFacts
<1>4. DOMAIN at = {"pc", "then"} /\ at["pc"] = "flush" /\ at["then"] = "commit"
  OBVIOUS
<1>. HIDE DEF at, g
<1>5. DOMAIN at \subseteq Fields
  BY <1>4, FieldsAre
<1>6. /\ tree' = tree /\ DOMAIN op' = Callers /\ DOMAIN op'[c] = Fields
      /\ \A e \in Callers \ {c} : op'[e].pc = "idle"
      /\ op'[c]["pc"] = "flush" /\ op'[c]["then"] = "commit"
      /\ \A f \in Fields \ {"pc", "then"} : op'[c][f] = op[c][f]
  BY <1>1, <1>4, <1>5, GoesOn
<1>7. /\ op'[c]["kind"] = "delete" /\ op'[c]["name"] = op[c]["name"] /\ op'[c]["dir"] = op[c]["dir"]
      /\ op'[c]["cur"] = op[c]["cur"] /\ op'[c]["idx"] = op[c]["idx"] /\ op'[c]["step"] = op[c]["step"]
  BY <1>1, <1>6, FieldsAre
<1>8. op[c].dir = d /\ op[c].step = 0
  BY <1>1, <1>3 DEF Asked
<1>9. At2(op[c])' = At2(op[c]) /\ Dropped(op[c])' = s
  BY <1>1, <1>6, <1>7 DEF At2, Dropped
<1>10. HoleOK(op[c])'
  BY <1>1, <1>2, <1>3, <1>7, <1>8, <1>9 DEF HoleOK
<1>11. Deleting(op[c])'
  BY <1>1, <1>2, <1>7, <1>8, <1>9, <1>10 DEF Deleting, Sound
<1>12. Flushed(op[c].step)'
  BY <1>7, <1>8, DivIs DEF Flushed
<1>13. op'[c].step \in 0..2 * FatSectors - 1
  BY <1>7, <1>8, SectorsIs
<1>14. InFlush(op[c])'
  BY <1>6, <1>11, <1>12, <1>13 DEF InFlush
<1>15. Phase(op[c])'
  BY <1>6, <1>14 DEF Phase
<1>16. fat' \in Fats /\ disk_fat' \in [1..2 -> Fats] /\ (cwd.cluster \in DOMAIN tree)'
  BY <1>1, <1>2, <1>6 DEF FatInv
<1>. QED
  BY <1>6, <1>15, <1>16, StillInv
-----------------------------------------------------------------------------
(***************************************************************************)
(* Clusters are taken.                                                     *)
(***************************************************************************)
LEMMA AllocIs ==
  ASSUME FreeClusters(fat) # {}, NEW prev
  PROVE  LET new == LowestIn(FreeClusters(fat))
         IN  AllocLinked(prev) = Linked(fat, new, prev) /\ new \in Clusters /\ fat[new] = Free
BY LowestFree DEF AllocLinked, Linked

\* A write that has taken one cluster more.
LEMMA OneMore ==
  ASSUME NEW c \in Callers, InData(op[c]), NEW new \in Clusters, fat[new] = Free,
         fat' = Linked(fat, new, op[c].prev), NEW block, sector' = [sector EXCEPT ![new] = block],
         cwd' = cwd,
         op'[c].kind = op[c].kind, op'[c].name = op[c].name, op'[c].arg = op[c].arg,
         op'[c].dir = op[c].dir, op'[c].cur = op[c].cur, op'[c].idx = op[c].idx,
         op'[c].exists = op[c].exists
  PROVE  /\ \E pend \in SUBSET Clusters :
              /\ Making(op[c], Area(op[c]), pend)'
              /\ Run(fat', pend, IF op[c].first = 0 THEN new ELSE op[c].first, new, op[c].step + 1)
         /\ Spare' = Spare - 1 /\ fat' \in Fats
<1>. DEFINE o == op[c]
            s == Area(o)
            p == At2(o)
<1>1. PICK pend \in SUBSET Clusters : Making(o, s, pend) /\ Run(fat, pend, o.first, o.prev, o.step)
  BY DEF InData
<1>2. /\ o.kind = "write" /\ o.step \in Nat
  BY DEF InData
<1>3. PICK dirs \in SUBSET Clusters : Vol(fat, s, dirs, pend) /\ PathOK(fat, s, dirs, cwd)
  BY <1>1 DEF Making, Sound
<1>4. /\ o.name \in Names /\ o.dir = cwd.cluster /\ o.arg \in Contents
      /\ \A q \in Ents(fat, s, o.dir) : Ent(s, q).name # o.name
      /\ o.exists => HoleOK(o) /\ Ent(sector, p).attr = "file"
  BY <1>1, <1>2 DEF Making, NotIn
<1>5. o.dir \in dirs /\ DOMAIN s = Clusters
  <2>1. o.dir \in dirs
    BY <1>3, <1>4 DEF PathOK
  <2>. HIDE DEF s
  <2>2. DOMAIN s = Clusters
    BY <1>3, DirFacts
  <2>. QED
    BY <2>1, <2>2
<1>. DEFINE g  == Linked(fat, new, o.prev)
            s1 == IF op[c].exists THEN Put(sector', p, Deleted) ELSE sector'
<1>6. At2(op[c])' = p
  BY DEF At2
<1>7. o.exists => p \in Places(fat, o.dir) /\ p[1] = o.cur /\ s = Put(sector, p, Deleted) /\ s1 = Put(sector', p, Deleted)
  BY <1>4 DEF Area, Dropped, HoleOK, At2
<1>8. ~o.exists => s = sector /\ s1 = sector'
  BY DEF Area
<1>9. DOMAIN sector = Clusters /\ DOMAIN s1 = Clusters /\ \A a \in Clusters : a # new => s1[a] = s[a]
  <2>1. CASE o.exists
    <3>1. DOMAIN sector = Clusters
      BY <1>4, <2>1 DEF HoleOK
    <3>2. DOMAIN sector' = Clusters /\ \A a \in Clusters : a # new => sector'[a] = sector[a]
      BY <3>1
    <3>3. /\ s = [sector EXCEPT ![p[1]] = [@ EXCEPT ![p[2]] = Deleted]]
          /\ s1 = [sector' EXCEPT ![p[1]] = [@ EXCEPT ![p[2]] = Deleted]]
      BY <1>7, <2>1 DEF Put
    <3>. HIDE DEF s, s1, p
    <3>. QED
      BY <3>1, <3>2, <3>3
  <2>2. CASE ~o.exists
    BY <1>5, <1>8, <2>2
  <2>. QED
    BY <2>1, <2>2
<1>. HIDE DEF s, s1
<1>18. OnlyAt(s, s1, new)
  BY <1>9 DEF OnlyAt
<1>10. /\ Vol(g, s1, dirs, pend \cup {new})
       /\ Run(g, pend \cup {new}, IF o.step = 0 THEN new ELSE o.first, new, o.step + 1)
       /\ Taken(fat, s, g, s1, dirs, new)
  BY <1>1, <1>3, <1>18, ClusterTaken
<1>11. fat' = g /\ Spare' = Spare - 1 /\ fat' \in Fats
  BY <1>10, DirFacts DEF Spare, Taken
<1>12. Run(fat', pend \cup {new}, IF o.first = 0 THEN new ELSE o.first, new, o.step + 1)
  <2>1. o.step = 0 <=> o.first = 0
    BY <1>1, <1>2 DEF Run
  <2>. QED
    BY <1>10, <1>11, <2>1
<1>13. Vol(fat', s1, dirs, pend \cup {new}) /\ PathOK(fat', s1, dirs, cwd')
  BY <1>3, <1>10, <1>11 DEF Taken
<1>14. \A q \in Ents(fat', s1, o.dir) : Ent(s1, q).name # o.name
  BY <1>4, <1>5, <1>10, <1>11, EntIn DEF Taken
<1>15. ASSUME o.exists  PROVE HoleOK(op[c])' /\ Ent(sector, At2(op[c]))'.attr = "file"
  <2>1. p \in Places(fat', o.dir) /\ p[1] # new /\ p[1] = o.cur /\ o.cur \in Clusters
    <3>1. \A d \in dirs : \A q \in Places(fat, d) : q[1] \in Clusters
      BY <1>3, DirFacts
    <3>. QED
      BY <1>5, <1>7, <1>10, <1>11, <1>15, <3>1 DEF Taken
  <2>2. sector'[o.cur] = sector[o.cur] /\ DOMAIN sector' = Clusters
    BY <1>9, <2>1
  <2>3. Ent(sector', p) = Ent(sector, p)
    BY <2>1, <2>2 DEF Ent
  <2>. HIDE DEF p
  <2>. QED
    BY <1>4, <1>6, <1>15, <2>1, <2>2, <2>3 DEF HoleOK, p
<1>16. Area(op[c])' = s1
  BY <1>6 DEF Area, Dropped, s1
<1>17. Making(op[c], Area(op[c]), pend \cup {new})'
  BY <1>2, <1>4, <1>13, <1>14, <1>15, <1>16 DEF Making, Sound, NotIn
<1>. QED
  BY <1>11, <1>12, <1>17
LEMMA WriteBlockKeeps ==
  ASSUME FatInv, Events = {}, NEW c \in Callers, WriteBlock(c)  PROVE FatInv'
<1>. DEFINE new   == LowestIn(FreeClusters(fat))
            step  == op[c].step + 1
            block == IF op[c].arg = <<>> THEN ZeroSector ELSE op[c].arg[step]
            more  == step < Needed(op[c].arg)
            at    == [first |-> IF op[c].first = 0 THEN new ELSE op[c].first,
                      prev |-> new,
                      step |-> IF more THEN step ELSE 0,
                      pc |-> IF more THEN "data" ELSE "flush",
                      then |-> IF op[c].exists THEN "reread" ELSE "slot"]
<1>1. /\ op[c].pc = "data" /\ MayRun(c) /\ FreeClusters(fat) # {} /\ fat' = AllocLinked(op[c].prev)
      /\ sector' = [sector EXCEPT ![new] = block] /\ Goto(c, at)
      /\ disk_fat' = disk_fat /\ cwd' = cwd
  BY DEF WriteBlock, At
<1>2. /\ DOMAIN at = {"first", "prev", "step", "pc", "then"}
      /\ at["first"] = (IF op[c].first = 0 THEN new ELSE op[c].first)
      /\ at["step"] = (IF more THEN step ELSE 0) /\ at["prev"] = new
      /\ at["pc"] = (IF more THEN "data" ELSE "flush")
      /\ at["then"] = (IF op[c].exists THEN "reread" ELSE "slot")
  OBVIOUS
<1>. HIDE DEF at, block
<1>3. DOMAIN at \subseteq Fields
  BY <1>2, FieldsAre
<1>4. /\ Phase(op[c]) /\ tree' = tree /\ DOMAIN op' = Callers /\ DOMAIN op'[c] = Fields
      /\ \A e \in Callers \ {c} : op'[e].pc = "idle"
      /\ \A f \in DOMAIN at : op'[c][f] = at[f]
      /\ \A f \in Fields \ {"first", "prev", "step", "pc", "then"} : op'[c][f] = op[c][f]
  BY <1>1, <1>2, <1>3, GoesOn
<1>5. /\ op'[c]["kind"] = op[c]["kind"] /\ op'[c]["name"] = op[c]["name"] /\ op'[c]["arg"] = op[c]["arg"]
      /\ op'[c]["dir"] = op[c]["dir"] /\ op'[c]["cur"] = op[c]["cur"] /\ op'[c]["idx"] = op[c]["idx"]
      /\ op'[c]["exists"] = op[c]["exists"]
  BY <1>4, FieldsAre
<1>6. /\ op'[c]["first"] = (IF op[c].first = 0 THEN new ELSE op[c].first) /\ op'[c]["prev"] = new
      /\ op'[c]["step"] = (IF more THEN step ELSE 0) /\ op'[c]["pc"] = (IF more THEN "data" ELSE "flush")
      /\ op'[c]["then"] = (IF op[c].exists THEN "reread" ELSE "slot")
  BY <1>2, <1>4
<1>7. InData(op[c])
  BY <1>1, <1>4 DEF Phase
<1>8. /\ fat' = Linked(fat, new, op[c].prev) /\ new \in Clusters /\ fat[new] = Free
  BY <1>1, AllocIs
<1>. HIDE DEF new
<1>9. /\ \E pend \in SUBSET Clusters :
           /\ Making(op[c], Area(op[c]), pend)'
           /\ Run(fat', pend, IF op[c].first = 0 THEN new ELSE op[c].first, new, op[c].step + 1)
      /\ Spare' = Spare - 1 /\ fat' \in Fats
  BY <1>1, <1>5, <1>7, <1>8, OneMore
<1>10. PICK pend \in SUBSET Clusters :
         Making(op[c], Area(op[c]), pend)' /\ Run(fat', pend, op'[c].first, new, step)
  BY <1>6, <1>9
<1>11. /\ op[c].kind = "write" /\ op[c].step \in Nat /\ op[c].step < Needed(op[c].arg)
       /\ Spare >= Needed(op[c].arg) - op[c].step + (IF op[c].exists THEN 0 ELSE 1)
  BY <1>7 DEF InData
<1>12. op[c].arg \in Contents
  BY <1>7, <1>11 DEF InData, Making
<1>13. /\ Needed(op[c].arg) \in Nat /\ Spare \in Nat /\ step \in Nat /\ step > 0
       /\ Spare' >= Needed(op[c].arg) - step + (IF op[c].exists THEN 0 ELSE 1)
  BY <1>9, <1>11, <1>12, NeededIs, FreeSet DEF Spare
<1>14. ASSUME more  PROVE Phase(op[c])'
  <2>1. op'[c].pc = "data" /\ op'[c].step = step
    BY <1>6, <1>14
  <2>2. InData(op[c])'
    BY <1>5, <1>6, <1>10, <1>11, <1>13, <1>14, <2>1 DEF InData
  <2>. QED
    BY <2>1, <2>2 DEF Phase
<1>15. ASSUME ~more  PROVE Phase(op[c])'
  <2>1. op'[c].pc = "flush" /\ op'[c].step = 0 /\ step = Needed(op[c].arg)
    <3>1. op'[c].pc = "flush" /\ op'[c].step = 0
      BY <1>6, <1>15
    <3>2. ~(op[c].step + 1 < Needed(op[c].arg))
      BY <1>15
    <3>3. op[c].step + 1 = Needed(op[c].arg)
      <4>1. op[c].step \in Nat /\ Needed(op[c].arg) \in Nat /\ op[c].step < Needed(op[c].arg)
        BY <1>11, <1>13
      <4>2. \A a, b \in Nat : a < b /\ ~(a + 1 < b) => a + 1 = b
        OBVIOUS
      <4>. QED
        BY <3>2, <4>1, <4>2
    <3>. QED
      BY <3>1, <3>3
  <2>2. /\ Chained(fat', op'[c].first) /\ pend = InChain(fat', op'[c].first)
        /\ Len(Chain(fat', op'[c].first)) = step
    BY <1>10, <1>13 DEF Run
  <2>3. Making(op[c], Area(op[c]), InChain(fat, op[c].first))'
    BY <1>10, <2>2
  <2>4. Whole(op[c])' = step
    BY <1>5, <1>11, <2>1 DEF Whole
  <2>5. Made(op[c], Area(op[c]))'
    BY <2>2, <2>3, <2>4 DEF Made
  <2>6. Flushed(op[c].step)'
    BY <2>1, DivIs DEF Flushed
  <2>7. op'[c].step \in 0..2 * FatSectors - 1
    BY <2>1, SectorsIs
  <2>8. CASE op[c].exists
    <3>1. op'[c].then = "reread" /\ op'[c].exists
      BY <1>5, <1>6, <2>8
    <3>2. InFlush(op[c])'
      BY <2>5, <2>6, <2>7, <3>1 DEF InFlush
    <3>. QED
      BY <2>1, <3>2 DEF Phase
  <2>9. CASE ~op[c].exists
    <3>1. op'[c].then = "slot" /\ ~op'[c].exists /\ op'[c].kind = "write"
      BY <1>5, <1>6, <1>11, <2>9
    <3>2. Made(op[c], sector)'
      BY <2>5, <3>1 DEF Area
    <3>3. Spare' >= 1
      BY <1>13, <2>1, <2>9
    <3>4. InFlush(op[c])'
      BY <2>6, <2>7, <3>1, <3>2, <3>3 DEF InFlush
    <3>. QED
      BY <2>1, <3>4 DEF Phase
  <2>. QED
    BY <2>8, <2>9
<1>16. op'[c].pc # "idle"
  BY <1>6
<1>17. fat' \in Fats /\ disk_fat' \in [1..2 -> Fats] /\ (cwd.cluster \in DOMAIN tree)'
  BY <1>1, <1>4, <1>9 DEF FatInv
<1>. QED
  BY <1>4, <1>14, <1>15, <1>16, <1>17, StillInv

LEMMA NewDirectoryKeeps ==
  ASSUME FatInv, Events = {}, NEW c \in Callers, NewDirectory(c)  PROVE FatInv'
<1>. DEFINE new == LowestIn(FreeClusters(fat))
            at  == [first |-> new, pc |-> "flush", then |-> "zero"]
            dirs == DOMAIN tree
<1>1. /\ op[c].pc = "newdir" /\ MayRun(c) /\ FreeClusters(fat) # {} /\ fat' = AllocLinked(0)
      /\ sector' = sector /\ Goto(c, at) /\ disk_fat' = disk_fat /\ cwd' = cwd
  BY DEF NewDirectory, At
<1>2. DOMAIN at = {"first", "pc", "then"} /\ at["first"] = new /\ at["pc"] = "flush" /\ at["then"] = "zero"
  OBVIOUS
<1>. HIDE DEF at
<1>3. DOMAIN at \subseteq Fields
  BY <1>2, FieldsAre
<1>4. /\ Phase(op[c]) /\ tree' = tree /\ DOMAIN op' = Callers /\ DOMAIN op'[c] = Fields
      /\ \A e \in Callers \ {c} : op'[e].pc = "idle"
      /\ op'[c]["first"] = new /\ op'[c]["pc"] = "flush" /\ op'[c]["then"] = "zero"
      /\ \A f \in Fields \ {"first", "pc", "then"} : op'[c][f] = op[c][f]
  BY <1>1, <1>2, <1>3, GoesOn
<1>5. /\ op'[c]["kind"] = op[c]["kind"] /\ op'[c]["name"] = op[c]["name"] /\ op'[c]["idx"] = op[c]["idx"]
      /\ op'[c]["dir"] = op[c]["dir"] /\ op'[c]["exists"] = op[c]["exists"]
      /\ op'[c]["step"] = op[c]["step"]
  BY <1>4, FieldsAre
<1>6. /\ Untouched /\ Asked(op[c]) /\ op[c].kind = "mkdir" /\ NotIn(sector, op[c].dir, op[c].name)
      /\ Spare >= 2
  BY <1>1, <1>4 DEF Phase
<1>7. /\ ~op[c].exists /\ op[c].step = 0 /\ op[c].idx = 0 /\ op[c].dir = cwd.cluster /\ op[c].name \in Names
  BY <1>6 DEF Asked
<1>8. /\ fat' = Linked(fat, new, 0) /\ new \in Clusters /\ fat[new] = Free
  BY <1>1, AllocIs
<1>9. /\ Vol(fat, sector, dirs, {}) /\ PathOK(fat, sector, dirs, cwd) /\ cwd.cluster \in dirs
      /\ dirs \subseteq Clusters /\ DOMAIN sector = Clusters
  BY <1>6, UntouchedIs, DirFacts
<1>10. Run(fat, {}, 0, 0, 0) /\ OnlyAt(sector, sector, new)
  BY <1>9 DEF Run, OnlyAt
<1>. HIDE DEF new, dirs
<1>11. /\ Vol(fat', sector, dirs, {} \cup {new})
       /\ Run(fat', {} \cup {new}, IF 0 = 0 THEN new ELSE 0, new, 0 + 1)
       /\ Taken(fat, sector, fat', sector, dirs, new)
  BY <1>8, <1>9, <1>10, ClusterTaken
<1>12. /\ Chained(fat', new) /\ {} \cup {new} = InChain(fat', new) /\ Len(Chain(fat', new)) = 1
  BY <1>11 DEF Run
<1>13. Vol(fat', sector, dirs, InChain(fat', new)) /\ PathOK(fat', sector, dirs, cwd)
  BY <1>9, <1>11, <1>12 DEF Taken
<1>14. \A q \in Ents(fat', sector, cwd.cluster) : Ent(sector, q).name # op[c].name
  BY <1>6, <1>7, <1>9, <1>11 DEF Taken, NotIn
<1>15. Making(op[c], sector, InChain(fat, op[c].first))'
  BY <1>1, <1>4, <1>5, <1>6, <1>7, <1>9, <1>13, <1>14 DEF Making, Sound, NotIn
<1>16. Made(op[c], sector)'
  BY <1>4, <1>5, <1>6, <1>12, <1>15 DEF Made, Whole
<1>17. Spare' >= 1 /\ fat' \in Fats
  <2>1. Spare' = Spare - 1 /\ Spare \in Nat
    BY <1>11, FreeSet DEF Taken, Spare
  <2>. QED
    BY <1>6, <1>13, <2>1, DirFacts
<1>18. NewCluster(op[c])'
  BY <1>5, <1>6, <1>7, <1>16, <1>17 DEF NewCluster
<1>19. Flushed(op[c].step)' /\ op'[c].step \in 0..2 * FatSectors - 1
  <2>1. op'[c].step = 0
    BY <1>5, <1>7
  <2>2. Flushed(op[c].step)'
    BY <2>1, DivIs DEF Flushed
  <2>. QED
    BY <2>1, <2>2, SectorsIs
<1>20. InFlush(op[c])'
  BY <1>4, <1>18, <1>19 DEF InFlush
<1>21. Phase(op[c])'
  BY <1>4, <1>20 DEF Phase
<1>22. fat' \in Fats /\ disk_fat' \in [1..2 -> Fats] /\ (cwd.cluster \in DOMAIN tree)'
  BY <1>1, <1>4, <1>17 DEF FatInv
<1>. QED
  BY <1>4, <1>21, <1>22, StillInv

LEMMA DiskFullNever ==
  ASSUME FatInv, NEW c \in Callers, DiskFull(c)  PROVE FALSE
<1>1. FreeClusters(fat) = {} /\ op[c].pc \in {"data", "newdir", "extend"}
  BY DEF DiskFull, At
<1>2. Spare = 0
  BY <1>1, FreeSet DEF Spare
<1>3. Phase(op[c])
  BY <1>1 DEF FatInv
<1>4. CASE op[c].pc = "data"
  <2>1. /\ op[c].kind = "write" /\ op[c].step \in Nat /\ op[c].step < Needed(op[c].arg)
        /\ Spare >= Needed(op[c].arg) - op[c].step + (IF op[c].exists THEN 0 ELSE 1)
        /\ op[c].arg \in Contents
    BY <1>3, <1>4 DEF Phase, InData, Making
  <2>2. Needed(op[c].arg) \in Nat
    BY <2>1, NeededIs
  <2>. QED
    BY <1>2, <2>1, <2>2
<1>5. CASE op[c].pc = "newdir"
  BY <1>2, <1>3, <1>5 DEF Phase
<1>6. CASE op[c].pc = "extend"
  BY <1>2, <1>3, <1>6 DEF Phase, Placing
<1>. QED
  BY <1>1, <1>4, <1>5, <1>6
LEMMA ExtendDirectoryKeeps ==
  ASSUME FatInv, Events = {}, NEW c \in Callers, ExtendDirectory(c)  PROVE FatInv'
<1>. DEFINE new == LowestIn(FreeClusters(fat))
            cur == op[c].cur
            x   == op[c].first
            n   == Len(Chain(fat, x))
            prev == Chain(fat, x)[n]
            d   == cwd.cluster
            s1  == [sector EXCEPT ![new] = ZeroSector]
            at  == [cur |-> new, idx |-> 1, pc |-> "flush", then |-> "zero"]
<1>1. /\ op[c].pc = "extend" /\ MayRun(c) /\ FreeClusters(fat) # {} /\ fat' = AllocLinked(cur)
      /\ sector' = sector /\ Goto(c, at) /\ disk_fat' = disk_fat /\ cwd' = cwd
  BY DEF ExtendDirectory, At
<1>2. /\ DOMAIN at = {"cur", "idx", "pc", "then"} /\ at["cur"] = new /\ at["idx"] = 1 /\ at["pc"] = "flush"
      /\ at["then"] = "zero"
  OBVIOUS
<1>. HIDE DEF at
<1>3. DOMAIN at \subseteq Fields
  BY <1>2, FieldsAre
<1>4. /\ Phase(op[c]) /\ tree' = tree /\ DOMAIN op' = Callers /\ DOMAIN op'[c] = Fields
      /\ \A e \in Callers \ {c} : op'[e].pc = "idle"
      /\ op'[c]["cur"] = new /\ op'[c]["idx"] = 1 /\ op'[c]["pc"] = "flush" /\ op'[c]["then"] = "zero"
      /\ \A f \in Fields \ {"cur", "idx", "pc", "then"} : op'[c][f] = op[c][f]
  BY <1>1, <1>2, <1>3, GoesOn
<1>5. /\ op'[c]["kind"] = op[c]["kind"] /\ op'[c]["name"] = op[c]["name"] /\ op'[c]["arg"] = op[c]["arg"]
      /\ op'[c]["dir"] = op[c]["dir"] /\ op'[c]["exists"] = op[c]["exists"]
      /\ op'[c]["step"] = op[c]["step"] /\ op'[c]["first"] = op[c]["first"]
  BY <1>4, FieldsAre
<1>6. /\ Placing(op[c]) /\ fat[cur] = EOC /\ \A i \in 1..Slots : Live(sector[cur][i])
  BY <1>1, <1>4 DEF Phase
<1>7. /\ op[c].step = 0 /\ ~op[c].exists /\ Made(op[c], sector) /\ Cleared(op[c])
      /\ cur \in InChain(fat, op[c].dir)
  BY <1>6 DEF Placing
<1>8. /\ op[c].kind \in {"write", "mkdir"} /\ op[c].name \in Names /\ op[c].dir = d
      /\ op[c].kind = "write" => op[c].arg \in Contents
      /\ \A q \in Ents(fat, sector, d) : Ent(sector, q).name # op[c].name
      /\ Chained(fat, x) /\ n = Whole(op[c])
  BY <1>7 DEF Made, Making, NotIn
<1>9. PICK dirs \in SUBSET Clusters : Vol(fat, sector, dirs, InChain(fat, x)) /\ PathOK(fat, sector, dirs, cwd)
  BY <1>7 DEF Made, Making, Sound
<1>10. Run(fat, InChain(fat, x), x, prev, n) /\ x \in InChain(fat, x) /\ n > 0
  <2>1. n \in Nat /\ n >= 1 /\ x \in Clusters /\ x \in InChain(fat, x)
    BY <1>8, ChainFacts
  <2>2. x # 0
    BY <2>1, Marks
  <2>. QED
    BY <1>8, <2>1, <2>2 DEF Run
<1>11. /\ fat' = Linked(fat, new, cur) /\ new \in Clusters /\ fat[new] = Free
  BY <1>1, AllocIs
<1>12. d \in dirs
  BY <1>9 DEF PathOK
<1>. HIDE DEF new, cur, x, n, prev, d
<1>13. /\ Vol(fat', s1, dirs, InChain(fat, x)) /\ Run(fat', InChain(fat, x), x, prev, n)
       /\ Longer(fat, sector, fat', s1, dirs, d, new) /\ new \notin InChain(fat, x)
  BY <1>6, <1>7, <1>8, <1>9, <1>10, <1>11, <1>12, DirExtended
<1>14. /\ Chained(fat', x) /\ InChain(fat', x) = InChain(fat, x) /\ Len(Chain(fat', x)) = n
  BY <1>10, <1>13 DEF Run
<1>15. /\ Vol(fat', s1, dirs, InChain(fat', x)) /\ PathOK(fat', s1, dirs, cwd)
       /\ \A q \in Ents(fat', s1, d) : Ent(s1, q).name # op[c].name
       /\ new \in InChain(fat', d)
  BY <1>8, <1>9, <1>13, <1>14 DEF Longer
<1>16. [sector EXCEPT ![op[c].cur] = ZeroSector]' = s1
  BY <1>1, <1>4
<1>. HIDE DEF s1
<1>17. Making(op[c], [sector EXCEPT ![op[c].cur] = ZeroSector], InChain(fat, op[c].first))'
  BY <1>1, <1>5, <1>7, <1>8, <1>15, <1>16 DEF Making, Sound, NotIn, x, d
<1>18. Made(op[c], [sector EXCEPT ![op[c].cur] = ZeroSector])'
  BY <1>5, <1>8, <1>14, <1>17 DEF Made, Whole, x
<1>19. Cleared(op[c])'
  BY <1>1, <1>5, <1>7 DEF Cleared, DotTable
<1>20. new # x
  BY <1>10, <1>13
<1>21. Growing(op[c])'
  BY <1>4, <1>5, <1>7, <1>8, <1>15, <1>18, <1>19, <1>20 DEF Growing, x
<1>22. Flushed(op[c].step)' /\ op'[c].step \in 0..2 * FatSectors - 1
  <2>1. op'[c].step = 0
    BY <1>5, <1>7
  <2>2. Flushed(op[c].step)'
    BY <2>1, DivIs DEF Flushed
  <2>. QED
    BY <2>1, <2>2, SectorsIs
<1>23. InFlush(op[c])'
  BY <1>4, <1>21, <1>22 DEF InFlush
<1>24. Phase(op[c])'
  BY <1>4, <1>23 DEF Phase
<1>25. fat' \in Fats /\ disk_fat' \in [1..2 -> Fats] /\ (cwd.cluster \in DOMAIN tree)'
  <2>1. fat' \in Fats
    BY <1>13, DirFacts
  <2>. QED
    BY <1>1, <1>4, <2>1 DEF FatInv
<1>. QED
  BY <1>4, <1>24, <1>25, StillInv
-----------------------------------------------------------------------------
(***************************************************************************)
(* The FAT is flushed.                                                     *)
(***************************************************************************)
\* What the call has made so far does not depend on where it is.
Alike(o, q) ==
  /\ q.kind = o.kind /\ q.name = o.name /\ q.arg = o.arg /\ q.dir = o.dir /\ q.exists = o.exists
  /\ q.first = o.first

LEMMA MadeStays ==
  ASSUME NEW c \in Callers, fat' = fat, sector' = sector, cwd' = cwd, Alike(op[c], op'[c]), ~op[c].exists
  PROVE  /\ \A s : Made(op[c], s) =>
                /\ op[c].kind \in {"write", "mkdir"} /\ op[c].dir = cwd.cluster
                /\ Chained(fat, op[c].dir) /\ op[c].dir \in InChain(fat, op[c].dir)
         /\ Made(op[c], sector) => Made(op[c], sector)'
         /\ Cleared(op[c]) => Cleared(op[c])'
         /\ Spare' = Spare
<1>1. ASSUME NEW s, Made(op[c], s)
      PROVE  /\ op[c].kind \in {"write", "mkdir"} /\ op[c].dir = cwd.cluster
             /\ Chained(fat, op[c].dir) /\ op[c].dir \in InChain(fat, op[c].dir)
  <2>1. /\ op[c].kind \in {"write", "mkdir"} /\ op[c].dir = cwd.cluster
    BY <1>1 DEF Made, Making
  <2>2. PICK dirs : Vol(fat, s, dirs, InChain(fat, op[c].first)) /\ PathOK(fat, s, dirs, cwd)
    BY <1>1 DEF Made, Making, Sound
  <2>3. cwd.cluster \in dirs
    BY <2>2 DEF PathOK
  <2>4. Chained(fat, op[c].dir)
    BY <2>1, <2>2, <2>3, DirFacts
  <2>. QED
    BY <2>1, <2>4, ChainFacts
<1>2. Made(op[c], sector) => Made(op[c], sector)'
  BY DEF Alike, Made, Making, Sound, NotIn, Whole
<1>3. Cleared(op[c]) => Cleared(op[c])'
  BY DEF Alike, Cleared, DotTable
<1>4. Spare' = Spare
  BY DEF Spare
<1>. QED
  BY <1>1, <1>2, <1>3, <1>4

LEMMA HoleStays ==
  ASSUME NEW c \in Callers, fat' = fat, sector' = sector, cwd' = cwd, Alike(op[c], op'[c]),
         op'[c].cur = op[c].cur, op'[c].idx = op[c].idx
  PROVE  /\ At2(op[c])' = At2(op[c]) /\ Dropped(op[c])' = Dropped(op[c]) /\ Area(op[c])' = Area(op[c])
         /\ HoleOK(op[c]) => HoleOK(op[c])'
         /\ Made(op[c], Area(op[c])) => Made(op[c], Area(op[c]))'
         /\ Deleting(op[c]) /\ g_io_buf' = g_io_buf => Deleting(op[c])'
<1>1. At2(op[c])' = At2(op[c])
  BY DEF At2
<1>2. Dropped(op[c])' = Dropped(op[c])
  BY <1>1 DEF Dropped
<1>3. Area(op[c])' = Area(op[c])
  BY <1>2 DEF Area, Alike
<1>4. HoleOK(op[c]) => HoleOK(op[c])'
  BY <1>1 DEF HoleOK, Alike
<1>5. Ent(sector, At2(op[c]))' = Ent(sector, At2(op[c]))
  BY <1>1
<1>6. Made(op[c], Area(op[c])) => Made(op[c], Area(op[c]))'
  BY <1>3, <1>4, <1>5 DEF Alike, Made, Making, Sound, NotIn, Whole
<1>7. Deleting(op[c]) /\ g_io_buf' = g_io_buf => Deleting(op[c])'
  BY <1>2, <1>4 DEF Alike, Deleting, Sound
<1>. QED
  BY <1>1, <1>2, <1>3, <1>4, <1>6, <1>7

LEMMA GrowingStays ==
  ASSUME NEW c \in Callers, fat' = fat, sector' = sector, cwd' = cwd, Alike(op[c], op'[c]),
         op'[c].idx = op[c].idx
  PROVE  /\ Growing(op[c]) /\ op'[c].cur = op[c].cur => Growing(op[c])'
         /\ NewCluster(op[c]) => NewCluster(op[c])'
<1>1. ASSUME Growing(op[c]), op'[c].cur = op[c].cur  PROVE Growing(op[c])'
  <2>1. Cleared(op[c])'
    BY <1>1, MadeStays DEF Growing
  <2>2. [sector EXCEPT ![op[c].cur] = ZeroSector]' = [sector EXCEPT ![op[c].cur] = ZeroSector]
    BY <1>1
  <2>3. Made(op[c], [sector EXCEPT ![op[c].cur] = ZeroSector])'
    BY <1>1, <2>2 DEF Growing, Alike, Made, Making, Sound, NotIn, Whole
  <2>. QED
    BY <1>1, <2>1, <2>3 DEF Growing, Alike
<1>2. ASSUME NewCluster(op[c])  PROVE NewCluster(op[c])'
  <2>1. Made(op[c], sector)' /\ Spare' = Spare
    BY <1>2, MadeStays DEF NewCluster
  <2>. QED
    BY <1>2, <2>1 DEF NewCluster, Alike
<1>. QED
  BY <1>1, <1>2

\* The sector that is written is one more, and the last makes the copies equal.
LEMMA FlushedMore ==
  ASSUME NEW step \in Nat, Flushed(step), fat \in Fats, disk_fat \in [1..2 -> Fats], fat' = fat,
         disk_fat' = [disk_fat EXCEPT ![(step % 2) + 1] =
           [d \in Clusters |-> IF d \div PerSector = step \div 2 THEN fat[d] ELSE @[d]]]
  PROVE  /\ Flushed(step + 1)' /\ disk_fat' \in [1..2 -> Fats]
         /\ step + 1 >= 2 * FatSectors => Mirrored'
<1>. DEFINE copy1 == (step % 2) + 1
<1>1. copy1 \in 1..2 /\ step = 2 * (step \div 2) + (step % 2) /\ step % 2 \in {0, 1} /\ step \div 2 \in Nat
  OBVIOUS
<1>2. /\ \A copy \in 1..2 : copy # copy1 => disk_fat'[copy] = disk_fat[copy]
      /\ disk_fat'[copy1] =
           [d \in Clusters |-> IF d \div PerSector = step \div 2 THEN fat[d] ELSE disk_fat[copy1][d]]
      /\ DOMAIN disk_fat' = 1..2 /\ disk_fat' = [copy \in 1..2 |-> disk_fat'[copy]]
  BY <1>1
<1>3. /\ DOMAIN fat = Clusters /\ fat = [a \in Clusters |-> fat[a]]
      /\ \A copy \in 1..2 : /\ disk_fat[copy] \in Fats /\ DOMAIN disk_fat[copy] = Clusters
                            /\ disk_fat[copy] = [a \in Clusters |-> disk_fat[copy][a]]
  BY DEF Fats
<1>. HIDE DEF copy1
<1>4. disk_fat'[copy1] \in Fats
  BY <1>1, <1>2, <1>3 DEF Fats
<1>5. disk_fat' \in [1..2 -> Fats]
  BY <1>2, <1>3, <1>4
<1>6. ASSUME NEW a \in Clusters, NEW copy \in 1..2, 2 * (a \div PerSector) + copy - 1 < step + 1
      PROVE  disk_fat'[copy][a] = fat[a]
  <2>1. a \div PerSector \in Nat
    BY DivIs
  <2>2. CASE 2 * (a \div PerSector) + copy - 1 < step
    <3>1. disk_fat[copy][a] = fat[a]
      BY <2>2 DEF Flushed
    <3>. QED
      BY <1>2, <3>1
  <2>3. CASE ~(2 * (a \div PerSector) + copy - 1 < step)
    <3>1. 2 * (a \div PerSector) + copy - 1 = step
      BY <1>6, <2>1, <2>3
    <3>2. a \div PerSector = step \div 2 /\ copy = copy1
      <4>1. \A q, h \in Nat, k \in 1..2, r \in {0, 1} : 2 * q + k - 1 = 2 * h + r => q = h /\ k = r + 1
        OBVIOUS
      <4>2. 2 * (a \div PerSector) + copy - 1 = 2 * (step \div 2) + (step % 2)
        BY <1>1, <3>1
      <4>. QED
        BY <1>1, <2>1, <4>1, <4>2 DEF copy1
    <3>. QED
      BY <1>2, <3>2
  <2>. QED
    BY <2>2, <2>3
<1>7. Flushed(step + 1)'
  BY <1>6 DEF Flushed
<1>8. ASSUME step + 1 >= 2 * FatSectors  PROVE Mirrored'
  <2>1. ASSUME NEW a \in Clusters, NEW copy \in 1..2  PROVE disk_fat'[copy][a] = fat[a]
    <3>1. a \div PerSector \in Nat /\ a \div PerSector <= Last \div PerSector /\ Last \div PerSector \in Nat
      BY DivIs, SectorsIs, Consts
    <3>2. 2 * (a \div PerSector) + copy - 1 < step + 1
      BY <1>8, <3>1 DEF FatSectors
    <3>. QED
      BY <1>6, <3>2
  <2>2. ASSUME NEW copy \in 1..2  PROVE disk_fat'[copy] = fat
    <3>1. disk_fat'[copy] \in Fats
      BY <1>5
    <3>. QED
      BY <1>3, <2>1, <3>1 DEF Fats
  <2>. QED
    BY <1>2, <2>2 DEF Mirrored
<1>. QED
  BY <1>5, <1>7, <1>8
LEMMA HoleSlot ==
  ASSUME NEW o, o.exists, Made(o, Area(o))
  PROVE  Slot(o, Area(o)) /\ o.kind = "write" /\ o.idx # 0
<1>. DEFINE p == At2(o)
<1>1. /\ o.kind = "write" /\ HoleOK(o) /\ Area(o) = Put(sector, p, Deleted) /\ o.dir = cwd.cluster
  BY DEF Made, Making, Area, Dropped
<1>2. /\ p \in Places(fat, o.dir) /\ DOMAIN sector = Clusters /\ sector[o.cur] \in Tables
      /\ p[1] = o.cur /\ p[2] = o.idx
  BY <1>1 DEF HoleOK, At2
<1>3. PICK dirs : Vol(fat, Area(o), dirs, InChain(fat, o.first)) /\ PathOK(fat, Area(o), dirs, cwd)
  BY DEF Made, Making, Sound
<1>4. o.dir \in dirs
  BY <1>1, <1>3 DEF PathOK
<1>5. o.cur \in InChain(fat, o.dir) /\ o.idx \in 1..Slots /\ o.cur \in Clusters
  BY <1>2, <1>3, <1>4, EntIn, DirFacts
<1>6. TableOK(fat, Area(o), o.cur)
  BY <1>3, <1>4, <1>5, DirFacts
<1>7. Area(o)[o.cur][o.idx] = Deleted
  <2>1. sector[o.cur] \in [1..Slots -> Entry] /\ Deleted \in Entry
    BY <1>2, EntriesAre DEF Entry
  <2>2. <<o.cur, o.idx>> \in Clusters \X (1..Slots) /\ p = <<o.cur, o.idx>>
    BY <1>5 DEF At2
  <2>3. Put(sector, p, Deleted)[p[1]][p[2]] = Deleted
    <3>1. p \in Clusters \X (1..Slots)
      BY <2>2
    <3>2. sector[p[1]] \in [1..Slots -> Entry]
      BY <1>2, <2>1
    <3>. HIDE DEF p
    <3>3. DOMAIN sector = Clusters /\ Deleted \in Entry
      BY <1>2, <2>1
    <3>. QED
      BY <3>1, <3>2, <3>3, PutIs
  <2>. QED
    BY <1>1, <1>2, <2>3
<1>8. \A j \in 1..o.idx - 1 : Area(o)[o.cur][j] # End
  BY <1>5, <1>6, <1>7, BeforeLive, EntriesAre
<1>9. At2(o) \in Places(fat, o.dir) /\ Area(o)[o.cur][o.idx] \in {End, Deleted} /\ o.idx # 0
  BY <1>2, <1>5, <1>7, Consts
<1>. QED
  BY <1>1, <1>8, <1>9 DEF Slot

LEMMA FlushSectorKeeps ==
  ASSUME FatInv, Events = {}, NEW c \in Callers, FlushSector(c)  PROVE FatInv'
<1>1. /\ op[c].pc = "flush" /\ MayRun(c) /\ fat' = fat /\ sector' = sector /\ cwd' = cwd
      /\ g_io_buf' = g_io_buf
  BY DEF FlushSector, At
<1>2. InFlush(op[c]) /\ fat \in Fats /\ disk_fat \in [1..2 -> Fats]
  BY <1>1 DEF FatInv, Phase
<1>3. op[c].step \in 0..2 * FatSectors - 1 /\ Flushed(op[c].step) /\ op[c].step \in Nat
  BY <1>2, SectorsIs DEF InFlush
<1>9. PICK step \in Nat : step = op[c].step
  BY <1>3
<1>10. /\ disk_fat' = [disk_fat EXCEPT ![(step % 2) + 1] =
            [d \in Clusters |-> IF d \div PerSector = step \div 2 THEN fat[d] ELSE @[d]]]
       /\ IF step + 1 < 2 * FatSectors THEN Goto(c, [step |-> step + 1]) ELSE Goto(c, AfterFlush(c))
  BY <1>9 DEF FlushSector
<1>11. Flushed(step)
  BY <1>3, <1>9
<1>4. /\ Flushed(step + 1)' /\ disk_fat' \in [1..2 -> Fats]
      /\ step + 1 >= 2 * FatSectors => Mirrored'
  BY <1>1, <1>2, <1>10, <1>11, FlushedMore
<1>5. fat' \in Fats 
  BY <1>1, <1>2
<1>8. disk_fat' \in [1..2 -> Fats]
  BY <1>4
<1>6. ASSUME step + 1 < 2 * FatSectors, Goto(c, [step |-> step + 1])  PROVE FatInv'
  <2>. DEFINE at == [step |-> step + 1]
  <2>1. DOMAIN at = {"step"} /\ at["step"] = step + 1 /\ Goto(c, at)
    BY <1>6
  <2>. HIDE DEF at
  <2>2. DOMAIN at \subseteq Fields
    BY <2>1, FieldsAre
  <2>3. /\ tree' = tree /\ DOMAIN op' = Callers /\ DOMAIN op'[c] = Fields
        /\ \A e \in Callers \ {c} : op'[e].pc = "idle"
        /\ op'[c]["step"] = step + 1 /\ \A f \in Fields \ {"step"} : op'[c][f] = op[c][f]
    BY <1>1, <2>1, <2>2, GoesOn
  <2>4. /\ op'[c]["kind"] = op[c]["kind"] /\ op'[c]["name"] = op[c]["name"] /\ op'[c]["arg"] = op[c]["arg"]
        /\ op'[c]["dir"] = op[c]["dir"] /\ op'[c]["exists"] = op[c]["exists"]
        /\ op'[c]["first"] = op[c]["first"] /\ op'[c]["cur"] = op[c]["cur"]
        /\ op'[c]["idx"] = op[c]["idx"] /\ op'[c]["then"] = op[c]["then"] /\ op'[c]["pc"] = "flush"
    BY <1>1, <2>3, FieldsAre
  <2>5. Alike(op[c], op'[c])
    BY <2>4 DEF Alike
  <2>6. /\ Deleting(op[c]) => Deleting(op[c])'
        /\ Made(op[c], Area(op[c])) => Made(op[c], Area(op[c]))'
    BY <1>1, <2>4, <2>5, HoleStays
  <2>7. ~op[c].exists /\ Made(op[c], sector) => Made(op[c], sector)' /\ Spare' = Spare
    BY <1>1, <2>5, MadeStays
  <2>8. (Growing(op[c]) => Growing(op[c])') /\ (NewCluster(op[c]) => NewCluster(op[c])')
    BY <1>1, <2>4, <2>5, GrowingStays
  <2>9. \/ op[c].then = "commit" /\ Deleting(op[c])
        \/ op[c].then = "reread" /\ op[c].exists /\ Made(op[c], Area(op[c]))
        \/ op[c].then = "slot" /\ ~op[c].exists /\ op[c].kind = "write" /\ Made(op[c], sector) /\ Spare >= 1
        \/ op[c].then = "zero" /\ (NewCluster(op[c]) \/ Growing(op[c]))
    BY <1>2 DEF InFlush
  <2>10. op'[c].step \in 0..2 * FatSectors - 1
    <3>1. \A n, m \in Nat : n + 1 < 2 * m => n + 1 \in 0..2 * m - 1
      OBVIOUS
    <3>2. op'[c].step = step + 1
      BY <2>3
    <3>3. FatSectors \in Nat
      BY SectorsIs
    <3>. QED
      BY <1>6, <3>1, <3>2, <3>3
  <2>11. Flushed(op[c].step)'
    <3>1. op'[c].step = step + 1
      BY <2>3
    <3>. QED
      BY <1>4, <3>1
  <2>12. InFlush(op[c])'
    BY <2>4, <2>6, <2>7, <2>8, <2>9, <2>10, <2>11 DEF InFlush
  <2>13. Phase(op[c])'
    BY <2>4, <2>12 DEF Phase
  <2>14. (cwd.cluster \in DOMAIN tree)'
    BY <1>1, <2>3 DEF FatInv
  <2>15. op'[c].pc # "idle"
    BY <2>4
  <2>. QED
    BY <1>5, <1>8, <2>3, <2>13, <2>14, <2>15, StillInv
<1>7. ASSUME ~(step + 1 < 2 * FatSectors), Goto(c, AfterFlush(c))  PROVE FatInv'
  <2>. DEFINE at   == AfterFlush(c)
              then == op[c].then
              cur1 == IF then = "slot" THEN op[c].dir
                      ELSE IF then = "zero" /\ op[c].idx = 0 THEN op[c].first ELSE op[c].cur
  <2>1. DOMAIN at = {"pc", "step", "cur"} /\ at["pc"] = then /\ at["step"] = 0 /\ at["cur"] = cur1 /\ Goto(c, at)
    BY <1>7 DEF AfterFlush
  <2>. HIDE DEF at, cur1
  <2>2. DOMAIN at \subseteq Fields
    BY <2>1, FieldsAre
  <2>3. /\ tree' = tree /\ DOMAIN op' = Callers /\ DOMAIN op'[c] = Fields
        /\ \A e \in Callers \ {c} : op'[e].pc = "idle"
        /\ op'[c]["step"] = 0 /\ op'[c]["pc"] = then /\ op'[c]["cur"] = cur1
        /\ \A f \in Fields \ {"pc", "step", "cur"} : op'[c][f] = op[c][f]
    BY <1>1, <2>1, <2>2, GoesOn
  <2>4. /\ op'[c]["kind"] = op[c]["kind"] /\ op'[c]["name"] = op[c]["name"] /\ op'[c]["arg"] = op[c]["arg"]
        /\ op'[c]["dir"] = op[c]["dir"] /\ op'[c]["exists"] = op[c]["exists"]
        /\ op'[c]["first"] = op[c]["first"] /\ op'[c]["idx"] = op[c]["idx"]
    BY <2>3, FieldsAre
  <2>5. Alike(op[c], op'[c])
    BY <2>4 DEF Alike
  <2>6. Mirrored'
    <3>1. \A n, m \in Nat : ~(n + 1 < 2 * m) => n + 1 >= 2 * m
      OBVIOUS
    <3>2. FatSectors \in Nat
      BY SectorsIs
    <3>. QED
      BY <1>3, <1>4, <1>7, <3>1, <3>2
  <2>15. op'[c].step = 0 /\ op'[c].pc = op[c].then /\ op'[c].cur = cur1
    BY <2>3
  <2>7. ASSUME then = "commit" /\ Deleting(op[c])
       PROVE  Phase(op[c])'
    <3>1. op'[c].cur = op[c].cur
      BY <2>15, <2>3, <2>7 DEF cur1
    <3>2. Deleting(op[c])'
      BY <1>1, <2>4, <2>5, <2>7, <3>1, HoleStays
    <3>3. InCommit(op[c])'
      BY <1>1, <2>6, <2>7, <3>1, <3>2 DEF InCommit, Deleting
    <3>4. op'[c].pc = "commit"
      BY <2>7, <2>15
    <3>. QED
      BY <3>3, <3>4 DEF Phase
  <2>8. ASSUME then = "reread" /\ op[c].exists /\ Made(op[c], Area(op[c]))
       PROVE  Phase(op[c])'
    <3>1. op'[c].cur = op[c].cur
      BY <2>15, <2>3, <2>8 DEF cur1
    <3>2. Made(op[c], Area(op[c]))' /\ At2(op[c])' = At2(op[c]) /\ Area(op[c])' = Area(op[c])
      BY <1>1, <2>4, <2>5, <2>8, <3>1, HoleStays
    <3>3. Slot(op[c], Area(op[c])) /\ op[c].kind = "write" /\ op[c].idx # 0
      BY <2>8, HoleSlot
    <3>4. Slot(op[c], Area(op[c]))'
      BY <1>1, <2>4, <3>1, <3>2, <3>3 DEF Slot
    <3>5. Placed(op[c])'
      BY <2>4, <2>6, <3>2, <3>3, <3>4 DEF Placed, Cleared
    <3>6. op'[c].pc = "reread"
      BY <2>8, <2>15
    <3>. QED
      BY <3>5, <3>6 DEF Phase
  <2>9. ASSUME then = "slot" /\ ~op[c].exists /\ op[c].kind = "write" /\ Made(op[c], sector) /\ Spare >= 1
       PROVE  Phase(op[c])'
    <3>1. op'[c].cur = op[c].dir
      BY <2>15, <2>3, <2>9 DEF cur1
    <3>2. Made(op[c], sector)' /\ Spare' = Spare /\ op[c].dir \in InChain(fat, op[c].dir)
      BY <1>1, <2>5, <2>9, MadeStays
    <3>3. Placing(op[c])'
      BY <1>1, <2>4, <2>6, <2>9, <2>15, <3>1, <3>2 DEF Placing, Cleared
    <3>4. op'[c].pc = "slot"
      BY <2>9, <2>15
    <3>. QED
      BY <3>3, <3>4 DEF Phase
  <2>10. ASSUME then = "zero" /\ NewCluster(op[c])
       PROVE  Phase(op[c])'
    <3>1. op'[c].cur = op'[c].first
      BY <2>15, <2>3, <2>4, <2>10 DEF cur1, NewCluster
    <3>2. NewCluster(op[c])'
      BY <1>1, <2>4, <2>5, <2>10, GrowingStays
    <3>3. op'[c].pc = "zero" /\ op'[c].step = 0
      BY <2>10, <2>15
    <3>. QED
      BY <2>6, <3>1, <3>2, <3>3 DEF Phase
  <2>11. ASSUME then = "zero" /\ Growing(op[c])
       PROVE  Phase(op[c])'
    <3>1. op'[c].cur = op[c].cur
      BY <2>15, <2>3, <2>11 DEF cur1, Growing
    <3>2. Growing(op[c])'
      BY <1>1, <2>4, <2>5, <2>11, <3>1, GrowingStays
    <3>3. op'[c].pc = "zero" /\ op'[c].step = 0
      BY <2>11, <2>15
    <3>. QED
      BY <2>6, <3>2, <3>3 DEF Phase
  <2>12. /\ then \in {"commit", "reread", "slot", "zero"}
         /\ \/ then = "commit" /\ Deleting(op[c])
            \/ then = "reread" /\ op[c].exists /\ Made(op[c], Area(op[c]))
            \/ then = "slot" /\ ~op[c].exists /\ op[c].kind = "write" /\ Made(op[c], sector) /\ Spare >= 1
            \/ then = "zero" /\ (NewCluster(op[c]) \/ Growing(op[c]))
    BY <1>2 DEF InFlush
  <2>13. Phase(op[c])'
    BY <2>7, <2>8, <2>9, <2>10, <2>11, <2>12
  <2>16. op'[c].pc # "idle"
    BY <2>12, <2>15
  <2>14. (cwd.cluster \in DOMAIN tree)'
    BY <1>1, <2>3 DEF FatInv
  <2>. QED
    BY <1>5, <1>8, <2>3, <2>13, <2>14, <2>16, StillInv
<1>. QED
  BY <1>6, <1>7, <1>10
-----------------------------------------------------------------------------
(***************************************************************************)
(* The new cluster of a directory, and the slot for the entry.             *)
(***************************************************************************)
\* What the call has made, as the area that is written says it.
LEMMA MadeAgain ==
  ASSUME NEW c \in Callers, NEW s, fat' = fat, cwd' = cwd, sector' = s, Alike(op[c], op'[c]),
         ~op[c].exists, Made(op[c], s)
  PROVE  Made(op[c], sector)'
BY DEF Alike, Made, Making, Sound, NotIn, Whole

\* The call writes to the first cluster that it has made.
LEMMA MadeWritten ==
  ASSUME NEW o, ~o.exists, Made(o, sector), NEW t
  PROVE  /\ Made(o, [sector EXCEPT ![o.first] = t])
         /\ [sector EXCEPT ![o.first] = t][o.first] = t
<1>. DEFINE a  == o.first
            s1 == [sector EXCEPT ![a] = t]
            d  == cwd.cluster
<1>1. /\ o.kind \in {"write", "mkdir"} /\ o.name \in Names /\ o.dir = d
      /\ o.kind = "write" => o.arg \in Contents
      /\ NotIn(sector, o.dir, o.name) /\ Chained(fat, a) /\ Len(Chain(fat, a)) = Whole(o)
  BY DEF Made, Making
<1>2. PICK dirs \in SUBSET Clusters : Vol(fat, sector, dirs, InChain(fat, a)) /\ PathOK(fat, sector, dirs, cwd)
  BY DEF Made, Making, Sound
<1>3. a \in InChain(fat, a)
  BY <1>1, ChainFacts
<1>4. d \in dirs
  BY <1>2 DEF PathOK
<1>. HIDE DEF a, d
<1>5. /\ Vol(fat, s1, dirs, InChain(fat, a)) /\ s1[a] = t
      /\ \A e \in dirs : Ents(fat, s1, e) = Ents(fat, sector, e)
      /\ \A e \in dirs : \A p \in Places(fat, e) : Ent(s1, p) = Ent(sector, p)
      /\ \A w : PathOK(fat, sector, dirs, w) => PathOK(fat, s1, dirs, w)
  <2>1. PICK pend : pend = InChain(fat, a)
    OBVIOUS
  <2>2. Vol(fat, sector, dirs, pend) /\ a \in pend
    BY <1>2, <1>3, <2>1
  <2>3. /\ Vol(fat, s1, dirs, pend) /\ DOMAIN s1 = Clusters /\ s1[a] = t /\ a \in Clusters
        /\ \A e \in dirs : Ents(fat, s1, e) = Ents(fat, sector, e) /\ a \notin InChain(fat, e)
        /\ \A e \in dirs : \A p \in Places(fat, e) : Ent(s1, p) = Ent(sector, p)
        /\ \A w : PathOK(fat, sector, dirs, w) => PathOK(fat, s1, dirs, w)
    BY <2>2, ClusterWritten
  <2>. HIDE DEF s1
  <2>. QED
    BY <2>1, <2>3
<1>. HIDE DEF s1
<1>6. NotIn(s1, o.dir, o.name)
  <2>1. ASSUME NEW p \in Ents(fat, s1, d)  PROVE Ent(s1, p).name # o.name
    <3>1. p \in Ents(fat, sector, d) /\ p \in Places(fat, d)
      BY <1>4, <1>5, EntIn
    <3>2. Ent(s1, p) = Ent(sector, p)
      BY <1>4, <1>5, <3>1
    <3>. QED
      BY <1>1, <3>1, <3>2 DEF NotIn
  <2>. QED
    BY <1>1, <2>1 DEF NotIn
<1>7. Sound(s1, dirs, InChain(fat, a))
  BY <1>2, <1>5 DEF Sound
<1>8. Made(o, s1)
  BY <1>1, <1>6, <1>7 DEF Made, Making, a, d
<1>. QED
  BY <1>5, <1>8 DEF s1, a

LEMMA MadeHere ==
  ASSUME NEW o, NEW s, Made(o, s)
  PROVE  /\ o.kind \in {"write", "mkdir"} /\ o.dir = cwd.cluster
         /\ Chained(fat, o.dir) /\ o.dir \in InChain(fat, o.dir)
<1>1. o.kind \in {"write", "mkdir"} /\ o.dir = cwd.cluster
  BY DEF Made, Making
<1>2. PICK dirs : Vol(fat, s, dirs, InChain(fat, o.first)) /\ PathOK(fat, s, dirs, cwd)
  BY DEF Made, Making, Sound
<1>3. cwd.cluster \in dirs
  BY <1>2 DEF PathOK
<1>4. Chained(fat, o.dir)
  BY <1>1, <1>2, <1>3, DirFacts
<1>. QED
  BY <1>1, <1>4, ChainFacts

LEMMA ZeroClusterKeeps ==
  ASSUME FatInv, Events = {}, NEW c \in Callers, ZeroCluster(c)  PROVE FatInv'
<1>. DEFINE pc1 == IF op[c].idx = 0 THEN "dots" ELSE "reread"
            at  == [pc |-> pc1]
            s1  == [sector EXCEPT ![op[c].cur] = ZeroSector]
<1>1. /\ op[c].pc = "zero" /\ MayRun(c) /\ fat' = fat /\ disk_fat' = disk_fat /\ cwd' = cwd
      /\ sector' = s1 /\ Goto(c, at)
  BY DEF ZeroCluster, At
<1>2. DOMAIN at = {"pc"} /\ at["pc"] = pc1
  OBVIOUS
<1>. HIDE DEF at
<1>3. DOMAIN at \subseteq Fields
  BY <1>2, FieldsAre
<1>4. /\ Phase(op[c]) /\ tree' = tree /\ DOMAIN op' = Callers /\ DOMAIN op'[c] = Fields
      /\ \A e \in Callers \ {c} : op'[e].pc = "idle"
      /\ op'[c]["pc"] = pc1 /\ \A f \in Fields \ {"pc"} : op'[c][f] = op[c][f]
  BY <1>1, <1>2, <1>3, GoesOn
<1>5. /\ op'[c]["kind"] = op[c]["kind"] /\ op'[c]["name"] = op[c]["name"] /\ op'[c]["arg"] = op[c]["arg"]
      /\ op'[c]["dir"] = op[c]["dir"] /\ op'[c]["exists"] = op[c]["exists"]
      /\ op'[c]["first"] = op[c]["first"] /\ op'[c]["cur"] = op[c]["cur"]
      /\ op'[c]["idx"] = op[c]["idx"] /\ op'[c]["step"] = op[c]["step"]
  BY <1>4, FieldsAre
<1>6. Alike(op[c], op'[c])
  BY <1>5 DEF Alike
<1>7. /\ Mirrored /\ op[c].step = 0
      /\ (NewCluster(op[c]) /\ op[c].cur = op[c].first) \/ Growing(op[c])
  BY <1>1, <1>4 DEF Phase
<1>8. Mirrored' /\ op'[c].step = 0
  BY <1>1, <1>5, <1>7 DEF Mirrored
<1>9. ASSUME NewCluster(op[c]), op[c].cur = op[c].first  PROVE Phase(op[c])'
  <2>1. op[c].kind = "mkdir" /\ op[c].idx = 0 /\ ~op[c].exists /\ Made(op[c], sector) /\ Spare >= 1
    BY <1>9 DEF NewCluster
  <2>2. Made(op[c], s1) /\ s1[op[c].cur] = ZeroSector
    BY <1>9, <2>1, MadeWritten
  <2>3. Made(op[c], sector)'
    BY <1>1, <1>6, <2>1, <2>2, MadeAgain
  <2>4. Spare' = Spare
    BY <1>1 DEF Spare
  <2>5. NewCluster(op[c])'
    BY <1>5, <2>1, <2>3, <2>4 DEF NewCluster
  <2>6. op'[c].pc = "dots" /\ op'[c].cur = op'[c].first /\ sector'[op'[c].cur] = ZeroSector
    BY <1>1, <1>4, <1>5, <1>9, <2>1, <2>2
  <2>. QED
    BY <1>8, <2>5, <2>6 DEF Phase
<1>10. ASSUME Growing(op[c])  PROVE Phase(op[c])'
  <2>1. /\ ~op[c].exists /\ op[c].idx = 1 /\ op[c].cur \in InChain(fat, op[c].dir)
        /\ op[c].cur # op[c].first /\ Made(op[c], s1) /\ Cleared(op[c])
    BY <1>10 DEF Growing
  <2>2. PICK dirs \in SUBSET Clusters : Vol(fat, s1, dirs, InChain(fat, op[c].first))
    BY <2>1 DEF Made, Making, Sound
  <2>3. DOMAIN s1 = Clusters /\ Chained(fat, op[c].first)
    BY <2>1, <2>2, DirFacts DEF Made
  <2>4. op[c].first \in Clusters
    BY <2>3, ChainFacts
  <2>5. DOMAIN sector = Clusters
    BY <2>3
  <2>6. sector'[op[c].first] = sector[op[c].first]
    BY <1>1, <2>1, <2>4, <2>5
  <2>8. op[c].cur \in Clusters
    <3>1. Chained(fat, op[c].dir)
      BY <2>1, MadeHere
    <3>. QED
      BY <2>1, <3>1, Links
  <2>9. s1[op[c].cur] = ZeroSector
    BY <2>5, <2>8
  <2>. HIDE DEF s1
  <2>10. Made(op[c], sector)'
    BY <1>1, <1>6, <2>1, MadeAgain
  <2>11. Cleared(op[c])'
    BY <1>5, <2>1, <2>6 DEF Cleared, DotTable
  <2>12. Area(op[c])' = sector'
    BY <1>5, <2>1 DEF Area
  <2>13. sector'[op'[c].cur][1] = End /\ 1 \in 1..Slots
    BY <1>1, <1>5, <2>9, ZeroIs
  <2>14. Slot(op[c], sector)'
    <3>1. At2(op[c])' \in Places(fat, op[c].dir)'
      BY <1>1, <1>5, <2>1, <2>13 DEF At2, Places
    <3>2. \A j \in 1..op'[c].idx - 1 : FALSE
      BY <1>5, <2>1
    <3>. QED
      BY <1>5, <2>1, <2>13, <3>1, <3>2 DEF Slot
  <2>15. Made(op[c], Area(op[c]))' /\ Slot(op[c], Area(op[c]))'
    BY <2>10, <2>12, <2>14
  <2>16. Placed(op[c])'
    BY <1>5, <1>8, <2>1, <2>11, <2>15 DEF Placed
  <2>17. op'[c].pc = "reread"
    BY <1>4, <2>1
  <2>. QED
    BY <2>16, <2>17 DEF Phase
<1>11. Phase(op[c])'
  BY <1>7, <1>9, <1>10
<1>12. fat' \in Fats /\ disk_fat' \in [1..2 -> Fats] /\ (cwd.cluster \in DOMAIN tree)'
  BY <1>1, <1>4 DEF FatInv
<1>13. op'[c].pc # "idle"
  BY <1>4
<1>. QED
  BY <1>4, <1>11, <1>12, <1>13, StillInv

LEMMA ReadNewClusterKeeps ==
  ASSUME FatInv, Events = {}, NEW c \in Callers, ReadNewCluster(c)  PROVE FatInv'
<1>. DEFINE at == [pc |-> "dotted"]
<1>1. /\ op[c].pc = "dots" /\ MayRun(c) /\ fat' = fat /\ disk_fat' = disk_fat /\ cwd' = cwd
      /\ sector' = sector /\ g_io_buf' = sector[op[c].cur] /\ Goto(c, at)
  BY DEF ReadNewCluster, At
<1>2. DOMAIN at = {"pc"} /\ at["pc"] = "dotted"
  OBVIOUS
<1>. HIDE DEF at
<1>3. DOMAIN at \subseteq Fields
  BY <1>2, FieldsAre
<1>4. /\ Phase(op[c]) /\ tree' = tree /\ DOMAIN op' = Callers /\ DOMAIN op'[c] = Fields
      /\ \A e \in Callers \ {c} : op'[e].pc = "idle"
      /\ op'[c]["pc"] = "dotted" /\ \A f \in Fields \ {"pc"} : op'[c][f] = op[c][f]
  BY <1>1, <1>2, <1>3, GoesOn
<1>5. /\ op'[c]["kind"] = op[c]["kind"] /\ op'[c]["name"] = op[c]["name"] /\ op'[c]["arg"] = op[c]["arg"]
      /\ op'[c]["dir"] = op[c]["dir"] /\ op'[c]["exists"] = op[c]["exists"]
      /\ op'[c]["first"] = op[c]["first"] /\ op'[c]["cur"] = op[c]["cur"]
      /\ op'[c]["idx"] = op[c]["idx"] /\ op'[c]["step"] = op[c]["step"]
  BY <1>4, FieldsAre
<1>6. Alike(op[c], op'[c])
  BY <1>5 DEF Alike
<1>7. /\ Mirrored /\ op[c].step = 0 /\ NewCluster(op[c]) /\ op[c].cur = op[c].first
      /\ sector[op[c].cur] = ZeroSector
  BY <1>1, <1>4 DEF Phase
<1>8. Mirrored' /\ op'[c].step = 0
  BY <1>1, <1>5, <1>7 DEF Mirrored
<1>9. NewCluster(op[c])'
  BY <1>1, <1>5, <1>6, <1>7, GrowingStays
<1>10. op'[c].pc = "dotted" /\ op'[c].cur = op'[c].first /\ sector'[op'[c].cur] = ZeroSector
       /\ g_io_buf' = ZeroSector
  BY <1>1, <1>4, <1>5, <1>7
<1>11. Phase(op[c])'
  BY <1>8, <1>9, <1>10 DEF Phase
<1>12. fat' \in Fats /\ disk_fat' \in [1..2 -> Fats] /\ (cwd.cluster \in DOMAIN tree)'
  BY <1>1, <1>4 DEF FatInv
<1>. QED
  BY <1>4, <1>10, <1>11, <1>12, StillInv

LEMMA WriteDotsKeeps ==
  ASSUME FatInv, Events = {}, NEW c \in Callers, WriteDots(c)  PROVE FatInv'
<1>. DEFINE at == [pc |-> "slot", cur |-> op[c].dir]
            dots == [g_io_buf EXCEPT ![1] = NewEntry(".", "dir", op[c].first, 0),
                                     ![2] = NewEntry("..", "dir", op[c].dir, 0)]
            s1 == [sector EXCEPT ![op[c].cur] = dots]
<1>1. /\ op[c].pc = "dotted" /\ MayRun(c) /\ fat' = fat /\ disk_fat' = disk_fat /\ cwd' = cwd
      /\ sector' = s1 /\ Goto(c, at)
  BY DEF WriteDots, At
<1>2. DOMAIN at = {"pc", "cur"} /\ at["pc"] = "slot" /\ at["cur"] = op[c].dir
  OBVIOUS
<1>. HIDE DEF at
<1>3. DOMAIN at \subseteq Fields
  BY <1>2, FieldsAre
<1>4. /\ Phase(op[c]) /\ tree' = tree /\ DOMAIN op' = Callers /\ DOMAIN op'[c] = Fields
      /\ \A e \in Callers \ {c} : op'[e].pc = "idle"
      /\ op'[c]["pc"] = "slot" /\ op'[c]["cur"] = op[c].dir
      /\ \A f \in Fields \ {"pc", "cur"} : op'[c][f] = op[c][f]
  BY <1>1, <1>2, <1>3, GoesOn
<1>5. /\ op'[c]["kind"] = op[c]["kind"] /\ op'[c]["name"] = op[c]["name"] /\ op'[c]["arg"] = op[c]["arg"]
      /\ op'[c]["dir"] = op[c]["dir"] /\ op'[c]["exists"] = op[c]["exists"]
      /\ op'[c]["first"] = op[c]["first"]
      /\ op'[c]["idx"] = op[c]["idx"] /\ op'[c]["step"] = op[c]["step"]
  BY <1>4, FieldsAre
<1>6. Alike(op[c], op'[c])
  BY <1>5 DEF Alike
<1>7. /\ Mirrored /\ op[c].step = 0 /\ NewCluster(op[c]) /\ op[c].cur = op[c].first
      /\ g_io_buf = ZeroSector
  BY <1>1, <1>4 DEF Phase
<1>8. Mirrored' /\ op'[c].step = 0
  BY <1>1, <1>5, <1>7 DEF Mirrored
<1>9. op[c].kind = "mkdir" /\ op[c].idx = 0 /\ ~op[c].exists /\ Made(op[c], sector) /\ Spare >= 1
  BY <1>7 DEF NewCluster
<1>10. dots = DotTable(op[c])
  BY <1>7 DEF DotTable
<1>. HIDE DEF dots
<1>11. Made(op[c], s1) /\ s1[op[c].first] = dots
  BY <1>7, <1>9, MadeWritten
<1>. HIDE DEF s1
<1>12. Made(op[c], sector)'
  BY <1>1, <1>6, <1>9, <1>11, MadeAgain
<1>13. Cleared(op[c])'
  BY <1>1, <1>5, <1>10, <1>11 DEF Cleared, DotTable
<1>14. op[c].dir \in InChain(fat, op[c].dir)
  BY <1>11, MadeHere
<1>15. Spare' = Spare
  BY <1>1 DEF Spare
<1>16. Placing(op[c])'
  BY <1>1, <1>4, <1>5, <1>8, <1>9, <1>12, <1>13, <1>14, <1>15 DEF Placing
<1>17. Phase(op[c])' /\ op'[c].pc # "idle"
  BY <1>4, <1>16 DEF Phase
<1>18. fat' \in Fats /\ disk_fat' \in [1..2 -> Fats] /\ (cwd.cluster \in DOMAIN tree)'
  BY <1>1, <1>4 DEF FatInv
<1>. QED
  BY <1>4, <1>17, <1>18, StillInv

\* The first slot of a sector that is not in use.
LEMMA EmptyIs ==
  ASSUME NEW s \in [1..Slots -> Entry], NEW k, Hits(s, {"end", "deleted"}) # {},
         k = LowestIn(Hits(s, {"end", "deleted"}))
  PROVE  k \in 1..Slots /\ s[k] \in {End, Deleted} /\ \A j \in 1..k - 1 : s[j] # End
<1>. DEFINE empty == Hits(s, {"end", "deleted"})
<1>1. empty \in SUBSET Nat /\ empty \subseteq 1..Slots
  BY Consts DEF Hits
<1>2. k \in empty /\ \A y \in empty : k <= y
  BY <1>1, LowestIs
<1>3. k \in 1..Slots /\ s[k].attr \in {"end", "deleted"}
  BY <1>2 DEF Hits
<1>4. s[k] \in {End, Deleted}
  <2>1. s[k] \in Entry
    BY <1>3
  <2>. QED
    BY <1>3, <2>1, EntriesAre DEF Live
<1>5. ASSUME NEW j \in 1..k - 1  PROVE s[j] # End
  <2>1. j \in 1..Slots /\ ~(k <= j)
    BY <1>3, Consts
  <2>2. j \notin empty
    BY <1>2, <2>1
  <2>. QED
    BY <2>1, <2>2 DEF Hits, End
<1>. QED
  BY <1>3, <1>4, <1>5

LEMMA NoneEmpty ==
  ASSUME NEW s \in [1..Slots -> Entry], Hits(s, {"end", "deleted"}) = {}
  PROVE  \A i \in 1..Slots : Live(s[i])
<1>1. ASSUME NEW i \in 1..Slots  PROVE Live(s[i])
  <2>1. s[i] \in Entry /\ s[i].attr \notin {"end", "deleted"}
    BY DEF Hits
  <2>2. s[i] # End /\ s[i] # Deleted
    BY <2>1 DEF End, Deleted
  <2>. QED
    BY <2>1, <2>2, EntriesAre
<1>. QED
  BY <1>1

LEMMA FindSlotKeeps ==
  ASSUME FatInv, Events = {}, NEW c \in Callers, FindSlot(c)  PROVE FatInv'
<1>. DEFINE s     == sector[op[c].cur]
            empty == Hits(s, {"end", "deleted"})
<1>1. op[c].pc = "slot" /\ MayRun(c) /\ UNCHANGED Volatile
  BY DEF FindSlot, At, Volatile
<1>2. /\ fat' = fat /\ sector' = sector /\ cwd' = cwd /\ disk_fat' = disk_fat
  BY <1>1 DEF Volatile
<1>3. Placing(op[c])
  BY <1>1 DEF FatInv, Phase
<1>4. /\ Mirrored /\ op[c].step = 0 /\ ~op[c].exists /\ Made(op[c], sector) /\ Spare >= 1
      /\ Cleared(op[c]) /\ op[c].cur \in InChain(fat, op[c].dir)
  BY <1>3 DEF Placing
<1>5. op[c].dir = cwd.cluster /\ Chained(fat, op[c].dir)
  BY <1>4, MadeHere
<1>6. s \in [1..Slots -> Entry]
  <2>1. PICK dirs : /\ Vol(fat, sector, dirs, InChain(fat, op[c].first)) /\ PathOK(fat, sector, dirs, cwd)
    BY <1>4 DEF Made, Making, Sound
  <2>2. op[c].dir \in dirs
    BY <1>5, <2>1 DEF PathOK
  <2>. QED
    BY <1>4, <2>1, <2>2, DirFacts
<1>7. Mirrored' /\ Spare' = Spare
  BY <1>2, <1>4 DEF Mirrored, Spare
<1>8. \/ empty # {} /\ Goto(c, [pc |-> "reread", idx |-> LowestIn(empty)])
      \/ empty = {} /\ fat[op[c].cur] \in Clusters /\ Goto(c, [cur |-> fat[op[c].cur]])
      \/ empty = {} /\ fat[op[c].cur] \notin Clusters /\ Goto(c, [pc |-> "extend"])
  BY DEF FindSlot
<1>9. ASSUME empty # {}, Goto(c, [pc |-> "reread", idx |-> LowestIn(empty)])  PROVE FatInv'
  <2>. DEFINE k  == LowestIn(empty)
              at == [pc |-> "reread", idx |-> k]
  <2>1. DOMAIN at = {"pc", "idx"} /\ at["pc"] = "reread" /\ at["idx"] = k /\ Goto(c, at)
    BY <1>9
  <2>2. k \in 1..Slots /\ s[k] \in {End, Deleted} /\ \A j \in 1..k - 1 : s[j] # End
    BY <1>6, <1>9, EmptyIs
  <2>. HIDE DEF at, k, s
  <2>3. DOMAIN at \subseteq Fields
    BY <2>1, FieldsAre
  <2>4. /\ op'[c]["pc"] = "reread" /\ op'[c]["idx"] = k
        /\ \A f \in Fields \ {"pc", "idx"} : op'[c][f] = op[c][f]
    BY <1>1, <2>1, <2>3, GoesOn
  <2>5. /\ op'[c]["kind"] = op[c]["kind"] /\ op'[c]["name"] = op[c]["name"] /\ op'[c]["arg"] = op[c]["arg"]
        /\ op'[c]["dir"] = op[c]["dir"] /\ op'[c]["exists"] = op[c]["exists"]
        /\ op'[c]["first"] = op[c]["first"] /\ op'[c]["cur"] = op[c]["cur"]
    BY <2>4, FieldsAre
  <2>6. Alike(op[c], op'[c])
    BY <2>5 DEF Alike
  <2>7. Made(op[c], sector)' /\ Cleared(op[c])'
    BY <1>2, <1>4, <2>6, MadeStays
  <2>8. Area(op[c])' = sector'
    BY <1>4, <2>5 DEF Area
  <2>9. Slot(op[c], sector)'
    <3>1. At2(op[c])' \in Places(fat, op[c].dir)'
      BY <1>2, <1>4, <2>2, <2>4, <2>5 DEF At2, Places
    <3>2. sector'[op'[c].cur] = s /\ op'[c].idx = k
      BY <1>2, <2>4, <2>5 DEF s
    <3>. QED
      BY <2>2, <3>1, <3>2 DEF Slot
  <2>10. Made(op[c], Area(op[c]))' /\ Slot(op[c], Area(op[c]))'
    BY <2>7, <2>8, <2>9
  <2>11. Placed(op[c])'
    BY <1>7, <2>2, <2>4, <2>7, <2>10, Consts DEF Placed
  <2>12. Phase(op[c])' /\ op'[c].pc # "idle"
    BY <2>4, <2>11 DEF Phase
  <2>. QED
    BY <1>1, <2>1, <2>3, <2>12, OnUnchanged
<1>10. ASSUME fat[op[c].cur] \in Clusters, Goto(c, [cur |-> fat[op[c].cur]])  PROVE FatInv'
  <2>. DEFINE at == [cur |-> fat[op[c].cur]]
  <2>1. DOMAIN at = {"cur"} /\ at["cur"] = fat[op[c].cur] /\ Goto(c, at)
    BY <1>10
  <2>. HIDE DEF at, s
  <2>3. DOMAIN at \subseteq Fields
    BY <2>1, FieldsAre
  <2>4. /\ op'[c]["cur"] = fat[op[c].cur]
        /\ \A f \in Fields \ {"cur"} : op'[c][f] = op[c][f]
    BY <1>1, <2>1, <2>3, GoesOn
  <2>5. /\ op'[c]["kind"] = op[c]["kind"] /\ op'[c]["name"] = op[c]["name"] /\ op'[c]["arg"] = op[c]["arg"]
        /\ op'[c]["dir"] = op[c]["dir"] /\ op'[c]["exists"] = op[c]["exists"]
        /\ op'[c]["first"] = op[c]["first"] /\ op'[c]["pc"] = op[c]["pc"] /\ op'[c]["step"] = op[c]["step"]
    BY <2>4, FieldsAre
  <2>6. Alike(op[c], op'[c])
    BY <2>5 DEF Alike
  <2>7. Made(op[c], sector)' /\ Cleared(op[c])'
    BY <1>2, <1>4, <2>6, MadeStays
  <2>8. fat[op[c].cur] \in InChain(fat, op[c].dir)
    BY <1>4, <1>5, <1>10, Links, Marks
  <2>9. op'[c].cur \in InChain(fat', op'[c].dir)
    BY <1>2, <2>4, <2>5, <2>8
  <2>10. Placing(op[c])'
    BY <1>4, <1>7, <2>5, <2>7, <2>9 DEF Placing
  <2>11. op'[c].pc = "slot"
    BY <1>1, <2>5
  <2>12. Phase(op[c])' /\ op'[c].pc # "idle"
    BY <2>10, <2>11 DEF Phase
  <2>. QED
    BY <1>1, <2>1, <2>3, <2>12, OnUnchanged
<1>11. ASSUME empty = {}, fat[op[c].cur] \notin Clusters, Goto(c, [pc |-> "extend"])  PROVE FatInv'
  <2>. DEFINE at == [pc |-> "extend"]
  <2>1. DOMAIN at = {"pc"} /\ at["pc"] = "extend" /\ Goto(c, at)
    BY <1>11
  <2>2. \A i \in 1..Slots : Live(s[i])
    BY <1>6, <1>11, NoneEmpty
  <2>. HIDE DEF at, s
  <2>3. DOMAIN at \subseteq Fields
    BY <2>1, FieldsAre
  <2>4. /\ op'[c]["pc"] = "extend"
        /\ \A f \in Fields \ {"pc"} : op'[c][f] = op[c][f]
    BY <1>1, <2>1, <2>3, GoesOn
  <2>5. /\ op'[c]["kind"] = op[c]["kind"] /\ op'[c]["name"] = op[c]["name"] /\ op'[c]["arg"] = op[c]["arg"]
        /\ op'[c]["dir"] = op[c]["dir"] /\ op'[c]["exists"] = op[c]["exists"]
        /\ op'[c]["first"] = op[c]["first"] /\ op'[c]["cur"] = op[c]["cur"] /\ op'[c]["step"] = op[c]["step"]
    BY <2>4, FieldsAre
  <2>6. Alike(op[c], op'[c])
    BY <2>5 DEF Alike
  <2>7. Made(op[c], sector)' /\ Cleared(op[c])'
    BY <1>2, <1>4, <2>6, MadeStays
  <2>8. fat[op[c].cur] = EOC
    BY <1>4, <1>5, <1>11, Links
  <2>9. op'[c].cur \in InChain(fat', op'[c].dir)
    BY <1>2, <1>4, <2>5
  <2>10. Placing(op[c])'
    BY <1>4, <1>7, <2>5, <2>7, <2>9 DEF Placing
  <2>11. fat'[op'[c].cur] = EOC /\ \A i \in 1..Slots : Live(sector'[op'[c].cur][i])
    BY <1>2, <2>2, <2>5, <2>8 DEF s
  <2>12. op'[c].pc = "extend" /\ op'[c].pc # "idle"
    BY <2>4
  <2>13. Phase(op[c])'
    BY <2>10, <2>11, <2>12 DEF Phase
  <2>. QED
    BY <1>1, <2>1, <2>3, <2>12, <2>13, OnUnchanged
<1>. QED
  BY <1>8, <1>9, <1>10, <1>11

LEMMA RereadEntryKeeps ==
  ASSUME FatInv, Events = {}, NEW c \in Callers, RereadEntry(c)  PROVE FatInv'
<1>. DEFINE at == [pc |-> "commit"]
<1>1. /\ op[c].pc = "reread" /\ MayRun(c) /\ UNCHANGED Volatile /\ g_io_buf' = sector[op[c].cur] /\ Goto(c, at)
  BY DEF RereadEntry, At, Volatile
<1>2. /\ fat' = fat /\ sector' = sector /\ cwd' = cwd /\ disk_fat' = disk_fat
  BY <1>1 DEF Volatile
<1>3. DOMAIN at = {"pc"} /\ at["pc"] = "commit"
  OBVIOUS
<1>. HIDE DEF at
<1>4. DOMAIN at \subseteq Fields
  BY <1>3, FieldsAre
<1>5. op'[c]["pc"] = "commit" /\ \A f \in Fields \ {"pc"} : op'[c][f] = op[c][f]
  BY <1>1, <1>3, <1>4, GoesOn
<1>6. /\ op'[c]["kind"] = op[c]["kind"] /\ op'[c]["name"] = op[c]["name"] /\ op'[c]["arg"] = op[c]["arg"]
      /\ op'[c]["dir"] = op[c]["dir"] /\ op'[c]["exists"] = op[c]["exists"]
      /\ op'[c]["first"] = op[c]["first"] /\ op'[c]["cur"] = op[c]["cur"] /\ op'[c]["idx"] = op[c]["idx"]
  BY <1>5, FieldsAre
<1>7. Alike(op[c], op'[c])
  BY <1>6 DEF Alike
<1>8. /\ Mirrored /\ Made(op[c], Area(op[c])) /\ Slot(op[c], Area(op[c])) /\ Cleared(op[c])
      /\ op[c].idx # 0
  BY <1>1 DEF FatInv, Phase, Placed
<1>9. /\ At2(op[c])' = At2(op[c]) /\ Area(op[c])' = Area(op[c]) /\ Made(op[c], Area(op[c]))'
  BY <1>2, <1>6, <1>7, <1>8, HoleStays
<1>10. Slot(op[c], Area(op[c]))'
  BY <1>2, <1>6, <1>8, <1>9 DEF Slot
<1>11. Cleared(op[c])' /\ Mirrored'
  BY <1>2, <1>6, <1>8 DEF Cleared, DotTable, Mirrored
<1>12. Placed(op[c])'
  BY <1>6, <1>8, <1>9, <1>10, <1>11 DEF Placed
<1>13. g_io_buf' = sector'[op'[c].cur]
  BY <1>1, <1>2, <1>6
<1>14. InCommit(op[c])'
  BY <1>12, <1>13 DEF InCommit
<1>15. Phase(op[c])' /\ op'[c].pc # "idle"
  BY <1>5, <1>14 DEF Phase
<1>. QED
  BY <1>1, <1>4, <1>15, OnUnchanged

-----------------------------------------------------------------------------
(***************************************************************************)
(* The entry is written.                                                   *)
(***************************************************************************)
LEMMA PutTwice ==
  ASSUME NEW s, DOMAIN s = Clusters, NEW p \in Clusters \X (1..Slots), s[p[1]] \in [1..Slots -> Entry],
         NEW e
  PROVE  Put(Put(s, p, Deleted), p, e) = Put(s, p, e)
<1>. DEFINE a == p[1]
            k == p[2]
            t == s[a]
<1>1. a \in Clusters /\ k \in 1..Slots /\ DOMAIN t = 1..Slots
  OBVIOUS
<1>. HIDE DEF a, k, t
<1>2. [[t EXCEPT ![k] = Deleted] EXCEPT ![k] = e] = [t EXCEPT ![k] = e]
  BY <1>1
<1>3. Put(s, p, Deleted) = [s EXCEPT ![a] = [t EXCEPT ![k] = Deleted]] /\ Put(s, p, e) = [s EXCEPT ![a] = [t EXCEPT ![k] = e]]
  BY DEF Put, a, k, t
<1>4. Put(s, p, Deleted)[a] = [t EXCEPT ![k] = Deleted]
  BY <1>1, <1>3
<1>5. Put(Put(s, p, Deleted), p, e) = [Put(s, p, Deleted) EXCEPT ![a] = [[t EXCEPT ![k] = Deleted] EXCEPT ![k] = e]]
  BY <1>4 DEF Put, a, k
<1>6. \A u, v : [[s EXCEPT ![a] = u] EXCEPT ![a] = v] = [s EXCEPT ![a] = v]
  BY <1>1
<1>. QED
  BY <1>2, <1>3, <1>5, <1>6

\* A directory with "." and ".." and no more.
LEMMA DotsAre ==
  ASSUME NEW o, o.first \in Clusters, o.dir \in Clusters, NEW f, f[o.first] = EOC,
         NEW s, s[o.first] = DotTable(o)
  PROVE  /\ TableOK(f, s, o.first)
         /\ \A i \in 1..Slots : Live(s[o.first][i]) => s[o.first][i].name \in Dots
<1>. DEFINE t == DotTable(o)
            one == NewEntry(".", "dir", o.first, 0)
            two == NewEntry("..", "dir", o.dir, 0)
<1>1. one \in Entry /\ two \in Entry /\ one.name \in Dots /\ two.name \in Dots /\ Live(one) /\ Live(two)
  BY DEF NewEntry, Entry, Dots, Live
<1>2. one # End /\ two # End
  BY <1>1, EntriesAre
<1>. HIDE DEF one, two
<1>3. t = [ZeroSector EXCEPT ![1] = one, ![2] = two]
  BY DEF DotTable, one, two
<1>. HIDE DEF t
<1>4. /\ t \in [1..Slots -> Entry] /\ t[1] = one /\ t[2] = two
      /\ \A i \in 1..Slots : i # 1 /\ i # 2 => t[i] = End
  BY <1>1, <1>3, ZeroIs
<1>5. t \in Tables
  BY <1>4, EntriesAre
<1>6. ASSUME NEW i \in 1..Slots, t[i] = End, NEW j \in i..Slots  PROVE t[j] = End
  <2>1. i # 1 /\ i # 2
    BY <1>2, <1>4, <1>6
  <2>2. j \in 1..Slots /\ j # 1 /\ j # 2
    BY <2>1, Consts
  <2>. QED
    BY <1>4, <2>2
<1>7. ASSUME NEW i \in 1..Slots, Live(t[i])  PROVE t[i].name \in Dots
  BY <1>1, <1>4, <1>7, EntriesAre
<1>8. s[o.first] = t
  BY DEF t
<1>. QED
  BY <1>5, <1>6, <1>7, <1>8 DEF TableOK

\* The entry that a call gives to what it made.
AttrOf(o) == IF o.kind = "write" THEN "file" ELSE "dir"
SizeOf(o) == IF o.kind = "write" THEN Len(o.arg) ELSE 0
EntryOf(o) == NewEntry(o.name, AttrOf(o), o.first, SizeOf(o))

LEMMA EntryReady ==
  ASSUME NEW o, Placed(o)
  PROVE  \E dirs : /\ Ready(fat, Area(o), dirs, o.first, o.dir, At2(o), o.name, AttrOf(o), SizeOf(o))
                   /\ PathOK(fat, Area(o), dirs, cwd)
<1>. DEFINE attr == AttrOf(o)
            size == SizeOf(o)
            x    == o.first
            s    == Area(o)
            p    == At2(o)
            d    == o.dir
<1>1. Made(o, s) /\ Slot(o, s) /\ Cleared(o)
  BY DEF Placed
<1>2. /\ o.kind \in {"write", "mkdir"} /\ o.name \in Names /\ d = cwd.cluster
      /\ o.kind = "write" => o.arg \in Contents
      /\ NotIn(s, d, o.name) /\ Chained(fat, x) /\ Len(Chain(fat, x)) = Whole(o)
      /\ o.exists => o.kind = "write"
  BY <1>1 DEF Made, Making
<1>3. PICK dirs : Vol(fat, s, dirs, InChain(fat, x)) /\ PathOK(fat, s, dirs, cwd)
  BY <1>1 DEF Made, Making, Sound
<1>4. d \in dirs /\ d \in Clusters
  <2>1. d \in dirs
    BY <1>2, <1>3 DEF PathOK
  <2>. QED
    BY <1>3, <2>1, DirFacts
<1>5. p = <<o.cur, o.idx>> /\ p[1] = o.cur /\ p[2] = o.idx
  BY DEF At2
<1>6. /\ p \in Places(fat, d) /\ Ent(s, p) \in {End, Deleted}
      /\ \A j \in 1..p[2] - 1 : s[p[1]][j] # End
  BY <1>1, <1>5 DEF Slot, Ent
<1>7. attr \in {"file", "dir"} /\ size \in Nat /\ (attr = "file" <=> o.kind = "write")
      /\ (o.kind = "write" => size = Len(o.arg))
  BY <1>2, NeededIs DEF AttrOf, SizeOf
<1>. HIDE DEF attr, size
<1>8. ASSUME attr = "file"  PROVE Len(Chain(fat, x)) = (IF size = 0 THEN 1 ELSE size)
  BY <1>2, <1>7, <1>8, NeededIs DEF Whole
<1>9. ASSUME attr = "dir"
      PROVE  /\ InChain(fat, x) = {x} /\ TableOK(fat, s, x)
             /\ \A i \in 1..Slots : Live(s[x][i]) => s[x][i].name \in Dots
  <2>1. o.kind = "mkdir" /\ ~o.exists /\ s = sector
    BY <1>2, <1>7, <1>9 DEF Area
  <2>2. Len(Chain(fat, x)) = 1
    BY <1>2, <2>1 DEF Whole
  <2>3. x \in Clusters /\ InChain(fat, x) = {x} /\ fat[x] = EOC
    BY <1>2, <2>2, ChainFacts
  <2>4. s[x] = DotTable(o)
    BY <1>1, <2>1 DEF Cleared
  <2>. QED
    BY <1>4, <2>3, <2>4, DotsAre
<1>10. \A q \in Ents(fat, s, d) : Ent(s, q).name # o.name
  BY <1>2 DEF NotIn
<1>. HIDE DEF x, s, p, d
<1>11. Ready(fat, s, dirs, x, d, p, o.name, attr, size)
  BY <1>2, <1>3, <1>4, <1>6, <1>7, <1>8, <1>9, <1>10 DEF Ready
<1>. QED
  BY <1>3, <1>11 DEF attr, size, x, s, p, d

\* What was made gets its entry.
LEMMA EntryGiven ==
  ASSUME NEW o, Placed(o), NEW s1, s1 = Put(Area(o), At2(o), EntryOf(o))
  PROVE  \E dirs : Vol(fat, s1, dirs, {}) /\ PathOK(fat, s1, dirs, cwd)
<1>1. PICK s, p, d, n, x, size, attr, e :
        /\ s = Area(o) /\ p = At2(o) /\ d = o.dir /\ n = o.name /\ x = o.first
        /\ size = SizeOf(o) /\ attr = AttrOf(o) /\ e = NewEntry(n, attr, x, size)
  OBVIOUS
<1>2. PICK dirs : Ready(fat, s, dirs, x, d, p, n, attr, size) /\ PathOK(fat, s, dirs, cwd)
  BY <1>1, EntryReady
<1>3. PICK dirs1 : dirs1 = IF attr = "dir" THEN dirs \cup {x} ELSE dirs
  OBVIOUS
<1>4. /\ Vol(fat, Put(s, p, e), dirs1, {})
      /\ \A w : PathOK(fat, s, dirs, w) => PathOK(fat, Put(s, p, e), dirs1, w)
  BY <1>1, <1>2, <1>3, EntryAdded
<1>5. s1 = Put(s, p, e)
  BY <1>1 DEF EntryOf
<1>. QED
  BY <1>2, <1>4, <1>5

\* The sector is written back with the entry.
LEMMA CommitWrites ==
  ASSUME NEW c \in Callers, Placed(op[c]), g_io_buf = sector[op[c].cur],
         sector' = Put(sector, At2(op[c]), Changed(c, Ent(sector, At2(op[c]))))
  PROVE  sector' = Put(Area(op[c]), At2(op[c]), EntryOf(op[c]))
<1>. DEFINE o == op[c]
            p == At2(o)
            e == Changed(c, Ent(sector, p))
            new == EntryOf(o)
<1>1. p = <<o.cur, o.idx>> /\ p[1] = o.cur /\ p[2] = o.idx
  BY DEF At2
<1>. HIDE DEF e
<1>2. Made(o, Area(o))
  BY DEF Placed
<1>3. /\ o.kind \in {"write", "mkdir"}
      /\ o.exists => o.kind = "write" /\ HoleOK(o) /\ Ent(sector, p).attr = "file"
  BY <1>2 DEF Made, Making
<1>4. CASE ~o.exists
  <2>1. e = new
    BY <1>3, <1>4 DEF Changed, e, EntryOf, AttrOf, SizeOf
  <2>2. Area(o) = sector
    BY <1>4 DEF Area
  <2>. QED
    BY <2>1, <2>2 DEF e
<1>5. CASE o.exists
  <2>1. o.kind = "write" /\ HoleOK(o) /\ Ent(sector, p).attr = "file"
    BY <1>3, <1>5
  <2>2. Area(o) = Put(sector, p, Deleted)
    BY <1>5 DEF Area, Dropped
  <2>3. /\ Live(Ent(sector, p)) /\ Ent(sector, p).name = o.name /\ DOMAIN sector = Clusters
        /\ sector[o.cur] \in Tables /\ p \in Places(fat, o.dir)
    BY <2>1 DEF HoleOK
  <2>4. o.cur \in Clusters /\ o.idx \in 1..Slots
    <3>1. Chained(fat, o.dir)
      BY <1>2, MadeHere
    <3>. QED
      BY <1>1, <2>3, <3>1, Links DEF Places
  <2>5. Ent(sector, p) \in Entry /\ sector[o.cur] \in [1..Slots -> Entry]
    BY <1>1, <2>3, <2>4, EntriesAre DEF Ent
  <2>6. PICK n, a, x, z : Ent(sector, p) = NewEntry(n, a, x, z)
    BY <2>3, <2>5, EntriesAre
  <2>7. n = o.name /\ a = "file"
    BY <2>1, <2>3, <2>6 DEF NewEntry
  <2>8. e = [Ent(sector, p) EXCEPT !.first = o.first, !.size = Len(o.arg)]
    <3>. DEFINE ent == Ent(sector, p)
    <3>1. o.kind = "write" /\ o.exists
      BY <1>5, <2>1
    <3>. HIDE DEF ent
    <3>. QED
      BY <3>1 DEF Changed, e, ent
  <2>9. e = new
    <3>. DEFINE old == NewEntry(n, a, x, z)
                got == [old EXCEPT !.first = o.first, !.size = Len(o.arg)]
                keys == {"attr", "name", "first", "size"}
    <3>1. DOMAIN old = keys /\ old["attr"] = "file" /\ old["name"] = o.name
      BY <2>7 DEF NewEntry
    <3>2. /\ DOMAIN new = keys /\ new["attr"] = "file" /\ new["name"] = o.name
          /\ new["first"] = o.first /\ new["size"] = Len(o.arg)
      BY <2>1 DEF NewEntry, EntryOf, AttrOf, SizeOf
    <3>3. new = [k \in keys |-> new[k]]
      BY <2>1 DEF NewEntry, EntryOf
    <3>. HIDE DEF old, new
    <3>4. /\ got = [k \in keys |-> got[k]] /\ got["attr"] = "file" /\ got["name"] = o.name
          /\ got["first"] = o.first /\ got["size"] = Len(o.arg)
      BY <3>1
    <3>5. \A k \in keys : got[k] = new[k]
      BY <3>2, <3>4
    <3>6. got = new
      BY <3>3, <3>4, <3>5
    <3>. QED
      BY <2>6, <2>8, <3>6 DEF old
  <2>10. Put(Put(sector, p, Deleted), p, e) = Put(sector, p, e)
    <3>1. p \in Clusters \X (1..Slots) /\ sector[p[1]] \in [1..Slots -> Entry]
      BY <1>1, <2>4, <2>5
    <3>. HIDE DEF p
    <3>. QED
      BY <2>3, <3>1, PutTwice
  <2>. QED
    BY <2>2, <2>9, <2>10 DEF e
<1>. QED
  BY <1>4, <1>5

LEMMA CommitEntryKeeps ==
  ASSUME FatInv, Events = {}, NEW c \in Callers, CommitEntry(c)  PROVE FatInv'
<1>. DEFINE o == op[c]
            p == At2(o)
            e == Changed(c, Ent(sector, p))
<1>1. /\ o.pc = "commit" /\ MayRun(c) /\ fat' = fat /\ disk_fat' = disk_fat /\ cwd' = cwd
      /\ Return(c, TRUE)
      /\ sector' = [sector EXCEPT ![o.cur] = [g_io_buf EXCEPT ![o.idx] = Changed(c, @)]]
  BY DEF CommitEntry, At
<1>2. g_io_buf = sector[o.cur] /\ InCommit(o)
  BY <1>1 DEF FatInv, Phase, InCommit
<1>3. p = <<o.cur, o.idx>> /\ p[1] = o.cur /\ p[2] = o.idx
  BY DEF At2
<1>4. sector' = Put(sector, p, e)
  BY <1>1, <1>2, <1>3 DEF Put, Ent
<1>. HIDE DEF e
<1>5. SUFFICES Mirrored /\ \E dirs : Vol(fat, sector', dirs, {}) /\ PathOK(fat, sector', dirs, cwd)
  <2>1. Mirrored'
    BY <1>1, <1>5 DEF Mirrored
  <2>2. PICK dirs : Vol(fat', sector', dirs, {}) /\ PathOK(fat', sector', dirs, cwd')
    BY <1>1, <1>5
  <2>. QED
    BY <1>1, <2>1, <2>2, Returned
<1>6. CASE Mirrored /\ Deleting(o)
  <2>1. PICK dirs : Sound(Dropped(o), dirs, {})
    BY <1>6 DEF Deleting
  <2>2. e = Deleted
    BY <1>6 DEF Deleting, Changed, e
  <2>3. sector' = Dropped(o)
    BY <1>4, <2>2 DEF Dropped
  <2>. QED
    BY <1>6, <2>1, <2>3 DEF Sound
<1>7. CASE Untouched /\ o.kind = "rename" /\ Asked(o) /\ Hit(o)
  <2>1. o.arg \in Names /\ o.dir = cwd.cluster /\ NotIn(sector, cwd.cluster, o.arg)
    BY <1>7 DEF Asked
  <2>2. p \in Ents(fat, sector, cwd.cluster)
    BY <1>7 DEF Hit
  <2>3. /\ Vol(fat, sector, DOMAIN tree, {}) /\ PathOK(fat, sector, DOMAIN tree, cwd) /\ Mirrored
        /\ cwd.cluster \in DOMAIN tree
    BY <1>7, UntouchedIs
  <2>4. e = [Ent(sector, p) EXCEPT !.name = o.arg]
    BY <1>7 DEF Changed, e
  <2>5. \A q \in Ents(fat, sector, cwd.cluster) : Ent(sector, q).name # o.arg
    BY <2>1 DEF NotIn
  <2>. HIDE DEF p, o
  <2>6. LET s1 == Put(sector, p, [Ent(sector, p) EXCEPT !.name = o.arg])
        IN  /\ Vol(fat, s1, DOMAIN tree, {})
            /\ \A w : PathOK(fat, sector, DOMAIN tree, w) => PathOK(fat, s1, DOMAIN tree, w)
    BY <2>1, <2>2, <2>3, <2>5, EntryRenamed
  <2>. QED
    BY <1>4, <2>3, <2>4, <2>6
<1>8. CASE Placed(o)
  <2>1. sector' = Put(Area(o), p, EntryOf(o))
    BY <1>2, <1>4, <1>8, CommitWrites DEF e
  <2>2. PICK s1 : s1 = sector'
    OBVIOUS
  <2>3. \E dirs : Vol(fat, s1, dirs, {}) /\ PathOK(fat, s1, dirs, cwd)
    BY <1>8, <2>1, <2>2, EntryGiven
  <2>. QED
    BY <1>8, <2>2, <2>3 DEF Placed
<1>. QED
  BY <1>2, <1>6, <1>7, <1>8 DEF InCommit

-----------------------------------------------------------------------------
(***************************************************************************)
(* The invariant, and what it says between calls.                          *)
(***************************************************************************)
LEMMA EmptyVolume ==
  ASSUME NEW f, f = [c \in Clusters |-> IF c = Root THEN EOC ELSE Free],
         NEW s, s = [c \in Clusters |-> ZeroSector]
  PROVE  Vol(f, s, {Root}, {}) /\ TreeOf(f, s) = [d \in {Root} |-> [n \in {} |-> Root]]
<1>1. f \in Fats /\ f[Root] = EOC /\ \A a \in Clusters : a # Root => f[a] = Free
  BY Marks DEF Fats
<1>2. Root \in Clusters /\ EOC # Free
  BY Marks
<1>3. Chained(f, Root) /\ InChain(f, Root) = {Root}
  BY <1>1, <1>2, Single
<1>4. DOMAIN s = Clusters /\ s[Root] = ZeroSector
  BY <1>2
<1>5. TableOK(f, s, Root)
  <2>1. \A i \in 1..Slots : \A j \in i..Slots : j \in 1..Slots
    BY Consts
  <2>. QED
    BY <1>1, <1>4, <2>1, ZeroIs DEF TableOK
<1>6. Ents(f, s, Root) = {}
  <2>1. ASSUME NEW p \in Ents(f, s, Root)  PROVE FALSE
    <3>1. p[1] \in InChain(f, Root) /\ p[2] \in 1..Slots /\ Live(Ent(s, p))
      BY <2>1, EntIn
    <3>2. Ent(s, p) = End
      BY <1>3, <1>4, <3>1, ZeroIs DEF Ent
    <3>. QED
      BY <3>1, <3>2, EntriesAre
  <2>. QED
    BY <2>1
<1>7. Heads(f, s, {Root}) = {Root}
  BY <1>2, <1>6 DEF Heads
<1>8. ChainsOK(f, {Root}, {})
  BY <1>1, <1>2, <1>3 DEF ChainsOK
<1>9. Reachable(f, s, {Root})
  BY DEF Reachable
<1>10. DirsOK(f, s, {Root})
  BY <1>2, <1>3, <1>4, <1>5, <1>6, <1>9 DEF DirsOK
<1>11. SizesOK(f, s, {Root})
  BY <1>6 DEF SizesOK
<1>12. Vol(f, s, {Root}, {})
  BY <1>7, <1>8, <1>10, <1>11 DEF Vol
<1>13. DirsOf(f, s) = {Root}
  BY <1>12, DirsAre
<1>14. NamesOf(Visible(f, s, Root)) = {}
  <2>1. \A n : n \in NamesOf(Visible(f, s, Root)) <=> \E p \in Ents(f, s, Root) : n = Ent(s, p).name
    BY <1>12, SearchMeets
  <2>. QED
    BY <1>6, <2>1
<1>15. TreeOf(f, s) = [d \in {Root} |-> [n \in {} |-> Root]]
  <2>. DEFINE node(d, n) == LET v == Visible(f, s, d)
                                e == v[LowestIn(Named(v, n))]
                            IN  IF e.attr = "dir" THEN [kind |-> "dir", id |-> e.first]
                                ELSE [kind |-> "file", data |-> Data(f, s, e)]
  <2>1. TreeOf(f, s) = [d \in DirsOf(f, s) |-> [n \in NamesOf(Visible(f, s, d)) |-> node(d, n)]]
    BY DEF TreeOf
  <2>. HIDE DEF node
  <2>2. TreeOf(f, s) = [d \in {Root} |-> [n \in {} |-> node(Root, n)]]
    BY <1>13, <1>14, <2>1
  <2>3. [n \in {} |-> node(Root, n)] = [n \in {} |-> Root]
    OBVIOUS
  <2>. QED
    BY <2>2, <2>3
<1>. QED
  BY <1>12, <1>15

LEMMA InitKeeps == Init => FatInv
<1>. SUFFICES ASSUME Init  PROVE FatInv
  OBVIOUS
<1>1. Vol(fat, sector, {Root}, {}) /\ tree = TreeOf(fat, sector) /\ DOMAIN tree = {Root}
  BY EmptyVolume DEF Init
<1>2. PathOK(fat, sector, {Root}, cwd)
  BY PathRoot DEF Init
<1>3. fat \in Fats
  BY <1>1, DirFacts
<1>4. Mirrored /\ disk_fat \in [1..2 -> Fats]
  BY <1>3 DEF Mirrored, Init
<1>5. Untouched
  BY <1>1, <1>2, <1>4 DEF Untouched, Sound
<1>6. DOMAIN op = Callers /\ \A c \in Callers : op[c].pc = "idle"
  BY DEF Init, Idle
<1>7. cwd.cluster = Root
  BY DEF Init
<1>. QED
  BY <1>1, <1>3, <1>4, <1>5, <1>6, <1>7 DEF FatInv

LEMMA StutterKeeps ==
  ASSUME FatInv, UNCHANGED vars  PROVE FatInv'
<1>1. /\ fat' = fat /\ disk_fat' = disk_fat /\ sector' = sector /\ g_io_buf' = g_io_buf
      /\ cwd' = cwd /\ op' = op /\ tree' = tree
  BY DEF vars
<1>2. Untouched' <=> Untouched
  BY <1>1 DEF Untouched, Mirrored, Sound
<1>3. ASSUME NEW c \in Callers, Phase(op[c])  PROVE Phase(op[c])'
  <2>. DEFINE o == op[c]
  <2>1. /\ Mirrored' <=> Mirrored
        /\ Spare' = Spare /\ At2(op[c])' = At2(o) /\ Dropped(op[c])' = Dropped(o) /\ Area(op[c])' = Area(o)
        /\ DotTable(op[c])' = DotTable(o)
    BY <1>1 DEF Mirrored, Spare, At2, Dropped, Area, DotTable
  <2>2. /\ HoleOK(op[c])' <=> HoleOK(o)
        /\ Cleared(op[c])' <=> Cleared(o)
        /\ Hit(op[c])' <=> Hit(o)
        /\ NotIn(sector, op[c].dir, op[c].name)' <=> NotIn(sector, o.dir, o.name)
    BY <1>1, <2>1 DEF HoleOK, Cleared, Hit, NotIn
  <2>3. Asked(op[c])' <=> Asked(o)
    BY <1>1, <2>1 DEF Asked, Roomy, NotIn
  <2>4. Searching(op[c])' <=> Searching(o)
    BY <1>1 DEF Searching
  <2>5. ASSUME NEW s, NEW pend  PROVE Making(op[c], s, pend)' <=> Making(o, s, pend)
    BY <1>1, <2>1, <2>2 DEF Making, Sound, NotIn
  <2>6. ASSUME NEW s  PROVE Made(op[c], s)' <=> Made(o, s)
    BY <1>1, <2>5 DEF Made, Whole
  <2>7. /\ Made(op[c], sector)' <=> Made(o, sector)
        /\ Made(op[c], Area(op[c]))' <=> Made(o, Area(o))
        /\ Made(op[c], [sector EXCEPT ![op[c].cur] = ZeroSector])' <=>
              Made(o, [sector EXCEPT ![o.cur] = ZeroSector])
    BY <1>1, <2>1, <2>6
  <2>8. Deleting(op[c])' <=> Deleting(o)
    BY <1>1, <2>1, <2>2 DEF Deleting, Sound
  <2>9. NewCluster(op[c])' <=> NewCluster(o)
    BY <1>1, <2>1, <2>7 DEF NewCluster
  <2>10. Growing(op[c])' <=> Growing(o)
    BY <1>1, <2>2, <2>7 DEF Growing
  <2>11. Placing(op[c])' <=> Placing(o)
    BY <1>1, <2>1, <2>2, <2>7 DEF Placing
  <2>12. Slot(op[c], Area(op[c]))' <=> Slot(o, Area(o))
    BY <1>1, <2>1 DEF Slot
  <2>13. Placed(op[c])' <=> Placed(o)
    BY <1>1, <2>1, <2>2, <2>7, <2>12 DEF Placed
  <2>14. InData(op[c])' <=> InData(o)
    <3>1. \A pend : Making(op[c], Area(op[c]), pend)' <=> Making(o, Area(o), pend)
      BY <2>1, <2>5
    <3>. QED
      BY <1>1, <2>1, <3>1 DEF InData
  <2>15. Flushed(op[c].step)' <=> Flushed(o.step)
    BY <1>1 DEF Flushed
  <2>16. InFlush(op[c])' <=> InFlush(o)
    BY <1>1, <2>1, <2>7, <2>8, <2>9, <2>10, <2>15 DEF InFlush
  <2>17. InCommit(op[c])' <=> InCommit(o)
    BY <1>1, <1>2, <2>1, <2>2, <2>3, <2>8, <2>13 DEF InCommit
  <2>. QED
    BY <1>1, <1>2, <1>3, <2>1, <2>2, <2>3, <2>4, <2>9, <2>10, <2>11, <2>13, <2>14, <2>16, <2>17 DEF Phase
<1>. QED
  BY <1>1, <1>2, <1>3 DEF FatInv, Quiet

LEMMA NextKeeps ==
  ASSUME Events = {}, FatInv, [Next]_vars  PROVE FatInv'
<1>1. CASE UNCHANGED vars
  BY <1>1, StutterKeeps
<1>2. CASE Crash
  BY <1>2 DEF Crash
<1>3. ASSUME NEW c \in Callers,
             \/ CallWrite(c) \/ CallMkdir(c) \/ CallDelete(c) \/ CallRename(c)
             \/ CallRead(c) \/ CallReaddir(c) \/ CallChdir(c)
      PROVE  FatInv'
  BY <1>3, CallsKeep
<1>4. ASSUME NEW c \in Callers,
             \/ FindEntry(c) \/ WrongKind(c) \/ FreeOld(c) \/ FreeDeleted(c)
             \/ OpenFile(c) \/ RenameFound(c) \/ EnterDirectory(c) \/ Walk(c)
             \/ ReadBlock(c) \/ ReadEnd(c) \/ ListSector(c) \/ ListEnd(c)
      PROVE  FatInv'
  BY <1>4, FindEntryKeeps, WrongKindKeeps, FreeOldKeeps, FreeDeletedKeeps, OpenFileKeeps,
     RenameFoundKeeps, EnterDirectoryKeeps, WalkKeeps, ReadBlockKeeps, ReadEndKeeps, ListSectorKeeps,
     ListEndKeeps
<1>5. ASSUME NEW c \in Callers,
             \/ WriteBlock(c) \/ NewDirectory(c) \/ ExtendDirectory(c) \/ DiskFull(c)
             \/ FlushSector(c) \/ ZeroCluster(c) \/ ReadNewCluster(c) \/ WriteDots(c)
             \/ FindSlot(c) \/ RereadEntry(c) \/ CommitEntry(c)
      PROVE  FatInv'
  BY <1>5, WriteBlockKeeps, NewDirectoryKeeps, ExtendDirectoryKeeps, DiskFullNever, FlushSectorKeeps,
     ZeroClusterKeeps, ReadNewClusterKeeps, WriteDotsKeeps, FindSlotKeeps, RereadEntryKeeps,
     CommitEntryKeeps
<1>6. ASSUME NEW c \in Callers, ReadFails(c) \/ WriteFails(c)  PROVE FatInv'
  BY <1>6 DEF ReadFails, WriteFails
<1>. QED
  BY <1>1, <1>2, <1>3, <1>4, <1>5, <1>6 DEF Next

\* While no transfer fails, the machine stays on, no call is preempted and the
\* callers look for room before they write, every chain of the volume is whole
\* between calls, ends in an end mark and belongs to one entry (fat32.c:
\* fat32_write_file, fat32_mkdir, fat32_delete, fat32_find_free_slot).
THEOREM ChainsAreSound == ASSUME Events = {}  PROVE Spec => []ChainsSound
<1>1. Init => FatInv
  BY InitKeeps
<1>2. FatInv /\ [Next]_vars => FatInv'
  BY NextKeeps
<1>3. FatInv => ChainsSound
  BY SoundIs
<1>. QED
  BY <1>1, <1>2, <1>3, PTL DEF Spec

\* Then no cluster is lost either: what is not free belongs to an entry, and
\* both copies of the FAT on the disk are the one in memory (fat32_flush_fat).
THEOREM NothingIsLost == ASSUME Events = {}  PROVE Spec => []NothingLost
<1>1. Init => FatInv
  BY InitKeeps
<1>2. FatInv /\ [Next]_vars => FatInv'
  BY NextKeeps
<1>3. FatInv => NothingLost
  BY SoundIs
<1>. QED
  BY <1>1, <1>2, <1>3, PTL DEF Spec

-----------------------------------------------------------------------------
(***************************************************************************)
(* The tree that the volume shows, and what each change of the volume      *)
(* makes of it.                                                            *)
(***************************************************************************)
NodeOf(f, s, e) ==
  IF e.attr = "dir" THEN [kind |-> "dir", id |-> e.first] ELSE [kind |-> "file", data |-> Data(f, s, e)]

\* t is the tree of the directories dirs.
Shows(f, s, dirs, t) ==
  /\ t = [d \in dirs |-> t[d]]
  /\ \A d \in dirs : t[d] = [n \in {Ent(s, p).name : p \in Ents(f, s, d)} |-> t[d][n]]
  /\ \A d \in dirs : \A p \in Ents(f, s, d) : t[d][Ent(s, p).name] = NodeOf(f, s, Ent(s, p))

LEMMA TreeShown ==
  ASSUME NEW f, NEW s, NEW dirs, NEW pend, Vol(f, s, dirs, pend)
  PROVE  Shows(f, s, dirs, TreeOf(f, s))
<1>. DEFINE t == TreeOf(f, s)
            V(d) == Visible(f, s, d)
            node(d, n) == NodeOf(f, s, V(d)[LowestIn(Named(V(d), n))])
<1>1. t = [d \in dirs |-> [n \in NamesOf(V(d)) |-> node(d, n)]]
  BY DirsAre DEF TreeOf, NodeOf
<1>2. \A d \in dirs : NamesOf(V(d)) = {Ent(s, p).name : p \in Ents(f, s, d)}
  BY SearchMeets
<1>3. \A d \in dirs : \A p \in Ents(f, s, d) : V(d)[LowestIn(Named(V(d), Ent(s, p).name))] = Ent(s, p)
  BY SearchMeets
<1>. HIDE DEF t, V
<1>4. \A d \in dirs : \A p \in Ents(f, s, d) : node(d, Ent(s, p).name) = NodeOf(f, s, Ent(s, p))
  BY <1>3
<1>. HIDE DEF node
<1>5. \A d \in dirs : t[d] = [n \in {Ent(s, p).name : p \in Ents(f, s, d)} |-> node(d, n)]
  BY <1>1, <1>2
<1>6. \A d \in dirs : \A p \in Ents(f, s, d) : t[d][Ent(s, p).name] = NodeOf(f, s, Ent(s, p))
  BY <1>4, <1>5
<1>7. t = [d \in dirs |-> t[d]] /\ \A d \in dirs : t[d] = [n \in {Ent(s, p).name : p \in Ents(f, s, d)} |-> t[d][n]]
  BY <1>1, <1>5
<1>. QED
  BY <1>6, <1>7 DEF Shows, t

LEMMA ShownOnce ==
  ASSUME NEW f, NEW s, NEW dirs, NEW t, Shows(f, s, dirs, t), NEW u, Shows(f, s, dirs, u)
  PROVE  t = u
<1>1. /\ t = [d \in dirs |-> t[d]] /\ u = [d \in dirs |-> u[d]]
  BY DEF Shows
<1>2. ASSUME NEW d \in dirs  PROVE t[d] = u[d]
  <2>. DEFINE names == {Ent(s, p).name : p \in Ents(f, s, d)}
  <2>1. t[d] = [n \in names |-> t[d][n]] /\ u[d] = [n \in names |-> u[d][n]]
    BY DEF Shows
  <2>2. \A n \in names : t[d][n] = u[d][n]
    BY DEF Shows
  <2>. HIDE DEF names
  <2>. QED
    BY <2>1, <2>2
<1>. QED
  BY <1>1, <1>2

LEMMA TreeFrom ==
  ASSUME NEW f, NEW s, NEW dirs, NEW pend, Vol(f, s, dirs, pend), NEW t, Shows(f, s, dirs, t)
  PROVE  TreeOf(f, s) = t
BY TreeShown, ShownOnce

\* The entries in set, and the blocks of the files among them, are where they were.
FileKept(f, s, g, s1, x) == Chain(g, x) = Chain(f, x) /\ \A a \in InChain(f, x) : s1[a] = s[a]
Unmoved(f, s, g, s1, set) ==
  \A q \in set : /\ Ent(s1, q) = Ent(s, q)
                 /\ Ent(s, q).attr = "file" => FileKept(f, s, g, s1, Ent(s, q).first)

LEMMA NodeKept ==
  ASSUME NEW f, NEW s, NEW g, NEW s1, NEW e, e.attr \in {"file", "dir"}, e.size \in Nat,
         e.attr = "file" => Chained(f, e.first) /\ FileKept(f, s, g, s1, e.first)
  PROVE  NodeOf(g, s1, e) = NodeOf(f, s, e)
<1>1. CASE e.attr = "dir"
  BY <1>1 DEF NodeOf
<1>2. CASE e.attr = "file"
  <2>. DEFINE x == e.first
              ch == Chain(f, x)
              m == IF e.size < Len(ch) THEN e.size ELSE Len(ch)
  <2>1. Chain(g, x) = ch /\ \A a \in InChain(f, x) : s1[a] = s[a]
    BY <1>2 DEF FileKept
  <2>2. Len(ch) \in Nat /\ \A k \in 1..Len(ch) : ch[k] \in InChain(f, x)
    BY <1>2, ChainFacts
  <2>. HIDE DEF ch
  <2>3. \A k \in 1..m : k \in 1..Len(ch)
    BY <2>2
  <2>4. \A k \in 1..m : s1[ch[k]] = s[ch[k]]
    BY <2>1, <2>2, <2>3
  <2>5. Data(g, s1, e) = [k \in 1..m |-> s1[ch[k]]] /\ Data(f, s, e) = [k \in 1..m |-> s[ch[k]]]
    BY <2>1 DEF Data, ch
  <2>. HIDE DEF m
  <2>6. Data(g, s1, e) = Data(f, s, e)
    BY <2>4, <2>5
  <2>. QED
    BY <2>6 DEF NodeOf
<1>. QED
  BY <1>1, <1>2

\* A file's clusters are in no directory, and not the call's.
LEMMA FileApart ==
  ASSUME NEW f, NEW s, NEW dirs, NEW pend, Vol(f, s, dirs, pend), NEW d \in dirs, NEW q \in Ents(f, s, d),
         Ent(s, q).attr = "file"
  PROVE  LET x == Ent(s, q).first
         IN  /\ x \in Heads(f, s, dirs) /\ x \notin dirs /\ Chained(f, x) /\ InChain(f, x) \subseteq Clusters
             /\ \A e \in dirs : InChain(f, x) \cap InChain(f, e) = {}
             /\ InChain(f, x) \cap pend = {}
             /\ \A a \in InChain(f, x) : f[a] # Free
<1>. DEFINE x == Ent(s, q).first
<1>1. x \in Heads(f, s, dirs) /\ Chained(f, x) /\ dirs \subseteq Heads(f, s, dirs)
  BY DirFacts
<1>2. x \notin dirs
  BY FileHead
<1>. HIDE DEF x
<1>3. ChainsOK(f, Heads(f, s, dirs), pend)
  BY DEF Vol
<1>4. \A e \in dirs : InChain(f, x) \cap InChain(f, e) = {}
  BY <1>1, <1>2, <1>3 DEF ChainsOK
<1>5. InChain(f, x) \cap pend = {}
  BY <1>1, <1>3 DEF ChainsOK
<1>6. \A a \in InChain(f, x) : f[a] # Free /\ a \in Clusters
  BY <1>1, <1>3, NotFree
<1>. QED
  BY <1>1, <1>2, <1>4, <1>5, <1>6 DEF x

LEMMA NodeStays ==
  ASSUME NEW f, NEW s, NEW dirs, NEW pend, Vol(f, s, dirs, pend), NEW g, NEW s1, NEW set,
         Unmoved(f, s, g, s1, set), NEW d \in dirs, NEW q \in Ents(f, s, d), q \in set
  PROVE  Ent(s1, q) = Ent(s, q) /\ NodeOf(g, s1, Ent(s1, q)) = NodeOf(f, s, Ent(s, q))
<1>1. Ent(s1, q) = Ent(s, q) /\ (Ent(s, q).attr = "file" => FileKept(f, s, g, s1, Ent(s, q).first))
  BY DEF Unmoved
<1>2. /\ Ent(s, q).attr \in {"file", "dir"} /\ Ent(s, q).size \in Nat /\ Chained(f, Ent(s, q).first)
  BY DirFacts
<1>. QED
  BY <1>1, <1>2, NodeKept

\* The same entries and blocks: the same tree.
LEMMA SameTree ==
  ASSUME NEW f, NEW s, NEW dirs, NEW pend, Vol(f, s, dirs, pend),
         NEW g, NEW s1, NEW pend1, Vol(g, s1, dirs, pend1),
         \A d \in dirs : Ents(g, s1, d) = Ents(f, s, d) /\ Unmoved(f, s, g, s1, Ents(f, s, d))
  PROVE  TreeOf(g, s1) = TreeOf(f, s)
<1>. DEFINE t == TreeOf(f, s)
<1>1. Shows(f, s, dirs, t)
  BY TreeShown
<1>. HIDE DEF t
<1>2. \A d \in dirs : \A p \in Ents(f, s, d) :
        Ent(s1, p) = Ent(s, p) /\ NodeOf(g, s1, Ent(s1, p)) = NodeOf(f, s, Ent(s, p))
  BY NodeStays
<1>3. ASSUME NEW d \in dirs  PROVE t[d] = [n \in {Ent(s1, p).name : p \in Ents(g, s1, d)} |-> t[d][n]]
  <2>1. {Ent(s1, p).name : p \in Ents(g, s1, d)} = {Ent(s, p).name : p \in Ents(f, s, d)}
    BY <1>2
  <2>. QED
    BY <1>1, <2>1 DEF Shows
<1>4. \A d \in dirs : \A p \in Ents(g, s1, d) : t[d][Ent(s1, p).name] = NodeOf(g, s1, Ent(s1, p))
  BY <1>1, <1>2 DEF Shows
<1>5. Shows(g, s1, dirs, t)
  BY <1>1, <1>3, <1>4 DEF Shows
<1>6. TreeOf(g, s1) = t
  BY <1>5, TreeFrom
<1>. QED
  BY <1>6 DEF t

\* Only clusters that are free, the call's or a directory's are written.
LEMMA UnmovedIf ==
  ASSUME NEW f, NEW s, NEW dirs, NEW pend, Vol(f, s, dirs, pend), NEW g, NEW s1, NEW d \in dirs,
         NEW set \in SUBSET Ents(f, s, d), \A q \in set : Ent(s1, q) = Ent(s, q),
         \A q \in set : Ent(s, q).attr = "file" => Chain(g, Ent(s, q).first) = Chain(f, Ent(s, q).first),
         \A a \in Clusters : a \in pend \/ f[a] = Free \/ (\E e \in dirs : a \in InChain(f, e)) \/ s1[a] = s[a]
  PROVE  Unmoved(f, s, g, s1, set)
<1>1. ASSUME NEW q \in set, Ent(s, q).attr = "file"  PROVE FileKept(f, s, g, s1, Ent(s, q).first)
  <2>. DEFINE x == Ent(s, q).first
  <2>1. /\ InChain(f, x) \subseteq Clusters /\ (\A e \in dirs : InChain(f, x) \cap InChain(f, e) = {})
        /\ InChain(f, x) \cap pend = {} /\ \A a \in InChain(f, x) : f[a] # Free
    BY <1>1, FileApart
  <2>2. Chain(g, x) = Chain(f, x)
    BY <1>1
  <2>. HIDE DEF x
  <2>3. \A a \in InChain(f, x) : s1[a] = s[a]
    BY <2>1
  <2>. QED
    BY <2>2, <2>3 DEF FileKept, x
<1>. QED
  BY <1>1 DEF Unmoved

\* The tree does not see what a call writes to its own clusters, ...
LEMMA TakenTree ==
  ASSUME NEW f, NEW s, NEW dirs, NEW pend, Vol(f, s, dirs, pend), NEW x, NEW prev, NEW n,
         Run(f, pend, x, prev, n), NEW new \in Clusters, f[new] = Free, NEW s1, OnlyAt(s, s1, new)
  PROVE  TreeOf(Linked(f, new, prev), s1) = TreeOf(f, s)
<1>. DEFINE g == Linked(f, new, prev)
            heads == Heads(f, s, dirs)
<1>1. Vol(g, s1, dirs, pend \cup {new}) /\ Taken(f, s, g, s1, dirs, new)
  BY ClusterTaken
<1>2. ChainsOK(f, heads, pend)
  BY DEF Vol
<1>3. /\ ChainsOK(g, heads, pend \cup {new})
      /\ Run(g, pend \cup {new}, IF n = 0 THEN new ELSE x, new, n + 1)
      /\ \A y \in heads : /\ Chain(g, y) = Chain(f, y) /\ InChain(g, y) = InChain(f, y)
                          /\ \A a \in InChain(f, y) : g[a] = f[a]
      /\ Cardinality(FreeClusters(g)) = Cardinality(FreeClusters(f)) - 1
  BY <1>2, RunGrown
<1>. HIDE DEF g, heads
<1>4. ASSUME NEW d \in dirs
      PROVE  Ents(g, s1, d) = Ents(f, s, d) /\ Unmoved(f, s, g, s1, Ents(f, s, d))
  <2>1. Ents(g, s1, d) = Ents(f, s, d) /\ \A q \in Ents(f, s, d) : Ent(s1, q) = Ent(s, q)
    BY <1>1, DirFacts DEF Taken
  <2>2. \A q \in Ents(f, s, d) : Chain(g, Ent(s, q).first) = Chain(f, Ent(s, q).first)
    BY <1>3, DirFacts DEF heads
  <2>3. \A a \in Clusters : f[a] = Free \/ s1[a] = s[a]
    BY DEF OnlyAt
  <2>. QED
    BY <2>1, <2>2, <2>3, UnmovedIf
<1>5. TreeOf(g, s1) = TreeOf(f, s)
  <2>1. Vol(g, s1, dirs, pend \cup {new})
    BY <1>1
  <2>. QED
    BY <1>4, <2>1, SameTree
<1>. QED
  BY <1>5 DEF g

LEMMA WrittenTree ==
  ASSUME NEW f, NEW s, NEW dirs, NEW pend, Vol(f, s, dirs, pend), NEW a \in pend,
         NEW s2, OnlyAt(s, s2, a), s2 = [b \in Clusters |-> s2[b]]
  PROVE  TreeOf(f, s2) = TreeOf(f, s)
<1>. DEFINE t  == s2[a]
            s1 == [s EXCEPT ![a] = t]
<1>1. /\ Vol(f, s1, dirs, pend) /\ DOMAIN s1 = Clusters /\ s1[a] = t /\ a \in Clusters
      /\ \A d \in dirs : Ents(f, s1, d) = Ents(f, s, d) /\ a \notin InChain(f, d)
      /\ \A d \in dirs : \A p \in Places(f, d) : Ent(s1, p) = Ent(s, p)
      /\ \A w : PathOK(f, s, dirs, w) => PathOK(f, s1, dirs, w)
  BY ClusterWritten
<1>2. \A b \in Clusters : b = a \/ s1[b] = s[b]
  BY DirFacts
<1>5. s2 = s1
  BY DirFacts DEF OnlyAt
<1>. HIDE DEF s1
<1>3. ASSUME NEW d \in dirs
      PROVE  Ents(f, s1, d) = Ents(f, s, d) /\ Unmoved(f, s, f, s1, Ents(f, s, d))
  <2>1. \A q \in Ents(f, s, d) : Ent(s1, q) = Ent(s, q)
    BY <1>1, DirFacts
  <2>. QED
    BY <1>1, <1>2, <2>1, UnmovedIf
<1>4. TreeOf(f, s1) = TreeOf(f, s)
  <2>1. Vol(f, s1, dirs, pend)
    BY <1>1
  <2>. QED
    BY <1>3, <2>1, SameTree
<1>. QED
  BY <1>4, <1>5

\* ... nor a directory's new sector.
LEMMA ExtendedTree ==
  ASSUME NEW f, NEW s, NEW dirs, NEW pend, Vol(f, s, dirs, pend), NEW x, NEW prev, NEW n,
         Run(f, pend, x, prev, n), NEW d \in dirs, NEW cur \in InChain(f, d), f[cur] = EOC,
         \A i \in 1..Slots : Live(s[cur][i]), NEW new \in Clusters, f[new] = Free
  PROVE  TreeOf(Linked(f, new, cur), [s EXCEPT ![new] = ZeroSector]) = TreeOf(f, s)
<1>. DEFINE g  == Linked(f, new, cur)
            s1 == [s EXCEPT ![new] = ZeroSector]
            heads == Heads(f, s, dirs)
<1>1. Vol(g, s1, dirs, pend) /\ Longer(f, s, g, s1, dirs, d, new)
  BY DirExtended
<1>2. ChainsOK(f, heads, pend) /\ d \in heads
  BY DirFacts DEF Vol
<1>3. \A z \in heads \ {d} : Chain(g, z) = Chain(f, z)
  BY <1>2, ChainExtended
<1>4. \A b \in Clusters : b = new \/ s1[b] = s[b]
  BY DirFacts
<1>. HIDE DEF g, s1
<1>5. ASSUME NEW c \in dirs
      PROVE  Ents(g, s1, c) = Ents(f, s, c) /\ Unmoved(f, s, g, s1, Ents(f, s, c))
  <2>1. Ents(g, s1, c) = Ents(f, s, c) /\ \A q \in Ents(f, s, c) : Ent(s1, q) = Ent(s, q)
    BY <1>1 DEF Longer
  <2>2. \A q \in Ents(f, s, c) : Ent(s, q).attr = "file" => Chain(g, Ent(s, q).first) = Chain(f, Ent(s, q).first)
    BY <1>3, FileApart
  <2>. QED
    BY <1>4, <2>1, <2>2, UnmovedIf
<1>6. TreeOf(g, s1) = TreeOf(f, s)
  <2>1. Vol(g, s1, dirs, pend)
    BY <1>1
  <2>. QED
    BY <1>5, <2>1, SameTree
<1>. QED
  BY <1>6 DEF g, s1

\* One entry is written.
LEMMA PutEnts ==
  ASSUME NEW f, NEW s, NEW dirs, NEW pend, Vol(f, s, dirs, pend), NEW d \in dirs, NEW p \in Places(f, d),
         NEW e \in Entry
  PROVE  LET s1 == Put(s, p, e)
         IN  /\ \A c \in dirs : \A q : q \in Ents(f, s1, c) <=>
                  (q \in Ents(f, s, c) /\ q # p) \/ (q = p /\ c = d /\ Live(e) /\ e.name \notin Dots)
             /\ \A c \in dirs : \A q \in Ents(f, s, c) : q # p => Ent(s1, q) = Ent(s, q)
             /\ Ent(s1, p) = e /\ p[1] \in InChain(f, d)
             /\ \A a \in Clusters : a = p[1] \/ s1[a] = s[a]
<1>. DEFINE s1 == Put(s, p, e)
<1>1. p[1] \in InChain(f, d) /\ p[2] \in 1..Slots /\ p = <<p[1], p[2]>>
  BY EntIn
<1>2. /\ DOMAIN s = Clusters /\ s[p[1]] \in [1..Slots -> Entry] /\ p \in Clusters \X (1..Slots)
      /\ \A c \in dirs : InChain(f, c) \subseteq Clusters
  BY <1>1, DirFacts
<1>3. /\ \A a \in Clusters : a # p[1] => s1[a] = s[a]
      /\ Ent(s1, p) = e
      /\ \A q \in Clusters \X (1..Slots) : q # p => Ent(s1, q) = Ent(s, q)
  BY <1>2, PutIs
<1>. HIDE DEF s1
<1>4. \A c \in dirs : \A q \in Places(f, c) : q # p => Ent(s1, q) = Ent(s, q)
  BY <1>2, <1>3 DEF Places
<1>5. \A c \in dirs : p \in Places(f, c) <=> c = d
  BY DirFacts
<1>6. ASSUME NEW c \in dirs, NEW q
      PROVE  q \in Ents(f, s1, c) <=>
               (q \in Ents(f, s, c) /\ q # p) \/ (q = p /\ c = d /\ Live(e) /\ e.name \notin Dots)
  <2>1. CASE q = p
    BY <1>3, <1>5, <2>1, EntIn
  <2>2. CASE q # p
    BY <1>4, <2>2, EntIn
  <2>. QED
    BY <2>1, <2>2
<1>7. \A c \in dirs : \A q \in Ents(f, s, c) : q # p => Ent(s1, q) = Ent(s, q)
  BY <1>4, EntIn
<1>. QED
  BY <1>1, <1>3, <1>6, <1>7 DEF s1

\* The directories dirs1 of a changed volume show what they did, but d, which
\* shows row, and x, if it is new, which is empty.
Row(t, dirs1, d, row, x) ==
  [e \in dirs1 |-> IF e = d THEN row ELSE IF e = x THEN [n \in {} |-> Root] ELSE t[e]]
RowOf(f, s, d, row) ==
  /\ row = [n \in {Ent(s, p).name : p \in Ents(f, s, d)} |-> row[n]]
  /\ \A p \in Ents(f, s, d) : row[Ent(s, p).name] = NodeOf(f, s, Ent(s, p))

LEMMA RowShown ==
  ASSUME NEW f, NEW s, NEW dirs, NEW pend, Vol(f, s, dirs, pend),
         NEW g, NEW s1, NEW dirs1, NEW pend1, Vol(g, s1, dirs1, pend1),
         NEW d \in dirs1, NEW row, RowOf(g, s1, d, row),
         NEW x, x \in dirs1 => Ents(g, s1, x) = {} /\ x # d,
         \A c \in dirs1 \ {d, x} :
           c \in dirs /\ Ents(g, s1, c) = Ents(f, s, c) /\ Unmoved(f, s, g, s1, Ents(f, s, c))
  PROVE  TreeOf(g, s1) = Row(TreeOf(f, s), dirs1, d, row, x)
<1>. DEFINE t  == TreeOf(f, s)
            t1 == Row(t, dirs1, d, row, x)
<1>1. Shows(f, s, dirs, t)
  BY TreeShown
<1>. HIDE DEF t
<1>2. t1 = [c \in dirs1 |-> t1[c]]
  BY DEF Row
<1>3. /\ t1[d] = row /\ (x \in dirs1 => t1[x] = [n \in {} |-> Root])
      /\ \A c \in dirs1 \ {d, x} : t1[c] = t[c]
  BY DEF Row
<1>. HIDE DEF t1
<1>4. ASSUME NEW c \in dirs1
      PROVE  /\ t1[c] = [n \in {Ent(s1, p).name : p \in Ents(g, s1, c)} |-> t1[c][n]]
             /\ \A p \in Ents(g, s1, c) : t1[c][Ent(s1, p).name] = NodeOf(g, s1, Ent(s1, p))
  <2>1. CASE c = d
    BY <1>3, <2>1 DEF RowOf
  <2>2. CASE c = x /\ c # d
    <3>1. Ents(g, s1, c) = {}
      BY <2>2
    <3>2. {Ent(s1, p).name : p \in Ents(g, s1, c)} = {}
      BY <3>1
    <3>3. t1[c] = [n \in {} |-> Root]
      BY <1>3, <2>2
    <3>4. t1[c] = [n \in {} |-> t1[c][n]]
      BY <3>3
    <3>. QED
      BY <3>1, <3>2, <3>4
  <2>3. CASE c # d /\ c # x
    <3>1. c \in dirs /\ Ents(g, s1, c) = Ents(f, s, c) /\ Unmoved(f, s, g, s1, Ents(f, s, c)) /\ t1[c] = t[c]
      BY <1>3, <2>3
    <3>2. \A p \in Ents(f, s, c) : Ent(s1, p) = Ent(s, p) /\ NodeOf(g, s1, Ent(s1, p)) = NodeOf(f, s, Ent(s, p))
      BY <3>1, NodeStays
    <3>3. {Ent(s1, p).name : p \in Ents(g, s1, c)} = {Ent(s, p).name : p \in Ents(f, s, c)}
      BY <3>1, <3>2
    <3>4. /\ t[c] = [n \in {Ent(s, p).name : p \in Ents(f, s, c)} |-> t[c][n]]
          /\ \A p \in Ents(f, s, c) : t[c][Ent(s, p).name] = NodeOf(f, s, Ent(s, p))
      BY <1>1, <3>1 DEF Shows
    <3>. QED
      BY <3>1, <3>2, <3>3, <3>4
  <2>. QED
    BY <2>1, <2>2, <2>3
<1>5. Shows(g, s1, dirs1, t1)
  BY <1>2, <1>4 DEF Shows
<1>6. TreeOf(g, s1) = t1
  BY <1>5, TreeFrom
<1>. QED
  BY <1>6 DEF t, t1

\* An entry that is deleted leaves the tree, and so does its directory.
LEMMA RemovedTree ==
  ASSUME NEW f, NEW s, NEW dirs, Vol(f, s, dirs, {}), NEW d \in dirs, NEW p \in Ents(f, s, d),
         Ent(s, p).attr = "dir" => Ents(f, s, Ent(s, p).first) = {}
  PROVE  LET x == Ent(s, p).first
             t == TreeOf(f, s)
         IN  TreeOf(FreeChain(f, x), Put(s, p, Deleted)) =
               Row(t, dirs \ {x}, d, [m \in DOMAIN t[d] \ {Ent(s, p).name} |-> t[d][m]], x)
<1>. DEFINE x     == Ent(s, p).first
            g     == FreeChain(f, x)
            s1    == Put(s, p, Deleted)
            dirs1 == dirs \ {x}
            heads == Heads(f, s, dirs)
            t     == TreeOf(f, s)
            row   == [m \in DOMAIN t[d] \ {Ent(s, p).name} |-> t[d][m]]
<1>1. /\ Vol(g, s1, dirs1, {}) /\ d \in dirs1 /\ p \in Places(g, d)
      /\ \A q \in Ents(g, s1, d) : Ent(s1, q).name # Ent(s, p).name
      /\ \A w : w.cluster = d /\ PathOK(f, s, dirs, w) => PathOK(g, s1, dirs1, w)
      /\ Cardinality(FreeClusters(g)) = Cardinality(FreeClusters(f)) + Len(Chain(f, x))
  BY EntryRemoved
<1>2. ChainsOK(f, heads, {}) /\ x \in heads
  BY DirFacts DEF Vol
<1>3. /\ ChainsOK(g, heads \ {x}, {})
      /\ \A y \in heads \ {x} : /\ Chain(g, y) = Chain(f, y) /\ InChain(g, y) = InChain(f, y)
                                /\ \A a \in InChain(f, y) : g[a] = f[a]
      /\ Cardinality(FreeClusters(g)) = Cardinality(FreeClusters(f)) + Len(Chain(f, x))
  BY <1>2, Freed
<1>4. Deleted \in Entry /\ Live(Deleted) = FALSE /\ p \in Places(f, d)
  BY EntriesAre, EntIn DEF Entry
<1>5. /\ \A c \in dirs : \A q : q \in Ents(f, s1, c) <=>
            (q \in Ents(f, s, c) /\ q # p) \/ (q = p /\ c = d /\ Live(Deleted) /\ Deleted.name \notin Dots)
      /\ \A c \in dirs : \A q \in Ents(f, s, c) : q # p => Ent(s1, q) = Ent(s, q)
      /\ Ent(s1, p) = Deleted /\ p[1] \in InChain(f, d)
      /\ \A a \in Clusters : a = p[1] \/ s1[a] = s[a]
  BY <1>4, PutEnts
<1>6. Shows(f, s, dirs, t)
  BY TreeShown
<1>7. \A c \in dirs : \A q \in Ents(f, s, c) : q # p => Ent(s, q).first # x
  BY DEF Vol, DirsOK
<1>. HIDE DEF g, s1, t, x
<1>8. ASSUME NEW c \in dirs1
      PROVE  Ents(g, s1, c) = Ents(f, s, c) \ {p} /\ Unmoved(f, s, g, s1, Ents(f, s, c) \ {p})
  <2>1. c \in heads \ {x}
    BY DirFacts
  <2>2. Places(g, c) = Places(f, c)
    BY <1>3, <2>1 DEF Places
  <2>3. \A q : q \in Ents(g, s1, c) <=> q \in Ents(f, s1, c)
    BY <2>2, EntIn
  <2>4. \A q : q \in Ents(g, s1, c) <=> q \in Ents(f, s, c) /\ q # p
    BY <1>4, <1>5, <2>3
  <2>5. \A q \in Ents(f, s, c) \ {p} : Chain(g, Ent(s, q).first) = Chain(f, Ent(s, q).first)
    <3>1. ASSUME NEW q \in Ents(f, s, c), q # p  PROVE Ent(s, q).first \in heads \ {x}
      BY <1>7, <3>1, DirFacts
    <3>. QED
      BY <1>3, <3>1
  <2>6. \A q \in Ents(f, s, c) \ {p} : Ent(s1, q) = Ent(s, q)
    BY <1>5
  <2>7. \A a \in Clusters : (\E e \in dirs : a \in InChain(f, e)) \/ s1[a] = s[a]
    BY <1>5
  <2>8. Unmoved(f, s, g, s1, Ents(f, s, c) \ {p})
    BY <2>5, <2>6, <2>7, UnmovedIf
  <2>. QED
    BY <2>4, <2>8
<1>9. RowOf(g, s1, d, row)
  <2>1. Ents(g, s1, d) = Ents(f, s, d) \ {p} /\ Unmoved(f, s, g, s1, Ents(f, s, d) \ {p})
    BY <1>1, <1>8
  <2>2. \A q \in Ents(f, s, d) \ {p} : Ent(s1, q) = Ent(s, q) /\ NodeOf(g, s1, Ent(s1, q)) = NodeOf(f, s, Ent(s, q))
    BY <2>1, NodeStays
  <2>3. \A q \in Ents(f, s, d) \ {p} : Ent(s, q).name # Ent(s, p).name
    BY DEF Vol, DirsOK
  <2>4. DOMAIN t[d] = {Ent(s, q).name : q \in Ents(f, s, d)}
    BY <1>6 DEF Shows
  <2>5. {Ent(s1, q).name : q \in Ents(g, s1, d)} = DOMAIN t[d] \ {Ent(s, p).name}
    BY <2>1, <2>2, <2>3, <2>4
  <2>6. \A q \in Ents(g, s1, d) : row[Ent(s1, q).name] = NodeOf(g, s1, Ent(s1, q))
    <3>1. ASSUME NEW q \in Ents(f, s, d) \ {p}  PROVE row[Ent(s1, q).name] = NodeOf(g, s1, Ent(s1, q))
      <4>1. Ent(s, q).name \in DOMAIN t[d] \ {Ent(s, p).name}
        BY <2>3, <2>4
      <4>2. row[Ent(s, q).name] = t[d][Ent(s, q).name]
        BY <4>1
      <4>3. t[d][Ent(s, q).name] = NodeOf(f, s, Ent(s, q))
        BY <1>6 DEF Shows
      <4>. HIDE DEF row
      <4>. QED
        BY <2>2, <4>2, <4>3
    <3>. HIDE DEF row
    <3>. QED
      BY <2>1, <3>1
  <2>7. row = [m \in DOMAIN t[d] \ {Ent(s, p).name} |-> row[m]]
    OBVIOUS
  <2>. HIDE DEF row
  <2>. QED
    BY <2>5, <2>6, <2>7 DEF RowOf
<1>10. ASSUME NEW c \in dirs1 \ {d, x}
       PROVE  c \in dirs /\ Ents(g, s1, c) = Ents(f, s, c) /\ Unmoved(f, s, g, s1, Ents(f, s, c))
  <2>1. p \notin Ents(f, s, c)
    BY <1>4, DirFacts
  <2>2. Ents(f, s, c) \ {p} = Ents(f, s, c)
    BY <2>1
  <2>. QED
    BY <1>8, <2>2
<1>11. TreeOf(g, s1) = Row(t, dirs1, d, row, x)
  <2>1. Vol(g, s1, dirs1, {}) /\ d \in dirs1 /\ x \notin dirs1
    BY <1>1
  <2>. HIDE DEF row, dirs1
  <2>. QED
    BY <1>9, <1>10, <2>1, RowShown DEF t
<1>. QED
  BY <1>11 DEF g, s1, t, x

\* A new entry brings its file, or its directory, into the tree.
LEMMA AddedTree ==
  ASSUME NEW f, NEW s, NEW dirs, NEW x, NEW d, NEW p, NEW n, NEW attr, NEW size,
         Ready(f, s, dirs, x, d, p, n, attr, size),
         NEW e, e = NewEntry(n, attr, x, size), NEW t, t = TreeOf(f, s),
         NEW dirs1, dirs1 = IF attr = "dir" THEN dirs \cup {x} ELSE dirs,
         NEW row, row = [m \in DOMAIN t[d] \cup {n} |-> IF m = n THEN NodeOf(f, s, e) ELSE t[d][m]]
  PROVE  /\ TreeOf(f, Put(s, p, e)) = Row(t, dirs1, d, row, x)
         /\ x \notin dirs /\ x \in Clusters /\ n \notin DOMAIN t[d]
<1>. DEFINE s1    == Put(s, p, e)
            heads == Heads(f, s, dirs)
<1>0. /\ Vol(f, s, dirs, InChain(f, x)) /\ Chained(f, x) /\ d \in dirs
      /\ p \in Places(f, d) /\ Ent(s, p) \in {End, Deleted}
      /\ \A j \in 1..p[2] - 1 : s[p[1]][j] # End
      /\ n \in Names /\ (\A q \in Ents(f, s, d) : Ent(s, q).name # n)
      /\ attr \in {"file", "dir"} /\ size \in Nat
      /\ attr = "file" => Len(Chain(f, x)) = (IF size = 0 THEN 1 ELSE size)
      /\ attr = "dir" => /\ InChain(f, x) = {x} /\ TableOK(f, s, x)
                         /\ \A i \in 1..Slots : Live(s[x][i]) => s[x][i].name \in Dots
  BY DEF Ready
<1>. USE <1>0
<1>1. Vol(f, s1, dirs1, {})
  BY EntryAdded
<1>2. x \in Clusters /\ x \in InChain(f, x) /\ InChain(f, x) \subseteq Clusters
      /\ \A c \in dirs : InChain(f, c) \cap InChain(f, x) = {} /\ c \in InChain(f, c)
  <2>1. x \in Clusters /\ x \in InChain(f, x) /\ InChain(f, x) \subseteq Clusters
    BY ChainFacts
  <2>2. dirs \subseteq heads /\ ChainsOK(f, heads, InChain(f, x)) /\ \A c \in dirs : Chained(f, c)
    BY DirFacts DEF Vol
  <2>3. \A c \in heads : InChain(f, c) \cap InChain(f, x) = {}
    BY <2>2 DEF ChainsOK
  <2>4. \A c \in dirs : c \in InChain(f, c)
    BY <2>2, ChainFacts
  <2>. QED
    BY <2>1, <2>2, <2>3, <2>4
<1>3. x \notin dirs
  BY <1>2
<1>4. /\ e \in Entry /\ Live(e) /\ e.name = n /\ e.attr = attr /\ e.first = x /\ e.size = size
      /\ n \notin Dots
  <2>1. e \in [attr : {"file", "dir"}, name : Names \cup Dots, first : Clusters, size : Nat]
    BY <1>2 DEF NewEntry
  <2>2. e.attr = attr /\ e.name = n /\ e.first = x /\ e.size = size
    BY DEF NewEntry
  <2>3. Live(e)
    BY <2>2 DEF Live
  <2>4. n \notin Dots
    BY Consts
  <2>. QED
    BY <2>1, <2>2, <2>3, <2>4 DEF Entry
<1>5. /\ \A c \in dirs : \A q : q \in Ents(f, s1, c) <=>
            (q \in Ents(f, s, c) /\ q # p) \/ (q = p /\ c = d /\ Live(e) /\ e.name \notin Dots)
      /\ \A c \in dirs : \A q \in Ents(f, s, c) : q # p => Ent(s1, q) = Ent(s, q)
      /\ Ent(s1, p) = e /\ p[1] \in InChain(f, d)
      /\ \A a \in Clusters : a = p[1] \/ s1[a] = s[a]
  BY <1>4, PutEnts
<1>6. Shows(f, s, dirs, t)
  BY TreeShown
<1>. HIDE DEF s1
<1>7. \A c \in dirs : p \notin Ents(f, s, c)
  BY EntIn, EntriesAre
<1>8. ASSUME NEW c \in dirs
      PROVE  /\ Unmoved(f, s, f, s1, Ents(f, s, c))
             /\ \A q : q \in Ents(f, s1, c) <=> q \in Ents(f, s, c) \/ (q = p /\ c = d)
  <2>1. \A q \in Ents(f, s, c) : Ent(s1, q) = Ent(s, q)
    BY <1>5, <1>7
  <2>2. \A a \in Clusters : (\E b \in dirs : a \in InChain(f, b)) \/ s1[a] = s[a]
    BY <1>5
  <2>3. Unmoved(f, s, f, s1, Ents(f, s, c))
    BY <2>1, <2>2, UnmovedIf
  <2>. QED
    BY <1>4, <1>5, <1>7, <2>3
<1>9. \A a \in InChain(f, x) : s1[a] = s[a]
  BY <1>2, <1>5
<1>10. NodeOf(f, s1, e) = NodeOf(f, s, e)
  <2>1. Chained(f, e.first) /\ FileKept(f, s, f, s1, e.first)
    BY <1>4, <1>9 DEF FileKept
  <2>2. e.attr \in {"file", "dir"} /\ e.size \in Nat
    BY <1>4
  <2>. QED
    BY <2>1, <2>2, NodeKept
<1>11. attr = "dir" => Ents(f, s1, x) = {}
  <2>1. ASSUME attr = "dir", NEW q \in Ents(f, s1, x)  PROVE FALSE
    <3>1. q \in Places(f, x) /\ Live(Ent(s1, q)) /\ Ent(s1, q).name \notin Dots /\ q[1] = x /\ q[2] \in 1..Slots
      BY <2>1, EntIn
    <3>2. s1[x] = s[x]
      BY <1>2, <1>9
    <3>3. Ent(s1, q) = s[x][q[2]]
      BY <3>1, <3>2 DEF Ent
    <3>. QED
      BY <2>1, <3>1, <3>3
  <2>. QED
    BY <2>1
<1>12. n \notin DOMAIN t[d] /\ DOMAIN t[d] = {Ent(s, q).name : q \in Ents(f, s, d)}
  <2>1. DOMAIN t[d] = {Ent(s, q).name : q \in Ents(f, s, d)}
    BY <1>6 DEF Shows
  <2>. QED
    BY <2>1
<1>13. RowOf(f, s1, d, row)
  <2>1. \A q : q \in Ents(f, s1, d) <=> q \in Ents(f, s, d) \/ q = p
    BY <1>8
  <2>2. \A q \in Ents(f, s, d) : Ent(s1, q) = Ent(s, q) /\ NodeOf(f, s1, Ent(s1, q)) = NodeOf(f, s, Ent(s, q))
    BY <1>8, NodeStays
  <2>3. {Ent(s1, q).name : q \in Ents(f, s1, d)} = DOMAIN t[d] \cup {n}
    BY <1>4, <1>5, <1>12, <2>1, <2>2
  <2>4. row[n] = NodeOf(f, s, e) /\ \A m \in DOMAIN t[d] : row[m] = t[d][m]
    BY <1>12
  <2>5. row = [m \in DOMAIN t[d] \cup {n} |-> row[m]]
    OBVIOUS
  <2>6. ASSUME NEW q \in Ents(f, s1, d)  PROVE row[Ent(s1, q).name] = NodeOf(f, s1, Ent(s1, q))
    <3>1. CASE q = p
      BY <1>4, <1>5, <1>10, <2>4, <3>1
    <3>2. CASE q \in Ents(f, s, d)
      <4>1. Ent(s, q).name \in DOMAIN t[d] /\ t[d][Ent(s, q).name] = NodeOf(f, s, Ent(s, q))
        BY <1>6, <1>12, <3>2 DEF Shows
      <4>. QED
        BY <2>2, <2>4, <3>2, <4>1
    <3>. QED
      BY <2>1, <3>1, <3>2
  <2>. QED
    BY <2>3, <2>5, <2>6 DEF RowOf
<1>14. ASSUME NEW c \in dirs1 \ {d, x}
       PROVE  c \in dirs /\ Ents(f, s1, c) = Ents(f, s, c) /\ Unmoved(f, s, f, s1, Ents(f, s, c))
  <2>1. c \in dirs /\ c # d
    OBVIOUS
  <2>. QED
    BY <1>8, <2>1
<1>15. TreeOf(f, s1) = Row(t, dirs1, d, row, x)
  <2>1. Vol(f, s1, dirs1, {}) /\ d \in dirs1
    BY <1>1
  <2>2. x \in dirs1 => Ents(f, s1, x) = {} /\ x # d
    BY <1>3, <1>11
  <2>. QED
    BY <1>13, <1>14, <2>1, <2>2, RowShown
<1>. QED
  BY <1>2, <1>3, <1>12, <1>15 DEF s1

\* An entry gets another name, and shows what it showed.
LEMMA RenamedTree ==
  ASSUME NEW f, NEW s, NEW dirs, Vol(f, s, dirs, {}), NEW d \in dirs, NEW p \in Ents(f, s, d),
         NEW n \in Names, \A q \in Ents(f, s, d) : Ent(s, q).name # n
  PROVE  LET t   == TreeOf(f, s)
             old == Ent(s, p).name
         IN  /\ TreeOf(f, Put(s, p, [Ent(s, p) EXCEPT !.name = n])) =
                  Row(t, dirs, d, [m \in (DOMAIN t[d] \cup {n}) \ {old} |->
                                     IF m = n THEN t[d][old] ELSE t[d][m]], 0)
             /\ n \notin DOMAIN t[d] /\ old \in DOMAIN t[d]
<1>. DEFINE e   == Ent(s, p)
            e1  == [e EXCEPT !.name = n]
            s1  == Put(s, p, e1)
            t   == TreeOf(f, s)
            old == e.name
            row == [m \in (DOMAIN t[d] \cup {n}) \ {old} |-> IF m = n THEN t[d][old] ELSE t[d][m]]
<1>1. Vol(f, s1, dirs, {}) /\ \A w : PathOK(f, s, dirs, w) => PathOK(f, s1, dirs, w)
  BY EntryRenamed
<1>2. e \in Entry /\ Live(e) /\ p \in Places(f, d) /\ Chained(f, e.first)
  BY DirFacts
<1>3. /\ e1 \in Entry /\ Live(e1) /\ e1.name = n /\ e1.attr = e.attr /\ e1.first = e.first /\ e1.size = e.size
      /\ n \notin Dots /\ e.attr \in {"file", "dir"} /\ e.size \in Nat
  <2>. HIDE DEF e
  <2>1. e \in [attr : {"file", "dir"}, name : Names \cup Dots, first : Clusters, size : Nat]
    BY <1>2, EntriesAre DEF Entry
  <2>2. /\ e1 \in [attr : {"file", "dir"}, name : Names \cup Dots, first : Clusters, size : Nat]
        /\ e1.name = n /\ e1.attr = e.attr /\ e1.first = e.first /\ e1.size = e.size
    BY <2>1
  <2>3. Live(e1)
    BY <2>1, <2>2 DEF Live
  <2>4. n \notin Dots
    BY Consts
  <2>. HIDE DEF e1
  <2>. QED
    BY <2>1, <2>2, <2>3, <2>4 DEF Entry
<1>. HIDE DEF e1
<1>4. /\ \A c \in dirs : \A q : q \in Ents(f, s1, c) <=>
            (q \in Ents(f, s, c) /\ q # p) \/ (q = p /\ c = d /\ Live(e1) /\ e1.name \notin Dots)
      /\ \A c \in dirs : \A q \in Ents(f, s, c) : q # p => Ent(s1, q) = Ent(s, q)
      /\ Ent(s1, p) = e1 /\ p[1] \in InChain(f, d)
      /\ \A a \in Clusters : a = p[1] \/ s1[a] = s[a]
  BY <1>2, <1>3, PutEnts
<1>5. Shows(f, s, dirs, t)
  BY TreeShown
<1>. HIDE DEF s1, t
<1>6. ASSUME NEW c \in dirs
      PROVE  /\ Unmoved(f, s, f, s1, Ents(f, s, c) \ {p})
             /\ \A q : q \in Ents(f, s1, c) <=> (q \in Ents(f, s, c) /\ q # p) \/ (q = p /\ c = d)
  <2>1. \A q \in Ents(f, s, c) \ {p} : Ent(s1, q) = Ent(s, q)
    BY <1>4
  <2>2. \A a \in Clusters : (\E b \in dirs : a \in InChain(f, b)) \/ s1[a] = s[a]
    BY <1>4
  <2>3. Unmoved(f, s, f, s1, Ents(f, s, c) \ {p})
    BY <2>1, <2>2, UnmovedIf
  <2>. QED
    BY <1>3, <1>4, <2>3
<1>7. NodeOf(f, s1, e1) = NodeOf(f, s, e)
  <2>1. ASSUME e.attr = "file"  PROVE FileKept(f, s, f, s1, e.first)
    <3>1. /\ InChain(f, e.first) \subseteq Clusters
          /\ \A c \in dirs : InChain(f, e.first) \cap InChain(f, c) = {}
      BY <2>1, FileApart
    <3>2. \A a \in InChain(f, e.first) : s1[a] = s[a]
      BY <1>4, <3>1
    <3>. QED
      BY <3>2 DEF FileKept
  <2>. HIDE DEF e
  <2>2. NodeOf(f, s1, e) = NodeOf(f, s, e)
    BY <1>2, <1>3, <2>1, NodeKept
  <2>3. Data(f, s1, e1) = Data(f, s1, e)
    BY <1>3 DEF Data
  <2>4. NodeOf(f, s1, e1) = NodeOf(f, s1, e)
    BY <1>3, <2>3 DEF NodeOf
  <2>. QED
    BY <2>2, <2>4
<1>8. /\ DOMAIN t[d] = {Ent(s, q).name : q \in Ents(f, s, d)}
      /\ \A q \in Ents(f, s, d) : t[d][Ent(s, q).name] = NodeOf(f, s, Ent(s, q))
  BY <1>5 DEF Shows
<1>9. n \notin DOMAIN t[d] /\ old \in DOMAIN t[d]
  BY <1>8
<1>10. \A q \in Ents(f, s, d) \ {p} : Ent(s, q).name # old
  BY DEF Vol, DirsOK
<1>11. RowOf(f, s1, d, row)
  <2>1. \A q : q \in Ents(f, s1, d) <=> (q \in Ents(f, s, d) /\ q # p) \/ q = p
    BY <1>6
  <2>2. \A q \in Ents(f, s, d) \ {p} : Ent(s1, q) = Ent(s, q) /\ NodeOf(f, s1, Ent(s1, q)) = NodeOf(f, s, Ent(s, q))
    <3>1. Unmoved(f, s, f, s1, Ents(f, s, d) \ {p})
      BY <1>6
    <3>. QED
      BY <3>1, NodeStays
  <2>3. {Ent(s1, q).name : q \in Ents(f, s1, d)} = (DOMAIN t[d] \cup {n}) \ {old}
    <3>. DEFINE A == {Ent(s1, q).name : q \in Ents(f, s1, d)}
                B == (DOMAIN t[d] \cup {n}) \ {old}
    <3>1. \A m : m \in A <=> m = n \/ \E q \in Ents(f, s, d) \ {p} : m = Ent(s, q).name
      BY <1>3, <1>4, <2>1, <2>2
    <3>2. \A m : m \in B <=> m = n \/ \E q \in Ents(f, s, d) \ {p} : m = Ent(s, q).name
      BY <1>8, <1>9, <1>10
    <3>. HIDE DEF A, B
    <3>3. A = B
      BY <3>1, <3>2
    <3>. QED
      BY <3>3 DEF A, B
  <2>4. row[n] = NodeOf(f, s, e) /\ \A m \in DOMAIN t[d] \ {old} : row[m] = t[d][m]
    BY <1>8, <1>9
  <2>5. row = [m \in (DOMAIN t[d] \cup {n}) \ {old} |-> row[m]]
    OBVIOUS
  <2>. HIDE DEF row
  <2>6. ASSUME NEW q \in Ents(f, s1, d)  PROVE row[Ent(s1, q).name] = NodeOf(f, s1, Ent(s1, q))
    <3>1. CASE q = p
      BY <1>3, <1>4, <1>7, <2>4, <3>1
    <3>2. CASE q \in Ents(f, s, d) \ {p}
      BY <1>8, <1>10, <2>2, <2>4, <3>2
    <3>. QED
      BY <2>1, <3>1, <3>2
  <2>. QED
    BY <2>3, <2>5, <2>6 DEF RowOf
<1>12. ASSUME NEW c \in dirs \ {d, 0}
       PROVE  c \in dirs /\ Ents(f, s1, c) = Ents(f, s, c) /\ Unmoved(f, s, f, s1, Ents(f, s, c))
  <2>1. p \notin Ents(f, s, c)
    BY <1>2, DirFacts
  <2>2. Ents(f, s, c) \ {p} = Ents(f, s, c)
    BY <2>1
  <2>. QED
    BY <1>6, <2>1, <2>2
<1>13. TreeOf(f, s1) = Row(t, dirs, d, row, 0)
  <2>1. Vol(f, s1, dirs, {}) /\ 0 \notin dirs
    BY <1>1, DirFacts, Marks
  <2>. HIDE DEF row
  <2>. QED
    BY <1>11, <1>12, <2>1, RowShown DEF t
<1>. QED
  BY <1>9, <1>13 DEF s1, t, e1
-----------------------------------------------------------------------------
(***************************************************************************)
(* What a call makes of the tree.                                          *)
(***************************************************************************)
LEMMA WithIs ==
  ASSUME NEW d, NEW n, NEW node
  PROVE  TheVolume!With(d, n, node) =
           [e \in DOMAIN tree |-> IF e = d THEN [m \in DOMAIN tree[d] \cup {n} |->
                                                   IF m = n THEN node ELSE tree[d][m]]
                                  ELSE tree[e]]
BY DEF TheVolume!With

LEMMA WithoutIs ==
  ASSUME NEW t, NEW d, NEW n
  PROVE  TheVolume!Without(t, d, n) =
           [e \in DOMAIN t |-> IF e = d THEN [m \in DOMAIN t[d] \ {n} |-> t[d][m]] ELSE t[e]]
BY DEF TheVolume!Without

LEMMA OpenedIs ==
  ASSUME NEW t, NEW x
  PROVE  TheVolume!Opened(t, x) = [e \in DOMAIN t \cup {x} |-> IF e = x THEN [m \in {} |-> Root] ELSE t[e]]
BY DEF TheVolume!Opened, TheVolume!Empty
\* What the changes of the volume make of the tree is what the calls promise.
LEMMA RowsSame ==
  ASSUME NEW d, NEW n, NEW x, d \in DOMAIN tree, NEW row, row = [m \in DOMAIN tree[d] \ {n} |-> tree[d][m]],
         x \notin DOMAIN tree
  PROVE  Row(tree, DOMAIN tree \ {x}, d, row, x) = TheVolume!Without(tree, d, n)
<1>1. TheVolume!Without(tree, d, n) = [e \in DOMAIN tree |-> IF e = d THEN row ELSE tree[e]]
  BY WithoutIs
<1>2. DOMAIN tree \ {x} = DOMAIN tree
  OBVIOUS
<1>3. Row(tree, DOMAIN tree, d, row, x) = [e \in DOMAIN tree |-> IF e = d THEN row ELSE tree[e]]
  BY DEF Row
<1>. QED
  BY <1>1, <1>2, <1>3

LEMMA RowsGone ==
  ASSUME NEW d, NEW n, NEW x, d \in DOMAIN tree, NEW row, row = [m \in DOMAIN tree[d] \ {n} |-> tree[d][m]]
  PROVE  Row(tree, DOMAIN tree \ {x}, d, row, x) = [e \in DOMAIN tree \ {x} |-> TheVolume!Without(tree, d, n)[e]]
<1>1. PICK wout : wout = TheVolume!Without(tree, d, n)
  OBVIOUS
<1>2. wout = [e \in DOMAIN tree |-> IF e = d THEN row ELSE tree[e]]
  BY <1>1, WithoutIs
<1>3. Row(tree, DOMAIN tree \ {x}, d, row, x) = [e \in DOMAIN tree \ {x} |-> wout[e]]
  BY <1>2 DEF Row
<1>. QED
  BY <1>1, <1>3

LEMMA RowsMore ==
  ASSUME NEW d, NEW n, NEW x, NEW node, d \in DOMAIN tree, x \notin DOMAIN tree,
         NEW row, row = [m \in DOMAIN tree[d] \cup {n} |-> IF m = n THEN node ELSE tree[d][m]]
  PROVE  /\ Row(tree, DOMAIN tree, d, row, x) = TheVolume!With(d, n, node)
         /\ Row(tree, DOMAIN tree \cup {x}, d, row, x) = TheVolume!Opened(TheVolume!With(d, n, node), x)
<1>. DEFINE with == TheVolume!With(d, n, node)
<1>1. with = [e \in DOMAIN tree |-> IF e = d THEN row ELSE tree[e]]
  BY WithIs
<1>. HIDE DEF with
<1>2. Row(tree, DOMAIN tree, d, row, x) = with
  BY <1>1 DEF Row
<1>3. Row(tree, DOMAIN tree \cup {x}, d, row, x) = TheVolume!Opened(with, x)
  <2>1. TheVolume!Opened(with, x) = [e \in DOMAIN with \cup {x} |-> IF e = x THEN [m \in {} |-> Root] ELSE with[e]]
    BY OpenedIs
  <2>2. Row(tree, DOMAIN tree \cup {x}, d, row, x) =
          [e \in DOMAIN tree \cup {x} |-> IF e = d THEN row ELSE IF e = x THEN [m \in {} |-> Root] ELSE tree[e]]
    BY DEF Row
  <2>3. DOMAIN with = DOMAIN tree /\ \A e \in DOMAIN tree : with[e] = IF e = d THEN row ELSE tree[e]
    BY <1>1
  <2>. QED
    BY <2>1, <2>2, <2>3
<1>. QED
  BY <1>2, <1>3 DEF with

\* A file that is written again.
LEMMA RowAgain ==
  ASSUME NEW d, NEW n, NEW x, NEW node, d \in DOMAIN tree, x \notin DOMAIN tree
  PROVE  LET t == TheVolume!Without(tree, d, n)
         IN  Row(t, DOMAIN t, d, [m \in DOMAIN t[d] \cup {n} |-> IF m = n THEN node ELSE t[d][m]], x) =
               TheVolume!With(d, n, node)
<1>. DEFINE t == TheVolume!Without(tree, d, n)
            less == [m \in DOMAIN tree[d] \ {n} |-> tree[d][m]]
            more == [m \in DOMAIN tree[d] \cup {n} |-> IF m = n THEN node ELSE tree[d][m]]
            row  == [m \in DOMAIN t[d] \cup {n} |-> IF m = n THEN node ELSE t[d][m]]
<1>1. t = [e \in DOMAIN tree |-> IF e = d THEN less ELSE tree[e]]
  BY WithoutIs
<1>2. TheVolume!With(d, n, node) = [e \in DOMAIN tree |-> IF e = d THEN more ELSE tree[e]]
  BY WithIs
<1>. HIDE DEF t
<1>3. DOMAIN t = DOMAIN tree /\ t[d] = less /\ \A e \in DOMAIN tree : e # d => t[e] = tree[e]
  BY <1>1
<1>4. row = more
  BY <1>3
<1>. HIDE DEF row, more
<1>5. Row(t, DOMAIN t, d, row, x) = [e \in DOMAIN tree |-> IF e = d THEN more ELSE tree[e]]
  BY <1>3, <1>4 DEF Row
<1>. QED
  BY <1>2, <1>5 DEF t, row

LEMMA RowMoved ==
  ASSUME NEW d, NEW old, NEW n, d \in DOMAIN tree, n \notin DOMAIN tree[d], old \in DOMAIN tree[d], 0 \notin DOMAIN tree
  PROVE  Row(tree, DOMAIN tree, d, [m \in (DOMAIN tree[d] \cup {n}) \ {old} |->
                                      IF m = n THEN tree[d][old] ELSE tree[d][m]], 0) =
           TheVolume!Without(TheVolume!With(d, n, tree[d][old]), d, old)
<1>. DEFINE row  == [m \in (DOMAIN tree[d] \cup {n}) \ {old} |-> IF m = n THEN tree[d][old] ELSE tree[d][m]]
            more == [m \in DOMAIN tree[d] \cup {n} |-> IF m = n THEN tree[d][old] ELSE tree[d][m]]
            with == TheVolume!With(d, n, tree[d][old])
            less == [m \in DOMAIN with[d] \ {old} |-> with[d][m]]
<1>1. with = [e \in DOMAIN tree |-> IF e = d THEN more ELSE tree[e]]
  BY WithIs
<1>2. TheVolume!Without(with, d, old) = [e \in DOMAIN with |-> IF e = d THEN less ELSE with[e]]
  BY WithoutIs
<1>. HIDE DEF with
<1>3. DOMAIN with = DOMAIN tree /\ with[d] = more /\ \A e \in DOMAIN tree : e # d => with[e] = tree[e]
  BY <1>1
<1>4. less = row
  BY <1>3
<1>. HIDE DEF row, less
<1>5. Row(tree, DOMAIN tree, d, row, 0) = [e \in DOMAIN tree |-> IF e = d THEN row ELSE tree[e]]
  BY DEF Row
<1>6. TheVolume!Without(with, d, old) = [e \in DOMAIN tree |-> IF e = d THEN row ELSE tree[e]]
  BY <1>2, <1>3, <1>4
<1>. QED
  BY <1>5, <1>6 DEF row, with


\* Steps, and what they may do to the tree.
Told == TreeInv' /\ AsAsked /\ [TheVolume!Next]_tree

LEMMA OnTold ==
  ASSUME NEW c \in Callers, \A d \in Callers \ {c} : op[d].pc = "idle" /\ op'[d].pc = "idle",
         op'[c].pc # "idle", tree' = tree, Shown(op[c])'
  PROVE  Told
<1>1. TreeInv'
  <2>1. ASSUME NEW d \in Callers  PROVE op'[d].pc = "idle" \/ Shown(op[d])'
    <3>1. CASE d = c
      BY <3>1
    <3>2. CASE d # c
      BY <3>2
    <3>. QED
      BY <3>1, <3>2
  <2>. QED
    BY <2>1 DEF TreeInv
<1>2. ASSUME NEW d \in Callers  PROVE ~Succeeded(d)
  BY DEF Succeeded, Idle
<1>3. AsAsked
  BY <1>2 DEF AsAsked
<1>. QED
  BY <1>1, <1>3 DEF Told

\* The call goes on, ...
LEMMA GoesTold ==
  ASSUME FatInv, Events = {}, NEW c \in Callers, MayRun(c), op[c].pc # "idle",
         NEW at, DOMAIN at \subseteq Fields, Goto(c, at), op'[c].pc # "idle", Shown(op[c])'
  PROVE  Told
<1>1. tree' = tree /\ \A d \in Callers \ {c} : op'[d].pc = "idle"
  BY GoesOn
<1>2. \A d \in Callers \ {c} : op[d].pc = "idle"
  BY Alone
<1>. QED
  BY <1>1, <1>2, OnTold

\* ... returns with nothing done, ...
LEMMA BackTold ==
  ASSUME FatInv, Events = {}, NEW c \in Callers, MayRun(c), op[c].pc # "idle", NEW ok, Return(c, ok),
         Untouched, UNCHANGED Volatile, ok = FALSE \/ op[c].kind \in {"read", "readdir", "chdir"}
  PROVE  Told
<1>1. DOMAIN op = Callers
  BY DEF FatInv
<1>2. \A d \in Callers \ {c} : op[d].pc = "idle"
  BY Alone
<1>3. op'[c] = Idle(ok) /\ \A d \in Callers : op'[d].pc = "idle"
  BY <1>1, <1>2 DEF Return, Idle
<1>4. TreeInv'
  BY <1>3 DEF TreeInv
<1>5. tree' = tree
  BY UntouchedIs DEF Return, Volatile
<1>6. \A d \in Callers \ {c} : ~Succeeded(d)
  BY <1>2 DEF Succeeded
<1>7. CASE op[c].kind \in {"read", "readdir", "chdir"}
  <2>1. Effect(op[c]) = tree
    BY <1>7 DEF Effect
  <2>. QED
    BY <1>4, <1>5, <1>6, <2>1 DEF Told, AsAsked
<1>8. CASE ok = FALSE
  <2>1. ~Succeeded(c)
    BY <1>3, <1>8 DEF Succeeded, Idle
  <2>. QED
    BY <1>4, <1>5, <1>6, <2>1 DEF Told, AsAsked
<1>. QED
  BY <1>7, <1>8

\* ... or begins.
LEMMA BeginTold ==
  ASSUME FatInv, Events = {}, NEW c \in Callers, NEW kind, NEW n, NEW arg, NEW label,
         Begin(c, kind, n, arg, label), UNCHANGED <<fat, disk_fat, sector, cwd, tree>>,
         label \in {"find", "walk"} \/ (label = "list" /\ kind = "readdir")
  PROVE  Told
<1>1. label # "idle" /\ MayRun(c)
  BY DEF Begin
<1>2. /\ \A d \in Callers \ {c} : op'[d].pc = "idle"
      /\ op'[c].pc = label /\ Fresh(op'[c], kind, n, arg, cwd.cluster)
  BY <1>1, Begun
<1>3. \A d \in Callers \ {c} : op[d].pc = "idle"
  BY <1>1, Alone
<1>4. Shown(op[c])'
  BY <1>2 DEF Shown, Building, Leaving, Fresh
<1>. QED
  BY <1>1, <1>2, <1>3, <1>4, OnTold

LEMMA CallsTell ==
  ASSUME FatInv, Events = {}, NEW c \in Callers,
         \/ CallWrite(c) \/ CallMkdir(c) \/ CallDelete(c) \/ CallRename(c)
         \/ CallRead(c) \/ CallReaddir(c) \/ CallChdir(c)
  PROVE  Told
<1>1. \E kind, n, arg, label :
        /\ Begin(c, kind, n, arg, label) /\ UNCHANGED <<fat, disk_fat, sector, cwd, tree>>
        /\ label \in {"find", "walk"} \/ (label = "list" /\ kind = "readdir")
  BY DEF CallWrite, CallMkdir, CallDelete, CallRename, CallRead, CallReaddir, CallChdir
<1>. QED
  BY <1>1, BeginTold

\* What the call has built is the tree still.
LEMMA BuiltStays ==
  ASSUME NEW c \in Callers, Built(op[c]), tree' = tree, op'[c].dir = op[c].dir, op'[c].name = op[c].name,
         op'[c].exists = op[c].exists, TreeOf(fat', View(op[c])') = TreeOf(fat, View(op[c])), Written(op[c])'
  PROVE  Built(op[c])'
<1>1. Rest(op[c])' = Rest(op[c])
  BY DEF Rest, TheVolume!Without
<1>2. TheVolume!IsFile(op[c].dir, op[c].name)' <=> TheVolume!IsFile(op[c].dir, op[c].name)
  BY DEF TheVolume!IsFile
<1>. QED
  BY <1>1, <1>2 DEF Built

LEMMA WrittenStays ==
  ASSUME NEW c \in Callers, Written(op[c]), fat' = fat, op'[c].kind = op[c].kind, op'[c].first = op[c].first,
         op'[c].arg = op[c].arg, op[c].kind = "mkdir" \/ sector' = sector
  PROVE  Written(op[c])'
BY DEF Written

LEMMA NotFoundTells ==
  ASSUME FatInv, Events = {}, NEW c \in Callers, op[c].pc = "find", MayRun(c), UNCHANGED Volatile,
         NotFound(c), Untouched, Asked(op[c])
  PROVE  Told
<1>1. CASE op[c].kind = "write"
  <2>. DEFINE at == [pc |-> "data"]
  <2>1. DOMAIN at = {"pc"} /\ Goto(c, at) /\ at["pc"] = "data"
    BY <1>1 DEF NotFound
  <2>. HIDE DEF at
  <2>2. DOMAIN at \subseteq Fields
    BY <2>1, FieldsAre
  <2>3. tree' = tree /\ op'[c]["pc"] = "data" /\ \A x \in Fields \ {"pc"} : op'[c][x] = op[c][x]
    BY <2>1, <2>2, GoesOn
  <2>4. op'[c]["exists"] = op[c]["exists"] /\ op'[c]["first"] = op[c]["first"]
    BY <2>3, FieldsAre
  <2>5. ~op'[c].exists /\ op'[c].first = 0
    BY <1>1, <2>4 DEF Asked
  <2>6. View(op[c])' = sector' /\ Rest(op[c])' = tree'
    BY <2>3, <2>5 DEF View, Clearing, Area, Rest
  <2>7. TreeOf(fat', sector') = tree'
    BY <2>3, UntouchedIs DEF Volatile
  <2>8. Built(op[c])'
    BY <2>5, <2>6, <2>7 DEF Built, Written
  <2>9. Shown(op[c])'
    BY <2>3, <2>8 DEF Shown, Leaving
  <2>. QED
    BY <2>1, <2>2, <2>3, <2>9, GoesTold
<1>2. CASE op[c].kind = "mkdir"
  <2>. DEFINE at == [pc |-> "newdir"]
  <2>1. DOMAIN at = {"pc"} /\ Goto(c, at) /\ at["pc"] = "newdir"
    BY <1>2 DEF NotFound
  <2>. HIDE DEF at
  <2>2. DOMAIN at \subseteq Fields
    BY <2>1, FieldsAre
  <2>3. op'[c]["pc"] = "newdir"
    BY <2>1, <2>2, GoesOn
  <2>4. Shown(op[c])'
    BY <2>3 DEF Shown, Building, Leaving
  <2>. QED
    BY <2>1, <2>2, <2>3, <2>4, GoesTold
<1>3. CASE op[c].kind \notin {"write", "mkdir"}
  <2>1. Return(c, FALSE)
    BY <1>3 DEF NotFound
  <2>. QED
    BY <2>1, BackTold
<1>. QED
  BY <1>1, <1>2, <1>3

\* The call goes on, and has built and taken away nothing.
LEMMA PlainTold ==
  ASSUME FatInv, Events = {}, NEW c \in Callers, MayRun(c), op[c].pc # "idle",
         NEW at, DOMAIN at \subseteq Fields, Goto(c, at),
         \/ op'[c].pc \in {"find", "entry", "walk", "newdir"}
         \/ op'[c].pc = "commit" /\ op'[c].kind = "rename"
         \/ op'[c].pc = "read" /\ op'[c].kind = "read"
         \/ op'[c].pc = "list" /\ op'[c].kind = "readdir"
  PROVE  Told
<1>1. Shown(op[c])'
  BY DEF Shown, Building, Leaving
<1>. QED
  BY <1>1, GoesTold

LEMMA FindEntryTells ==
  ASSUME FatInv, Events = {}, NEW c \in Callers, FindEntry(c)  PROVE Told
<1>. DEFINE hits == {i \in Hits(sector[op[c].cur], {"file", "dir"}) :
                       /\ sector[op[c].cur][i].name = op[c].name
                       /\ \A j \in Hits(sector[op[c].cur], {"end"}) : i < j}
            next == fat[op[c].cur]
            low  == LowestIn(hits)
<1>1. op[c].pc = "find" /\ MayRun(c) /\ UNCHANGED Volatile
  BY DEF FindEntry, At, Volatile
<1>2. Untouched /\ Asked(op[c])
  BY <1>1 DEF FatInv, Phase
<1>3. \/ Goto(c, [pc |-> "entry", idx |-> low])
      \/ Return(c, FALSE) \/ Goto(c, [cur |-> next]) \/ NotFound(c)
  BY DEF FindEntry
<1>. HIDE DEF low, next
<1>4. ASSUME Goto(c, [pc |-> "entry", idx |-> low])  PROVE Told
  <2>. DEFINE at == [pc |-> "entry", idx |-> low]
  <2>1. DOMAIN at = {"pc", "idx"} /\ Goto(c, at) /\ at["pc"] = "entry"
    BY <1>4
  <2>. HIDE DEF at
  <2>2. DOMAIN at \subseteq Fields
    BY <2>1, FieldsAre
  <2>3. op'[c]["pc"] = "entry"
    BY <1>1, <2>1, <2>2, GoesOn
  <2>. QED
    BY <1>1, <2>1, <2>2, <2>3, PlainTold
<1>5. ASSUME Goto(c, [cur |-> next])  PROVE Told
  <2>. DEFINE at == [cur |-> next]
  <2>1. DOMAIN at = {"cur"} /\ Goto(c, at)
    BY <1>5
  <2>. HIDE DEF at
  <2>2. DOMAIN at \subseteq Fields /\ "pc" \in Fields \ DOMAIN at
    BY <2>1, FieldsAre
  <2>3. op'[c]["pc"] = "find"
    BY <1>1, <2>1, <2>2, GoesOn
  <2>. QED
    BY <1>1, <2>1, <2>2, <2>3, PlainTold
<1>. QED
  BY <1>1, <1>2, <1>3, <1>4, <1>5, BackTold, NotFoundTells

LEMMA WrongKindTells ==
  ASSUME FatInv, Events = {}, NEW c \in Callers, WrongKind(c)  PROVE Told
<1>1. op[c].pc = "entry" /\ MayRun(c) /\ UNCHANGED Volatile /\ Return(c, FALSE)
  BY DEF WrongKind, ReadEntry, At, Volatile
<1>. QED
  BY <1>1, EntryFacts, BackTold

LEMMA OpenFileTells ==
  ASSUME FatInv, Events = {}, NEW c \in Callers, OpenFile(c)  PROVE Told
<1>1. op[c].pc = "entry" /\ MayRun(c) /\ op[c].kind = "read"
  BY DEF OpenFile, ReadEntry, At
<1>. DEFINE at == [pc |-> "read", cur |-> Found(c).first, size |-> Found(c).size]
<1>2. DOMAIN at \subseteq Fields /\ "kind" \in Fields \ DOMAIN at /\ "pc" \in DOMAIN at
      /\ Goto(c, at) /\ at["pc"] = "read"
  BY FieldsAre DEF OpenFile
<1>. HIDE DEF at
<1>3. op'[c]["pc"] = "read" /\ op'[c]["kind"] = "read"
  BY <1>1, <1>2, GoesOn
<1>. QED
  BY <1>1, <1>2, <1>3, PlainTold

LEMMA RenameFoundTells ==
  ASSUME FatInv, Events = {}, NEW c \in Callers, RenameFound(c)  PROVE Told
<1>1. op[c].pc = "entry" /\ MayRun(c) /\ op[c].kind = "rename"
  BY DEF RenameFound, ReadEntry, At
<1>. DEFINE at == [pc |-> "commit"]
<1>2. DOMAIN at \subseteq Fields /\ "kind" \in Fields \ DOMAIN at /\ "pc" \in DOMAIN at
      /\ Goto(c, at) /\ at["pc"] = "commit"
  BY FieldsAre DEF RenameFound
<1>. HIDE DEF at
<1>3. op'[c]["pc"] = "commit" /\ op'[c]["kind"] = "rename"
  BY <1>1, <1>2, GoesOn
<1>. QED
  BY <1>1, <1>2, <1>3, PlainTold

LEMMA EnterDirectoryTells ==
  ASSUME FatInv, Events = {}, NEW c \in Callers, EnterDirectory(c)  PROVE Told
<1>1. op[c].pc = "entry" /\ MayRun(c)
  BY DEF EnterDirectory, ReadEntry, At
<1>. DEFINE at == [pc |-> "walk", arg |-> Tail(op[c].arg)]
<1>2. DOMAIN at \subseteq Fields /\ "pc" \in DOMAIN at /\ Goto(c, at) /\ at["pc"] = "walk"
  BY FieldsAre DEF EnterDirectory
<1>. HIDE DEF at
<1>3. op'[c]["pc"] = "walk"
  BY <1>1, <1>2, GoesOn
<1>. QED
  BY <1>1, <1>2, <1>3, PlainTold

LEMMA WalkTells ==
  ASSUME FatInv, Events = {}, NEW c \in Callers, Walk(c)  PROVE Told
<1>1. /\ op[c].pc = "walk" /\ MayRun(c) /\ Untouched /\ op[c].kind = "chdir"
      /\ fat' = fat /\ disk_fat' = disk_fat /\ sector' = sector
  BY DEF Walk, At, FatInv, Phase
<1>2. \/ UNCHANGED cwd /\ Return(c, TRUE)
      \/ Goto(c, [arg |-> Tail(op[c].arg)])
      \/ \E n \in Names : Goto(c, [pc |-> "find", name |-> n, cur |-> cwd.cluster])
  BY DEF Walk
<1>3. ASSUME UNCHANGED cwd, Return(c, TRUE)  PROVE Told
  BY <1>1, <1>3, BackTold DEF Volatile
<1>4. ASSUME Goto(c, [arg |-> Tail(op[c].arg)])  PROVE Told
  <2>. DEFINE at == [arg |-> Tail(op[c].arg)]
  <2>1. DOMAIN at \subseteq Fields /\ "pc" \in Fields \ DOMAIN at /\ Goto(c, at)
    BY <1>4, FieldsAre
  <2>. HIDE DEF at
  <2>2. op'[c]["pc"] = "walk"
    BY <1>1, <2>1, GoesOn
  <2>. QED
    BY <1>1, <2>1, <2>2, PlainTold
<1>5. ASSUME NEW n \in Names, Goto(c, [pc |-> "find", name |-> n, cur |-> cwd.cluster])  PROVE Told
  <2>. DEFINE at == [pc |-> "find", name |-> n, cur |-> cwd.cluster]
  <2>1. DOMAIN at \subseteq Fields /\ "pc" \in DOMAIN at /\ at["pc"] = "find" /\ Goto(c, at)
    BY <1>5, FieldsAre
  <2>. HIDE DEF at
  <2>2. op'[c]["pc"] = "find"
    BY <1>1, <2>1, GoesOn
  <2>. QED
    BY <1>1, <2>1, <2>2, PlainTold
<1>. QED
  BY <1>2, <1>3, <1>4, <1>5

LEMMA ReadsTell ==
  ASSUME FatInv, TreeInv, Events = {}, NEW c \in Callers,
         ReadBlock(c) \/ ReadEnd(c) \/ ListSector(c) \/ ListEnd(c)
  PROVE  Told
<1>1. MayRun(c) /\ UNCHANGED Volatile /\ op[c].pc \in {"read", "list"}
  BY DEF ReadBlock, ReadEnd, ListSector, ListEnd, At, Volatile
<1>2. Untouched /\ (op[c].pc = "read" => op[c].kind = "read") /\ (op[c].pc = "list" => op[c].kind = "readdir")
  BY <1>1 DEF FatInv, Phase, TreeInv, Shown
<1>3. ASSUME NEW at, DOMAIN at \subseteq {"got", "size", "cur"}, Goto(c, at)  PROVE Told
  <2>1. DOMAIN at \subseteq Fields /\ {"pc", "kind"} \subseteq Fields \ DOMAIN at
    BY <1>3, FieldsAre
  <2>2. op'[c]["pc"] = op[c]["pc"] /\ op'[c]["kind"] = op[c]["kind"]
    BY <1>1, <1>3, <2>1, GoesOn
  <2>. QED
    BY <1>1, <1>2, <1>3, <2>1, <2>2, PlainTold
<1>4. Return(c, TRUE) \/ \E at : DOMAIN at \subseteq {"got", "size", "cur"} /\ Goto(c, at)
  <2>1. \A got, size, cur :
          /\ DOMAIN [got |-> got, size |-> size, cur |-> cur] \subseteq {"got", "size", "cur"}
          /\ DOMAIN [got |-> got, cur |-> cur] \subseteq {"got", "size", "cur"}
          /\ DOMAIN [cur |-> cur] \subseteq {"got", "size", "cur"}
    OBVIOUS
  <2>2. \/ Return(c, TRUE) \/ (\E got, size, cur : Goto(c, [got |-> got, size |-> size, cur |-> cur]))
        \/ (\E got, cur : Goto(c, [got |-> got, cur |-> cur])) \/ (\E cur : Goto(c, [cur |-> cur]))
    BY DEF ReadBlock, ReadEnd, ListSector, ListEnd
  <2>. QED
    BY <2>1, <2>2
<1>. QED
  BY <1>1, <1>2, <1>3, <1>4, BackTold
-----------------------------------------------------------------------------
\* The old file's clusters go, and its name with them, ...
LEMMA TakenAway ==
  ASSUME FatInv, NEW c \in Callers, op[c].pc = "entry", op[c].kind \in {"write", "delete"},
         op[c].kind = "write" => Found(c).attr = "file"
  PROVE  LET d    == op[c].dir
             x    == Found(c).first
             now  == TreeOf(FreeChain(fat, x), Dropped(op[c]))
             wout == TheVolume!Without(tree, d, op[c].name)
         IN  /\ op[c].name \in Names /\ d \in DOMAIN tree /\ op[c].name \in DOMAIN tree[d]
             /\ Found(c).attr = "file" => TheVolume!IsFile(d, op[c].name) /\ now = wout
             /\ Found(c).attr = "dir" =>
                  /\ TheVolume!IsDirectory(d, op[c].name) /\ tree[d][op[c].name].id = x
                  /\ DOMAIN tree[x] = {} /\ now = [e \in DOMAIN tree \ {x} |-> wout[e]]
<1>. DEFINE d == op[c].dir
            n == op[c].name
            p == At2(op[c])
            x == Found(c).first
            now  == TreeOf(FreeChain(fat, x), Dropped(op[c]))
            wout == TheVolume!Without(tree, d, n)
<1>1. /\ Untouched /\ Asked(op[c]) /\ Found(c) = Ent(sector, p) /\ n = Ent(sector, p).name
      /\ p \in Ents(fat, sector, cwd.cluster) /\ Found(c).attr \in {"file", "dir"}
  BY EntryFacts DEF Hit
<1>2. n \in Names /\ d = cwd.cluster /\ p \in Ents(fat, sector, d)
  BY <1>1 DEF Asked
<1>3. Ent(sector, p).attr = "dir" => Ents(fat, sector, Ent(sector, p).first) = {}
  BY <1>1 DEF Asked
<1>4. Vol(fat, sector, DOMAIN tree, {}) /\ d \in DOMAIN tree /\ tree = TreeOf(fat, sector)
  BY <1>1, <1>2, UntouchedIs
<1>5. Dropped(op[c]) = Put(sector, p, Deleted)
  BY DEF Dropped
<1>. HIDE DEF p, d, n, x
<1>11. PICK row : row = [m \in DOMAIN tree[d] \ {n} |-> tree[d][m]]
  OBVIOUS
<1>6. now = Row(tree, DOMAIN tree \ {x}, d, row, x)
  <2>1. LET y == Ent(sector, p).first
            t == TreeOf(fat, sector)
        IN  TreeOf(FreeChain(fat, y), Put(sector, p, Deleted)) =
               Row(t, DOMAIN tree \ {y}, d, [m \in DOMAIN t[d] \ {Ent(sector, p).name} |-> t[d][m]], y)
    BY <1>2, <1>3, <1>4, RemovedTree
  <2>. QED
    BY <1>1, <1>4, <1>5, <1>11, <2>1 DEF x
<1>7. n \in DOMAIN tree[d]
  BY <1>1, <1>2, <1>4, TreeIs
<1>10. \A q \in Ents(fat, sector, d) :
         LET node == tree[d][Ent(sector, q).name]
         IN  /\ Ent(sector, q).attr = "dir" => node = [kind |-> "dir", id |-> Ent(sector, q).first]
             /\ Ent(sector, q).attr = "file" => node.kind = "file"
  BY <1>4, TreeIs
<1>8. ASSUME Found(c).attr = "file"  PROVE TheVolume!IsFile(d, n) /\ now = wout
  <2>1. tree[d][n].kind = "file"
    BY <1>1, <1>2, <1>8, <1>10
  <2>2. x \notin DOMAIN tree
    BY <1>1, <1>2, <1>4, <1>8, FileApart DEF x
  <2>3. Row(tree, DOMAIN tree \ {x}, d, row, x) = TheVolume!Without(tree, d, n)
    BY <1>4, <1>11, <2>2, RowsSame
  <2>. QED
    BY <1>4, <1>6, <1>7, <2>1, <2>3 DEF TheVolume!IsFile
<1>9. ASSUME Found(c).attr = "dir"
      PROVE  /\ TheVolume!IsDirectory(d, n) /\ tree[d][n].id = x /\ DOMAIN tree[x] = {}
             /\ now = [e \in DOMAIN tree \ {x} |-> wout[e]]
  <2>1. tree[d][n] = [kind |-> "dir", id |-> x]
    BY <1>1, <1>2, <1>4, <1>9, TreeIs DEF x
  <2>2. x \in DOMAIN tree /\ Ents(fat, sector, x) = {}
    BY <1>1, <1>2, <1>3, <1>4, <1>9 DEF x, Vol, DirsOK
  <2>3. DOMAIN tree[x] = {}
    BY <1>4, <2>2, TreeIs
  <2>4. Row(tree, DOMAIN tree \ {x}, d, row, x) =
              [e \in DOMAIN tree \ {x} |-> TheVolume!Without(tree, d, n)[e]]
    BY <1>4, <1>11, RowsGone, SMTT(30)
  <2>. QED
    BY <1>4, <1>6, <1>7, <2>1, <2>3, <2>4 DEF TheVolume!IsDirectory
<1>. QED
  BY <1>2, <1>4, <1>7, <1>8, <1>9 DEF d, n, x

LEMMA FreeOldTells ==
  ASSUME FatInv, Events = {}, NEW c \in Callers, FreeOld(c)  PROVE Told
<1>. DEFINE at == [pc |-> "data", exists |-> TRUE]
            x == Found(c).first
<1>1. /\ op[c].pc = "entry" /\ MayRun(c) /\ op[c].kind = "write" /\ Found(c).attr = "file"
      /\ fat' = FreeChain(fat, x) /\ sector' = sector /\ Goto(c, at)
  BY DEF FreeOld, ReadEntry, At
<1>2. DOMAIN at = {"pc", "exists"} /\ at["pc"] = "data" /\ at["exists"] = TRUE
  OBVIOUS
<1>. HIDE DEF at
<1>3. DOMAIN at \subseteq Fields
  BY <1>2, FieldsAre
<1>4. /\ tree' = tree /\ op'[c]["pc"] = "data" /\ op'[c]["exists"] = TRUE
      /\ \A f \in Fields \ {"pc", "exists"} : op'[c][f] = op[c][f]
  BY <1>1, <1>2, <1>3, GoesOn
<1>5. /\ op'[c]["name"] = op[c]["name"] /\ op'[c]["dir"] = op[c]["dir"] /\ op'[c]["cur"] = op[c]["cur"]
      /\ op'[c]["idx"] = op[c]["idx"] /\ op'[c]["first"] = op[c]["first"]
  BY <1>4, FieldsAre
<1>6. op'[c].first = 0
  BY <1>1, <1>5, EntryFacts DEF Asked
<1>7. /\ TheVolume!IsFile(op[c].dir, op[c].name)
      /\ TreeOf(FreeChain(fat, x), Dropped(op[c])) = TheVolume!Without(tree, op[c].dir, op[c].name)
  BY <1>1, TakenAway
<1>8. View(op[c])' = Dropped(op[c])
  BY <1>1, <1>4, <1>5 DEF View, Clearing, Area, Dropped, At2
<1>9. Rest(op[c])' = TheVolume!Without(tree, op[c].dir, op[c].name)
  BY <1>4, <1>5 DEF Rest, TheVolume!Without
<1>10. TheVolume!IsFile(op[c].dir, op[c].name)'
  BY <1>4, <1>5, <1>7 DEF TheVolume!IsFile
<1>11. Built(op[c])'
  BY <1>1, <1>6, <1>7, <1>8, <1>9, <1>10 DEF Built, Written
<1>12. Shown(op[c])' /\ op'[c].pc # "idle"
  BY <1>4, <1>11 DEF Shown, Leaving
<1>. QED
  BY <1>1, <1>3, <1>12, GoesTold

LEMMA EffectStays ==
  ASSUME NEW c \in Callers, op[c].kind = "delete", op'[c].kind = op[c].kind, op'[c].dir = op[c].dir,
         op'[c].name = op[c].name, tree' = tree
  PROVE  Effect(op[c])' = Effect(op[c])
<1>. DEFINE gone(t, d, n) == IF t[d][n].kind = "dir" THEN {t[d][n].id} ELSE {}
            less(t, d, n) == [e \in DOMAIN t \ gone(t, d, n) |-> TheVolume!Without(t, d, n)[e]]
<1>1. Effect(op[c]) = less(tree, op[c].dir, op[c].name)
  BY DEF Effect
<1>2. Effect(op[c])' = less(tree', op'[c].dir, op'[c].name)
  BY DEF Effect, TheVolume!Without
<1>. HIDE DEF gone, less
<1>. QED
  BY <1>1, <1>2

\* ... and what is deleted goes.
LEMMA FreeDeletedTells ==
  ASSUME FatInv, Events = {}, NEW c \in Callers, FreeDeleted(c)  PROVE Told
<1>. DEFINE at == [pc |-> "flush", then |-> "commit"]
            x == Found(c).first
            d == op[c].dir
            n == op[c].name
            wout == TheVolume!Without(tree, d, n)
<1>1. /\ op[c].pc = "entry" /\ MayRun(c) /\ op[c].kind = "delete"
      /\ fat' = FreeChain(fat, x) /\ sector' = sector /\ Goto(c, at)
  BY DEF FreeDeleted, ReadEntry, At
<1>2. DOMAIN at = {"pc", "then"} /\ at["pc"] = "flush" /\ at["then"] = "commit"
  OBVIOUS
<1>. HIDE DEF at
<1>3. DOMAIN at \subseteq Fields
  BY <1>2, FieldsAre
<1>4. /\ tree' = tree /\ op'[c]["pc"] = "flush" /\ op'[c]["then"] = "commit"
      /\ \A f \in Fields \ {"pc", "then"} : op'[c][f] = op[c][f]
  BY <1>1, <1>2, <1>3, GoesOn
<1>5. /\ op'[c]["name"] = op[c]["name"] /\ op'[c]["dir"] = op[c]["dir"] /\ op'[c]["cur"] = op[c]["cur"]
      /\ op'[c]["idx"] = op[c]["idx"] /\ op'[c]["kind"] = op[c]["kind"]
  BY <1>4, FieldsAre
<1>6. Found(c).attr \in {"file", "dir"}
  BY <1>1, EntryFacts
<1>7. /\ n \in Names /\ d \in DOMAIN tree /\ n \in DOMAIN tree[d]
      /\ Found(c).attr = "file" => /\ TheVolume!IsFile(d, n)
                                   /\ TreeOf(FreeChain(fat, x), Dropped(op[c])) = wout
      /\ Found(c).attr = "dir" =>
           /\ TheVolume!IsDirectory(d, n) /\ tree[d][n].id = x
           /\ DOMAIN tree[x] = {} /\ TreeOf(FreeChain(fat, x), Dropped(op[c])) = [e \in DOMAIN tree \ {x} |-> wout[e]]
  BY <1>1, TakenAway
<1>8. Dropped(op[c])' = Dropped(op[c])
  BY <1>1, <1>5 DEF Dropped, At2
<1>9. Effect(op[c])' = Effect(op[c])
  BY <1>1, <1>4, <1>5, EffectStays
<1>10. TreeOf(fat', Dropped(op[c])') = Effect(op[c])'
  <2>1. CASE Found(c).attr = "file"
    <3>1. Effect(op[c]) = [e \in DOMAIN tree \ {} |-> wout[e]]
      BY <1>1, <1>7, <2>1 DEF Effect, TheVolume!IsFile
    <3>2. wout = [e \in DOMAIN tree |-> wout[e]]
      BY WithoutIs
    <3>3. DOMAIN tree \ {} = DOMAIN tree
      OBVIOUS
    <3>. HIDE DEF wout, d, n, x
    <3>. QED
      BY <1>1, <1>7, <1>8, <1>9, <2>1, <3>1, <3>2, <3>3
  <2>2. CASE Found(c).attr = "dir"
    <3>1. Effect(op[c]) = [e \in DOMAIN tree \ {x} |-> wout[e]]
      BY <1>1, <1>7, <2>2 DEF Effect, TheVolume!IsDirectory
    <3>. HIDE DEF wout, d, n, x
    <3>. QED
      BY <1>1, <1>7, <1>8, <1>9, <2>2, <3>1
  <2>. QED
    BY <1>6, <2>1, <2>2
<1>11. \/ TheVolume!IsFile(op[c].dir, op[c].name)'
       \/ TheVolume!IsDirectory(op[c].dir, op[c].name)' /\ DOMAIN tree'[tree'[op'[c].dir][op'[c].name].id] = {}
  BY <1>4, <1>5, <1>6, <1>7 DEF TheVolume!IsFile, TheVolume!IsDirectory
<1>12. Erased(op[c])'
  BY <1>5, <1>7, <1>10, <1>11 DEF Erased
<1>13. Shown(op[c])' /\ op'[c].pc # "idle"
  BY <1>4, <1>12 DEF Shown, Building
<1>. QED
  BY <1>1, <1>3, <1>13, GoesTold

LEMMA AreaTaken ==
  ASSUME NEW c \in Callers, InData(op[c]), NEW new \in Clusters, fat[new] = Free,
         NEW block, sector' = [sector EXCEPT ![new] = block],
         op'[c].cur = op[c].cur, op'[c].idx = op[c].idx, op'[c].exists = op[c].exists
  PROVE  OnlyAt(Area(op[c]), Area(op[c])', new)
<1>. DEFINE o  == op[c]
            s  == Area(o)
            p  == At2(o)
            s1 == IF op[c].exists THEN Put(sector', p, Deleted) ELSE sector'
<1>1. PICK pend : Making(o, s, pend)
  BY DEF InData
<1>2. PICK dirs : Vol(fat, s, dirs, pend)
  BY <1>1 DEF Making, Sound
<1>3. Area(op[c])' = s1
  BY DEF Area, Dropped, At2
<1>4. CASE o.exists
  <2>1. DOMAIN sector = Clusters
    BY <1>1, <1>4 DEF Making, HoleOK
  <2>2. DOMAIN sector' = Clusters /\ \A a \in Clusters : a # new => sector'[a] = sector[a]
    BY <2>1
  <2>3. /\ s = [sector EXCEPT ![p[1]] = [@ EXCEPT ![p[2]] = Deleted]]
        /\ s1 = [sector' EXCEPT ![p[1]] = [@ EXCEPT ![p[2]] = Deleted]]
    BY <1>4 DEF Put, Area, Dropped
  <2>. HIDE DEF s, s1, p
  <2>4. DOMAIN s1 = Clusters /\ \A a \in Clusters : a # new => s1[a] = s[a]
    BY <2>1, <2>2, <2>3
  <2>. QED
    BY <1>3, <2>4 DEF OnlyAt, s
<1>5. CASE ~o.exists
  <2>1. s = sector /\ s1 = sector'
    BY <1>5 DEF Area
  <2>. HIDE DEF s, s1
  <2>2. DOMAIN s = Clusters
    BY <1>2, DirFacts
  <2>3. DOMAIN s1 = Clusters /\ \A a \in Clusters : a # new => s1[a] = s[a]
    BY <2>1, <2>2
  <2>. QED
    BY <1>3, <2>3 DEF OnlyAt, s
<1>. QED
  BY <1>4, <1>5

\* The chain of the call, with one cluster more.
LEMMA RunLonger ==
  ASSUME NEW f \in Fats, NEW pend, NEW x, NEW prev, NEW n \in Nat, Run(f, pend, x, prev, n),
         NEW new \in Clusters, f[new] = Free
  PROVE  LET g == Linked(f, new, prev)
             y == IF x = 0 THEN new ELSE x
         IN  /\ Len(Chain(g, y)) = n + 1 /\ Chain(g, y)[n + 1] = new
             /\ \A k \in 1..n : /\ x # 0 /\ k \in 1..Len(Chain(f, x)) /\ Chain(g, y)[k] = Chain(f, x)[k]
                                /\ Chain(f, x)[k] # new /\ Chain(f, x)[k] \in pend
<1>. DEFINE g == Linked(f, new, prev)
<1>1. /\ g[new] = EOC
      /\ (\A a \in Clusters : a # new /\ a # prev => g[a] = f[a])
      /\ (prev \in Clusters /\ prev # new => g[prev] = new)
  BY LinkedFat
<1>. HIDE DEF g
<1>2. CASE n = 0 /\ pend = {} /\ prev = 0 /\ x = 0
  <2>1. Chain(g, new) = <<new>>
    BY <1>1, Single
  <2>. QED
    BY <1>2, <2>1 DEF g
<1>3. CASE /\ n > 0 /\ x # 0 /\ Chained(f, x) /\ pend = InChain(f, x)
           /\ n = Len(Chain(f, x)) /\ prev = Chain(f, x)[n]
  <2>1. \A a \in InChain(f, x) : a \in Clusters /\ a # new
    BY <1>3, Links
  <2>2. prev \in InChain(f, x)
    BY <1>3, ChainFacts
  <2>3. /\ new \notin InChain(f, x) /\ g[Chain(f, x)[Len(Chain(f, x))]] = new
        /\ \A a \in InChain(f, x) : a # Chain(f, x)[Len(Chain(f, x))] => g[a] = f[a]
    BY <1>1, <1>3, <2>1, <2>2
  <2>4. /\ Chained(g, x) /\ Chain(g, x) = Append(Chain(f, x), new)
        /\ InChain(g, x) = InChain(f, x) \cup {new}
        /\ Len(Chain(g, x)) = Len(Chain(f, x)) + 1
        /\ Chain(g, x)[Len(Chain(f, x)) + 1] = new
    <3>1. Chained(f, x) /\ g[new] = EOC
      BY <1>1, <1>3
    <3>. QED
      BY <2>3, <3>1, ChainGrown
  <2>5. /\ Chain(f, x) \in Seq(Clusters) /\ Len(Chain(f, x)) \in Nat
        /\ \A k \in 1..Len(Chain(f, x)) : Chain(f, x)[k] \in InChain(f, x)
    BY <1>3, ChainFacts
  <2>6. /\ Len(Chain(g, x)) = n + 1 /\ Chain(g, x)[n + 1] = new
        /\ \A k \in 1..n : Chain(g, x)[k] = Chain(f, x)[k]
    BY <1>3, <2>4, <2>5
  <2>. QED
    BY <1>3, <2>1, <2>5, <2>6 DEF g
<1>. QED
  BY <1>2, <1>3 DEF Run

LEMMA OneMoreBuilt ==
  ASSUME NEW c \in Callers, InData(op[c]), Built(op[c]), op[c].pc = "data", NEW new \in Clusters, fat[new] = Free,
         fat' = Linked(fat, new, op[c].prev), fat \in Fats,
         sector' = [sector EXCEPT ![new] = IF op[c].arg = <<>> THEN ZeroSector ELSE op[c].arg[op[c].step + 1]],
         op'[c].kind = op[c].kind, op'[c].name = op[c].name, op'[c].arg = op[c].arg,
         op'[c].dir = op[c].dir, op'[c].cur = op[c].cur, op'[c].idx = op[c].idx,
         op'[c].exists = op[c].exists, op'[c].first = IF op[c].first = 0 THEN new ELSE op[c].first,
         tree' = tree, op'[c].pc = "data" \/ (op'[c].pc = "flush" /\ op'[c].then # "zero")
  PROVE  Built(op[c])'
<1>. DEFINE o == op[c]
            step == op[c].step
            y == IF op[c].first = 0 THEN new ELSE op[c].first
<1>1. PICK pend : Making(o, Area(o), pend) /\ Run(fat, pend, o.first, o.prev, step)
  BY DEF InData
<1>2. PICK dirs : Vol(fat, Area(o), dirs, pend)
  BY <1>1 DEF Making, Sound
<1>3. OnlyAt(Area(o), Area(op[c])', new)
  BY AreaTaken
<1>4. TreeOf(fat', Area(op[c])') = TreeOf(fat, Area(o))
  <2>1. PICK s1 : s1 = Area(op[c])'
    OBVIOUS
  <2>2. OnlyAt(Area(o), s1, new)
    BY <1>3, <2>1
  <2>. HIDE DEF o, step
  <2>3. TreeOf(Linked(fat, new, o.prev), s1) = TreeOf(fat, Area(o))
    BY <1>1, <1>2, <2>2, TakenTree
  <2>. QED
    BY <2>1, <2>3 DEF o
<1>5. View(op[c])' = Area(op[c])' /\ View(o) = Area(o)
  BY DEF View, Clearing
<1>6. step \in Nat /\ o.kind = "write"
  BY DEF InData
<1>7. /\ Len(Chain(fat', y)) = step + 1 /\ Chain(fat', y)[step + 1] = new
      /\ \A k \in 1..step : /\ o.first # 0 /\ k \in 1..Len(Chain(fat, o.first)) /\ Chain(fat', y)[k] = Chain(fat, o.first)[k]
                            /\ Chain(fat, o.first)[k] # new /\ Chain(fat, o.first)[k] \in pend
  BY <1>1, <1>6, RunLonger
<1>8. pend \subseteq Clusters
  BY <1>2, DirFacts
<1>9. DOMAIN sector = Clusters
  <2>1. CASE o.exists
    BY <1>1, <2>1 DEF Making, HoleOK
  <2>2. CASE ~o.exists
    <3>1. Area(o) = sector
      BY <2>2 DEF Area
    <3>. QED
      BY <1>2, <3>1, DirFacts
  <2>. QED
    BY <2>1, <2>2
<1>10. o.arg \in Contents
  BY <1>1, <1>6 DEF Making
<1>11. Written(op[c])'
  <2>1. ASSUME NEW k \in 1..step + 1, k <= Len(o.arg)
        PROVE  sector'[Chain(fat', y)[k]] = o.arg[k]
    <3>1. CASE k = step + 1
      <4>1. Len(o.arg) # 0 /\ o.arg # <<>>
        BY <1>6, <1>10, <2>1, <3>1, NeededIs
      <4>2. sector'[new] = o.arg[k]
        BY <1>9, <3>1, <4>1
      <4>. QED
        BY <1>7, <3>1, <4>2
    <3>2. CASE k # step + 1
      <4>1. k \in 1..step
        BY <1>6, <2>1, <3>2
      <4>2. PICK a : a = Chain(fat, o.first)[k]
        OBVIOUS
      <4>3. o.first # 0 /\ k \in 1..Len(Chain(fat, o.first)) /\ Chain(fat', y)[k] = a /\ a # new /\ a \in Clusters
        BY <1>7, <1>8, <4>1, <4>2
      <4>4. sector[a] = o.arg[k]
        BY <1>6, <2>1, <4>2, <4>3 DEF Built, Written
      <4>. QED
        BY <1>9, <4>3, <4>4
    <3>. QED
      BY <3>1, <3>2
  <2>2. op'[c].first = y /\ op'[c].arg = o.arg
    OBVIOUS
  <2>. HIDE DEF y, step, o
  <2>. QED
    BY <1>7, <2>1, <2>2 DEF Written
<1>. QED
  BY <1>4, <1>5, <1>11, BuiltStays

LEMMA WriteBlockTells ==
  ASSUME FatInv, TreeInv, Events = {}, NEW c \in Callers, WriteBlock(c)  PROVE Told
<1>. DEFINE new   == LowestIn(FreeClusters(fat))
            more  == op[c].step + 1 < Needed(op[c].arg)
            block == IF op[c].arg = <<>> THEN ZeroSector ELSE op[c].arg[op[c].step + 1]
            at    == [first |-> IF op[c].first = 0 THEN new ELSE op[c].first,
                      prev |-> new,
                      step |-> IF more THEN op[c].step + 1 ELSE 0,
                      pc |-> IF more THEN "data" ELSE "flush",
                      then |-> IF op[c].exists THEN "reread" ELSE "slot"]
<1>1. /\ op[c].pc = "data" /\ MayRun(c) /\ FreeClusters(fat) # {} /\ fat' = AllocLinked(op[c].prev)
      /\ sector' = [sector EXCEPT ![new] = block] /\ Goto(c, at)
  BY DEF WriteBlock, At
<1>2. /\ DOMAIN at = {"first", "prev", "step", "pc", "then"}
      /\ at["first"] = (IF op[c].first = 0 THEN new ELSE op[c].first)
      /\ at["pc"] = (IF more THEN "data" ELSE "flush")
      /\ at["then"] = (IF op[c].exists THEN "reread" ELSE "slot")
  OBVIOUS
<1>. HIDE DEF at, more
<1>3. DOMAIN at \subseteq Fields
  BY <1>2, FieldsAre
<1>4. /\ Phase(op[c]) /\ tree' = tree
      /\ \A f \in DOMAIN at : op'[c][f] = at[f]
      /\ \A f \in Fields \ {"first", "prev", "step", "pc", "then"} : op'[c][f] = op[c][f]
  BY <1>1, <1>2, <1>3, GoesOn
<1>5. /\ op'[c]["kind"] = op[c]["kind"] /\ op'[c]["name"] = op[c]["name"] /\ op'[c]["arg"] = op[c]["arg"]
      /\ op'[c]["dir"] = op[c]["dir"] /\ op'[c]["cur"] = op[c]["cur"] /\ op'[c]["idx"] = op[c]["idx"]
      /\ op'[c]["exists"] = op[c]["exists"]
  BY <1>4, FieldsAre
<1>6. /\ op'[c]["first"] = (IF op[c].first = 0 THEN new ELSE op[c].first)
      /\ op'[c]["pc"] \in {"data", "flush"} /\ op'[c]["then"] \in {"reread", "slot"}
  BY <1>2, <1>4
<1>7. InData(op[c]) /\ Built(op[c]) /\ fat \in Fats
  BY <1>1, <1>4 DEF Phase, FatInv, TreeInv, Shown, Building
<1>8. fat' = Linked(fat, new, op[c].prev) /\ new \in Clusters /\ fat[new] = Free
  BY <1>1, AllocIs
<1>. HIDE DEF new
<1>9. Built(op[c])'
  BY <1>1, <1>4, <1>5, <1>6, <1>7, <1>8, OneMoreBuilt
<1>10. Shown(op[c])' /\ op'[c].pc # "idle"
  BY <1>6, <1>9 DEF Shown, Leaving
<1>. QED
  BY <1>1, <1>3, <1>10, GoesTold

LEMMA NewDirectoryTells ==
  ASSUME FatInv, Events = {}, NEW c \in Callers, NewDirectory(c)  PROVE Told
<1>. DEFINE new == LowestIn(FreeClusters(fat))
            at  == [first |-> new, pc |-> "flush", then |-> "zero"]
<1>1. /\ op[c].pc = "newdir" /\ MayRun(c) /\ FreeClusters(fat) # {} /\ fat' = AllocLinked(0)
      /\ sector' = sector /\ Goto(c, at)
  BY DEF NewDirectory, At
<1>2. DOMAIN at = {"first", "pc", "then"} /\ at["pc"] = "flush" /\ at["then"] = "zero"
  OBVIOUS
<1>. HIDE DEF at
<1>3. DOMAIN at \subseteq Fields
  BY <1>2, FieldsAre
<1>4. /\ Phase(op[c]) /\ tree' = tree /\ op'[c]["pc"] = "flush" /\ op'[c]["then"] = "zero"
      /\ \A f \in Fields \ {"first", "pc", "then"} : op'[c][f] = op[c][f]
  BY <1>1, <1>2, <1>3, GoesOn
<1>5. op'[c]["kind"] = op[c]["kind"] /\ op'[c]["idx"] = op[c]["idx"] /\ op'[c]["exists"] = op[c]["exists"]
  BY <1>4, FieldsAre
<1>6. Untouched /\ Asked(op[c]) /\ op[c].kind = "mkdir"
  BY <1>1, <1>4 DEF Phase
<1>7. ~op[c].exists /\ op[c].idx = 0
  BY <1>6 DEF Asked
<1>8. /\ fat' = Linked(fat, new, 0) /\ new \in Clusters /\ fat[new] = Free
  BY <1>1, AllocIs
<1>9. /\ Vol(fat, sector, DOMAIN tree, {}) /\ tree = TreeOf(fat, sector) /\ DOMAIN sector = Clusters
  BY <1>6, UntouchedIs, DirFacts
<1>10. Run(fat, {}, 0, 0, 0) /\ OnlyAt(sector, sector, new)
  BY <1>9 DEF Run, OnlyAt
<1>. HIDE DEF new
<1>11. TreeOf(Linked(fat, new, 0), sector) = TreeOf(fat, sector)
  BY <1>8, <1>9, <1>10, TakenTree
<1>12. View(op[c])' = sector' /\ Rest(op[c])' = tree'
  BY <1>5, <1>7 DEF View, Clearing, Area, Rest
<1>13. Built(op[c])'
  BY <1>1, <1>4, <1>5, <1>6, <1>7, <1>8, <1>9, <1>11, <1>12 DEF Built, Written
<1>14. Shown(op[c])' /\ op'[c].pc # "idle"
  BY <1>4, <1>13 DEF Shown, Leaving
<1>. QED
  BY <1>1, <1>3, <1>14, GoesTold

LEMMA ExtendDirectoryTells ==
  ASSUME FatInv, TreeInv, Events = {}, NEW c \in Callers, ExtendDirectory(c)  PROVE Told
<1>. DEFINE new == LowestIn(FreeClusters(fat))
            cur == op[c].cur
            x   == op[c].first
            n   == Len(Chain(fat, x))
            prev == Chain(fat, x)[n]
            d   == cwd.cluster
            s1  == [sector EXCEPT ![new] = ZeroSector]
            at  == [cur |-> new, idx |-> 1, pc |-> "flush", then |-> "zero"]
<1>1. /\ op[c].pc = "extend" /\ MayRun(c) /\ FreeClusters(fat) # {} /\ fat' = AllocLinked(cur)
      /\ sector' = sector /\ Goto(c, at)
  BY DEF ExtendDirectory, At
<1>2. /\ DOMAIN at = {"cur", "idx", "pc", "then"} /\ at["cur"] = new /\ at["idx"] = 1 /\ at["pc"] = "flush"
      /\ at["then"] = "zero"
  OBVIOUS
<1>. HIDE DEF at
<1>3. DOMAIN at \subseteq Fields
  BY <1>2, FieldsAre
<1>4. /\ Phase(op[c]) /\ tree' = tree
      /\ op'[c]["cur"] = new /\ op'[c]["idx"] = 1 /\ op'[c]["pc"] = "flush" /\ op'[c]["then"] = "zero"
      /\ \A f \in Fields \ {"cur", "idx", "pc", "then"} : op'[c][f] = op[c][f]
  BY <1>1, <1>2, <1>3, GoesOn
<1>5. /\ op'[c]["kind"] = op[c]["kind"] /\ op'[c]["name"] = op[c]["name"] /\ op'[c]["arg"] = op[c]["arg"]
      /\ op'[c]["dir"] = op[c]["dir"] /\ op'[c]["exists"] = op[c]["exists"] /\ op'[c]["first"] = op[c]["first"]
  BY <1>4, FieldsAre
<1>6. /\ Placing(op[c]) /\ fat[cur] = EOC /\ \A i \in 1..Slots : Live(sector[cur][i])
  BY <1>1, <1>4 DEF Phase
<1>7. /\ ~op[c].exists /\ Made(op[c], sector) /\ cur \in InChain(fat, op[c].dir)
  BY <1>6 DEF Placing
<1>8. op[c].dir = d /\ Chained(fat, x) /\ Built(op[c])
  BY <1>1, <1>7 DEF Made, Making, TreeInv, Shown, Building
<1>9. PICK dirs \in SUBSET Clusters : Vol(fat, sector, dirs, InChain(fat, x)) /\ PathOK(fat, sector, dirs, cwd)
  BY <1>7 DEF Made, Making, Sound
<1>10. Run(fat, InChain(fat, x), x, prev, n) /\ x \in InChain(fat, x) /\ n > 0
  <2>1. n \in Nat /\ n >= 1 /\ x \in Clusters /\ x \in InChain(fat, x)
    BY <1>8, ChainFacts
  <2>2. x # 0
    BY <2>1, Marks
  <2>. QED
    BY <1>8, <2>1, <2>2 DEF Run
<1>11. /\ fat' = Linked(fat, new, cur) /\ new \in Clusters /\ fat[new] = Free
  BY <1>1, AllocIs
<1>12. d \in dirs
  BY <1>9 DEF PathOK
<1>. HIDE DEF new, cur, x, n, prev, d
<1>13. /\ TreeOf(Linked(fat, new, cur), s1) = TreeOf(fat, sector)
  BY <1>6, <1>7, <1>8, <1>9, <1>10, <1>11, <1>12, ExtendedTree
<1>14. /\ \A a \in Clusters : a \in InChain(fat, x) => a # new
       /\ Chain(fat', x) = Chain(fat, x)
  <2>1. ASSUME NEW a \in InChain(fat, x)  PROVE a \in Clusters /\ a # new
    BY <1>8, <1>11, Links
  <2>2. InChain(fat, x) \cap InChain(fat, d) = {}
    <3>1. d \in Heads(fat, sector, dirs) /\ ChainsOK(fat, Heads(fat, sector, dirs), InChain(fat, x))
      BY <1>9, <1>12, DirFacts DEF Vol
    <3>. QED
      BY <3>1 DEF ChainsOK
  <2>3. \A a \in InChain(fat, x) : fat'[a] = fat[a]
    <3>1. \A a \in InChain(fat, x) : a # cur
      BY <1>7, <1>8, <2>2
    <3>. QED
      BY <1>11, <2>1, <3>1 DEF Linked
  <2>. QED
    BY <1>8, <2>1, <2>3, ChainKept
<1>15. Written(op[c])'
  <2>1. Written(op[c])
    BY <1>8 DEF Built
  <2>. QED
    BY <1>1, <1>5, <1>14, <2>1 DEF Written, x
<1>16. View(op[c])' = s1 /\ View(op[c]) = sector
  <2>1. Clearing(op[c])' /\ ~Clearing(op[c])
    BY <1>1, <1>4, <1>5, <1>7 DEF Clearing
  <2>2. [sector EXCEPT ![op[c].cur] = ZeroSector]' = s1
    BY <1>1, <1>4 DEF s1
  <2>3. View(op[c])' = [sector EXCEPT ![op[c].cur] = ZeroSector]'
    BY <2>1 DEF View
  <2>4. View(op[c]) = sector
    BY <1>7, <2>1 DEF View, Area
  <2>. QED
    BY <2>2, <2>3, <2>4
<1>17. Built(op[c])'
  BY <1>4, <1>5, <1>8, <1>11, <1>13, <1>15, <1>16, BuiltStays
<1>18. Shown(op[c])' /\ op'[c].pc # "idle"
  BY <1>4, <1>17 DEF Shown, Leaving
<1>. QED
  BY <1>1, <1>3, <1>18, GoesTold

\* What is built, or taken away, does not depend on where the call is.
LEMMA BuiltKept ==
  ASSUME NEW c \in Callers, Built(op[c]), tree' = tree, fat' = fat, sector' = sector, Alike(op[c], op'[c]),
         op'[c].idx = op[c].idx \/ (~op[c].exists /\ ~Clearing(op[c])), Clearing(op[c])' <=> Clearing(op[c]),
         op'[c].cur = op[c].cur \/ (~op[c].exists /\ ~Clearing(op[c]))
  PROVE  Built(op[c])'
<1>1. View(op[c])' = View(op[c])
  <2>1. CASE Clearing(op[c])
    <3>1. op'[c].cur = op[c].cur
      BY <2>1
    <3>2. [sector EXCEPT ![op[c].cur] = ZeroSector]' = [sector EXCEPT ![op[c].cur] = ZeroSector]
      BY <3>1
    <3>. QED
      BY <2>1, <3>2 DEF View
  <2>2. CASE ~Clearing(op[c]) /\ ~op[c].exists
    <3>1. Area(op[c])' = Area(op[c])
      BY <2>2 DEF Area, Alike
    <3>. QED
      BY <2>2, <3>1 DEF View
  <2>3. CASE ~Clearing(op[c]) /\ op[c].exists
    <3>1. op'[c].cur = op[c].cur /\ op'[c].idx = op[c].idx
      BY <2>3
    <3>2. Dropped(op[c])' = Dropped(op[c])
      BY <3>1 DEF Dropped, At2
    <3>3. Area(op[c])' = Area(op[c])
      BY <3>2 DEF Area, Alike
    <3>. QED
      BY <2>3, <3>3 DEF View
  <2>. QED
    BY <2>1, <2>2, <2>3
<1>2. Written(op[c])'
  BY WrittenStays DEF Built, Alike
<1>3. TreeOf(fat', View(op[c])') = TreeOf(fat, View(op[c]))
  BY <1>1
<1>. QED
  BY <1>2, <1>3, BuiltStays DEF Alike

LEMMA ErasedKept ==
  ASSUME NEW c \in Callers, Erased(op[c]), tree' = tree, fat' = fat, sector' = sector, op[c].kind = "delete",
         op'[c].kind = op[c].kind, op'[c].dir = op[c].dir, op'[c].name = op[c].name,
         op'[c].cur = op[c].cur, op'[c].idx = op[c].idx
  PROVE  Erased(op[c])'
<1>1. Effect(op[c])' = Effect(op[c])
  BY EffectStays
<1>2. Dropped(op[c])' = Dropped(op[c])
  BY DEF Dropped, At2
<1>3. /\ TheVolume!IsFile(op[c].dir, op[c].name)' <=> TheVolume!IsFile(op[c].dir, op[c].name)
      /\ TheVolume!IsDirectory(op[c].dir, op[c].name)' <=> TheVolume!IsDirectory(op[c].dir, op[c].name)
      /\ tree'[tree'[op'[c].dir][op'[c].name].id] = tree[tree[op[c].dir][op[c].name].id]
  BY DEF TheVolume!IsFile, TheVolume!IsDirectory
<1>4. TreeOf(fat', Dropped(op[c])') = Effect(op[c])'
  BY <1>1, <1>2 DEF Erased
<1>. QED
  BY <1>3, <1>4 DEF Erased

LEMMA FlushSectorTells ==
  ASSUME FatInv, TreeInv, Events = {}, NEW c \in Callers, FlushSector(c)  PROVE Told
<1>1. /\ op[c].pc = "flush" /\ MayRun(c) /\ fat' = fat /\ sector' = sector
      /\ Goto(c, [step |-> op[c].step + 1]) \/ Goto(c, AfterFlush(c))
  BY DEF FlushSector, At
<1>2. InFlush(op[c]) /\ Shown(op[c])
  BY <1>1 DEF FatInv, Phase, TreeInv
<1>3. /\ op[c].then \in {"commit", "reread", "slot", "zero"} /\ (op[c].then = "commit" => op[c].kind = "delete")
      /\ op[c].then = "reread" => op[c].exists
      /\ op[c].then \in {"slot", "zero"} => ~op[c].exists
  BY <1>2 DEF InFlush, Deleting, NewCluster, Growing
<1>4. /\ op[c].then = "commit" => Erased(op[c])
      /\ op[c].then # "commit" => Built(op[c])
  BY <1>1, <1>2 DEF Shown, Building, Leaving
<1>5. ASSUME Goto(c, [step |-> op[c].step + 1])  PROVE Told
  <2>. DEFINE at == [step |-> op[c].step + 1]
  <2>1. DOMAIN at = {"step"} /\ Goto(c, at)
    BY <1>5
  <2>. HIDE DEF at
  <2>2. DOMAIN at \subseteq Fields
    BY <2>1, FieldsAre
  <2>3. tree' = tree /\ \A f \in Fields \ {"step"} : op'[c][f] = op[c][f]
    BY <1>1, <2>1, <2>2, GoesOn
  <2>4. /\ op'[c]["kind"] = op[c]["kind"] /\ op'[c]["name"] = op[c]["name"] /\ op'[c]["arg"] = op[c]["arg"]
        /\ op'[c]["dir"] = op[c]["dir"] /\ op'[c]["exists"] = op[c]["exists"]
        /\ op'[c]["first"] = op[c]["first"] /\ op'[c]["cur"] = op[c]["cur"]
        /\ op'[c]["idx"] = op[c]["idx"] /\ op'[c]["then"] = op[c]["then"] /\ op'[c]["pc"] = "flush"
    BY <1>1, <2>3, FieldsAre
  <2>5. Alike(op[c], op'[c]) /\ (Clearing(op[c])' <=> Clearing(op[c]))
    BY <1>1, <2>4 DEF Alike, Clearing
  <2>6. Built(op[c]) => Built(op[c])'
    BY <1>1, <2>3, <2>4, <2>5, BuiltKept
  <2>7. op[c].then = "commit" => Erased(op[c])'
    BY <1>1, <1>3, <1>4, <2>3, <2>4, ErasedKept
  <2>8. Shown(op[c])' /\ op'[c].pc # "idle"
    BY <1>4, <2>4, <2>6, <2>7 DEF Shown, Building, Leaving
  <2>. QED
    BY <1>1, <2>1, <2>2, <2>8, GoesTold
<1>6. ASSUME Goto(c, AfterFlush(c))  PROVE Told
  <2>. DEFINE at   == AfterFlush(c)
              then == op[c].then
              cur1 == IF then = "slot" THEN op[c].dir
                      ELSE IF then = "zero" /\ op[c].idx = 0 THEN op[c].first ELSE op[c].cur
  <2>1. DOMAIN at = {"pc", "step", "cur"} /\ at["pc"] = then /\ at["cur"] = cur1 /\ Goto(c, at)
    BY <1>6 DEF AfterFlush
  <2>. HIDE DEF at
  <2>2. DOMAIN at \subseteq Fields
    BY <2>1, FieldsAre
  <2>3. /\ tree' = tree /\ op'[c]["pc"] = then /\ op'[c]["cur"] = cur1
        /\ \A f \in Fields \ {"pc", "step", "cur"} : op'[c][f] = op[c][f]
    BY <1>1, <2>1, <2>2, GoesOn
  <2>4. /\ op'[c]["kind"] = op[c]["kind"] /\ op'[c]["name"] = op[c]["name"] /\ op'[c]["arg"] = op[c]["arg"]
        /\ op'[c]["dir"] = op[c]["dir"] /\ op'[c]["exists"] = op[c]["exists"]
        /\ op'[c]["first"] = op[c]["first"] /\ op'[c]["idx"] = op[c]["idx"]
    BY <2>3, FieldsAre
  <2>5. Alike(op[c], op'[c])
    BY <2>4 DEF Alike
  <2>6. ASSUME then = "commit"  PROVE Shown(op[c])'
    <3>1. op'[c].cur = op[c].cur
      BY <2>3, <2>6
    <3>2. Erased(op[c])'
      BY <1>1, <1>3, <1>4, <2>3, <2>4, <2>6, <3>1, ErasedKept
    <3>. QED
      BY <1>3, <2>3, <2>4, <2>6, <3>2 DEF Shown, Building
  <2>7. ASSUME then # "commit"  PROVE Shown(op[c])'
    <3>1. Clearing(op[c])' <=> Clearing(op[c])
      BY <1>1, <1>3, <2>3, <2>4, <2>7 DEF Clearing
    <3>2. op'[c].cur = op[c].cur \/ (~op[c].exists /\ ~Clearing(op[c]))
      BY <1>1, <1>3, <2>3 DEF Clearing
    <3>3. Built(op[c])'
      BY <1>1, <1>4, <2>3, <2>4, <2>5, <2>7, <3>1, <3>2, BuiltKept
    <3>. QED
      BY <1>3, <2>3, <2>7, <3>3 DEF Shown, Leaving
  <2>8. Shown(op[c])' /\ op'[c].pc # "idle"
    BY <1>3, <2>3, <2>6, <2>7
  <2>. QED
    BY <1>1, <2>1, <2>2, <2>8, GoesTold
<1>. QED
  BY <1>1, <1>5, <1>6

LEMMA FindSlotTells ==
  ASSUME FatInv, TreeInv, Events = {}, NEW c \in Callers, FindSlot(c)  PROVE Told
<1>1. op[c].pc = "slot" /\ MayRun(c) /\ fat' = fat /\ sector' = sector
  BY DEF FindSlot, At
<1>2. ~op[c].exists /\ Built(op[c]) /\ ~Clearing(op[c])
  BY <1>1 DEF FatInv, Phase, Placing, TreeInv, Shown, Building, Clearing
<1>3. \E at : /\ DOMAIN at \subseteq {"pc", "idx", "cur"} /\ Goto(c, at)
              /\ "pc" \in DOMAIN at => at["pc"] \in {"reread", "extend"}
  <2>1. \A k : DOMAIN [pc |-> "reread", idx |-> k] \subseteq {"pc", "idx", "cur"}
               /\ [pc |-> "reread", idx |-> k]["pc"] = "reread"
    OBVIOUS
  <2>2. \A a : DOMAIN [cur |-> a] \subseteq {"pc", "idx", "cur"} /\ "pc" \notin DOMAIN [cur |-> a]
    OBVIOUS
  <2>3. DOMAIN [pc |-> "extend"] \subseteq {"pc", "idx", "cur"} /\ [pc |-> "extend"]["pc"] = "extend"
    OBVIOUS
  <2>4. \/ (\E k : Goto(c, [pc |-> "reread", idx |-> k])) \/ (\E a : Goto(c, [cur |-> a]))
        \/ Goto(c, [pc |-> "extend"])
    BY DEF FindSlot
  <2>. QED
    BY <2>1, <2>2, <2>3, <2>4
<1>4. PICK at : /\ DOMAIN at \subseteq {"pc", "idx", "cur"} /\ Goto(c, at)
                /\ "pc" \in DOMAIN at => at["pc"] \in {"reread", "extend"}
  BY <1>3
<1>5. DOMAIN at \subseteq Fields
  BY <1>4, FieldsAre
<1>6. /\ tree' = tree /\ (\A x \in DOMAIN at : op'[c][x] = at[x])
      /\ \A x \in Fields \ DOMAIN at : op'[c][x] = op[c][x]
  BY <1>1, <1>4, <1>5, GoesOn
<1>7. op'[c]["pc"] \in {"slot", "reread", "extend"}
  <2>1. "pc" \in Fields
    BY FieldsAre
  <2>. QED
    BY <1>1, <1>4, <1>6, <2>1
<1>8. /\ op'[c]["kind"] = op[c]["kind"] /\ op'[c]["name"] = op[c]["name"] /\ op'[c]["arg"] = op[c]["arg"]
      /\ op'[c]["dir"] = op[c]["dir"] /\ op'[c]["exists"] = op[c]["exists"]
      /\ op'[c]["first"] = op[c]["first"]
  <2>1. {"kind", "name", "arg", "dir", "exists", "first"} \subseteq Fields \ DOMAIN at
    BY <1>4, FieldsAre
  <2>. QED
    BY <1>6, <2>1
<1>9. Alike(op[c], op'[c]) /\ ~Clearing(op[c])'
  BY <1>7, <1>8 DEF Alike, Clearing
<1>10. Built(op[c])'
  BY <1>1, <1>2, <1>6, <1>9, BuiltKept
<1>11. Shown(op[c])' /\ op'[c].pc # "idle"
  BY <1>7, <1>10 DEF Shown, Leaving
<1>. QED
  BY <1>1, <1>4, <1>5, <1>11, GoesTold

LEMMA RereadsTell ==
  ASSUME FatInv, TreeInv, Events = {}, NEW c \in Callers, ReadNewCluster(c) \/ RereadEntry(c)  PROVE Told
<1>. DEFINE at == [pc |-> IF op[c].pc = "dots" THEN "dotted" ELSE "commit"]
<1>1. /\ op[c].pc \in {"dots", "reread"} /\ MayRun(c) /\ fat' = fat /\ sector' = sector /\ Goto(c, at)
  BY DEF ReadNewCluster, RereadEntry, At
<1>2. DOMAIN at = {"pc"} /\ at["pc"] \in {"dotted", "commit"}
  OBVIOUS
<1>. HIDE DEF at
<1>3. DOMAIN at \subseteq Fields
  BY <1>2, FieldsAre
<1>4. tree' = tree /\ op'[c]["pc"] \in {"dotted", "commit"} /\ \A f \in Fields \ {"pc"} : op'[c][f] = op[c][f]
  BY <1>1, <1>2, <1>3, GoesOn
<1>5. /\ op'[c]["kind"] = op[c]["kind"] /\ op'[c]["name"] = op[c]["name"] /\ op'[c]["arg"] = op[c]["arg"]
      /\ op'[c]["dir"] = op[c]["dir"] /\ op'[c]["exists"] = op[c]["exists"]
      /\ op'[c]["first"] = op[c]["first"] /\ op'[c]["cur"] = op[c]["cur"] /\ op'[c]["idx"] = op[c]["idx"]
  BY <1>4, FieldsAre
<1>6. Alike(op[c], op'[c]) /\ ~Clearing(op[c])' /\ ~Clearing(op[c])
  BY <1>1, <1>4, <1>5 DEF Alike, Clearing
<1>7. Built(op[c]) /\ op[c].kind \in {"write", "mkdir"}
  BY <1>1 DEF FatInv, Phase, NewCluster, Placed, Made, Making, TreeInv, Shown, Building
<1>8. Built(op[c])'
  BY <1>1, <1>4, <1>5, <1>6, <1>7, BuiltKept
<1>9. Shown(op[c])' /\ op'[c].pc # "idle"
  BY <1>4, <1>5, <1>7, <1>8 DEF Shown, Leaving
<1>. QED
  BY <1>1, <1>3, <1>9, GoesTold

\* A new directory's cluster is written.
LEMMA NewWritten ==
  ASSUME NEW c \in Callers, NewCluster(op[c]), Built(op[c]), ~Clearing(op[c]), ~Clearing(op[c])', tree' = tree,
         fat' = fat, Alike(op[c], op'[c]), NEW t, sector' = [sector EXCEPT ![op[c].first] = t]
  PROVE  Built(op[c])'
<1>1. Made(op[c], sector) /\ ~op[c].exists /\ op[c].kind = "mkdir"
  BY DEF NewCluster
<1>2. PICK dirs : Vol(fat, sector, dirs, InChain(fat, op[c].first))
  BY <1>1 DEF Made, Making, Sound
<1>3. op[c].first \in InChain(fat, op[c].first)
  BY <1>1, ChainFacts DEF Made
<1>4. TreeOf(fat, [sector EXCEPT ![op[c].first] = t]) = TreeOf(fat, sector)
  <2>1. PICK a, pend, s1 : /\ a = op[c].first /\ pend = InChain(fat, op[c].first)
                           /\ s1 = [sector EXCEPT ![a] = t]
    OBVIOUS
  <2>2. /\ a \in pend /\ Vol(fat, sector, dirs, pend) /\ OnlyAt(sector, s1, a)
        /\ s1 = [b \in Clusters |-> s1[b]]
    <3>1. a \in pend /\ Vol(fat, sector, dirs, pend)
      BY <1>2, <1>3, <2>1
    <3>2. DOMAIN sector = Clusters
      BY <3>1, DirFacts
    <3>. QED
      BY <2>1, <3>1, <3>2 DEF OnlyAt
  <2>3. TreeOf(fat, s1) = TreeOf(fat, sector)
    BY <2>2, WrittenTree
  <2>. QED
    BY <2>1, <2>3
<1>5. View(op[c]) = sector /\ View(op[c])' = sector'
  BY <1>1 DEF View, Area, Alike
<1>6. Written(op[c])'
  BY <1>1 DEF Written, Alike
<1>. QED
  BY <1>4, <1>5, <1>6, BuiltStays DEF Alike

LEMMA ZeroClusterTells ==
  ASSUME FatInv, TreeInv, Events = {}, NEW c \in Callers, ZeroCluster(c)  PROVE Told
<1>. DEFINE at == [pc |-> IF op[c].idx = 0 THEN "dots" ELSE "reread"]
            s1 == [sector EXCEPT ![op[c].cur] = ZeroSector]
<1>1. /\ op[c].pc = "zero" /\ MayRun(c) /\ fat' = fat /\ sector' = s1 /\ Goto(c, at)
  BY DEF ZeroCluster, At
<1>2. DOMAIN at = {"pc"} /\ at["pc"] \in {"dots", "reread"}
  OBVIOUS
<1>. HIDE DEF at
<1>3. DOMAIN at \subseteq Fields
  BY <1>2, FieldsAre
<1>4. tree' = tree /\ op'[c]["pc"] \in {"dots", "reread"} /\ \A f \in Fields \ {"pc"} : op'[c][f] = op[c][f]
  BY <1>1, <1>2, <1>3, GoesOn
<1>5. /\ op'[c]["kind"] = op[c]["kind"] /\ op'[c]["name"] = op[c]["name"] /\ op'[c]["arg"] = op[c]["arg"]
      /\ op'[c]["dir"] = op[c]["dir"] /\ op'[c]["exists"] = op[c]["exists"]
      /\ op'[c]["first"] = op[c]["first"] /\ op'[c]["cur"] = op[c]["cur"] /\ op'[c]["idx"] = op[c]["idx"]
  BY <1>4, FieldsAre
<1>6. Alike(op[c], op'[c]) /\ ~Clearing(op[c])'
  BY <1>4, <1>5 DEF Alike, Clearing
<1>7. Built(op[c]) /\ ((NewCluster(op[c]) /\ op[c].cur = op[c].first) \/ Growing(op[c]))
  BY <1>1 DEF FatInv, Phase, TreeInv, Shown, Building
<1>8. CASE NewCluster(op[c]) /\ op[c].cur = op[c].first
  <2>1. ~Clearing(op[c])
    BY <1>8 DEF NewCluster, Clearing
  <2>2. Built(op[c])'
    BY <1>1, <1>4, <1>6, <1>7, <1>8, <2>1, NewWritten
  <2>3. Shown(op[c])' /\ op'[c].pc # "idle"
    BY <1>4, <2>2 DEF Shown, Leaving
  <2>. QED
    BY <1>1, <1>3, <2>3, GoesTold
<1>9. CASE Growing(op[c])
  <2>1. /\ Clearing(op[c]) /\ ~op[c].exists /\ Made(op[c], s1) /\ op[c].cur \in InChain(fat, op[c].dir)
    BY <1>1, <1>9 DEF Growing, Clearing
  <2>2. View(op[c]) = s1 /\ View(op[c])' = sector'
    BY <1>5, <1>6, <2>1 DEF View, Area
  <2>. HIDE DEF s1
  <2>3. /\ Chained(fat, op[c].first) /\ op[c].dir = cwd.cluster
    BY <2>1, MadeHere DEF Made
  <2>4. PICK dirs : Vol(fat, s1, dirs, InChain(fat, op[c].first)) /\ PathOK(fat, s1, dirs, cwd)
    BY <2>1 DEF Made, Making, Sound
  <2>5. InChain(fat, op[c].first) \cap InChain(fat, op[c].dir) = {}
    <3>1. /\ op[c].dir \in Heads(fat, s1, dirs)
          /\ ChainsOK(fat, Heads(fat, s1, dirs), InChain(fat, op[c].first))
      BY <2>3, <2>4, DirFacts DEF Vol, PathOK
    <3>. QED
      BY <3>1 DEF ChainsOK
  <2>6. \A a \in InChain(fat, op[c].first) : sector'[a] = sector[a]
    <3>1. \A a \in InChain(fat, op[c].first) : a # op[c].cur /\ a \in Clusters
      BY <2>1, <2>3, <2>5, Links
    <3>2. DOMAIN s1 = Clusters
      BY <2>4, DirFacts
    <3>3. DOMAIN sector = Clusters
      BY <3>2 DEF s1
    <3>. QED
      BY <1>1, <3>1, <3>3 DEF s1
  <2>7. Written(op[c])'
    <3>1. Written(op[c])
      BY <1>7 DEF Built
    <3>2. \A k \in 1..Len(Chain(fat, op[c].first)) : Chain(fat, op[c].first)[k] \in InChain(fat, op[c].first)
      BY <2>3, ChainFacts
    <3>. QED
      BY <1>1, <1>5, <2>6, <3>1, <3>2 DEF Written
  <2>8. Built(op[c])'
    BY <1>1, <1>4, <1>5, <1>7, <2>2, <2>7, BuiltStays
  <2>9. Shown(op[c])' /\ op'[c].pc # "idle"
    BY <1>4, <2>8 DEF Shown, Leaving
  <2>. QED
    BY <1>1, <1>3, <2>9, GoesTold
<1>. QED
  BY <1>7, <1>8, <1>9

LEMMA WriteDotsTells ==
  ASSUME FatInv, TreeInv, Events = {}, NEW c \in Callers, WriteDots(c)  PROVE Told
<1>. DEFINE at == [pc |-> "slot", cur |-> op[c].dir]
            dots == [g_io_buf EXCEPT ![1] = NewEntry(".", "dir", op[c].first, 0),
                                     ![2] = NewEntry("..", "dir", op[c].dir, 0)]
<1>1. /\ op[c].pc = "dotted" /\ MayRun(c) /\ fat' = fat /\ sector' = [sector EXCEPT ![op[c].cur] = dots]
      /\ Goto(c, at)
  BY DEF WriteDots, At
<1>2. DOMAIN at = {"pc", "cur"} /\ at["pc"] = "slot"
  OBVIOUS
<1>. HIDE DEF at, dots
<1>3. DOMAIN at \subseteq Fields
  BY <1>2, FieldsAre
<1>4. tree' = tree /\ op'[c]["pc"] = "slot" /\ \A f \in Fields \ {"pc", "cur"} : op'[c][f] = op[c][f]
  BY <1>1, <1>2, <1>3, GoesOn
<1>5. /\ op'[c]["kind"] = op[c]["kind"] /\ op'[c]["name"] = op[c]["name"] /\ op'[c]["arg"] = op[c]["arg"]
      /\ op'[c]["dir"] = op[c]["dir"] /\ op'[c]["exists"] = op[c]["exists"]
      /\ op'[c]["first"] = op[c]["first"]
  BY <1>4, FieldsAre
<1>6. Alike(op[c], op'[c]) /\ ~Clearing(op[c])' /\ ~Clearing(op[c])
  BY <1>1, <1>4, <1>5 DEF Alike, Clearing
<1>7. Built(op[c]) /\ NewCluster(op[c]) /\ op[c].cur = op[c].first
  BY <1>1 DEF FatInv, Phase, TreeInv, Shown, Building
<1>8. Built(op[c])'
  BY <1>1, <1>4, <1>6, <1>7, NewWritten
<1>9. Shown(op[c])' /\ op'[c].pc # "idle"
  BY <1>4, <1>8 DEF Shown, Leaving
<1>. QED
  BY <1>1, <1>3, <1>9, GoesTold

\* The entry is written: its file, or its directory, is in the tree.
LEMMA FileReady ==
  ASSUME NEW f, NEW s, NEW dirs, NEW x, NEW d, NEW p, NEW n, NEW size,
         Ready(f, s, dirs, x, d, p, n, "file", size), NEW t, t = TreeOf(f, s),
         NEW row, row = [m \in DOMAIN t[d] \cup {n} |->
                           IF m = n THEN NodeOf(f, s, NewEntry(n, "file", x, size)) ELSE t[d][m]]
  PROVE  /\ TreeOf(f, Put(s, p, NewEntry(n, "file", x, size))) = Row(t, dirs, d, row, x)
         /\ x \notin dirs /\ n \notin DOMAIN t[d]
<1>2. PICK e, dirs1, attr : /\ e = NewEntry(n, attr, x, size) /\ attr = "file"
                            /\ dirs1 = IF attr = "dir" THEN dirs \cup {x} ELSE dirs
  OBVIOUS
<1>3. row = [m \in DOMAIN t[d] \cup {n} |-> IF m = n THEN NodeOf(f, s, e) ELSE t[d][m]]
  BY <1>2
<1>4. Ready(f, s, dirs, x, d, p, n, attr, size)
  BY <1>2
<1>5. /\ TreeOf(f, Put(s, p, e)) = Row(t, dirs1, d, row, x)
      /\ x \notin dirs /\ x \in Clusters /\ n \notin DOMAIN t[d]
  BY <1>2, <1>3, <1>4, AddedTree
<1>. QED
  BY <1>2, <1>5

LEMMA DirReady ==
  ASSUME NEW f, NEW s, NEW dirs, NEW x, NEW d, NEW p, NEW n, NEW size,
         Ready(f, s, dirs, x, d, p, n, "dir", size), NEW t, t = TreeOf(f, s),
         NEW row, row = [m \in DOMAIN t[d] \cup {n} |->
                           IF m = n THEN NodeOf(f, s, NewEntry(n, "dir", x, size)) ELSE t[d][m]],
         NEW dirs1, dirs1 = dirs \cup {x}
  PROVE  /\ TreeOf(f, Put(s, p, NewEntry(n, "dir", x, size))) = Row(t, dirs1, d, row, x)
         /\ x \notin dirs /\ x \in Clusters /\ n \notin DOMAIN t[d]
<1>2. PICK e, attr : /\ e = NewEntry(n, attr, x, size) /\ attr = "dir"
                     /\ dirs1 = IF attr = "dir" THEN dirs \cup {x} ELSE dirs
  OBVIOUS
<1>3. row = [m \in DOMAIN t[d] \cup {n} |-> IF m = n THEN NodeOf(f, s, e) ELSE t[d][m]]
  BY <1>2
<1>4. Ready(f, s, dirs, x, d, p, n, attr, size)
  BY <1>2
<1>5. /\ TreeOf(f, Put(s, p, e)) = Row(t, dirs1, d, row, x)
      /\ x \notin dirs /\ x \in Clusters /\ n \notin DOMAIN t[d]
  BY <1>2, <1>3, <1>4, AddedTree
<1>. QED
  BY <1>2, <1>5

\* The chain of a write holds what it was to write.
LEMMA DataIs ==
  ASSUME NEW o, Placed(o), o.kind = "write", Written(o)
  PROVE  Data(fat, Area(o), EntryOf(o)) = o.arg
<1>. DEFINE ch == Chain(fat, o.first)
<1>1. Made(o, Area(o)) /\ Slot(o, Area(o))
  BY DEF Placed
<1>2. /\ Chained(fat, o.first) /\ Len(ch) = Needed(o.arg) /\ o.arg \in Contents /\ o.dir = cwd.cluster
  BY <1>1 DEF Made, Making, Whole
<1>3. PICK dirs : Vol(fat, Area(o), dirs, InChain(fat, o.first)) /\ PathOK(fat, Area(o), dirs, cwd)
  BY <1>1 DEF Made, Making, Sound
<1>4. /\ o.arg \in Seq(Blocks) /\ Len(o.arg) \in Nat
      /\ Len(ch) = (IF Len(o.arg) = 0 THEN 1 ELSE Len(o.arg))
  BY <1>2, NeededIs, Consts
<1>5. /\ o.first \in Clusters /\ o.first # 0
      /\ \A k \in 1..Len(ch) : ch[k] \in InChain(fat, o.first) /\ ch[k] \in Clusters
  BY <1>2, ChainFacts, Marks
<1>6. InChain(fat, o.first) \cap InChain(fat, o.dir) = {}
  <2>1. /\ o.dir \in Heads(fat, Area(o), dirs)
        /\ ChainsOK(fat, Heads(fat, Area(o), dirs), InChain(fat, o.first))
    BY <1>2, <1>3, DirFacts DEF Vol, PathOK
  <2>. QED
    BY <2>1 DEF ChainsOK
<1>7. \A k \in 1..Len(ch) : Area(o)[ch[k]] = sector[ch[k]]
  <2>1. o.cur \in InChain(fat, o.dir)
    BY <1>1 DEF Slot, At2, Places
  <2>2. \A k \in 1..Len(ch) : ch[k] # o.cur
    BY <1>5, <1>6, <2>1
  <2>3. DOMAIN Area(o) = Clusters
    BY <1>3, DirFacts
  <2>. QED
    BY <1>5, <2>2, <2>3 DEF Area, Dropped, Put, At2
<1>8. \A k \in 1..Len(ch) : k <= Len(o.arg) => sector[ch[k]] = o.arg[k]
  BY <1>5 DEF Written
<1>9. EntryOf(o).first = o.first /\ EntryOf(o).size = Len(o.arg)
  BY DEF EntryOf, NewEntry, SizeOf
<1>10. Data(fat, Area(o), EntryOf(o)) =
         [k \in 1..(IF Len(o.arg) < Len(ch) THEN Len(o.arg) ELSE Len(ch)) |-> Area(o)[ch[k]]]
  BY <1>9 DEF Data
<1>. HIDE DEF ch
<1>11. (IF Len(o.arg) < Len(ch) THEN Len(o.arg) ELSE Len(ch)) = Len(o.arg) /\ Len(ch) \in Nat
       /\ Len(o.arg) <= Len(ch)
  BY <1>4
<1>12. \A k \in 1..Len(o.arg) : Area(o)[ch[k]] = o.arg[k]
  <2>1. ASSUME NEW k \in 1..Len(o.arg)  PROVE k \in 1..Len(ch) /\ k <= Len(o.arg)
    BY <1>4, <1>11
  <2>. QED
    BY <1>7, <1>8, <2>1
<1>13. o.arg = [k \in 1..Len(o.arg) |-> o.arg[k]]
  BY <1>4
<1>. QED
  BY <1>10, <1>11, <1>12, <1>13

\* A call that returns 0 has changed the tree as it was asked.
LEMMA DoneTold ==
  ASSUME FatInv, Events = {}, NEW c \in Callers, MayRun(c), op[c].pc # "idle", Return(c, TRUE),
         TreeOf(fat', sector') = Effect(op[c]), TheVolume!Next
  PROVE  Told
<1>1. DOMAIN op = Callers
  BY DEF FatInv
<1>2. \A d \in Callers \ {c} : op[d].pc = "idle"
  BY Alone
<1>3. op'[c] = Idle(TRUE) /\ \A d \in Callers : op'[d].pc = "idle"
  BY <1>1, <1>2 DEF Return, Idle
<1>4. TreeInv'
  BY <1>3 DEF TreeInv
<1>5. tree' = Effect(op[c])
  BY DEF Return
<1>6. Succeeded(c)
  BY <1>3 DEF Succeeded
<1>. QED
  BY <1>4, <1>5, <1>6 DEF Told, AsAsked

LEMMA DeleteDone ==
  ASSUME NEW o, o.kind = "delete", Erased(o), tree' = Effect(o)
  PROVE  TheVolume!Next
<1>. DEFINE wout == TheVolume!Without(tree, o.dir, o.name)
<1>1. o.name \in Names
  BY DEF Erased
<1>2. CASE TheVolume!IsFile(o.dir, o.name)
  <2>1. o.dir \in DOMAIN tree /\ tree[o.dir][o.name].kind = "file"
    BY <1>2 DEF TheVolume!IsFile
  <2>2. Effect(o) = [e \in DOMAIN tree \ {} |-> wout[e]]
    BY <2>1 DEF Effect
  <2>3. wout = [e \in DOMAIN tree |-> wout[e]]
    BY WithoutIs
  <2>4. DOMAIN tree \ {} = DOMAIN tree
    OBVIOUS
  <2>. HIDE DEF wout
  <2>5. tree' = wout
    BY <2>2, <2>3, <2>4
  <2>6. TheVolume!DeleteFile(o.dir, o.name)
    BY <1>2, <2>5 DEF TheVolume!DeleteFile, wout
  <2>. QED
    BY <1>1, <2>1, <2>6 DEF TheVolume!Next
<1>3. CASE TheVolume!IsDirectory(o.dir, o.name) /\ DOMAIN tree[tree[o.dir][o.name].id] = {}
  <2>1. o.dir \in DOMAIN tree /\ tree[o.dir][o.name].kind = "dir"
    BY <1>3 DEF TheVolume!IsDirectory
  <2>2. tree' = [e \in DOMAIN tree \ {tree[o.dir][o.name].id} |-> wout[e]]
    BY <2>1 DEF Effect
  <2>3. TheVolume!DeleteDirectory(o.dir, o.name)
    BY <1>3, <2>2 DEF TheVolume!DeleteDirectory
  <2>. QED
    BY <1>1, <2>1, <2>3 DEF TheVolume!Next
<1>. QED
  BY <1>2, <1>3 DEF Erased

LEMMA RenameDone ==
  ASSUME NEW o, Untouched, o.kind = "rename", Asked(o), Hit(o),
         NEW s1, s1 = Put(sector, At2(o), [Ent(sector, At2(o)) EXCEPT !.name = o.arg])
  PROVE  TreeOf(fat, s1) = Effect(o) /\ (tree' = Effect(o) => TheVolume!Next)
<1>1. /\ Vol(fat, sector, DOMAIN tree, {}) /\ tree = TreeOf(fat, sector) /\ cwd.cluster \in DOMAIN tree
  BY UntouchedIs
<1>2. /\ o.arg \in Names /\ o.name \in Names /\ o.dir = cwd.cluster
      /\ \A q \in Ents(fat, sector, o.dir) : Ent(sector, q).name # o.arg
  BY DEF Asked, NotIn
<1>3. PICK d, p, n, old : d = o.dir /\ p = At2(o) /\ n = o.arg /\ old = o.name
  OBVIOUS
<1>4. /\ d \in DOMAIN tree /\ p \in Ents(fat, sector, d) /\ Ent(sector, p).name = old /\ n \in Names
      /\ \A q \in Ents(fat, sector, d) : Ent(sector, q).name # n
  BY <1>1, <1>2, <1>3 DEF Hit
<1>5. LET t == TreeOf(fat, sector)
          was == Ent(sector, p).name
      IN  /\ TreeOf(fat, Put(sector, p, [Ent(sector, p) EXCEPT !.name = n])) =
               Row(t, DOMAIN tree, d, [m \in (DOMAIN t[d] \cup {n}) \ {was} |->
                                         IF m = n THEN t[d][was] ELSE t[d][m]], 0)
          /\ n \notin DOMAIN t[d] /\ was \in DOMAIN t[d]
  BY <1>1, <1>4, RenamedTree
<1>6. 0 \notin DOMAIN tree
  BY <1>1, DirFacts, Marks
<1>7. Row(tree, DOMAIN tree, d, [m \in (DOMAIN tree[d] \cup {n}) \ {old} |->
                                      IF m = n THEN tree[d][old] ELSE tree[d][m]], 0) =
           TheVolume!Without(TheVolume!With(d, n, tree[d][old]), d, old)
  <2>1. d \in DOMAIN tree
    BY <1>4
  <2>2. n \notin DOMAIN tree[d] /\ old \in DOMAIN tree[d]
    BY <1>1, <1>4, <1>5
  <2>. QED
    BY <1>6, <2>1, <2>2, RowMoved
<1>8. Effect(o) = TheVolume!Without(TheVolume!With(d, n, tree[d][old]), d, old)
  BY <1>3 DEF Effect
<1>9. TreeOf(fat, s1) = Effect(o)
  BY <1>1, <1>3, <1>4, <1>5, <1>7, <1>8
<1>10. TheVolume!Missing(d, n)
  BY <1>1, <1>4, <1>5 DEF TheVolume!Missing
<1>11. TheVolume!IsFile(d, old) \/ TheVolume!IsDirectory(d, old)
  <2>1. old \in DOMAIN tree[d]
    BY <1>1, <1>4, <1>5
  <2>2. \A q \in Ents(fat, sector, d) :
          LET node == tree[d][Ent(sector, q).name]
          IN  /\ Ent(sector, q).attr = "dir" => node = [kind |-> "dir", id |-> Ent(sector, q).first]
              /\ Ent(sector, q).attr = "file" => node.kind = "file"
    BY <1>1, <1>4, TreeIs
  <2>3. Ent(sector, p).attr \in {"file", "dir"}
    BY <1>1, <1>4, DirFacts
  <2>4. tree[d][old].kind \in {"file", "dir"}
    <3>1. /\ Ent(sector, p).attr = "dir" => tree[d][old] = [kind |-> "dir", id |-> Ent(sector, p).first]
          /\ Ent(sector, p).attr = "file" => tree[d][old].kind = "file"
      BY <1>4, <2>2
    <3>2. \A node, x : node = [kind |-> "dir", id |-> x] => node.kind = "dir"
      OBVIOUS
    <3>. QED
      BY <2>3, <3>1, <3>2
  <2>. QED
    BY <1>4, <2>1, <2>4 DEF TheVolume!IsFile, TheVolume!IsDirectory
<1>12. ASSUME tree' = Effect(o)  PROVE TheVolume!Next
  <2>1. TheVolume!RenameEntry(d, old, n)
    BY <1>8, <1>10, <1>11, <1>12 DEF TheVolume!RenameEntry
  <2>. QED
    BY <1>2, <1>3, <1>4, <2>1 DEF TheVolume!Next
<1>. QED
  BY <1>9, <1>12

\* The entry of what was made.
LEMMA EntryDone ==
  ASSUME NEW o, Placed(o), Built(o), o.pc = "commit",
         NEW s1, s1 = Put(Area(o), At2(o), EntryOf(o))
  PROVE  TreeOf(fat, s1) = Effect(o) /\ (tree' = Effect(o) => TheVolume!Next)
<1>1. Made(o, Area(o))
  BY DEF Placed
<1>2. /\ o.kind \in {"write", "mkdir"} /\ o.name \in Names
      /\ o.kind = "write" => o.arg \in Contents
      /\ o.exists => o.kind = "write"
  BY <1>1 DEF Made, Making
<1>3. PICK s, p, d, n, x, size : /\ s = Area(o) /\ p = At2(o) /\ d = o.dir /\ n = o.name
                                 /\ x = o.first /\ size = SizeOf(o)
  OBVIOUS
<1>4. PICK dirs : Ready(fat, s, dirs, x, d, p, n, AttrOf(o), size)
  BY <1>3, EntryReady
<1>5. PICK t : t = Rest(o)
  OBVIOUS
<1>6. t = TreeOf(fat, s)
  <2>1. ~Clearing(o)
    BY DEF Clearing
  <2>. QED
    BY <1>3, <1>5, <2>1 DEF Built, View
<1>7. DOMAIN t = dirs /\ d \in dirs
  <2>1. Vol(fat, s, dirs, InChain(fat, x)) /\ d \in dirs
    BY <1>4 DEF Ready
  <2>. QED
    BY <1>6, <2>1, TreeIs
<1>8. CASE o.kind = "mkdir"
  <2>1. AttrOf(o) = "dir" /\ SizeOf(o) = 0 /\ ~o.exists
    BY <1>2, <1>8 DEF AttrOf, SizeOf
  <2>2. PICK e, node : e = NewEntry(n, "dir", x, size) /\ node = NodeOf(fat, s, e)
    OBVIOUS
  <2>3. EntryOf(o) = e
    BY <1>3, <2>1, <2>2 DEF EntryOf
  <2>4. node = TheVolume!Directory(x)
    BY <2>2 DEF NodeOf, NewEntry, TheVolume!Directory
  <2>5. PICK row : row = [m \in DOMAIN t[d] \cup {n} |-> IF m = n THEN node ELSE t[d][m]]
    OBVIOUS
  <2>12. PICK dirs1 : dirs1 = dirs \cup {x}
    OBVIOUS
  <2>13. Ready(fat, s, dirs, x, d, p, n, "dir", size)
    BY <1>4, <2>1
  <2>6. /\ TreeOf(fat, Put(s, p, NewEntry(n, "dir", x, size))) = Row(t, dirs1, d, row, x)
        /\ x \notin dirs /\ x \in Clusters /\ n \notin DOMAIN t[d]
    BY <1>6, <2>2, <2>5, <2>12, <2>13, DirReady
  <2>7. t = tree
    BY <1>5, <2>1 DEF Rest
  <2>8. /\ Row(tree, DOMAIN tree, d, row, x) = TheVolume!With(d, n, node)
        /\ Row(tree, DOMAIN tree \cup {x}, d, row, x) = TheVolume!Opened(TheVolume!With(d, n, node), x)
    BY <1>7, <2>5, <2>6, <2>7, RowsMore
  <2>9. Effect(o) = TheVolume!Opened(TheVolume!With(d, n, TheVolume!Directory(x)), x)
    BY <1>3, <1>8 DEF Effect
  <2>10. TreeOf(fat, s1) = Effect(o)
    BY <1>3, <1>7, <2>2, <2>3, <2>4, <2>6, <2>7, <2>8, <2>9, <2>12
  <2>11. ASSUME tree' = Effect(o)  PROVE TheVolume!Next
    <3>1. TheVolume!MakeDirectory(d, n, x)
      BY <1>7, <2>6, <2>7, <2>9, <2>11 DEF TheVolume!MakeDirectory, TheVolume!Missing
    <3>. QED
      BY <1>2, <1>3, <1>7, <2>6, <2>7, <3>1 DEF TheVolume!Next
  <2>. QED
    BY <2>10, <2>11
<1>9. CASE o.kind = "write"
  <2>1. AttrOf(o) = "file" /\ SizeOf(o) = Len(o.arg)
    BY <1>9 DEF AttrOf, SizeOf
  <2>2. PICK e, node : e = NewEntry(n, "file", x, size) /\ node = NodeOf(fat, s, e)
    OBVIOUS
  <2>3. EntryOf(o) = e
    BY <1>3, <2>1, <2>2 DEF EntryOf
  <2>4. node = TheVolume!File(o.arg)
    <3>1. Data(fat, s, e) = o.arg
      BY <1>3, <1>9, <2>3, DataIs DEF Built
    <3>2. e.attr = "file"
      BY <2>2 DEF NewEntry
    <3>. QED
      BY <2>2, <3>1, <3>2 DEF NodeOf, TheVolume!File
  <2>5. PICK row : row = [m \in DOMAIN t[d] \cup {n} |-> IF m = n THEN node ELSE t[d][m]]
    OBVIOUS
  <2>6. /\ TreeOf(fat, Put(s, p, NewEntry(n, "file", x, size))) = Row(t, dirs, d, row, x)
        /\ x \notin dirs /\ n \notin DOMAIN t[d]
    BY <1>4, <1>6, <2>1, <2>2, <2>5, FileReady
  <2>7. Effect(o) = TheVolume!With(d, n, TheVolume!File(o.arg))
    BY <1>3, <1>9 DEF Effect
  <2>8. TreeOf(fat, s1) = Row(t, dirs, d, row, x)
    BY <1>3, <2>2, <2>3, <2>6
  <2>9. /\ d \in DOMAIN tree /\ Row(t, dirs, d, row, x) = TheVolume!With(d, n, node)
        /\ TheVolume!Missing(d, n) \/ TheVolume!IsFile(d, n)
    <3>1. CASE ~o.exists
      <4>1. t = tree
        BY <1>5, <3>1 DEF Rest
      <4>2. /\ Row(tree, DOMAIN tree, d, row, x) = TheVolume!With(d, n, node)
            /\ Row(tree, DOMAIN tree \cup {x}, d, row, x) = TheVolume!Opened(TheVolume!With(d, n, node), x)
        BY <1>7, <2>5, <2>6, <4>1, RowsMore
      <4>. QED
        BY <1>7, <2>6, <4>1, <4>2 DEF TheVolume!Missing
    <3>2. CASE o.exists
      <4>1. t = TheVolume!Without(tree, d, n)
        BY <1>3, <1>5, <3>2 DEF Rest
      <4>2. DOMAIN t = DOMAIN tree
        BY <4>1, WithoutIs
      <4>3. LET u == TheVolume!Without(tree, d, n)
            IN  Row(u, DOMAIN u, d, [m \in DOMAIN u[d] \cup {n} |-> IF m = n THEN node ELSE u[d][m]], x) =
                  TheVolume!With(d, n, node)
        BY <1>7, <2>6, <4>2, RowAgain
      <4>4. TheVolume!IsFile(d, n)
        BY <1>3, <3>2 DEF Built
      <4>. QED
        BY <1>7, <2>5, <4>1, <4>2, <4>3, <4>4
    <3>. QED
      BY <3>1, <3>2
  <2>10. TreeOf(fat, s1) = Effect(o)
    BY <2>4, <2>7, <2>8, <2>9
  <2>11. ASSUME tree' = Effect(o)  PROVE TheVolume!Next
    <3>1. TheVolume!WriteFile(d, n, o.arg)
      BY <2>7, <2>9, <2>11 DEF TheVolume!WriteFile
    <3>. QED
      BY <1>2, <1>3, <1>9, <2>9, <3>1 DEF TheVolume!Next
  <2>. QED
    BY <2>10, <2>11
<1>. QED
  BY <1>2, <1>8, <1>9

LEMMA CommitEntryTells ==
  ASSUME FatInv, TreeInv, Events = {}, NEW c \in Callers, CommitEntry(c)  PROVE Told
<1>. DEFINE o == op[c]
            p == At2(o)
            e == Changed(c, Ent(sector, p))
<1>1. /\ o.pc = "commit" /\ MayRun(c) /\ fat' = fat /\ Return(c, TRUE)
      /\ sector' = [sector EXCEPT ![o.cur] = [g_io_buf EXCEPT ![o.idx] = Changed(c, @)]]
  BY DEF CommitEntry, At
<1>2. g_io_buf = sector[o.cur] /\ InCommit(o)
  BY <1>1 DEF FatInv, Phase, InCommit
<1>3. p[1] = o.cur /\ p[2] = o.idx
  BY DEF At2
<1>4. sector' = Put(sector, p, e)
  BY <1>1, <1>2, <1>3 DEF Put, Ent
<1>. HIDE DEF e
<1>5. tree' = TreeOf(fat, sector')
  BY <1>1 DEF Return
<1>6. Shown(o)
  BY <1>1 DEF TreeInv
<1>7. SUFFICES TreeOf(fat, sector') = Effect(o) /\ (tree' = Effect(o) => TheVolume!Next)
  BY <1>1, <1>5, <1>7, DoneTold
<1>8. CASE Deleting(o)
  <2>1. o.kind = "delete"
    BY <1>8 DEF Deleting
  <2>2. e = Deleted
    BY <2>1 DEF Changed, e
  <2>3. sector' = Dropped(o)
    BY <1>4, <2>2 DEF Dropped
  <2>4. Erased(o)
    BY <1>1, <1>6, <2>1 DEF Shown, Leaving
  <2>5. TreeOf(fat, sector') = Effect(o)
    BY <2>3, <2>4 DEF Erased
  <2>. QED
    BY <2>1, <2>4, <2>5, DeleteDone
<1>9. CASE Untouched /\ o.kind = "rename" /\ Asked(o) /\ Hit(o)
  <2>1. e = [Ent(sector, p) EXCEPT !.name = o.arg]
    BY <1>9 DEF Changed, e
  <2>. HIDE DEF p
  <2>2. sector' = Put(sector, p, [Ent(sector, p) EXCEPT !.name = o.arg])
    BY <1>4, <2>1
  <2>3. PICK s1 : s1 = sector'
    OBVIOUS
  <2>4. TreeOf(fat, s1) = Effect(o) /\ (tree' = Effect(o) => TheVolume!Next)
    BY <1>9, <2>2, <2>3, RenameDone DEF p
  <2>. QED
    BY <2>3, <2>4
<1>10. CASE Placed(o)
  <2>1. sector' = Put(Area(o), p, EntryOf(o))
    BY <1>2, <1>4, <1>10, CommitWrites DEF e
  <2>2. Made(o, Area(o))
    BY <1>10 DEF Placed
  <2>3. Built(o)
    BY <1>1, <1>6, <2>2 DEF Shown, Building, Made, Making
  <2>4. PICK s1 : s1 = sector'
    OBVIOUS
  <2>5. TreeOf(fat, s1) = Effect(o) /\ (tree' = Effect(o) => TheVolume!Next)
    BY <1>1, <1>10, <2>1, <2>3, <2>4, EntryDone
  <2>. QED
    BY <2>4, <2>5
<1>. QED
  BY <1>2, <1>8, <1>9, <1>10 DEF InCommit

-----------------------------------------------------------------------------
(***************************************************************************)
(* Every step, and the theorems.                                           *)
(***************************************************************************)
LEMMA TreeStutter ==
  ASSUME TreeInv, UNCHANGED vars  PROVE TreeInv' /\ UNCHANGED tree
<1>1. fat' = fat /\ sector' = sector /\ op' = op /\ tree' = tree
  BY DEF vars
<1>2. ASSUME NEW c \in Callers, Shown(op[c])  PROVE Shown(op[c])'
  <2>. DEFINE o == op[c]
  <2>1. /\ View(op[c])' = View(o) /\ Dropped(op[c])' = Dropped(o) /\ Rest(op[c])' = Rest(o)
        /\ Written(op[c])' <=> Written(o)
    BY <1>1 DEF View, Clearing, Area, Dropped, At2, Rest, Written, TheVolume!Without
  <2>2. /\ TheVolume!IsFile(op[c].dir, op[c].name)' <=> TheVolume!IsFile(o.dir, o.name)
        /\ TheVolume!IsDirectory(op[c].dir, op[c].name)' <=> TheVolume!IsDirectory(o.dir, o.name)
    BY <1>1 DEF TheVolume!IsFile, TheVolume!IsDirectory
  <2>3. Built(op[c])' <=> Built(o)
    BY <1>1, <2>1, <2>2 DEF Built
  <2>4. ASSUME Erased(o)  PROVE Effect(op[c])' = Effect(o)
    BY <1>1 DEF Effect, TheVolume!Without, TheVolume!With, TheVolume!Opened, TheVolume!Empty,
                TheVolume!File, TheVolume!Directory
  <2>5. Erased(o) => Erased(op[c])'
    BY <1>1, <2>1, <2>2, <2>4 DEF Erased
  <2>. QED
    BY <1>1, <1>2, <2>3, <2>5 DEF Shown, Building, Leaving
<1>. QED
  BY <1>1, <1>2 DEF TreeInv

LEMMA NextTells ==
  ASSUME Events = {}, FatInv, TreeInv, [Next]_vars
  PROVE  TreeInv' /\ [TheVolume!Next]_tree /\ [AsAsked]_vars
<1>1. CASE UNCHANGED vars
  BY <1>1, TreeStutter
<1>2. CASE Crash
  BY <1>2 DEF Crash
<1>3. ASSUME NEW c \in Callers,
             \/ CallWrite(c) \/ CallMkdir(c) \/ CallDelete(c) \/ CallRename(c)
             \/ CallRead(c) \/ CallReaddir(c) \/ CallChdir(c)
      PROVE  Told
  BY <1>3, CallsTell
<1>4. ASSUME NEW c \in Callers,
             \/ FindEntry(c) \/ WrongKind(c) \/ FreeOld(c) \/ FreeDeleted(c)
             \/ OpenFile(c) \/ RenameFound(c) \/ EnterDirectory(c) \/ Walk(c)
             \/ ReadBlock(c) \/ ReadEnd(c) \/ ListSector(c) \/ ListEnd(c)
      PROVE  Told
  BY <1>4, FindEntryTells, WrongKindTells, FreeOldTells, FreeDeletedTells, OpenFileTells,
     RenameFoundTells, EnterDirectoryTells, WalkTells, ReadsTell
<1>5. ASSUME NEW c \in Callers,
             \/ WriteBlock(c) \/ NewDirectory(c) \/ ExtendDirectory(c) \/ DiskFull(c)
             \/ FlushSector(c) \/ ZeroCluster(c) \/ ReadNewCluster(c) \/ WriteDots(c)
             \/ FindSlot(c) \/ RereadEntry(c) \/ CommitEntry(c)
      PROVE  Told
  BY <1>5, WriteBlockTells, NewDirectoryTells, ExtendDirectoryTells, DiskFullNever, FlushSectorTells,
     ZeroClusterTells, RereadsTell, WriteDotsTells, FindSlotTells, CommitEntryTells
<1>6. ASSUME NEW c \in Callers, ReadFails(c) \/ WriteFails(c)  PROVE Told
  BY <1>6 DEF ReadFails, WriteFails
<1>. QED
  BY <1>1, <1>2, <1>3, <1>4, <1>5, <1>6 DEF Next, Told

LEMMA InitTells == Init => TreeInv /\ TheVolume!Init
BY DEF Init, Idle, TreeInv, TheVolume!Init, TheVolume!Empty

\* While no transfer fails, the machine stays on, no call is preempted and the
\* callers look for room before they write, every call is one operation of the
\* volume, whole, at the moment it returns, or nothing (fat32.h: "Public API").
THEOREM CallsAreAtomic == ASSUME Events = {}  PROVE Spec => ImplementsVolume
<1>1. Init => FatInv /\ TreeInv /\ TheVolume!Init
  BY InitKeeps, InitTells
<1>2. FatInv /\ TreeInv /\ [Next]_vars => FatInv' /\ TreeInv' /\ [TheVolume!Next]_tree
  BY NextKeeps, NextTells
<1>. QED
  BY <1>1, <1>2, PTL DEF Spec, ImplementsVolume, TheVolume!Spec

\* And the tree changes exactly when a call returns 0, as that call asked: a
\* file written is the file read, and what was answered -1 changed nothing
\* (fat32_write_file, fat32_mkdir, fat32_delete, fat32_rename).
THEOREM CallsTellTheTruth == ASSUME Events = {}  PROVE Spec => ReturnsTruth /\ [][AsAsked]_vars
<1>1. Init => FatInv /\ TreeInv
  BY InitKeeps, InitTells
<1>2. FatInv /\ TreeInv /\ [Next]_vars => FatInv' /\ TreeInv' /\ [AsAsked]_vars
  BY NextKeeps, NextTells
<1>3. [AsAsked]_vars => [AsAsked \/ (Holed /\ OthersStay)]_vars
  OBVIOUS
<1>. QED
  BY <1>1, <1>2, <1>3, PTL DEF Spec, ReturnsTruth


\* The names in a sector of the directory, and what a listing makes of them.
LEMMA NamesAre ==
  ASSUME Untouched, NEW d, d = cwd.cluster, NEW ch, ch = Chain(fat, d)
  PROVE  /\ \A j \in 1..Len(ch) : \A x : x \in NamesIn(ch[j]) \ Dots <=>
              \E p \in Ents(fat, sector, d) : p[1] = ch[j] /\ x = Ent(sector, p).name
         /\ \A p \in Ents(fat, sector, d) : \E j \in 1..Len(ch) : p[1] = ch[j]
         /\ \A p, q \in Ents(fat, sector, d) : Ent(sector, p).name = Ent(sector, q).name => p = q
<1>1. /\ Vol(fat, sector, DOMAIN tree, {}) /\ d \in DOMAIN tree /\ Chained(fat, d)
  BY UntouchedIs
<1>2. InChain(fat, d) = {ch[k] : k \in 1..Len(ch)}
  BY <1>1, ChainFacts
<1>3. ASSUME NEW j \in 1..Len(ch), NEW x, x \in NamesIn(ch[j]) \ Dots
      PROVE  \E p \in Ents(fat, sector, d) : p[1] = ch[j] /\ x = Ent(sector, p).name
  <2>1. PICK i \in 1..Slots : Live(Ent(sector, <<ch[j], i>>)) /\ x = Ent(sector, <<ch[j], i>>).name
    BY <1>3 DEF NamesIn
  <2>2. PICK p : p = <<ch[j], i>>
    OBVIOUS
  <2>3. p \in Places(fat, d)
    BY <1>2, <2>2 DEF Places
  <2>4. p \in Ents(fat, sector, d)
    BY <1>3, <2>1, <2>2, <2>3, EntIn
  <2>. QED
    BY <2>1, <2>2, <2>4
<1>4. ASSUME NEW p \in Ents(fat, sector, d)  PROVE Ent(sector, p).name \in NamesIn(p[1]) \ Dots
  <2>1. Live(Ent(sector, p)) /\ Ent(sector, p).name \notin Dots /\ p[2] \in 1..Slots /\ p = <<p[1], p[2]>>
    BY EntIn
  <2>. QED
    BY <2>1 DEF NamesIn
<1>5. ASSUME NEW p \in Ents(fat, sector, d)  PROVE \E j \in 1..Len(ch) : p[1] = ch[j]
  <2>1. p[1] \in InChain(fat, d)
    BY EntIn
  <2>. QED
    BY <1>2, <2>1
<1>6. \A p, q \in Ents(fat, sector, d) : Ent(sector, p).name = Ent(sector, q).name => p = q
  BY <1>1 DEF Vol, DirsOK
<1>. QED
  BY <1>3, <1>4, <1>5, <1>6

\* The files of the tree, block by block.
LEMMA FileIs ==
  ASSUME Untouched, NEW d, d = cwd.cluster, NEW p \in Ents(fat, sector, d), Ent(sector, p).attr = "file"
  PROVE  LET e  == Ent(sector, p)
             ch == Chain(fat, e.first)
         IN  /\ Chained(fat, e.first) /\ e.size \in Nat
             /\ Len(ch) = (IF e.size = 0 THEN 1 ELSE e.size)
             /\ tree[d][e.name].data = [k \in 1..e.size |-> sector[ch[k]]]
<1>. DEFINE e  == Ent(sector, p)
            ch == Chain(fat, e.first)
<1>1. /\ Vol(fat, sector, DOMAIN tree, {}) /\ d \in DOMAIN tree /\ tree = TreeOf(fat, sector)
  BY UntouchedIs
<1>2. Chained(fat, e.first) /\ e.size \in Nat
  BY <1>1, DirFacts
<1>3. Len(ch) = (IF e.size = 0 THEN 1 ELSE e.size)
  BY <1>1 DEF Vol, SizesOK
<1>4. tree[d][e.name] = NodeOf(fat, sector, e)
  BY <1>1, TreeShown DEF Shows
<1>. HIDE DEF e
<1>5. Data(fat, sector, e) = [k \in 1..(IF e.size < Len(ch) THEN e.size ELSE Len(ch)) |-> sector[ch[k]]]
  BY DEF Data
<1>. HIDE DEF ch
<1>6. (IF e.size < Len(ch) THEN e.size ELSE Len(ch)) = e.size
  BY <1>2, <1>3
<1>7. tree[d][e.name].data = Data(fat, sector, e)
  BY <1>4 DEF NodeOf, e
<1>8. tree[d][e.name].data = [k \in 1..e.size |-> sector[ch[k]]]
  BY <1>5, <1>6, <1>7
<1>. QED
  BY <1>2, <1>3, <1>8 DEF e, ch

\* Sequences that are given element by element.
LEMMA OneMoreRead ==
  ASSUME NEW m \in Nat, NEW h, NEW g, g = [k \in 1..m |-> h[k]]
  PROVE  /\ Len(g) = m
         /\ Append(g, h[m + 1]) = [k \in 1..m + 1 |-> h[k]]
<1>1. g \in Seq({h[k] : k \in 1..m}) /\ Len(g) = m
  OBVIOUS
<1>2. PICK s : s = Append(g, h[m + 1])
  OBVIOUS
<1>3. /\ s \in Seq({h[k] : k \in 1..m} \cup {h[m + 1]}) /\ Len(s) = m + 1
      /\ \A k \in 1..m : s[k] = g[k] /\ s[m + 1] = h[m + 1]
  BY <1>1, <1>2
<1>. QED
  BY <1>1, <1>2, <1>3

LEMMA StartOf ==
  ASSUME NEW m \in Nat, NEW n \in Nat, m <= n, NEW h, NEW g, g = [k \in 1..m |-> h[k]],
         NEW data, data = [k \in 1..n |-> h[k]]
  PROVE  Len(data) = n /\ SubSeq(data, 1, m) = g
<1>1. data \in Seq({h[k] : k \in 1..n}) /\ Len(data) = n
  OBVIOUS
<1>2. SubSeq(data, 1, m) = [k \in 1..m |-> data[k]]
  BY <1>1
<1>3. \A k \in 1..m : data[k] = h[k]
  OBVIOUS
<1>. QED
  BY <1>1, <1>2, <1>3

\* A read that has ended has what the buffer has room for.
LEMMA ReadAnswers ==
  ASSUME Untouched, NEW o, o.pc = "read", Answering(o), o.cur \notin Clusters \/ o.size = 0
  PROVE  LET data == tree[o.dir][o.name].data
         IN  o.got = SubSeq(data, 1, IF Len(data) < o.arg THEN Len(data) ELSE o.arg)
<1>1. o.dir = cwd.cluster /\ o.arg \in Nat /\ Reading(o)
  BY DEF Answering
<1>2. PICK p \in Ents(fat, sector, o.dir) :
        /\ Ent(sector, p).name = o.name /\ Ent(sector, p).attr = "file"
        /\ \E m \in 0..Ent(sector, p).size :
             /\ m <= o.arg /\ o.size = Ent(sector, p).size - m
             /\ o.got = [k \in 1..m |-> sector[Chain(fat, Ent(sector, p).first)[k]]]
             /\ \/ m = o.arg
                \/ o.cur = (IF m < Len(Chain(fat, Ent(sector, p).first))
                             THEN Chain(fat, Ent(sector, p).first)[m + 1] ELSE EOC)
  BY <1>1 DEF Reading
<1>3. PICK n, ch, data : /\ n = Ent(sector, p).size /\ ch = Chain(fat, Ent(sector, p).first)
                         /\ data = tree[o.dir][o.name].data
  OBVIOUS
<1>4. /\ Chained(fat, Ent(sector, p).first) /\ n \in Nat
      /\ Len(ch) = (IF n = 0 THEN 1 ELSE n)
      /\ data = [k \in 1..n |-> sector[ch[k]]]
  BY <1>1, <1>2, <1>3, FileIs
<1>5. PICK m \in 0..n : /\ m <= o.arg /\ o.size = n - m /\ o.got = [k \in 1..m |-> sector[ch[k]]]
                        /\ m = o.arg \/ o.cur = (IF m < Len(ch) THEN ch[m + 1] ELSE EOC)
  BY <1>2, <1>3
<1>6. m = o.arg \/ m = n
  <2>1. CASE o.size = 0
    BY <1>4, <1>5, <2>1
  <2>2. CASE o.cur \notin Clusters /\ m # o.arg
    <3>1. ~(m < Len(ch))
      <4>1. \A k \in 1..Len(ch) : ch[k] \in Clusters
        BY <1>3, <1>4, ChainFacts
      <4>2. Len(ch) \in Nat /\ (m < Len(ch) => m + 1 \in 1..Len(ch))
        BY <1>4, <1>5
      <4>. QED
        BY <1>5, <2>2, <4>1, <4>2
    <3>. QED
      BY <1>4, <1>5, <3>1
  <2>. QED
    BY <2>1, <2>2
<1>7. PICK h : h = [k \in 1..n |-> sector[ch[k]]]
  OBVIOUS
<1>8. m \in Nat /\ m <= n /\ o.got = [k \in 1..m |-> h[k]] /\ data = [k \in 1..n |-> h[k]]
  <2>1. m \in Nat /\ m <= n /\ \A k \in 1..m : k \in 1..n
    BY <1>4, <1>5
  <2>2. \A k \in 1..n : h[k] = sector[ch[k]]
    BY <1>7
  <2>. QED
    BY <1>4, <1>5, <2>1, <2>2
<1>9. Len(data) = n /\ SubSeq(data, 1, m) = o.got
  BY <1>4, <1>8, StartOf
<1>10. (IF Len(data) < o.arg THEN Len(data) ELSE o.arg) = m
  BY <1>1, <1>4, <1>5, <1>6, <1>9
<1>. QED
  BY <1>3, <1>9, <1>10

\* A listing that has ended has every name once.
LEMMA ListAnswers ==
  ASSUME Untouched, NEW o, o.pc = "list", Answering(o), o.cur \notin Clusters
  PROVE  /\ UNION {Flat(o.got)[k] : k \in DOMAIN o.got} = DOMAIN tree[o.dir]
         /\ \A j, k \in DOMAIN o.got : j # k => Flat(o.got)[j] \cap Flat(o.got)[k] = {}
<1>1. o.dir = cwd.cluster /\ Listing(o)
  BY DEF Answering
<1>2. PICK d, ch : d = o.dir /\ ch = Chain(fat, d)
  OBVIOUS
<1>3. PICK n \in 0..Len(ch) : /\ o.got = [j \in 1..n |-> NamesIn(ch[j])]
                              /\ o.cur = (IF n < Len(ch) THEN ch[n + 1] ELSE EOC)
  BY <1>1, <1>2 DEF Listing
<1>4. /\ Vol(fat, sector, DOMAIN tree, {}) /\ d \in DOMAIN tree /\ Chained(fat, d)
      /\ tree = TreeOf(fat, sector) /\ d = cwd.cluster
  BY <1>1, <1>2, UntouchedIs
<1>5. /\ Len(ch) \in Nat /\ \A k \in 1..Len(ch) : ch[k] \in Clusters
      /\ \A j, k \in 1..Len(ch) : ch[j] = ch[k] => j = k
  BY <1>2, <1>4, ChainFacts
<1>6. n = Len(ch)
  <2>1. n < Len(ch) => n + 1 \in 1..Len(ch)
    BY <1>3, <1>5
  <2>. QED
    BY <1>3, <1>5, <2>1
<1>7. /\ \A j \in 1..n : \A x : x \in NamesIn(ch[j]) \ Dots <=>
           \E p \in Ents(fat, sector, d) : p[1] = ch[j] /\ x = Ent(sector, p).name
      /\ \A p \in Ents(fat, sector, d) : \E j \in 1..n : p[1] = ch[j]
      /\ \A p, q \in Ents(fat, sector, d) : Ent(sector, p).name = Ent(sector, q).name => p = q
  <2>1. /\ \A j \in 1..Len(ch) : \A x : x \in NamesIn(ch[j]) \ Dots <=>
              \E p \in Ents(fat, sector, d) : p[1] = ch[j] /\ x = Ent(sector, p).name
        /\ \A p \in Ents(fat, sector, d) : \E j \in 1..Len(ch) : p[1] = ch[j]
        /\ \A p, q \in Ents(fat, sector, d) : Ent(sector, p).name = Ent(sector, q).name => p = q
    BY <1>2, <1>4, NamesAre
  <2>. QED
    BY <1>6, <2>1
<1>8. \A x : x \in DOMAIN tree[d] <=> \E p \in Ents(fat, sector, d) : x = Ent(sector, p).name
  BY <1>4, TreeIs
<1>9. DOMAIN o.got = 1..n /\ \A j \in 1..n : Flat(o.got)[j] = NamesIn(ch[j]) \ Dots
  BY <1>3 DEF Flat
<1>10. UNION {Flat(o.got)[k] : k \in DOMAIN o.got} = DOMAIN tree[d]
  <2>1. ASSUME NEW x, NEW j \in 1..n, x \in NamesIn(ch[j]) \ Dots  PROVE x \in DOMAIN tree[d]
    BY <1>7, <1>8, <2>1
  <2>2. ASSUME NEW x \in DOMAIN tree[d]  PROVE \E j \in 1..n : x \in NamesIn(ch[j]) \ Dots
    <3>1. PICK p \in Ents(fat, sector, d) : x = Ent(sector, p).name
      BY <1>8
    <3>2. PICK j \in 1..n : p[1] = ch[j]
      BY <1>7
    <3>. QED
      BY <1>7, <3>1, <3>2
  <2>3. UNION {Flat(o.got)[k] : k \in DOMAIN o.got} = UNION {NamesIn(ch[j]) \ Dots : j \in 1..n}
    BY <1>9
  <2>. QED
    BY <2>1, <2>2, <2>3
<1>11. ASSUME NEW j \in 1..n, NEW k \in 1..n, NEW x, x \in NamesIn(ch[j]) \ Dots, x \in NamesIn(ch[k]) \ Dots
       PROVE  j = k
  <2>1. PICK p \in Ents(fat, sector, d) : p[1] = ch[j] /\ x = Ent(sector, p).name
    BY <1>7, <1>11
  <2>2. PICK q \in Ents(fat, sector, d) : q[1] = ch[k] /\ x = Ent(sector, q).name
    BY <1>7, <1>11
  <2>3. p = q
    BY <1>7, <2>1, <2>2
  <2>. QED
    BY <1>5, <1>6, <2>1, <2>2, <2>3
<1>. QED
  BY <1>2, <1>9, <1>10, <1>11

-----------------------------------------------------------------------------
(***************************************************************************)
(* Steps, and what they may answer.                                        *)
(***************************************************************************)
Answers(c) ==
  /\ op[c].kind = "read" =>
       LET data == tree[op[c].dir][op[c].name].data
       IN  op[c].got = SubSeq(data, 1, IF Len(data) < op[c].arg THEN Len(data) ELSE op[c].arg)
  /\ op[c].kind = "readdir" =>
       /\ UNION {Flat(op[c].got)[k] : k \in DOMAIN op[c].got} = DOMAIN tree[op[c].dir]
       /\ \A j, k \in DOMAIN op[c].got : j # k => Flat(op[c].got)[j] \cap Flat(op[c].got)[k] = {}
Answered == AnswerInv' /\ \A c \in Callers : Succeeded(c) => Answers(c)

\* The call goes on, ...
LEMMA GoesAnswered ==
  ASSUME NEW c \in Callers, \A d \in Callers \ {c} : op[d].pc = "idle" /\ op'[d].pc = "idle",
         op'[c].pc # "idle", Answering(op[c])'
  PROVE  Answered
<1>1. AnswerInv'
  <2>1. ASSUME NEW d \in Callers  PROVE op'[d].pc = "idle" \/ Answering(op[d])'
    <3>1. CASE d = c
      BY <3>1
    <3>2. CASE d # c
      BY <3>2
    <3>. QED
      BY <3>1, <3>2
  <2>. QED
    BY <2>1 DEF AnswerInv
<1>2. ASSUME NEW d \in Callers  PROVE ~Succeeded(d)
  BY DEF Succeeded, Idle
<1>. QED
  BY <1>1, <1>2 DEF Answered

\* ... or returns.
LEMMA BackAnswered ==
  ASSUME FatInv, Events = {}, NEW c \in Callers, MayRun(c), op[c].pc # "idle", NEW ok, Return(c, ok),
         ok = FALSE \/ Answers(c)
  PROVE  Answered
<1>1. DOMAIN op = Callers
  BY DEF FatInv
<1>2. \A d \in Callers \ {c} : op[d].pc = "idle"
  BY Alone
<1>3. op'[c] = Idle(ok) /\ \A d \in Callers : op'[d].pc = "idle"
  BY <1>1, <1>2 DEF Return, Idle
<1>4. AnswerInv'
  BY <1>3 DEF AnswerInv
<1>5. \A d \in Callers \ {c} : ~Succeeded(d)
  BY <1>2 DEF Succeeded
<1>6. ok = FALSE => ~Succeeded(c)
  BY <1>3 DEF Succeeded, Idle
<1>. QED
  BY <1>4, <1>5, <1>6 DEF Answered

\* The call goes on with something else than a read or a listing.
LEMMA ElseAnswered ==
  ASSUME FatInv, Events = {}, NEW c \in Callers, MayRun(c), op[c].pc # "idle",
         NEW at, DOMAIN at \subseteq Fields, Goto(c, at),
         op'[c].pc \notin {"read", "list", "find", "entry", "idle"}
           \/ (op'[c].pc \in {"find", "entry"} /\ op'[c].kind # "read")
  PROVE  Answered
<1>1. \A d \in Callers \ {c} : op'[d].pc = "idle"
  BY GoesOn
<1>2. \A d \in Callers \ {c} : op[d].pc = "idle"
  BY Alone
<1>3. op'[c].pc # "idle" /\ Answering(op[c])'
  BY DEF Answering
<1>. QED
  BY <1>1, <1>2, <1>3, GoesAnswered

\* A search goes on with what was asked.
LEMMA SearchAnswered ==
  ASSUME FatInv, AnswerInv, Events = {}, NEW c \in Callers, MayRun(c), op[c].pc = "find",
         NEW at, DOMAIN at \subseteq {"pc", "cur", "idx"}, Goto(c, at), op'[c].pc \in {"find", "entry"}
  PROVE  Answered
<1>1. DOMAIN at \subseteq Fields /\ {"kind", "got", "arg"} \subseteq Fields \ DOMAIN at
  BY FieldsAre
<1>2. /\ \A d \in Callers \ {c} : op'[d].pc = "idle"
      /\ \A x \in Fields \ DOMAIN at : op'[c][x] = op[c][x]
  BY <1>1, GoesOn
<1>3. op'[c]["kind"] = op[c]["kind"] /\ op'[c]["got"] = op[c]["got"] /\ op'[c]["arg"] = op[c]["arg"]
  BY <1>1, <1>2
<1>4. Answering(op[c])
  BY DEF AnswerInv
<1>5. Answering(op[c])' /\ op'[c].pc # "idle"
  BY <1>3, <1>4 DEF Answering
<1>6. \A d \in Callers \ {c} : op[d].pc = "idle"
  BY Alone
<1>. QED
  BY <1>2, <1>5, <1>6, GoesAnswered

LEMMA CallsAnswer ==
  ASSUME FatInv, Events = {}, NEW c \in Callers,
         \/ CallWrite(c) \/ CallMkdir(c) \/ CallDelete(c) \/ CallRename(c)
         \/ CallRead(c) \/ CallReaddir(c) \/ CallChdir(c)
  PROVE  Answered
<1>. DEFINE Begins(kind, n, arg, label) ==
              /\ Begin(c, kind, n, arg, label) /\ UNCHANGED <<fat, disk_fat, sector, cwd, tree>>
              /\ label \in {"find", "walk", "list"} /\ (kind = "read" => arg \in Nat)
<1>1. \E kind, n, arg, label : Begins(kind, n, arg, label)
  <2>1. CallWrite(c) => \E n, data : Begins("write", n, data, "find")
    BY DEF CallWrite
  <2>2. CallMkdir(c) => \E n : Begins("mkdir", n, <<>>, "find")
    BY DEF CallMkdir
  <2>3. CallDelete(c) => \E n : Begins("delete", n, <<>>, "find")
    BY DEF CallDelete
  <2>4. CallRename(c) => \E n, new : Begins("rename", n, new, "find")
    BY DEF CallRename
  <2>5. CallRead(c) => \E n, room : Begins("read", n, room, "find")
    BY Geometry DEF CallRead
  <2>6. CallReaddir(c) => Begins("readdir", "", <<>>, "list")
    BY DEF CallReaddir
  <2>7. CallChdir(c) => \E path : Begins("chdir", "", path, "walk")
    BY DEF CallChdir
  <2>. HIDE DEF Begins
  <2>. QED
    BY <2>1, <2>2, <2>3, <2>4, <2>5, <2>6, <2>7
<1>2. PICK kind, n, arg, label :
        /\ Begin(c, kind, n, arg, label) /\ UNCHANGED <<fat, disk_fat, sector, cwd, tree>>
        /\ label \in {"find", "walk", "list"} /\ (kind = "read" => arg \in Nat)
  BY <1>1
<1>3. label # "idle" /\ MayRun(c)
  BY <1>2 DEF Begin
<1>4. /\ Untouched /\ UNCHANGED Volatile
      /\ \A d \in Callers \ {c} : op'[d].pc = "idle"
      /\ op'[c].pc = label /\ Fresh(op'[c], kind, n, arg, cwd.cluster)
  BY <1>2, <1>3, Begun
<1>5. \A d \in Callers \ {c} : op[d].pc = "idle"
  BY <1>3, Alone
<1>6. /\ op'[c].kind = kind /\ op'[c].arg = arg /\ op'[c].dir = cwd.cluster /\ op'[c].cur = cwd.cluster
      /\ op'[c].got = <<>> /\ cwd' = cwd
  BY <1>4 DEF Fresh, Volatile
<1>7. Listing(op[c])'
  <2>1. Chained(fat, cwd.cluster) /\ fat' = fat
    BY <1>4, UntouchedIs DEF Volatile
  <2>2. Chain(fat', cwd.cluster)[1] = cwd.cluster /\ Len(Chain(fat', cwd.cluster)) \in Nat
        /\ Len(Chain(fat', cwd.cluster)) >= 1
    BY <2>1, ChainFacts
  <2>3. PICK ch : ch = Chain(fat', cwd.cluster)
    OBVIOUS
  <2>4. 0 \in 0..Len(ch) /\ 0 < Len(ch) /\ ch[0 + 1] = cwd.cluster
    BY <2>2, <2>3
  <2>5. op'[c].got = [j \in 1..0 |-> NamesIn(ch[j])']
    BY <1>6
  <2>. QED
    BY <1>6, <2>3, <2>4, <2>5 DEF Listing
<1>8. Answering(op[c])'
  BY <1>2, <1>4, <1>6, <1>7 DEF Answering
<1>. QED
  BY <1>3, <1>4, <1>5, <1>8, GoesAnswered

LEMMA FindEntryAnswers ==
  ASSUME FatInv, AnswerInv, Events = {}, NEW c \in Callers, FindEntry(c)  PROVE Answered
<1>1. op[c].pc = "find" /\ MayRun(c)
  BY DEF FindEntry, At
<1>2. ASSUME NEW at, DOMAIN at \subseteq {"pc", "cur", "idx"}, Goto(c, at),
             "pc" \in DOMAIN at => at["pc"] \in {"entry", "data", "newdir"}
      PROVE  Answered
  <2>1. DOMAIN at \subseteq Fields /\ "pc" \in Fields
    BY <1>2, FieldsAre
  <2>2. op'[c]["pc"] = IF "pc" \in DOMAIN at THEN at["pc"] ELSE op[c]["pc"]
    BY <1>1, <1>2, <2>1, GoesOn
  <2>3. CASE op'[c].pc \in {"find", "entry"}
    BY <1>1, <1>2, <2>3, SearchAnswered
  <2>4. CASE op'[c].pc \in {"data", "newdir"}
    BY <1>1, <1>2, <2>1, <2>4, ElseAnswered
  <2>. QED
    BY <1>1, <1>2, <2>2, <2>3, <2>4
<1>3. \/ Return(c, FALSE) \/ (\E x : Goto(c, [pc |-> "entry", idx |-> x])) \/ (\E x : Goto(c, [cur |-> x]))
      \/ Goto(c, [pc |-> "data"]) \/ Goto(c, [pc |-> "newdir"])
  BY DEF FindEntry, NotFound
<1>4. \A x : \A at : at \in {[pc |-> "entry", idx |-> x], [cur |-> x], [pc |-> "data"], [pc |-> "newdir"]} =>
        /\ DOMAIN at \subseteq {"pc", "cur", "idx"}
        /\ "pc" \in DOMAIN at => at["pc"] \in {"entry", "data", "newdir"}
  OBVIOUS
<1>5. Return(c, FALSE) \/ \E at : /\ DOMAIN at \subseteq {"pc", "cur", "idx"} /\ Goto(c, at)
                                  /\ "pc" \in DOMAIN at => at["pc"] \in {"entry", "data", "newdir"}
  BY <1>3, <1>4
<1>. QED
  BY <1>1, <1>2, <1>5, BackAnswered

\* The entry is a file's: its first block is next.
LEMMA OpenFileAnswers ==
  ASSUME FatInv, AnswerInv, Events = {}, NEW c \in Callers, OpenFile(c)  PROVE Answered
<1>1. /\ op[c].pc = "entry" /\ MayRun(c) /\ UNCHANGED Volatile /\ op[c].kind = "read"
      /\ Found(c).attr = "file"
  BY DEF OpenFile, ReadEntry, At, Volatile
<1>. DEFINE at == [pc |-> "read", cur |-> Found(c).first, size |-> Found(c).size]
<1>2. /\ DOMAIN at \subseteq Fields /\ {"kind", "dir", "name", "got", "arg"} \subseteq Fields \ DOMAIN at
      /\ {"pc", "cur", "size"} \subseteq DOMAIN at /\ Goto(c, at)
      /\ at["pc"] = "read" /\ at["cur"] = Found(c).first /\ at["size"] = Found(c).size
  BY FieldsAre DEF OpenFile
<1>. HIDE DEF at
<1>3. /\ op'[c]["pc"] = "read" /\ op'[c]["cur"] = Found(c).first /\ op'[c]["size"] = Found(c).size
      /\ op'[c]["dir"] = op[c]["dir"] /\ op'[c]["name"] = op[c]["name"]
      /\ op'[c]["got"] = op[c]["got"] /\ op'[c]["arg"] = op[c]["arg"]
      /\ \A d \in Callers \ {c} : op'[d].pc = "idle"
  BY <1>1, <1>2, GoesOn
<1>4. op[c].got = <<>> /\ op[c].arg \in Nat
  BY <1>1 DEF AnswerInv, Answering
<1>5. /\ Untouched /\ Asked(op[c]) /\ Hit(op[c]) /\ Found(c) = Ent(sector, At2(op[c]))
      /\ Found(c).name = op[c].name
  BY <1>1, EntryFacts
<1>6. op[c].dir = cwd.cluster
  BY <1>1, <1>5 DEF Asked
<1>7. PICK p : p = At2(op[c])
  OBVIOUS
<1>8. /\ p \in Ents(fat, sector, cwd.cluster) /\ Ent(sector, p).attr = "file" /\ Ent(sector, p) = Found(c)
      /\ Ent(sector, p).name = op[c].name
  BY <1>1, <1>5, <1>7 DEF Hit
<1>9. Chained(fat, Found(c).first) /\ Found(c).size \in Nat
  BY <1>5, <1>8, FileIs
<1>10. PICK ch : ch = Chain(fat, Found(c).first)
  OBVIOUS
<1>11. Len(ch) \in Nat /\ 0 < Len(ch) /\ ch[0 + 1] = Found(c).first
  BY <1>9, <1>10, ChainFacts
<1>12. fat' = fat /\ sector' = sector /\ cwd' = cwd
  BY <1>1 DEF Volatile
<1>13. /\ 0 \in 0..Found(c).size /\ 0 <= op'[c].arg /\ op'[c].size = Found(c).size - 0
       /\ op'[c].got = [k \in 1..0 |-> sector[ch[k]]]
       /\ op'[c].cur = (IF 0 < Len(ch) THEN ch[0 + 1] ELSE EOC)
  BY <1>3, <1>4, <1>9, <1>11
<1>14. Reading(op[c])'
  BY <1>3, <1>6, <1>8, <1>10, <1>12, <1>13 DEF Reading
<1>15. Answering(op[c])' /\ op'[c].pc # "idle"
  BY <1>3, <1>4, <1>6, <1>12, <1>14 DEF Answering
<1>16. \A d \in Callers \ {c} : op[d].pc = "idle"
  BY <1>1, Alone
<1>. QED
  BY <1>3, <1>15, <1>16, GoesAnswered

LEMMA ReadEndAnswers ==
  ASSUME FatInv, TreeInv, AnswerInv, Events = {}, NEW c \in Callers, ReadEnd(c)  PROVE Answered
<1>1. /\ op[c].pc = "read" /\ MayRun(c) /\ Return(c, TRUE) /\ (op[c].cur \notin Clusters \/ op[c].size = 0)
  BY DEF ReadEnd, At
<1>2. Untouched /\ op[c].kind = "read" /\ Answering(op[c])
  BY <1>1 DEF FatInv, Phase, TreeInv, Shown, AnswerInv
<1>3. PICK o : o = op[c]
  OBVIOUS
<1>4. LET data == tree[o.dir][o.name].data
      IN  o.got = SubSeq(data, 1, IF Len(data) < o.arg THEN Len(data) ELSE o.arg)
  BY <1>1, <1>2, <1>3, ReadAnswers
<1>5. Answers(c)
  BY <1>2, <1>3, <1>4 DEF Answers
<1>. QED
  BY <1>1, <1>5, BackAnswered

LEMMA ListEndAnswers ==
  ASSUME FatInv, TreeInv, AnswerInv, Events = {}, NEW c \in Callers, ListEnd(c)  PROVE Answered
<1>1. op[c].pc = "list" /\ MayRun(c) /\ Return(c, TRUE) /\ op[c].cur \notin Clusters
  BY DEF ListEnd, At
<1>2. Untouched /\ op[c].kind = "readdir" /\ Answering(op[c])
  BY <1>1 DEF FatInv, Phase, TreeInv, Shown, AnswerInv
<1>3. PICK o : o = op[c]
  OBVIOUS
<1>4. /\ UNION {Flat(o.got)[k] : k \in DOMAIN o.got} = DOMAIN tree[o.dir]
      /\ \A j, k \in DOMAIN o.got : j # k => Flat(o.got)[j] \cap Flat(o.got)[k] = {}
  BY <1>1, <1>2, <1>3, ListAnswers
<1>5. Answers(c)
  BY <1>2, <1>3, <1>4 DEF Answers
<1>. QED
  BY <1>1, <1>5, BackAnswered

\* A block more, or, when the buffer is full, none.
LEMMA ReadBlockAnswers ==
  ASSUME FatInv, AnswerInv, Events = {}, NEW c \in Callers, ReadBlock(c)  PROVE Answered
<1>1. /\ op[c].pc = "read" /\ MayRun(c) /\ UNCHANGED Volatile
      /\ op[c].cur \in Clusters /\ op[c].size > 0
  BY DEF ReadBlock, At, Volatile
<1>2. Untouched /\ op[c].dir = cwd.cluster /\ op[c].arg \in Nat /\ Reading(op[c])
  BY <1>1 DEF FatInv, Phase, AnswerInv, Answering
<1>3. PICK p \in Ents(fat, sector, op[c].dir) :
        /\ Ent(sector, p).name = op[c].name /\ Ent(sector, p).attr = "file"
        /\ \E m \in 0..Ent(sector, p).size :
             /\ m <= op[c].arg /\ op[c].size = Ent(sector, p).size - m
             /\ op[c].got = [k \in 1..m |-> sector[Chain(fat, Ent(sector, p).first)[k]]]
             /\ \/ m = op[c].arg
                \/ op[c].cur = (IF m < Len(Chain(fat, Ent(sector, p).first))
                                 THEN Chain(fat, Ent(sector, p).first)[m + 1] ELSE EOC)
  BY <1>2 DEF Reading
<1>4. PICK n, ch, h : /\ n = Ent(sector, p).size /\ ch = Chain(fat, Ent(sector, p).first)
                      /\ h = [k \in 1..n |-> sector[ch[k]]]
  OBVIOUS
<1>5. Chained(fat, Ent(sector, p).first) /\ n \in Nat /\ Len(ch) = (IF n = 0 THEN 1 ELSE n)
  BY <1>2, <1>3, <1>4, FileIs
<1>6. PICK m \in 0..n : /\ m <= op[c].arg /\ op[c].size = n - m /\ op[c].got = [k \in 1..m |-> sector[ch[k]]]
                        /\ m = op[c].arg \/ op[c].cur = (IF m < Len(ch) THEN ch[m + 1] ELSE EOC)
  BY <1>3, <1>4
<1>7. m \in Nat /\ m < n /\ n = Len(ch) /\ m + 1 \in 1..n /\ m + 1 \in 0..n
  BY <1>1, <1>5, <1>6
<1>8. op[c].got = [k \in 1..m |-> h[k]]
  <2>1. \A k \in 1..m : k \in 1..n
    BY <1>5, <1>7
  <2>. QED
    BY <1>4, <1>6, <2>1
<1>9. Len(op[c].got) = m /\ Append(op[c].got, h[m + 1]) = [k \in 1..m + 1 |-> h[k]]
  BY <1>7, <1>8, OneMoreRead
<1>10. fat' = fat /\ sector' = sector /\ cwd' = cwd
  BY <1>1 DEF Volatile
<1>11. \A d \in Callers \ {c} : op[d].pc = "idle"
  BY <1>1, Alone
<1>12. ASSUME NEW at, DOMAIN at \subseteq {"got", "size", "cur"}, Goto(c, at)
       PROVE  /\ \A d \in Callers \ {c} : op'[d].pc = "idle"
              /\ op'[c]["pc"] = "read" /\ op'[c]["dir"] = op[c]["dir"] /\ op'[c]["name"] = op[c]["name"]
              /\ op'[c]["arg"] = op[c]["arg"]
              /\ \A x \in {"got", "size", "cur"} : op'[c][x] = IF x \in DOMAIN at THEN at[x] ELSE op[c][x]
  <2>1. DOMAIN at \subseteq Fields /\ {"pc", "dir", "name", "arg"} \subseteq Fields \ DOMAIN at
        /\ {"got", "size", "cur"} \subseteq Fields
    BY <1>12, FieldsAre
  <2>2. /\ \A d \in Callers \ {c} : op'[d].pc = "idle"
        /\ \A x \in DOMAIN at : op'[c][x] = at[x]
        /\ \A x \in Fields \ DOMAIN at : op'[c][x] = op[c][x]
    BY <1>1, <1>12, <2>1, GoesOn
  <2>3. /\ op'[c]["pc"] = op[c]["pc"] /\ op'[c]["dir"] = op[c]["dir"] /\ op'[c]["name"] = op[c]["name"]
        /\ op'[c]["arg"] = op[c]["arg"]
    BY <2>1, <2>2
  <2>4. ASSUME NEW x \in {"got", "size", "cur"}  PROVE op'[c][x] = IF x \in DOMAIN at THEN at[x] ELSE op[c][x]
    BY <2>1, <2>2
  <2>. QED
    BY <1>1, <2>2, <2>3, <2>4
<1>13. ASSUME op'[c].pc = "read", op'[c].dir = op[c].dir, op'[c].name = op[c].name, op'[c].arg = op[c].arg,
              \A d \in Callers \ {c} : op'[d].pc = "idle",
              NEW q \in 0..n, q <= op[c].arg, op'[c].size = n - q, op'[c].got = [k \in 1..q |-> sector[ch[k]]],
              q = op[c].arg \/ op'[c].cur = (IF q < Len(ch) THEN ch[q + 1] ELSE EOC)
       PROVE  Answered
  <2>1. Reading(op[c])'
    BY <1>3, <1>4, <1>10, <1>13 DEF Reading
  <2>2. Answering(op[c])' /\ op'[c].pc # "idle"
    BY <1>2, <1>10, <1>13, <2>1 DEF Answering
  <2>. QED
    BY <1>11, <1>13, <2>2, GoesAnswered
<1>14. CASE Len(op[c].got) < op[c].arg
  <2>. DEFINE at == [got |-> Append(op[c].got, sector[op[c].cur]),
                     size |-> op[c].size - 1, cur |-> fat[op[c].cur]]
  <2>1. /\ Goto(c, at) /\ DOMAIN at = {"got", "size", "cur"}
        /\ at["got"] = Append(op[c].got, sector[op[c].cur]) /\ at["size"] = op[c].size - 1
        /\ at["cur"] = fat[op[c].cur]
    BY <1>14 DEF ReadBlock
  <2>. HIDE DEF at
  <2>2. /\ op'[c].got = Append(op[c].got, sector[op[c].cur]) /\ op'[c].size = op[c].size - 1
        /\ op'[c].cur = fat[op[c].cur]
    BY <1>12, <2>1
  <2>3. m # op[c].arg /\ op[c].cur = ch[m + 1] /\ m + 1 <= op[c].arg
    BY <1>2, <1>6, <1>7, <1>9, <1>14
  <2>4. h[m + 1] = sector[op[c].cur]
    BY <1>4, <1>7, <2>3
  <2>5. op'[c].got = [k \in 1..m + 1 |-> sector[ch[k]]]
    <3>1. \A k \in 1..m + 1 : k \in 1..n
      BY <1>5, <1>7
    <3>2. \A k \in 1..m + 1 : h[k] = sector[ch[k]]
      BY <1>4, <3>1
    <3>3. op'[c].got = [k \in 1..m + 1 |-> h[k]]
      BY <1>9, <2>2, <2>4
    <3>. QED
      BY <3>2, <3>3
  <2>6. op'[c].size = n - (m + 1)
    <3>1. (n - m) - 1 = n - (m + 1)
      BY <1>5, <1>7
    <3>. QED
      BY <1>6, <2>2, <3>1
  <2>7. op'[c].cur = (IF m + 1 < Len(ch) THEN ch[(m + 1) + 1] ELSE EOC)
    <3>1. /\ \A k \in 1..Len(ch) - 1 : fat[ch[k]] = ch[k + 1]
          /\ fat[ch[Len(ch)]] = EOC
      BY <1>4, <1>5, ChainFacts
    <3>2. (m + 1 < Len(ch) => m + 1 \in 1..Len(ch) - 1) /\ (~(m + 1 < Len(ch)) => m + 1 = Len(ch))
      BY <1>5, <1>7
    <3>. QED
      BY <2>2, <2>3, <3>1, <3>2
  <2>8. /\ op'[c].pc = "read" /\ op'[c].dir = op[c].dir /\ op'[c].name = op[c].name /\ op'[c].arg = op[c].arg
        /\ \A d \in Callers \ {c} : op'[d].pc = "idle"
    BY <1>12, <2>1
  <2>. QED
    BY <1>7, <1>13, <2>3, <2>5, <2>6, <2>7, <2>8
<1>15. CASE ~(Len(op[c].got) < op[c].arg)
  <2>. DEFINE at == [cur |-> fat[op[c].cur]]
  <2>1. Goto(c, at) /\ DOMAIN at = {"cur"}
    BY <1>15 DEF ReadBlock
  <2>. HIDE DEF at
  <2>2. op'[c].got = op[c].got /\ op'[c].size = op[c].size
    BY <1>12, <2>1
  <2>3. m = op[c].arg
    BY <1>2, <1>6, <1>7, <1>9, <1>15
  <2>4. /\ op'[c].pc = "read" /\ op'[c].dir = op[c].dir /\ op'[c].name = op[c].name /\ op'[c].arg = op[c].arg
        /\ \A d \in Callers \ {c} : op'[d].pc = "idle"
    BY <1>12, <2>1
  <2>. QED
    BY <1>6, <1>13, <2>2, <2>3, <2>4
<1>. QED
  BY <1>14, <1>15

\* A sector of the directory more.
EndsIn(a)  == Hits(sector[a], {"end"})
ListedIn(a) == {i \in Hits(sector[a], {"file", "dir"}) : \A j \in EndsIn(a) : i < j}
Listed(a)   == {sector[a][i].name : i \in ListedIn(a)}

LEMMA SectorNames ==
  ASSUME Untouched, NEW a \in InChain(fat, cwd.cluster)
  PROVE  Listed(a) = NamesIn(a) /\ (EndsIn(a) # {} => fat[a] = EOC)
<1>. DEFINE s    == sector[a]
            ends == EndsIn(a)
<1>1. TableOK(fat, sector, a) /\ s \in [1..Slots -> Entry]
  BY UntouchedIs
<1>2. ASSUME NEW j \in ends  PROVE j \in 1..Slots /\ s[j] = End
  <2>1. j \in 1..Slots /\ s[j].attr = "end"
    BY <1>2 DEF EndsIn, Hits
  <2>2. s[j] \in Entry /\ ~Live(s[j]) /\ Deleted.attr # "end"
    BY <1>1, <2>1 DEF Live, Deleted
  <2>. QED
    BY <2>1, <2>2, EntriesAre
<1>3. ends # {} => fat[a] = EOC
  BY <1>1, <1>2 DEF TableOK
<1>4. ASSUME NEW i \in 1..Slots, Live(s[i]), NEW j \in ends  PROVE i < j
  <2>1. j \in 1..Slots /\ s[j] = End
    BY <1>2, <1>4
  <2>2. \A k \in j..Slots : s[k] = End
    BY <1>1, <2>1 DEF TableOK
  <2>3. s[i] # End
    BY <1>4, EntriesAre
  <2>4. i \notin j..Slots
    BY <2>2, <2>3
  <2>5. i \in Nat /\ j \in Nat /\ i <= Slots
    BY <2>1, Consts
  <2>. QED
    BY <2>4, <2>5, Consts
<1>5. ListedIn(a) = {i \in 1..Slots : Live(s[i])}
  <2>1. \A i : i \in Hits(s, {"file", "dir"}) <=> i \in 1..Slots /\ Live(s[i])
    BY DEF Hits, Live
  <2>2. \A i : i \in ListedIn(a) <=> i \in Hits(s, {"file", "dir"}) /\ \A k \in ends : i < k
    BY DEF ListedIn
  <2>3. \A i \in 1..Slots : Live(s[i]) => \A k \in ends : i < k
    BY <1>4
  <2>. HIDE DEF ends, s
  <2>. QED
    BY <2>1, <2>2, <2>3
<1>6. NamesIn(a) = {s[i].name : i \in {j \in 1..Slots : Live(s[j])}}
  BY DEF NamesIn, Ent
<1>7. Listed(a) = {s[i].name : i \in {j \in 1..Slots : Live(s[j])}}
  BY <1>5 DEF Listed
<1>. QED
  BY <1>3, <1>6, <1>7

LEMMA ListSectorAnswers ==
  ASSUME FatInv, AnswerInv, Events = {}, NEW c \in Callers, ListSector(c)  PROVE Answered
<1>1. op[c].pc = "list" /\ MayRun(c) /\ UNCHANGED Volatile /\ op[c].cur \in Clusters
  BY DEF ListSector, At, Volatile
<1>2. Untouched /\ op[c].dir = cwd.cluster /\ Listing(op[c])
  BY <1>1 DEF FatInv, Phase, AnswerInv, Answering
<1>3. PICK ch : ch = Chain(fat, cwd.cluster)
  OBVIOUS
<1>4. PICK n \in 0..Len(ch) : /\ op[c].got = [j \in 1..n |-> NamesIn(ch[j])]
                              /\ op[c].cur = (IF n < Len(ch) THEN ch[n + 1] ELSE EOC)
  BY <1>2, <1>3 DEF Listing
<1>5. /\ Len(ch) \in Nat /\ InChain(fat, cwd.cluster) = {ch[k] : k \in 1..Len(ch)}
      /\ \A k \in 1..Len(ch) - 1 : fat[ch[k]] = ch[k + 1]
      /\ fat[ch[Len(ch)]] = EOC
  BY <1>2, <1>3, UntouchedIs, ChainFacts
<1>6. /\ n < Len(ch) /\ op[c].cur = ch[n + 1] /\ n + 1 \in 1..Len(ch) /\ n \in Nat /\ n + 1 \in 0..Len(ch)
      /\ op[c].cur \in InChain(fat, cwd.cluster)
  <2>1. n < Len(ch) /\ op[c].cur = ch[n + 1]
    BY <1>1, <1>4, Marks
  <2>2. n + 1 \in 1..Len(ch) /\ n \in Nat /\ n + 1 \in 0..Len(ch)
    BY <1>4, <1>5, <2>1
  <2>. QED
    BY <1>5, <2>1, <2>2
<1>7. Goto(c, [got |-> Append(op[c].got, Listed(op[c].cur)),
               cur |-> IF EndsIn(op[c].cur) = {} THEN fat[op[c].cur] ELSE EOC])
  BY DEF ListSector, Listed, ListedIn, EndsIn
<1>8. Listed(op[c].cur) = NamesIn(op[c].cur) /\ (EndsIn(op[c].cur) # {} => fat[op[c].cur] = EOC)
  BY <1>2, <1>6, SectorNames
<1>. DEFINE at == [got |-> Append(op[c].got, NamesIn(op[c].cur)), cur |-> fat[op[c].cur]]
<1>9. /\ Goto(c, at) /\ DOMAIN at = {"got", "cur"}
      /\ at["got"] = Append(op[c].got, NamesIn(op[c].cur)) /\ at["cur"] = fat[op[c].cur]
  <2>1. (IF EndsIn(op[c].cur) = {} THEN fat[op[c].cur] ELSE EOC) = fat[op[c].cur]
    BY <1>8
  <2>2. Goto(c, at)
    BY <1>7, <1>8, <2>1
  <2>. QED
    BY <2>2
<1>. HIDE DEF at
<1>10. DOMAIN at \subseteq Fields /\ {"pc", "dir"} \subseteq Fields \ DOMAIN at
  BY <1>9, FieldsAre
<1>11. /\ \A d \in Callers \ {c} : op'[d].pc = "idle"
       /\ op'[c]["got"] = Append(op[c].got, NamesIn(op[c].cur)) /\ op'[c]["cur"] = fat[op[c].cur]
       /\ op'[c]["pc"] = "list" /\ op'[c]["dir"] = op[c]["dir"]
  BY <1>1, <1>9, <1>10, GoesOn
<1>12. PICK h : h = [j \in 1..Len(ch) |-> NamesIn(ch[j])]
  OBVIOUS
<1>13. op[c].got = [j \in 1..n |-> h[j]]
  <2>1. \A j \in 1..n : j \in 1..Len(ch)
    BY <1>5, <1>6
  <2>. QED
    BY <1>4, <1>12, <2>1
<1>14. Append(op[c].got, h[n + 1]) = [j \in 1..n + 1 |-> h[j]]
  BY <1>6, <1>13, OneMoreRead
<1>15. op'[c].got = [j \in 1..n + 1 |-> NamesIn(ch[j])]
  <2>1. \A j \in 1..n + 1 : j \in 1..Len(ch)
    BY <1>5, <1>6
  <2>2. \A j \in 1..n + 1 : h[j] = NamesIn(ch[j])
    BY <1>12, <2>1
  <2>3. h[n + 1] = NamesIn(op[c].cur)
    BY <1>6, <1>12
  <2>4. op'[c].got = [j \in 1..n + 1 |-> h[j]]
    BY <1>11, <1>14, <2>3
  <2>. QED
    BY <2>2, <2>4
<1>16. op'[c].cur = (IF n + 1 < Len(ch) THEN ch[(n + 1) + 1] ELSE EOC)
  <2>1. (n + 1 < Len(ch) => n + 1 \in 1..Len(ch) - 1) /\ (~(n + 1 < Len(ch)) => n + 1 = Len(ch))
    BY <1>5, <1>6
  <2>. QED
    BY <1>5, <1>6, <1>11, <2>1
<1>17. fat' = fat /\ sector' = sector /\ cwd' = cwd
  BY <1>1 DEF Volatile
<1>18. \A a : NamesIn(a)' = NamesIn(a)
  BY <1>17 DEF NamesIn
<1>19. Listing(op[c])'
  <2>1. Chain(fat', op'[c].dir) = ch
    BY <1>2, <1>3, <1>11, <1>17
  <2>2. op'[c].got = [j \in 1..n + 1 |-> NamesIn(ch[j])']
    BY <1>15, <1>18
  <2>. QED
    BY <1>6, <1>16, <2>1, <2>2 DEF Listing
<1>20. Answering(op[c])' /\ op'[c].pc # "idle"
  BY <1>2, <1>11, <1>17, <1>19 DEF Answering
<1>21. \A d \in Callers \ {c} : op[d].pc = "idle"
  BY <1>1, Alone
<1>. QED
  BY <1>11, <1>20, <1>21, GoesAnswered

\* The steps of the other calls.
LEMMA EntryAnswers ==
  ASSUME FatInv, Events = {}, NEW c \in Callers,
         WrongKind(c) \/ FreeOld(c) \/ FreeDeleted(c) \/ RenameFound(c) \/ EnterDirectory(c)
  PROVE  Answered
<1>1. MayRun(c) /\ op[c].pc = "entry"
  BY DEF WrongKind, FreeOld, FreeDeleted, RenameFound, EnterDirectory, ReadEntry, At
<1>2. \/ Return(c, FALSE) \/ Goto(c, [pc |-> "data", exists |-> TRUE])
      \/ Goto(c, [pc |-> "flush", then |-> "commit"]) \/ Goto(c, [pc |-> "commit"])
      \/ \E x : Goto(c, [pc |-> "walk", arg |-> x])
  BY DEF WrongKind, FreeOld, FreeDeleted, RenameFound, EnterDirectory
<1>3. \A x : \A at : at \in {[pc |-> "data", exists |-> TRUE], [pc |-> "flush", then |-> "commit"],
                             [pc |-> "commit"], [pc |-> "walk", arg |-> x]} =>
        /\ DOMAIN at \subseteq {"pc", "exists", "then", "arg"} /\ "pc" \in DOMAIN at
        /\ at["pc"] \in {"data", "flush", "commit", "walk"}
  OBVIOUS
<1>4. Return(c, FALSE) \/ \E at : /\ DOMAIN at \subseteq {"pc", "exists", "then", "arg"} /\ "pc" \in DOMAIN at
                                  /\ Goto(c, at) /\ at["pc"] \in {"data", "flush", "commit", "walk"}
  BY <1>2, <1>3
<1>5. ASSUME NEW at, DOMAIN at \subseteq {"pc", "exists", "then", "arg"}, "pc" \in DOMAIN at,
             Goto(c, at), at["pc"] \in {"data", "flush", "commit", "walk"}
      PROVE  Answered
  <2>1. DOMAIN at \subseteq Fields
    BY <1>5, FieldsAre
  <2>2. op'[c]["pc"] = at["pc"]
    BY <1>1, <1>5, <2>1, GoesOn
  <2>. QED
    BY <1>1, <1>5, <2>1, <2>2, ElseAnswered
<1>. QED
  BY <1>1, <1>4, <1>5, BackAnswered

LEMMA WalkAnswers ==
  ASSUME FatInv, Events = {}, NEW c \in Callers, Walk(c)  PROVE Answered
<1>1. op[c].pc = "walk" /\ MayRun(c) /\ op[c].kind = "chdir"
  BY DEF Walk, At, FatInv, Phase
<1>2. Return(c, TRUE) \/ (\E x : Goto(c, [arg |-> x])) \/ \E n, x : Goto(c, [pc |-> "find", name |-> n, cur |-> x])
  BY DEF Walk
<1>. DEFINE Right(at) == /\ DOMAIN at \subseteq {"pc", "name", "cur", "arg"}
                         /\ "pc" \in DOMAIN at => at["pc"] = "find"
<1>3. \A n, x : Right([arg |-> x]) /\ Right([pc |-> "find", name |-> n, cur |-> x])
  OBVIOUS
<1>4. ASSUME NEW at, Right(at), Goto(c, at)  PROVE Answered
  <2>1. DOMAIN at \subseteq Fields /\ "kind" \in Fields \ DOMAIN at /\ "pc" \in Fields
    BY <1>4, FieldsAre
  <2>2. /\ op'[c]["pc"] = IF "pc" \in DOMAIN at THEN at["pc"] ELSE op[c]["pc"]
        /\ op'[c]["kind"] = op[c]["kind"]
    BY <1>1, <1>4, <2>1, GoesOn
  <2>. QED
    BY <1>1, <1>4, <2>1, <2>2, ElseAnswered
<1>. HIDE DEF Right
<1>5. Return(c, TRUE) \/ Answered
  BY <1>2, <1>3, <1>4
<1>6. Answers(c)
  BY <1>1 DEF Answers
<1>. QED
  BY <1>1, <1>5, <1>6, BackAnswered

LEMMA BuildingAnswers ==
  ASSUME FatInv, Events = {}, NEW c \in Callers,
         \/ WriteBlock(c) \/ NewDirectory(c) \/ ExtendDirectory(c) \/ FlushSector(c) \/ ZeroCluster(c)
         \/ ReadNewCluster(c) \/ WriteDots(c) \/ FindSlot(c) \/ RereadEntry(c)
  PROVE  Answered
<1>. DEFINE Labels == {"data", "newdir", "flush", "zero", "dots", "dotted", "slot", "extend", "reread", "commit"}
            Keys   == {"pc", "cur", "idx", "first", "prev", "step", "then"}
            Right(at) == DOMAIN at \subseteq Keys /\ ("pc" \in DOMAIN at => at["pc"] \in Labels)
<1>1. MayRun(c) /\ op[c].pc \in Labels
  <2>1. WriteBlock(c) => MayRun(c) /\ op[c].pc \in Labels
    BY DEF WriteBlock, At
  <2>2. NewDirectory(c) => MayRun(c) /\ op[c].pc \in Labels
    BY DEF NewDirectory, At
  <2>3. ExtendDirectory(c) => MayRun(c) /\ op[c].pc \in Labels
    BY DEF ExtendDirectory, At
  <2>4. FlushSector(c) => MayRun(c) /\ op[c].pc \in Labels
    BY DEF FlushSector, At
  <2>5. ZeroCluster(c) => MayRun(c) /\ op[c].pc \in Labels
    BY DEF ZeroCluster, At
  <2>6. ReadNewCluster(c) => MayRun(c) /\ op[c].pc \in Labels
    BY DEF ReadNewCluster, At
  <2>7. WriteDots(c) => MayRun(c) /\ op[c].pc \in Labels
    BY DEF WriteDots, At
  <2>8. FindSlot(c) => MayRun(c) /\ op[c].pc \in Labels
    BY DEF FindSlot, At
  <2>9. RereadEntry(c) => MayRun(c) /\ op[c].pc \in Labels
    BY DEF RereadEntry, At
  <2>. QED
    BY <2>1, <2>2, <2>3, <2>4, <2>5, <2>6, <2>7, <2>8, <2>9
<1>2. ASSUME NEW at, Right(at), Goto(c, at)  PROVE Answered
  <2>1. DOMAIN at \subseteq Fields /\ "pc" \in Fields
    BY <1>2, FieldsAre
  <2>2. op'[c]["pc"] = IF "pc" \in DOMAIN at THEN at["pc"] ELSE op[c]["pc"]
    BY <1>1, <1>2, <2>1, GoesOn
  <2>3. op'[c].pc \in Labels
    BY <1>1, <1>2, <2>2
  <2>. QED
    BY <1>1, <1>2, <2>1, <2>3, ElseAnswered
<1>3. \A x, y, z, u : \A l \in Labels :
        /\ Right([pc |-> l]) /\ Right([cur |-> x]) /\ Right([step |-> x])
        /\ Right([pc |-> l, cur |-> x]) /\ Right([pc |-> l, idx |-> x])
        /\ Right([pc |-> l, step |-> x, cur |-> y])
        /\ Right([first |-> x, pc |-> l, then |-> y])
        /\ Right([cur |-> x, idx |-> y, pc |-> l, then |-> z])
        /\ Right([first |-> x, prev |-> y, step |-> z, pc |-> l, then |-> u])
  <2>. TAKE x, y, z, u
  <2>. TAKE l \in Labels
  <2>1. Right([pc |-> l])
    OBVIOUS
  <2>2. Right([cur |-> x])
    OBVIOUS
  <2>3. Right([step |-> x])
    OBVIOUS
  <2>4. Right([pc |-> l, cur |-> x])
    OBVIOUS
  <2>5. Right([pc |-> l, idx |-> x])
    OBVIOUS
  <2>6. Right([pc |-> l, step |-> x, cur |-> y])
    OBVIOUS
  <2>7. Right([first |-> x, pc |-> l, then |-> y])
    OBVIOUS
  <2>8. Right([cur |-> x, idx |-> y, pc |-> l, then |-> z])
    OBVIOUS
  <2>9. Right([first |-> x, prev |-> y, step |-> z, pc |-> l, then |-> u])
    OBVIOUS
  <2>. QED
    BY <2>1, <2>2, <2>3, <2>4, <2>5, <2>6, <2>7, <2>8, <2>9
<1>. HIDE DEF Right
<1>4. ASSUME WriteBlock(c)  PROVE Answered
  <2>1. \E x, y, z, u : \E l \in {"data", "flush"} :
          Goto(c, [first |-> x, prev |-> y, step |-> z, pc |-> l, then |-> u])
    BY <1>4 DEF WriteBlock
  <2>. QED
    BY <1>2, <1>3, <2>1
<1>5. ASSUME NewDirectory(c)  PROVE Answered
  <2>1. \E x, y : Goto(c, [first |-> x, pc |-> "flush", then |-> y])
    BY <1>5 DEF NewDirectory
  <2>. QED
    BY <1>2, <1>3, <2>1
<1>6. ASSUME ExtendDirectory(c)  PROVE Answered
  <2>1. \E x, y, z : Goto(c, [cur |-> x, idx |-> y, pc |-> "flush", then |-> z])
    BY <1>6 DEF ExtendDirectory
  <2>. QED
    BY <1>2, <1>3, <2>1
<1>7. ASSUME FlushSector(c)  PROVE Answered
  <2>1. op[c].pc = "flush"
    BY <1>7 DEF FlushSector, At
  <2>2. op[c].then \in {"commit", "reread", "slot", "zero"}
    BY <2>1 DEF FatInv, Phase, InFlush
  <2>3. \E x : AfterFlush(c) = [pc |-> op[c].then, step |-> 0, cur |-> x]
    BY DEF AfterFlush
  <2>4. (\E x : Goto(c, [step |-> x])) \/ \E x : Goto(c, [pc |-> op[c].then, step |-> 0, cur |-> x])
    BY <1>7, <2>3 DEF FlushSector
  <2>. QED
    BY <1>2, <1>3, <2>2, <2>4
<1>8. ASSUME ZeroCluster(c) \/ ReadNewCluster(c) \/ RereadEntry(c)  PROVE Answered
  <2>1. \E l \in {"dots", "reread", "dotted", "commit"} : Goto(c, [pc |-> l])
    BY <1>8 DEF ZeroCluster, ReadNewCluster, RereadEntry
  <2>. QED
    BY <1>2, <1>3, <2>1
<1>9. ASSUME WriteDots(c)  PROVE Answered
  <2>1. \E x : Goto(c, [pc |-> "slot", cur |-> x])
    BY <1>9 DEF WriteDots
  <2>. QED
    BY <1>2, <1>3, <2>1
<1>10. ASSUME FindSlot(c)  PROVE Answered
  <2>1. \/ \E x : Goto(c, [pc |-> "reread", idx |-> x])
        \/ \E x : Goto(c, [cur |-> x])
        \/ Goto(c, [pc |-> "extend"])
    BY <1>10 DEF FindSlot
  <2>. QED
    BY <1>2, <1>3, <2>1
<1>. QED
  BY <1>4, <1>5, <1>6, <1>7, <1>8, <1>9, <1>10

LEMMA EndsAnswer ==
  ASSUME FatInv, Events = {}, NEW c \in Callers, DiskFull(c) \/ CommitEntry(c)  PROVE Answered
<1>1. CASE DiskFull(c)
  <2>1. MayRun(c) /\ op[c].pc # "idle" /\ Return(c, FALSE)
    BY <1>1 DEF DiskFull, At
  <2>. QED
    BY <2>1, BackAnswered
<1>2. CASE CommitEntry(c)
  <2>1. MayRun(c) /\ op[c].pc = "commit" /\ Return(c, TRUE)
    BY <1>2 DEF CommitEntry, At
  <2>2. InCommit(op[c])
    BY <2>1 DEF FatInv, Phase
  <2>3. op[c].kind \in {"write", "mkdir", "delete", "rename"}
    BY <2>2 DEF InCommit, Deleting, Placed, Made, Making
  <2>4. Answers(c)
    BY <2>3 DEF Answers
  <2>. QED
    BY <2>1, <2>4, BackAnswered
<1>. QED
  BY <1>1, <1>2

LEMMA AnswerStutter ==
  ASSUME AnswerInv, UNCHANGED vars  PROVE Answered
<1>1. fat' = fat /\ sector' = sector /\ cwd' = cwd /\ op' = op
  BY DEF vars
<1>2. \A a : NamesIn(a)' = NamesIn(a)
  BY <1>1 DEF NamesIn
<1>3. ASSUME NEW c \in Callers, Answering(op[c])  PROVE Answering(op[c])'
  <2>1. Reading(op[c])' <=> Reading(op[c])
    BY <1>1 DEF Reading
  <2>2. Listing(op[c])' <=> Listing(op[c])
    BY <1>1 DEF Listing, NamesIn
  <2>. QED
    BY <1>1, <1>3, <2>1, <2>2 DEF Answering
<1>4. AnswerInv'
  BY <1>1, <1>3 DEF AnswerInv
<1>5. \A c \in Callers : ~Succeeded(c)
  BY <1>1 DEF Succeeded, Idle
<1>. QED
  BY <1>4, <1>5 DEF Answered

LEMMA NextAnswers ==
  ASSUME Events = {}, FatInv, TreeInv, AnswerInv, [Next]_vars
  PROVE  Answered
<1>1. CASE UNCHANGED vars
  BY <1>1, AnswerStutter
<1>2. CASE Crash
  BY <1>2 DEF Crash
<1>3. ASSUME NEW c \in Callers,
             \/ CallWrite(c) \/ CallMkdir(c) \/ CallDelete(c) \/ CallRename(c)
             \/ CallRead(c) \/ CallReaddir(c) \/ CallChdir(c)
      PROVE  Answered
  BY <1>3, CallsAnswer
<1>4. ASSUME NEW c \in Callers,
             \/ FindEntry(c) \/ WrongKind(c) \/ FreeOld(c) \/ FreeDeleted(c)
             \/ OpenFile(c) \/ RenameFound(c) \/ EnterDirectory(c) \/ Walk(c)
             \/ ReadBlock(c) \/ ReadEnd(c) \/ ListSector(c) \/ ListEnd(c)
      PROVE  Answered
  BY <1>4, FindEntryAnswers, EntryAnswers, OpenFileAnswers, WalkAnswers, ReadBlockAnswers, ReadEndAnswers,
     ListSectorAnswers, ListEndAnswers
<1>5. ASSUME NEW c \in Callers,
             \/ WriteBlock(c) \/ NewDirectory(c) \/ ExtendDirectory(c) \/ DiskFull(c)
             \/ FlushSector(c) \/ ZeroCluster(c) \/ ReadNewCluster(c) \/ WriteDots(c)
             \/ FindSlot(c) \/ RereadEntry(c) \/ CommitEntry(c)
      PROVE  Answered
  BY <1>5, BuildingAnswers, EndsAnswer
<1>6. ASSUME NEW c \in Callers, ReadFails(c) \/ WriteFails(c)  PROVE Answered
  BY <1>6 DEF ReadFails, WriteFails
<1>. QED
  BY <1>1, <1>2, <1>3, <1>4, <1>5, <1>6 DEF Next

LEMMA InitAnswers == Init => AnswerInv
BY DEF Init, Idle, AnswerInv

AllAnswer == \A c \in Callers : Succeeded(c) => Answers(c)

\* What is answered is what is there: a read gives the file's blocks in order,
\* as many as it has and the buffer holds, and a listing every name of the
\* directory exactly once (fat32_read_file, fat32_readdir).
THEOREM AnswersAreTrue == ASSUME Events = {}  PROVE Spec => AnswersTruth
<1>1. Init => FatInv /\ TreeInv /\ AnswerInv
  BY InitKeeps, InitTells, InitAnswers
<1>2. FatInv /\ TreeInv /\ AnswerInv /\ [Next]_vars => FatInv' /\ TreeInv' /\ Answered
  BY NextKeeps, NextTells, NextAnswers
<1>3. FatInv /\ TreeInv /\ AnswerInv /\ [Next]_vars => FatInv' /\ TreeInv' /\ AnswerInv' /\ [AllAnswer]_vars
  BY <1>2 DEF Answered, AllAnswer
<1>. QED
  BY <1>1, <1>3, PTL DEF Spec, AnswersTruth, AllAnswer, Answers
=============================================================================
