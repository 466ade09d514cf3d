---------------------------- MODULE ShellProofs ----------------------------
(***************************************************************************)
(* Proofs about the text shell.  FileCmds: no command changes an entry it  *)
(* does not name, whatever its calls to the file system answer             *)
(* (FilesKept).  Console: the line on the screen is the line that runs,    *)
(* what the history recalls is what was entered and the scrollback is what *)
(* scrolled off (ShellTrue), for all sizes of screens, rings, buffers and  *)
(* histories.  What a FoldLeft computes is taken one step at a time: the   *)
(* fold's values are those of a run, and an induction over a set of        *)
(* naturals says what each value of the run is.                            *)
(***************************************************************************)
EXTENDS Console, FileCmds, FiniteSetTheorems, SequenceTheorems, WellFoundedInduction, TLAPS

LEMMA NatLeast ==
  ASSUME NEW S \in SUBSET Nat, S # {}
  PROVE  \E m \in S : \A n \in S : m <= n
<1>. DEFINE LT == {ss \in Nat \X Nat : ss[1] < ss[2]}
<1>1. IsWellFoundedOn(LT, Nat)
  BY NatLessThanWellFounded DEF OpToRel
<1>2. \E m \in S : \A n \in S : ~(<<n, m>> \in LT)
  <2>. HIDE DEF LT
  <2>. QED
    BY <1>1, WFMin
<1>3. \A m, n \in Nat : <<n, m>> \notin LT => m <= n
  OBVIOUS
<1>. HIDE DEF LT
<1>. QED
  BY <1>2, <1>3

LEMMA LeastIs ==
  ASSUME NEW S \in SUBSET Nat, S # {}
  PROVE  Min(S) \in S /\ \A n \in S : Min(S) <= n
<1>1. \E m \in S : \A n \in S : m <= n
  BY NatLeast
<1>. QED
  BY <1>1 DEF Min

\* Induction, over a set: a set of naturals that has 0 and with each number its
\* successor has them all.
LEMMA SetInduction ==
  ASSUME NEW S \in SUBSET Nat, 0 \in S, \A n \in S : n + 1 \in S
  PROVE S = Nat
<1>1. SUFFICES ASSUME Nat \ S # {} PROVE FALSE
  OBVIOUS
<1>2. PICK m \in Nat \ S : \A k \in Nat \ S : m <= k
  BY <1>1, NatLeast
<1>3. m # 0
  BY <1>2
<1>4. m - 1 \in Nat /\ m = (m - 1) + 1 /\ ~(m <= m - 1)
  BY <1>3
<1>5. m - 1 \in S
  BY <1>2, <1>4
<1> QED BY <1>2, <1>4, <1>5

LEMMA LargestIs ==
  ASSUME NEW s, NEW m \in s, s \subseteq Int, \A i \in s : i <= m
  PROVE  Max(s) = m
<1>1. \E x \in s : \A y \in s : x >= y
  <2>1. \A y \in s : m >= y
    OBVIOUS
  <2>. QED
    BY <2>1
<1>2. Max(s) \in s /\ \A y \in s : Max(s) >= y
  BY <1>1, Zenon DEF Max
<1>3. Max(s) >= m /\ m >= Max(s) /\ m \in Int /\ Max(s) \in Int
  BY <1>2
<1>. QED
  BY <1>3

LEMMA FirstOf ==
  ASSUME NEW n \in Nat, NEW i \in 1..n
  PROVE  /\ 1..i \in SUBSET (1..n) /\ 1..i # {} /\ i \in 0..n /\ i - 1 \in 0..n
         /\ i \in 1..i /\ 1..i \subseteq Int /\ \A j \in 1..i : j <= i
         /\ (1..i) \ {i} = 1..i - 1
<1>1. 1..i \in SUBSET (1..n) /\ i \in 0..n /\ i - 1 \in 0..n /\ 1..i \subseteq Int
  OBVIOUS
<1>2. i \in 1..i
  OBVIOUS
<1>3. \A j \in 1..i : j <= i
  OBVIOUS
<1>4. (1..i) \ {i} = 1..i - 1
  OBVIOUS
<1>. QED
  BY <1>1, <1>2, <1>3, <1>4

-----------------------------------------------------------------------------
(***************************************************************************)
(* Folds, as runs.                                                         *)
(***************************************************************************)

\* FoldLeft(Enter1, w, text) applies Enter1 to one element after the other.
Enter1Rec(w, text, n, iter) ==
  iter = [s \in SUBSET (1..n) |->
            IF s = {} THEN w ELSE Enter1(iter[s \ {Max(s)}], text[Max(s)])]

LEMMA Enter1Iter ==
  ASSUME NEW w, NEW text, NEW n \in Nat
  PROVE  \E iter : Enter1Rec(w, text, n, iter)
<1>. DEFINE Rec(iter, k) == Enter1Rec(w, text, k, iter)
            Made == {k \in Nat : \E iter : Rec(iter, k)}
<1>1. 0 \in Made
  <2>1. SUBSET (1..0) = {{}}
    OBVIOUS
  <2>2. Rec([s \in SUBSET (1..0) |-> w], 0)
    BY <2>1 DEF Enter1Rec
  <2>. QED
    BY <2>2
<1>2. ASSUME NEW k \in Made  PROVE k + 1 \in Made
  <2>1. PICK it : Rec(it, k)
    OBVIOUS
  <2>. DEFINE nx == [s \in SUBSET (1..k + 1) |->
                IF k + 1 \in s THEN Enter1(it[s \ {k + 1}], text[k + 1]) ELSE it[s]]
  <2>2. ASSUME NEW s \in SUBSET (1..k + 1)
        PROVE  nx[s] = IF s = {} THEN w ELSE Enter1(nx[s \ {Max(s)}], text[Max(s)])
    <3>1. CASE k + 1 \in s
      <4>1. Max(s) = k + 1
        <5>1. k + 1 \in s /\ s \subseteq Int /\ \A i \in s : i <= k + 1
          BY <3>1
        <5>. QED
          BY <5>1, LargestIs, Zenon
      <4>2. s \ {k + 1} \in SUBSET (1..k + 1) /\ k + 1 \notin s \ {k + 1}
        OBVIOUS
      <4>3. nx[s \ {k + 1}] = it[s \ {k + 1}]
        BY <4>2, Zenon
      <4>4. nx[s] = Enter1(it[s \ {k + 1}], text[k + 1])
        BY <3>1, Zenon
      <4>. QED
        BY <3>1, <4>1, <4>3, <4>4, Zenon
    <3>2. CASE k + 1 \notin s
      <4>1. s \in SUBSET (1..k) /\ k \in Nat
        BY <3>2
      <4>2. nx[s] = it[s]
        BY <3>2, Zenon
      <4>3. it[s] = IF s = {} THEN w ELSE Enter1(it[s \ {Max(s)}], text[Max(s)])
        BY <2>1, <4>1, Zenon DEF Enter1Rec
      <4>4. s \ {Max(s)} \in SUBSET (1..k + 1) /\ k + 1 \notin s \ {Max(s)}
        BY <3>2
      <4>5. nx[s \ {Max(s)}] = it[s \ {Max(s)}]
        BY <4>4, Zenon
      <4>. QED
        BY <4>2, <4>3, <4>5, Zenon
    <3>. QED
      BY <3>1, <3>2
  <2>3. DOMAIN nx = SUBSET (1..k + 1) /\ nx = [s \in SUBSET (1..k + 1) |-> nx[s]]
    OBVIOUS
  <2>4. Rec(nx, k + 1)
    <3>. HIDE DEF nx
    <3>. QED
      BY <2>2, <2>3, Zenon DEF Enter1Rec
  <2>5. k + 1 \in Nat
    OBVIOUS
  <2>. QED
    BY <2>4, <2>5, Zenon
<1>3. Made = Nat
  <2>. HIDE DEF Made
  <2>1. Made \in SUBSET Nat
    BY DEF Made
  <2>. QED
    BY <1>1, <1>2, <2>1, SetInduction, Zenon
<1>. QED
  BY <1>3, Zenon

\* The values the fold goes through.
Enter1Run(g, w, text, n) == g[0] = w /\ \A i \in 1..n : g[i] = Enter1(g[i - 1], text[i])

LEMMA Enter1Fold ==
  ASSUME NEW w, NEW text, NEW n \in Nat, DOMAIN text = 1..n
  PROVE  \E g : Enter1Run(g, w, text, n) /\ FoldLeft(Enter1, w, text) = g[n]
<1>. DEFINE it == CHOOSE it : Enter1Rec(w, text, n, it)
            g == [i \in 0..n |-> it[1..i]]
<1>1. FoldLeft(Enter1, w, text) = it[1..n]
  BY DEF FoldLeft, MapThenFoldSet, Enter1Rec
<1>2. Enter1Rec(w, text, n, it)
  BY Enter1Iter, Zenon
<1>. HIDE DEF it
<1>3. g[0] = w /\ g[n] = it[1..n]
  <2>1. 1..0 = {} /\ 0 \in 0..n /\ n \in 0..n
    OBVIOUS
  <2>. QED
    BY <2>1, <1>2 DEF Enter1Rec
<1>4. ASSUME NEW i \in 1..n  PROVE g[i] = Enter1(g[i - 1], text[i])
  <2>1. /\ 1..i \in SUBSET (1..n) /\ 1..i # {} /\ i \in 0..n /\ i - 1 \in 0..n
        /\ i \in 1..i /\ 1..i \subseteq Int /\ \A j \in 1..i : j <= i
        /\ (1..i) \ {i} = 1..i - 1
    BY FirstOf, Zenon
  <2>2. Max(1..i) = i
    BY LargestIs, <2>1, Zenon
  <2>3. (1..i) \ {i} = 1..i - 1
    BY <2>1
  <2>4. g[i] = it[1..i] /\ g[i - 1] = it[1..i - 1]
    BY <2>1
  <2>5. it[1..i] = Enter1(it[1..i - 1], text[i])
    BY <1>2, <2>1, <2>2, <2>3, Zenon DEF Enter1Rec
  <2>. QED
    BY <2>4, <2>5, Zenon
<1>. HIDE DEF g
<1>5. Enter1Run(g, w, text, n)
  BY <1>3, <1>4 DEF Enter1Run
<1>. QED
  BY <1>1, <1>3, <1>5, Zenon

\* FoldLeft(MadeIn, w, text) applies MadeIn to one element after the other.
MadeInRec(w, text, n, iter) ==
  iter = [s \in SUBSET (1..n) |->
            IF s = {} THEN w ELSE MadeIn(iter[s \ {Max(s)}], text[Max(s)])]

LEMMA MadeInIter ==
  ASSUME NEW w, NEW text, NEW n \in Nat
  PROVE  \E iter : MadeInRec(w, text, n, iter)
<1>. DEFINE Rec(iter, k) == MadeInRec(w, text, k, iter)
            Made == {k \in Nat : \E iter : Rec(iter, k)}
<1>1. 0 \in Made
  <2>1. SUBSET (1..0) = {{}}
    OBVIOUS
  <2>2. Rec([s \in SUBSET (1..0) |-> w], 0)
    BY <2>1 DEF MadeInRec
  <2>. QED
    BY <2>2
<1>2. ASSUME NEW k \in Made  PROVE k + 1 \in Made
  <2>1. PICK it : Rec(it, k)
    OBVIOUS
  <2>. DEFINE nx == [s \in SUBSET (1..k + 1) |->
                IF k + 1 \in s THEN MadeIn(it[s \ {k + 1}], text[k + 1]) ELSE it[s]]
  <2>2. ASSUME NEW s \in SUBSET (1..k + 1)
        PROVE  nx[s] = IF s = {} THEN w ELSE MadeIn(nx[s \ {Max(s)}], text[Max(s)])
    <3>1. CASE k + 1 \in s
      <4>1. Max(s) = k + 1
        <5>1. k + 1 \in s /\ s \subseteq Int /\ \A i \in s : i <= k + 1
          BY <3>1
        <5>. QED
          BY <5>1, LargestIs, Zenon
      <4>2. s \ {k + 1} \in SUBSET (1..k + 1) /\ k + 1 \notin s \ {k + 1}
        OBVIOUS
      <4>3. nx[s \ {k + 1}] = it[s \ {k + 1}]
        BY <4>2, Zenon
      <4>4. nx[s] = MadeIn(it[s \ {k + 1}], text[k + 1])
        BY <3>1, Zenon
      <4>. QED
        BY <3>1, <4>1, <4>3, <4>4, Zenon
    <3>2. CASE k + 1 \notin s
      <4>1. s \in SUBSET (1..k) /\ k \in Nat
        BY <3>2
      <4>2. nx[s] = it[s]
        BY <3>2, Zenon
      <4>3. it[s] = IF s = {} THEN w ELSE MadeIn(it[s \ {Max(s)}], text[Max(s)])
        BY <2>1, <4>1, Zenon DEF MadeInRec
      <4>4. s \ {Max(s)} \in SUBSET (1..k + 1) /\ k + 1 \notin s \ {Max(s)}
        BY <3>2
      <4>5. nx[s \ {Max(s)}] = it[s \ {Max(s)}]
        BY <4>4, Zenon
      <4>. QED
        BY <4>2, <4>3, <4>5, Zenon
    <3>. QED
      BY <3>1, <3>2
  <2>3. DOMAIN nx = SUBSET (1..k + 1) /\ nx = [s \in SUBSET (1..k + 1) |-> nx[s]]
    OBVIOUS
  <2>4. Rec(nx, k + 1)
    <3>. HIDE DEF nx
    <3>. QED
      BY <2>2, <2>3, Zenon DEF MadeInRec
  <2>5. k + 1 \in Nat
    OBVIOUS
  <2>. QED
    BY <2>4, <2>5, Zenon
<1>3. Made = Nat
  <2>. HIDE DEF Made
  <2>1. Made \in SUBSET Nat
    BY DEF Made
  <2>. QED
    BY <1>1, <1>2, <2>1, SetInduction, Zenon
<1>. QED
  BY <1>3, Zenon

\* The values the fold goes through.
MadeInRun(g, w, text, n) == g[0] = w /\ \A i \in 1..n : g[i] = MadeIn(g[i - 1], text[i])

LEMMA MadeInFold ==
  ASSUME NEW w, NEW text, NEW n \in Nat, DOMAIN text = 1..n
  PROVE  \E g : MadeInRun(g, w, text, n) /\ FoldLeft(MadeIn, w, text) = g[n]
<1>. DEFINE it == CHOOSE it : MadeInRec(w, text, n, it)
            g == [i \in 0..n |-> it[1..i]]
<1>1. FoldLeft(MadeIn, w, text) = it[1..n]
  BY DEF FoldLeft, MapThenFoldSet, MadeInRec
<1>2. MadeInRec(w, text, n, it)
  BY MadeInIter, Zenon
<1>. HIDE DEF it
<1>3. g[0] = w /\ g[n] = it[1..n]
  <2>1. 1..0 = {} /\ 0 \in 0..n /\ n \in 0..n
    OBVIOUS
  <2>. QED
    BY <2>1, <1>2 DEF MadeInRec
<1>4. ASSUME NEW i \in 1..n  PROVE g[i] = MadeIn(g[i - 1], text[i])
  <2>1. /\ 1..i \in SUBSET (1..n) /\ 1..i # {} /\ i \in 0..n /\ i - 1 \in 0..n
        /\ i \in 1..i /\ 1..i \subseteq Int /\ \A j \in 1..i : j <= i
        /\ (1..i) \ {i} = 1..i - 1
    BY FirstOf, Zenon
  <2>2. Max(1..i) = i
    BY LargestIs, <2>1, Zenon
  <2>3. (1..i) \ {i} = 1..i - 1
    BY <2>1
  <2>4. g[i] = it[1..i] /\ g[i - 1] = it[1..i - 1]
    BY <2>1
  <2>5. it[1..i] = MadeIn(it[1..i - 1], text[i])
    BY <1>2, <2>1, <2>2, <2>3, Zenon DEF MadeInRec
  <2>. QED
    BY <2>4, <2>5, Zenon
<1>. HIDE DEF g
<1>5. MadeInRun(g, w, text, n)
  BY <1>3, <1>4 DEF MadeInRun
<1>. QED
  BY <1>1, <1>3, <1>5, Zenon

\* FoldLeft(PutChar, w, text) applies PutChar to one element after the other.
PutCharRec(w, text, n, iter) ==
  iter = [s \in SUBSET (1..n) |->
            IF s = {} THEN w ELSE PutChar(iter[s \ {Max(s)}], text[Max(s)])]

LEMMA PutCharIter ==
  ASSUME NEW w, NEW text, NEW n \in Nat
  PROVE  \E iter : PutCharRec(w, text, n, iter)
<1>. DEFINE Rec(iter, k) == PutCharRec(w, text, k, iter)
            Made == {k \in Nat : \E iter : Rec(iter, k)}
<1>1. 0 \in Made
  <2>1. SUBSET (1..0) = {{}}
    OBVIOUS
  <2>2. Rec([s \in SUBSET (1..0) |-> w], 0)
    BY <2>1 DEF PutCharRec
  <2>. QED
    BY <2>2
<1>2. ASSUME NEW k \in Made  PROVE k + 1 \in Made
  <2>1. PICK it : Rec(it, k)
    OBVIOUS
  <2>. DEFINE nx == [s \in SUBSET (1..k + 1) |->
                IF k + 1 \in s THEN PutChar(it[s \ {k + 1}], text[k + 1]) ELSE it[s]]
  <2>2. ASSUME NEW s \in SUBSET (1..k + 1)
        PROVE  nx[s] = IF s = {} THEN w ELSE PutChar(nx[s \ {Max(s)}], text[Max(s)])
    <3>1. CASE k + 1 \in s
      <4>1. Max(s) = k + 1
        <5>1. k + 1 \in s /\ s \subseteq Int /\ \A i \in s : i <= k + 1
          BY <3>1
        <5>. QED
          BY <5>1, LargestIs, Zenon
      <4>2. s \ {k + 1} \in SUBSET (1..k + 1) /\ k + 1 \notin s \ {k + 1}
        OBVIOUS
      <4>3. nx[s \ {k + 1}] = it[s \ {k + 1}]
        BY <4>2, Zenon
      <4>4. nx[s] = PutChar(it[s \ {k + 1}], text[k + 1])
        BY <3>1, Zenon
      <4>. QED
        BY <3>1, <4>1, <4>3, <4>4, Zenon
    <3>2. CASE k + 1 \notin s
      <4>1. s \in SUBSET (1..k) /\ k \in Nat
        BY <3>2
      <4>2. nx[s] = it[s]
        BY <3>2, Zenon
      <4>3. it[s] = IF s = {} THEN w ELSE PutChar(it[s \ {Max(s)}], text[Max(s)])
        BY <2>1, <4>1, Zenon DEF PutCharRec
      <4>4. s \ {Max(s)} \in SUBSET (1..k + 1) /\ k + 1 \notin s \ {Max(s)}
        BY <3>2
      <4>5. nx[s \ {Max(s)}] = it[s \ {Max(s)}]
        BY <4>4, Zenon
      <4>. QED
        BY <4>2, <4>3, <4>5, Zenon
    <3>. QED
      BY <3>1, <3>2
  <2>3. DOMAIN nx = SUBSET (1..k + 1) /\ nx = [s \in SUBSET (1..k + 1) |-> nx[s]]
    OBVIOUS
  <2>4. Rec(nx, k + 1)
    <3>. HIDE DEF nx
    <3>. QED
      BY <2>2, <2>3, Zenon DEF PutCharRec
  <2>5. k + 1 \in Nat
    OBVIOUS
  <2>. QED
    BY <2>4, <2>5, Zenon
<1>3. Made = Nat
  <2>. HIDE DEF Made
  <2>1. Made \in SUBSET Nat
    BY DEF Made
  <2>. QED
    BY <1>1, <1>2, <2>1, SetInduction, Zenon
<1>. QED
  BY <1>3, Zenon

\* The values the fold goes through.
PutCharRun(g, w, text, n) == g[0] = w /\ \A i \in 1..n : g[i] = PutChar(g[i - 1], text[i])

LEMMA PutCharFold ==
  ASSUME NEW w, NEW text, NEW n \in Nat, DOMAIN text = 1..n
  PROVE  \E g : PutCharRun(g, w, text, n) /\ FoldLeft(PutChar, w, text) = g[n]
<1>. DEFINE it == CHOOSE it : PutCharRec(w, text, n, it)
            g == [i \in 0..n |-> it[1..i]]
<1>1. FoldLeft(PutChar, w, text) = it[1..n]
  BY DEF FoldLeft, MapThenFoldSet, PutCharRec
<1>2. PutCharRec(w, text, n, it)
  BY PutCharIter, Zenon
<1>. HIDE DEF it
<1>3. g[0] = w /\ g[n] = it[1..n]
  <2>1. 1..0 = {} /\ 0 \in 0..n /\ n \in 0..n
    OBVIOUS
  <2>. QED
    BY <2>1, <1>2 DEF PutCharRec
<1>4. ASSUME NEW i \in 1..n  PROVE g[i] = PutChar(g[i - 1], text[i])
  <2>1. /\ 1..i \in SUBSET (1..n) /\ 1..i # {} /\ i \in 0..n /\ i - 1 \in 0..n
        /\ i \in 1..i /\ 1..i \subseteq Int /\ \A j \in 1..i : j <= i
        /\ (1..i) \ {i} = 1..i - 1
    BY FirstOf, Zenon
  <2>2. Max(1..i) = i
    BY LargestIs, <2>1, Zenon
  <2>3. (1..i) \ {i} = 1..i - 1
    BY <2>1
  <2>4. g[i] = it[1..i] /\ g[i - 1] = it[1..i - 1]
    BY <2>1
  <2>5. it[1..i] = PutChar(it[1..i - 1], text[i])
    BY <1>2, <2>1, <2>2, <2>3, Zenon DEF PutCharRec
  <2>. QED
    BY <2>4, <2>5, Zenon
<1>. HIDE DEF g
<1>5. PutCharRun(g, w, text, n)
  BY <1>3, <1>4 DEF PutCharRun
<1>. QED
  BY <1>1, <1>3, <1>5, Zenon

\* FoldLeft(Joined, w, text) applies Joined to one element after the other.
JoinedRec(w, text, n, iter) ==
  iter = [s \in SUBSET (1..n) |->
            IF s = {} THEN w ELSE Joined(iter[s \ {Max(s)}], text[Max(s)])]

LEMMA JoinedIter ==
  ASSUME NEW w, NEW text, NEW n \in Nat
  PROVE  \E iter : JoinedRec(w, text, n, iter)
<1>. DEFINE Rec(iter, k) == JoinedRec(w, text, k, iter)
            Made == {k \in Nat : \E iter : Rec(iter, k)}
<1>1. 0 \in Made
  <2>1. SUBSET (1..0) = {{}}
    OBVIOUS
  <2>2. Rec([s \in SUBSET (1..0) |-> w], 0)
    BY <2>1 DEF JoinedRec
  <2>. QED
    BY <2>2
<1>2. ASSUME NEW k \in Made  PROVE k + 1 \in Made
  <2>1. PICK it : Rec(it, k)
    OBVIOUS
  <2>. DEFINE nx == [s \in SUBSET (1..k + 1) |->
                IF k + 1 \in s THEN Joined(it[s \ {k + 1}], text[k + 1]) ELSE it[s]]
  <2>2. ASSUME NEW s \in SUBSET (1..k + 1)
        PROVE  nx[s] = IF s = {} THEN w ELSE Joined(nx[s \ {Max(s)}], text[Max(s)])
    <3>1. CASE k + 1 \in s
      <4>1. Max(s) = k + 1
        <5>1. k + 1 \in s /\ s \subseteq Int /\ \A i \in s : i <= k + 1
          BY <3>1
        <5>. QED
          BY <5>1, LargestIs, Zenon
      <4>2. s \ {k + 1} \in SUBSET (1..k + 1) /\ k + 1 \notin s \ {k + 1}
        OBVIOUS
      <4>3. nx[s \ {k + 1}] = it[s \ {k + 1}]
        BY <4>2, Zenon
      <4>4. nx[s] = Joined(it[s \ {k + 1}], text[k + 1])
        BY <3>1, Zenon
      <4>. QED
        BY <3>1, <4>1, <4>3, <4>4, Zenon
    <3>2. CASE k + 1 \notin s
      <4>1. s \in SUBSET (1..k) /\ k \in Nat
        BY <3>2
      <4>2. nx[s] = it[s]
        BY <3>2, Zenon
      <4>3. it[s] = IF s = {} THEN w ELSE Joined(it[s \ {Max(s)}], text[Max(s)])
        BY <2>1, <4>1, Zenon DEF JoinedRec
      <4>4. s \ {Max(s)} \in SUBSET (1..k + 1) /\ k + 1 \notin s \ {Max(s)}
        BY <3>2
      <4>5. nx[s \ {Max(s)}] = it[s \ {Max(s)}]
        BY <4>4, Zenon
      <4>. QED
        BY <4>2, <4>3, <4>5, Zenon
    <3>. QED
      BY <3>1, <3>2
  <2>3. DOMAIN nx = SUBSET (1..k + 1) /\ nx = [s \in SUBSET (1..k + 1) |-> nx[s]]
    OBVIOUS
  <2>4. Rec(nx, k + 1)
    <3>. HIDE DEF nx
    <3>. QED
      BY <2>2, <2>3, Zenon DEF JoinedRec
  <2>5. k + 1 \in Nat
    OBVIOUS
  <2>. QED
    BY <2>4, <2>5, Zenon
<1>3. Made = Nat
  <2>. HIDE DEF Made
  <2>1. Made \in SUBSET Nat
    BY DEF Made
  <2>. QED
    BY <1>1, <1>2, <2>1, SetInduction, Zenon
<1>. QED
  BY <1>3, Zenon

\* The values the fold goes through.
JoinedRun(g, w, text, n) == g[0] = w /\ \A i \in 1..n : g[i] = Joined(g[i - 1], text[i])

LEMMA JoinedFold ==
  ASSUME NEW w, NEW text, NEW n \in Nat, DOMAIN text = 1..n
  PROVE  \E g : JoinedRun(g, w, text, n) /\ FoldLeft(Joined, w, text) = g[n]
<1>. DEFINE it == CHOOSE it : JoinedRec(w, text, n, it)
            g == [i \in 0..n |-> it[1..i]]
<1>1. FoldLeft(Joined, w, text) = it[1..n]
  BY DEF FoldLeft, MapThenFoldSet, JoinedRec
<1>2. JoinedRec(w, text, n, it)
  BY JoinedIter, Zenon
<1>. HIDE DEF it
<1>3. g[0] = w /\ g[n] = it[1..n]
  <2>1. 1..0 = {} /\ 0 \in 0..n /\ n \in 0..n
    OBVIOUS
  <2>. QED
    BY <2>1, <1>2 DEF JoinedRec
<1>4. ASSUME NEW i \in 1..n  PROVE g[i] = Joined(g[i - 1], text[i])
  <2>1. /\ 1..i \in SUBSET (1..n) /\ 1..i # {} /\ i \in 0..n /\ i - 1 \in 0..n
        /\ i \in 1..i /\ 1..i \subseteq Int /\ \A j \in 1..i : j <= i
        /\ (1..i) \ {i} = 1..i - 1
    BY FirstOf, Zenon
  <2>2. Max(1..i) = i
    BY LargestIs, <2>1, Zenon
  <2>3. (1..i) \ {i} = 1..i - 1
    BY <2>1
  <2>4. g[i] = it[1..i] /\ g[i - 1] = it[1..i - 1]
    BY <2>1
  <2>5. it[1..i] = Joined(it[1..i - 1], text[i])
    BY <1>2, <2>1, <2>2, <2>3, Zenon DEF JoinedRec
  <2>. QED
    BY <2>4, <2>5, Zenon
<1>. HIDE DEF g
<1>5. JoinedRun(g, w, text, n)
  BY <1>3, <1>4 DEF JoinedRun
<1>. QED
  BY <1>1, <1>3, <1>5, Zenon

-----------------------------------------------------------------------------
(***************************************************************************)
(* The file commands: paths and trees.                                     *)
(***************************************************************************)

Paths == Seq(EntryNames)
Pre(p, k) == SubSeq(p, 1, k)

\* A tree of paths: the root is a directory, and so is all that leads to an entry.
DirIn(t, p) == p \in DOMAIN t /\ t[p] = Dir
TreeOK(t) ==
  /\ DOMAIN t \subseteq Paths /\ DirIn(t, <<>>)
  /\ \A p \in DOMAIN t : \A k \in 0..Len(p) - 1 : DirIn(t, Pre(p, k))

\* The tree is one, and the current directory is a directory of it.
FilesInv == TreeOK(tree) /\ DirIn(tree, cwd)

LEMMA PreProps ==
  ASSUME NEW p \in Paths, NEW k \in 0..Len(p)
  PROVE  Pre(p, k) \in Paths /\ Len(Pre(p, k)) = k /\ \A i \in 1..k : Pre(p, k)[i] = p[i]
<1>1. Len(p) \in Nat /\ k \in Nat /\ k <= Len(p) /\ p \in Seq(EntryNames)
  BY DEF Paths
<1>2. \A i \in 1..k : p[i] \in EntryNames
  BY <1>1, ElementOfSeq
<1>3. /\ Pre(p, k) \in Seq(EntryNames)
      /\ Len(Pre(p, k)) = IF 1 <= k THEN k - 1 + 1 ELSE 0
      /\ \A i \in 1..k - 1 + 1 : Pre(p, k)[i] = p[1 + i - 1]
  BY <1>1, <1>2, SubSeqProperties DEF Pre
<1>4. k - 1 + 1 = k /\ (~(1 <= k) => k = 0) /\ \A i \in 1..k : 1 + i - 1 = i
  BY <1>1
<1>. QED
  BY <1>3, <1>4 DEF Paths

LEMMA SamePath ==
  ASSUME NEW p \in Paths, NEW q \in Paths, Len(p) = Len(q), \A i \in 1..Len(p) : p[i] = q[i]
  PROVE  p = q
  BY SeqEqual DEF Paths

LEMMA PreFull ==
  ASSUME NEW p \in Paths
  PROVE  Pre(p, Len(p)) = p /\ Pre(p, 0) = <<>> /\ Len(p) \in Nat
<1>1. Len(p) \in Nat
  BY DEF Paths
<1>2. Pre(p, Len(p)) = p
  BY SubSeqFull DEF Pre, Paths
<1>3. Pre(p, 0) = <<>>
  BY SubSeqEmpty DEF Pre
<1>. QED
  BY <1>1, <1>2, <1>3

LEMMA PrePre ==
  ASSUME NEW p \in Paths, NEW j \in 0..Len(p), NEW k \in 0..j
  PROVE  Pre(Pre(p, j), k) = Pre(p, k)
<1>1. Pre(p, j) \in Paths /\ Len(Pre(p, j)) = j /\ \A i \in 1..j : Pre(p, j)[i] = p[i]
  BY PreProps
<1>2. k \in 0..Len(p) /\ k \in 0..Len(Pre(p, j))
  BY <1>1, PreFull
<1>3. Pre(p, k) \in Paths /\ Len(Pre(p, k)) = k /\ \A i \in 1..k : Pre(p, k)[i] = p[i]
  BY <1>2, PreProps
<1>. DEFINE u == Pre(p, j)
<1>. HIDE DEF u
<1>4. u \in Paths /\ k \in 0..Len(u) /\ u = Pre(p, j)
  BY <1>1, <1>2 DEF u
<1>5. Pre(u, k) \in Paths /\ Len(Pre(u, k)) = k /\ \A i \in 1..k : Pre(u, k)[i] = u[i]
  BY <1>4, PreProps
<1>6. \A i \in 1..k : i \in 1..j
  OBVIOUS
<1>7. Pre(u, k) = Pre(p, k)
  BY <1>1, <1>3, <1>4, <1>5, <1>6, SamePath
<1>. QED
  BY <1>4, <1>7

\* An entry of a directory.
LEMMA EntryPath ==
  ASSUME NEW d \in Paths, NEW n \in EntryNames
  PROVE  /\ d \o <<n>> = Append(d, n) /\ Append(d, n) \in Paths
         /\ Len(Append(d, n)) = Len(d) + 1 /\ Append(d, n)[Len(d) + 1] = n
         /\ \A k \in 0..Len(d) : Pre(Append(d, n), k) = Pre(d, k)
         /\ Pre(Append(d, n), Len(d)) = d /\ Append(d, n) # d
<1>. DEFINE p == Append(d, n)
<1>1. d \o <<n>> = p
  BY AppendIsConcat DEF Paths
<1>2. /\ p \in Paths /\ Len(p) = Len(d) + 1 /\ p[Len(d) + 1] = n
      /\ \A i \in 1..Len(d) : p[i] = d[i]
  BY AppendProperties DEF Paths
<1>. HIDE DEF p
<1>3. Len(d) \in Nat
  BY PreFull
<1>4. ASSUME NEW k \in 0..Len(d)  PROVE Pre(p, k) = Pre(d, k)
  <2>1. k \in 0..Len(p) /\ \A i \in 1..k : i \in 1..Len(d)
    BY <1>2, <1>3
  <2>2. Pre(p, k) \in Paths /\ Len(Pre(p, k)) = k /\ \A i \in 1..k : Pre(p, k)[i] = p[i]
    BY <1>2, <2>1, PreProps
  <2>3. Pre(d, k) \in Paths /\ Len(Pre(d, k)) = k /\ \A i \in 1..k : Pre(d, k)[i] = d[i]
    BY PreProps
  <2>. QED
    BY <1>2, <2>1, <2>2, <2>3, SamePath
<1>5. Len(d) \in 0..Len(d)
  BY <1>3
<1>6. Pre(p, Len(d)) = d
  BY <1>4, <1>5, PreFull
<1>7. p # d
  <2>1. Len(d) + 1 # Len(d)
    BY <1>3
  <2>. QED
    BY <1>2, <2>1
<1>. QED
  BY <1>1, <1>2, <1>4, <1>6, <1>7 DEF p

LEMMA UnderPre ==
  ASSUME NEW p \in Paths, NEW top \in Paths
  PROVE  Under(p, top) <=> Len(top) <= Len(p) /\ Pre(p, Len(top)) = top
  BY PreFull DEF Under, IsPrefix, Pre

\* What is below a prefix of a path is above the path.
LEMMA UnderFromPre ==
  ASSUME NEW p \in Paths, NEW top \in Paths, NEW k \in 0..Len(p), Under(Pre(p, k), top)
  PROVE  Under(p, top)
<1>1. Pre(p, k) \in Paths /\ Len(Pre(p, k)) = k
  BY PreProps
<1>2. Len(top) <= k /\ Pre(Pre(p, k), Len(top)) = top
  BY <1>1, UnderPre
<1>3. Len(top) \in 0..k /\ Len(top) <= Len(p)
  BY <1>2, PreFull
<1>4. Pre(Pre(p, k), Len(top)) = Pre(p, Len(top))
  BY <1>3, PrePre
<1>. QED
  BY <1>2, <1>3, <1>4, UnderPre

\* A tree with data put at p.
LEMMA PutOK ==
  ASSUME NEW t, TreeOK(t), NEW d, DirIn(t, d), NEW n \in EntryNames,
         ~DirIn(t, Append(d, n)), NEW data, NEW u, u = Put(t, Append(d, n), data)
  PROVE  TreeOK(u) /\ \A q : DirIn(t, q) => DirIn(u, q)
<1>1. DOMAIN t \subseteq Paths /\ d \in Paths
  BY DEF TreeOK, DirIn
<1>2. Append(d, n) \in Paths /\ Len(Append(d, n)) = Len(d) + 1
      /\ \A k \in 0..Len(d) : Pre(Append(d, n), k) = Pre(d, k)
  BY <1>1, EntryPath
<1>. DEFINE p == Append(d, n)
<1>. HIDE DEF p
<1>3. DOMAIN u = DOMAIN t \cup {p} /\ \A q \in DOMAIN t : q # p => u[q] = t[q]
  BY DEF p, Put
<1>4. ASSUME NEW q, DirIn(t, q)  PROVE DirIn(u, q)
  BY <1>3, <1>4 DEF DirIn, p
<1>5. ASSUME NEW q \in DOMAIN u, NEW k \in 0..Len(q) - 1  PROVE DirIn(t, Pre(q, k))
  <2>1. CASE q = p
    <3>1. Len(d) \in Nat /\ Pre(d, Len(d)) = d
      BY <1>1, PreFull
    <3>2. k \in 0..Len(d) /\ Pre(q, k) = Pre(d, k)
      BY <1>2, <2>1, <3>1 DEF p
    <3>3. CASE k = Len(d)
      BY <3>1, <3>2, <3>3
    <3>4. CASE k # Len(d)
      <4>1. k \in 0..Len(d) - 1
        BY <3>1, <3>2, <3>4
      <4>. QED
        BY <3>2, <4>1 DEF TreeOK, DirIn
    <3>. QED
      BY <3>3, <3>4
  <2>2. CASE q # p
    BY <1>3, <2>2 DEF TreeOK
  <2>. QED
    BY <2>1, <2>2
<1>6. DOMAIN u \subseteq Paths
  BY <1>1, <1>2, <1>3 DEF p
<1>7. DirIn(u, <<>>)
  BY <1>4 DEF TreeOK
<1>. QED
  BY <1>4, <1>5, <1>6, <1>7 DEF TreeOK

LEMMA GoneOK ==
  ASSUME NEW t, TreeOK(t), NEW p \in Paths, p # <<>>
  PROVE  TreeOK(Gone(t, p)) /\ \A q : DirIn(t, q) /\ ~Under(q, p) => DirIn(Gone(t, p), q)
<1>. DEFINE u == Gone(t, p)
<1>1. /\ DOMAIN u = {r \in DOMAIN t : ~Under(r, p)}
      /\ \A r \in DOMAIN u : u[r] = t[r]
  BY DEF Gone
<1>. HIDE DEF u
<1>2. \A q : DirIn(t, q) /\ ~Under(q, p) => DirIn(u, q)
  BY <1>1 DEF DirIn
<1>3. ~Under(<<>>, p)
  <2>1. <<>> \in Paths /\ Len(<<>>) = 0 /\ Len(p) \in Nat \ {0}
    BY EmptySeq DEF Paths
  <2>. QED
    BY <2>1, UnderPre
<1>4. ASSUME NEW q \in DOMAIN u, NEW k \in 0..Len(q) - 1  PROVE DirIn(u, Pre(q, k))
  <2>1. q \in DOMAIN t /\ q \in Paths /\ ~Under(q, p)
    BY <1>1 DEF TreeOK
  <2>2. k \in 0..Len(q)
    BY <2>1, PreFull
  <2>3. ~Under(Pre(q, k), p)
    BY <2>1, <2>2, UnderFromPre
  <2>. QED
    BY <1>2, <2>1, <2>3 DEF TreeOK
<1>5. TreeOK(u)
  <2>1. DirIn(u, <<>>)
    BY <1>2, <1>3 DEF TreeOK
  <2>2. DOMAIN u \subseteq Paths
    BY <1>1 DEF TreeOK
  <2>. QED
    BY <1>4, <2>1, <2>2 DEF TreeOK
<1>. QED
  BY <1>2, <1>5 DEF u

\* q with the directory entry a at its front replaced by b.
Swap(q, a, b) == IF Under(q, a) THEN b \o SubSeq(q, Len(a) + 1, Len(q)) ELSE q

LEMMA SwapProps ==
  ASSUME NEW a \in Paths, NEW b \in Paths, Len(a) = Len(b), NEW q \in Paths, Under(q, a)
  PROVE  /\ Swap(q, a, b) \in Paths /\ Len(Swap(q, a, b)) = Len(q)
         /\ Len(a) \in 0..Len(q) /\ Len(q) \in Nat
         /\ \A i \in 1..Len(a) : q[i] = a[i] /\ Swap(q, a, b)[i] = b[i]
         /\ \A i \in Len(a) + 1..Len(q) : Swap(q, a, b)[i] = q[i]
<1>1. Len(a) \in Nat /\ Len(q) \in Nat /\ Len(a) <= Len(q) /\ Pre(q, Len(a)) = a
  BY UnderPre, PreFull
<1>2. \A i \in 1..Len(a) : q[i] = a[i]
  <2>1. Len(a) \in 0..Len(q)
    BY <1>1
  <2>. QED
    BY <1>1, <2>1, PreProps
<1>. DEFINE t == SubSeq(q, Len(a) + 1, Len(q))
<1>3. /\ t \in Paths
      /\ Len(t) = IF Len(a) + 1 <= Len(q) THEN Len(q) - (Len(a) + 1) + 1 ELSE 0
      /\ \A i \in 1..Len(q) - (Len(a) + 1) + 1 : t[i] = q[Len(a) + 1 + i - 1]
  <2>1. Len(a) + 1 \in Int /\ Len(q) \in Int
    BY <1>1
  <2>2. \A i \in Len(a) + 1..Len(q) : i \in 1..Len(q)
    BY <1>1
  <2>3. \A i \in Len(a) + 1..Len(q) : q[i] \in EntryNames
    BY <2>2, ElementOfSeq DEF Paths
  <2>. QED
    BY <2>1, <2>3, SubSeqProperties DEF Paths
<1>. HIDE DEF t
<1>4. Len(t) = Len(q) - Len(a)
  BY <1>1, <1>3
<1>5. /\ b \o t \in Paths /\ Len(b \o t) = Len(b) + Len(t)
      /\ \A i \in 1..Len(b) + Len(t) : (b \o t)[i] = IF i <= Len(b) THEN b[i] ELSE t[i - Len(b)]
  BY <1>3, ConcatProperties DEF Paths
<1>6. Swap(q, a, b) = b \o t
  BY DEF Swap, t
<1>7. \A i \in 1..Len(a) : (b \o t)[i] = b[i]
  BY <1>1, <1>4, <1>5
<1>8. ASSUME NEW i \in Len(a) + 1..Len(q)  PROVE (b \o t)[i] = q[i]
  <2>1. i \in 1..Len(b) + Len(t) /\ ~(i <= Len(b)) /\ i - Len(b) \in 1..Len(q) - (Len(a) + 1) + 1
        /\ Len(a) + 1 + (i - Len(b)) - 1 = i
    BY <1>1, <1>4
  <2>2. (b \o t)[i] = t[i - Len(b)]
    BY <1>5, <2>1
  <2>3. t[i - Len(b)] = q[Len(a) + 1 + (i - Len(b)) - 1]
    BY <1>3, <2>1
  <2>. QED
    BY <2>1, <2>2, <2>3
<1>9. Len(b \o t) = Len(q)
  BY <1>1, <1>4, <1>5
<1>10. Len(a) \in 0..Len(q)
  BY <1>1
<1>. QED
  BY <1>1, <1>2, <1>5, <1>6, <1>7, <1>8, <1>9, <1>10

LEMMA SwapUnder ==
  ASSUME NEW a \in Paths, NEW b \in Paths, Len(a) = Len(b), NEW q \in Paths, Under(q, a)
  PROVE  /\ Under(Swap(q, a, b), b)
         /\ \A k \in 0..Len(a) : Pre(Swap(q, a, b), k) = Pre(b, k)
<1>. DEFINE r == Swap(q, a, b)
<1>1. /\ r \in Paths /\ Len(r) = Len(q) /\ Len(a) \in 0..Len(q) /\ Len(q) \in Nat
      /\ \A i \in 1..Len(a) : r[i] = b[i]
  BY SwapProps
<1>. HIDE DEF r
<1>2. ASSUME NEW k \in 0..Len(a)  PROVE Pre(r, k) = Pre(b, k)
  <2>1. k \in 0..Len(r) /\ k \in 0..Len(b) /\ \A i \in 1..k : i \in 1..Len(a)
    BY <1>1
  <2>2. Pre(r, k) \in Paths /\ Len(Pre(r, k)) = k /\ \A i \in 1..k : Pre(r, k)[i] = r[i]
    BY <1>1, <2>1, PreProps
  <2>3. Pre(b, k) \in Paths /\ Len(Pre(b, k)) = k /\ \A i \in 1..k : Pre(b, k)[i] = b[i]
    BY <2>1, PreProps
  <2>. QED
    BY <1>1, <2>1, <2>2, <2>3, SamePath
<1>3. Len(b) \in 0..Len(a) /\ Len(b) <= Len(r)
  BY <1>1
<1>4. Pre(r, Len(b)) = b
  BY <1>2, <1>3, PreFull
<1>5. Under(r, b)
  BY <1>1, <1>3, <1>4, UnderPre
<1>. QED
  BY <1>2, <1>5 DEF r

LEMMA SwapBack ==
  ASSUME NEW a \in Paths, NEW b \in Paths, Len(a) = Len(b), NEW q \in Paths, Under(q, a)
  PROVE  Swap(Swap(q, a, b), b, a) = q
<1>. DEFINE r == Swap(q, a, b)
            s == Swap(r, b, a)
<1>1. /\ r \in Paths /\ Len(r) = Len(q) /\ Len(a) \in 0..Len(q) /\ Len(q) \in Nat
      /\ \A i \in 1..Len(a) : q[i] = a[i]
      /\ \A i \in Len(a) + 1..Len(q) : r[i] = q[i]
  BY SwapProps
<1>2. Under(r, b)
  BY SwapUnder
<1>. HIDE DEF r
<1>3. /\ s \in Paths /\ Len(s) = Len(r)
      /\ \A i \in 1..Len(b) : s[i] = a[i]
      /\ \A i \in Len(b) + 1..Len(r) : s[i] = r[i]
  BY <1>1, <1>2, SwapProps
<1>. HIDE DEF s
<1>4. ASSUME NEW i \in 1..Len(s)  PROVE s[i] = q[i]
  <2>1. i \in 1..Len(a) \/ i \in Len(a) + 1..Len(q)
    BY <1>1, <1>3
  <2>. QED
    BY <1>1, <1>3, <2>1
<1>5. s = q
  BY <1>1, <1>3, <1>4, SamePath
<1>. QED
  BY <1>5 DEF r, s

LEMMA SwapPre ==
  ASSUME NEW a \in Paths, NEW b \in Paths, Len(a) = Len(b), NEW q \in Paths, Under(q, a),
         NEW k \in Len(a)..Len(q)
  PROVE  Under(Pre(q, k), a) /\ Pre(Swap(q, a, b), k) = Swap(Pre(q, k), a, b)
<1>. DEFINE r == Swap(q, a, b)
            s == Pre(q, k)
            u == Swap(s, a, b)
<1>1. /\ r \in Paths /\ Len(r) = Len(q) /\ Len(a) \in 0..Len(q) /\ Len(q) \in Nat
      /\ \A i \in 1..Len(a) : r[i] = b[i]
      /\ \A i \in Len(a) + 1..Len(q) : r[i] = q[i]
  BY SwapProps
<1>. HIDE DEF r
<1>2. k \in 0..Len(q) /\ k \in 0..Len(r) /\ Len(a) \in 0..k /\ k \in Nat
  BY <1>1
<1>3. s \in Paths /\ Len(s) = k /\ \A i \in 1..k : s[i] = q[i]
  BY <1>2, PreProps
<1>4. Under(s, a)
  <2>1. Pre(s, Len(a)) = Pre(q, Len(a))
    BY <1>2, PrePre
  <2>2. Pre(q, Len(a)) = a
    BY UnderPre
  <2>. HIDE DEF s
  <2>3. Len(a) <= Len(s)
    BY <1>2, <1>3
  <2>. QED
    BY <1>3, <2>1, <2>2, <2>3, UnderPre
<1>. HIDE DEF s
<1>5. /\ u \in Paths /\ Len(u) = Len(s)
      /\ \A i \in 1..Len(a) : u[i] = b[i]
      /\ \A i \in Len(a) + 1..Len(s) : u[i] = s[i]
  BY <1>3, <1>4, SwapProps
<1>. HIDE DEF u
<1>6. Pre(r, k) \in Paths /\ Len(Pre(r, k)) = k /\ \A i \in 1..k : Pre(r, k)[i] = r[i]
  BY <1>1, <1>2, PreProps
<1>7. ASSUME NEW i \in 1..Len(u)  PROVE u[i] = Pre(r, k)[i]
  <2>0. i \in 1..k
    BY <1>3, <1>5
  <2>1. CASE i \in 1..Len(a)
    BY <1>1, <1>5, <1>6, <2>0, <2>1
  <2>2. CASE i \notin 1..Len(a)
    <3>1. i \in Len(a) + 1..Len(q) /\ i \in Len(a) + 1..Len(s)
      BY <1>1, <1>2, <1>3, <2>0, <2>2
    <3>. QED
      BY <1>1, <1>3, <1>5, <1>6, <2>0, <3>1
  <2>. QED
    BY <2>1, <2>2
<1>8. u = Pre(r, k)
  BY <1>3, <1>5, <1>6, <1>7, SamePath
<1>. QED
  BY <1>4, <1>8 DEF r, s, u

\* What leads to an entry that was renamed: to the new name, and below it.
Leads(q, a, b, d, k) ==
  /\ k \in 0..Len(q) - 1
  /\ k <= Len(d) => Pre(Swap(q, a, b), k) = Pre(d, k)
  /\ ~(k <= Len(d)) => Pre(Swap(q, a, b), k) = Swap(Pre(q, k), a, b)

LEMMA SwapAbove ==
  ASSUME NEW d \in Paths, NEW a \in Paths, NEW b \in Paths,
         Len(a) = Len(d) + 1, Len(b) = Len(d) + 1, \A k \in 0..Len(d) : Pre(b, k) = Pre(d, k),
         NEW q \in Paths, Under(q, a), NEW k \in 0..Len(Swap(q, a, b)) - 1
  PROVE  Leads(q, a, b, d, k)
<1>1. Len(a) = Len(b) /\ Len(d) \in Nat
  BY PreFull
<1>2. Len(Swap(q, a, b)) = Len(q) /\ Len(q) \in Nat
  BY <1>1, SwapProps
<1>3. k \in 0..Len(q) - 1
  BY <1>2
<1>4. ASSUME k <= Len(d)  PROVE Pre(Swap(q, a, b), k) = Pre(d, k)
  <2>1. k \in 0..Len(a) /\ k \in 0..Len(d)
    BY <1>1, <1>3, <1>4
  <2>2. Pre(Swap(q, a, b), k) = Pre(b, k)
    BY <1>1, <2>1, SwapUnder
  <2>. QED
    BY <2>1, <2>2
<1>5. ASSUME ~(k <= Len(d))  PROVE Pre(Swap(q, a, b), k) = Swap(Pre(q, k), a, b)
  <2>1. k \in Len(a)..Len(q)
    BY <1>1, <1>2, <1>3, <1>5
  <2>. QED
    BY <1>1, <2>1, SwapPre
<1>. QED
  BY <1>3, <1>4, <1>5 DEF Leads

LEMMA SwapSelf ==
  ASSUME NEW a \in Paths, NEW b \in Paths, Len(a) = Len(b)
  PROVE  Under(a, a) /\ Swap(a, a, b) = b
<1>1. Under(a, a)
  BY UnderPre, PreFull
<1>. DEFINE s == Swap(a, a, b)
<1>2. s \in Paths /\ Len(s) = Len(a)
  BY <1>1, SwapProps, Zenon
<1>3. Under(s, b)
  BY <1>1, SwapUnder, Zenon
<1>. HIDE DEF s
<1>4. Pre(s, Len(s)) = s /\ Pre(s, Len(b)) = b
  BY <1>2, <1>3, UnderPre, PreFull
<1>5. s = b
  BY <1>2, <1>4
<1>. QED
  BY <1>1, <1>5 DEF s

\* A new name for an entry of a directory: what the tree becomes.
Renamed(u, from, to) ==
  /\ TreeOK(u)
  /\ \A q \in DOMAIN tree : ~Under(q, from) => q \in DOMAIN u /\ u[q] = tree[q]
  /\ to \in DOMAIN u /\ u[to] = tree[from]
  /\ to # from => from \notin DOMAIN u

LEMMA MovedOK ==
  ASSUME TreeOK(tree), NEW d, DirIn(tree, d), NEW n \in EntryNames, NEW m \in EntryNames,
         NEW from, from = Append(d, n), NEW to, to = Append(d, m),
         from \in DOMAIN tree, to \notin DOMAIN tree \/ to = from,
         NEW u, u = Moved(from, to)
  PROVE  Renamed(u, from, to)
<1>1. DOMAIN tree \subseteq Paths /\ d \in Paths /\ Len(d) \in Nat
  BY PreFull DEF TreeOK, DirIn
<1>2. /\ from \in Paths /\ to \in Paths /\ Len(from) = Len(d) + 1 /\ Len(to) = Len(d) + 1
      /\ \A k \in 0..Len(d) : Pre(to, k) = Pre(d, k)
  BY <1>1, EntryPath
<1>3. /\ DOMAIN u = {Swap(r, from, to) : r \in DOMAIN tree}
      /\ \A q \in DOMAIN u : u[q] = tree[Swap(q, to, from)]
  BY Zenon DEF Moved, Swap
<1>4. ASSUME NEW q \in DOMAIN tree, Under(q, to)  PROVE to = from
  <2>1. Len(to) <= Len(q) /\ Pre(q, Len(to)) = to /\ Len(q) \in Nat /\ Pre(q, Len(q)) = q
    BY <1>1, <1>2, <1>4, UnderPre, PreFull
  <2>2. CASE Len(q) = Len(to)
    BY <2>1, <2>2
  <2>3. CASE Len(q) # Len(to)
    <3>1. Len(to) \in 0..Len(q) - 1
      BY <1>1, <1>2, <2>1, <2>3
    <3>2. DirIn(tree, to)
      BY <2>1, <3>1 DEF TreeOK
    <3>. QED
      BY <3>2 DEF DirIn
  <2>. QED
    BY <2>2, <2>3
<1>5. ASSUME NEW r \in DOMAIN tree
      PROVE  Swap(r, from, to) \in DOMAIN u /\ u[Swap(r, from, to)] = tree[r]
  <2>1. Swap(r, from, to) \in DOMAIN u
    BY <1>3
  <2>2. Swap(Swap(r, from, to), to, from) = r
    <3>1. CASE Under(r, from)
      BY <1>1, <1>2, <3>1, SwapBack
    <3>2. CASE ~Under(r, from)
      <4>1. Swap(r, from, to) = r /\ ~Under(r, to)
        BY <1>4, <3>2 DEF Swap
      <4>. QED
        BY <4>1 DEF Swap
    <3>. QED
      BY <3>1, <3>2
  <2>. QED
    BY <1>3, <2>1, <2>2
<1>6. ASSUME NEW q \in DOMAIN tree, ~Under(q, from)  PROVE q \in DOMAIN u /\ u[q] = tree[q]
  BY <1>5, <1>6 DEF Swap
<1>7. ASSUME NEW q \in Paths, Len(q) <= Len(d)  PROVE ~Under(q, from)
  <2>1. ~(Len(from) <= Len(q))
    BY <1>1, <1>2, <1>7, PreFull
  <2>. QED
    BY <1>2, <2>1, UnderPre
<1>8. ASSUME NEW q \in DOMAIN u, NEW k \in 0..Len(q) - 1  PROVE DirIn(u, Pre(q, k))
  <2>1. PICK r \in DOMAIN tree : q = Swap(r, from, to)
    BY <1>3
  <2>2. r \in Paths /\ Len(r) \in Nat
    BY <1>1, PreFull
  <2>3. CASE Under(r, from)
    <3>1. /\ k \in 0..Len(r) - 1
          /\ k <= Len(d) => Pre(q, k) = Pre(d, k)
          /\ ~(k <= Len(d)) => Pre(q, k) = Swap(Pre(r, k), from, to)
      <4>1. k \in 0..Len(Swap(r, from, to)) - 1
        BY <2>1
      <4>2. Leads(r, from, to, d, k)
        BY <1>1, <1>2, <2>2, <2>3, <4>1, SwapAbove, Zenon
      <4>. QED
        BY <2>1, <4>2, Zenon DEF Leads
    <3>2. CASE k <= Len(d)
      <4>1. k \in 0..Len(d)
        BY <1>1, <2>2, <3>1, <3>2
      <4>2. Pre(q, k) = Pre(d, k)
        BY <3>1, <3>2, Zenon
      <4>3. DirIn(tree, Pre(d, k))
        <5>1. CASE k = Len(d)
          BY <1>1, <5>1, PreFull
        <5>2. CASE k # Len(d)
          <6>1. k \in 0..Len(d) - 1
            BY <1>1, <4>1, <5>2
          <6>. QED
            BY <6>1 DEF TreeOK, DirIn
        <5>. QED
          BY <5>1, <5>2
      <4>4. Pre(d, k) \in Paths /\ Len(Pre(d, k)) <= Len(d)
        BY <1>1, <3>2, <4>1, PreProps
      <4>. QED
        BY <1>6, <1>7, <4>2, <4>3, <4>4 DEF DirIn
    <3>3. CASE ~(k <= Len(d))
      <4>2. Pre(q, k) = Swap(Pre(r, k), from, to)
        BY <3>1, <3>3, Zenon
      <4>3. DirIn(tree, Pre(r, k))
        BY <3>1 DEF TreeOK
      <4>. QED
        BY <1>5, <4>2, <4>3 DEF DirIn
    <3>. QED
      BY <3>2, <3>3
  <2>4. CASE ~Under(r, from)
    <3>1. q = r
      BY <2>1, <2>4 DEF Swap
    <3>2. DirIn(tree, Pre(r, k)) /\ k \in 0..Len(r)
      BY <2>2, <3>1 DEF TreeOK
    <3>3. ~Under(Pre(r, k), from)
      BY <1>2, <2>2, <2>4, <3>2, UnderFromPre
    <3>. QED
      BY <1>6, <3>1, <3>2, <3>3 DEF DirIn
  <2>. QED
    BY <2>3, <2>4
<1>9. DirIn(u, <<>>)
  <2>1. <<>> \in Paths /\ Len(<<>>) <= Len(d)
    BY <1>1, EmptySeq DEF Paths
  <2>. QED
    BY <1>6, <1>7, <2>1 DEF TreeOK, DirIn
<1>10. DOMAIN u \subseteq Paths
  <2> SUFFICES ASSUME NEW r \in DOMAIN tree  PROVE Swap(r, from, to) \in Paths
    BY <1>3
  <2>1. CASE Under(r, from)
    BY <1>1, <1>2, <2>1, SwapProps
  <2>2. CASE ~Under(r, from)
    BY <1>1, <2>2 DEF Swap
  <2>. QED
    BY <2>1, <2>2
<1>11. TreeOK(u)
  BY <1>8, <1>9, <1>10 DEF TreeOK
<1>12. Under(from, from) /\ Swap(from, from, to) = to
  <2>1. Len(from) = Len(to)
    BY <1>2
  <2>. QED
    BY <1>2, <2>1, SwapSelf, Zenon
<1>14. ASSUME to # from, from \in DOMAIN u  PROVE FALSE
  <2>1. PICK r \in DOMAIN tree : from = Swap(r, from, to)
    BY <1>3, <1>14
  <2>2. CASE Under(r, from)
    <3>1. Under(from, to)
      BY <1>1, <1>2, <2>1, <2>2, SwapUnder
    <3>2. Pre(from, Len(to)) = to /\ Pre(from, Len(from)) = from
      BY <1>2, <3>1, UnderPre, PreFull
    <3>. QED
      BY <1>2, <1>14, <3>2
  <2>3. CASE ~Under(r, from)
    BY <1>12, <2>1, <2>3 DEF Swap
  <2>. QED
    BY <2>2, <2>3
<1>. QED
  BY <1>5, <1>6, <1>11, <1>12, <1>14 DEF Renamed

\* A walk of fat32_chdir is in a directory wherever it stops.
AtDir(w) == w \in [at : DOMAIN tree, ok : BOOLEAN] /\ tree[w.at] = Dir

LEMMA Enter1OK ==
  ASSUME FilesInv, NEW w, AtDir(w), NEW name  PROVE AtDir(Enter1(w, name))
<1>1. w \in [at : DOMAIN tree, ok : BOOLEAN] /\ tree[w.at] = Dir /\ w.at \in Paths
  BY DEF AtDir, FilesInv, TreeOK
<1>2. CASE ~w.ok \/ name = "."
  BY <1>2 DEF Enter1
<1>3. CASE ~(~w.ok \/ name = ".") /\ name = ".."
  <2>1. Enter1(w, name) = [w EXCEPT !.at = IF @ = <<>> THEN @ ELSE Front(@)]
    BY <1>3 DEF Enter1
  <2>2. CASE w.at = <<>>
    <3>1. Enter1(w, name) = w
      BY <1>1, <2>1, <2>2
    <3>. QED
      BY <3>1
  <2>3. CASE w.at # <<>>
    <3>1. Len(w.at) \in Nat \ {0}
      BY <1>1, <2>3, EmptySeq DEF Paths
    <3>2. Len(w.at) - 1 \in 0..Len(w.at) - 1
      BY <3>1
    <3>3. DirIn(tree, Front(w.at))
      BY <1>1, <3>2 DEF FilesInv, TreeOK, Pre, Front
    <3>4. PICK f : f = Front(w.at)
      OBVIOUS
    <3>5. Enter1(w, name) = [w EXCEPT !.at = f]
      BY <2>1, <2>3, <3>4
    <3>. QED
      BY <1>1, <3>3, <3>4, <3>5 DEF AtDir, DirIn
  <2>. QED
    BY <2>2, <2>3
<1>4. CASE ~(~w.ok \/ name = ".") /\ name # ".."
  <2>1. CASE IsDir(Append(w.at, name))
    <3>1. PICK p : p = Append(w.at, name)
      OBVIOUS
    <3>2. Enter1(w, name) = [w EXCEPT !.at = p]
      BY <1>4, <2>1, <3>1 DEF Enter1
    <3>. QED
      BY <1>1, <2>1, <3>1, <3>2 DEF AtDir, IsDir
  <2>2. CASE ~IsDir(Append(w.at, name))
    <3>1. Enter1(w, name) = [w EXCEPT !.ok = FALSE]
      BY <1>4, <2>2 DEF Enter1
    <3>. QED
      BY <1>1, <3>1 DEF AtDir
  <2>. QED
    BY <2>1, <2>2
<1>. QED
  BY <1>2, <1>3, <1>4

Names == EntryNames \cup {".", ".."}

LEMMA ChdirOK ==
  ASSUME FilesInv, NEW path, path.dir \in Seq(Names)
  PROVE  AtDir(ChdirFrom(cwd, path))
<1>1. PICK w : w = [at |-> IF path.abs THEN <<>> ELSE cwd, ok |-> TRUE]
  OBVIOUS
<1>2. PICK text, n : text = path.dir /\ n = Len(text)
  OBVIOUS
<1>3. n \in Nat /\ DOMAIN text = 1..n
  BY <1>2
<1>4. PICK g : Enter1Run(g, w, text, n) /\ FoldLeft(Enter1, w, text) = g[n]
  BY <1>3, Enter1Fold, Zenon
<1>5. AtDir(w)
  BY <1>1 DEF AtDir, FilesInv, TreeOK, DirIn
<1>. DEFINE S == {i \in Nat : i <= n => AtDir(g[i])}
<1>6. S = Nat
  <2>1. 0 \in S
    BY <1>4, <1>5 DEF Enter1Run
  <2>2. ASSUME NEW i \in S  PROVE i + 1 \in S
    <3>. SUFFICES ASSUME i + 1 <= n  PROVE AtDir(g[i + 1])
      OBVIOUS
    <3>1. i + 1 \in 1..n /\ (i + 1) - 1 = i /\ i <= n
      BY <1>3
    <3>2. g[i + 1] = Enter1(g[i], text[i + 1])
      BY <1>4, <3>1 DEF Enter1Run
    <3>. QED
      BY <3>1, <3>2, Enter1OK
  <2>. QED
    BY <2>1, <2>2, SetInduction
<1>7. AtDir(g[n])
  BY <1>3, <1>6
<1>. QED
  BY <1>1, <1>2, <1>4, <1>7, Zenon DEF ChdirFrom

\* What mkdir -p has come to after some components: the tree with some
\* directories more, in one of which it is.
Grown(w) ==
  /\ \E a, o, t : w = [at |-> a, ok |-> o, tree |-> t]
  /\ w.ok \in BOOLEAN /\ TreeOK(w.tree) /\ DirIn(w.tree, w.at)
  /\ \A p \in DOMAIN tree : p \in DOMAIN w.tree /\ w.tree[p] = tree[p]

LEMMA GrownIs ==
  ASSUME NEW a, NEW o \in BOOLEAN, NEW t, TreeOK(t), DirIn(t, a),
         \A p \in DOMAIN tree : p \in DOMAIN t /\ t[p] = tree[p]
  PROVE  Grown([at |-> a, ok |-> o, tree |-> t])
<1>1. PICK x : x = [at |-> a, ok |-> o, tree |-> t]
  OBVIOUS
<1>2. x.at = a /\ x.ok = o /\ x.tree = t
  BY <1>1
<1>3. \E b, c, d : x = [at |-> b, ok |-> c, tree |-> d]
  BY <1>1, Zenon
<1>4. Grown(x)
  BY <1>2, <1>3 DEF Grown
<1>. QED
  BY <1>1, <1>4

LEMMA MadeInOK ==
  ASSUME NEW w, Grown(w), NEW n \in EntryNames  PROVE Grown(MadeIn(w, n))
<1>1. PICK a, o, t : w = [at |-> a, ok |-> o, tree |-> t]
  BY DEF Grown
<1>2. /\ o \in BOOLEAN /\ TreeOK(t) /\ DirIn(t, a)
      /\ \A q \in DOMAIN tree : q \in DOMAIN t /\ t[q] = tree[q]
      /\ w.at = a /\ w.ok = o /\ w.tree = t
  BY <1>1 DEF Grown
<1>3. PICK p : p = Append(a, n)
  OBVIOUS
<1>4. PICK u : u = [q \in DOMAIN t \cup {p} |-> IF q = p THEN Dir ELSE t[q]]
  OBVIOUS
<1>5. CASE ~o
  BY <1>2, <1>5 DEF MadeIn
<1>6. CASE o /\ p \in DOMAIN t /\ t[p] = Dir
  <2>1. MadeIn(w, n) = [at |-> p, ok |-> TRUE, tree |-> t]
    BY <1>1, <1>2, <1>3, <1>6 DEF MadeIn
  <2>2. DirIn(t, p)
    BY <1>6 DEF DirIn
  <2>. QED
    BY <1>2, <2>1, <2>2, GrownIs
<1>7. CASE o /\ p \in DOMAIN t /\ t[p] # Dir
  <2>1. MadeIn(w, n) = [at |-> a, ok |-> FALSE, tree |-> t]
    BY <1>1, <1>2, <1>3, <1>7 DEF MadeIn
  <2>. QED
    BY <1>2, <2>1, GrownIs
<1>8. CASE o /\ p \notin DOMAIN t
  <2>1. MadeIn(w, n) = [at |-> p, ok |-> o, tree |-> u]
    BY <1>1, <1>2, <1>3, <1>4, <1>8 DEF MadeIn
  <2>2. TreeOK(u)
    <3>1. ~DirIn(t, Append(a, n))
      BY <1>3, <1>8 DEF DirIn
    <3>2. u = Put(t, Append(a, n), Dir)
      BY <1>3, <1>4, Zenon DEF Put
    <3>3. TreeOK(t) /\ DirIn(t, a)
      BY <1>2
    <3>. QED
      BY <3>1, <3>2, <3>3, PutOK
  <2>3. DirIn(u, p) /\ \A q \in DOMAIN t : q \in DOMAIN u /\ u[q] = t[q]
    BY <1>4, <1>8 DEF DirIn
  <2>4. \A q \in DOMAIN tree : q \in DOMAIN u /\ u[q] = tree[q]
    BY <1>2, <2>3
  <2>. QED
    BY <1>2, <2>1, <2>2, <2>3, <2>4, GrownIs
<1>. QED
  BY <1>2, <1>5, <1>6, <1>7, <1>8

LEMMA MadeOK ==
  ASSUME FilesInv, NEW abs, NEW text \in Seq(EntryNames)
  PROVE  Grown(FoldLeft(MadeIn, [at |-> IF abs THEN <<>> ELSE cwd, ok |-> TRUE, tree |-> tree], text))
<1>1. PICK w : w = [at |-> IF abs THEN <<>> ELSE cwd, ok |-> TRUE, tree |-> tree]
  OBVIOUS
<1>2. PICK n : n = Len(text)
  OBVIOUS
<1>3. n \in Nat /\ DOMAIN text = 1..n
  BY <1>2
<1>4. PICK g : MadeInRun(g, w, text, n) /\ FoldLeft(MadeIn, w, text) = g[n]
  BY <1>3, MadeInFold, Zenon
<1>5. Grown(w)
  <2>1. w.at = (IF abs THEN <<>> ELSE cwd) /\ w.ok = TRUE /\ w.tree = tree
    BY <1>1
  <2>2. DirIn(tree, w.at)
    BY <2>1 DEF FilesInv, TreeOK
  <2>. QED
    BY <1>1, <2>1, <2>2 DEF Grown, FilesInv
<1>. DEFINE S == {i \in Nat : i <= n => Grown(g[i])}
<1>6. S = Nat
  <2>1. 0 \in S
    BY <1>4, <1>5 DEF MadeInRun
  <2>2. ASSUME NEW i \in S  PROVE i + 1 \in S
    <3>. SUFFICES ASSUME i + 1 <= n  PROVE Grown(g[i + 1])
      OBVIOUS
    <3>1. i + 1 \in 1..n /\ (i + 1) - 1 = i /\ i <= n
      BY <1>3
    <3>2. g[i + 1] = MadeIn(g[i], text[i + 1]) /\ text[i + 1] \in EntryNames
      BY <1>2, <1>4, <3>1 DEF MadeInRun
    <3>. QED
      BY <3>1, <3>2, MadeInOK
  <2>. QED
    BY <2>1, <2>2, SetInduction
<1>7. Grown(g[n])
  BY <1>3, <1>6
<1>. QED
  BY <1>1, <1>4, <1>7, Zenon

-----------------------------------------------------------------------------
(***************************************************************************)
(* The commands.                                                           *)
(***************************************************************************)

\* What a command must have done, beside where it is then.
Good == TreeOK(tree') /\ (DirIn(tree, cwd) => DirIn(tree', cwd)) /\ OnlyNamed /\ FailedIsNothing /\ Arrived

LEMMA KeptDir ==
  ASSUME FilesInv, Good, last'.cmd \notin {"cd", "mkdir -p"}, UNCHANGED cwd
  PROVE  FilesInv' /\ FileStep
  BY DEF FilesInv, Good, FileStep, CwdBack, DirIn

LEMMA FailsOK ==
  ASSUME FilesInv, NEW cmd, NEW from, NEW to, Fails(cmd, from, to)
  PROVE  Good /\ last'.cmd = cmd
<1>1. tree' = tree /\ last'.ok = FALSE /\ last'.cmd = cmd
  BY DEF Fails, Did
<1>. QED
  BY <1>1 DEF FilesInv, Good, OnlyNamed, FailedIsNothing, Arrived, Same, TreeOK, DirIn

\* A file is written, which is what was at from.
LEMMA PutGood ==
  ASSUME FilesInv, NEW cmd, NEW from, NEW d, DirIn(tree, d), NEW n \in EntryNames,
         NEW to, to = Append(d, n), ~IsDir(to), NEW data,
         Did(cmd, TRUE, from, to), tree' = Put(tree, to, data),
         cmd # "mv", (cmd = "cp" /\ to # from) => data = Cut(tree[from], CopyMax)
  PROVE  Good /\ last'.cmd = cmd
<1>1. last'.cmd = cmd /\ last'.ok = TRUE /\ last'.from = from /\ last'.to = to
  BY DEF Did
<1>2. tree' = Put(tree, Append(d, n), data)
  BY Zenon
<1>3. TreeOK(tree')
  <2>1. ~DirIn(tree, Append(d, n))
    BY DEF IsDir, DirIn
  <2>2. PICK u : u = tree'
    OBVIOUS
  <2>. QED
    BY <1>2, <2>1, <2>2, PutOK, Zenon DEF FilesInv
<1>4. /\ DOMAIN tree' = DOMAIN tree \cup {to} /\ tree'[to] = data
      /\ \A q \in DOMAIN tree : q # to => tree'[q] = tree[q]
  BY <1>2 DEF Put
<1>5. OnlyNamed /\ FailedIsNothing
  BY <1>1, <1>4 DEF OnlyNamed, FailedIsNothing, Same
<1>6. Arrived
  BY <1>1, <1>4 DEF Arrived
<1>7. ASSUME NEW q, DirIn(tree, q) PROVE DirIn(tree', q)
  BY <1>4, <1>7 DEF DirIn, IsDir
<1>. QED
  BY <1>1, <1>3, <1>5, <1>6, <1>7 DEF Good

\* The driver gives up once the entry's clusters are free.
LEMMA LostGood ==
  ASSUME FilesInv, NEW cmd, NEW from, NEW d, DirIn(tree, d), NEW n \in EntryNames,
         NEW to, to = Append(d, n), ~IsDir(to),
         Did(cmd, FALSE, from, to), tree' = Put(tree, to, Lost)
  PROVE  Good /\ last'.cmd = cmd
<1>1. last'.cmd = cmd /\ last'.ok = FALSE /\ last'.from = from /\ last'.to = to
  BY DEF Did
<1>2. tree' = Put(tree, Append(d, n), Lost)
  BY Zenon
<1>3. TreeOK(tree')
  <2>1. ~DirIn(tree, Append(d, n))
    BY DEF IsDir, DirIn
  <2>2. PICK u, data : u = tree' /\ data = Lost
    OBVIOUS
  <2>. QED
    BY <1>2, <2>1, <2>2, PutOK, Zenon DEF FilesInv
<1>4. /\ DOMAIN tree' = DOMAIN tree \cup {to} /\ tree'[to] = Lost
      /\ \A q \in DOMAIN tree : q # to => tree'[q] = tree[q]
  BY <1>2 DEF Put
<1>5. GaveUp
  BY <1>1, <1>4 DEF GaveUp
<1>6. OnlyNamed /\ FailedIsNothing /\ Arrived
  BY <1>1, <1>4, <1>5 DEF OnlyNamed, FailedIsNothing, Same, Arrived
<1>7. ASSUME NEW q, DirIn(tree, q) PROVE DirIn(tree', q)
  BY <1>4, <1>7 DEF DirIn, IsDir
<1>. QED
  BY <1>1, <1>3, <1>6, <1>7 DEF Good

LEMMA WriteFailsOK ==
  ASSUME FilesInv, NEW cmd, NEW from, NEW d, DirIn(tree, d), NEW n \in EntryNames,
         NEW to, to = Append(d, n), WriteFails(cmd, from, to)
  PROVE  Good /\ last'.cmd = cmd
<1>1. CASE Fails(cmd, from, to)
  BY <1>1, FailsOK
<1>2. CASE IsFile(to) /\ Did(cmd, FALSE, from, to) /\ tree' = Put(tree, to, Lost)
  <2>1. ~IsDir(to)
    BY <1>2 DEF IsFile, IsDir
  <2>. QED
    BY <1>2, <2>1, LostGood, Zenon
<1>. QED
  BY <1>1, <1>2 DEF WriteFails

LEMMA StoresOK ==
  ASSUME FilesInv, NEW cmd, NEW from, NEW d, DirIn(tree, d), NEW n \in EntryNames,
         NEW to, to = Append(d, n), NEW data, Stores(cmd, from, to, data),
         cmd # "mv", (cmd = "cp" /\ to # from) => data = Cut(tree[from], CopyMax)
  PROVE  Good /\ last'.cmd = cmd
<1>1. CASE WriteFails(cmd, from, to)
  BY <1>1, WriteFailsOK, Zenon
<1>2. CASE ~IsDir(to) /\ Did(cmd, TRUE, from, to) /\ tree' = Put(tree, to, data)
  BY <1>2, PutGood, Zenon
<1>. QED
  BY <1>1, <1>2 DEF Stores

LEMMA Here ==
  ASSUME FilesInv, NEW n \in EntryNames
  PROVE  /\ DirIn(tree, cwd) /\ cwd \in Paths /\ cwd \o <<n>> = Append(cwd, n)
         /\ Append(cwd, n) \in Paths /\ Append(cwd, n) # <<>> /\ ~Under(cwd, Append(cwd, n))
<1>1. DirIn(tree, cwd) /\ cwd \in Paths
  BY DEF FilesInv, TreeOK, DirIn
<1>2. cwd \o <<n>> = Append(cwd, n) /\ Append(cwd, n) \in Paths /\ Len(Append(cwd, n)) = Len(cwd) + 1
  BY <1>1, EntryPath
<1>3. Len(cwd) \in Nat /\ Len(<<>>) = 0
  BY <1>1, PreFull, EmptySeq
<1>4. ~(Len(Append(cwd, n)) <= Len(cwd)) /\ Len(Append(cwd, n)) # 0
  BY <1>2, <1>3
<1>. QED
  BY <1>1, <1>2, <1>3, <1>4, UnderPre

\* write, touch, edit and a program's own writing name the file they store.
LEMMA StoresHere ==
  ASSUME FilesInv, NEW cmd, NEW n \in EntryNames, NEW data, NEW p, p = cwd \o <<n>>,
         Stores(cmd, p, p, data), cmd \notin {"mv", "cd", "mkdir -p"}, UNCHANGED cwd
  PROVE  FilesInv' /\ FileStep
<1>1. DirIn(tree, cwd) /\ p = Append(cwd, n)
  BY Here
<1>2. Good /\ last'.cmd = cmd
  BY <1>1, StoresOK, Zenon
<1>. QED
  BY <1>2, KeptDir

\* What is left when the last write of a delete fails.
LEMMA FreedOK ==
  ASSUME NEW t, TreeOK(t), NEW d, DirIn(t, d), NEW n \in EntryNames, NEW p, p = Append(d, n)
  PROVE  /\ TreeOK(Put(Gone(t, p), p, Lost))
         /\ \A q : DirIn(t, q) /\ ~Under(q, p) => DirIn(Put(Gone(t, p), p, Lost), q)
<1>1. d \in Paths
  BY DEF TreeOK, DirIn
<1>2. p \in Paths /\ Len(p) = Len(d) + 1 /\ Len(d) \in Nat /\ Pre(p, Len(p)) = p
  BY <1>1, EntryPath, PreFull
<1>3. p # <<>> /\ Under(p, p) /\ ~Under(d, p)
  <2>1. Len(<<>>) = 0
    BY EmptySeq
  <2>2. Len(p) # 0 /\ Len(p) <= Len(p) /\ ~(Len(p) <= Len(d))
    BY <1>2
  <2>3. p # <<>>
    BY <2>1, <2>2
  <2>. QED
    BY <1>1, <1>2, <2>2, <2>3, UnderPre
<1>4. PICK u : u = Gone(t, p)
  OBVIOUS
<1>5. TreeOK(u) /\ \A q : DirIn(t, q) /\ ~Under(q, p) => DirIn(u, q)
  BY <1>2, <1>3, <1>4, GoneOK
<1>6. ~DirIn(u, Append(d, n)) /\ DirIn(u, d)
  BY <1>3, <1>4, <1>5 DEF Gone, DirIn
<1>7. PICK v, data : data = Lost /\ v = Put(u, Append(d, n), data)
  OBVIOUS
<1>8. TreeOK(v) /\ \A q : DirIn(u, q) => DirIn(v, q)
  BY <1>5, <1>6, <1>7, PutOK
<1>. QED
  BY <1>4, <1>5, <1>7, <1>8

LEMMA RmOK ==
  ASSUME FilesInv, NEW n \in EntryNames, Rm(n)  PROVE FilesInv' /\ FileStep
<1>1. PICK p : p = cwd \o <<n>>
  OBVIOUS
<1>2. DirIn(tree, cwd) /\ p \in Paths /\ p # <<>> /\ ~Under(cwd, p)
  BY <1>1, Here
<1>3. UNCHANGED cwd
  BY DEF Rm
<1>4. CASE Fails("rm", p, p)
  <2>1. Good /\ last'.cmd = "rm"
    BY <1>4, FailsOK
  <2>. QED
    BY <1>3, <2>1, KeptDir
<1>5. CASE Did("rm", TRUE, p, p) /\ tree' = Gone(tree, p)
  <2>1. last'.cmd = "rm" /\ last'.ok = TRUE /\ last'.from = p /\ last'.to = p
    BY <1>5 DEF Did
  <2>2. TreeOK(tree') /\ DirIn(tree', cwd)
    BY <1>2, <1>5, GoneOK DEF FilesInv
  <2>3. OnlyNamed
    BY <1>5, <2>1 DEF OnlyNamed, Same, Gone
  <2>4. FailedIsNothing /\ Arrived
    BY <2>1 DEF FailedIsNothing, Arrived
  <2>5. Good
    BY <2>2, <2>3, <2>4 DEF Good
  <2>. QED
    BY <1>3, <2>1, <2>5, KeptDir
<1>6. CASE p \in DOMAIN tree /\ Did("rm", FALSE, p, p) /\ tree' = Put(Gone(tree, p), p, Lost)
  <2>1. last'.cmd = "rm" /\ last'.ok = FALSE /\ last'.from = p /\ last'.to = p
    BY <1>6 DEF Did
  <2>2. TreeOK(tree') /\ DirIn(tree', cwd)
    <3>1. p = Append(cwd, n)
      BY <1>1, Here
    <3>. QED
      BY <1>2, <1>6, <3>1, FreedOK DEF FilesInv
  <2>3. /\ p \in DOMAIN tree' /\ tree'[p] = Lost
        /\ \A q \in DOMAIN tree : ~Under(q, p) /\ q # p => q \in DOMAIN tree' /\ tree'[q] = tree[q]
    BY <1>6 DEF Put, Gone
  <2>4. GaveUp
    BY <2>1, <2>3 DEF GaveUp
  <2>5. OnlyNamed /\ FailedIsNothing /\ Arrived
    BY <2>1, <2>3, <2>4 DEF OnlyNamed, FailedIsNothing, Arrived, Same
  <2>6. Good
    BY <2>2, <2>5 DEF Good
  <2>. QED
    BY <1>3, <2>1, <2>6, KeptDir
<1>7. CASE Did("rm", FALSE, p, p) /\ tree' = tree
  <2>1. Fails("rm", p, p)
    BY <1>7 DEF Fails
  <2>. QED
    BY <1>4, <2>1
<1>. QED
  BY <1>1, <1>4, <1>5, <1>6, <1>7 DEF Rm, DeleteFails

LEMMA MkdirOK ==
  ASSUME FilesInv, NEW n \in EntryNames, Mkdir(n)  PROVE FilesInv' /\ FileStep
<1>1. PICK p : p = cwd \o <<n>>
  OBVIOUS
<1>2. DirIn(tree, cwd) /\ p = Append(cwd, n)
  BY <1>1, Here
<1>3. UNCHANGED cwd
  BY DEF Mkdir
<1>4. Good /\ last'.cmd = "mkdir"
  <2>1. CASE Fails("mkdir", p, p)
    BY <2>1, FailsOK
  <2>2. CASE p \notin DOMAIN tree /\ Did("mkdir", TRUE, p, p) /\ tree' = Put(tree, p, Dir)
    <3>1. ~IsDir(p)
      BY <2>2 DEF IsDir
    <3>. QED
      BY <1>2, <2>2, <3>1, PutGood, Zenon
  <2>. QED
    BY <1>1, <2>1, <2>2 DEF Mkdir
<1>. QED
  BY <1>3, <1>4, KeptDir

\* Where a copy goes: an entry of a directory.
LEMMA DestOK ==
  ASSUME FilesInv, NEW w, AtDir(w), NEW n \in EntryNames, NEW base \in EntryNames \cup {NoName}
  PROVE  \E d : \E m \in EntryNames : DirIn(tree, d) /\ Dest(w, base, n) = Append(d, m)
<1>1. DirIn(tree, w.at) /\ w.at \in Paths
  BY DEF AtDir, DirIn, FilesInv, TreeOK
<1>2. CASE base = NoName
  BY <1>1, <1>2, EntryPath DEF Dest
<1>3. CASE base # NoName /\ base \in Plain /\ IsDir(Append(w.at, base))
  <2>1. DirIn(tree, Append(w.at, base)) /\ Append(w.at, base) \in Paths
    BY <1>3 DEF IsDir, DirIn, FilesInv, TreeOK
  <2>2. Dest(w, base, n) = Append(w.at, base) \o <<n>>
    BY <1>3 DEF Dest
  <2>3. Append(w.at, base) \o <<n>> = Append(Append(w.at, base), n)
    BY <2>1, EntryPath, Zenon
  <2>. QED
    BY <2>1, <2>2, <2>3
<1>4. CASE base # NoName /\ ~(base \in Plain /\ IsDir(Append(w.at, base)))
  <2>1. base \in EntryNames /\ Dest(w, base, n) = Append(w.at, base)
    BY <1>4 DEF Dest
  <2>. QED
    BY <1>1, <2>1
<1>. QED
  BY <1>2, <1>3, <1>4

LEMMA TokenOK ==
  ASSUME NEW tok \in Tokens
  PROVE  /\ tok.dir \in Seq(Names) /\ tok.base \in EntryNames \cup {NoName}
         /\ tok.base = NoName => tok.slash
  BY FilesAssumption DEF Names

LEMMA CpOK ==
  ASSUME FilesInv, NEW n \in EntryNames, NEW tok \in Tokens, Cp(n, tok)
  PROVE  FilesInv' /\ FileStep
<1>1. PICK from, w : from = cwd \o <<n>> /\ w = ChdirFrom(cwd, tok)
  OBVIOUS
<1>2. UNCHANGED cwd
  BY DEF Cp
<1>3. Good /\ last'.cmd = "cp"
  <2>1. CASE Fails("cp", from, from)
    BY <2>1, FailsOK
  <2>2. CASE Stores("cp", from, Dest(w, tok.base, n), Cut(tree[from], CopyMax))
    <3>1. AtDir(w)
      BY <1>1, TokenOK, ChdirOK
    <3>2. PICK d : \E m \in EntryNames : DirIn(tree, d) /\ Dest(w, tok.base, n) = Append(d, m)
      BY <3>1, DestOK, TokenOK
    <3>3. PICK m \in EntryNames : DirIn(tree, d) /\ Dest(w, tok.base, n) = Append(d, m)
      BY <3>2
    <3>. QED
      BY <2>2, <3>3, StoresOK, Zenon
  <2>. QED
    BY <1>1, <2>1, <2>2 DEF Cp, Copied
<1>. QED
  BY <1>2, <1>3, KeptDir

\* A directory that is above an entry is not the entry nor below it.
LEMMA AboveOK ==
  ASSUME FilesInv, NEW d, DirIn(tree, d), NEW p \in Paths, IsFile(p)
  PROVE  ~Under(d, p)
<1>1. d \in Paths /\ Len(d) \in Nat /\ Pre(d, Len(d)) = d
  BY PreFull DEF DirIn, FilesInv, TreeOK
<1>2. SUFFICES ASSUME Len(p) <= Len(d), Pre(d, Len(p)) = p  PROVE FALSE
  BY <1>1, UnderPre
<1>3. Len(p) \in Nat
  BY PreFull
<1>4. CASE Len(p) = Len(d)
  BY <1>1, <1>2, <1>4 DEF IsFile, DirIn
<1>5. CASE Len(p) # Len(d)
  <2>1. Len(p) \in 0..Len(d) - 1
    BY <1>1, <1>2, <1>3, <1>5
  <2>2. DirIn(tree, p)
    BY <1>2, <2>1 DEF FilesInv, TreeOK, DirIn
  <2>. QED
    BY <2>2 DEF IsFile, DirIn
<1>. QED
  BY <1>4, <1>5

\* mv to another directory: the copy is there before the source is gone.
LEMMA AcrossGood ==
  ASSUME FilesInv, NEW n \in EntryNames, NEW from, from = Append(cwd, n), IsFile(from),
         NEW d, DirIn(tree, d), NEW m \in EntryNames, NEW to, to = Append(d, m), ~IsDir(to),
         NEW data, data = Cut(tree[from], CopyMax),
         Did("mv", TRUE, from, to), NEW u, u = Put(tree, to, data),
         tree' \in {Gone(u, from), u, Put(Gone(u, from), from, Lost)}
  PROVE  Good /\ last'.cmd = "mv"
<1>1. last'.cmd = "mv" /\ last'.ok = TRUE /\ last'.from = from /\ last'.to = to
  BY DEF Did
<1>3. /\ DirIn(tree, cwd) /\ cwd \in Paths /\ from \in Paths /\ from # <<>> /\ ~Under(cwd, from)
  BY Here
<1>4. d \in Paths
  BY DEF DirIn, FilesInv, TreeOK
<1>5. /\ to \in Paths /\ Len(to) = Len(d) + 1 /\ Pre(to, Len(d)) = d /\ Len(d) \in Nat
      /\ \A k \in 0..Len(d) : Pre(to, k) = Pre(d, k)
  BY <1>4, EntryPath, PreFull
<1>6. TreeOK(u) /\ \A q : DirIn(tree, q) => DirIn(u, q)
  <2>1. ~DirIn(tree, Append(d, m))
    BY DEF IsDir, DirIn
  <2>2. u = Put(tree, Append(d, m), data)
    BY Zenon
  <2>3. TreeOK(tree)
    BY DEF FilesInv
  <2>. QED
    BY <2>1, <2>2, <2>3, PutOK
<1>7. DOMAIN u = DOMAIN tree \cup {to} /\ u[to] = data /\ \A q \in DOMAIN tree : q # to => u[q] = tree[q]
  BY DEF Put
<1>13. Under(from, from)
  BY <1>3, UnderPre, PreFull
<1>8. /\ \A r \in DOMAIN u : (r \in DOMAIN tree' /\ tree'[r] = u[r]) \/ Under(r, from)
      /\ \/ from \notin DOMAIN tree' \/ tree'[from] = u[from] \/ tree'[from] = Lost
  <2>1. CASE tree' = Gone(u, from)
    BY <1>13, <2>1 DEF Gone
  <2>2. CASE tree' = u
    BY <2>2
  <2>3. CASE tree' = Put(Gone(u, from), from, Lost)
    BY <1>13, <2>3 DEF Gone, Put
  <2>. QED
    BY <2>1, <2>2, <2>3
<1>10. TreeOK(tree') /\ DirIn(tree', cwd)
  <2>1. TreeOK(Gone(u, from)) /\ \A q : DirIn(u, q) /\ ~Under(q, from) => DirIn(Gone(u, from), q)
    BY <1>3, <1>6, GoneOK
  <2>2. DirIn(u, cwd)
    BY <1>3, <1>6
  <2>3. /\ TreeOK(Put(Gone(u, from), from, Lost))
        /\ \A q : DirIn(u, q) /\ ~Under(q, from) => DirIn(Put(Gone(u, from), from, Lost), q)
    BY <1>6, <2>2, FreedOK
  <2>. QED
    BY <1>3, <1>6, <2>1, <2>2, <2>3
<1>11. OnlyNamed /\ FailedIsNothing
  BY <1>1, <1>7, <1>8 DEF OnlyNamed, FailedIsNothing, Same
<1>12. to # from => ~Under(to, from)
  <2>. SUFFICES ASSUME to # from, Len(from) <= Len(to), Pre(to, Len(from)) = from  PROVE FALSE
    BY <1>3, <1>5, UnderPre
  <2>1. Len(from) \in Nat /\ Pre(to, Len(to)) = to
    BY <1>3, <1>5, PreFull
  <2>2. Len(from) # Len(to)
    BY <2>1
  <2>3. Len(from) \in 0..Len(d)
    BY <1>5, <2>1, <2>2
  <2>4. Pre(d, Len(from)) = from /\ Len(from) <= Len(d)
    BY <1>5, <2>3
  <2>5. Under(d, from)
    BY <1>3, <1>4, <2>4, UnderPre
  <2>. QED
    BY <1>3, <2>5, AboveOK
<1>14. Arrived
  <2>1. SUFFICES ASSUME to # from
                 PROVE  /\ to \in DOMAIN tree' /\ tree'[to] = data
                        /\ from \notin DOMAIN tree' \/ tree'[from] \in {tree[from], Lost}
    BY <1>1 DEF Arrived
  <2>2. to \in DOMAIN tree' /\ tree'[to] = data
    BY <1>7, <1>8, <1>12, <2>1
  <2>3. u[from] = tree[from]
    BY <1>7, <2>1 DEF IsFile
  <2>. QED
    BY <1>8, <2>2, <2>3
<1>. QED
  BY <1>1, <1>10, <1>11, <1>14 DEF Good

LEMMA MvAcrossOK ==
  ASSUME FilesInv, NEW n \in EntryNames, NEW tok \in Tokens, MvAcross(n, tok)
  PROVE  FilesInv' /\ FileStep
<1>1. PICK from, w, to : from = cwd \o <<n>> /\ w = ChdirFrom(cwd, tok) /\ to = Dest(w, tok.base, n)
  OBVIOUS
<1>2. UNCHANGED cwd
  BY DEF MvAcross
<1>3. Good /\ last'.cmd = "mv"
  <2>1. CASE Fails("mv", from, from)
    BY <2>1, FailsOK
  <2>2. CASE /\ IsFile(from)
             /\ \/ LET copied == Put(tree, to, Cut(tree[from], CopyMax))
                   IN /\ ~IsDir(to) /\ Did("mv", TRUE, from, to)
                      /\ tree' \in {Gone(copied, from)} \cup DeleteFails(copied, from)
                \/ WriteFails("mv", from, to)
    <3>1. AtDir(w)
      BY <1>1, TokenOK, ChdirOK
    <3>2. PICK d : \E m \in EntryNames : DirIn(tree, d) /\ to = Append(d, m)
      <4>1. \E d : \E m \in EntryNames : DirIn(tree, d) /\ Dest(w, tok.base, n) = Append(d, m)
        BY <3>1, DestOK, TokenOK
      <4>. QED
        BY <1>1, <4>1, Zenon
    <3>3. PICK m \in EntryNames : DirIn(tree, d) /\ to = Append(d, m)
      BY <3>2
    <3>4. from = Append(cwd, n)
      BY <1>1, Here
    <3>5. PICK data, u : data = Cut(tree[from], CopyMax) /\ u = Put(tree, to, data)
      OBVIOUS
    <3>6. CASE WriteFails("mv", from, to)
      BY <3>3, <3>6, WriteFailsOK, Zenon
    <3>7. CASE ~WriteFails("mv", from, to)
      <4>1. /\ ~IsDir(to) /\ Did("mv", TRUE, from, to)
            /\ tree' \in {Gone(u, from)} \cup DeleteFails(u, from)
        BY <2>2, <3>5, <3>7, Zenon
      <4>2. tree' \in {Gone(u, from), u, Put(Gone(u, from), from, Lost)}
        BY <4>1 DEF DeleteFails
      <4>. QED
        BY <2>2, <3>3, <3>4, <3>5, <4>1, <4>2, AcrossGood, Zenon
    <3>. QED
      BY <3>6, <3>7
  <2>. QED
    BY <1>1, <2>1, <2>2, Zenon DEF MvAcross
<1>. QED
  BY <1>2, <1>3, KeptDir

LEMMA MvHereOK ==
  ASSUME FilesInv, NEW n \in EntryNames, NEW tok \in Tokens, MvHere(n, tok)
  PROVE  FilesInv' /\ FileStep
<1>1. PICK from, to : from = cwd \o <<n>> /\ to = cwd \o <<tok.base>>
  OBVIOUS
<1>2. UNCHANGED cwd /\ ~Across(tok) /\ (to = from \/ to \notin DOMAIN tree)
  BY <1>1 DEF MvHere
<1>3. tok.base \in EntryNames
  BY <1>2, TokenOK DEF Across
<1>4. /\ from = Append(cwd, n) /\ to = Append(cwd, tok.base) /\ DirIn(tree, cwd) /\ cwd \in Paths
      /\ ~Under(cwd, from)
  BY <1>1, <1>3, Here
<1>5. CASE Fails("mv", from, to)
  <2>1. Good /\ last'.cmd = "mv"
    BY <1>5, FailsOK
  <2>. QED
    BY <1>2, <2>1, KeptDir
<1>6. CASE from \in DOMAIN tree /\ Did("mv", TRUE, from, to) /\ tree' = Moved(from, to)
  <2>1. last'.cmd = "mv" /\ last'.ok = TRUE /\ last'.from = from /\ last'.to = to
    BY <1>6 DEF Did
  <2>2. PICK u : u = tree'
    OBVIOUS
  <2>3. TreeOK(tree) /\ u = Moved(from, to)
    BY <1>6, <2>2 DEF FilesInv
  <2>4. /\ TreeOK(u)
        /\ \A q \in DOMAIN tree : ~Under(q, from) => q \in DOMAIN u /\ u[q] = tree[q]
        /\ to \in DOMAIN u /\ u[to] = tree[from]
        /\ to # from => from \notin DOMAIN u
    <3>1. from \in DOMAIN tree /\ (to \notin DOMAIN tree \/ to = from)
      BY <1>2, <1>6, Zenon
    <3>. QED
      <4>1. PICK m \in EntryNames : m = tok.base
        BY <1>3
      <4>2. Renamed(u, from, to)
        BY <1>4, <2>3, <3>1, <4>1, MovedOK, Zenon
      <4>. QED
        BY <4>2, Zenon DEF Renamed
  <2>5. OnlyNamed /\ FailedIsNothing
    BY <2>1, <2>2, <2>4 DEF OnlyNamed, FailedIsNothing, Same
  <2>6. Arrived
    BY <2>1, <2>2, <2>4 DEF Arrived
  <2>7. DirIn(tree', cwd)
    BY <1>4, <2>2, <2>4 DEF DirIn
  <2>8. Good
    BY <2>2, <2>4, <2>5, <2>6, <2>7 DEF Good
  <2>. QED
    BY <1>2, <2>1, <2>8, KeptDir
<1>. QED
  BY <1>1, <1>5, <1>6, Zenon DEF MvHere

LEMMA CdOK ==
  ASSUME FilesInv, NEW path \in CdPaths, Cd(path)  PROVE FilesInv' /\ FileStep
<1>1. PICK w : w = ChdirFrom(cwd, path)
  OBVIOUS
<1>2. AtDir(w)
  BY <1>1, ChdirOK, FilesAssumption DEF Names
<1>3. cwd' = w.at /\ tree' = tree /\ Did("cd", w.ok, cwd, w.at)
  BY <1>1, Zenon DEF Cd
<1>4. last'.cmd = "cd"
  BY <1>3 DEF Did
<1>5. FilesInv'
  BY <1>2, <1>3 DEF FilesInv, AtDir, TreeOK, DirIn
<1>6. FileStep
  BY <1>3, <1>4 DEF FileStep, OnlyNamed, Same, FailedIsNothing, Arrived, CwdBack
<1>. QED
  BY <1>5, <1>6

LEMMA MkdirParentsOK ==
  ASSUME FilesInv, NEW path \in CdPaths, MkdirParents(path)  PROVE FilesInv' /\ FileStep
<1>1. PICK made, w :
        /\ made \in 0..Len(path.dir)
        /\ w = FoldLeft(MadeIn, [at |-> IF path.abs THEN <<>> ELSE cwd, ok |-> TRUE, tree |-> tree],
                        SubSeq(path.dir, 1, made))
        /\ ToSet(path.dir) \subseteq Plain /\ tree' = w.tree /\ cwd' = w.at
        /\ Did("mkdir -p", w.ok /\ made = Len(path.dir), w.at, w.at)
  BY DEF MkdirParents
<1>2. SubSeq(path.dir, 1, made) \in Seq(EntryNames)
  <2>1. path.dir \in Seq(Names) /\ \A i \in DOMAIN path.dir : path.dir[i] \in EntryNames
    BY <1>1, FilesAssumption DEF ToSet, EntryNames, Names
  <2>2. Len(path.dir) \in Nat /\ DOMAIN path.dir = 1..Len(path.dir)
    BY <2>1
  <2>3. made \in 0..Len(path.dir)
    BY <1>1
  <2>4. made \in Int /\ \A i \in 1..made : path.dir[i] \in EntryNames
    BY <2>1, <2>2, <2>3
  <2>. QED
    BY <2>4, SubSeqProperties
<1>3. Grown(w)
  BY <1>1, <1>2, MadeOK, Zenon
<1>4. last'.cmd = "mkdir -p"
  BY <1>1 DEF Did
<1>5. FilesInv'
  BY <1>1, <1>3 DEF FilesInv, Grown
<1>6. OnlyNamed
  BY <1>1, <1>3 DEF OnlyNamed, Same, Grown
<1>. QED
  BY <1>4, <1>5, <1>6 DEF FileStep, FailedIsNothing, Arrived, CwdBack

LEMMA FilesStepOK ==
  ASSUME FilesInv, FilesNext  PROVE FilesInv' /\ FileStep
<1>1. ASSUME NEW n \in EntryNames, Write(n)  PROVE FilesInv' /\ FileStep
  <2>1. PICK data : Stores("write", cwd \o <<n>>, cwd \o <<n>>, data)
    BY <1>1 DEF Write
  <2>2. UNCHANGED cwd
    BY <1>1 DEF Write
  <2>. QED
    BY <2>1, <2>2, StoresHere
<1>2. ASSUME NEW n \in EntryNames, Produce(n)  PROVE FilesInv' /\ FileStep
  <2>1. PICK data : Stores("program", cwd \o <<n>>, cwd \o <<n>>, data)
    BY <1>2 DEF Produce
  <2>2. UNCHANGED cwd
    BY <1>2 DEF Produce
  <2>. QED
    BY <2>1, <2>2, StoresHere
<1>3. ASSUME NEW n \in EntryNames, Touch(n)  PROVE FilesInv' /\ FileStep
  <2>1. PICK data : Stores("touch", cwd \o <<n>>, cwd \o <<n>>, data)
    BY <1>3 DEF Touch
  <2>2. UNCHANGED cwd
    BY <1>3 DEF Touch
  <2>. QED
    BY <2>1, <2>2, StoresHere
<1>4. ASSUME NEW n \in EntryNames, Edit(n)  PROVE FilesInv' /\ FileStep
  <2>1. PICK p : p = cwd \o <<n>>
    OBVIOUS
  <2>2. PICK data : Stores("edit", p, p, data)
    BY <1>4, <2>1 DEF Edit
  <2>3. UNCHANGED cwd
    BY <1>4 DEF Edit
  <2>. QED
    BY <2>1, <2>2, <2>3, StoresHere
<1>5. ASSUME NEW n \in Plain, Mkdir(n)  PROVE FilesInv' /\ FileStep
  BY <1>5, MkdirOK DEF EntryNames
<1>. QED
  BY <1>1, <1>2, <1>3, <1>4, <1>5, RmOK, CpOK, MvAcrossOK, MvHereOK, MkdirParentsOK, CdOK DEF FilesNext

LEMMA FilesInitOK == FilesInit => FilesInv
<1>. SUFFICES ASSUME FilesInit  PROVE FilesInv
  OBVIOUS
<1>1. DOMAIN tree = {<<>>} /\ tree[<<>>] = Dir /\ cwd = <<>>
  BY DEF FilesInit
<1>2. <<>> \in Paths /\ Len(<<>>) = 0
  BY EmptySeq DEF Paths
<1>3. \A p \in DOMAIN tree : 0..Len(p) - 1 = {}
  BY <1>1, <1>2
<1>. QED
  BY <1>1, <1>2, <1>3 DEF FilesInv, TreeOK, DirIn

\* Whether the driver's writes, deletes and renames succeed or fail, the entries that a
\* command does not name stay as they are, one that fails leaves everything as it
\* was but for an entry the driver gave up on, and a file that is moved is where
\* it was moved to (shell.c, the file commands).
THEOREM FilesAreKept == FilesSpec => FilesKept
<1>1. FilesInv /\ [FilesNext]_fileVars => FilesInv' /\ [FileStep]_fileVars
  <2>1. CASE FilesNext
    BY <2>1, FilesStepOK
  <2>2. CASE UNCHANGED fileVars
    BY <2>2 DEF fileVars, FilesInv, TreeOK, DirIn
  <2>. QED
    BY <2>1, <2>2
<1>. QED
  BY <1>1, FilesInitOK, PTL DEF FilesSpec, FilesKept
-----------------------------------------------------------------------------
(***************************************************************************)
(* The console: the screen and its scrollback.                             *)
(***************************************************************************)

ConRows == [0..Cols - 1 -> Cells]
ConGrids == [0..Rows - 1 -> ConRows]
Screens ==
  [grid : ConGrids, pix : ConGrids, row : 0..Rows - 1, col : 0..Cols - 1,
   sb : [0..SbLines - 1 -> ConRows], head : 0..SbLines - 1, count : 0..SbLines,
   off : 0..SbLines, tape : Seq(ConRows), stale : SUBSET Nat]

\* The slot of a ring that was written n before the one at h.
RingAt(h, n, size) == IF n <= h THEN h - n ELSE h - n + size

\* The ring ends as the tape does.
RingOK(s) ==
  /\ s.count = (IF Len(s.tape) < SbLines THEN Len(s.tape) ELSE SbLines)
  /\ \A n \in 1..s.count : s.sb[RingAt(s.head, n, SbLines)] = s.tape[Len(s.tape) - n + 1]

\* The row in view, and the pixels of the view.
Viewed(s, r) == IF r < s.off THEN s.sb[RingAt(s.head, s.off - r, SbLines)] ELSE s.grid[r - s.off]
PixOK(s) ==
  /\ s.off = 0 => s.pix = s.grid
  /\ s.off < SbLines => \A r \in 0..Rows - 1 : r \notin s.stale => s.pix[r] = Viewed(s, r)

ScreenOK(s) == s \in Screens /\ s.off <= s.count /\ RingOK(s) /\ PixOK(s)

LEMMA ConConsts ==
  /\ Rows \in Nat \ {0} /\ Cols \in Nat \ {0} /\ SbLines \in Nat \ {0} /\ SbStep \in Nat
  /\ HistSize \in Nat \ {0} /\ LineMax \in Nat \ {0}
  BY ConsoleAssumption

LEMMA ModOf ==
  ASSUME NEW d \in Nat \ {0}, NEW x \in -d..d - 1
  PROVE  x % d = IF x >= 0 THEN x ELSE x + d
  OBVIOUS

LEMMA RingAtIs ==
  ASSUME NEW size \in Nat \ {0}, NEW h \in 0..size - 1, NEW n \in 1..size
  PROVE  (h - n) % size = RingAt(h, n, size) /\ RingAt(h, n, size) \in 0..size - 1
<1>1. PICK x \in Int : x = h - n
  OBVIOUS
<1>2. x \in -size..size - 1
  BY <1>1
<1>3. x % size = IF x >= 0 THEN x ELSE x + size
  BY <1>2, ModOf, Zenon
<1>. QED
  BY <1>1, <1>2, <1>3 DEF RingAt

\* The slots behind g are those behind h, and h.
RingOn(h, g, size) ==
  /\ g \in 0..size - 1 /\ RingAt(g, 1, size) = h
  /\ \A n \in 1..size - 1 : RingAt(g, n + 1, size) = RingAt(h, n, size) /\ RingAt(h, n, size) # h

LEMMA RingAtNext ==
  ASSUME NEW size \in Nat \ {0}, NEW h \in 0..size - 1
  PROVE  RingOn(h, (h + 1) % size, size)
<1>0. PICK g : g = (h + 1) % size
  OBVIOUS
<1>1. size \in Nat \ {0}
  OBVIOUS
<1>2. g = IF h + 1 = size THEN 0 ELSE h + 1
  <2>1. CASE h + 1 = size
    <3>1. size % size = 0
      BY <1>1
    <3>. QED
      BY <1>0, <2>1, <3>1
  <2>2. CASE h + 1 # size
    <3>1. h + 1 \in -size..size - 1 /\ h + 1 >= 0
      BY <1>1, <2>2
    <3>. QED
      BY <1>0, <1>1, <2>2, <3>1, ModOf
  <2>. QED
    BY <2>1, <2>2
<1>3. \A n \in 1..size - 1 : RingAt(g, n + 1, size) = RingAt(h, n, size) /\ RingAt(h, n, size) # h
  BY <1>1, <1>2 DEF RingAt
<1>. QED
  BY <1>0, <1>1, <1>2, <1>3 DEF RingAt, RingOn

LEMMA SpacesCell ==
  /\ Space \in Cells /\ BlankRow \in ConRows /\ BlankGrid \in ConGrids
  /\ \A c \in 0..Cols - 1 : BlankRow[c] = Space
  /\ \A r \in 0..Rows - 1, c \in 0..Cols - 1 : BlankGrid[r][c] = Space
<1>1. Space \in Cells
  BY DEF Cells
<1>2. BlankRow \in ConRows /\ \A c \in 0..Cols - 1 : BlankRow[c] = Space
  BY <1>1 DEF BlankRow, ConRows
<1>3. BlankGrid = [r \in 0..Rows - 1 |-> BlankRow]
  BY DEF BlankGrid
<1>. QED
  BY <1>1, <1>2, <1>3 DEF ConGrids

LEMMA RowsUpOK ==
  ASSUME NEW g \in ConGrids
  PROVE  /\ RowsUp(g) \in ConGrids
         /\ \A r \in 0..Rows - 1 : r < Rows - 1 => r + 1 \in 0..Rows - 1 /\ RowsUp(g)[r] = g[r + 1]
         /\ RowsUp(g)[Rows - 1] = BlankRow
<1>1. RowsUp(g) = [r \in 0..Rows - 1 |-> IF r < Rows - 1 THEN g[r + 1] ELSE BlankRow]
  BY DEF RowsUp
<1>2. \A r \in 0..Rows - 1 : r < Rows - 1 => r + 1 \in 0..Rows - 1
  BY ConConsts
<1>3. \A r \in 0..Rows - 1 : RowsUp(g)[r] \in ConRows
  BY <1>1, <1>2, SpacesCell DEF ConGrids
<1>4. Rows - 1 \in 0..Rows - 1 /\ ~(Rows - 1 < Rows - 1)
  BY ConConsts
<1>. QED
  BY <1>1, <1>2, <1>3, <1>4 DEF ConGrids

\* h is g with x in one cell.
CellIn(g, h, r, i, x) ==
  /\ h \in ConGrids
  /\ \A q \in 0..Rows - 1, c \in 0..Cols - 1 : h[q][c] = IF q = r /\ c = i THEN x ELSE g[q][c]
  /\ \A q \in 0..Rows - 1 : q # r => h[q] = g[q]

LEMMA CellSetOK ==
  ASSUME NEW g \in ConGrids, NEW r \in 0..Rows - 1, NEW i \in 0..Cols - 1, NEW x \in Cells
  PROVE  CellIn(g, CellSet(g, r, i, x), r, i, x)
<1>1. g \in [0..Rows - 1 -> [0..Cols - 1 -> Cells]]
  BY DEF ConGrids, ConRows
<1>2. PICK line : line = [g[r] EXCEPT ![i] = x]
  OBVIOUS
<1>3. /\ line \in [0..Cols - 1 -> Cells]
      /\ \A c \in 0..Cols - 1 : line[c] = IF c = i THEN x ELSE g[r][c]
  BY <1>1, <1>2
<1>4. CellSet(g, r, i, x) = [g EXCEPT ![r] = line]
  BY <1>1, <1>2 DEF CellSet
<1>. QED
  BY <1>1, <1>3, <1>4 DEF ConGrids, ConRows, CellIn

LEMMA ScreenIs ==
  ASSUME NEW s, ScreenOK(s)
  PROVE  /\ s \in Screens /\ s.grid \in ConGrids /\ s.pix \in ConGrids
         /\ s.row \in 0..Rows - 1 /\ s.row \in Nat /\ s.col \in 0..Cols - 1 /\ s.col \in Nat
         /\ s.sb \in [0..SbLines - 1 -> ConRows] /\ s.head \in 0..SbLines - 1
         /\ s.count \in 0..SbLines /\ s.off \in 0..SbLines /\ s.off <= s.count
         /\ s.tape \in Seq(ConRows) /\ Len(s.tape) \in Nat /\ s.stale \in SUBSET Nat
         /\ s.off \in Nat /\ s.count \in Nat
  BY ConConsts DEF ScreenOK, Screens

\* What a step of the screen leaves as it was.
SameButCursor(s, t) ==
  /\ t.grid = s.grid /\ t.pix = s.pix /\ t.sb = s.sb /\ t.head = s.head /\ t.count = s.count
  /\ t.off = s.off /\ t.tape = s.tape /\ t.stale = s.stale

CursorAt(s, t, r, i) == ScreenOK(t) /\ t.row = r /\ t.col = i /\ SameButCursor(s, t)

LEMMA CursorOK ==
  ASSUME NEW s, ScreenOK(s), NEW r \in 0..Rows - 1, NEW i \in 0..Cols - 1,
         NEW t, t = [s EXCEPT !.row = r, !.col = i]
  PROVE  CursorAt(s, t, r, i)
<1>1. s \in Screens
  BY DEF ScreenOK
<1>2. t \in Screens /\ t.row = r /\ t.col = i /\ SameButCursor(s, t)
  BY <1>1 DEF Screens, SameButCursor
<1>3. RingOK(t) /\ PixOK(t) /\ t.off <= t.count
  BY <1>2 DEF ScreenOK, SameButCursor, RingOK, PixOK, Viewed
<1>. QED
  BY <1>2, <1>3 DEF ScreenOK, CursorAt

\* One row more is in the ring.
RingMore(s, t) ==
  /\ t.head = (s.head + 1) % SbLines
  /\ t.sb = [s.sb EXCEPT ![s.head] = s.grid[0]]
  /\ t.tape = Append(s.tape, s.grid[0])
  /\ t.count = IF s.count < SbLines THEN s.count + 1 ELSE s.count

LEMMA RingMoreOK ==
  ASSUME NEW s, ScreenOK(s), NEW t, t \in Screens, RingMore(s, t)
  PROVE  /\ RingOK(t) /\ Len(t.tape) = Len(s.tape) + 1
         /\ t.sb[RingAt(t.head, 1, SbLines)] = s.grid[0]
         /\ \A n \in 1..SbLines - 1 : t.sb[RingAt(t.head, n + 1, SbLines)] = s.sb[RingAt(s.head, n, SbLines)]
<1>1. PICK h, g : h = s.head /\ g = t.head
  OBVIOUS
<1>2. /\ h \in 0..SbLines - 1 /\ s.sb \in [0..SbLines - 1 -> ConRows] /\ s.tape \in Seq(ConRows)
      /\ s.grid[0] \in ConRows /\ Len(s.tape) \in Nat /\ SbLines \in Nat \ {0}
  <2>1. 0 \in 0..Rows - 1
    BY ConConsts
  <2>. QED
    BY <1>1, <2>1, ScreenIs, ConConsts DEF ConGrids
<1>3. g = (h + 1) % SbLines
  BY <1>1 DEF RingMore
<1>4. /\ g \in 0..SbLines - 1 /\ RingAt(g, 1, SbLines) = h
      /\ \A n \in 1..SbLines - 1 : RingAt(g, n + 1, SbLines) = RingAt(h, n, SbLines) /\ RingAt(h, n, SbLines) # h
  <2>1. RingOn(h, (h + 1) % SbLines, SbLines)
    BY <1>2, RingAtNext
  <2>. QED
    BY <1>3, <2>1 DEF RingOn
<1>5. t.sb[h] = s.grid[0] /\ \A j \in 0..SbLines - 1 : j # h => t.sb[j] = s.sb[j]
  BY <1>1, <1>2 DEF RingMore
<1>6. ASSUME NEW n \in 1..SbLines - 1  PROVE RingAt(h, n, SbLines) \in 0..SbLines - 1
  <2>1. n \in 1..SbLines
    BY <1>2
  <2>. QED
    BY <1>2, <2>1, RingAtIs
<1>7. t.sb[RingAt(g, 1, SbLines)] = s.grid[0]
  BY <1>4, <1>5
<1>8. \A n \in 1..SbLines - 1 : t.sb[RingAt(g, n + 1, SbLines)] = s.sb[RingAt(h, n, SbLines)]
  BY <1>4, <1>5, <1>6
<1>9. /\ Len(t.tape) = Len(s.tape) + 1 /\ t.tape[Len(s.tape) + 1] = s.grid[0]
      /\ \A i \in 1..Len(s.tape) : t.tape[i] = s.tape[i]
  BY <1>2, AppendProperties DEF RingMore
<1>10. /\ s.count = (IF Len(s.tape) < SbLines THEN Len(s.tape) ELSE SbLines)
       /\ \A n \in 1..s.count : s.sb[RingAt(h, n, SbLines)] = s.tape[Len(s.tape) - n + 1]
  BY <1>1 DEF ScreenOK, RingOK
<1>11. t.count = (IF Len(t.tape) < SbLines THEN Len(t.tape) ELSE SbLines)
  BY <1>2, <1>9, <1>10 DEF RingMore
<1>12. ASSUME NEW n \in 1..t.count
       PROVE  t.sb[RingAt(g, n, SbLines)] = t.tape[Len(t.tape) - n + 1]
  <2>1. CASE n = 1
    <3>1. Len(t.tape) - n + 1 = Len(s.tape) + 1
      BY <1>2, <1>9, <2>1
    <3>. QED
      BY <1>7, <1>9, <2>1, <3>1
  <2>2. CASE n # 1
    <3>1. PICK k : k = n - 1
      OBVIOUS
    <3>2. /\ k \in 1..SbLines - 1 /\ k \in 1..s.count /\ n = k + 1
          /\ Len(t.tape) - n + 1 = Len(s.tape) - k + 1 /\ Len(s.tape) - k + 1 \in 1..Len(s.tape)
      BY <1>2, <1>9, <1>10, <1>11, <2>2, <3>1
    <3>3. t.sb[RingAt(g, n, SbLines)] = s.sb[RingAt(h, k, SbLines)]
      BY <1>8, <3>2
    <3>4. s.sb[RingAt(h, k, SbLines)] = s.tape[Len(s.tape) - k + 1]
      BY <1>10, <3>2
    <3>5. t.tape[Len(s.tape) - k + 1] = s.tape[Len(s.tape) - k + 1]
      BY <1>9, <3>2
    <3>. QED
      BY <3>2, <3>3, <3>4, <3>5
  <2>. QED
    BY <2>1, <2>2
<1>13. RingOK(t)
  BY <1>1, <1>11, <1>12 DEF RingOK
<1>. QED
  BY <1>1, <1>7, <1>8, <1>9, <1>13

Scrolled1(s, t) ==
  /\ ScreenOK(t) /\ t.row = Rows - 1 /\ t.col = s.col /\ t.grid = RowsUp(s.grid)
  /\ Len(t.tape) = Len(s.tape) + 1

LEMMA ScrollOK ==
  ASSUME NEW s, ScreenOK(s)
  PROVE  Scrolled1(s, Scroll(s))
<1>1. PICK stored, off : /\ stored = IF s.count < SbLines THEN s.count + 1 ELSE s.count
                         /\ off = IF s.off > 0 /\ s.off < stored THEN s.off + 1 ELSE s.off
  OBVIOUS
<1>2. PICK sb, head, grid, pix, n, tape :
        /\ sb = [s.sb EXCEPT ![s.head] = s.grid[0]] /\ head = (s.head + 1) % SbLines
        /\ grid = RowsUp(s.grid) /\ pix = (IF off = 0 THEN RowsUp(s.pix) ELSE s.pix)
        /\ n = Rows - 1 /\ tape = Append(s.tape, s.grid[0])
  OBVIOUS
<1>3. PICK t : t = Scroll(s)
  OBVIOUS
<1>4. t = [s EXCEPT !.sb = sb, !.head = head, !.count = stored, !.off = off, !.grid = grid,
                    !.pix = pix, !.row = n, !.tape = tape]
  BY <1>1, <1>2, <1>3, Zenon DEF Scroll
<1>5. /\ s \in Screens /\ s.grid \in ConGrids /\ s.pix \in ConGrids
      /\ s.sb \in [0..SbLines - 1 -> ConRows] /\ s.head \in 0..SbLines - 1
      /\ s.count \in 0..SbLines /\ s.off \in 0..SbLines /\ s.off <= s.count
      /\ s.tape \in Seq(ConRows) /\ SbLines \in Nat \ {0} /\ Rows \in Nat \ {0}
      /\ s.grid[0] \in ConRows
  <2>1. 0 \in 0..Rows - 1
    BY ConConsts
  <2>2. s \in Screens /\ s.grid \in ConGrids /\ s.pix \in ConGrids
    BY ScreenIs
  <2>3. s.sb \in [0..SbLines - 1 -> ConRows] /\ s.head \in 0..SbLines - 1
    BY ScreenIs
  <2>4. /\ s.count \in 0..SbLines /\ s.off \in 0..SbLines /\ s.off <= s.count
        /\ s.tape \in Seq(ConRows)
    BY ScreenIs
  <2>5. s.grid[0] \in ConRows
    BY <2>1, <2>2 DEF ConGrids
  <2>. QED
    BY <2>2, <2>3, <2>4, <2>5, ConConsts
<1>6. /\ stored \in 0..SbLines /\ off \in 0..SbLines /\ off <= stored /\ n \in 0..Rows - 1
      /\ (off = 0 <=> s.off = 0)
      /\ off < SbLines /\ off # 0 => off = s.off + 1
      /\ off < SbLines => s.off < SbLines
  <2>1. stored \in 0..SbLines /\ n \in 0..Rows - 1 /\ s.count <= stored
    <3>1. n \in 0..Rows - 1
      BY <1>2, <1>5
    <3>2. PICK c : c = s.count
      OBVIOUS
    <3>3. c \in 0..SbLines /\ SbLines \in Nat /\ stored = IF c < SbLines THEN c + 1 ELSE c
      BY <1>1, <1>5, <3>2
    <3>4. stored \in 0..SbLines /\ c <= stored
      BY <3>3
    <3>. QED
      BY <3>1, <3>2, <3>4
  <2>2. CASE s.off = 0
    <3>1. off = 0
      BY <1>1, <2>2
    <3>. QED
      BY <1>5, <2>1, <2>2, <3>1
  <2>3. CASE s.off # 0 /\ s.off < stored
    <3>1. off = s.off + 1
      BY <1>1, <1>5, <2>3
    <3>. QED
      BY <1>5, <2>1, <2>3, <3>1
  <2>4. CASE s.off # 0 /\ ~(s.off < stored)
    <3>1. off = s.off /\ off = SbLines
      BY <1>1, <1>5, <2>4
    <3>. QED
      BY <1>5, <2>1, <2>4, <3>1
  <2>. QED
    BY <2>2, <2>3, <2>4
<1>7. head \in 0..SbLines - 1
  BY <1>2, <1>5, RingAtNext DEF RingOn
<1>8. grid \in ConGrids /\ pix \in ConGrids
  BY <1>2, <1>5, RowsUpOK
<1>9. sb \in [0..SbLines - 1 -> ConRows] /\ tape \in Seq(ConRows)
  BY <1>2, <1>5, AppendProperties
<1>10. /\ t \in Screens /\ t.sb = sb /\ t.head = head /\ t.count = stored /\ t.off = off
       /\ t.grid = grid /\ t.pix = pix /\ t.row = n /\ t.tape = tape /\ t.col = s.col
       /\ t.stale = s.stale
  BY <1>4, <1>5, <1>6, <1>7, <1>8, <1>9 DEF Screens
<1>11. RingMore(s, t)
  BY <1>1, <1>2, <1>10 DEF RingMore
<1>12. /\ RingOK(t) /\ Len(t.tape) = Len(s.tape) + 1
       /\ t.sb[RingAt(t.head, 1, SbLines)] = s.grid[0]
       /\ \A k \in 1..SbLines - 1 : t.sb[RingAt(t.head, k + 1, SbLines)] = s.sb[RingAt(s.head, k, SbLines)]
  BY <1>10, <1>11, RingMoreOK
<1>13. off = 0 => pix = grid
  BY <1>2, <1>6 DEF ScreenOK, PixOK
<1>14. ASSUME off < SbLines, NEW r \in 0..Rows - 1, r \notin s.stale
       PROVE  pix[r] = Viewed(t, r)
  <2>1. CASE off = 0
    <3>1. ~(r < off) /\ r - off = r
      BY <2>1
    <3>. QED
      BY <1>10, <1>13, <2>1, <3>1 DEF Viewed
  <2>2. CASE off # 0
    <3>1. pix[r] = Viewed(s, r) /\ off = s.off + 1
      <4>1. pix = s.pix /\ off = s.off + 1 /\ s.off < SbLines
        <5>1. (off < SbLines /\ off # 0) /\ pix = s.pix
          BY <1>2, <1>14, <2>2
        <5>. QED
          BY <1>6, <5>1
      <4>2. s.off < SbLines => \A q \in 0..Rows - 1 : q \notin s.stale => s.pix[q] = Viewed(s, q)
        BY DEF ScreenOK, PixOK
      <4>. QED
        BY <1>14, <4>1, <4>2
    <3>2. CASE r < s.off
      <4>1. PICK k : k = s.off - r
        OBVIOUS
      <4>2. k \in 1..SbLines - 1 /\ off - r = k + 1 /\ r < off
        BY <1>5, <1>14, <3>1, <3>2, <4>1
      <4>. QED
        BY <1>10, <1>12, <3>1, <3>2, <4>1, <4>2 DEF Viewed
    <3>3. CASE r = s.off
      <4>1. off - r = 1 /\ r < off /\ ~(r < s.off) /\ r - s.off = 0
        BY <1>5, <3>1, <3>3
      <4>. QED
        BY <1>10, <1>12, <3>1, <4>1 DEF Viewed
    <3>4. CASE r > s.off
      <4>1. PICK q : q = r - off
        OBVIOUS
      <4>2. /\ q \in 0..Rows - 1 /\ q < Rows - 1 /\ r - s.off = q + 1 /\ ~(r < off) /\ ~(r < s.off)
        <5>1. PICK o : o = s.off
          OBVIOUS
        <5>2. o \in Nat /\ off = o + 1 /\ r > o /\ r \in 0..Rows - 1 /\ Rows \in Nat
          BY <1>5, <3>1, <3>4, <5>1
        <5>3. q \in 0..Rows - 1 /\ q < Rows - 1 /\ r - o = q + 1 /\ ~(r < off) /\ ~(r < o)
          BY <4>1, <5>2
        <5>. QED
          BY <5>1, <5>3
      <4>3. grid[q] = s.grid[q + 1]
        BY <1>2, <1>5, <4>2, RowsUpOK
      <4>. QED
        BY <1>10, <3>1, <4>1, <4>2, <4>3 DEF Viewed
    <3>. QED
      BY <1>5, <3>2, <3>3, <3>4
  <2>. QED
    BY <2>1, <2>2
<1>15. PixOK(t)
  BY <1>10, <1>13, <1>14 DEF PixOK
<1>16. ScreenOK(t)
  BY <1>6, <1>10, <1>12, <1>15 DEF ScreenOK
<1>. QED
  BY <1>2, <1>3, <1>10, <1>12, <1>16 DEF Scrolled1
\* The cursor is one cell further.
Advanced(s, t) ==
  IF s.col + 1 >= Cols THEN t.row = s.row + 1 /\ t.col = 0 ELSE t.row = s.row /\ t.col = s.col + 1

\* One character was put: it is at the cursor, or a row scrolled off.
CharPut(s, x, t) ==
  /\ ScreenOK(t) /\ Len(t.tape) >= Len(s.tape)
  /\ BlankBehind(s) => BlankBehind(t)
  /\ x # NL /\ Len(t.tape) = Len(s.tape) =>
       Advanced(s, t) /\ t.grid = CellSet(s.grid, s.row, s.col, x)

LEMMA ConFeedOK ==
  ASSUME NEW s, ScreenOK(s)
  PROVE  /\ ScreenOK(LineFeed(s)) /\ Len(LineFeed(s).tape) >= Len(s.tape)
         /\ Len(LineFeed(s).tape) = Len(s.tape) =>
              LineFeed(s).row = s.row + 1 /\ LineFeed(s).col = 0 /\ LineFeed(s).grid = s.grid
         /\ (\A r \in 0..Rows - 1, c \in 0..Cols - 1 : r > s.row => s.grid[r][c] = Space)
              => BlankBehind(LineFeed(s))
<1>1. /\ s.row \in 0..Rows - 1 /\ s.col \in 0..Cols - 1 /\ s.grid \in ConGrids
      /\ Rows \in Nat \ {0} /\ Cols \in Nat \ {0} /\ 0 \in 0..Cols - 1 /\ Len(s.tape) \in Nat
  BY ScreenIs, ConConsts
<1>2. CASE s.row + 1 >= Rows
  <2>1. PICK r, z, t : r = s.row /\ z = 0 /\ t = [s EXCEPT !.row = r, !.col = z]
    OBVIOUS
  <2>2. t = [s EXCEPT !.col = 0]
    BY <2>1 DEF ScreenOK, Screens
  <2>3. ScreenOK(t) /\ t.row = s.row /\ SameButCursor(s, t) /\ t.col = 0
    <3>1. r \in 0..Rows - 1 /\ z \in 0..Cols - 1
      BY <1>1, <2>1
    <3>2. t = [s EXCEPT !.row = r, !.col = z]
      BY <2>1
    <3>3. CursorAt(s, t, r, z)
      BY <3>1, <3>2, CursorOK, Zenon
    <3>. QED
      BY <2>1, <3>3 DEF CursorAt
  <2>4. PICK y : y = LineFeed(s)
    OBVIOUS
  <2>5. y = Scroll(t)
    BY <1>2, <2>2, <2>4 DEF LineFeed
  <2>6. Scrolled1(t, y)
    BY <2>3, <2>5, ScrollOK
  <2>7. /\ ScreenOK(y) /\ y.row = Rows - 1 /\ y.col = 0 /\ y.grid = RowsUp(s.grid)
        /\ Len(y.tape) = Len(s.tape) + 1
    BY <2>3, <2>6 DEF Scrolled1, SameButCursor
  <2>8. BlankBehind(y)
    <3>1. \A q \in 0..Rows - 1 : q >= Rows - 1 => q = Rows - 1
      BY <1>1
    <3>2. y.grid[Rows - 1] = BlankRow
      BY <1>1, <2>7, RowsUpOK
    <3>. QED
      BY <1>1, <2>7, <3>1, <3>2, SpacesCell DEF BlankBehind
  <2>. QED
    BY <1>1, <2>4, <2>7, <2>8
<1>3. CASE ~(s.row + 1 >= Rows)
  <2>1. PICK r, z, t : r = s.row + 1 /\ z = 0 /\ t = [s EXCEPT !.row = r, !.col = z]
    OBVIOUS
  <2>2. r \in 0..Rows - 1 /\ z \in 0..Cols - 1
    BY <1>1, <1>3, <2>1
  <2>3. t = LineFeed(s)
    <3>1. LineFeed(s) = [s EXCEPT !.col = z, !.row = r]
      BY <1>3, <2>1 DEF LineFeed
    <3>. QED
      BY <2>1, <3>1 DEF ScreenOK, Screens
  <2>4. ScreenOK(t) /\ t.row = r /\ t.col = z /\ SameButCursor(s, t)
    <3>1. t = [s EXCEPT !.row = r, !.col = z]
      BY <2>1
    <3>2. CursorAt(s, t, r, z)
      BY <2>2, <3>1, CursorOK, Zenon
    <3>. QED
      BY <3>2 DEF CursorAt
  <2>5. t.grid = s.grid /\ Len(t.tape) = Len(s.tape)
    BY <2>4 DEF SameButCursor
  <2>6. (\A q \in 0..Rows - 1, c \in 0..Cols - 1 : q > s.row => s.grid[q][c] = Space)
          => BlankBehind(t)
    <3>1. \A q \in 0..Rows - 1 : q > r \/ q = r => q > s.row
      BY <1>1, <2>1
    <3>. QED
      BY <2>4, <2>5, <3>1 DEF BlankBehind
  <2>. QED
    BY <1>1, <2>1, <2>3, <2>4, <2>5, <2>6
<1>. QED
  BY <1>2, <1>3

LEMMA SetCellOK ==
  ASSUME NEW s, ScreenOK(s), NEW x \in Cells
  PROVE  /\ ScreenOK(SetCell(s, x)) /\ SetCell(s, x).row = s.row /\ SetCell(s, x).col = s.col
         /\ SetCell(s, x).tape = s.tape /\ SetCell(s, x).grid = CellSet(s.grid, s.row, s.col, x)
<1>1. /\ s \in Screens /\ s.row \in 0..Rows - 1 /\ s.col \in 0..Cols - 1 /\ s.grid \in ConGrids
      /\ s.off \in 0..SbLines /\ s.off <= s.count /\ s.off \in Nat /\ s.row \in Nat
      /\ s.stale \in SUBSET Nat
  BY ScreenIs
<1>2. PICK g, y : g = CellSet(s.grid, s.row, s.col, x) /\ y = SetCell(s, x)
  OBVIOUS
<1>3. /\ g \in ConGrids /\ \A q \in 0..Rows - 1 : q # s.row => g[q] = s.grid[q]
  BY <1>1, <1>2, CellSetOK DEF CellIn
<1>4. CASE s.off = 0
  <2>1. s.pix = s.grid
    BY <1>4 DEF ScreenOK, PixOK
  <2>2. y = [s EXCEPT !.grid = g, !.pix = g]
    <3>1. PICK u : u = [s EXCEPT !.grid = g]
      OBVIOUS
    <3>2. u.pix = s.pix /\ u \in Screens
      BY <1>1, <1>3, <3>1 DEF Screens
    <3>3. y = [u EXCEPT !.pix = CellSet(@, s.row, s.col, x)]
      BY <1>2, <1>4, <3>1, Zenon DEF SetCell
    <3>4. y = [u EXCEPT !.pix = g]
      BY <1>2, <2>1, <3>2, <3>3
    <3>. QED
      BY <1>1, <3>1, <3>4 DEF Screens
  <2>3. /\ y \in Screens /\ y.grid = g /\ y.pix = g /\ y.row = s.row /\ y.col = s.col
        /\ y.sb = s.sb /\ y.head = s.head /\ y.count = s.count /\ y.off = s.off
        /\ y.tape = s.tape /\ y.stale = s.stale
    BY <1>1, <1>3, <2>2 DEF Screens
  <2>4. RingOK(y)
    BY <2>3 DEF ScreenOK, RingOK
  <2>5. PixOK(y)
    <3>1. \A r \in 0..Rows - 1 : ~(r < 0) /\ r - 0 = r
      OBVIOUS
    <3>. QED
      BY <1>4, <2>3, <3>1 DEF PixOK, Viewed
  <2>. QED
    BY <1>1, <1>2, <2>3, <2>4, <2>5 DEF ScreenOK
<1>5. CASE s.off # 0
  <2>1. PICK st : st = s.stale \cup {s.off + s.row}
    OBVIOUS
  <2>2. st \in SUBSET Nat
    BY <1>1, <2>1
  <2>3. y = [s EXCEPT !.grid = g, !.stale = st]
    <3>1. PICK u : u = [s EXCEPT !.grid = g]
      OBVIOUS
    <3>2. u.stale = s.stale /\ u \in Screens
      BY <1>1, <1>3, <3>1 DEF Screens
    <3>3. y = [u EXCEPT !.stale = @ \cup {s.off + s.row}]
      BY <1>2, <1>5, <3>1, Zenon DEF SetCell
    <3>4. y = [u EXCEPT !.stale = st]
      BY <2>1, <3>2, <3>3
    <3>. QED
      BY <1>1, <3>1, <3>4 DEF Screens
  <2>4. /\ y \in Screens /\ y.grid = g /\ y.pix = s.pix /\ y.row = s.row /\ y.col = s.col
        /\ y.sb = s.sb /\ y.head = s.head /\ y.count = s.count /\ y.off = s.off
        /\ y.tape = s.tape /\ y.stale = st
    BY <1>1, <1>3, <2>2, <2>3 DEF Screens
  <2>5. RingOK(y)
    BY <2>4 DEF ScreenOK, RingOK
  <2>6. ASSUME s.off < SbLines, NEW r \in 0..Rows - 1, r \notin st
        PROVE  s.pix[r] = Viewed(y, r)
    <3>1. s.pix[r] = Viewed(s, r) /\ r # s.off + s.row
      BY <2>1, <2>6 DEF ScreenOK, PixOK
    <3>2. CASE r < s.off
      BY <2>4, <3>1, <3>2 DEF Viewed
    <3>3. CASE ~(r < s.off)
      <4>1. PICK q : q = r - s.off
        OBVIOUS
      <4>2. q \in 0..Rows - 1 /\ q # s.row
        BY <1>1, <3>1, <3>3, <4>1, ConConsts
      <4>. QED
        BY <1>3, <2>4, <3>1, <3>3, <4>1, <4>2 DEF Viewed
    <3>. QED
      BY <3>2, <3>3
  <2>7. PixOK(y)
    BY <1>5, <2>4, <2>6 DEF PixOK
  <2>. QED
    BY <1>1, <1>2, <2>4, <2>5, <2>7 DEF ScreenOK
<1>. QED
  BY <1>4, <1>5

LEMMA PutCharOK ==
  ASSUME NEW s, ScreenOK(s), NEW x \in Cells \cup {NL}
  PROVE  CharPut(s, x, PutChar(s, x))
<1>1. /\ s.row \in 0..Rows - 1 /\ s.col \in 0..Cols - 1 /\ s.grid \in ConGrids /\ s.row \in Nat
      /\ Cols \in Nat \ {0} /\ s.col \in Nat /\ Len(s.tape) \in Nat
  BY ScreenIs, ConConsts
<1>2. CASE x = NL
  <2>1. PutChar(s, x) = LineFeed(s)
    BY <1>2 DEF PutChar
  <2>2. BlankBehind(s) => \A r \in 0..Rows - 1, c \in 0..Cols - 1 : r > s.row => s.grid[r][c] = Space
    BY DEF BlankBehind
  <2>. QED
    BY <1>2, <2>1, <2>2, ConFeedOK DEF CharPut
<1>3. CASE x # NL
  <2>1. PICK t, y, g : t = SetCell(s, x) /\ y = PutChar(s, x) /\ g = CellSet(s.grid, s.row, s.col, x)
    OBVIOUS
  <2>2. x \in Cells
    BY <1>3
  <2>3. ScreenOK(t) /\ t.row = s.row /\ t.col = s.col /\ t.tape = s.tape /\ t.grid = g
    BY <2>1, <2>2, SetCellOK
  <2>4. \A q \in 0..Rows - 1, c \in 0..Cols - 1 : g[q][c] = IF q = s.row /\ c = s.col THEN x ELSE s.grid[q][c]
    <3>1. CellIn(s.grid, CellSet(s.grid, s.row, s.col, x), s.row, s.col, x)
      BY <1>1, <2>2, CellSetOK
    <3>. QED
      BY <2>1, <3>1 DEF CellIn
  <2>5. CASE s.col + 1 >= Cols
    <3>1. y = LineFeed(t)
      BY <1>3, <2>1, <2>5 DEF PutChar
    <3>2. BlankBehind(s) => \A r \in 0..Rows - 1, c \in 0..Cols - 1 : r > t.row => t.grid[r][c] = Space
      <4>1. \A r \in 0..Rows - 1 : r > s.row => r # s.row
        BY <1>1
      <4>. QED
        BY <2>3, <2>4, <4>1 DEF BlankBehind
    <3>3. /\ ScreenOK(y) /\ Len(y.tape) >= Len(t.tape)
          /\ Len(y.tape) = Len(t.tape) => y.row = t.row + 1 /\ y.col = 0 /\ y.grid = t.grid
          /\ BlankBehind(s) => BlankBehind(y)
      BY <2>3, <3>1, <3>2, ConFeedOK
    <3>4. Advanced(s, y) <=> y.row = s.row + 1 /\ y.col = 0
      BY <2>5 DEF Advanced
    <3>. QED
      BY <2>1, <2>3, <3>3, <3>4 DEF CharPut
  <2>6. CASE ~(s.col + 1 >= Cols)
    <3>1. PICK r, i : r = t.row /\ i = t.col + 1
      OBVIOUS
    <3>2. r \in 0..Rows - 1 /\ i \in 0..Cols - 1 /\ r = s.row /\ i = s.col + 1
      BY <1>1, <2>3, <2>6, <3>1
    <3>3. y = [t EXCEPT !.row = r, !.col = i]
      <4>1. y = [t EXCEPT !.col = i]
        BY <1>3, <2>1, <2>6, <3>1 DEF PutChar
      <4>. QED
        BY <2>3, <3>1, <4>1 DEF ScreenOK, Screens
    <3>4. ScreenOK(y) /\ y.row = r /\ y.col = i /\ SameButCursor(t, y)
      <4>1. ScreenOK(t)
        BY <2>3
      <4>2. r \in 0..Rows - 1 /\ i \in 0..Cols - 1
        BY <3>2
      <4>3. CursorAt(t, y, r, i)
        BY <3>3, <4>1, <4>2, CursorOK, Zenon
      <4>. QED
        BY <4>3 DEF CursorAt
    <3>5. y.grid = g /\ y.tape = s.tape /\ Len(y.tape) >= Len(s.tape)
      BY <1>1, <2>3, <3>4 DEF SameButCursor
    <3>6. Advanced(s, y)
      BY <2>6, <3>2, <3>4 DEF Advanced
    <3>7. ASSUME BlankBehind(s)  PROVE BlankBehind(y)
      <4>1. ASSUME NEW q \in 0..Rows - 1, NEW c \in 0..Cols - 1,
                   q > y.row \/ (q = y.row /\ c >= y.col)
            PROVE  y.grid[q][c] = Space
        <5>1. (q > s.row \/ (q = s.row /\ c >= s.col)) /\ ~(q = s.row /\ c = s.col)
          BY <1>1, <3>2, <3>4, <4>1
        <5>. QED
          BY <2>4, <3>5, <3>7, <5>1 DEF BlankBehind
      <4>. QED
        BY <4>1 DEF BlankBehind
    <3>. QED
      BY <2>1, <3>4, <3>5, <3>6, <3>7 DEF CharPut
  <2>. QED
    BY <2>5, <2>6
<1>. QED
  BY <1>2, <1>3

LEMMA ConPutsOK ==
  ASSUME NEW s, ScreenOK(s), NEW text \in Seq(Cells \cup {NL})
  PROVE  /\ ScreenOK(Puts(s, text)) /\ Len(Puts(s, text).tape) >= Len(s.tape)
         /\ BlankBehind(s) => BlankBehind(Puts(s, text))
<1>1. PICK n : n = Len(text)
  OBVIOUS
<1>2. n \in Nat /\ DOMAIN text = 1..n /\ \A i \in 1..n : text[i] \in Cells \cup {NL}
  BY <1>1, ElementOfSeq
<1>3. PICK g : PutCharRun(g, s, text, n) /\ Puts(s, text) = g[n]
  <2>1. \E g : PutCharRun(g, s, text, n) /\ FoldLeft(PutChar, s, text) = g[n]
    BY <1>2, PutCharFold, Zenon
  <2>. QED
    BY <2>1, Zenon DEF Puts
<1>. DEFINE Fine(t) == /\ ScreenOK(t) /\ Len(t.tape) >= Len(s.tape)
                       /\ BlankBehind(s) => BlankBehind(t)
            Upto == {k \in Nat : k <= n => Fine(g[k])}
<1>4. 0 \in Upto
  <2>1. Fine(s)
    BY ScreenIs
  <2>. QED
    BY <1>3, <2>1 DEF PutCharRun
<1>5. ASSUME NEW k \in Upto  PROVE k + 1 \in Upto
  <2>1. SUFFICES ASSUME k + 1 <= n  PROVE Fine(g[k + 1])
    OBVIOUS
  <2>2. PICK j : j = k + 1
    OBVIOUS
  <2>3. j \in 1..n /\ k <= n /\ j - 1 = k
    BY <1>2, <2>1, <2>2
  <2>4. Fine(g[k]) /\ g[j] = PutChar(g[k], text[j]) /\ text[j] \in Cells \cup {NL}
    BY <1>2, <1>3, <2>3 DEF PutCharRun
  <2>5. CharPut(g[k], text[j], g[j])
    BY <2>4, PutCharOK
  <2>6. Len(g[j].tape) \in Nat /\ Len(g[k].tape) \in Nat /\ Len(s.tape) \in Nat
    BY <2>4, <2>5, ScreenIs DEF CharPut
  <2>7. Fine(g[j])
    BY <2>4, <2>5, <2>6 DEF CharPut
  <2>. QED
    BY <2>2, <2>7
<1>6. Upto = Nat
  <2>. HIDE DEF Upto
  <2>1. Upto \in SUBSET Nat
    BY DEF Upto
  <2>. QED
    BY <1>4, <1>5, <2>1, SetInduction, Zenon
<1>7. n \in Upto /\ n <= n
  BY <1>2, <1>6
<1>8. Fine(g[n])
  BY <1>7
<1>. QED
  BY <1>3, <1>8

-----------------------------------------------------------------------------
(***************************************************************************)
(* The console: the view.                                                  *)
(***************************************************************************)

LEMMA ViewedIs ==
  ASSUME NEW s, ScreenOK(s), NEW o \in 0..s.count, NEW t, t.off = o, t.sb = s.sb,
         t.head = s.head, t.grid = s.grid, NEW r \in 0..Rows - 1
  PROVE  ScreenRow(t, r) = Viewed(t, r) /\ ScreenRow(t, r) \in ConRows
<1>1. /\ s.count \in 0..SbLines /\ s.head \in 0..SbLines - 1 /\ s.grid \in ConGrids
      /\ s.sb \in [0..SbLines - 1 -> ConRows] /\ Rows \in Nat /\ SbLines \in Nat
  <2>1. /\ s.count \in 0..SbLines /\ s.head \in 0..SbLines - 1 /\ s.grid \in ConGrids
        /\ s.sb \in [0..SbLines - 1 -> ConRows]
    BY ScreenIs
  <2>. QED
    BY <2>1, ConConsts
<1>2. CASE r < o
  <2>1. PICK k : k = o - r
    OBVIOUS
  <2>2. k \in 1..SbLines
    BY <1>1, <1>2, <2>1
  <2>3. (s.head - k) % SbLines = RingAt(s.head, k, SbLines) /\ RingAt(s.head, k, SbLines) \in 0..SbLines - 1
    <3>1. PICK h : h = s.head
      OBVIOUS
    <3>2. SbLines \in Nat \ {0} /\ h \in 0..SbLines - 1
      BY <1>1, <3>1, ConConsts
    <3>3. (h - k) % SbLines = RingAt(h, k, SbLines) /\ RingAt(h, k, SbLines) \in 0..SbLines - 1
      BY <2>2, <3>2, RingAtIs
    <3>. QED
      BY <3>1, <3>3
  <2>4. ScreenRow(t, r) = t.sb[(t.head - k) % SbLines]
    BY <1>2, <2>1 DEF ScreenRow, RingRow
  <2>5. Viewed(t, r) = t.sb[RingAt(t.head, k, SbLines)]
    BY <1>2, <2>1 DEF Viewed
  <2>. QED
    BY <1>1, <2>3, <2>4, <2>5
<1>3. CASE ~(r < o)
  <2>1. r - o \in 0..Rows - 1
    BY <1>1, <1>3
  <2>. QED
    BY <1>1, <1>3, <2>1 DEF ScreenRow, Viewed, ConGrids
<1>. QED
  BY <1>2, <1>3

\* What the view may change.
SameGrid(s, t) ==
  /\ t.grid = s.grid /\ t.row = s.row /\ t.col = s.col /\ t.tape = s.tape

LEMMA ViewOK ==
  ASSUME NEW s, ScreenOK(s), NEW o \in 0..s.count, NEW y, y = Render([s EXCEPT !.off = o])
  PROVE  ScreenOK(y) /\ SameGrid(s, y)
<1>1. /\ s \in Screens /\ s.count \in 0..SbLines /\ s.grid \in ConGrids /\ SbLines \in Nat
  BY ScreenIs, ConConsts
<1>2. PICK t : t = [s EXCEPT !.off = o]
  OBVIOUS
<1>3. o \in 0..SbLines
  BY <1>1
<1>4. /\ t \in Screens /\ t.off = o /\ t.sb = s.sb /\ t.head = s.head /\ t.grid = s.grid
      /\ t.row = s.row /\ t.col = s.col /\ t.tape = s.tape /\ t.count = s.count
  BY <1>1, <1>2, <1>3 DEF Screens
<1>5. PICK p, e : p = [r \in 0..Rows - 1 |-> ScreenRow(t, r)] /\ e = {}
  OBVIOUS
<1>6. \A r \in 0..Rows - 1 : p[r] = Viewed(t, r) /\ p[r] \in ConRows
  BY <1>4, <1>5, ViewedIs
<1>7. p \in ConGrids /\ e \in SUBSET Nat
  BY <1>5, <1>6 DEF ConGrids
<1>8. y = [t EXCEPT !.pix = p, !.stale = e]
  BY <1>2, <1>5 DEF Render
<1>9. /\ y \in Screens /\ y.off = o /\ y.sb = s.sb /\ y.head = s.head /\ y.grid = s.grid
      /\ y.row = s.row /\ y.col = s.col /\ y.tape = s.tape /\ y.count = s.count /\ y.pix = p
  BY <1>4, <1>7, <1>8 DEF Screens
<1>10. RingOK(y)
  BY <1>9 DEF ScreenOK, RingOK
<1>11. \A r \in 0..Rows - 1 : Viewed(y, r) = Viewed(t, r)
  BY <1>4, <1>9 DEF Viewed
<1>12. ASSUME o = 0  PROVE p = s.grid
  <2>1. \A r \in 0..Rows - 1 : p[r] = s.grid[r]
    <3>1. \A r \in 0..Rows - 1 : ~(r < 0) /\ r - 0 = r
      OBVIOUS
    <3>. QED
      BY <1>4, <1>6, <1>12, <3>1 DEF Viewed
  <2>2. s.grid \in ConGrids /\ p \in ConGrids
    BY <1>1, <1>7
  <2>3. p = [r \in 0..Rows - 1 |-> p[r]] /\ s.grid = [r \in 0..Rows - 1 |-> s.grid[r]]
    BY <2>2 DEF ConGrids
  <2>. QED
    BY <2>1, <2>3
<1>13. PixOK(y)
  BY <1>6, <1>9, <1>11, <1>12 DEF PixOK
<1>. QED
  BY <1>1, <1>9, <1>10, <1>13 DEF ScreenOK, SameGrid

LEMMA ViewsOK ==
  ASSUME NEW s, ScreenOK(s), NEW y \in {ViewUp(s), ViewDown(s), ViewReset(s)}
  PROVE  ScreenOK(y) /\ SameGrid(s, y)
<1>1. s \in Screens /\ s.off \in 0..SbLines /\ s.count \in 0..SbLines /\ s.off <= s.count
      /\ SbStep \in Nat
  BY ScreenIs, ConConsts
<1>2. \/ y = s
      \/ \E o : y = Render([s EXCEPT !.off = o]) /\ o \in 0..s.count
  <2>1. CASE y = ViewUp(s)
    <3>1. PICK avail, o : /\ avail = s.count - s.off
                          /\ o = s.off + (IF avail < SbStep THEN avail ELSE SbStep)
      OBVIOUS
    <3>2. y = IF s.count = 0 \/ avail <= 0 THEN s ELSE Render([s EXCEPT !.off = o])
      BY <2>1, <3>1 DEF ViewUp
    <3>3. ~(avail <= 0) => o \in 0..s.count
      BY <1>1, <3>1
    <3>. QED
      BY <3>2, <3>3
  <2>2. CASE y = ViewDown(s)
    <3>1. PICK o : o = s.off - (IF s.off < SbStep THEN s.off ELSE SbStep)
      OBVIOUS
    <3>2. y = IF s.off = 0 THEN s ELSE Render([s EXCEPT !.off = o])
      BY <2>2, <3>1 DEF ViewDown
    <3>3. o \in 0..s.count
      BY <1>1, <3>1
    <3>. QED
      BY <3>2, <3>3
  <2>3. CASE y = ViewReset(s)
    <3>1. 0 \in 0..s.count
      BY <1>1
    <3>. QED
      BY <2>3, <3>1 DEF ViewReset
  <2>. QED
    BY <2>1, <2>2, <2>3
<1>. QED
  BY <1>2, ViewOK DEF SameGrid

LEMMA GotoCellOK ==
  ASSUME NEW s, ScreenOK(s), NEW r \in Nat, NEW i \in Nat
  PROVE  /\ ScreenOK(GotoCell(s, r, i)) /\ SameButCursor(s, GotoCell(s, r, i))
         /\ r < Rows => GotoCell(s, r, i).row = r
         /\ i < Cols => GotoCell(s, r, i).col = i
<1>1. PICK q, c : q = (IF r < Rows THEN r ELSE Rows - 1) /\ c = (IF i < Cols THEN i ELSE Cols - 1)
  OBVIOUS
<1>2. q \in 0..Rows - 1 /\ c \in 0..Cols - 1
  BY <1>1, ConConsts
<1>3. GotoCell(s, r, i) = [s EXCEPT !.row = q, !.col = c]
  BY <1>1 DEF GotoCell
<1>4. ScreenOK(GotoCell(s, r, i)) /\ GotoCell(s, r, i).row = q /\ GotoCell(s, r, i).col = c
      /\ SameButCursor(s, GotoCell(s, r, i))
  BY <1>2, <1>3, CursorOK DEF CursorAt
<1>. QED
  BY <1>1, <1>4

LEMMA VgaInitOK ==
  ASSUME NEW s, ScreenOK(s)  PROVE ScreenOK(VgaInit(s)) /\ BlankBehind(VgaInit(s))
<1>1. PICK g, z, q, e : g = BlankGrid /\ z = 0 /\ q = <<>> /\ e = {}
  OBVIOUS
<1>2. /\ s \in Screens /\ g \in ConGrids /\ z \in 0..Rows - 1 /\ z \in 0..Cols - 1
      /\ z \in 0..SbLines /\ z \in 0..SbLines - 1 /\ q \in Seq(ConRows) /\ Len(q) = 0
      /\ e \in SUBSET Nat
  BY <1>1, SpacesCell, ConConsts DEF ScreenOK
<1>3. PICK y : y = VgaInit(s)
  OBVIOUS
<1>4. y = [s EXCEPT !.grid = g, !.pix = g, !.row = z, !.col = z, !.head = z, !.count = z,
                    !.off = z, !.tape = q, !.stale = e]
  BY <1>1, <1>3 DEF VgaInit
<1>5. /\ y \in Screens /\ y.grid = g /\ y.pix = g /\ y.row = z /\ y.col = z /\ y.head = z
      /\ y.count = z /\ y.off = z /\ y.tape = q
  BY <1>2, <1>4 DEF Screens
<1>6. RingOK(y)
  BY <1>1, <1>2, <1>5, ConConsts DEF RingOK
<1>7. PixOK(y)
  <2>1. \A r \in 0..Rows - 1 : ~(r < 0) /\ r - 0 = r
    OBVIOUS
  <2>. QED
    BY <1>1, <1>5, <2>1 DEF PixOK, Viewed
<1>8. BlankBehind(y)
  BY <1>1, <1>5, SpacesCell DEF BlankBehind
<1>9. y.off <= y.count
  BY <1>1, <1>5
<1>. QED
  BY <1>3, <1>5, <1>6, <1>7, <1>8, <1>9 DEF ScreenOK
-----------------------------------------------------------------------------
(***************************************************************************)
(* The console: a line on the screen.                                      *)
(***************************************************************************)

LEMMA DivModNext ==
  ASSUME NEW d \in Nat \ {0}, NEW n \in Nat
  PROVE  IF n % d = d - 1 THEN (n + 1) % d = 0 /\ (n + 1) \div d = (n \div d) + 1
         ELSE (n + 1) % d = (n % d) + 1 /\ (n + 1) \div d = n \div d
  OBVIOUS

LEMMA DivModOf ==
  ASSUME NEW d \in Nat \ {0}, NEW n \in Nat
  PROVE  n % d \in 0..d - 1 /\ n \div d \in Int /\ n \div d >= 0
  OBVIOUS

LEMMA DivModSmall ==
  ASSUME NEW d \in Nat \ {0}, NEW x \in 0..d - 1
  PROVE  x % d = x /\ x \div d = 0
  OBVIOUS

\* The place the line starts at.
PrOK(sh) == sh.prRow \in 0..Rows - 1 /\ sh.prCol \in 0..Cols - 1

LEMMA PosIs ==
  ASSUME NEW sh, PrOK(sh), NEW n \in Nat
  PROVE  PosRow(sh, n) \in Nat /\ PosCol(sh, n) \in 0..Cols - 1
<1>1. PICK a : a = sh.prCol + n
  OBVIOUS
<1>2. a \in Nat /\ Cols \in Nat \ {0} /\ sh.prRow \in Nat
  BY <1>1, ConConsts DEF PrOK
<1>3. a % Cols \in 0..Cols - 1 /\ a \div Cols \in Int /\ a \div Cols >= 0
  BY <1>2, DivModOf
<1>. QED
  BY <1>1, <1>2, <1>3 DEF PosRow, PosCol

LEMMA PosFirst ==
  ASSUME NEW sh, PrOK(sh)
  PROVE  PosRow(sh, 0) = sh.prRow /\ PosCol(sh, 0) = sh.prCol
<1>1. PICK a : a = sh.prCol + 0
  OBVIOUS
<1>2. a = sh.prCol /\ a \in 0..Cols - 1 /\ Cols \in Nat \ {0} /\ sh.prRow \in Nat
  BY <1>1, ConConsts DEF PrOK
<1>3. a % Cols = a /\ a \div Cols = 0
  BY <1>2, DivModSmall
<1>4. PosRow(sh, 0) = sh.prRow + (a \div Cols) /\ PosCol(sh, 0) = a % Cols
  BY <1>1 DEF PosRow, PosCol
<1>. QED
  BY <1>2, <1>3, <1>4

NextPos(r, c, q, d) == IF c + 1 >= Cols THEN q = r + 1 /\ d = 0 ELSE q = r /\ d = c + 1

LEMMA PosNext ==
  ASSUME NEW sh, PrOK(sh), NEW n \in Nat
  PROVE  NextPos(PosRow(sh, n), PosCol(sh, n), PosRow(sh, n + 1), PosCol(sh, n + 1))
<1>1. PICK a : a = sh.prCol + n
  OBVIOUS
<1>2. a \in Nat /\ Cols \in Nat \ {0} /\ sh.prRow \in Nat /\ sh.prCol + (n + 1) = a + 1
  BY <1>1, ConConsts DEF PrOK
<1>3. PICK q, m, q1, m1 : q = a \div Cols /\ m = a % Cols /\ q1 = (a + 1) \div Cols /\ m1 = (a + 1) % Cols
  OBVIOUS
<1>4. m \in 0..Cols - 1 /\ q \in Int
  BY <1>2, <1>3, DivModOf
<1>5. IF m = Cols - 1 THEN m1 = 0 /\ q1 = q + 1 ELSE m1 = m + 1 /\ q1 = q
  BY <1>2, <1>3, DivModNext
<1>6. /\ PosRow(sh, n) = sh.prRow + q /\ PosCol(sh, n) = m
      /\ PosRow(sh, n + 1) = sh.prRow + q1 /\ PosCol(sh, n + 1) = m1
  BY <1>1, <1>2, <1>3 DEF PosRow, PosCol
<1>. QED
  BY <1>2, <1>4, <1>5, <1>6 DEF NextPos

\* Cells in the order they are read.
Before(r, c, q, d) == r < q \/ (r = q /\ c < d)

LEMMA BeforeNext ==
  ASSUME NEW r \in Nat, NEW c \in 0..Cols - 1, NEW q \in Nat, NEW d \in 0..Cols - 1,
         NextPos(r, c, q, d)
  PROVE  /\ Before(r, c, q, d)
         /\ \A i \in Nat, j \in 0..Cols - 1 :
              Before(i, j, q, d) <=> Before(i, j, r, c) \/ (i = r /\ j = c)
  BY ConConsts DEF NextPos, Before

LEMMA PosBefore ==
  ASSUME NEW sh, PrOK(sh), NEW i \in Nat, NEW j \in Nat, i < j
  PROVE  Before(PosRow(sh, i), PosCol(sh, i), PosRow(sh, j), PosCol(sh, j))
<1>. DEFINE Less(m, n) == Before(PosRow(sh, m), PosCol(sh, m), PosRow(sh, n), PosCol(sh, n))
            Fine == {n \in Nat : \A m \in Nat : m < n => Less(m, n)}
<1>1. 0 \in Fine
  OBVIOUS
<1>2. ASSUME NEW n \in Fine  PROVE n + 1 \in Fine
  <2>1. PICK k : k = n + 1
    OBVIOUS
  <2>2. n \in Nat /\ k \in Nat
    BY <2>1
  <2>3. PICK r, c, q, d : r = PosRow(sh, n) /\ c = PosCol(sh, n) /\ q = PosRow(sh, k) /\ d = PosCol(sh, k)
    OBVIOUS
  <2>4. r \in Nat /\ c \in 0..Cols - 1 /\ q \in Nat /\ d \in 0..Cols - 1
    BY <2>2, <2>3, PosIs
  <2>5. NextPos(r, c, q, d)
    BY <2>1, <2>2, <2>3, PosNext
  <2>6. ASSUME NEW m \in Nat, m < k  PROVE Before(PosRow(sh, m), PosCol(sh, m), q, d)
    <3>1. PosRow(sh, m) \in Nat /\ PosCol(sh, m) \in 0..Cols - 1
      BY PosIs
    <3>2. CASE m = n
      BY <2>3, <2>4, <2>5, <3>2, BeforeNext
    <3>3. CASE m # n
      <4>1. m < n
        BY <2>1, <2>2, <2>6, <3>3
      <4>2. Before(PosRow(sh, m), PosCol(sh, m), r, c)
        BY <2>3, <4>1
      <4>. QED
        BY <2>4, <2>5, <3>1, <4>2, BeforeNext
    <3>. QED
      BY <3>2, <3>3
  <2>7. k \in Fine
    BY <2>2, <2>3, <2>6
  <2>. QED
    BY <2>1, <2>7
<1>3. Fine = Nat
  <2>. HIDE DEF Fine
  <2>1. Fine \in SUBSET Nat
    BY DEF Fine
  <2>. QED
    BY <1>1, <1>2, <2>1, SetInduction, Zenon
<1>. QED
  BY <1>3

\* The line's first n characters are on the screen, the cursor behind them.
Written(s, sh, buf, n) ==
  /\ s.row = PosRow(sh, n) /\ s.col = PosCol(sh, n)
  /\ \A i \in 1..n : s.grid[PosRow(sh, i - 1)][PosCol(sh, i - 1)] = buf[i]

LEMMA WrittenCells ==
  ASSUME NEW s, ScreenOK(s), NEW sh, PrOK(sh), NEW n \in Nat,
         s.row = PosRow(sh, n), s.col = PosCol(sh, n), NEW i \in 0..n - 1
  PROVE  /\ PosRow(sh, i) \in 0..Rows - 1 /\ PosCol(sh, i) \in 0..Cols - 1
         /\ ~(PosRow(sh, i) = s.row /\ PosCol(sh, i) = s.col)
<1>1. i \in Nat /\ i < n
  OBVIOUS
<1>2. Before(PosRow(sh, i), PosCol(sh, i), PosRow(sh, n), PosCol(sh, n))
  BY <1>1, PosBefore
<1>3. PosRow(sh, i) \in Nat /\ PosCol(sh, i) \in 0..Cols - 1
  BY <1>1, PosIs
<1>4. s.row \in 0..Rows - 1 /\ s.col \in 0..Cols - 1
  BY ScreenIs
<1>. QED
  BY <1>2, <1>3, <1>4, ConConsts DEF Before

LEMMA WrittenNext ==
  ASSUME NEW s, ScreenOK(s), NEW sh, PrOK(sh), NEW buf, NEW n \in Nat, Written(s, sh, buf, n),
         NEW x \in Cells, x # NL, NEW t, CharPut(s, x, t), Len(t.tape) = Len(s.tape),
         NEW more, more[n + 1] = x, \A i \in 1..n : more[i] = buf[i]
  PROVE  Written(t, sh, more, n + 1)
<1>1. Advanced(s, t) /\ t.grid = CellSet(s.grid, s.row, s.col, x)
  BY DEF CharPut
<1>2. s.row = PosRow(sh, n) /\ s.col = PosCol(sh, n)
  BY DEF Written
<1>3. s.row \in 0..Rows - 1 /\ s.col \in 0..Cols - 1 /\ s.grid \in ConGrids
  BY ScreenIs
<1>4. t.row = PosRow(sh, n + 1) /\ t.col = PosCol(sh, n + 1)
  <2>1. NextPos(PosRow(sh, n), PosCol(sh, n), PosRow(sh, n + 1), PosCol(sh, n + 1))
    BY PosNext
  <2>. QED
    BY <1>1, <1>2, <2>1 DEF Advanced, NextPos
<1>5. CellIn(s.grid, t.grid, s.row, s.col, x)
  BY <1>1, <1>3, CellSetOK
<1>6. ASSUME NEW i \in 1..n + 1
      PROVE  t.grid[PosRow(sh, i - 1)][PosCol(sh, i - 1)] = more[i]
  <2>1. CASE i = n + 1
    <3>1. i - 1 = n
      BY <2>1
    <3>. QED
      BY <1>2, <1>3, <1>5, <2>1, <3>1 DEF CellIn
  <2>2. CASE i # n + 1
    <3>1. PICK j : j = i - 1
      OBVIOUS
    <3>2. i \in 1..n /\ j \in 0..n - 1
      BY <2>2, <3>1
    <3>3. /\ PosRow(sh, j) \in 0..Rows - 1 /\ PosCol(sh, j) \in 0..Cols - 1
          /\ ~(PosRow(sh, j) = s.row /\ PosCol(sh, j) = s.col)
      BY <1>2, <3>2, WrittenCells
    <3>4. s.grid[PosRow(sh, j)][PosCol(sh, j)] = buf[i]
      BY <3>1, <3>2 DEF Written
    <3>5. t.grid[PosRow(sh, j)][PosCol(sh, j)] = s.grid[PosRow(sh, j)][PosCol(sh, j)]
      BY <1>5, <3>3 DEF CellIn
    <3>. QED
      BY <3>1, <3>2, <3>4, <3>5
  <2>. QED
    BY <2>1, <2>2
<1>. QED
  BY <1>4, <1>6 DEF Written

\* From its k-th character on the text is blank, and behind the cursor the
\* screen is as it was.
Rest(s, t, sh, k) ==
  \A q \in 0..Rows - 1, c \in 0..Cols - 1 :
    /\ ~Before(q, c, t.row, t.col) => t.grid[q][c] = s.grid[q][c]
    /\ Before(q, c, t.row, t.col) /\ ~Before(q, c, PosRow(sh, k), PosCol(sh, k))
         => t.grid[q][c] = Space

LEMMA RestNext ==
  ASSUME NEW s, NEW t, ScreenOK(t), NEW sh, PrOK(sh), NEW k \in Nat, NEW n \in Nat,
         Rest(s, t, sh, k), t.row = PosRow(sh, n), t.col = PosCol(sh, n),
         NEW x \in Cells, x # NL, n >= k => x = Space,
         NEW u, CharPut(t, x, u), Len(u.tape) = Len(t.tape)
  PROVE  Rest(s, u, sh, k)
<1>1. Advanced(t, u) /\ u.grid = CellSet(t.grid, t.row, t.col, x) /\ ScreenOK(u)
  BY DEF CharPut
<1>2. /\ t.row \in 0..Rows - 1 /\ t.col \in 0..Cols - 1 /\ t.grid \in ConGrids
      /\ t.row \in Nat /\ u.row \in Nat /\ u.col \in 0..Cols - 1
  BY <1>1, ScreenIs
<1>3. NextPos(t.row, t.col, u.row, u.col)
  BY <1>1 DEF Advanced, NextPos
<1>4. \A i \in Nat, j \in 0..Cols - 1 :
        Before(i, j, u.row, u.col) <=> Before(i, j, t.row, t.col) \/ (i = t.row /\ j = t.col)
  BY <1>2, <1>3, BeforeNext
<1>5. CellIn(t.grid, u.grid, t.row, t.col, x)
  BY <1>1, <1>2, CellSetOK
<1>6. ASSUME n < k  PROVE Before(t.row, t.col, PosRow(sh, k), PosCol(sh, k))
  BY <1>6, PosBefore
<1>7. ASSUME NEW q \in 0..Rows - 1, NEW c \in 0..Cols - 1
      PROVE  /\ ~Before(q, c, u.row, u.col) => u.grid[q][c] = s.grid[q][c]
             /\ Before(q, c, u.row, u.col) /\ ~Before(q, c, PosRow(sh, k), PosCol(sh, k))
                  => u.grid[q][c] = Space
  <2>1. q \in Nat
    OBVIOUS
  <2>2. Before(q, c, u.row, u.col) <=> Before(q, c, t.row, t.col) \/ (q = t.row /\ c = t.col)
    BY <1>4, <2>1
  <2>3. CASE q = t.row /\ c = t.col
    <3>1. u.grid[q][c] = x
      BY <1>5, <2>3 DEF CellIn
    <3>2. ~Before(q, c, PosRow(sh, k), PosCol(sh, k)) => n >= k
      BY <1>6, <2>3
    <3>. QED
      BY <2>2, <2>3, <3>1, <3>2
  <2>4. CASE ~(q = t.row /\ c = t.col)
    <3>1. u.grid[q][c] = t.grid[q][c]
      BY <1>5, <2>4 DEF CellIn
    <3>. QED
      BY <2>2, <2>4, <3>1 DEF Rest
  <2>. QED
    BY <2>3, <2>4
<1>. QED
  BY <1>7 DEF Rest

\* A text is put at the line's place, blank from the k-th character on.
Drawn(s, t, sh, text, k, n) == Written(t, sh, text, n) /\ Rest(s, t, sh, k)

LEMMA PutsDrawn ==
  ASSUME NEW s, ScreenOK(s), NEW sh, PrOK(sh), s.row = sh.prRow, s.col = sh.prCol,
         NEW text \in Seq(Cells \ {NL}), NEW k \in 0..Len(text),
         \A i \in 1..Len(text) : i > k => text[i] = Space,
         Len(Puts(s, text).tape) = Len(s.tape)
  PROVE  Drawn(s, Puts(s, text), sh, text, k, Len(text))
<1>1. PICK n : n = Len(text)
  OBVIOUS
<1>2. n \in Nat /\ DOMAIN text = 1..n /\ \A i \in 1..n : text[i] \in Cells /\ text[i] # NL
  BY <1>1, ElementOfSeq
<1>3. PICK g : PutCharRun(g, s, text, n) /\ Puts(s, text) = g[n]
  <2>0. n \in Nat /\ DOMAIN text = 1..n
    BY <1>2
  <2>1. \E g : PutCharRun(g, s, text, n) /\ FoldLeft(PutChar, s, text) = g[n]
    BY <2>0, PutCharFold, Zenon
  <2>. QED
    BY <2>1, Zenon DEF Puts
<1>. DEFINE Fine(t, j) == /\ ScreenOK(t) /\ Len(t.tape) >= Len(s.tape)
                          /\ Len(t.tape) = Len(s.tape) => Drawn(s, t, sh, text, k, j)
            Upto == {j \in Nat : j <= n => Fine(g[j], j)}
<1>4. 0 \in Upto
  <2>1. Len(s.tape) >= Len(s.tape)
    BY ScreenIs
  <2>2. Written(s, sh, text, 0)
    BY PosFirst DEF Written
  <2>3. Rest(s, s, sh, k)
    <3>1. k \in Nat /\ (k # 0 => 0 < k)
      BY <1>1, <1>2
    <3>2. k = 0 \/ Before(s.row, s.col, PosRow(sh, k), PosCol(sh, k))
      <4>1. k # 0 => Before(PosRow(sh, 0), PosCol(sh, 0), PosRow(sh, k), PosCol(sh, k))
        BY <3>1, PosBefore
      <4>. QED
        BY <4>1, PosFirst
    <3>3. PICK r, d, e, f : r = s.row /\ d = s.col /\ e = PosRow(sh, k) /\ f = PosCol(sh, k)
      OBVIOUS
    <3>4. r \in Nat /\ d \in 0..Cols - 1 /\ e \in Nat /\ f \in 0..Cols - 1
      BY <3>1, <3>3, ScreenIs, PosIs
    <3>5. (r = e /\ d = f) \/ Before(r, d, e, f)
      BY <3>2, <3>3, PosFirst
    <3>6. \A q \in 0..Rows - 1, c \in 0..Cols - 1 : Before(q, c, r, d) => Before(q, c, e, f)
      BY <3>4, <3>5, ConConsts DEF Before
    <3>. QED
      BY <3>3, <3>6 DEF Rest
  <2>4. Fine(s, 0)
    BY <2>1, <2>2, <2>3 DEF Drawn
  <2>. QED
    BY <1>3, <2>4 DEF PutCharRun
<1>5. ASSUME NEW j \in Upto  PROVE j + 1 \in Upto
  <2>1. SUFFICES ASSUME j + 1 <= n  PROVE Fine(g[j + 1], j + 1)
    OBVIOUS
  <2>2. PICK m : m = j + 1
    OBVIOUS
  <2>3. m \in 1..n /\ j <= n /\ m - 1 = j /\ j \in Nat /\ (j >= k => m > k)
    BY <1>1, <1>2, <2>1, <2>2
  <2>4. Fine(g[j], j) /\ g[m] = PutChar(g[j], text[m])
    BY <1>3, <2>3 DEF PutCharRun
  <2>5. text[m] \in Cells /\ text[m] # NL /\ (j >= k => text[m] = Space)
    BY <1>1, <1>2, <2>3
  <2>6. CharPut(g[j], text[m], g[m])
    BY <2>4, <2>5, PutCharOK
  <2>7. /\ ScreenOK(g[m]) /\ Len(g[m].tape) >= Len(g[j].tape)
        /\ Len(g[m].tape) \in Nat /\ Len(g[j].tape) \in Nat /\ Len(s.tape) \in Nat
    BY <2>4, <2>6, ScreenIs DEF CharPut
  <2>8. ASSUME Len(g[m].tape) = Len(s.tape)  PROVE Drawn(s, g[m], sh, text, k, m)
    <3>1. Len(g[m].tape) = Len(g[j].tape) /\ Len(g[j].tape) = Len(s.tape)
      BY <2>4, <2>7, <2>8
    <3>2. Written(g[j], sh, text, j) /\ Rest(s, g[j], sh, k) /\ ScreenOK(g[j])
      BY <2>4, <3>1 DEF Drawn
    <3>3. g[j].row = PosRow(sh, j) /\ g[j].col = PosCol(sh, j)
      BY <3>2 DEF Written
    <3>4. Written(g[m], sh, text, j + 1)
      BY <2>2, <2>3, <2>5, <2>6, <3>1, <3>2, WrittenNext
    <3>5. Rest(s, g[m], sh, k)
      <4>1. k \in Nat
        BY <1>1, <1>2
      <4>. QED
        BY <2>3, <2>5, <2>6, <3>1, <3>2, <3>3, <4>1, RestNext
    <3>. QED
      BY <2>2, <3>4, <3>5 DEF Drawn
  <2>9. Fine(g[m], m)
    BY <2>4, <2>7, <2>8
  <2>. QED
    BY <2>2, <2>9
<1>6. Upto = Nat
  <2>. HIDE DEF Upto
  <2>1. Upto \in SUBSET Nat
    BY DEF Upto
  <2>. QED
    BY <1>4, <1>5, <2>1, SetInduction, Zenon
<1>7. n \in Upto /\ n <= n
  BY <1>2, <1>6
<1>8. Fine(g[n], n)
  BY <1>7
<1>. QED
  BY <1>1, <1>3, <1>8

\* The line's characters, the buffers that hold it, and the lines that fit.
LineChars == Letters \cup {Space}
ConBufs == [1..LineMax + 1 -> LineChars \cup {NUL}]
ConTexts == {text \in Seq(LineChars) : Len(text) <= LineMax}
CStr(buf) == buf \in ConBufs /\ buf[LineMax + 1] = NUL
Holds(buf, n) == CStr(buf) /\ n \in 0..LineMax /\ \A i \in 1..n : buf[i] \in LineChars

LEMMA CharsOf ==
  /\ NUL \notin LineChars /\ NL \notin LineChars /\ Space \in LineChars /\ NL # Space /\ NUL # Space
  /\ LineChars \subseteq Cells /\ Letters \subseteq LineChars
  /\ NUL \notin Letters /\ Space \notin Letters
  BY ConsoleAssumption DEF LineChars, Cells, NL, NUL, Space

LEMMA LineOf ==
  ASSUME NEW sh, Holds(sh.input, sh.len)
  PROVE  /\ Line(sh) \in ConTexts /\ Len(Line(sh)) = sh.len
         /\ \A i \in 1..sh.len : Line(sh)[i] = sh.input[i]
<1>1. PICK n, b : n = sh.len /\ b = sh.input
  OBVIOUS
<1>2. n \in 0..LineMax /\ LineMax \in Nat /\ \A i \in 1..n : b[i] \in LineChars
  BY <1>1, ConConsts DEF Holds
<1>3. 1 \in Int /\ n \in Int /\ n - 1 + 1 = n /\ (~(1 <= n) => n = 0)
      /\ \A i \in 1..n : 1 + i - 1 = i
  BY <1>2
<1>4. /\ SubSeq(b, 1, n) \in Seq(LineChars) /\ Len(SubSeq(b, 1, n)) = n
      /\ \A i \in 1..n : SubSeq(b, 1, n)[i] = b[i]
  BY <1>2, <1>3, SubSeqProperties
<1>5. n <= LineMax
  BY <1>2
<1>. QED
  BY <1>1, <1>4, <1>5 DEF Line, ConTexts

\* What is drawn over the old line: the new one, and blanks up to a cell more
\* than the longer of the two.
Drawing(text, buf, n, o, m) ==
  /\ text \in Seq(Cells \ {NL}) /\ Len(text) = m /\ m \in Nat /\ n < m /\ o < m
  /\ \A i \in 1..m : IF i <= n THEN text[i] = buf[i] ELSE text[i] = Space

LEMMA DrawingOK ==
  ASSUME NEW sh, Holds(sh.input, sh.len), NEW o \in Nat
  PROVE  Drawing(Line(sh) \o Blanks(RedrawLen(sh.len, o) - sh.len), sh.input, sh.len, o, RedrawLen(sh.len, o))
<1>1. PICK n, b, m, line : n = sh.len /\ b = sh.input /\ m = RedrawLen(sh.len, o) /\ line = Line(sh)
  OBVIOUS
<1>2. /\ n \in Nat /\ line \in Seq(LineChars) /\ Len(line) = n /\ \A i \in 1..n : line[i] = b[i]
  BY <1>1, LineOf, ConConsts DEF Holds, ConTexts
<1>3. m \in Nat /\ n < m /\ o < m
  BY <1>1, <1>2 DEF RedrawLen
<1>4. PICK k \in Nat : k = m - n /\ n + k = m
  BY <1>2, <1>3
<1>5. PICK blank : blank = Blanks(k)
  OBVIOUS
<1>6. blank = [i \in 1..k |-> Space]
  BY <1>5 DEF Blanks
<1>7. Space \in Cells \ {NL} /\ LineChars \subseteq Cells \ {NL}
  BY CharsOf
<1>8. blank \in Seq(Cells \ {NL}) /\ Len(blank) = k /\ \A i \in 1..k : blank[i] = Space
  BY <1>6, <1>7
<1>9. line \in Seq(Cells \ {NL})
  BY <1>2, <1>7, SeqMonotonic
<1>10. PICK text : text = line \o blank
  OBVIOUS
<1>11. text \in Seq(Cells \ {NL}) /\ Len(text) = n + k
       /\ \A i \in 1..n + k : text[i] = IF i <= n THEN line[i] ELSE blank[i - n]
  <2>1. PICK S : S = Cells \ {NL}
    OBVIOUS
  <2>2. line \in Seq(S) /\ blank \in Seq(S)
    BY <1>8, <1>9, <2>1
  <2>3. /\ text \in Seq(S) /\ Len(text) = Len(line) + Len(blank)
        /\ \A i \in 1..Len(line) + Len(blank) :
             text[i] = IF i <= Len(line) THEN line[i] ELSE blank[i - Len(line)]
    BY <1>10, <2>2, ConcatProperties
  <2>. QED
    BY <1>2, <1>8, <2>1, <2>3
<1>12. ASSUME NEW i \in 1..m  PROVE IF i <= n THEN text[i] = b[i] ELSE text[i] = Space
  <2>1. i <= n => i \in 1..n
    BY <1>2
  <2>2. ~(i <= n) => i - n \in 1..k
    BY <1>2, <1>3, <1>4
  <2>3. i \in 1..n + k
    BY <1>4
  <2>. QED
    BY <1>2, <1>8, <1>11, <2>1, <2>2, <2>3
<1>13. Drawing(text, b, n, o, m)
  BY <1>3, <1>4, <1>11, <1>12 DEF Drawing
<1>14. text = Line(sh) \o Blanks(RedrawLen(sh.len, o) - sh.len)
  BY <1>1, <1>4, <1>5, <1>10
<1>. QED
  BY <1>1, <1>13, <1>14

\* The line is on the screen, and nothing behind it.
OnScreen(s, sh) == Written(s, sh, sh.input, sh.len) /\ BlankBehind(s)
\* A line drawn anew is, when the old one ended at the cursor and nothing scrolls.
DrawnOver(s, t, sh, o) ==
  /\ ScreenOK(t) /\ Len(t.tape) >= Len(s.tape)
  /\ Len(t.tape) = Len(s.tape) /\ s.row = PosRow(sh, o) /\ s.col = PosCol(sh, o) /\ BlankBehind(s)
       => OnScreen(t, sh)

LEMMA RedrawOK ==
  ASSUME NEW s, ScreenOK(s), NEW sh, PrOK(sh), Holds(sh.input, sh.len), NEW o \in Nat
  PROVE  DrawnOver(s, Redraw(s, sh, o), sh, o)
<1>1. PICK text, m : text = Line(sh) \o Blanks(RedrawLen(sh.len, o) - sh.len) /\ m = RedrawLen(sh.len, o)
  OBVIOUS
<1>2. PICK a, b, e, n : a = GotoCell(s, sh.prRow, sh.prCol) /\ b = Puts(a, text) /\ n = sh.len /\ e = GotoPos(b, sh, sh.len)
  OBVIOUS
<1>3. e = Redraw(s, sh, o)
  BY <1>1, <1>2 DEF Redraw
<1>4. Drawing(text, sh.input, n, o, m)
  BY <1>1, <1>2, DrawingOK
<1>5. /\ sh.prRow \in Nat /\ sh.prCol \in Nat /\ sh.prRow < Rows /\ sh.prCol < Cols
      /\ n \in Nat /\ m \in Nat /\ n < m /\ o < m
  BY <1>2, <1>4, ConConsts DEF PrOK, Holds, Drawing
<1>6. ScreenOK(a) /\ SameButCursor(s, a) /\ a.row = sh.prRow /\ a.col = sh.prCol
  BY <1>2, <1>5, GotoCellOK
<1>7. a.grid = s.grid /\ a.tape = s.tape
  BY <1>6 DEF SameButCursor
<1>8. text \in Seq(Cells \ {NL}) /\ text \in Seq(Cells \cup {NL}) /\ Len(text) = m
  <2>1. text \in Seq(Cells \ {NL}) /\ Len(text) = m
    BY <1>4 DEF Drawing
  <2>2. Cells \ {NL} \subseteq Cells \cup {NL}
    OBVIOUS
  <2>. QED
    BY <2>1, <2>2, SeqMonotonic
<1>9. ScreenOK(b) /\ Len(b.tape) >= Len(a.tape)
  BY <1>2, <1>6, <1>8, ConPutsOK
<1>10. PICK r, c : r = PosRow(sh, n) /\ c = PosCol(sh, n)
  OBVIOUS
<1>11. r \in Nat /\ c \in Nat /\ c < Cols /\ c \in 0..Cols - 1
  BY <1>5, <1>10, PosIs, ConConsts
<1>12. /\ ScreenOK(e) /\ SameButCursor(b, e)
       /\ r < Rows => e.row = r
       /\ c < Cols => e.col = c
  BY <1>2, <1>9, <1>10, <1>11, GotoCellOK DEF GotoPos
<1>13. e.grid = b.grid /\ e.tape = b.tape
  BY <1>12 DEF SameButCursor
<1>14. ASSUME Len(e.tape) = Len(s.tape), s.row = PosRow(sh, o), s.col = PosCol(sh, o), BlankBehind(s)
       PROVE  OnScreen(e, sh)
  <2>1. n \in 0..Len(text) /\ \A i \in 1..Len(text) : i > n => text[i] = Space
    BY <1>4, <1>5, <1>8 DEF Drawing
  <2>2. Len(b.tape) = Len(a.tape)
    BY <1>7, <1>13, <1>14
  <2>3. Drawn(a, b, sh, text, n, m)
    BY <1>2, <1>6, <1>8, <2>1, <2>2, PutsDrawn
  <2>4. Written(b, sh, text, m) /\ Rest(a, b, sh, n)
    BY <2>3 DEF Drawn
  <2>5. b.row = PosRow(sh, m) /\ b.col = PosCol(sh, m)
    BY <2>4 DEF Written
  <2>6. n \in 0..m - 1
    BY <1>5
  <2>7. r \in 0..Rows - 1
    BY <1>5, <1>9, <1>10, <2>5, <2>6, WrittenCells
  <2>8. e.row = r /\ e.col = c
    BY <1>11, <1>12, <2>7, ConConsts
  <2>9. ASSUME NEW i \in 1..n
        PROVE  e.grid[PosRow(sh, i - 1)][PosCol(sh, i - 1)] = sh.input[i]
    <3>1. i \in 1..m /\ i <= n
      BY <1>5
    <3>2. text[i] = sh.input[i]
      BY <1>4, <3>1 DEF Drawing
    <3>3. b.grid[PosRow(sh, i - 1)][PosCol(sh, i - 1)] = text[i]
      BY <2>4, <3>1 DEF Written
    <3>. QED
      BY <1>13, <3>2, <3>3
  <2>10. ASSUME NEW q \in 0..Rows - 1, NEW d \in 0..Cols - 1, q > e.row \/ (q = e.row /\ d >= e.col)
         PROVE  e.grid[q][d] = Space
    <3>1. ~Before(q, d, r, c)
      BY <1>11, <2>7, <2>8, <2>10, ConConsts DEF Before
    <3>2. CASE Before(q, d, b.row, b.col)
      BY <1>10, <1>13, <2>4, <3>1, <3>2 DEF Rest
    <3>3. CASE ~Before(q, d, b.row, b.col)
      <4>1. b.grid[q][d] = s.grid[q][d]
        BY <1>7, <2>4, <3>3 DEF Rest
      <4>2. Before(s.row, s.col, b.row, b.col)
        BY <1>5, <1>14, <2>5, PosBefore
      <4>3. /\ s.row \in 0..Rows - 1 /\ s.col \in 0..Cols - 1
            /\ b.row \in 0..Rows - 1 /\ b.col \in 0..Cols - 1
        BY <1>9, ScreenIs
      <4>4. q > s.row \/ (q = s.row /\ d >= s.col)
        BY <3>3, <4>2, <4>3, ConConsts DEF Before
      <4>5. s.grid[q][d] = Space
        BY <1>14, <4>4 DEF BlankBehind
      <4>. QED
        BY <1>13, <4>1, <4>5
    <3>. QED
      BY <3>2, <3>3
  <2>11. Written(e, sh, sh.input, n) /\ BlankBehind(e)
    BY <1>10, <2>8, <2>9, <2>10 DEF Written, BlankBehind
  <2>. QED
    BY <1>2, <2>11 DEF OnScreen
<1>15. Len(e.tape) >= Len(s.tape)
  BY <1>7, <1>9, <1>13
<1>16. DrawnOver(s, e, sh, o)
  BY <1>12, <1>14, <1>15 DEF DrawnOver
<1>. QED
  BY <1>3, <1>16

-----------------------------------------------------------------------------
(***************************************************************************)
(* The console: the line's buffers.                                        *)
(***************************************************************************)

\* A C string is what its buffer holds up to the NUL.
StrIs(buf, str) ==
  /\ str \in ConTexts
  /\ \A n \in 0..LineMax : (\A i \in 1..n : buf[i] \in LineChars) =>
       n <= Len(str) /\ (\A i \in 1..n : str[i] = buf[i]) /\ (buf[n + 1] = NUL => Len(str) = n)

LEMMA StrOK ==
  ASSUME NEW buf, CStr(buf)
  PROVE  StrIs(buf, Str(buf))
<1>. DEFINE I == {i \in 1..Len(buf) : buf[i] \in {NUL}}
            k == Min(I)
<1>1. Len(buf) = LineMax + 1 /\ LineMax \in Nat
  BY ConConsts DEF CStr, ConBufs
<1>2. I \in SUBSET Nat /\ LineMax + 1 \in I
  BY <1>1 DEF CStr
<1>3. FirstIn(buf, 1, {NUL}) = k
  BY <1>2 DEF FirstIn, SelectInSubSeq
<1>4. k \in I /\ \A n \in I : k <= n
  BY <1>2, LeastIs
<1>5. Str(buf) = SubSeq(buf, 1, k - 1)
  BY <1>3, Zenon DEF Str
<1>6. k \in 1..LineMax + 1 /\ buf[k] = NUL /\ \A i \in 1..LineMax + 1 : i < k => buf[i] # NUL
  <2>1. I = {i \in 1..LineMax + 1 : buf[i] = NUL}
    BY <1>1
  <2>. HIDE DEF k, I
  <2>2. k \in 1..LineMax + 1 /\ buf[k] = NUL
    BY <1>4, <2>1
  <2>3. \A i \in 1..LineMax + 1 : buf[i] = NUL => k <= i
    BY <1>4, <2>1
  <2>. QED
    BY <1>1, <2>2, <2>3
<1>. HIDE DEF k, I
<1>7. \A i \in 1..k - 1 : buf[i] \in LineChars
  BY <1>1, <1>6 DEF CStr, ConBufs
<1>8. /\ SubSeq(buf, 1, k - 1) \in Seq(LineChars) /\ Len(SubSeq(buf, 1, k - 1)) = k - 1
      /\ \A i \in 1..k - 1 : SubSeq(buf, 1, k - 1)[i] = buf[i]
  <2>1. 1 \in Int /\ k - 1 \in Int /\ (k - 1) - 1 + 1 = k - 1 /\ (~(1 <= k - 1) => k - 1 = 0)
        /\ \A i \in 1..k - 1 : 1 + i - 1 = i
    BY <1>1, <1>6
  <2>. QED
    BY <1>7, <2>1, SubSeqProperties
<1>9. ASSUME NEW n \in 0..LineMax, \A i \in 1..n : buf[i] \in LineChars
      PROVE  n <= k - 1 /\ (\A i \in 1..n : i \in 1..k - 1) /\ (buf[n + 1] = NUL => k - 1 = n)
  <2>1. ~(k <= n)
    BY <1>1, <1>6, <1>9, CharsOf
  <2>2. n + 1 \in 1..LineMax + 1 /\ n \in Nat
    BY <1>1
  <2>. QED
    BY <1>1, <1>6, <2>1, <2>2
<1>10. k - 1 <= LineMax
  BY <1>1, <1>6
<1>. QED
  BY <1>5, <1>8, <1>9, <1>10 DEF ConTexts, StrIs

LEMMA CopyInOK ==
  ASSUME NEW buf, CStr(buf), NEW text \in ConTexts
  PROVE  Holds(CopyIn(buf, text), Len(text)) /\ \A i \in 1..Len(text) : CopyIn(buf, text)[i] = text[i]
<1>1. PICK n : n = Len(text)
  OBVIOUS
<1>2. /\ LineMax \in Nat /\ n \in 0..LineMax /\ \A i \in 1..n : text[i] \in LineChars
  BY <1>1, ConConsts, ElementOfSeq DEF ConTexts
<1>3. PICK b : b = CopyIn(buf, text)
  OBVIOUS
<1>4. b = [i \in 1..LineMax + 1 |-> IF i <= n THEN text[i] ELSE IF i = n + 1 THEN NUL ELSE buf[i]]
  BY <1>1, <1>3 DEF CopyIn
<1>5. \A i \in 1..n : i \in 1..LineMax + 1 /\ b[i] = text[i]
  BY <1>2, <1>4
<1>6. \A i \in 1..LineMax + 1 : b[i] \in LineChars \cup {NUL}
  <2>1. \A i \in 1..LineMax + 1 : buf[i] \in LineChars \cup {NUL}
    BY DEF CStr, ConBufs
  <2>2. ASSUME NEW i \in 1..LineMax + 1  PROVE b[i] \in LineChars \cup {NUL}
    <3>1. CASE i <= n
      BY <1>2, <1>5, <3>1
    <3>2. CASE ~(i <= n)
      BY <1>4, <2>1, <3>2
    <3>. QED
      BY <3>1, <3>2
  <2>. QED
    BY <2>2
<1>7. b[LineMax + 1] = NUL
  BY <1>2, <1>4 DEF CStr
<1>8. b \in ConBufs
  BY <1>4, <1>6 DEF ConBufs
<1>. QED
  BY <1>1, <1>2, <1>3, <1>5, <1>7, <1>8 DEF Holds, CStr

\* A NUL anywhere in a buffer leaves a buffer.
CutAt(buf, b, x) ==
  /\ CStr(b) /\ \A i \in 1..LineMax + 1 : i # x => b[i] = buf[i]
  /\ x \in 1..LineMax + 1 => b[x] = NUL

LEMMA CutOK ==
  ASSUME NEW buf, CStr(buf), NEW x, NEW b, b = [buf EXCEPT ![x] = NUL]
  PROVE  CutAt(buf, b, x)
<1>1. buf \in [1..LineMax + 1 -> LineChars \cup {NUL}] /\ buf[LineMax + 1] = NUL /\ LineMax + 1 \in 1..LineMax + 1
  BY ConConsts DEF CStr, ConBufs
<1>2. b \in [1..LineMax + 1 -> LineChars \cup {NUL}]
  BY <1>1
<1>3. b[LineMax + 1] = NUL
  BY <1>1
<1>. QED
  BY <1>1, <1>2, <1>3 DEF CStr, ConBufs, CutAt

LEMMA CutWordOK ==
  ASSUME NEW buf, CStr(buf)
  PROVE  CStr(CutWord(buf))
<1>1. PICK x, b : x = FirstIn(buf, FirstWord(buf), {Space, NUL}) /\ b = [buf EXCEPT ![x] = NUL]
  OBVIOUS
<1>2. CutAt(buf, b, x)
  BY <1>1, CutOK
<1>. QED
  BY <1>1, <1>2 DEF CutWord, CutAt

-----------------------------------------------------------------------------
(***************************************************************************)
(* The console: the history and the line editor.                           *)
(***************************************************************************)

LineShells ==
  [input : ConBufs, len : 0..LineMax, histIdx : 0..HistSize, saved : ConBufs,
   hist : [0..HistSize - 1 -> ConTexts], count : 0..HistSize, tail : 0..HistSize - 1,
   prRow : 0..Rows - 1, prCol : 0..Cols - 1]
ShOK(sh) ==
  sh \in LineShells /\ Holds(sh.input, sh.len) /\ CStr(sh.saved) /\ sh.histIdx <= sh.count

\* The history's ring ends as the list of the commands does.
HistOn(sh, h) ==
  /\ h \in Seq(ConTexts)
  /\ sh.count = (IF Len(h) < HistSize THEN Len(h) ELSE HistSize)
  /\ \A n \in 1..sh.count : sh.hist[RingAt(sh.tail, n, HistSize)] = h[Len(h) - n + 1]

LEMMA ShIs ==
  ASSUME NEW sh, ShOK(sh)
  PROVE  /\ sh \in LineShells /\ sh.input \in ConBufs /\ sh.len \in 0..LineMax /\ sh.len \in Nat
         /\ sh.histIdx \in 0..HistSize /\ sh.saved \in ConBufs /\ sh.histIdx <= sh.count
         /\ sh.hist \in [0..HistSize - 1 -> ConTexts] /\ sh.count \in 0..HistSize
         /\ sh.tail \in 0..HistSize - 1 /\ PrOK(sh) /\ Holds(sh.input, sh.len) /\ CStr(sh.saved)
  BY ConConsts DEF ShOK, LineShells, PrOK

LEMMA HistGetIs ==
  ASSUME NEW sh, sh \in LineShells, NEW n \in 1..HistSize
  PROVE  HistGet(sh, n) = sh.hist[RingAt(sh.tail, n, HistSize)] /\ HistGet(sh, n) \in ConTexts
<1>1. sh.tail \in 0..HistSize - 1 /\ sh.hist \in [0..HistSize - 1 -> ConTexts] /\ HistSize \in Nat \ {0}
  BY ConConsts DEF LineShells
<1>2. PICK t : t = sh.tail
  OBVIOUS
<1>3. (t - n) % HistSize = RingAt(t, n, HistSize) /\ RingAt(t, n, HistSize) \in 0..HistSize - 1
  BY <1>1, <1>2, RingAtIs
<1>. QED
  BY <1>1, <1>2, <1>3 DEF HistGet

\* A command was entered: the history ends with it.
Entered(h, cmd) == IF cmd = <<>> \/ (h # <<>> /\ Last(h) = cmd) THEN h ELSE Append(h, cmd)
SameLine(sh, p) ==
  /\ p.input = sh.input /\ p.len = sh.len /\ p.histIdx = sh.histIdx /\ p.saved = sh.saved
  /\ p.prRow = sh.prRow /\ p.prCol = sh.prCol
Pushed(sh, p, g) == p \in LineShells /\ SameLine(sh, p) /\ HistOn(p, g)

LEMMA HistMore ==
  ASSUME NEW sh, sh \in LineShells, NEW h, HistOn(sh, h), NEW cmd \in ConTexts, NEW p,
         p = [sh EXCEPT !.hist = [@ EXCEPT ![sh.tail] = cmd], !.tail = (@ + 1) % HistSize,
                        !.count = IF @ < HistSize THEN @ + 1 ELSE @]
  PROVE  Pushed(sh, p, Append(h, cmd))
<1>1. PICK t, g, hist, c : /\ t = sh.tail /\ g = (t + 1) % HistSize
                           /\ hist = [sh.hist EXCEPT ![t] = cmd]
                           /\ c = IF sh.count < HistSize THEN sh.count + 1 ELSE sh.count
  OBVIOUS
<1>2. /\ t \in 0..HistSize - 1 /\ sh.hist \in [0..HistSize - 1 -> ConTexts] /\ h \in Seq(ConTexts)
      /\ Len(h) \in Nat /\ HistSize \in Nat \ {0} /\ sh.count \in 0..HistSize
  <2>1. sh.hist \in [0..HistSize - 1 -> ConTexts] /\ sh.tail \in 0..HistSize - 1 /\ sh.count \in 0..HistSize
    BY DEF LineShells
  <2>2. h \in Seq(ConTexts)
    BY DEF HistOn
  <2>3. Len(h) \in Nat
    BY <2>2, LenProperties
  <2>. QED
    BY <1>1, <2>1, <2>2, <2>3, ConConsts
<1>3. RingOn(t, g, HistSize)
  BY <1>1, <1>2, RingAtNext
<1>4. /\ g \in 0..HistSize - 1 /\ RingAt(g, 1, HistSize) = t
      /\ \A n \in 1..HistSize - 1 : RingAt(g, n + 1, HistSize) = RingAt(t, n, HistSize) /\ RingAt(t, n, HistSize) # t
  BY <1>3 DEF RingOn
<1>5. hist[t] = cmd /\ (\A j \in 0..HistSize - 1 : j # t => hist[j] = sh.hist[j])
      /\ hist \in [0..HistSize - 1 -> ConTexts]
  BY <1>1, <1>2
<1>6. c \in 0..HistSize
  BY <1>1, <1>2
<1>7. p = [sh EXCEPT !.hist = hist, !.tail = g, !.count = c]
  BY <1>1
<1>8. p \in LineShells /\ SameLine(sh, p) /\ p.hist = hist /\ p.tail = g /\ p.count = c
  BY <1>4, <1>5, <1>6, <1>7 DEF LineShells, SameLine
<1>9. PICK a : a = Append(h, cmd)
  OBVIOUS
<1>10. a \in Seq(ConTexts) /\ Len(a) = Len(h) + 1 /\ a[Len(h) + 1] = cmd /\ \A i \in 1..Len(h) : a[i] = h[i]
  BY <1>2, <1>9, AppendProperties
<1>11. /\ sh.count = (IF Len(h) < HistSize THEN Len(h) ELSE HistSize)
       /\ \A n \in 1..sh.count : sh.hist[RingAt(t, n, HistSize)] = h[Len(h) - n + 1]
  BY <1>1 DEF HistOn
<1>12. c = (IF Len(a) < HistSize THEN Len(a) ELSE HistSize)
  BY <1>1, <1>2, <1>10, <1>11
<1>13. ASSUME NEW n \in 1..c  PROVE hist[RingAt(g, n, HistSize)] = a[Len(a) - n + 1]
  <2>1. CASE n = 1
    <3>1. Len(a) - n + 1 = Len(h) + 1
      BY <1>2, <1>10, <2>1
    <3>. QED
      BY <1>4, <1>5, <1>10, <2>1, <3>1
  <2>2. CASE n # 1
    <3>1. PICK k : k = n - 1
      OBVIOUS
    <3>2. /\ k \in 1..HistSize - 1 /\ k \in 1..sh.count /\ n = k + 1 /\ k \in 1..HistSize
          /\ Len(a) - n + 1 = Len(h) - k + 1 /\ Len(h) - k + 1 \in 1..Len(h)
      <4>1. PICK l, o : l = Len(h) /\ o = sh.count
        OBVIOUS
      <4>2. /\ l \in Nat /\ HistSize \in Nat \ {0} /\ Len(a) = l + 1
            /\ o = (IF l < HistSize THEN l ELSE HistSize)
            /\ c = IF o < HistSize THEN o + 1 ELSE o
        BY <1>1, <1>2, <1>10, <1>11, <4>1
      <4>3. n \in Nat /\ n <= c /\ n >= 2 /\ c \in Nat /\ o \in Nat /\ o <= l /\ o <= HistSize /\ n <= o + 1
            /\ n <= HistSize
        BY <1>6, <2>2, <4>2
      <4>4. k \in 1..HistSize - 1 /\ k \in 1..o /\ n = k + 1 /\ k \in 1..HistSize
        BY <3>1, <4>2, <4>3
      <4>5. (l + 1) - n + 1 = l - k + 1 /\ l - k + 1 \in 1..l
        BY <3>1, <4>2, <4>3
      <4>. QED
        BY <4>1, <4>2, <4>4, <4>5
    <3>3. RingAt(t, k, HistSize) \in 0..HistSize - 1
      BY <1>2, <3>2, RingAtIs
    <3>4. hist[RingAt(g, n, HistSize)] = sh.hist[RingAt(t, k, HistSize)]
      BY <1>4, <1>5, <3>2, <3>3
    <3>5. sh.hist[RingAt(t, k, HistSize)] = h[Len(h) - k + 1]
      BY <1>11, <3>2
    <3>6. a[Len(h) - k + 1] = h[Len(h) - k + 1]
      BY <1>10, <3>2
    <3>. QED
      BY <3>2, <3>4, <3>5, <3>6
  <2>. QED
    BY <2>1, <2>2
<1>14. HistOn(p, a)
  BY <1>8, <1>10, <1>12, <1>13 DEF HistOn
<1>. QED
  BY <1>8, <1>9, <1>14 DEF Pushed

LEMMA HistPushOK ==
  ASSUME NEW sh, sh \in LineShells, NEW h, HistOn(sh, h), NEW cmd \in ConTexts
  PROVE  Pushed(sh, HistPush(sh, cmd), Entered(h, cmd))
<1>1. /\ HistSize \in Nat \ {0} /\ h \in Seq(ConTexts) /\ Len(h) \in Nat
      /\ sh.count = (IF Len(h) < HistSize THEN Len(h) ELSE HistSize)
      /\ \A n \in 1..sh.count : sh.hist[RingAt(sh.tail, n, HistSize)] = h[Len(h) - n + 1]
  BY ConConsts DEF HistOn
<1>2. h # <<>> <=> Len(h) > 0
  BY <1>1, EmptySeq
<1>3. sh.count > 0 <=> h # <<>>
  BY <1>1, <1>2
<1>4. ASSUME sh.count > 0  PROVE HistGet(sh, 1) = Last(h)
  <2>1. 1 \in 1..sh.count /\ 1 \in 1..HistSize /\ Len(h) - 1 + 1 = Len(h)
    BY <1>1, <1>4
  <2>2. HistGet(sh, 1) = sh.hist[RingAt(sh.tail, 1, HistSize)]
    BY <2>1, HistGetIs
  <2>. QED
    BY <1>1, <2>1, <2>2 DEF Last
<1>5. CASE cmd = <<>> \/ (sh.count > 0 /\ HistGet(sh, 1) = cmd)
  <2>1. HistPush(sh, cmd) = sh
    BY <1>5 DEF HistPush
  <2>2. Entered(h, cmd) = h
    BY <1>3, <1>4, <1>5 DEF Entered
  <2>. QED
    BY <2>1, <2>2 DEF Pushed, SameLine
<1>6. CASE ~(cmd = <<>> \/ (sh.count > 0 /\ HistGet(sh, 1) = cmd))
  <2>1. PICK p : p = HistPush(sh, cmd)
    OBVIOUS
  <2>2. p = [sh EXCEPT !.hist = [@ EXCEPT ![sh.tail] = cmd], !.tail = (@ + 1) % HistSize,
                        !.count = IF @ < HistSize THEN @ + 1 ELSE @]
    BY <1>6, <2>1 DEF HistPush
  <2>3. Entered(h, cmd) = Append(h, cmd)
    BY <1>3, <1>4, <1>6 DEF Entered
  <2>4. Pushed(sh, p, Append(h, cmd))
    BY <2>2, HistMore
  <2>. QED
    BY <2>1, <2>3, <2>4
<1>. QED
  BY <1>5, <1>6

\* The line being typed is what Right brings back.
DraftOn(sh, d) ==
  /\ d # NoDraft => d \in ConTexts /\ \A i \in 1..Len(d) : sh.saved[i] = d[i]
  /\ sh.histIdx = 0 => d = NoDraft

\* What the line editor's steps start from.
ConInv ==
  /\ ScreenOK(screen) /\ ShOK(shell) /\ HistOn(shell, history) /\ DraftOn(shell, draft)
  /\ clean \in BOOLEAN /\ (clean => OnScreen(screen, shell))
  /\ screenTorn \in BOOLEAN /\ (screenTorn => ~clean)

\* A torn screen is left as it is.
LEMMA LeavesOK ==
  ASSUME ConInv, NEW s, ScreenOK(s), Leaves(s)
  PROVE  ScreenOK(screen') /\ screenTorn' = screenTorn /\ (screenTorn \/ screen' = s)
  BY DEF ConInv, Leaves

LEMMA LiveOK ==
  ASSUME ConInv
  PROVE  ScreenOK(Live) /\ SameGrid(screen, Live) /\ (clean => OnScreen(Live, shell))
<1>1. ScreenOK(Live) /\ SameGrid(screen, Live)
  BY ViewsOK DEF ConInv, Live
<1>2. PICK v : v = Live
  OBVIOUS
<1>3. v.grid = screen.grid /\ v.row = screen.row /\ v.col = screen.col
  BY <1>1, <1>2 DEF SameGrid
<1>4. clean => OnScreen(v, shell)
  BY <1>3 DEF ConInv, OnScreen, Written, BlankBehind
<1>. QED
  BY <1>1, <1>2, <1>4

SameHist(sh, p) == p.hist = sh.hist /\ p.count = sh.count /\ p.tail = sh.tail
SamePlace(sh, p) == p.prRow = sh.prRow /\ p.prCol = sh.prCol

LEMMA PlaceIs ==
  ASSUME NEW sh, NEW p, SamePlace(sh, p), NEW n
  PROVE  PosRow(p, n) = PosRow(sh, n) /\ PosCol(p, n) = PosCol(sh, n)
  BY DEF SamePlace, PosRow, PosCol

LEMMA SameHistOK ==
  ASSUME NEW sh, NEW p, SameHist(sh, p), NEW h, HistOn(sh, h)
  PROVE  HistOn(p, h)
  BY DEF SameHist, HistOn

\* The line is replaced by a text, at a place of the history.
Taken(sh, p, i) == ShOK(p) /\ SameHist(sh, p) /\ SamePlace(sh, p) /\ p.saved = sh.saved /\ p.histIdx = i

LEMMA TakenOK ==
  ASSUME NEW sh, ShOK(sh), NEW text \in ConTexts, NEW i \in 0..HistSize, i <= sh.count,
         NEW p, p = [sh EXCEPT !.histIdx = i, !.input = CopyIn(sh.input, text), !.len = Len(text)]
  PROVE  Taken(sh, p, i)
<1>1. sh \in LineShells /\ CStr(sh.input) /\ CStr(sh.saved)
  BY DEF ShOK, Holds
<1>2. PICK b, n : b = CopyIn(sh.input, text) /\ n = Len(text)
  OBVIOUS
<1>3. Holds(b, n)
  BY <1>1, <1>2, CopyInOK
<1>4. b \in ConBufs /\ n \in 0..LineMax
  BY <1>3 DEF Holds, CStr
<1>5. p = [sh EXCEPT !.histIdx = i, !.input = b, !.len = n]
  BY <1>2
<1>6. /\ p \in LineShells /\ p.input = b /\ p.len = n /\ p.histIdx = i /\ p.saved = sh.saved
      /\ p.hist = sh.hist /\ p.count = sh.count /\ p.tail = sh.tail /\ p.prRow = sh.prRow /\ p.prCol = sh.prCol
  BY <1>1, <1>4, <1>5 DEF LineShells
<1>7. ShOK(p)
  BY <1>1, <1>3, <1>6 DEF ShOK
<1>. QED
  BY <1>6, <1>7 DEF Taken, SameHist, SamePlace

\* The line is kept for later.
Saved(sh, p) ==
  /\ ShOK(p) /\ SameHist(sh, p) /\ SamePlace(sh, p)
  /\ p.input = sh.input /\ p.len = sh.len /\ p.histIdx = sh.histIdx
  /\ \A i \in 1..sh.len : p.saved[i] = sh.input[i]

LEMMA SaveOK ==
  ASSUME NEW sh, ShOK(sh)  PROVE Saved(sh, Save(sh))
<1>1. PICK n, a, b, p, c : /\ n = sh.len /\ a = sh.input /\ b = sh.saved /\ p = Save(sh)
                           /\ c = [i \in 1..LineMax + 1 |-> IF i <= n + 1 THEN a[i] ELSE b[i]]
  OBVIOUS
<1>2. sh \in LineShells /\ Holds(a, n) /\ CStr(b) /\ sh.histIdx <= sh.count
  BY <1>1 DEF ShOK
<1>3. /\ n \in 0..LineMax /\ LineMax \in Nat
      /\ a \in [1..LineMax + 1 -> LineChars \cup {NUL}] /\ b \in [1..LineMax + 1 -> LineChars \cup {NUL}]
      /\ a[LineMax + 1] = NUL /\ b[LineMax + 1] = NUL
  BY <1>2, ConConsts DEF Holds, CStr, ConBufs
<1>4. c \in ConBufs /\ c[LineMax + 1] = NUL /\ \A i \in 1..n : c[i] = a[i]
  <2>1. c \in [1..LineMax + 1 -> LineChars \cup {NUL}]
    BY <1>1, <1>3
  <2>2. c[LineMax + 1] = NUL
    BY <1>1, <1>3
  <2>3. \A i \in 1..n : c[i] = a[i]
    BY <1>1, <1>3
  <2>. QED
    BY <2>1, <2>2, <2>3 DEF ConBufs
<1>5. p = [sh EXCEPT !.saved = c]
  BY <1>1 DEF Save
<1>6. /\ p \in LineShells /\ p.input = sh.input /\ p.len = sh.len /\ p.histIdx = sh.histIdx /\ p.saved = c
      /\ p.hist = sh.hist /\ p.count = sh.count /\ p.tail = sh.tail /\ p.prRow = sh.prRow /\ p.prCol = sh.prCol
  BY <1>2, <1>4, <1>5 DEF LineShells
<1>7. CStr(c)
  BY <1>4 DEF CStr
<1>8. ShOK(p)
  BY <1>1, <1>2, <1>6, <1>7 DEF ShOK
<1>. QED
  BY <1>1, <1>4, <1>6, <1>8 DEF Saved, SameHist, SamePlace

\* A step that only edits the line keeps the invariant.
Shows(s, sh) ==
  /\ ScreenOK(s) /\ Len(s.tape) >= Len(screen.tape)
  /\ clean /\ Len(s.tape) = Len(screen.tape) => OnScreen(s, sh)

LEMMA EditedOK ==
  ASSUME ConInv, NEW s, NEW sh, Shows(s, sh), ShOK(sh), HistOn(sh, history), history' = history,
         DraftOn(sh, draft'), Edited(s, sh)
  PROVE  ConInv'
<1>1. Leaves(s) /\ shell' = sh /\ clean' = (clean /\ Len(s.tape) = Len(screen.tape))
  BY DEF Edited
<1>2. ScreenOK(screen') /\ screenTorn' = screenTorn /\ (screenTorn \/ screen' = s)
  BY <1>1, LeavesOK DEF Shows
<1>3. ShOK(shell') /\ HistOn(shell', history') /\ DraftOn(shell', draft')
  BY <1>1
<1>4. clean' \in BOOLEAN /\ (screenTorn' => ~clean')
  BY <1>1, <1>2 DEF ConInv
<1>5. clean' => OnScreen(screen', shell')
  <2>1. clean' => clean /\ Len(s.tape) = Len(screen.tape)
    BY <1>1
  <2>. QED
    BY <1>1, <1>2, <2>1 DEF Shows, ConInv
<1>. QED
  BY <1>2, <1>3, <1>4, <1>5 DEF ConInv

\* The line stays: only the view may change.
LEMMA LiveShows ==
  ASSUME ConInv, NEW sh, SamePlace(shell, sh), sh.input = shell.input, sh.len = shell.len
  PROVE  Shows(Live, sh)
<1>1. ScreenOK(Live) /\ SameGrid(screen, Live) /\ (clean => OnScreen(Live, shell))
  BY LiveOK
<1>2. Live.tape = screen.tape /\ Len(screen.tape) >= Len(screen.tape)
  BY <1>1, ScreenIs DEF SameGrid, ConInv
<1>3. clean => OnScreen(Live, sh)
  BY <1>1, PlaceIs DEF OnScreen, Written
<1>. QED
  BY <1>1, <1>2, <1>3 DEF Shows

LEMMA RedrawShows ==
  ASSUME ConInv, NEW sh, ShOK(sh), SamePlace(shell, sh)
  PROVE  Shows(Redraw(Live, sh, shell.len), sh)
<1>1. ScreenOK(Live) /\ SameGrid(screen, Live) /\ (clean => OnScreen(Live, shell))
  BY LiveOK
<1>2. Live.tape = screen.tape
  BY <1>1 DEF SameGrid
<1>3. PICK t, o : t = Redraw(Live, sh, o) /\ o = shell.len
  OBVIOUS
<1>4. o \in Nat /\ PrOK(sh) /\ Holds(sh.input, sh.len)
  BY <1>3, ShIs DEF ConInv
<1>5. DrawnOver(Live, t, sh, o)
  BY <1>1, <1>3, <1>4, RedrawOK
<1>6. ASSUME clean  PROVE Live.row = PosRow(sh, o) /\ Live.col = PosCol(sh, o) /\ BlankBehind(Live)
  <2>1. OnScreen(Live, shell)
    BY <1>1, <1>6
  <2>. QED
    BY <1>3, <2>1, PlaceIs DEF OnScreen, Written
<1>7. Shows(t, sh)
  BY <1>2, <1>5, <1>6 DEF Shows, DrawnOver
<1>. QED
  BY <1>3, <1>7

LEMMA PromptOK ==
  ASSUME ConInv, NEW s, ScreenOK(s), clean => BlankBehind(s), clean \in BOOLEAN,
         NEW sh, ShOK(sh), sh.len = 0, PromptAfter(s, sh),
         HistOn(sh, history'), DraftOn(sh, draft')
  PROVE  ConInv'
<1>1. PICK t : t = Puts(s, Prompt)
  OBVIOUS
<1>2. /\ Leaves(t) /\ shell' = [sh EXCEPT !.prRow = t.row, !.prCol = t.col]
      /\ clean' = (~screenTorn /\ (clean \/ BlankBehind(t)))
  BY <1>1 DEF PromptAfter
<1>3. Prompt \in Seq(Cells \cup {NL})
  BY ConsoleAssumption
<1>4. ScreenOK(t) /\ (BlankBehind(s) => BlankBehind(t))
  BY <1>1, <1>3, ConPutsOK
<1>5. PICK r, c : r = t.row /\ c = t.col
  OBVIOUS
<1>6. r \in 0..Rows - 1 /\ c \in 0..Cols - 1
  BY <1>4, <1>5, ScreenIs
<1>7. PICK p : p = [sh EXCEPT !.prRow = r, !.prCol = c]
  OBVIOUS
<1>8. sh \in LineShells
  BY DEF ShOK
<1>9. /\ p \in LineShells /\ p.input = sh.input /\ p.len = sh.len /\ p.histIdx = sh.histIdx /\ p.saved = sh.saved
      /\ p.hist = sh.hist /\ p.count = sh.count /\ p.tail = sh.tail /\ p.prRow = r /\ p.prCol = c
  BY <1>6, <1>7, <1>8 DEF LineShells
<1>10. ShOK(p) /\ HistOn(p, history') /\ DraftOn(p, draft')
  <2>1. ShOK(p)
    BY <1>9 DEF ShOK
  <2>2. HistOn(p, history')
    BY <1>9, SameHistOK DEF SameHist
  <2>3. DraftOn(p, draft')
    BY <1>9 DEF DraftOn
  <2>. QED
    BY <2>1, <2>2, <2>3
<1>11. PrOK(p)
  BY <1>10, ShIs
<1>12. Written(t, p, p.input, 0)
  <2>1. PosRow(p, 0) = t.row /\ PosCol(p, 0) = t.col
    BY <1>5, <1>9, <1>11, PosFirst
  <2>. QED
    BY <2>1 DEF Written
<1>13. BlankBehind(t) => OnScreen(t, p)
  BY <1>9, <1>12 DEF OnScreen
<1>14. clean' => BlankBehind(t)
  BY <1>2, <1>4
<1>15. clean' \in BOOLEAN
  BY <1>2 DEF BlankBehind
<1>16. shell' = p
  BY <1>2, <1>5, <1>7
<1>17. ScreenOK(screen') /\ screenTorn' = screenTorn /\ (clean' => screen' = t)
  BY <1>2, <1>4, LeavesOK
<1>18. screenTorn' \in BOOLEAN /\ (screenTorn' => ~clean')
  BY <1>2, <1>17 DEF ConInv
<1>. QED
  BY <1>10, <1>13, <1>14, <1>15, <1>16, <1>17, <1>18 DEF ConInv

-----------------------------------------------------------------------------
(***************************************************************************)
(* The console: every key keeps the invariant.                             *)
(***************************************************************************)

LEMMA ScrolledOK == ASSUME ConInv, Scrolled  PROVE ConInv'
<1>1. PICK v \in {ViewUp(screen), ViewDown(screen), ViewReset(screen)} : Leaves(v)
  BY DEF Scrolled
<1>2. ScreenOK(v) /\ SameGrid(screen, v)
  BY <1>1, ViewsOK DEF ConInv
<1>3. v.grid = screen.grid /\ v.row = screen.row /\ v.col = screen.col
  BY <1>2 DEF SameGrid
<1>4. clean => OnScreen(v, shell)
  BY <1>3 DEF ConInv, OnScreen, Written, BlankBehind
<1>5. shell' = shell /\ history' = history /\ clean' = clean /\ draft' = draft
  BY DEF Scrolled
<1>6. ScreenOK(screen') /\ screenTorn' = screenTorn /\ (screenTorn \/ screen' = v)
  BY <1>1, <1>2, LeavesOK
<1>. QED
  BY <1>4, <1>5, <1>6 DEF ConInv

LEMMA OtherPrintsOK == ASSUME ConInv, OtherPrints  PROVE ConInv'
<1>1. PICK text \in Outputs : Leaves(Puts(screen, text))
  BY DEF OtherPrints
<1>2. text \in Seq(Cells \cup {NL})
  BY ConsoleAssumption
<1>3. ScreenOK(Puts(screen, text))
  BY <1>2, ConPutsOK DEF ConInv
<1>4. shell' = shell /\ history' = history /\ clean' = FALSE /\ draft' = draft
  BY DEF OtherPrints
<1>5. ScreenOK(screen') /\ screenTorn' = screenTorn
  BY <1>1, <1>3, LeavesOK
<1>. QED
  BY <1>4, <1>5 DEF ConInv

LEMMA PrintsMixOK == ASSUME ConInv, PrintsMix  PROVE ConInv'
  BY DEF ConInv, PrintsMix

LEMMA PrintableOK == ASSUME ConInv, Printable  PROVE ConInv'
<1>1. PICK c \in Letters :
        /\ history' = history /\ draft' = draft
        /\ IF shell.len < LineMax
           THEN Edited(PutChar(Live, c),
                       [shell EXCEPT !.input = [@ EXCEPT ![shell.len + 1] = c, ![shell.len + 2] = NUL], !.len = @ + 1])
           ELSE Edited(Live, shell)
  BY DEF Printable
<1>2. ShOK(shell) /\ HistOn(shell, history) /\ DraftOn(shell, draft)
  BY DEF ConInv
<1>3. CASE ~(shell.len < LineMax)
  <2>1. Shows(Live, shell)
    BY LiveShows DEF SamePlace
  <2>. QED
    BY <1>1, <1>2, <1>3, <2>1, EditedOK
<1>4. CASE shell.len < LineMax
  <2>1. PICK n, m, b, e, p, t : /\ n = shell.len /\ m = n + 1 /\ b = shell.input
                                /\ e = [b EXCEPT ![n + 1] = c, ![n + 2] = NUL]
                                /\ p = [shell EXCEPT !.input = e, !.len = m]
                                /\ t = PutChar(Live, c)
    OBVIOUS
  <2>2. Edited(t, p)
    BY <1>1, <1>4, <2>1
  <2>3. /\ n \in 0..LineMax /\ n < LineMax /\ LineMax \in Nat /\ m \in 0..LineMax /\ c \in LineChars
        /\ b \in [1..LineMax + 1 -> LineChars \cup {NUL}] /\ b[LineMax + 1] = NUL
        /\ \A i \in 1..n : b[i] \in LineChars
    <3>1. Holds(b, n)
      BY <1>2, <2>1 DEF ShOK
    <3>2. /\ n \in 0..LineMax /\ b \in [1..LineMax + 1 -> LineChars \cup {NUL}]
          /\ b[LineMax + 1] = NUL /\ \A i \in 1..n : b[i] \in LineChars
      BY <3>1 DEF Holds, CStr, ConBufs
    <3>3. n < LineMax /\ LineMax \in Nat /\ m = n + 1
      BY <1>4, <2>1, ConConsts
    <3>4. c \in LineChars
      BY CharsOf
    <3>. QED
      BY <3>2, <3>3, <3>4
  <2>4. /\ e \in [1..LineMax + 1 -> LineChars \cup {NUL}] /\ e[LineMax + 1] = NUL /\ e[n + 1] = c
        /\ \A i \in 1..n : e[i] = b[i]
    <3>1. e \in [1..LineMax + 1 -> LineChars \cup {NUL}]
      BY <2>1, <2>3
    <3>2. e[n + 1] = c
      BY <2>1, <2>3
    <3>3. \A i \in 1..n : e[i] = b[i]
      <4>1. \A i \in 1..n : i \in 1..LineMax + 1 /\ i # n + 1 /\ i # n + 2
        BY <2>3
      <4>. QED
        BY <2>1, <2>3, <4>1
    <3>4. e[LineMax + 1] = NUL
      BY <2>1, <2>3
    <3>. QED
      BY <3>1, <3>2, <3>3, <3>4
  <2>5. Holds(e, m)
    <3>1. \A i \in 1..m : e[i] \in LineChars
      BY <2>1, <2>3, <2>4
    <3>. QED
      BY <2>3, <2>4, <3>1 DEF Holds, CStr, ConBufs
  <2>6. e \in ConBufs /\ shell \in LineShells
    BY <1>2, <2>4 DEF ConBufs, ShOK
  <2>7. /\ p \in LineShells /\ p.input = e /\ p.len = m /\ p.histIdx = shell.histIdx /\ p.saved = shell.saved
        /\ p.hist = shell.hist /\ p.count = shell.count /\ p.tail = shell.tail
        /\ p.prRow = shell.prRow /\ p.prCol = shell.prCol
    BY <2>1, <2>3, <2>6 DEF LineShells
  <2>8. ShOK(p) /\ HistOn(p, history) /\ DraftOn(p, draft)
    <3>1. ShOK(p)
      BY <1>2, <2>5, <2>7 DEF ShOK
    <3>2. HistOn(p, history)
      BY <1>2, <2>7, SameHistOK DEF SameHist
    <3>3. DraftOn(p, draft)
      BY <1>2, <2>7 DEF DraftOn
    <3>. QED
      BY <3>1, <3>2, <3>3
  <2>9. ScreenOK(Live) /\ SameGrid(screen, Live) /\ (clean => OnScreen(Live, shell))
    BY LiveOK
  <2>10. c \in Cells /\ c \in Cells \cup {NL} /\ c # NL
    BY <2>3, CharsOf
  <2>11. CharPut(Live, c, t)
    BY <2>1, <2>9, <2>10, PutCharOK
  <2>12. ScreenOK(t) /\ Len(t.tape) >= Len(screen.tape) /\ Live.tape = screen.tape
    BY <2>9, <2>11 DEF CharPut, SameGrid
  <2>13. ASSUME clean, Len(t.tape) = Len(screen.tape)  PROVE OnScreen(t, p)
    <3>1. Written(Live, shell, b, n) /\ BlankBehind(Live)
      BY <2>1, <2>9, <2>13 DEF OnScreen
    <3>2. Written(Live, p, b, n)
      BY <2>7, <3>1, PlaceIs DEF Written, SamePlace
    <3>3. BlankBehind(t)
      BY <2>11, <3>1 DEF CharPut
    <3>4. PrOK(p) /\ n \in Nat /\ Len(t.tape) = Len(Live.tape)
      BY <2>3, <2>8, <2>12, <2>13, ShIs
    <3>5. e[n + 1] = c /\ \A i \in 1..n : e[i] = b[i]
      BY <2>4
    <3>6. Written(t, p, e, n + 1)
      BY <2>9, <2>10, <2>11, <3>2, <3>4, <3>5, WrittenNext
    <3>. QED
      BY <2>1, <2>7, <3>3, <3>6 DEF OnScreen
  <2>14. Shows(t, p)
    BY <2>12, <2>13 DEF Shows
  <2>. QED
    BY <1>1, <2>2, <2>8, <2>14, EditedOK
<1>. QED
  BY <1>3, <1>4

LEMMA BackspaceOK == ASSUME ConInv, Backspace  PROVE ConInv'
<1>1. /\ history' = history /\ draft' = draft
      /\ IF shell.len = 0 THEN Edited(Live, shell)
         ELSE Edited(Redraw(Live, [shell EXCEPT !.len = @ - 1], shell.len), [shell EXCEPT !.len = @ - 1])
  BY DEF Backspace
<1>2. ShOK(shell) /\ HistOn(shell, history) /\ DraftOn(shell, draft)
  BY DEF ConInv
<1>3. CASE shell.len = 0
  <2>1. Shows(Live, shell)
    BY LiveShows DEF SamePlace
  <2>. QED
    BY <1>1, <1>2, <1>3, <2>1, EditedOK
<1>4. CASE shell.len # 0
  <2>1. PICK m, p : m = shell.len - 1 /\ p = [shell EXCEPT !.len = m]
    OBVIOUS
  <2>2. p = [shell EXCEPT !.len = @ - 1]
    BY <2>1
  <2>3. shell \in LineShells /\ Holds(shell.input, shell.len) /\ m \in 0..LineMax /\ m \in Nat /\ m <= shell.len
        /\ shell.len \in Nat
    BY <1>2, <1>4, <2>1, ShIs, ConConsts
  <2>4. /\ p \in LineShells /\ p.input = shell.input /\ p.len = m /\ p.histIdx = shell.histIdx
        /\ p.saved = shell.saved /\ p.hist = shell.hist /\ p.count = shell.count /\ p.tail = shell.tail
        /\ p.prRow = shell.prRow /\ p.prCol = shell.prCol
    BY <2>1, <2>3 DEF LineShells
  <2>5. Holds(p.input, m)
    <3>1. \A i \in 1..m : i \in 1..shell.len
      BY <2>3
    <3>. QED
      BY <2>3, <2>4, <3>1 DEF Holds
  <2>6. ShOK(p)
    BY <1>2, <2>4, <2>5 DEF ShOK
  <2>7. HistOn(p, history) /\ SamePlace(shell, p)
    BY <1>2, <2>4, SameHistOK DEF SameHist, SamePlace
  <2>8. DraftOn(p, draft')
    BY <1>1, <1>2, <2>4 DEF DraftOn
  <2>9. Shows(Redraw(Live, p, shell.len), p)
    BY <2>6, <2>7, RedrawShows
  <2>10. Edited(Redraw(Live, p, shell.len), p)
    BY <1>1, <1>4, <2>2
  <2>. QED
    BY <1>1, <2>6, <2>7, <2>8, <2>9, <2>10, EditedOK
<1>. QED
  BY <1>3, <1>4

LEMMA CancelOK == ASSUME ConInv, Cancel  PROVE ConInv'
<1>1. /\ PromptAfter(Puts(Live, <<"^", "C", NL>>), [shell EXCEPT !.len = 0, !.histIdx = 0])
      /\ draft' = NoDraft /\ history' = history
  BY DEF Cancel
<1>2. PICK s, p : s = Puts(Live, <<"^", "C", NL>>) /\ p = [shell EXCEPT !.len = 0, !.histIdx = 0]
  OBVIOUS
<1>3. <<"^", "C", NL>> \in Seq(Cells \cup {NL})
  BY DEF Cells
<1>4. ScreenOK(Live) /\ (clean => OnScreen(Live, shell))
  BY LiveOK
<1>5. ScreenOK(s) /\ (clean => BlankBehind(s))
  BY <1>2, <1>3, <1>4, ConPutsOK DEF OnScreen
<1>6. /\ ShOK(shell) /\ HistOn(shell, history) /\ clean \in BOOLEAN /\ shell \in LineShells
      /\ 0 \in 0..LineMax /\ 0 \in 0..HistSize /\ shell.count \in 0..HistSize
  BY ConConsts, ShIs DEF ConInv
<1>7. PICK z \in Int : z = 0
  OBVIOUS
<1>8. p = [shell EXCEPT !.len = z, !.histIdx = z] /\ z \in 0..LineMax /\ z \in 0..HistSize
  BY <1>2, <1>6, <1>7
<1>9. /\ p \in LineShells /\ p.input = shell.input /\ p.len = z /\ p.histIdx = z /\ p.saved = shell.saved
      /\ p.hist = shell.hist /\ p.count = shell.count /\ p.tail = shell.tail
  BY <1>6, <1>8 DEF LineShells
<1>10. Holds(p.input, 0)
  BY <1>6, <1>9 DEF ShOK, Holds
<1>11. ShOK(p) /\ p.len = 0
  BY <1>6, <1>7, <1>9, <1>10 DEF ShOK
<1>12. HistOn(p, history') /\ DraftOn(p, draft')
  BY <1>1, <1>6, <1>9, SameHistOK DEF SameHist, DraftOn
<1>. QED
  BY <1>1, <1>2, <1>5, <1>6, <1>11, <1>12, PromptOK

\* The string that is run and entered is the line.
LEMMA CmdlineOK ==
  ASSUME NEW sh, ShOK(sh), NEW buf, buf = [sh.input EXCEPT ![sh.len + 1] = NUL]
  PROVE  CStr(buf) /\ Str(buf) = Line(sh) /\ Str(buf) \in ConTexts /\ (Line(sh) = <<>> <=> sh.len = 0)
<1>1. PICK n, a, x : n = sh.len /\ a = sh.input /\ x = n + 1
  OBVIOUS
<1>2. /\ Holds(a, n) /\ n \in 0..LineMax /\ n \in Nat /\ LineMax \in Nat /\ CStr(a)
      /\ \A i \in 1..n : a[i] \in LineChars
  BY <1>1, ConConsts DEF ShOK, Holds
<1>3. x \in 1..LineMax + 1 /\ \A i \in 1..n : i \in 1..LineMax + 1 /\ i # x
  BY <1>1, <1>2
<1>4. buf = [a EXCEPT ![x] = NUL]
  BY <1>1
<1>5. CStr(buf) /\ buf[x] = NUL /\ \A i \in 1..LineMax + 1 : i # x => buf[i] = a[i]
  <2>1. CutAt(a, buf, x)
    BY <1>2, <1>4, CutOK
  <2>. QED
    BY <1>3, <2>1 DEF CutAt
<1>6. PICK str : str = Str(buf)
  OBVIOUS
<1>7. StrIs(buf, str)
  BY <1>5, <1>6, StrOK
<1>8. \A i \in 1..n : buf[i] = a[i] /\ buf[i] \in LineChars
  BY <1>2, <1>3, <1>5
<1>9. str \in ConTexts /\ (\A i \in 1..n : str[i] = buf[i]) /\ Len(str) = n
  <2>1. buf[n + 1] = NUL
    BY <1>1, <1>5
  <2>. QED
    BY <1>2, <1>7, <1>8, <2>1 DEF StrIs
<1>10. PICK line : line = Line(sh)
  OBVIOUS
<1>11. line \in ConTexts /\ Len(line) = n /\ \A i \in 1..n : line[i] = a[i]
  BY <1>1, <1>2, <1>10, LineOf
<1>12. str = line
  <2>1. str \in Seq(LineChars) /\ line \in Seq(LineChars) /\ Len(str) = Len(line)
        /\ \A i \in 1..Len(str) : str[i] = line[i]
    BY <1>8, <1>9, <1>11 DEF ConTexts
  <2>. QED
    BY <2>1, SeqEqual
<1>13. line = <<>> <=> n = 0
  BY <1>11, EmptySeq DEF ConTexts
<1>. QED
  BY <1>1, <1>5, <1>6, <1>9, <1>10, <1>12, <1>13

LEMMA PrintedOK ==
  ASSUME NEW s, ScreenOK(s), NEW word, NEW t \in Printed(s, word)
  PROVE  ScreenOK(t) /\ (BlankBehind(s) => BlankBehind(t))
<1>1. CASE word = <<>>
  <2>1. t = s
    BY <1>1 DEF Printed
  <2>. QED
    BY <2>1
<1>2. CASE word # <<>> /\ word = Clear
  <2>1. PICK a : a = VgaInit(s)
    OBVIOUS
  <2>2. t = ViewReset(a)
    BY <1>2, <2>1 DEF Printed
  <2>3. ScreenOK(a) /\ BlankBehind(a)
    BY <2>1, VgaInitOK
  <2>4. ScreenOK(t) /\ SameGrid(a, t)
    BY <2>2, <2>3, ViewsOK
  <2>. QED
    BY <2>3, <2>4 DEF SameGrid, BlankBehind
<1>3. CASE word # <<>> /\ word # Clear
  <2>1. PICK text \in Outputs : t = Puts(s, text)
    BY <1>3 DEF Printed
  <2>2. text \in Seq(Cells \cup {NL})
    BY ConsoleAssumption
  <2>. QED
    BY <2>1, <2>2, ConPutsOK
<1>. QED
  BY <1>1, <1>2, <1>3

LEMMA EnterLineOK == ASSUME ConInv, EnterLine  PROVE ConInv'
<1>1. PICK buf, word, line : /\ buf = [shell.input EXCEPT ![shell.len + 1] = NUL]
                             /\ word = IF shell.len = 0 THEN <<>> ELSE Word(buf)
                             /\ line = Line(shell)
  OBVIOUS
<1>2. PICK cut, q, p : /\ cut = IF shell.len = 0 THEN buf ELSE CutWord(buf)
                       /\ q = HistPush(shell, Str(buf))
                       /\ p = [q EXCEPT !.input = cut, !.len = 0, !.histIdx = 0]
  OBVIOUS
<1>3. PICK s \in Printed(LineFeed(Live), word) : PromptAfter(s, p)
  BY <1>1, <1>2 DEF EnterLine
<1>4. history' = (IF shell.len = 0 \/ (history # <<>> /\ Last(history) = line)
                  THEN history ELSE Append(history, line)) /\ draft' = NoDraft
  BY <1>1 DEF EnterLine
<1>5. ShOK(shell) /\ HistOn(shell, history) /\ clean \in BOOLEAN /\ shell \in LineShells
  BY DEF ConInv, ShOK
<1>6. CStr(buf) /\ Str(buf) = line /\ line \in ConTexts /\ (line = <<>> <=> shell.len = 0)
  BY <1>1, <1>5, CmdlineOK
<1>7. CStr(cut)
  BY <1>2, <1>6, CutWordOK
<1>8. history' = Entered(history, line)
  BY <1>4, <1>6 DEF Entered
<1>9. Pushed(shell, q, history')
  BY <1>2, <1>5, <1>6, <1>8, HistPushOK
<1>10. q \in LineShells /\ q.saved = shell.saved /\ HistOn(q, history')
  BY <1>9 DEF Pushed, SameLine
<1>11. PICK z \in Int : z = 0
  OBVIOUS
<1>12. /\ p = [q EXCEPT !.input = cut, !.len = z, !.histIdx = z]
       /\ z \in 0..LineMax /\ z \in 0..HistSize /\ cut \in ConBufs
  BY <1>2, <1>7, <1>11, ConConsts DEF CStr
<1>13. /\ p \in LineShells /\ p.input = cut /\ p.len = z /\ p.histIdx = z /\ p.saved = q.saved
       /\ p.hist = q.hist /\ p.count = q.count /\ p.tail = q.tail
  BY <1>10, <1>12 DEF LineShells
<1>14. Holds(cut, 0)
  BY <1>7, <1>11, <1>12 DEF Holds
<1>15. CStr(p.saved) /\ p.histIdx <= p.count
  <2>1. q.count \in 0..HistSize /\ HistSize \in Nat
    BY <1>10, ConConsts DEF LineShells
  <2>2. p.histIdx <= p.count
    BY <1>11, <1>13, <2>1
  <2>. QED
    BY <1>5, <1>10, <1>13, <2>2 DEF ShOK
<1>16. ShOK(p) /\ p.len = 0
  BY <1>11, <1>13, <1>14, <1>15 DEF ShOK
<1>17. HistOn(p, history') /\ DraftOn(p, draft')
  BY <1>4, <1>10, <1>13, SameHistOK DEF SameHist, DraftOn
<1>18. ScreenOK(Live) /\ (clean => BlankBehind(Live))
  BY LiveOK DEF OnScreen
<1>19. ScreenOK(LineFeed(Live)) /\ (clean => BlankBehind(LineFeed(Live)))
  <2>1. BlankBehind(Live) => \A r \in 0..Rows - 1, c \in 0..Cols - 1 : r > Live.row => Live.grid[r][c] = Space
    BY DEF BlankBehind
  <2>. QED
    BY <1>18, <2>1, ConFeedOK
<1>20. ScreenOK(s) /\ (clean => BlankBehind(s))
  BY <1>19, PrintedOK
<1>. QED
  BY <1>3, <1>5, <1>16, <1>17, <1>20, PromptOK

LEMMA DraftSame ==
  ASSUME NEW sh, NEW d, DraftOn(sh, d), NEW p, p.saved = sh.saved, p.histIdx # 0
  PROVE  DraftOn(p, d)
  BY DEF DraftOn

LEMMA OlderOK == ASSUME ConInv, Older  PROVE ConInv'
<1>1. PICK sh : sh = IF shell.histIdx = 0 THEN Save(shell) ELSE shell
  OBVIOUS
<1>2. PICK entry, p : /\ entry = HistGet(sh, sh.histIdx + 1)
                      /\ p = [sh EXCEPT !.histIdx = @ + 1, !.input = CopyIn(@, entry), !.len = Len(entry)]
  OBVIOUS
<1>3. /\ IF sh.histIdx < sh.count
         THEN /\ Edited(Redraw(Live, p, shell.len), p)
              /\ draft' = IF sh.histIdx = 0 THEN Line(shell) ELSE draft
         ELSE Edited(Live, sh) /\ draft' = draft
      /\ history' = history
  BY <1>1, <1>2 DEF Older
<1>4. ShOK(shell) /\ HistOn(shell, history) /\ DraftOn(shell, draft)
  BY DEF ConInv
<1>5. /\ ShOK(sh) /\ SameHist(shell, sh) /\ SamePlace(shell, sh)
      /\ sh.input = shell.input /\ sh.len = shell.len /\ sh.histIdx = shell.histIdx
      /\ shell.histIdx # 0 => sh.saved = shell.saved
      /\ shell.histIdx = 0 => \A i \in 1..shell.len : sh.saved[i] = shell.input[i]
  <2>1. CASE shell.histIdx = 0
    <3>1. Saved(shell, sh)
      BY <1>1, <1>4, <2>1, SaveOK
    <3>. QED
      BY <2>1, <3>1 DEF Saved
  <2>2. CASE shell.histIdx # 0
    BY <1>1, <1>4, <2>2 DEF SameHist, SamePlace
  <2>. QED
    BY <2>1, <2>2
<1>6. HistOn(sh, history)
  BY <1>4, <1>5, SameHistOK
<1>7. CASE ~(sh.histIdx < sh.count)
  <2>1. Shows(Live, sh)
    BY <1>5, LiveShows
  <2>2. DraftOn(sh, draft')
    BY <1>3, <1>4, <1>5, <1>7 DEF DraftOn
  <2>. QED
    BY <1>3, <1>5, <1>6, <1>7, <2>1, <2>2, EditedOK
<1>8. CASE sh.histIdx < sh.count
  <2>1. PICK i : i = sh.histIdx + 1
    OBVIOUS
  <2>2. i \in 1..HistSize /\ i \in 0..HistSize /\ i <= sh.count /\ i # 0
    BY <1>5, <1>8, <2>1, ShIs, ConConsts
  <2>3. sh \in LineShells
    BY <1>5 DEF ShOK
  <2>4. entry \in ConTexts
    BY <1>2, <2>1, <2>2, <2>3, HistGetIs
  <2>5. p = [sh EXCEPT !.histIdx = i, !.input = CopyIn(sh.input, entry), !.len = Len(entry)]
    BY <1>2, <2>1
  <2>6. Taken(sh, p, i)
    BY <1>5, <2>2, <2>4, <2>5, TakenOK
  <2>7. ShOK(p) /\ SamePlace(shell, p) /\ HistOn(p, history) /\ p.saved = sh.saved /\ p.histIdx = i
    BY <1>5, <1>6, <2>6, SameHistOK DEF Taken, SamePlace
  <2>8. DraftOn(p, draft')
    <3>1. CASE sh.histIdx = 0
      <4>1. draft' = Line(shell)
        BY <1>3, <1>8, <3>1
      <4>2. /\ Line(shell) \in ConTexts /\ Len(Line(shell)) = shell.len
            /\ \A j \in 1..shell.len : Line(shell)[j] = shell.input[j]
        BY <1>4, LineOf DEF ShOK
      <4>3. \A j \in 1..shell.len : p.saved[j] = shell.input[j]
        BY <1>5, <2>7, <3>1
      <4>. QED
        BY <2>2, <2>7, <4>1, <4>2, <4>3 DEF DraftOn
    <3>2. CASE sh.histIdx # 0
      <4>1. draft' = draft /\ p.saved = shell.saved /\ p.histIdx # 0
        BY <1>3, <1>5, <1>8, <2>2, <2>7, <3>2
      <4>. QED
        BY <1>4, <4>1, DraftSame
    <3>. QED
      BY <3>1, <3>2
  <2>9. Shows(Redraw(Live, p, shell.len), p)
    BY <2>7, RedrawShows
  <2>. QED
    BY <1>3, <1>8, <2>7, <2>8, <2>9, EditedOK
<1>. QED
  BY <1>7, <1>8

LEMMA NewerOK == ASSUME ConInv, Newer  PROVE ConInv'
<1>1. PICK i, text, p : /\ i = shell.histIdx - 1
                        /\ text = IF i = 0 THEN Str(shell.saved) ELSE HistGet(shell, i)
                        /\ p = [shell EXCEPT !.histIdx = i, !.input = CopyIn(@, text), !.len = Len(text)]
  OBVIOUS
<1>2. /\ IF shell.histIdx = 0 THEN Edited(Live, shell) /\ draft' = draft
         ELSE /\ Edited(Redraw(Live, p, shell.len), p)
              /\ draft' = IF i = 0 THEN NoDraft ELSE draft
      /\ history' = history
  BY <1>1 DEF Newer
<1>3. ShOK(shell) /\ HistOn(shell, history) /\ DraftOn(shell, draft)
  BY DEF ConInv
<1>4. CASE shell.histIdx = 0
  <2>1. Shows(Live, shell)
    BY LiveShows DEF SamePlace
  <2>2. Edited(Live, shell) /\ DraftOn(shell, draft')
    BY <1>2, <1>3, <1>4
  <2>. QED
    BY <1>2, <1>3, <2>1, <2>2, EditedOK
<1>5. CASE shell.histIdx # 0
  <2>1. i \in 0..HistSize /\ i <= shell.count /\ (i # 0 => i \in 1..HistSize) /\ shell \in LineShells
        /\ CStr(shell.saved)
    BY <1>1, <1>3, <1>5, ShIs, ConConsts
  <2>2. text \in ConTexts
    <3>1. CASE i = 0
      <4>1. StrIs(shell.saved, Str(shell.saved))
        BY <2>1, StrOK
      <4>. QED
        BY <1>1, <3>1, <4>1 DEF StrIs
    <3>2. CASE i # 0
      BY <1>1, <2>1, <3>2, HistGetIs
    <3>. QED
      BY <3>1, <3>2
  <2>3. p = [shell EXCEPT !.histIdx = i, !.input = CopyIn(shell.input, text), !.len = Len(text)]
    BY <1>1
  <2>4. Taken(shell, p, i)
    BY <1>3, <2>1, <2>2, <2>3, TakenOK
  <2>5. ShOK(p) /\ SamePlace(shell, p) /\ HistOn(p, history) /\ p.saved = shell.saved /\ p.histIdx = i
    BY <1>3, <2>4, SameHistOK DEF Taken
  <2>6. DraftOn(p, draft')
    <3>1. CASE i = 0
      BY <1>2, <1>5, <3>1 DEF DraftOn
    <3>2. CASE i # 0
      <4>1. draft' = draft /\ p.histIdx # 0
        BY <1>2, <1>5, <2>5, <3>2
      <4>. QED
        BY <1>3, <2>5, <4>1, DraftSame
    <3>. QED
      BY <3>1, <3>2
  <2>7. Shows(Redraw(Live, p, shell.len), p)
    BY <2>5, RedrawShows
  <2>. QED
    BY <1>2, <1>5, <2>5, <2>6, <2>7, EditedOK
<1>. QED
  BY <1>4, <1>5

\* The words that are listed can be printed.
LEMMA ListedOK ==
  ASSUME NEW found  PROVE Listed(found) \in Seq(Cells \cup {NL})
<1>1. PICK n : n = Len(Cmds)
  OBVIOUS
<1>2. n \in Nat /\ DOMAIN Cmds = 1..n /\ \A i \in 1..n : Cmds[i] \in Seq(Letters)
  <2>1. Cmds \in Seq(Seq(Letters))
    BY ConsoleAssumption
  <2>. QED
    BY <1>1, <2>1, ElementOfSeq
<1>3. PICK two, first : two = <<Space, Space>> /\ first = <<NL, Space, Space>>
  OBVIOUS
<1>4. /\ two \in Seq(Cells \cup {NL}) /\ first \in Seq(Cells \cup {NL}) /\ <<>> \in Seq(Cells \cup {NL})
      /\ Letters \subseteq Cells \cup {NL}
  BY <1>3, CharsOf
<1>5. PICK f : f = [i \in DOMAIN Cmds |-> IF i \in found THEN Cmds[i] \o <<Space, Space>> ELSE <<>>]
  OBVIOUS
<1>6. ASSUME NEW i \in 1..n  PROVE f[i] \in Seq(Cells \cup {NL})
  <2>1. f[i] = IF i \in found THEN Cmds[i] \o two ELSE <<>>
    BY <1>2, <1>3, <1>5
  <2>2. Cmds[i] \in Seq(Cells \cup {NL})
    BY <1>2, <1>4, SeqMonotonic
  <2>3. Cmds[i] \o two \in Seq(Cells \cup {NL})
    BY <1>4, <2>2, ConcatProperties
  <2>. QED
    BY <1>4, <2>1, <2>3
<1>7. DOMAIN f = 1..n
  BY <1>2, <1>5
<1>8. Listed(found) = FoldLeft(Joined, first, f)
  BY <1>3, <1>5, Zenon DEF Listed
<1>9. PICK g : JoinedRun(g, first, f, n) /\ Listed(found) = g[n]
  <2>1. \E g : JoinedRun(g, first, f, n) /\ FoldLeft(Joined, first, f) = g[n]
    BY <1>2, <1>7, JoinedFold, Zenon
  <2>. QED
    BY <1>8, <2>1, Zenon
<1>. DEFINE Upto == {k \in Nat : k <= n => g[k] \in Seq(Cells \cup {NL})}
<1>10. 0 \in Upto
  BY <1>4, <1>9 DEF JoinedRun
<1>11. ASSUME NEW k \in Upto  PROVE k + 1 \in Upto
  <2>1. SUFFICES ASSUME k + 1 <= n  PROVE g[k + 1] \in Seq(Cells \cup {NL})
    OBVIOUS
  <2>2. PICK j : j = k + 1
    OBVIOUS
  <2>3. j \in 1..n /\ k <= n /\ j - 1 = k
    BY <1>2, <2>1, <2>2
  <2>4. g[k] \in Seq(Cells \cup {NL}) /\ g[j] = Joined(g[k], f[j]) /\ f[j] \in Seq(Cells \cup {NL})
    BY <1>6, <1>9, <2>3 DEF JoinedRun
  <2>5. g[j] \in Seq(Cells \cup {NL})
    BY <2>4, ConcatProperties DEF Joined
  <2>. QED
    BY <2>2, <2>5
<1>12. Upto = Nat
  <2>. HIDE DEF Upto
  <2>1. Upto \in SUBSET Nat
    BY DEF Upto
  <2>. QED
    BY <1>10, <1>11, <2>1, SetInduction, Zenon
<1>13. n \in Upto /\ n <= n
  BY <1>2, <1>12
<1>. QED
  BY <1>9, <1>13

LEMMA CompletedOK ==
  ASSUME NEW word \in Seq(Letters)  PROVE Completed(word) \in ConTexts
<1>1. PICK n, k : n = Len(word) /\ k = IF n < LineMax - 2 THEN n ELSE LineMax - 2
  OBVIOUS
<1>2. n \in Nat /\ (\A i \in 1..n : word[i] \in Letters) /\ LineMax \in Nat \ {0}
  BY <1>1, ConConsts, ElementOfSeq
<1>3. k \in Int /\ k <= n /\ k <= LineMax - 2 /\ \A i \in 1..k : word[i] \in LineChars
  BY <1>1, <1>2, CharsOf
<1>4. PICK cut : cut = SubSeq(word, 1, k)
  OBVIOUS
<1>5. cut \in Seq(LineChars) /\ Len(cut) = (IF 1 <= k THEN k - 1 + 1 ELSE 0)
  BY <1>3, <1>4, SubSeqProperties
<1>6. Len(cut) \in Nat /\ Len(cut) + 1 <= LineMax
  BY <1>2, <1>3, <1>5
<1>7. PICK one : one = <<Space>>
  OBVIOUS
<1>8. one \in Seq(LineChars) /\ Len(one) = 1
  BY <1>7, CharsOf
<1>9. cut \o one \in Seq(LineChars) /\ Len(cut \o one) = Len(cut) + Len(one)
  BY <1>5, <1>8, ConcatProperties
<1>10. Completed(word) = cut \o one
  BY <1>1, <1>4, <1>7 DEF Completed
<1>. QED
  BY <1>6, <1>8, <1>9, <1>10 DEF ConTexts

LEMMA TabOK == ASSUME ConInv, Tab  PROVE ConInv'
<1>1. PICK found : found = Matching(shell)
  OBVIOUS
<1>2. /\ history' = history /\ draft' = draft
      /\ \/ Edited(Live, shell)
         \/ \E i \in found :
              Edited(Redraw(Live, [shell EXCEPT !.input = CopyIn(@, Completed(Cmds[i])),
                                                !.len = Len(Completed(Cmds[i]))], shell.len),
                     [shell EXCEPT !.input = CopyIn(@, Completed(Cmds[i])), !.len = Len(Completed(Cmds[i]))])
         \/ LET listed == Puts(Puts(Live, Listed(found) \o <<NL>>), Prompt)
                typed == Puts(listed, Line(shell))
            IN /\ Leaves(typed)
               /\ shell' = [shell EXCEPT !.prRow = listed.row, !.prCol = listed.col]
               /\ clean' = /\ ~screenTorn /\ (clean \/ BlankBehind(listed))
                           /\ Len(typed.tape) = Len(listed.tape)
  BY <1>1 DEF Tab
<1>3. ShOK(shell) /\ HistOn(shell, history) /\ DraftOn(shell, draft) /\ clean \in BOOLEAN
  BY DEF ConInv
<1>4. CASE Edited(Live, shell)
  <2>1. Shows(Live, shell)
    BY LiveShows DEF SamePlace
  <2>. QED
    BY <1>2, <1>3, <1>4, <2>1, EditedOK
<1>5. ASSUME NEW i \in found,
             Edited(Redraw(Live, [shell EXCEPT !.input = CopyIn(@, Completed(Cmds[i])),
                                               !.len = Len(Completed(Cmds[i]))], shell.len),
                    [shell EXCEPT !.input = CopyIn(@, Completed(Cmds[i])), !.len = Len(Completed(Cmds[i]))])
      PROVE  ConInv'
  <2>1. PICK text, p : text = Completed(Cmds[i]) /\ p = [shell EXCEPT !.input = CopyIn(@, text), !.len = Len(text)]
    OBVIOUS
  <2>2. Edited(Redraw(Live, p, shell.len), p)
    BY <1>5, <2>1
  <2>3. text \in ConTexts
    <3>1. Cmds[i] \in Seq(Letters)
      BY <1>1, ConsoleAssumption DEF Matching
    <3>. QED
      BY <2>1, <3>1, CompletedOK
  <2>4. PICK k : k = shell.histIdx
    OBVIOUS
  <2>5. shell \in LineShells /\ k \in 0..HistSize /\ k <= shell.count
    BY <1>3, <2>4, ShIs
  <2>6. p = [shell EXCEPT !.histIdx = k, !.input = CopyIn(shell.input, text), !.len = Len(text)]
    BY <2>1, <2>4, <2>5 DEF LineShells
  <2>7. Taken(shell, p, k)
    BY <1>3, <2>3, <2>5, <2>6, TakenOK
  <2>8. ShOK(p) /\ SamePlace(shell, p) /\ HistOn(p, history) /\ p.saved = shell.saved /\ p.histIdx = shell.histIdx
    BY <1>3, <2>4, <2>7, SameHistOK DEF Taken
  <2>9. DraftOn(p, draft')
    BY <1>2, <1>3, <2>8 DEF DraftOn
  <2>10. Shows(Redraw(Live, p, shell.len), p)
    BY <2>8, RedrawShows
  <2>. QED
    BY <1>2, <2>2, <2>8, <2>9, <2>10, EditedOK
<1>6. ASSUME NEW a, a = Puts(Live, Listed(found) \o <<NL>>), NEW b, b = Puts(a, Prompt),
             NEW d, d = Puts(b, Line(shell)),
             Leaves(d), shell' = [shell EXCEPT !.prRow = b.row, !.prCol = b.col],
             clean' = (~screenTorn /\ (clean \/ BlankBehind(b)) /\ Len(d.tape) = Len(b.tape))
      PROVE  ConInv'
  <2>1. PICK nl, words : nl = <<NL>> /\ words = Listed(found)
    OBVIOUS
  <2>2. nl \in Seq(Cells \cup {NL}) /\ words \in Seq(Cells \cup {NL})
    BY <2>1, ListedOK
  <2>3. words \o nl \in Seq(Cells \cup {NL})
    BY <2>2, ConcatProperties
  <2>4. ScreenOK(Live) /\ (clean => BlankBehind(Live))
    BY LiveOK DEF OnScreen
  <2>5. ScreenOK(a) /\ (clean => BlankBehind(a))
    BY <1>6, <2>1, <2>3, <2>4, ConPutsOK
  <2>6. Prompt \in Seq(Cells \cup {NL})
    BY ConsoleAssumption
  <2>7. ScreenOK(b) /\ (clean => BlankBehind(b))
    BY <1>6, <2>5, <2>6, ConPutsOK
  <2>8. PICK t, line, n : t = Puts(b, line) /\ line = Line(shell) /\ n = Len(line)
    OBVIOUS
  <2>9. /\ line \in Seq(LineChars) /\ n = shell.len /\ n \in Nat
        /\ \A i \in 1..n : line[i] = shell.input[i]
    BY <1>3, <2>8, LineOf, ShIs DEF ConTexts
  <2>10. line \in Seq(Cells \ {NL}) /\ line \in Seq(Cells \cup {NL})
    <3>1. LineChars \subseteq Cells \ {NL} /\ LineChars \subseteq Cells \cup {NL}
      BY CharsOf
    <3>. QED
      BY <2>9, <3>1, SeqMonotonic
  <2>11. ScreenOK(t) /\ (BlankBehind(b) => BlankBehind(t))
    BY <2>7, <2>8, <2>10, ConPutsOK
  <2>12. PICK r, c, p : r = b.row /\ c = b.col /\ p = [shell EXCEPT !.prRow = r, !.prCol = c]
    OBVIOUS
  <2>13. r \in 0..Rows - 1 /\ c \in 0..Cols - 1 /\ shell \in LineShells
    BY <1>3, <2>7, <2>12, ScreenIs DEF ShOK
  <2>14. /\ p \in LineShells /\ p.input = shell.input /\ p.len = shell.len /\ p.histIdx = shell.histIdx
         /\ p.saved = shell.saved /\ p.hist = shell.hist /\ p.count = shell.count /\ p.tail = shell.tail
         /\ p.prRow = r /\ p.prCol = c
    BY <2>12, <2>13 DEF LineShells
  <2>15. ShOK(p) /\ HistOn(p, history') /\ DraftOn(p, draft')
    <3>1. ShOK(p)
      BY <1>3, <2>14 DEF ShOK
    <3>2. HistOn(p, history')
      BY <1>2, <1>3, <2>14, SameHistOK DEF SameHist
    <3>3. DraftOn(p, draft')
      BY <1>2, <1>3, <2>14 DEF DraftOn
    <3>. QED
      BY <3>1, <3>2, <3>3
  <2>16. ASSUME Len(t.tape) = Len(b.tape), BlankBehind(b)  PROVE OnScreen(t, p)
    <3>1. PrOK(p) /\ b.row = p.prRow /\ b.col = p.prCol
      BY <2>12, <2>14, <2>15, ShIs
    <3>2. n \in 0..Len(line) /\ \A i \in 1..Len(line) : i > n => line[i] = Space
      BY <2>8, <2>9
    <3>3. Drawn(b, t, p, line, n, Len(line))
      BY <2>7, <2>8, <2>10, <2>16, <3>1, <3>2, PutsDrawn
    <3>4. Written(t, p, line, n)
      BY <2>8, <3>3 DEF Drawn
    <3>5. Written(t, p, p.input, p.len)
      BY <2>9, <2>14, <3>4 DEF Written
    <3>. QED
      BY <2>11, <2>16, <3>5 DEF OnScreen
  <2>17. Leaves(t) /\ shell' = p
    BY <1>6, <2>8, <2>12
  <2>18. /\ clean' \in BOOLEAN /\ (clean' => ~screenTorn /\ BlankBehind(b) /\ Len(t.tape) = Len(b.tape))
    <3>1. clean' = (~screenTorn /\ (clean \/ BlankBehind(b)) /\ Len(t.tape) = Len(b.tape))
      BY <1>6, <2>8
    <3>. QED
      BY <1>3, <2>7, <3>1
  <2>19. ScreenOK(screen') /\ screenTorn' = screenTorn /\ (screenTorn \/ screen' = t)
    BY <2>11, <2>17, LeavesOK
  <2>20. clean' => OnScreen(screen', shell')
    BY <2>16, <2>17, <2>18, <2>19
  <2>. QED
    BY <2>15, <2>17, <2>18, <2>19, <2>20 DEF ConInv
<1>. QED
  BY <1>2, <1>4, <1>5, <1>6

LEMMA ConsoleInitOK == ASSUME ConsoleInit  PROVE ConInv
<1>1. PICK boot : boot = [grid |-> BlankGrid, pix |-> BlankGrid, row |-> 0, col |-> 0,
               sb |-> [i \in 0..SbLines - 1 |-> BlankRow], head |-> 0, count |-> 0,
               off |-> 0, tape |-> <<>>, stale |-> {}]
  OBVIOUS
<1>2. PICK s : s = Puts(boot, Prompt)
  OBVIOUS
<1>3. /\ screen = s
      /\ shell = [input |-> [i \in 1..LineMax + 1 |-> NUL], len |-> 0, histIdx |-> 0,
                 saved |-> [i \in 1..LineMax + 1 |-> NUL],
                 hist |-> [i \in 0..HistSize - 1 |-> <<>>], count |-> 0, tail |-> 0,
                 prRow |-> s.row, prCol |-> s.col]
      /\ history = <<>> /\ clean = TRUE /\ draft = NoDraft /\ screenTorn = FALSE
  BY <1>1, <1>2 DEF ConsoleInit
<1>4. ScreenOK(boot) /\ BlankBehind(boot)
  <2>1. PICK ring : ring = [i \in 0..SbLines - 1 |-> BlankRow]
    OBVIOUS
  <2>2. ring \in [0..SbLines - 1 -> ConRows] /\ BlankGrid \in ConGrids
    BY <2>1, SpacesCell
  <2>3. 0 \in 0..Rows - 1 /\ 0 \in 0..Cols - 1 /\ 0 \in 0..SbLines - 1 /\ 0 \in 0..SbLines /\ <<>> \in Seq(ConRows)
    BY ConConsts
  <2>4. boot \in Screens
    BY <1>1, <2>1, <2>2, <2>3 DEF Screens
  <2>5. boot.grid = BlankGrid /\ boot.pix = BlankGrid /\ boot.count = 0 /\ boot.off = 0 /\ boot.tape = <<>>
    BY <1>1
  <2>6. RingOK(boot)
    BY <2>5, ConConsts DEF RingOK
  <2>7. PixOK(boot)
    <3>1. \A r \in 0..Rows - 1 : ~(r < 0) /\ r - 0 = r
      OBVIOUS
    <3>. QED
      BY <2>5, <3>1 DEF PixOK, Viewed
  <2>8. BlankBehind(boot)
    BY <2>5, SpacesCell DEF BlankBehind
  <2>. QED
    BY <2>4, <2>5, <2>6, <2>7, <2>8 DEF ScreenOK
<1>5. Prompt \in Seq(Cells \cup {NL})
  BY ConsoleAssumption
<1>6. ScreenOK(s) /\ BlankBehind(s)
  BY <1>2, <1>4, <1>5, ConPutsOK
<1>7. PICK buf, hist : buf = [i \in 1..LineMax + 1 |-> NUL] /\ hist = [i \in 0..HistSize - 1 |-> <<>>]
  OBVIOUS
<1>8. CStr(buf) /\ buf \in ConBufs
  <2>1. buf \in [1..LineMax + 1 -> LineChars \cup {NUL}] /\ LineMax + 1 \in 1..LineMax + 1
    BY <1>7, ConConsts
  <2>. QED
    BY <1>7, <2>1 DEF CStr, ConBufs
<1>9. hist \in [0..HistSize - 1 -> ConTexts]
  <2>1. <<>> \in ConTexts
    BY ConConsts DEF ConTexts
  <2>. QED
    BY <1>7, <2>1
<1>10. /\ shell.input = buf /\ shell.len = 0 /\ shell.histIdx = 0 /\ shell.saved = buf /\ shell.hist = hist
       /\ shell.count = 0 /\ shell.tail = 0 /\ shell.prRow = s.row /\ shell.prCol = s.col
  BY <1>3, <1>7
<1>11. shell \in LineShells
  <2>1. s.row \in 0..Rows - 1 /\ s.col \in 0..Cols - 1
    BY <1>6, ScreenIs
  <2>2. 0 \in 0..LineMax /\ 0 \in 0..HistSize /\ 0 \in 0..HistSize - 1
    BY ConConsts
  <2>3. shell = [input |-> buf, len |-> 0, histIdx |-> 0, saved |-> buf, hist |-> hist, count |-> 0, tail |-> 0,
                 prRow |-> s.row, prCol |-> s.col]
    BY <1>3, <1>7
  <2>. QED
    BY <1>8, <1>9, <2>1, <2>2, <2>3 DEF LineShells
<1>12. ShOK(shell)
  <2>1. Holds(buf, 0)
    BY <1>8, ConConsts DEF Holds
  <2>. QED
    BY <1>8, <1>10, <1>11, <2>1 DEF ShOK
<1>13. HistOn(shell, history)
  BY <1>3, <1>10, ConConsts DEF HistOn
<1>14. DraftOn(shell, draft)
  BY <1>3 DEF DraftOn
<1>15. OnScreen(screen, shell)
  <2>1. PosRow(shell, 0) = s.row /\ PosCol(shell, 0) = s.col
    <3>1. PrOK(shell)
      BY <1>12, ShIs
    <3>. QED
      BY <1>10, <3>1, PosFirst
  <2>2. Written(screen, shell, shell.input, 0)
    BY <1>3, <2>1 DEF Written
  <2>. QED
    BY <1>3, <1>6, <1>10, <2>2 DEF OnScreen
<1>. QED
  BY <1>3, <1>6, <1>12, <1>13, <1>14, <1>15 DEF ConInv

LEMMA ConInvShows == ASSUME ConInv  PROVE ShellTrue
<1>1. ScreenOK(screen) /\ ShOK(shell) /\ HistOn(shell, history) /\ DraftOn(shell, draft)
      /\ (clean => OnScreen(screen, shell))
  BY DEF ConInv
<1>2. ConsoleTypeOK
  <2>1. /\ screen.row \in 0..Rows - 1 /\ screen.col \in 0..Cols - 1
        /\ screen.head \in 0..SbLines - 1 /\ screen.count \in 0..SbLines
        /\ screen.off \in 0..screen.count
    BY <1>1, ScreenIs
  <2>2. screen.grid \in [0..Rows - 1 -> [0..Cols - 1 -> Cells]]
    BY <1>1, ScreenIs DEF ConGrids, ConRows
  <2>3. \A r \in 0..Rows - 1, c \in 0..Cols - 1 : screen.grid[r][c] \in Cells
    BY <2>2
  <2>4. shell.len \in 0..LineMax /\ shell.histIdx \in 0..shell.count
    BY <1>1, ShIs
  <2>. QED
    BY <2>1, <2>3, <2>4 DEF ConsoleTypeOK
<1>3. RowsKept
  <2>1. /\ screen.count = (IF Len(screen.tape) < SbLines THEN Len(screen.tape) ELSE SbLines)
        /\ \A n \in 1..screen.count : screen.sb[RingAt(screen.head, n, SbLines)] = screen.tape[Len(screen.tape) - n + 1]
    BY <1>1 DEF ScreenOK, RingOK
  <2>2. PICK h : h = screen.head
    OBVIOUS
  <2>3. h \in 0..SbLines - 1 /\ SbLines \in Nat \ {0} /\ screen.count \in 0..SbLines
    BY <1>1, <2>2, ScreenIs, ConConsts
  <2>4. ASSUME NEW n \in 1..screen.count  PROVE RingRow(screen, n) = screen.tape[Len(screen.tape) - n + 1]
    <3>1. n \in 1..SbLines
      BY <2>3
    <3>2. (h - n) % SbLines = RingAt(h, n, SbLines)
      BY <2>3, <3>1, RingAtIs
    <3>. QED
      BY <2>1, <2>2, <3>2 DEF RingRow
  <2>5. PICK o : o = screen.off
    OBVIOUS
  <2>6. o \in 0..screen.count
    BY <1>1, <2>5, ScreenIs
  <2>7. \A r \in 0..Rows - 1 : ScreenRow(screen, r) = Viewed(screen, r)
    BY <1>1, <2>5, <2>6, ViewedIs
  <2>8. screen.off = 0 => screen.pix = screen.grid
    BY <1>1 DEF ScreenOK, PixOK
  <2>9. screen.off < SbLines => \A r \in 0..Rows - 1 : r \notin screen.stale => screen.pix[r] = Viewed(screen, r)
    BY <1>1 DEF ScreenOK, PixOK
  <2>10. screen.off < SbLines => \A r \in (0..Rows - 1) \ screen.stale : screen.pix[r] = ScreenRow(screen, r)
    BY <2>7, <2>9
  <2>. QED
    BY <2>1, <2>4, <2>8, <2>10 DEF RowsKept
<1>4. LineShown
  BY <1>1 DEF LineShown, OnScreen, Written
<1>5. HistoryKept
  <2>1. /\ shell.count = (IF Len(history) < HistSize THEN Len(history) ELSE HistSize)
        /\ \A n \in 1..shell.count : shell.hist[RingAt(shell.tail, n, HistSize)] = history[Len(history) - n + 1]
    BY <1>1 DEF HistOn
  <2>2. shell \in LineShells /\ shell.count \in 0..HistSize /\ HistSize \in Nat
    BY <1>1, ShIs, ConConsts
  <2>3. \A back \in 1..shell.count : HistGet(shell, back) = shell.hist[RingAt(shell.tail, back, HistSize)]
    BY <2>2, HistGetIs
  <2>. QED
    BY <2>1, <2>3 DEF HistoryKept
<1>6. DraftKept
  <2>1. SUFFICES ASSUME draft # NoDraft  PROVE IsPrefix(draft, Str(shell.saved))
    BY DEF DraftKept
  <2>2. PICK d, buf, str, n : d = draft /\ buf = shell.saved /\ str = Str(buf) /\ n = Len(d)
    OBVIOUS
  <2>3. /\ d \in Seq(LineChars) /\ n <= LineMax /\ n \in Nat
        /\ \A i \in 1..n : d[i] \in LineChars /\ buf[i] = d[i]
    <3>1. d \in ConTexts /\ \A i \in 1..Len(d) : buf[i] = d[i]
      BY <1>1, <2>1, <2>2 DEF DraftOn
    <3>2. d \in Seq(LineChars) /\ Len(d) <= LineMax
      BY <3>1 DEF ConTexts
    <3>. QED
      BY <2>2, <3>1, <3>2, ElementOfSeq
  <2>4. CStr(buf)
    BY <1>1, <2>2, ShIs
  <2>5. StrIs(buf, str)
    BY <2>2, <2>4, StrOK
  <2>6. str \in Seq(LineChars) /\ n <= Len(str) /\ \A i \in 1..n : str[i] = d[i]
    <3>1. n \in 0..LineMax /\ \A i \in 1..n : buf[i] \in LineChars
      BY <2>3, ConConsts
    <3>. QED
      BY <2>3, <2>5, <3>1 DEF StrIs, ConTexts
  <2>7. \A i \in 1..n : str[i] \in LineChars /\ d[i] \in LineChars /\ 1 + i - 1 = i
    BY <2>3, <2>6
  <2>8. PICK a, b : a = SubSeq(d, 1, n) /\ b = SubSeq(str, 1, n)
    OBVIOUS
  <2>9. 1 \in Int /\ n \in Int /\ n - 1 + 1 = n /\ (~(1 <= n) => n = 0)
    BY <2>3
  <2>10. a \in Seq(LineChars) /\ Len(a) = n /\ \A i \in 1..n : a[i] = d[i]
    BY <2>7, <2>8, <2>9, SubSeqProperties
  <2>11. b \in Seq(LineChars) /\ Len(b) = n /\ \A i \in 1..n : b[i] = str[i]
    BY <2>7, <2>8, <2>9, SubSeqProperties
  <2>12. a = b
    <3>1. Len(a) = Len(b) /\ \A i \in 1..Len(a) : a[i] = b[i]
      BY <2>6, <2>10, <2>11
    <3>. QED
      BY <2>10, <2>11, <3>1, SeqEqual
  <2>. QED
    BY <2>2, <2>6, <2>8, <2>12 DEF IsPrefix
<1>. QED
  BY <1>2, <1>3, <1>4, <1>5, <1>6 DEF ShellTrue

LEMMA ConNextOK == ASSUME ConInv, [ConsoleNext]_consoleVars  PROVE ConInv'
<1>1. CASE Scrolled
  BY <1>1, ScrolledOK
<1>2. CASE EnterLine
  BY <1>2, EnterLineOK
<1>3. CASE Cancel
  BY <1>3, CancelOK
<1>4. CASE Backspace
  BY <1>4, BackspaceOK
<1>5. CASE Older
  BY <1>5, OlderOK
<1>6. CASE Newer
  BY <1>6, NewerOK
<1>7. CASE Tab
  BY <1>7, TabOK
<1>8. CASE Printable
  BY <1>8, PrintableOK
<1>9. CASE OtherPrints
  BY <1>9, OtherPrintsOK
<1>11. CASE PrintsMix
  BY <1>11, PrintsMixOK
<1>10. CASE UNCHANGED consoleVars
  <2>1. /\ screen' = screen /\ shell' = shell /\ history' = history /\ clean' = clean /\ draft' = draft
        /\ screenTorn' = screenTorn
    BY <1>10 DEF consoleVars
  <2>. QED
    BY <2>1 DEF ConInv
<1>. QED
  BY <1>1, <1>2, <1>3, <1>4, <1>5, <1>6, <1>7, <1>8, <1>9, <1>10, <1>11 DEF ConsoleNext

\* The text console and the shell's prompt: the grid, the ring and the pixels are
\* what was printed and the line on the screen is the line that Enter runs, as
\* long as no two prints overlapped; the history is what was entered, wherever
\* they do; for all their sizes, keys and outputs (vga.c, shell_run).
THEOREM ConsoleIsTrue == ConsoleSpec => []ShellTrue
<1>1. ConsoleInit => ConInv
  BY ConsoleInitOK
<1>2. ConInv /\ [ConsoleNext]_consoleVars => ConInv'
  BY ConNextOK
<1>3. ConInv => ShellTrue
  BY ConInvShows
<1>. QED
  BY <1>1, <1>2, <1>3, PTL DEF ConsoleSpec

=============================================================================
