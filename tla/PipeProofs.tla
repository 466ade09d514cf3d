----------------------------- MODULE PipeProofs -----------------------------
(***************************************************************************)
(* Proofs about pipes.  PipeRing: with one writer it implements            *)
(* ByteChannel, whatever the size of the ring and the interleaving.        *)
(* PipeFds: the reference counts of every pipe are exact as long as no     *)
(* program dies with pipe ends open and none calls dup2(fd, fd)            *)
(* (PipeFds!EventNames), and a read that ends empty is an end of file as   *)
(* long as, besides, a pipe has one reader at a time.                      *)
(***************************************************************************)
EXTENDS PipeRing, PipeFds, FiniteSetTheorems, WellFoundedInduction, TLAPS

OneWriter == \A u, w \in Writers : u = w

\* The bytes in the ring, and the index of the i-th of them, from 0.
Level   == IF tail >= head THEN tail - head ELSE tail - head + PipeBuf
Slot(i) == IF head + i < PipeBuf THEN head + i ELSE head + i - PipeBuf

\* The ring holds what was sent and not yet received, oldest byte at head.
HistoryInv ==
  /\ Len(sent) = Len(got) + Level
  /\ \A i \in 1 .. Len(got) : got[i] = sent[i]
  /\ \A i \in 0 .. Level - 1 : buf[Slot(i)] = sent[Len(got) + i + 1]

\* Between its test and its store of tail, the writer owns the slot at tail.
WriterInv ==
  \A w \in Writers :
    /\ wpc[w] # "user" => todo[w] # <<>> /\ w \in open
    /\ wpc[w] \in {"store", "advance"} => next[w] = Succ(tail) /\ next[w] # head
    /\ wpc[w] = "advance" => buf[tail] = Head(todo[w])

\* Once the reader has seen a byte the ring cannot become empty under it.
ReaderInv ==
  /\ rpc # "user" => want > 0
  /\ rpc = "check" => open = {} \/ head # tail
  /\ rpc \in {"load", "advance"} => head # tail
  /\ rpc = "advance" => byte = buf[head]
  /\ ended => open = {} /\ head = tail

RingInv == TypeOK /\ HistoryInv /\ WriterInv /\ ReaderInv

-----------------------------------------------------------------------------
(***************************************************************************)
(* The masked increment of an index, without division.                     *)
(***************************************************************************)
LEMMA SuccFacts ==
  ASSUME NEW i \in Index
  PROVE  Succ(i) = IF i + 1 < PipeBuf THEN i + 1 ELSE 0
<1>. USE PipeBufAssumption DEF Index
<1>1. CASE i + 1 < PipeBuf
  BY <1>1, (i + 1) % PipeBuf = i + 1 DEF Succ
<1>2. CASE i + 1 = PipeBuf
  BY <1>2, PipeBuf % PipeBuf = 0 DEF Succ
<1>. QED
  BY <1>1, <1>2

LEMMA InitRing == Init => RingInv
<1>. SUFFICES ASSUME Init PROVE RingInv
  OBVIOUS
<1>1. TypeOK
  <2>1. buf \in [Index -> Byte] /\ 0 \in Index
    BY PipeBufAssumption DEF Init, Index
  <2>2. /\ head \in Index /\ tail \in Index /\ open \subseteq Writers
        /\ rpc \in {"user", "poll", "open", "check", "more", "load", "advance"}
        /\ want \in Nat /\ byte \in Byte /\ ended \in BOOLEAN
    BY <2>1 DEF Init
  <2>3. /\ wpc \in [Writers -> {"user", "test", "store", "advance"}]
        /\ next \in [Writers -> Index]
    BY <2>1 DEF Init
  <2>4. todo \in [Writers -> Seq(Byte)] /\ sent \in Seq(Byte) /\ got \in Seq(Byte)
    BY DEF Init
  <2>. QED
    BY <2>1, <2>2, <2>3, <2>4 DEF TypeOK
<1>2. HistoryInv /\ WriterInv /\ ReaderInv
  BY PipeBufAssumption DEF Init, HistoryInv, WriterInv, ReaderInv, Level
<1>. QED
  BY <1>1, <1>2 DEF RingInv

-----------------------------------------------------------------------------
(***************************************************************************)
(* The writer's steps.                                                     *)
(***************************************************************************)
LEMMA WriteCallInd ==
  ASSUME RingInv, NEW w \in Writers, WriteCall(w)
  PROVE  RingInv'
<1>. USE DEF RingInv, TypeOK, WriteCall, ring, reader
<1>1. TypeOK'
  BY MessagesAssumption
<1>2. HistoryInv'
  BY DEF HistoryInv, Level, Slot
<1>3. WriterInv'
  BY MessagesAssumption DEF WriterInv
<1>4. ReaderInv'
  BY DEF ReaderInv
<1>. QED
  BY <1>1, <1>2, <1>3, <1>4

LEMMA TestFullInd ==
  ASSUME RingInv, NEW w \in Writers, TestFull(w)
  PROVE  RingInv'
<1>. USE DEF RingInv, TypeOK, TestFull, ring, reader
<1>1. TypeOK'
  BY SuccFacts, PipeBufAssumption DEF Index
<1>2. HistoryInv'
  BY DEF HistoryInv, Level, Slot
<1>3. WriterInv'
  BY DEF WriterInv
<1>4. ReaderInv'
  BY DEF ReaderInv
<1>. QED
  BY <1>1, <1>2, <1>3, <1>4

LEMMA StoreInd ==
  ASSUME RingInv, OneWriter, NEW w \in Writers, Store(w)
  PROVE  RingInv'
<1>. USE DEF RingInv, TypeOK, Store, reader
<1>0. todo[w] # <<>> /\ Head(todo[w]) \in Byte
  BY DEF WriterInv
<1>1. TypeOK'
  BY <1>0
<1>2. HistoryInv'
  <2>1. \A i \in 0 .. Level - 1 : Slot(i) \in Index /\ Slot(i) # tail
    BY PipeBufAssumption DEF Level, Slot, Index
  <2>. QED
    BY <2>1 DEF HistoryInv, Level, Slot
<1>3. WriterInv'
  BY DEF WriterInv, OneWriter
<1>4. ReaderInv'
  BY DEF ReaderInv
<1>. QED
  BY <1>1, <1>2, <1>3, <1>4

LEMMA AdvanceTailInd ==
  ASSUME RingInv, OneWriter, NEW w \in Writers, AdvanceTail(w)
  PROVE  RingInv'
<1>. USE DEF RingInv, TypeOK, AdvanceTail, reader
<1>0. /\ todo[w] # <<>> /\ Head(todo[w]) \in Byte /\ w \in open
      /\ next[w] = Succ(tail) /\ Succ(tail) # head
      /\ buf[tail] = Head(todo[w])
  BY DEF WriterInv
<1>1. TypeOK'
  BY <1>0
<1>2. HistoryInv'
  <2>0. /\ tail' = IF tail + 1 < PipeBuf THEN tail + 1 ELSE 0
        /\ tail' # head /\ head' = head
    BY <1>0, SuccFacts
  <2>1. Level' = Level + 1 /\ Level \in Nat
    BY <2>0, PipeBufAssumption DEF Level, Index
  <2>2. Slot(Level) = tail
    BY PipeBufAssumption DEF Level, Slot, Index
  <2>3. \A i \in 0 .. Level' - 1 : Slot(i)' = Slot(i)
    BY DEF Slot
  <2>4. /\ Len(sent') = Len(sent) + 1 /\ sent'[Len(sent) + 1] = buf[tail]
        /\ \A i \in 1 .. Len(sent) : sent'[i] = sent[i]
    BY <1>0
  <2>. QED
    BY <2>1, <2>2, <2>3, <2>4 DEF HistoryInv
<1>3. WriterInv'
  <2>1. Len(todo[w]) # 1 => Tail(todo[w]) # <<>>
    <3>1. todo[w] \in Seq(Byte) /\ Len(todo[w]) \in Nat /\ Len(todo[w]) # 0
      BY <1>0
    <3>2. Len(Tail(todo[w])) = Len(todo[w]) - 1
      BY <1>0, <3>1
    <3>3. Len(Tail(todo[w])) = 0 <=> Len(todo[w]) = 1
      BY <3>1, <3>2
    <3>. HIDE DEF RingInv, TypeOK, AdvanceTail
    <3>. QED
      BY <3>3
  <2>. QED
    BY <1>0, <2>1 DEF WriterInv, OneWriter
<1>4. ReaderInv'
  BY <1>0 DEF ReaderInv
<1>. QED
  BY <1>1, <1>2, <1>3, <1>4

LEMMA CloseWriteInd ==
  ASSUME RingInv, OneWriter, NEW w \in Writers, CloseWrite(w)
  PROVE  RingInv'
<1>. USE DEF RingInv, TypeOK, CloseWrite, ring, writer, reader
<1>1. TypeOK' /\ HistoryInv'
  BY DEF HistoryInv, Level, Slot
<1>2. WriterInv'
  BY DEF WriterInv, OneWriter
<1>3. ReaderInv'
  BY DEF ReaderInv
<1>. QED
  BY <1>1, <1>2, <1>3

-----------------------------------------------------------------------------
(***************************************************************************)
(* The reader's steps.                                                     *)
(***************************************************************************)
LEMMA WaitingInd ==
  ASSUME RingInv, ReadCall \/ Poll \/ PollOpen \/ Check \/ More \/ Load
  PROVE  RingInv'
<1>. USE DEF RingInv, ReadCall, Poll, PollOpen, Check, More, Load, ring, writer
<1>1. TypeOK'
  BY LensAssumption DEF TypeOK
<1>2. HistoryInv'
  BY DEF HistoryInv, Level, Slot
<1>3. WriterInv'
  BY DEF WriterInv
<1>4. ReaderInv'
  <2>1. CASE ReadCall
    BY <2>1, LensAssumption DEF ReaderInv, TypeOK
  <2>2. CASE Poll
    BY <2>2 DEF ReaderInv, TypeOK
  <2>3. CASE PollOpen
    BY <2>3 DEF ReaderInv, TypeOK
  <2>4. CASE Check
    BY <2>4 DEF ReaderInv, TypeOK
  <2>5. CASE More
    BY <2>5 DEF ReaderInv, TypeOK
  <2>6. CASE Load
    BY <2>6 DEF ReaderInv, TypeOK
  <2>. QED
    BY <2>1, <2>2, <2>3, <2>4, <2>5, <2>6
<1>. QED
  BY <1>1, <1>2, <1>3, <1>4

LEMMA AdvanceHeadInd ==
  ASSUME RingInv, AdvanceHead
  PROVE  RingInv'
<1>. USE DEF RingInv, TypeOK, AdvanceHead, writer
<1>0. want > 0 /\ head # tail /\ byte = buf[head]
  BY DEF ReaderInv
<1>1. TypeOK'
  BY <1>0, SuccFacts, PipeBufAssumption DEF Index
<1>2. HistoryInv'
  <2>0. /\ head' = IF head + 1 < PipeBuf THEN head + 1 ELSE 0
        /\ tail' = tail /\ buf' = buf /\ sent' = sent
        /\ PipeBuf \in Nat /\ head \in 0 .. PipeBuf - 1 /\ tail \in 0 .. PipeBuf - 1
        /\ Len(got) \in Nat
    BY SuccFacts, PipeBufAssumption DEF Index
  <2>1. Level = Level' + 1 /\ Level' \in Nat
    BY <1>0, <2>0 DEF Level
  <2>2. \A i \in 0 .. Level' - 1 : Slot(i)' = Slot(i + 1)
    BY <1>0, <2>0 DEF Level, Slot
  <2>3. Slot(0) = head
    BY <2>0 DEF Slot
  <2>h. HistoryInv
    OBVIOUS
  <2>4. byte = sent[Len(got) + 1]
    <3>1. 0 \in 0 .. Level - 1 /\ Len(got) + 0 + 1 = Len(got) + 1
      <4>1. ASSUME NEW l \in Nat, NEW n \in Nat
            PROVE  0 \in 0 .. (l + 1) - 1 /\ n + 0 + 1 = n + 1
        OBVIOUS
      <4>. HIDE DEF RingInv, TypeOK, AdvanceHead
      <4>. QED
        BY <2>0, <2>1, <4>1
    <3>2. buf[Slot(0)] = sent[Len(got) + 0 + 1]
      BY <2>h, <3>1 DEF HistoryInv
    <3>. QED
      BY <1>0, <2>3, <3>1, <3>2
  <2>5. /\ got' \in Seq(Byte) /\ Len(got') = Len(got) + 1
        /\ got'[Len(got) + 1] = byte
        /\ \A i \in 1 .. Len(got) : got'[i] = got[i]
    OBVIOUS
  <2>6. \A i \in 0 .. Level' - 1 : buf[Slot(i + 1)] = sent[Len(got) + (i + 1) + 1]
    <3>. SUFFICES ASSUME NEW i \in 0 .. Level' - 1
                  PROVE  buf[Slot(i + 1)] = sent[Len(got) + (i + 1) + 1]
      OBVIOUS
    <3>1. i + 1 \in 0 .. Level - 1
      <4>1. ASSUME NEW l \in Nat, NEW n \in 0 .. l - 1
            PROVE  n + 1 \in 0 .. (l + 1) - 1
        OBVIOUS
      <4>. HIDE DEF RingInv, TypeOK, AdvanceHead
      <4>. QED
        BY <2>1, <4>1
    <3>. HIDE DEF RingInv, TypeOK, AdvanceHead
    <3>. QED
      BY <2>h, <3>1 DEF HistoryInv
  <2>7. Len(sent') = Len(got') + Level'
    BY <2>h, <2>0, <2>1, <2>5 DEF HistoryInv
  <2>8. \A i \in 1 .. Len(got') : got'[i] = sent'[i]
    BY <2>h, <2>0, <2>4, <2>5 DEF HistoryInv
  <2>9. \A i \in 0 .. Level' - 1 : buf'[Slot(i)'] = sent'[Len(got') + i + 1]
    <3>. HIDE DEF RingInv, TypeOK, AdvanceHead
    <3>. SUFFICES ASSUME NEW i \in 0 .. Level' - 1
                  PROVE  buf[Slot(i + 1)] = sent[Len(got') + i + 1]
      BY <2>0, <2>2
    <3>1. Len(got') + i + 1 = Len(got) + (i + 1) + 1
      BY <2>0, <2>1, <2>5
    <3>. QED
      BY <2>6, <3>1
  <2>. QED
    BY <2>7, <2>8, <2>9 DEF HistoryInv
<1>3. WriterInv'
  BY <1>0, SuccFacts, PipeBufAssumption DEF WriterInv, Index
<1>4. ReaderInv'
  BY <1>0 DEF ReaderInv
<1>. QED
  BY <1>1, <1>2, <1>3, <1>4

-----------------------------------------------------------------------------
LEMMA NextRing == OneWriter /\ RingInv /\ [Next]_vars => RingInv'
<1>. SUFFICES ASSUME OneWriter, RingInv, [Next]_vars PROVE RingInv'
  OBVIOUS
<1>1. CASE UNCHANGED vars
  BY <1>1 DEF vars, ring, writer, reader, RingInv, TypeOK, HistoryInv, Level, Slot,
     WriterInv, ReaderInv
<1>. QED
  BY <1>1, WriteCallInd, TestFullInd, StoreInd, AdvanceTailInd, CloseWriteInd,
     WaitingInd, AdvanceHeadInd
  DEF Next, Writing, Reading

\* RingInv: head, tail and the bytes between them always are what was written
\* and not yet read, at every point where the scheduler may switch tasks.
THEOREM RingCorrect ==
  ASSUME OneWriter
  PROVE  Spec => []RingInv
BY InitRing, NextRing, PTL DEF Spec

LEMMA EofHasAll == RingInv /\ head = tail => got = sent
<1>. SUFFICES ASSUME RingInv, head = tail PROVE got = sent
  OBVIOUS
<1>1. Len(got) = Len(sent) /\ got \in Seq(Byte) /\ sent \in Seq(Byte)
  BY PipeBufAssumption DEF RingInv, HistoryInv, Level, TypeOK, Index
<1>2. \A i \in 1 .. Len(got) : got[i] = sent[i]
  BY DEF RingInv, HistoryInv
<1>. QED
  BY <1>1, <1>2

\* NoByteLost: a program that sees end of file has every byte.
THEOREM EofCorrect ==
  ASSUME OneWriter
  PROVE  Spec => []NoByteLost
<1>1. RingInv => NoByteLost
  BY EofHasAll DEF RingInv, ReaderInv, NoByteLost
<1>. QED
  BY <1>1, RingCorrect, PTL

-----------------------------------------------------------------------------
(***************************************************************************)
(* Refinement.  A byte is put when tail advances and taken when head does. *)
(***************************************************************************)
LEMMA StepImplements ==
  ASSUME RingInv, [Next]_vars
  PROVE  [Channel!Next]_(Channel!chan)
<1>. USE DEF Channel!chan
<1>1. ASSUME NEW w \in Writers, AdvanceTail(w)
      PROVE  Channel!Next
  <2>1. /\ todo[w] # <<>> /\ todo[w] \in Seq(Byte) /\ w \in open
        /\ next[w] = Succ(tail) /\ Succ(tail) # head
    BY <1>1 DEF AdvanceTail, RingInv, WriterInv, TypeOK
  <2>2. Len(sent) = Len(got) + Level
    BY DEF RingInv, HistoryInv
  <2>3. Level < PipeBuf - 1
    BY <2>1, SuccFacts, PipeBufAssumption DEF RingInv, TypeOK, Level, Index
  <2>4. Len(sent) < Len(got) + (PipeBuf - 1)
    BY <2>2, <2>3, PipeBufAssumption DEF RingInv, TypeOK, Level, Index
  <2>5. Head(todo[w]) \in Byte
    BY <2>1
  <2>6. Channel!Put(Head(todo[w]))
    BY <1>1, <2>1, <2>4 DEF AdvanceTail, reader, Channel!Put
  <2>. QED
    BY <2>5, <2>6 DEF Channel!Next
<1>2. ASSUME NEW w \in Writers, CloseWrite(w)
      PROVE  [Channel!Next]_(Channel!chan)
  BY <1>2 DEF CloseWrite, reader, Channel!Next, Channel!Close
<1>3. CASE Check
  <2>1. CASE head = tail
    BY <1>3, <2>1, EofHasAll DEF Check, RingInv, ReaderInv, Channel!Next, Channel!End
  <2>2. CASE head # tail
    BY <1>3, <2>2 DEF Check, RingInv, TypeOK
  <2>. QED
    BY <2>1, <2>2
<1>4. CASE AdvanceHead
  <2>1. head # tail /\ byte = buf[head]
    BY <1>4 DEF AdvanceHead, RingInv, ReaderInv
  <2>2. /\ head \in 0 .. PipeBuf - 1 /\ tail \in 0 .. PipeBuf - 1 /\ PipeBuf \in Nat
        /\ Len(got) \in Nat
    BY PipeBufAssumption DEF RingInv, TypeOK, Index
  <2>3. 0 \in 0 .. Level - 1 /\ Level \in Nat /\ Slot(0) = head
    BY <2>1, <2>2 DEF Level, Slot
  <2>4. Len(sent) = Len(got) + Level /\ buf[Slot(0)] = sent[Len(got) + 0 + 1]
    BY <2>3 DEF RingInv, HistoryInv
  <2>5. Len(got) < Len(sent) /\ byte = sent[Len(got) + 1]
    BY <2>1, <2>2, <2>3, <2>4
  <2>6. Channel!Get
    BY <1>4, <2>5 DEF AdvanceHead, Channel!Get
  <2>. QED
    BY <2>6 DEF Channel!Next
<1>5. CASE UNCHANGED <<sent, got, open, ended>>
  BY <1>5
<1>6. ASSUME NEW w \in Writers, WriteCall(w) \/ TestFull(w) \/ Store(w)
      PROVE  UNCHANGED <<sent, got, open, ended>>
  BY <1>6 DEF WriteCall, TestFull, Store, reader
<1>7. ASSUME ReadCall \/ Poll \/ PollOpen \/ More \/ Load
      PROVE  UNCHANGED <<sent, got, open, ended>>
  BY <1>7 DEF ReadCall, Poll, PollOpen, More, Load
<1>8. CASE UNCHANGED vars
  BY <1>8, <1>5 DEF vars, reader
<1>. QED
  BY <1>1, <1>2, <1>3, <1>4, <1>5, <1>6, <1>7, <1>8 DEF Next, Writing, Reading

\* Implements: for every size of the ring, every interleaving of pipe_write and
\* pipe_read is a behaviour of a first-in first-out byte channel of PIPE_BUF - 1
\* bytes whose end of file follows the last byte.
THEOREM RingImplementsChannel ==
  ASSUME OneWriter
  PROVE  Spec => Implements
<1>1. Init => Channel!Init
  BY WritersAssumption DEF Init, Channel!Init
<1>. QED
  BY <1>1, StepImplements, RingCorrect, PTL DEF Spec, Implements, Channel!Spec

-----------------------------------------------------------------------------
(***************************************************************************)
(* The descriptors of PipeFds.                                             *)
(***************************************************************************)
Ends    == {ReadEnd(p) : p \in Pipes} \cup {WriteEnd(p) : p \in Pipes}
Tables  == [FDs -> {None} \cup Ends]
Lives   == {"unused", "live", "zombie", "dead"}
Waiting == {"polling", "reading", "stdin", "draining"}
PipeRec == [read_open : Int, write_open : Int, used : BOOLEAN, level : 0 .. Capacity]

(***************************************************************************)
(* Holders, as a function of the state instead of in it, so that a step can *)
(* speak of both sides: the references one table has, those of all live     *)
(* tasks, and what task t adds to their number.                             *)
(***************************************************************************)
RowRefs(row, end)     == {f \in FDs : row[f] = end}
Held(lf, d, end)      == {h \in Slots \X FDs : lf[h[1]] = "live" /\ d[h[1]][h[2]] = end}
Count(lf, d, end)     == Cardinality(Held(lf, d, end))
Share(lf, d, t, end)  == IF lf[t] = "live" THEN Cardinality(RowRefs(d[t], end)) ELSE 0
Others(lf, d, t, end) ==
  {h \in Slots \X FDs : h[1] # t /\ lf[h[1]] = "live" /\ d[h[1]][h[2]] = end}

\* Two tables differ in the descriptors of S only.
SameBut(row, row2, S) == \A f \in FDs \ S : row2[f] = row[f]

\* Whether descriptor f of a table is the end.
Hit(row, f, end) == IF row[f] = end THEN 1 ELSE 0

\* A slot that no task ever had holds no pipe end: StartMain does not clear it.
UnusedEmpty == \A t \in Slots : life[t] = "unused" => fds[t] = [f \in FDs |-> None]

\* What CountsExact says of one pipe with r read and w write ends open, and of
\* all of them, with the counts of this module.
Balanced(pp, r, w) ==
  /\ pp.used => pp.read_open = r /\ pp.write_open = w /\ r + w > 0
  /\ ~pp.used => r + w = 0

Exact(ps, lf, d) ==
  \A p \in Pipes : Balanced(ps[p], Count(lf, d, ReadEnd(p)), Count(lf, d, WriteEnd(p)))

CountsInv == FdsTypeOK /\ UnusedEmpty /\ Exact(pipes, life, fds)

\* The events under which the counts are exact, and those under which one more
\* reader of a pipe cannot take what another has seen.
ClosedOnExit == {"leakyExit", "kill", "selfDup"} \cap Events = {}
OneReader    == ClosedOnExit /\ "sharedRead" \notin Events

-----------------------------------------------------------------------------
(***************************************************************************)
(* Counting descriptors.                                                   *)
(***************************************************************************)

\* Min of a non-empty set of naturals is one of its members, the least.
LEMMA MinNat ==
  ASSUME NEW S \in SUBSET Nat, S # {}
  PROVE  Min(S) \in S /\ \A n \in S : Min(S) <= n
<1>. DEFINE LT == {ss \in Nat \X Nat : ss[1] < ss[2]}
<1>1. IsWellFoundedOn(LT, Nat)
  BY NatLessThanWellFounded DEF OpToRel
<1>2. \E m \in S : \A n \in S : ~(<<n, m>> \in LT)
  <2>. HIDE DEF LT
  <2>. QED
    BY <1>1, WFMin
<1>3. \A m, n \in Nat : <<n, m>> \notin LT => m <= n
  OBVIOUS
<1>. HIDE DEF LT
<1>4. \E m \in S : \A n \in S : m <= n
  BY <1>2, <1>3
<1>. QED
  BY <1>4 DEF Min

LEMMA MinPair ==
  ASSUME NEW a \in Nat, NEW b \in Nat
  PROVE  Min({a, b}) = IF a <= b THEN a ELSE b
  BY MinNat

LEMMA SlotsFinite == IsFiniteSet(Slots) /\ IsFiniteSet(FDs) /\ IsFiniteSet(Slots \X FDs)
<1>1. IsFiniteSet(Slots) /\ IsFiniteSet(FDs)
  BY SizesAssumption, FS_Interval DEF Slots, FDs
<1>. QED
  BY <1>1, FS_Product

LEMMA RowRefsFinite ==
  ASSUME NEW row, NEW end
  PROVE  IsFiniteSet(RowRefs(row, end)) /\ Cardinality(RowRefs(row, end)) \in Nat
<1>1. RowRefs(row, end) \in SUBSET FDs
  BY DEF RowRefs
<1>. QED
  BY <1>1, SlotsFinite, FS_Subset, FS_CardinalityType

\* One descriptor of a table changes.
LEMMA RowRefsExcept ==
  ASSUME NEW row, NEW row2, NEW fd \in FDs, NEW end,
         SameBut(row, row2, {fd})
  PROVE  Cardinality(RowRefs(row2, end)) =
           Cardinality(RowRefs(row, end)) - Hit(row, fd, end)
                                          + Hit(row2, fd, end)
<1>. DEFINE Old == RowRefs(row, end)
            New == RowRefs(row2, end)
<1>1. /\ IsFiniteSet(Old) /\ Cardinality(Old) \in Nat
      /\ IsFiniteSet(New) /\ Cardinality(New) \in Nat
      /\ IsFiniteSet(Old \ {fd}) /\ Cardinality(Old \ {fd}) \in Nat
  BY RowRefsFinite, FS_RemoveElement, FS_CardinalityType
<1>2. /\ Cardinality(Old \ {fd}) = IF fd \in Old THEN Cardinality(Old) - 1 ELSE Cardinality(Old)
      /\ Cardinality(New \ {fd}) = IF fd \in New THEN Cardinality(New) - 1 ELSE Cardinality(New)
  BY <1>1, FS_RemoveElement
<1>3. /\ fd \in Old <=> row[fd] = end
      /\ fd \in New <=> row2[fd] = end
      /\ New \ {fd} = Old \ {fd}
  <2>1. \A f \in FDs \ {fd} : f \in New <=> f \in Old
    BY DEF RowRefs, SameBut
  <2>2. New \subseteq FDs /\ Old \subseteq FDs
    BY DEF RowRefs
  <2>3. /\ fd \in Old <=> row[fd] = end
        /\ fd \in New <=> row2[fd] = end
    BY DEF RowRefs
  <2>. HIDE DEF Old, New
  <2>. QED
    BY <2>1, <2>2, <2>3
<1>. HIDE DEF Old, New
<1>4. Cardinality(New) = Cardinality(Old) - Hit(row, fd, end)
                                          + Hit(row2, fd, end)
  <2>1. Cardinality(New \ {fd}) = Cardinality(Old \ {fd})
    BY <1>3
  <2>2. Cardinality(New) - (IF fd \in New THEN 1 ELSE 0) =
          Cardinality(Old) - (IF fd \in Old THEN 1 ELSE 0)
    BY <1>1, <1>2, <2>1
  <2>. QED
    BY <1>1, <1>3, <2>2 DEF Hit
<1>. QED
  BY <1>4 DEF Old, New

\* Two free descriptors of a table change.
LEMMA RowRefsTwo ==
  ASSUME NEW row, NEW row2, NEW r \in FDs, NEW w \in FDs, r # w, NEW end,
         SameBut(row, row2, {r, w}), row[r] # end, row[w] # end
  PROVE  Cardinality(RowRefs(row2, end)) =
           Cardinality(RowRefs(row, end)) + Hit(row2, r, end)
                                          + Hit(row2, w, end)
<1>. DEFINE mid == [f \in FDs |-> IF f = w THEN row[f] ELSE row2[f]]
<1>1. SameBut(row, mid, {r})
  BY DEF SameBut
<1>2. SameBut(mid, row2, {w})
  BY DEF SameBut
<1>3. mid[r] = row2[r] /\ mid[w] = row[w]
  OBVIOUS
<1>. HIDE DEF mid
<1>4. Cardinality(RowRefs(mid, end)) = Cardinality(RowRefs(row, end))
        - Hit(row, r, end) + Hit(mid, r, end)
  BY <1>1, RowRefsExcept
<1>5. Cardinality(RowRefs(row2, end)) = Cardinality(RowRefs(mid, end))
        - Hit(mid, w, end) + Hit(row2, w, end)
  BY <1>2, RowRefsExcept
<1>6. Cardinality(RowRefs(mid, end)) \in Nat /\ Cardinality(RowRefs(row, end)) \in Nat
  BY RowRefsFinite
<1>7. /\ Hit(row, r, end) = 0 /\ Hit(mid, w, end) = 0 /\ Hit(mid, r, end) = Hit(row2, r, end)
      /\ Hit(row2, r, end) \in Nat /\ Hit(row2, w, end) \in Nat
  BY <1>3 DEF Hit
<1>. QED
  BY <1>4, <1>5, <1>6, <1>7

LEMMA EmptyRow ==
  ASSUME NEW p \in Pipes
  PROVE  /\ Cardinality(RowRefs([f \in FDs |-> None], ReadEnd(p))) = 0
         /\ Cardinality(RowRefs([f \in FDs |-> None], WriteEnd(p))) = 0
<1>1. /\ RowRefs([f \in FDs |-> None], ReadEnd(p)) = {}
      /\ RowRefs([f \in FDs |-> None], WriteEnd(p)) = {}
  BY DEF RowRefs, None, ReadEnd, WriteEnd
<1>. QED
  BY <1>1, FS_EmptySet

\* A descriptor besides another that may refer to the same end.
LEMMA TwoRefs ==
  ASSUME NEW row, NEW f \in FDs, NEW g \in FDs, f # g, NEW end, row[f] = end
  PROVE  Cardinality(RowRefs(row, end)) >= 1 + (IF row[g] = end THEN 1 ELSE 0)
<1>. DEFINE S == RowRefs(row, end)
<1>1. /\ f \in S \ {g}
      /\ g \in S <=> row[g] = end
      /\ IsFiniteSet(S) /\ Cardinality(S) \in Nat
  BY RowRefsFinite DEF RowRefs
<1>2. /\ IsFiniteSet(S \ {g})
      /\ Cardinality(S \ {g}) = IF g \in S THEN Cardinality(S) - 1 ELSE Cardinality(S)
  BY <1>1, FS_RemoveElement
<1>. HIDE DEF S
<1>3. Cardinality(S \ {g}) \in Nat /\ Cardinality(S \ {g}) # 0
  BY <1>1, <1>2, FS_CardinalityType, FS_EmptySet
<1>. QED
  BY <1>1, <1>2, <1>3 DEF S

\* The references of all live tasks are those of t and those of the others.
LEMMA CountSplit ==
  ASSUME NEW lf, NEW d, NEW t \in Slots, NEW end
  PROVE  /\ Count(lf, d, end) =
              Cardinality(Others(lf, d, t, end)) + Share(lf, d, t, end)
         /\ Count(lf, d, end) \in Nat
         /\ Cardinality(Others(lf, d, t, end)) \in Nat
         /\ Share(lf, d, t, end) \in Nat
<1>. DEFINE O == Others(lf, d, t, end)
            Mine == IF lf[t] = "live" THEN {t} \X RowRefs(d[t], end) ELSE {}
<1>1. O \in SUBSET (Slots \X FDs) /\ Held(lf, d, end) \in SUBSET (Slots \X FDs)
  BY DEF Others, Held
<1>2. /\ IsFiniteSet(O) /\ Cardinality(O) \in Nat
      /\ IsFiniteSet(Held(lf, d, end)) /\ Count(lf, d, end) \in Nat
  BY <1>1, SlotsFinite, FS_Subset, FS_CardinalityType DEF Count
<1>3. Cardinality({t} \X RowRefs(d[t], end)) = Cardinality(RowRefs(d[t], end))
  <2>1. IsFiniteSet({t}) /\ Cardinality({t}) = 1
    BY FS_Singleton
  <2>. QED
    BY <2>1, RowRefsFinite, FS_Product
<1>4. IsFiniteSet(Mine) /\ Cardinality(Mine) = Share(lf, d, t, end)
  <2>1. IsFiniteSet({t} \X RowRefs(d[t], end))
    BY FS_Singleton, RowRefsFinite, FS_Product
  <2>. QED
    BY <2>1, <1>3, FS_EmptySet DEF Share
<1>5. Held(lf, d, end) = O \cup Mine
  BY DEF Held, Others, RowRefs
<1>6. O \cap Mine = {}
  BY DEF Others
<1>7. Share(lf, d, t, end) \in Nat
  BY RowRefsFinite DEF Share
<1>. HIDE DEF O, Mine
<1>8. Cardinality(O \cup Mine) = Cardinality(O) + Cardinality(Mine) - Cardinality(O \cap Mine)
  BY <1>2, <1>4, FS_Union
<1>9. Cardinality(O \cap Mine) = 0
  BY <1>6, FS_EmptySet
<1>. QED
  BY <1>2, <1>4, <1>5, <1>7, <1>8, <1>9 DEF Count, O

\* A step that changes the life and the table of t only.
LEMMA CountStep ==
  ASSUME NEW t \in Slots,
         \A u \in Slots \ {t} : life'[u] = life[u] /\ fds'[u] = fds[u]
  PROVE  \A end :
         /\ Count(life', fds', end) =
              Count(life, fds, end) - Share(life, fds, t, end) + Share(life', fds', t, end)
         /\ Share(life, fds, t, end) <= Count(life, fds, end)
<1>. TAKE end
<1>1. Others(life', fds', t, end) = Others(life, fds, t, end)
  BY DEF Others
<1>2. /\ Count(life, fds, end) = Cardinality(Others(life, fds, t, end)) + Share(life, fds, t, end)
      /\ Cardinality(Others(life, fds, t, end)) \in Nat
      /\ Share(life, fds, t, end) \in Nat
  BY CountSplit
<1>3. /\ Count(life', fds', end) = Cardinality(Others(life', fds', t, end)) + Share(life', fds', t, end)
      /\ Share(life', fds', t, end) \in Nat
  BY CountSplit
<1>. QED
  BY <1>1, <1>2, <1>3

-----------------------------------------------------------------------------
(***************************************************************************)
(* Types.                                                                  *)
(***************************************************************************)

LEMMA CountsExactMeans ==
  CountsExact <=> FdsTypeOK /\ Exact(pipes, life, fds)
<1>1. \A end : Holders(end) = Held(life, fds, end)
  BY DEF Holders, Held
<1>. QED
  BY <1>1 DEF CountsExact, Exact, Balanced, Count

\* What a type-correct state gives the steps below.
LEMMA Types ==
  ASSUME FdsTypeOK, NEW t \in Slots
  PROVE  /\ fds[t] \in Tables /\ life[t] \in Lives
         /\ \A f \in FDs : /\ fds[t][f] = None \/ \E p \in Pipes : fds[t][f] \in {ReadEnd(p), WriteEnd(p)}
                           /\ fds[t][f].pipe \in Pipes
         /\ \A p \in Pipes : pipes[p] \in PipeRec
<1>1. fds[t] \in [FDs -> {None} \cup {ReadEnd(p) : p \in Pipes}
                                \cup {WriteEnd(p) : p \in Pipes}]
  BY DEF FdsTypeOK
<1>2. fds[t] \in Tables
  BY <1>1 DEF Tables, Ends
<1>3. 0 \in Pipes
  BY SizesAssumption DEF Pipes
<1>4. \A f \in FDs : fds[t][f] = None \/ \E p \in Pipes : fds[t][f] \in {ReadEnd(p), WriteEnd(p)}
  BY <1>1
<1>5. \A f \in FDs : fds[t][f].pipe \in Pipes
  BY <1>3, <1>4 DEF None, ReadEnd, WriteEnd
<1>. QED
  BY <1>2, <1>4, <1>5 DEF FdsTypeOK, Lives, PipeRec

LEMMA InitTypes == FdsInit => FdsTypeOK
<1>1. 0 \in Pipes /\ 0 \in 0 .. Capacity
  BY SizesAssumption DEF Pipes
<1>. QED
  BY <1>1 DEF FdsInit, FdsTypeOK

LEMMA ClosedType ==
  ASSUME NEW pp \in PipeRec,
         NEW r \in Nat, NEW w \in Nat
  PROVE  /\ Closed(pp, r, w) \in PipeRec
         /\ Closed(pp, r, w).read_open = pp.read_open - r
         /\ Closed(pp, r, w).write_open = pp.write_open - w
         /\ Closed(pp, r, w).level = pp.level
         /\ Closed(pp, r, w).used <=>
              pp.used /\ ~(r + w > 0 /\ pp.read_open - r <= 0 /\ pp.write_open - w <= 0)
<1>. DEFINE U == pp.used /\ ~(r + w > 0 /\ pp.read_open - r <= 0 /\ pp.write_open - w <= 0)
<1>1. U \in BOOLEAN
  OBVIOUS
<1>2. Closed(pp, r, w) = [read_open |-> pp.read_open - r, write_open |-> pp.write_open - w,
                         level |-> pp.level, used |-> U]
  BY Zenon DEF Closed, PipeRec
<1>. HIDE DEF U
<1>3. /\ Closed(pp, r, w) \in PipeRec
      /\ Closed(pp, r, w).read_open = pp.read_open - r
      /\ Closed(pp, r, w).write_open = pp.write_open - w
      /\ Closed(pp, r, w).level = pp.level
      /\ Closed(pp, r, w).used = U
  BY <1>1, <1>2 DEF PipeRec
<1>. QED
  BY <1>1, <1>3 DEF U

\* Closing a of the r read ends and b of the w write ends keeps the balance.
LEMMA ClosedBalance ==
  ASSUME NEW pp \in PipeRec, NEW r \in Nat, NEW w \in Nat, NEW a \in Nat, NEW b \in Nat,
         a <= r, b <= w, Balanced(pp, r, w)
  PROVE  Balanced(Closed(pp, a, b), r - a, w - b)
<1>. DEFINE c == Closed(pp, a, b)
<1>1. /\ c.read_open = pp.read_open - a /\ c.write_open = pp.write_open - b
      /\ pp.read_open \in Int /\ pp.write_open \in Int
  BY ClosedType DEF PipeRec
<1>2. c.used <=> pp.used /\ ~(a + b > 0 /\ pp.read_open - a <= 0 /\ pp.write_open - b <= 0)
  BY ClosedType
<1>3. /\ pp.used => pp.read_open = r /\ pp.write_open = w /\ r + w > 0
      /\ ~pp.used => r + w = 0
  BY DEF Balanced
<1>. HIDE DEF c
<1>4. CASE pp.used
  <2>1. c.used <=> ~(a + b > 0 /\ r - a <= 0 /\ w - b <= 0)
    BY <1>2, <1>3, <1>4
  <2>2. CASE c.used
    <3>1. r - a + (w - b) > 0
      BY <1>3, <1>4, <2>1, <2>2
    <3>. QED
      BY <1>1, <1>3, <1>4, <2>2, <3>1 DEF Balanced, c
  <2>3. CASE ~c.used
    <3>1. r - a + (w - b) = 0
      BY <2>1, <2>3
    <3>. QED
      BY <2>3, <3>1, Zenon DEF Balanced, c
  <2>. QED
    BY <2>2, <2>3
<1>5. CASE ~pp.used
  <2>1. r - a + (w - b) = 0
    BY <1>3, <1>5
  <2>2. ~c.used
    BY <1>2, <1>5
  <2>. QED
    BY <2>1, <2>2, Zenon DEF Balanced, c
<1>. QED
  BY <1>4, <1>5

\* Counting c more read ends and d more write ends of a pipe in use keeps it.
LEMMA RefBalance ==
  ASSUME NEW pp \in PipeRec, NEW qq \in PipeRec, NEW r \in Nat, NEW w \in Nat,
         NEW c \in Nat, NEW d \in Nat, Balanced(pp, r, w),
         c + d > 0 => r + w > 0, qq.used = pp.used,
         qq.read_open = pp.read_open + c, qq.write_open = pp.write_open + d
  PROVE  Balanced(qq, r + c, w + d)
<1>1. CASE pp.used
  <2>1. pp.read_open = r /\ pp.write_open = w /\ r + w > 0
    BY <1>1 DEF Balanced
  <2>2. qq.read_open = r + c /\ qq.write_open = w + d /\ r + c + (w + d) > 0
    BY <2>1
  <2>. QED
    BY <1>1, <2>2, Zenon DEF Balanced
<1>2. CASE ~pp.used
  <2>1. r + w = 0
    BY <1>2 DEF Balanced
  <2>2. r + c + (w + d) = 0
    BY <2>1
  <2>. QED
    BY <1>2, <2>2, Zenon DEF Balanced
<1>. QED
  BY <1>1, <1>2

\* One descriptor of a live task is given another meaning.
LEMMA CountExcept ==
  ASSUME NEW t \in Slots, life[t] = "live", life' = life, NEW fd \in FDs,
         SameBut(fds[t], fds'[t], {fd}),
         \A u \in Slots \ {t} : fds'[u] = fds[u]
  PROVE  \A end : Count(life', fds', end) =
                    Count(life, fds, end) - Hit(fds[t], fd, end) + Hit(fds'[t], fd, end)
<1>. TAKE end
<1>1. Cardinality(RowRefs(fds'[t], end)) =
        Cardinality(RowRefs(fds[t], end)) - Hit(fds[t], fd, end) + Hit(fds'[t], fd, end)
  BY RowRefsExcept
<1>2. Share(life', fds', t, end) =
        Share(life, fds, t, end) - Hit(fds[t], fd, end) + Hit(fds'[t], fd, end)
  BY <1>1 DEF Share
<1>3. Count(life', fds', end) = Count(life, fds, end) - Share(life, fds, t, end)
                                                      + Share(life', fds', t, end)
  BY CountStep
<1>4. Count(life, fds, end) \in Nat /\ Share(life, fds, t, end) \in Nat
  BY CountSplit
<1>5. Hit(fds[t], fd, end) \in Nat /\ Hit(fds'[t], fd, end) \in Nat
  BY DEF Hit
<1>. QED
  BY <1>2, <1>3, <1>4, <1>5

\* A live task's reference is counted.
LEMMA CountPositive ==
  ASSUME FdsTypeOK, NEW t \in Slots, life[t] = "live", NEW fd \in FDs
  PROVE  Count(life, fds, fds[t][fd]) \in Nat \ {0}
<1>. DEFINE H == Held(life, fds, fds[t][fd])
<1>1. <<t, fd>> \in H /\ H \in SUBSET (Slots \X FDs)
  BY DEF Held
<1>2. IsFiniteSet(H) /\ Cardinality(H) \in Nat
  BY <1>1, SlotsFinite, FS_Subset, FS_CardinalityType
<1>3. Cardinality(H) # 0
  BY <1>1, <1>2, FS_EmptySet
<1>. QED
  BY <1>2, <1>3 DEF Count

LEMMA DistinctEnds ==
  ASSUME NEW p, NEW q
  PROVE  /\ ReadEnd(p) # WriteEnd(q) /\ ReadEnd(p) # None /\ WriteEnd(p) # None
         /\ ReadEnd(p) = ReadEnd(q) => p = q
         /\ WriteEnd(p) = WriteEnd(q) => p = q
         /\ ReadEnd(p).type = "read" /\ WriteEnd(p).type = "write" /\ None.type = "none"
         /\ ReadEnd(p).pipe = p /\ WriteEnd(p).pipe = p
  BY DEF ReadEnd, WriteEnd, None

-----------------------------------------------------------------------------
(***************************************************************************)
(* Closing and duplicating.                                                *)
(***************************************************************************)

LEMMA CloseEndFacts ==
  ASSUME FdsTypeOK, NEW e \in {None} \cup Ends
  PROVE  LET ps == CloseEnd(pipes, e) IN
         /\ ps \in [Pipes -> PipeRec]
         /\ \A p \in Pipes :
              /\ e = ReadEnd(p) => ps[p] = Closed(pipes[p], 1, 0)
              /\ e = WriteEnd(p) => ps[p] = Closed(pipes[p], 0, 1)
              /\ e \notin {ReadEnd(p), WriteEnd(p)} => ps[p] = pipes[p]
<1>1. pipes \in [Pipes -> PipeRec]
  BY DEF FdsTypeOK, PipeRec
<1>2. CASE e = None
  BY <1>1, <1>2, DistinctEnds DEF CloseEnd
<1>3. CASE \E q \in Pipes : e = ReadEnd(q)
  <2>0. PICK q \in Pipes : e = ReadEnd(q)
    BY <1>3
  <2>1. CloseEnd(pipes, e) = [pipes EXCEPT ![q] = Closed(@, 1, 0)]
    BY <2>0, DistinctEnds DEF CloseEnd
  <2>2. Closed(pipes[q], 1, 0) \in PipeRec
    BY <1>1, ClosedType
  <2>. QED
    BY <1>1, <2>0, <2>1, <2>2, DistinctEnds
<1>4. CASE \E q \in Pipes : e = WriteEnd(q)
  <2>0. PICK q \in Pipes : e = WriteEnd(q)
    BY <1>4
  <2>1. CloseEnd(pipes, e) = [pipes EXCEPT ![q] = Closed(@, 0, 1)]
    BY <2>0, DistinctEnds DEF CloseEnd
  <2>2. Closed(pipes[q], 0, 1) \in PipeRec
    BY <1>1, ClosedType
  <2>. QED
    BY <1>1, <2>0, <2>1, <2>2, DistinctEnds
<1>. QED
  BY <1>2, <1>3, <1>4 DEF Ends

LEMMA RefEndFacts ==
  ASSUME NEW ps \in [Pipes -> PipeRec], NEW e \in {None} \cup Ends
  PROVE  /\ RefEnd(ps, e) \in [Pipes -> PipeRec]
         /\ \A p \in Pipes :
              /\ RefEnd(ps, e)[p].used = ps[p].used
              /\ RefEnd(ps, e)[p].level = ps[p].level
              /\ RefEnd(ps, e)[p].read_open =
                   ps[p].read_open + (IF e = ReadEnd(p) THEN 1 ELSE 0)
              /\ RefEnd(ps, e)[p].write_open =
                   ps[p].write_open + (IF e = WriteEnd(p) THEN 1 ELSE 0)
<1>2. CASE e = None
  <2>1. RefEnd(ps, e) = ps
    BY <1>2, DistinctEnds DEF RefEnd
  <2>. QED
    BY <1>2, <2>1, DistinctEnds DEF PipeRec
<1>3. CASE \E q \in Pipes : e = ReadEnd(q)
  <2>0. PICK q \in Pipes : e = ReadEnd(q)
    BY <1>3
  <2>1. RefEnd(ps, e) = [ps EXCEPT ![q].read_open = @ + 1]
    BY <2>0, DistinctEnds DEF RefEnd
  <2>. QED
    BY <2>0, <2>1, DistinctEnds DEF PipeRec
<1>4. CASE \E q \in Pipes : e = WriteEnd(q)
  <2>0. PICK q \in Pipes : e = WriteEnd(q)
    BY <1>4
  <2>1. RefEnd(ps, e) = [ps EXCEPT ![q].write_open = @ + 1]
    BY <2>0, DistinctEnds DEF RefEnd
  <2>. QED
    BY <2>0, <2>1, DistinctEnds DEF PipeRec
<1>. QED
  BY <1>2, <1>3, <1>4 DEF Ends

LEMMA CloseExact ==
  ASSUME CountsInv, NEW t \in Slots, NEW fd \in FDs, Close(t, fd)
  PROVE  pipes' \in [Pipes -> PipeRec] /\ Exact(pipes', life', fds')
<1>. DEFINE e == fds[t][fd]
<1>0. FdsTypeOK /\ Exact(pipes, life, fds) /\ e \in {None} \cup Ends /\ pipes \in [Pipes -> PipeRec]
  BY Types DEF CountsInv, FdsTypeOK, Tables, PipeRec
<1>1. /\ life[t] = "live" /\ life' = life
      /\ fds'[t][fd] = None /\ SameBut(fds[t], fds'[t], {fd})
      /\ \A u \in Slots \ {t} : fds'[u] = fds[u]
      /\ pipes' = CloseEnd(pipes, e)
  BY <1>0 DEF Close, User, tasks, FdsTypeOK, SameBut
<1>2. \A end : Count(life', fds', end) = Count(life, fds, end)
                 - (IF e = end THEN 1 ELSE 0) + (IF None = end THEN 1 ELSE 0)
  BY <1>0, <1>1, CountExcept DEF Hit
<1>3. Count(life, fds, e) \in Nat \ {0}
  BY <1>0, <1>1, CountPositive
<1>4. /\ pipes' \in [Pipes -> PipeRec]
      /\ \A p \in Pipes :
           /\ e = ReadEnd(p) => pipes'[p] = Closed(pipes[p], 1, 0)
           /\ e = WriteEnd(p) => pipes'[p] = Closed(pipes[p], 0, 1)
           /\ e \notin {ReadEnd(p), WriteEnd(p)} => pipes'[p] = pipes[p]
  BY <1>0, <1>1, CloseEndFacts
<1>. HIDE DEF e
<1>5. ASSUME NEW p \in Pipes
      PROVE  Balanced(pipes'[p], Count(life', fds', ReadEnd(p)), Count(life', fds', WriteEnd(p)))
  <2>1. /\ Count(life, fds, ReadEnd(p)) \in Nat /\ Count(life, fds, WriteEnd(p)) \in Nat
        /\ pipes[p] \in PipeRec
        /\ Balanced(pipes[p], Count(life, fds, ReadEnd(p)), Count(life, fds, WriteEnd(p)))
    BY <1>0, CountSplit DEF Exact
  <2>3. CASE e = ReadEnd(p)
    <3>1. /\ Count(life', fds', ReadEnd(p)) = Count(life, fds, ReadEnd(p)) - 1
          /\ Count(life', fds', WriteEnd(p)) = Count(life, fds, WriteEnd(p)) - 0
          /\ 1 <= Count(life, fds, ReadEnd(p))
      BY <1>2, <1>3, <2>1, <2>3, DistinctEnds
    <3>. QED
      BY <1>4, <2>1, <2>3, <3>1, ClosedBalance
  <2>4. CASE e = WriteEnd(p)
    <3>1. /\ Count(life', fds', ReadEnd(p)) = Count(life, fds, ReadEnd(p)) - 0
          /\ Count(life', fds', WriteEnd(p)) = Count(life, fds, WriteEnd(p)) - 1
          /\ 1 <= Count(life, fds, WriteEnd(p))
      BY <1>2, <1>3, <2>1, <2>4, DistinctEnds
    <3>. QED
      BY <1>4, <2>1, <2>4, <3>1, ClosedBalance
  <2>5. CASE e \notin {ReadEnd(p), WriteEnd(p)}
    <3>1. /\ Count(life', fds', ReadEnd(p)) = Count(life, fds, ReadEnd(p))
          /\ Count(life', fds', WriteEnd(p)) = Count(life, fds, WriteEnd(p))
      BY <1>2, <2>1, <2>5, DistinctEnds
    <3>. QED
      BY <1>4, <2>1, <2>5, <3>1
  <2>. QED
    BY <2>3, <2>4, <2>5
<1>. QED
  BY <1>4, <1>5 DEF Exact

LEMMA Dup2Exact ==
  ASSUME CountsInv, ClosedOnExit, NEW t \in Slots, NEW old \in FDs, NEW fd \in FDs,
         Dup2(t, old, fd)
  PROVE  pipes' \in [Pipes -> PipeRec] /\ Exact(pipes', life', fds')
<1>. DEFINE e == fds[t][fd]
            n == fds[t][old]
            ps == CloseEnd(pipes, e)
<1>0. /\ FdsTypeOK /\ Exact(pipes, life, fds) /\ pipes \in [Pipes -> PipeRec]
      /\ e \in {None} \cup Ends /\ n \in {None} \cup Ends
  BY Types DEF CountsInv, FdsTypeOK, Tables, PipeRec
<1>1. /\ life[t] = "live" /\ life' = life
      /\ fds'[t][fd] = n /\ SameBut(fds[t], fds'[t], {fd})
      /\ \A u \in Slots \ {t} : fds'[u] = fds[u]
      /\ pipes' = RefEnd(ps, n)
      /\ old # fd \/ e = None
  BY <1>0 DEF Dup2, User, tasks, FdsTypeOK, ClosedOnExit, SameBut
<1>2. \A end : Count(life', fds', end) = Count(life, fds, end)
                 - (IF e = end THEN 1 ELSE 0) + (IF n = end THEN 1 ELSE 0)
  BY <1>0, <1>1, CountExcept DEF Hit
<1>3. /\ ps \in [Pipes -> PipeRec]
      /\ \A p \in Pipes :
           /\ e = ReadEnd(p) => ps[p] = Closed(pipes[p], 1, 0)
           /\ e = WriteEnd(p) => ps[p] = Closed(pipes[p], 0, 1)
           /\ e \notin {ReadEnd(p), WriteEnd(p)} => ps[p] = pipes[p]
  BY <1>0, CloseEndFacts
<1>4. /\ pipes' \in [Pipes -> PipeRec]
      /\ \A p \in Pipes :
           /\ pipes'[p].used = ps[p].used
           /\ pipes'[p].read_open = ps[p].read_open + (IF n = ReadEnd(p) THEN 1 ELSE 0)
           /\ pipes'[p].write_open = ps[p].write_open + (IF n = WriteEnd(p) THEN 1 ELSE 0)
  BY <1>0, <1>1, <1>3, RefEndFacts
<1>5. ASSUME NEW end, end # None, n = end
      PROVE  Count(life, fds, end) >= 1 + (IF e = end THEN 1 ELSE 0)
  <2>1. old # fd
    BY <1>1, <1>5
  <2>2. Cardinality(RowRefs(fds[t], end)) >= 1 + (IF e = end THEN 1 ELSE 0)
    BY <2>1, <1>5, TwoRefs
  <2>3. Share(life, fds, t, end) = Cardinality(RowRefs(fds[t], end))
    BY <1>1 DEF Share
  <2>4. Share(life, fds, t, end) <= Count(life, fds, end) /\ Count(life, fds, end) \in Nat
        /\ Share(life, fds, t, end) \in Nat
    BY CountSplit
  <2>. QED
    BY <2>2, <2>3, <2>4
<1>6. \A end : Count(life, fds, end) \in Nat
  BY CountSplit
<1>7. ASSUME NEW end
      PROVE  Count(life, fds, end) >= IF e = end THEN 1 ELSE 0
  BY <1>0, <1>1, <1>6, CountPositive
<1>. HIDE DEF e, n, ps
<1>8. ASSUME NEW p \in Pipes
      PROVE  Balanced(pipes'[p], Count(life', fds', ReadEnd(p)), Count(life', fds', WriteEnd(p)))
  <2>. DEFINE r == Count(life, fds, ReadEnd(p))
              w == Count(life, fds, WriteEnd(p))
              a == IF e = ReadEnd(p) THEN 1 ELSE 0
              b == IF e = WriteEnd(p) THEN 1 ELSE 0
              c == IF n = ReadEnd(p) THEN 1 ELSE 0
              d == IF n = WriteEnd(p) THEN 1 ELSE 0
  <2>1. /\ r \in Nat /\ w \in Nat /\ a \in Nat /\ b \in Nat /\ c \in Nat /\ d \in Nat
        /\ a <= r /\ b <= w /\ pipes[p] \in PipeRec /\ ps[p] \in PipeRec
        /\ pipes'[p] \in PipeRec /\ Balanced(pipes[p], r, w)
    BY <1>0, <1>3, <1>4, <1>6, <1>7 DEF Exact
  <2>2. c + d > 0 => (r - a) + (w - b) > 0
    BY <1>5, <2>1, DistinctEnds
  <2>3. /\ pipes'[p].used = ps[p].used
        /\ pipes'[p].read_open = ps[p].read_open + c
        /\ pipes'[p].write_open = ps[p].write_open + d
    BY <1>4
  <2>4. /\ Count(life', fds', ReadEnd(p)) = r - a + c
        /\ Count(life', fds', WriteEnd(p)) = w - b + d
    BY <1>2
  <2>5. Balanced(ps[p], r - a, w - b)
    <3>1. CASE e = ReadEnd(p)
      <4>1. a = 1 /\ b = 0
        BY <3>1, DistinctEnds
      <4>. QED
        BY <1>3, <2>1, <3>1, <4>1, ClosedBalance
    <3>2. CASE e = WriteEnd(p)
      <4>1. a = 0 /\ b = 1
        BY <3>2, DistinctEnds
      <4>. QED
        BY <1>3, <2>1, <3>2, <4>1, ClosedBalance
    <3>3. CASE e \notin {ReadEnd(p), WriteEnd(p)}
      <4>1. a = 0 /\ b = 0 /\ r - a = r /\ w - b = w
        BY <2>1, <3>3
      <4>. QED
        BY <1>3, <2>1, <3>3, <4>1
    <3>. QED
      BY <3>1, <3>2, <3>3
  <2>. HIDE DEF r, w, a, b, c, d
  <2>6. r - a \in Nat /\ w - b \in Nat
    BY <2>1
  <2>7. Balanced(pipes'[p], r - a + c, w - b + d)
    BY <2>1, <2>2, <2>3, <2>5, <2>6, RefBalance
  <2>. QED
    BY <2>4, <2>7
<1>. QED
  BY <1>4, <1>8 DEF Exact

LEMMA PipeExact ==
  ASSUME CountsInv, NEW t \in Slots, Pipe(t)
  PROVE  /\ pipes' \in [Pipes -> PipeRec] /\ fds' \in [Slots -> Tables]
         /\ Exact(pipes', life', fds')
<1>. DEFINE p == Min(FreePipes)
            r == Min(FreeFds(t))
            w == Min(FreeFds(t) \ {r})
            new == [read_open |-> 1, write_open |-> 1, used |-> TRUE, level |-> 0]
<1>0. /\ FdsTypeOK /\ Exact(pipes, life, fds) /\ pipes \in [Pipes -> PipeRec]
      /\ fds \in [Slots -> Tables]
  BY Types DEF CountsInv, FdsTypeOK, Tables, PipeRec, Ends
<1>1. p \in Pipes /\ ~pipes[p].used
  <2>1. FreePipes \in SUBSET Nat /\ FreePipes # {}
    BY SizesAssumption DEF Pipe, FreePipes, Pipes
  <2>. QED
    BY <2>1, MinNat DEF FreePipes
<1>2. new \in PipeRec
  BY SizesAssumption DEF PipeRec
<1>3. \A end : Count(life, fds, end) \in Nat
  BY CountSplit
<1>4. Count(life, fds, ReadEnd(p)) = 0 /\ Count(life, fds, WriteEnd(p)) = 0
  BY <1>0, <1>1, <1>3 DEF Exact, Balanced
<1>5. CASE Cardinality(FreeFds(t)) >= 2
  <2>1. r \in FDs /\ w \in FDs /\ r # w /\ fds[t][r] = None /\ fds[t][w] = None
    <3>1. FreeFds(t) \in SUBSET FDs /\ FreeFds(t) \in SUBSET Nat
      BY SizesAssumption DEF FreeFds, FDs
    <3>2. IsFiniteSet(FreeFds(t)) /\ FreeFds(t) # {}
      BY <1>5, <3>1, SlotsFinite, FS_Subset, FS_EmptySet
    <3>3. r \in FreeFds(t)
      BY <3>1, <3>2, MinNat
    <3>4. FreeFds(t) \ {r} # {}
      <4>1. Cardinality(FreeFds(t) \ {r}) = Cardinality(FreeFds(t)) - 1
        BY <3>2, <3>3, FS_RemoveElement
      <4>2. Cardinality(FreeFds(t)) \in Nat
        BY <3>2, FS_CardinalityType
      <4>3. Cardinality(FreeFds(t) \ {r}) # 0
        BY <1>5, <4>1, <4>2
      <4>. QED
        BY <4>3, FS_EmptySet
    <3>5. w \in FreeFds(t) \ {r}
      BY <3>1, <3>4, MinNat
    <3>. QED
      BY <3>3, <3>5 DEF FreeFds
  <2>2. /\ life[t] = "live" /\ life' = life
        /\ pipes' = [pipes EXCEPT ![p] = new]
        /\ fds' = [fds EXCEPT ![t] = [@ EXCEPT ![r] = ReadEnd(p), ![w] = WriteEnd(p)]]
    BY <1>5, Zenon DEF Pipe, User, tasks
  <2>. HIDE DEF p, r, w, new
  <2>3. /\ fds' \in [Slots -> Tables]
        /\ fds'[t][r] = ReadEnd(p) /\ fds'[t][w] = WriteEnd(p)
        /\ \A f \in FDs \ {r, w} : fds'[t][f] = fds[t][f]
        /\ \A u \in Slots \ {t} : fds'[u] = fds[u]
    BY <1>0, <1>1, <2>1, <2>2 DEF Tables, Ends
  <2>4. ASSUME NEW end, end # None
        PROVE  Count(life', fds', end) = Count(life, fds, end)
                 + (IF ReadEnd(p) = end THEN 1 ELSE 0) + (IF WriteEnd(p) = end THEN 1 ELSE 0)
    <3>. DEFINE row == fds[t]
                row2 == fds'[t]
    <3>1. SameBut(row, row2, {r, w})
      BY <2>3 DEF SameBut
    <3>2. row[r] = None /\ row[w] = None /\ row2[r] = ReadEnd(p) /\ row2[w] = WriteEnd(p)
      BY <2>1, <2>3
    <3>. HIDE DEF row, row2
    <3>3. Cardinality(RowRefs(row2, end)) = Cardinality(RowRefs(row, end))
            + Hit(row2, r, end) + Hit(row2, w, end)
      BY <2>1, <2>4, <3>1, <3>2, RowRefsTwo
    <3>5. Cardinality(RowRefs(fds[t], end)) \in Nat
      BY RowRefsFinite
    <3>6. Cardinality(RowRefs(fds'[t], end)) = Cardinality(RowRefs(fds[t], end))
            + (IF ReadEnd(p) = end THEN 1 ELSE 0) + (IF WriteEnd(p) = end THEN 1 ELSE 0)
      BY <3>2, <3>3 DEF row, row2, Hit
    <3>7. /\ Share(life, fds, t, end) = Cardinality(RowRefs(fds[t], end))
          /\ Share(life', fds', t, end) = Cardinality(RowRefs(fds'[t], end))
      BY <2>2 DEF Share
    <3>8. Count(life', fds', end) = Count(life, fds, end) - Share(life, fds, t, end)
                                                          + Share(life', fds', t, end)
      BY <2>2, <2>3, CountStep
    <3>. QED
      BY <1>3, <3>5, <3>6, <3>7, <3>8
  <2>5. pipes' \in [Pipes -> PipeRec]
    BY <1>0, <1>1, <1>2, <2>2
  <2>6. ASSUME NEW q \in Pipes
        PROVE  Balanced(pipes'[q], Count(life', fds', ReadEnd(q)), Count(life', fds', WriteEnd(q)))
    <3>1. CASE q = p
      <4>1. Count(life', fds', ReadEnd(q)) = 1 /\ Count(life', fds', WriteEnd(q)) = 1
        BY <1>4, <2>4, <3>1, DistinctEnds
      <4>2. pipes'[q] = new
        BY <1>0, <1>1, <2>2, <3>1
      <4>. QED
        BY <4>1, <4>2 DEF Balanced, new
    <3>2. CASE q # p
      <4>1. /\ Count(life', fds', ReadEnd(q)) = Count(life, fds, ReadEnd(q))
            /\ Count(life', fds', WriteEnd(q)) = Count(life, fds, WriteEnd(q))
        BY <1>3, <2>4, <3>2, DistinctEnds
      <4>2. pipes'[q] = pipes[q]
        BY <1>0, <2>2, <3>2
      <4>. QED
        BY <1>0, <4>1, <4>2 DEF Exact
    <3>. QED
      BY <3>1, <3>2
  <2>. QED
    BY <2>3, <2>5, <2>6 DEF Exact
<1>6. CASE ~(Cardinality(FreeFds(t)) >= 2)
  <2>1. /\ pipes' = [pipes EXCEPT ![p] = Closed(new, 1, 1)] /\ fds' = fds /\ life' = life
    BY <1>6 DEF Pipe, tasks
  <2>2. Closed(new, 1, 1) \in PipeRec /\ Balanced(Closed(new, 1, 1), 0, 0)
    <3>1. Balanced(new, 1, 1)
      BY DEF Balanced
    <3>2. Balanced(Closed(new, 1, 1), 1 - 1, 1 - 1)
      BY <1>2, <3>1, ClosedBalance
    <3>. QED
      BY <1>2, <3>2, ClosedType
  <2>. HIDE DEF p, new
  <2>3. pipes' \in [Pipes -> PipeRec]
    BY <1>0, <1>1, <2>1, <2>2
  <2>4. ASSUME NEW q \in Pipes
        PROVE  Balanced(pipes'[q], Count(life, fds, ReadEnd(q)), Count(life, fds, WriteEnd(q)))
    <3>1. CASE q = p
      BY <1>0, <1>4, <2>1, <2>2, <3>1
    <3>2. CASE q # p
      BY <1>0, <2>1, <3>2 DEF Exact
    <3>. QED
      BY <3>1, <3>2
  <2>. QED
    BY <1>0, <2>1, <2>3, <2>4 DEF Exact
<1>. QED
  BY <1>5, <1>6

-----------------------------------------------------------------------------
(***************************************************************************)
(* Beginnings and ends of tasks.                                           *)
(***************************************************************************)

\* No table but t's changes, and t's share of every pipe stays as it is.
LEMMA SameShares ==
  ASSUME FdsTypeOK, Exact(pipes, life, fds), NEW t \in Slots, pipes' = pipes,
         \A u \in Slots \ {t} : life'[u] = life[u] /\ fds'[u] = fds[u],
         \A p \in Pipes :
           /\ Share(life', fds', t, ReadEnd(p)) = Share(life, fds, t, ReadEnd(p))
           /\ Share(life', fds', t, WriteEnd(p)) = Share(life, fds, t, WriteEnd(p))
  PROVE  Exact(pipes', life', fds')
<1>1. ASSUME NEW p \in Pipes
      PROVE  /\ Count(life', fds', ReadEnd(p)) = Count(life, fds, ReadEnd(p))
             /\ Count(life', fds', WriteEnd(p)) = Count(life, fds, WriteEnd(p))
  BY CountStep, CountSplit
<1>. QED
  BY <1>1 DEF Exact

LEMMA NoShare ==
  ASSUME NEW lf, NEW d, NEW t \in Slots, NEW p \in Pipes,
         lf[t] # "live" \/ d[t] = [f \in FDs |-> None]
  PROVE  Share(lf, d, t, ReadEnd(p)) = 0 /\ Share(lf, d, t, WriteEnd(p)) = 0
<1>1. CASE lf[t] # "live"
  BY <1>1 DEF Share
<1>2. CASE d[t] = [f \in FDs |-> None]
  BY <1>2, EmptyRow DEF Share
<1>. QED
  BY <1>1, <1>2

LEMMA LifeExact ==
  ASSUME CountsInv, ClosedOnExit, NEW t \in Slots,
         StartMain(t) \/ ExitMain(t) \/ Reap(t) \/ Kill(t)
  PROVE  Exact(pipes', life', fds')
<1>1. /\ pipes' = pipes /\ fds' = fds
      /\ \A u \in Slots \ {t} : life'[u] = life[u]
      /\ life[t] # "live" \/ fds[t] = [f \in FDs |-> None]
      /\ life'[t] # "live" \/ fds'[t] = [f \in FDs |-> None]
  <2>1. CASE StartMain(t)
    <3>1. Unused \in SUBSET Nat /\ Unused # {}
      BY <2>1, SizesAssumption DEF StartMain, Unused, Slots
    <3>2. life[t] = "unused"
      BY <2>1, <3>1, MinNat DEF StartMain, Unused
    <3>. QED
      BY <2>1, <3>2 DEF StartMain, CountsInv, UnusedEmpty, FdsTypeOK, call
  <2>2. CASE ExitMain(t)
    BY <2>2 DEF ExitMain, ClosedOnExit, CountsInv, FdsTypeOK, call
  <2>3. CASE Reap(t)
    BY <2>3 DEF Reap, CountsInv, FdsTypeOK, call
  <2>4. CASE Kill(t)
    BY <2>4 DEF Kill, ClosedOnExit, CountsInv, FdsTypeOK, call
  <2>. QED
    BY <2>1, <2>2, <2>3, <2>4
<1>2. ASSUME NEW p \in Pipes
      PROVE  /\ Share(life', fds', t, ReadEnd(p)) = Share(life, fds, t, ReadEnd(p))
             /\ Share(life', fds', t, WriteEnd(p)) = Share(life, fds, t, WriteEnd(p))
  BY <1>1, NoShare
<1>. QED
  BY <1>1, <1>2, SameShares DEF CountsInv

LEMMA RefsAreRowRefs ==
  ASSUME NEW t, NEW end
  PROVE  /\ Refs(t, end) = RowRefs(fds[t], end)
         /\ Cardinality(Refs(t, end)) \in Nat
<1>1. Refs(t, end) = RowRefs(fds[t], end)
  BY DEF Refs, RowRefs
<1>. QED
  BY <1>1, RowRefsFinite

LEMMA ExitChildExact ==
  ASSUME CountsInv, NEW t \in Slots, ExitChild(t)
  PROVE  pipes' \in [Pipes -> PipeRec] /\ Exact(pipes', life', fds')
<1>0. FdsTypeOK /\ Exact(pipes, life, fds)
  BY DEF CountsInv
<1>1. /\ life[t] = "live" /\ life'[t] = "zombie"
      /\ \A u \in Slots \ {t} : life'[u] = life[u] /\ fds'[u] = fds[u]
  BY <1>0 DEF ExitChild, User, FdsTypeOK
<1>2. ASSUME NEW p \in Pipes
      PROVE  /\ pipes'[p] \in PipeRec
             /\ Balanced(pipes'[p], Count(life', fds', ReadEnd(p)), Count(life', fds', WriteEnd(p)))
  <2>. DEFINE a == Cardinality(Refs(t, ReadEnd(p)))
              b == Cardinality(Refs(t, WriteEnd(p)))
              r == Count(life, fds, ReadEnd(p))
              w == Count(life, fds, WriteEnd(p))
  <2>1. /\ Share(life, fds, t, ReadEnd(p)) = a /\ Share(life, fds, t, WriteEnd(p)) = b
        /\ a \in Nat /\ b \in Nat
    BY <1>1, RefsAreRowRefs DEF Share
  <2>2. Share(life', fds', t, ReadEnd(p)) = 0 /\ Share(life', fds', t, WriteEnd(p)) = 0
    BY <1>1 DEF Share
  <2>3. r \in Nat /\ w \in Nat /\ pipes[p] \in PipeRec /\ Balanced(pipes[p], r, w)
    BY <1>0, CountSplit, Types DEF Exact
  <2>4. /\ Count(life', fds', ReadEnd(p)) = r - a /\ a <= r
        /\ Count(life', fds', WriteEnd(p)) = w - b /\ b <= w
    <3>1. /\ Count(life', fds', ReadEnd(p)) = r - a + 0 /\ a <= r
          /\ Count(life', fds', WriteEnd(p)) = w - b + 0 /\ b <= w
      BY <1>1, <2>1, <2>2, CountStep
    <3>. QED
      BY <2>1, <2>3, <3>1
  <2>5. pipes'[p] = Closed(pipes[p], a, b)
    BY DEF ExitChild
  <2>. HIDE DEF a, b, r, w
  <2>. QED
    BY <2>1, <2>3, <2>4, <2>5, ClosedBalance, ClosedType
<1>3. pipes' \in [Pipes -> PipeRec]
  BY <1>2 DEF ExitChild
<1>. QED
  BY <1>2, <1>3 DEF Exact

\* sched_fork's slot is a dead task's or one never used, so not the parent's.
LEMMA ForkChild ==
  ASSUME FdsTypeOK, NEW t \in Slots, Fork(t)
  PROVE  \E c \in Slots \ {t} :
           /\ life[c] \in {"dead", "unused"}
           /\ life' = [life EXCEPT ![c] = "live"]
           /\ forked' = [forked EXCEPT ![c] = TRUE]
           /\ fds' = [fds EXCEPT ![c] = fds[t]]
           /\ pc' = [pc EXCEPT ![c] = "user"]
           /\ UNCHANGED <<on, wanted>>
<1>. DEFINE S == IF Recyclable # {} THEN Recyclable ELSE Unused
            c == Min(S)
<1>1. S \in SUBSET Nat /\ S # {}
  BY SizesAssumption DEF Fork, Recyclable, Unused, Slots
<1>2. c \in S
  BY <1>1, MinNat
<1>3. c \in Slots /\ life[c] \in {"dead", "unused"}
  BY <1>2 DEF Recyclable, Unused
<1>4. life[t] = "live"
  BY DEF Fork, User
<1>5. /\ life' = [life EXCEPT ![c] = "live"]
      /\ forked' = [forked EXCEPT ![c] = TRUE]
      /\ fds' = [fds EXCEPT ![c] = fds[t]]
      /\ pc' = [pc EXCEPT ![c] = "user"]
      /\ UNCHANGED <<on, wanted>>
  BY DEF Fork
<1>. HIDE DEF c
<1>. QED
  BY <1>3, <1>4, <1>5

LEMMA ForkExact ==
  ASSUME CountsInv, NEW t \in Slots, Fork(t)
  PROVE  pipes' \in [Pipes -> PipeRec] /\ Exact(pipes', life', fds')
<1>0. FdsTypeOK /\ Exact(pipes, life, fds)
  BY DEF CountsInv
<1>1. PICK c \in Slots \ {t} : /\ life[c] \in {"dead", "unused"}
                               /\ life' = [life EXCEPT ![c] = "live"]
                               /\ fds' = [fds EXCEPT ![c] = fds[t]]
  BY <1>0, ForkChild
<1>2. /\ life[t] = "live" /\ life[c] # "live" /\ life'[c] = "live" /\ fds'[c] = fds[t]
      /\ \A u \in Slots \ {c} : life'[u] = life[u] /\ fds'[u] = fds[u]
      /\ pipes' = Inherited(t)
  BY <1>0, <1>1 DEF Fork, User, FdsTypeOK
<1>3. ASSUME NEW p \in Pipes
      PROVE  /\ pipes'[p] \in PipeRec
             /\ Balanced(pipes'[p], Count(life', fds', ReadEnd(p)), Count(life', fds', WriteEnd(p)))
  <2>. DEFINE a == Cardinality(Refs(t, ReadEnd(p)))
              b == Cardinality(Refs(t, WriteEnd(p)))
              r == Count(life, fds, ReadEnd(p))
              w == Count(life, fds, WriteEnd(p))
  <2>1. /\ Share(life, fds, t, ReadEnd(p)) = a /\ Share(life, fds, t, WriteEnd(p)) = b
        /\ Share(life', fds', c, ReadEnd(p)) = a /\ Share(life', fds', c, WriteEnd(p)) = b
        /\ Share(life, fds, c, ReadEnd(p)) = 0 /\ Share(life, fds, c, WriteEnd(p)) = 0
        /\ a \in Nat /\ b \in Nat
    BY <1>2, RefsAreRowRefs DEF Share
  <2>2. r \in Nat /\ w \in Nat /\ pipes[p] \in PipeRec /\ Balanced(pipes[p], r, w)
    BY <1>0, CountSplit, Types DEF Exact
  <2>3. a <= r /\ b <= w
    BY <2>1, CountSplit
  <2>4. /\ Count(life', fds', ReadEnd(p)) = r - 0 + a
        /\ Count(life', fds', WriteEnd(p)) = w - 0 + b
    BY <1>2, <2>1, CountStep
  <2>5. pipes'[p] = [pipes[p] EXCEPT !.read_open = @ + a, !.write_open = @ + b]
    BY <1>2, Zenon DEF Inherited
  <2>. HIDE DEF a, b, r, w
  <2>6. /\ pipes'[p] \in PipeRec /\ pipes'[p].used = pipes[p].used
        /\ pipes'[p].read_open = pipes[p].read_open + a
        /\ pipes'[p].write_open = pipes[p].write_open + b
    <3>. DEFINE q1 == [pipes[p] EXCEPT !.read_open = @ + a]
    <3>1. /\ q1 \in PipeRec /\ q1.used = pipes[p].used
          /\ q1.read_open = pipes[p].read_open + a /\ q1.write_open = pipes[p].write_open
      BY <2>1, <2>2 DEF PipeRec
    <3>2. pipes'[p] = [q1 EXCEPT !.write_open = q1.write_open + b]
      BY <2>5, <3>1
    <3>. HIDE DEF q1
    <3>. QED
      BY <2>1, <3>1, <3>2 DEF PipeRec
  <2>7. Balanced(pipes'[p], r + a, w + b)
    BY <2>1, <2>2, <2>3, <2>6, RefBalance
  <2>8. r - 0 + a = r + a /\ w - 0 + b = w + b
    BY <2>1, <2>2
  <2>. QED
    BY <2>4, <2>6, <2>7, <2>8
<1>4. pipes' \in [Pipes -> PipeRec]
  BY <1>2, <1>3 DEF Inherited
<1>. QED
  BY <1>3, <1>4 DEF Exact

-----------------------------------------------------------------------------
(***************************************************************************)
(* The calls that wait change how much a pipe holds, and nothing else of   *)
(* it.                                                                     *)
(***************************************************************************)

LEMMA LevelExact ==
  ASSUME CountsInv, life' = life, fds' = fds, NEW q \in Pipes, NEW l \in 0 .. Capacity,
         pipes' = [pipes EXCEPT ![q].level = l]
  PROVE  pipes' \in [Pipes -> PipeRec] /\ Exact(pipes', life', fds')
<1>1. pipes \in [Pipes -> PipeRec]
  BY DEF CountsInv, FdsTypeOK, PipeRec
<1>2. /\ pipes' \in [Pipes -> PipeRec]
      /\ \A p \in Pipes : /\ pipes'[p].used = pipes[p].used
                          /\ pipes'[p].read_open = pipes[p].read_open
                          /\ pipes'[p].write_open = pipes[p].write_open
  BY <1>1 DEF PipeRec
<1>. QED
  BY <1>2 DEF CountsInv, Exact, Balanced

LEMMA OnType ==
  ASSUME FdsTypeOK, NEW t \in Slots
  PROVE  on[t] \in Pipes /\ wanted[t] \in Nat /\ pipes[on[t]].level \in 0 .. Capacity
  BY DEF FdsTypeOK

LEMMA MovingExact ==
  ASSUME CountsInv, NEW t \in Slots, Moving(t)
  PROVE  /\ pipes' \in [Pipes -> PipeRec] /\ Exact(pipes', life', fds')
         /\ UNCHANGED <<life, forked, fds>>
         /\ pc' \in [Slots -> {"user", "polling", "reading", "stdin", "draining", "writing"}]
         /\ on' \in [Slots -> Pipes] /\ wanted' \in [Slots -> Nat]
<1>0. FdsTypeOK /\ 0 \in Pipes /\ pipes \in [Pipes -> PipeRec]
  <2>1. 0 \in Pipes
    BY SizesAssumption DEF Pipes
  <2>. QED
    BY <2>1 DEF CountsInv, FdsTypeOK, PipeRec
<1>. DEFINE l == pipes[on[t]].level
<1>1. /\ on[t] \in Pipes /\ wanted[t] \in Nat /\ l \in 0 .. Capacity
      /\ Capacity \in Nat /\ l \in Nat /\ Capacity - l \in Nat
  BY <1>0, OnType, SizesAssumption
<1>2. Return(t) => /\ pc' \in [Slots -> {"user", "polling", "reading", "stdin", "draining", "writing"}]
                   /\ on' \in [Slots -> Pipes] /\ wanted' \in [Slots -> Nat]
  BY <1>0 DEF Return, FdsTypeOK
<1>3. CASE PollDone(t)
  <2>1. UNCHANGED <<life, forked, fds, pipes, on, wanted>>
    BY <1>3 DEF PollDone, tasks
  <2>2. pc' \in [Slots -> {"user", "polling", "reading", "stdin", "draining", "writing"}]
    BY <1>0, <1>3 DEF PollDone, FdsTypeOK
  <2>. QED
    BY <1>0, <2>1, <2>2 DEF CountsInv, FdsTypeOK, Exact
<1>4. CASE ReadSome(t)
  <2>. DEFINE n == Min({l, wanted[t]})
  <2>1. n \in Nat /\ n <= l /\ n <= wanted[t]
    BY <1>1, MinPair
  <2>2. /\ UNCHANGED <<life, forked, fds>>
        /\ pipes' = [pipes EXCEPT ![on[t]].level = l - n]
        /\ IF n = 0 \/ n = wanted[t]
           THEN Return(t)
           ELSE /\ wanted' = [wanted EXCEPT ![t] = @ - n]
                /\ pc' = [pc EXCEPT ![t] = "polling"]
                /\ UNCHANGED on
    BY <1>4, Zenon DEF ReadSome, tasks
  <2>. HIDE DEF n, l
  <2>3. l - n \in 0 .. Capacity /\ wanted[t] - n \in Nat
    BY <1>1, <2>1
  <2>4. pipes' \in [Pipes -> PipeRec] /\ Exact(pipes', life', fds')
    BY <1>1, <2>2, <2>3, LevelExact
  <2>5. /\ pc' \in [Slots -> {"user", "polling", "reading", "stdin", "draining", "writing"}]
        /\ on' \in [Slots -> Pipes] /\ wanted' \in [Slots -> Nat]
    BY <1>0, <1>2, <2>2, <2>3 DEF FdsTypeOK
  <2>. QED
    BY <2>2, <2>4, <2>5
<1>5. CASE Drain(t)
  <2>. DEFINE n == Min({l, wanted[t]})
  <2>1. n \in Nat /\ n <= l
    BY <1>1, MinPair
  <2>2. /\ UNCHANGED <<life, forked, fds>> /\ Return(t)
        /\ pipes' = [pipes EXCEPT ![on[t]].level = l - n]
    BY <1>5, Zenon DEF Drain, tasks
  <2>. HIDE DEF n, l
  <2>3. l - n \in 0 .. Capacity
    BY <1>1, <2>1
  <2>4. pipes' \in [Pipes -> PipeRec] /\ Exact(pipes', life', fds')
    BY <1>1, <2>2, <2>3, LevelExact
  <2>. QED
    BY <1>2, <2>2, <2>4
<1>6. CASE WriteSome(t)
  <2>. DEFINE n == Min({Capacity - l, wanted[t]})
  <2>1. n \in Nat /\ n <= Capacity - l /\ n <= wanted[t]
    BY <1>1, MinPair
  <2>2. /\ UNCHANGED <<life, forked, fds>>
        /\ pipes' = [pipes EXCEPT ![on[t]].level = l + n]
        /\ IF n = wanted[t]
           THEN Return(t)
           ELSE wanted' = [wanted EXCEPT ![t] = @ - n] /\ UNCHANGED <<pc, on>>
    BY <1>6, Zenon DEF WriteSome, tasks
  <2>. HIDE DEF n, l
  <2>3. l + n \in 0 .. Capacity /\ wanted[t] - n \in Nat
    BY <1>1, <2>1
  <2>4. pipes' \in [Pipes -> PipeRec] /\ Exact(pipes', life', fds')
    BY <1>1, <2>2, <2>3, LevelExact
  <2>5. /\ pc' \in [Slots -> {"user", "polling", "reading", "stdin", "draining", "writing"}]
        /\ on' \in [Slots -> Pipes] /\ wanted' \in [Slots -> Nat]
    BY <1>0, <1>2, <2>2, <2>3 DEF FdsTypeOK
  <2>. QED
    BY <2>2, <2>4, <2>5
<1>. QED
  BY <1>3, <1>4, <1>5, <1>6 DEF Moving

\* A call begins: only the call's own variables change.
LEMMA BeginTypes ==
  ASSUME FdsTypeOK, NEW t \in Slots, NEW fd \in FDs,
         NEW where \in {"polling", "stdin", "writing"}, Begin(t, fd, where)
  PROVE  FdsTypeOK' /\ UNCHANGED <<life, fds, pipes>>
<1>1. fds[t][fd].pipe \in Pipes /\ Amounts \subseteq Nat
  BY Types, AmountsAssumption
<1>2. UNCHANGED <<life, forked, fds, pipes>>
  BY DEF Begin, tasks
<1>3. wanted' \in [Slots -> Nat]
  BY <1>1 DEF Begin, FdsTypeOK
<1>4. on' \in [Slots -> Pipes]
  BY <1>1 DEF Begin, FdsTypeOK
<1>5. pc' \in [Slots -> {"user", "polling", "reading", "stdin", "draining", "writing"}]
  BY DEF Begin, FdsTypeOK
<1>. QED
  BY <1>2, <1>3, <1>4, <1>5 DEF FdsTypeOK

-----------------------------------------------------------------------------
(***************************************************************************)
(* CountsExact.                                                            *)
(***************************************************************************)

LEMMA CountsInit == FdsInit => CountsInv
<1>. SUFFICES ASSUME FdsInit PROVE CountsInv
  OBVIOUS
<1>1. \A end : Count(life, fds, end) = 0
  <2>1. \A end : Held(life, fds, end) = {}
    BY DEF FdsInit, Held
  <2>. QED
    BY <2>1, FS_EmptySet DEF Count
<1>2. Exact(pipes, life, fds)
  <2>1. ASSUME NEW p \in Pipes
        PROVE  Balanced(pipes[p], 0, 0)
    <3>1. pipes[p].used = FALSE
      BY DEF FdsInit
    <3>. QED
      BY <3>1 DEF Balanced
  <2>. QED
    BY <1>1, <2>1 DEF Exact
<1>3. UnusedEmpty
  BY DEF UnusedEmpty, FdsInit
<1>. QED
  BY <1>2, <1>3, InitTypes DEF CountsInv

LEMMA CountsStep ==
  ASSUME CountsInv, ClosedOnExit, [FdsNext]_fdsVars
  PROVE  CountsInv'
<1>0. FdsTypeOK /\ UnusedEmpty /\ Exact(pipes, life, fds) /\ pipes \in [Pipes -> PipeRec]
  BY DEF CountsInv, FdsTypeOK, PipeRec
<1>. DEFINE Ends0 == {None} \cup {ReadEnd(p) : p \in Pipes} \cup {WriteEnd(p) : p \in Pipes}
            PCs   == {"user", "polling", "reading", "stdin", "draining", "writing"}
<1>1. /\ life \in [Slots -> Lives] /\ forked \in [Slots -> BOOLEAN]
      /\ fds \in [Slots -> Tables]
      /\ pc \in [Slots -> PCs] /\ on \in [Slots -> Pipes] /\ wanted \in [Slots -> Nat]
  BY <1>0 DEF FdsTypeOK, Tables, Ends, Lives
<1>2. ASSUME /\ life' \in [Slots -> Lives] /\ forked' \in [Slots -> BOOLEAN]
             /\ fds' \in [Slots -> Tables] /\ pipes' \in [Pipes -> PipeRec]
             /\ pc' \in [Slots -> PCs] /\ on' \in [Slots -> Pipes] /\ wanted' \in [Slots -> Nat]
      PROVE  FdsTypeOK'
  BY <1>2 DEF FdsTypeOK, Tables, Ends, Lives, PipeRec
<1>3. [f \in FDs |-> None] \in Tables
  BY DEF Tables
<1>4. ASSUME NEW t \in Slots, Pipe(t)
      PROVE  CountsInv'
  <2>1. /\ pipes' \in [Pipes -> PipeRec] /\ fds' \in [Slots -> Tables]
        /\ Exact(pipes', life', fds')
    BY <1>4, PipeExact
  <2>2. UNCHANGED <<life, forked, pc, on, wanted>> /\ life[t] = "live"
    BY <1>4 DEF Pipe, User, tasks, call
  <2>3. \A u \in Slots \ {t} : fds'[u] = fds[u]
    BY <1>1, <1>4, Zenon DEF Pipe
  <2>4. UnusedEmpty'
    BY <1>0, <2>2, <2>3 DEF UnusedEmpty
  <2>. QED
    BY <1>1, <1>2, <2>1, <2>2, <2>4 DEF CountsInv
<1>5. ASSUME NEW t \in Slots, Fork(t)
      PROVE  CountsInv'
  <2>1. pipes' \in [Pipes -> PipeRec] /\ Exact(pipes', life', fds')
    BY <1>5, ForkExact
  <2>2. PICK c \in Slots \ {t} : /\ life' = [life EXCEPT ![c] = "live"]
                                 /\ forked' = [forked EXCEPT ![c] = TRUE]
                                 /\ fds' = [fds EXCEPT ![c] = fds[t]]
                                 /\ pc' = [pc EXCEPT ![c] = "user"]
                                 /\ UNCHANGED <<on, wanted>>
    BY <1>0, <1>5, ForkChild
  <2>3. /\ life' \in [Slots -> Lives] /\ forked' \in [Slots -> BOOLEAN]
        /\ fds' \in [Slots -> Tables]
        /\ pc' \in [Slots -> PCs] /\ on' \in [Slots -> Pipes] /\ wanted' \in [Slots -> Nat]
    BY <1>1, <2>2 DEF Lives
  <2>4. UnusedEmpty'
    BY <1>0, <1>1, <2>2 DEF UnusedEmpty
  <2>. QED
    BY <1>2, <2>1, <2>3, <2>4 DEF CountsInv
<1>6. ASSUME NEW t \in Slots, StartMain(t) \/ ExitMain(t) \/ Reap(t) \/ Kill(t)
      PROVE  CountsInv'
  <2>1. Exact(pipes', life', fds')
    BY <1>6, LifeExact
  <2>2. /\ UNCHANGED <<fds, pipes, pc, on, wanted>>
        /\ life' \in [Slots -> Lives] /\ forked' \in [Slots -> BOOLEAN]
        /\ \A u \in Slots : life'[u] = "unused" => life[u] = "unused"
    BY <1>1, <1>6 DEF StartMain, ExitMain, Reap, Kill, call, Lives
  <2>3. UnusedEmpty'
    BY <1>0, <2>2 DEF UnusedEmpty
  <2>. QED
    BY <1>0, <1>1, <1>2, <2>1, <2>2, <2>3 DEF CountsInv
<1>7. ASSUME NEW t \in Slots, ExitChild(t)
      PROVE  CountsInv'
  <2>1. pipes' \in [Pipes -> PipeRec] /\ Exact(pipes', life', fds')
    BY <1>7, ExitChildExact
  <2>2. /\ life' = [life EXCEPT ![t] = "zombie"] /\ UNCHANGED <<forked, pc, on, wanted>>
        /\ fds' = [fds EXCEPT ![t] = [f \in FDs |-> None]]
    BY <1>7 DEF ExitChild, call
  <2>3. life' \in [Slots -> Lives] /\ fds' \in [Slots -> Tables]
    BY <1>1, <1>3, <2>2 DEF Lives
  <2>4. UnusedEmpty'
    BY <1>0, <1>1, <2>2 DEF UnusedEmpty
  <2>. QED
    BY <1>1, <1>2, <2>1, <2>2, <2>3, <2>4 DEF CountsInv
<1>8. ASSUME NEW t \in Slots, StdinBegin(t) \/ \E fd \in FDs : ReadFdBegin(t, fd) \/ WriteBegin(t, fd)
      PROVE  CountsInv'
  <2>1. 0 \in FDs
    BY SizesAssumption DEF FDs
  <2>2. \E fd \in FDs, where \in {"polling", "stdin", "writing"} : Begin(t, fd, where)
    BY <1>8, <2>1 DEF StdinBegin, ReadFdBegin, WriteBegin
  <2>3. FdsTypeOK' /\ UNCHANGED <<life, fds, pipes>>
    BY <1>0, <2>2, BeginTypes
  <2>. QED
    BY <1>0, <2>3 DEF CountsInv, UnusedEmpty, Exact
<1>9. ASSUME NEW t \in Slots, Moving(t)
      PROVE  CountsInv'
  <2>1. /\ pipes' \in [Pipes -> PipeRec] /\ Exact(pipes', life', fds')
        /\ UNCHANGED <<life, forked, fds>>
        /\ pc' \in [Slots -> PCs] /\ on' \in [Slots -> Pipes] /\ wanted' \in [Slots -> Nat]
    BY <1>9, MovingExact
  <2>. QED
    BY <1>0, <1>1, <1>2, <2>1 DEF CountsInv, UnusedEmpty
<1>10. ASSUME NEW t \in Slots, NEW fd \in FDs, Close(t, fd) \/ \E old \in FDs : Dup2(t, old, fd)
       PROVE  CountsInv'
  <2>1. pipes' \in [Pipes -> PipeRec] /\ Exact(pipes', life', fds')
    BY <1>10, CloseExact, Dup2Exact
  <2>2. \E n \in {None} \cup Ends : fds' = [fds EXCEPT ![t][fd] = n]
    <3>1. CASE Close(t, fd)
      BY <3>1 DEF Close
    <3>2. CASE \E old \in FDs : Dup2(t, old, fd)
      <4>1. PICK old \in FDs : Dup2(t, old, fd)
        BY <3>2
      <4>2. fds[t][old] \in {None} \cup Ends
        BY <1>1 DEF Tables
      <4>. QED
        BY <4>1, <4>2 DEF Dup2
    <3>. QED
      BY <1>10, <3>1, <3>2
  <2>3. UNCHANGED <<life, forked, pc, on, wanted>> /\ life[t] = "live"
    BY <1>10 DEF Close, Dup2, User, tasks, call
  <2>4. fds' \in [Slots -> Tables] /\ \A u \in Slots \ {t} : fds'[u] = fds[u]
    BY <1>1, <2>2 DEF Tables
  <2>5. UnusedEmpty'
    BY <1>0, <2>3, <2>4 DEF UnusedEmpty
  <2>. QED
    BY <1>1, <1>2, <2>1, <2>3, <2>4, <2>5 DEF CountsInv
<1>11. CASE UNCHANGED fdsVars
  BY <1>0, <1>11 DEF CountsInv, FdsTypeOK, UnusedEmpty, Exact, fdsVars, tasks, call
<1>. QED
  BY <1>4, <1>5, <1>6, <1>7, <1>8, <1>9, <1>10, <1>11 DEF FdsNext

\* read_open and write_open count exactly the descriptors of live tasks,
\* through every order of SYS_PIPE, SYS_DUP2, SYS_CLOSE, fork, exit and waitpid
\* and the reads and writes between them, as long as no program dies with pipe
\* ends open and none calls dup2(fd, fd).
THEOREM CountsAreExact ==
  ASSUME ClosedOnExit
  PROVE  FdsSpec => []CountsExact
<1>1. FdsInit => CountsInv
  BY CountsInit
<1>2. CountsInv /\ [FdsNext]_fdsVars => CountsInv'
  BY CountsStep
<1>3. CountsInv => CountsExact
  BY CountsExactMeans DEF CountsInv
<1>. QED
  BY <1>1, <1>2, <1>3, PTL DEF FdsSpec

-----------------------------------------------------------------------------
(***************************************************************************)
(* EofSound.  A task that waits for or takes bytes keeps the read end it   *)
(* reads from, so its pipe is not handed out again; it is the only one     *)
(* that takes bytes from it; and once no task can write to the pipe, none  *)
(* can later.                                                              *)
(***************************************************************************)
NoWriter(lf, d, q) == \A u \in Slots, f \in FDs : lf[u] = "live" => d[u][f] # WriteEnd(q)

CallInv == \A t \in Slots : pc[t] \in Waiting =>
             life[t] = "live" /\ \E f \in FDs : fds[t][f] = ReadEnd(on[t])
AloneInv == \A t, u \in Slots : t # u /\ pc[t] \in Waiting /\ pc[u] \in Waiting => on[t] # on[u]
DoneInv == \A t \in Slots : pc[t] \in {"reading", "draining"} =>
             pipes[on[t]].level > 0 \/ NoWriter(life, fds, on[t])

ReadInv == CountsInv /\ CallInv /\ AloneInv /\ DoneInv

LEMMA NoWriterMeans ==
  ASSUME NEW q \in Pipes
  PROVE  /\ NoWriter(life, fds, q) <=> Holders(WriteEnd(q)) = {}
         /\ Count(life, fds, WriteEnd(q)) = 0 => NoWriter(life, fds, q)
<1>1. Holders(WriteEnd(q)) = Held(life, fds, WriteEnd(q))
  BY DEF Holders, Held
<1>2. NoWriter(life, fds, q) <=> Held(life, fds, WriteEnd(q)) = {}
  <2>1. ASSUME NEW u \in Slots, NEW f \in FDs
        PROVE  <<u, f>> \in Held(life, fds, WriteEnd(q)) <=>
                 life[u] = "live" /\ fds[u][f] = WriteEnd(q)
    BY DEF Held
  <2>2. ASSUME NoWriter(life, fds, q), NEW h \in Held(life, fds, WriteEnd(q))
        PROVE  FALSE
    <3>1. h[1] \in Slots /\ h[2] \in FDs /\ life[h[1]] = "live" /\ fds[h[1]][h[2]] = WriteEnd(q)
      BY DEF Held
    <3>. QED
      BY <2>2, <3>1 DEF NoWriter
  <2>3. ASSUME Held(life, fds, WriteEnd(q)) = {}
        PROVE  NoWriter(life, fds, q)
    BY <2>1, <2>3 DEF NoWriter
  <2>. QED
    BY <2>2, <2>3
<1>3. IsFiniteSet(Held(life, fds, WriteEnd(q)))
  <2>1. Held(life, fds, WriteEnd(q)) \in SUBSET (Slots \X FDs)
    BY DEF Held
  <2>. QED
    BY <2>1, SlotsFinite, FS_Subset
<1>. QED
  BY <1>1, <1>2, <1>3, FS_EmptySet DEF Count

\* A pipe somebody refers to is in use, and its counts are exact.
LEMMA ReadUsed ==
  ASSUME CountsInv, NEW t \in Slots, life[t] = "live", NEW f \in FDs, NEW q \in Pipes,
         fds[t][f] = ReadEnd(q)
  PROVE  pipes[q].used /\ pipes[q].write_open = Count(life, fds, WriteEnd(q))
<1>1. Count(life, fds, ReadEnd(q)) \in Nat \ {0}
  BY CountPositive DEF CountsInv
<1>2. Count(life, fds, WriteEnd(q)) \in Nat
  BY CountSplit
<1>. QED
  BY <1>1, <1>2 DEF CountsInv, Exact, Balanced

LEMMA CallStep ==
  ASSUME CountsInv, CallInv, ClosedOnExit, [FdsNext]_fdsVars
  PROVE  CallInv'
<1>. SUFFICES ASSUME NEW t \in Slots, pc'[t] \in Waiting
              PROVE  life'[t] = "live" /\ \E f \in FDs : fds'[t][f] = ReadEnd(on'[t])
  BY DEF CallInv
<1>0. FdsTypeOK
  BY DEF CountsInv
<1>1. ASSUME NEW u \in Slots, \/ Pipe(u) \/ Fork(u) \/ StartMain(u) \/ ExitChild(u)
                              \/ ExitMain(u) \/ Reap(u) \/ Kill(u)
                              \/ \E fd \in FDs : Close(u, fd) \/ \E old \in FDs : Dup2(u, old, fd)
      PROVE  /\ pc[t] = pc'[t] /\ on'[t] = on[t] /\ life'[t] = life[t] /\ fds'[t] = fds[t]
  <2>1. CASE Fork(u)
    <3>1. PICK c \in Slots \ {u} : /\ life' = [life EXCEPT ![c] = "live"]
                                   /\ fds' = [fds EXCEPT ![c] = fds[u]]
                                   /\ pc' = [pc EXCEPT ![c] = "user"]
                                   /\ UNCHANGED <<on, wanted>>
      BY <1>0, <2>1, ForkChild
    <3>2. t # c
      BY <1>0, <3>1 DEF FdsTypeOK, Waiting
    <3>. QED
      BY <1>0, <3>1, <3>2 DEF FdsTypeOK
  <2>2. CASE StartMain(u)
    <3>1. Unused \in SUBSET Nat /\ Unused # {}
      BY <2>2, SizesAssumption DEF StartMain, Unused, Slots
    <3>2. life[u] = "unused"
      BY <2>2, <3>1, MinNat DEF StartMain, Unused
    <3>. QED
      BY <1>0, <2>2, <3>2 DEF StartMain, CallInv, call, FdsTypeOK
  <2>3. CASE Reap(u)
    BY <1>0, <2>3 DEF Reap, CallInv, call, FdsTypeOK
  <2>4. CASE Kill(u)
    <3>1. pc'[t] = pc[t] /\ on'[t] = on[t] /\ fds' = fds /\ life' = [life EXCEPT ![u] = "dead"]
      BY <2>4 DEF Kill, call
    <3>2. \E f \in FDs : fds[t][f] = ReadEnd(on[t])
      BY <3>1 DEF CallInv
    <3>3. t # u
      BY <2>4, <3>2, DistinctEnds DEF Kill, ClosedOnExit
    <3>. QED
      BY <1>0, <3>1, <3>3 DEF FdsTypeOK
  <2>5. CASE Pipe(u) \/ \E fd \in FDs : Close(u, fd) \/ \E old \in FDs : Dup2(u, old, fd)
    <3>1. UNCHANGED <<life, pc, on>> /\ pc[u] = "user"
      BY <2>5 DEF Pipe, Close, Dup2, User, tasks, call
    <3>2. \A v \in Slots \ {u} : fds'[v] = fds[v]
      BY <1>0, <2>5, Zenon DEF Pipe, Close, Dup2, FdsTypeOK
    <3>. QED
      BY <3>1, <3>2 DEF Waiting
  <2>6. CASE ExitChild(u) \/ ExitMain(u)
    BY <1>0, <2>6 DEF ExitChild, ExitMain, User, call, Waiting, FdsTypeOK
  <2>. QED
    BY <1>1, <2>1, <2>2, <2>3, <2>4, <2>5, <2>6
<1>2. ASSUME NEW u \in Slots, StdinBegin(u) \/ \E fd \in FDs : ReadFdBegin(u, fd) \/ WriteBegin(u, fd)
      PROVE  life'[t] = "live" /\ \E f \in FDs : fds'[t][f] = ReadEnd(on'[t])
  <2>1. 0 \in FDs
    BY SizesAssumption DEF FDs
  <2>2. PICK fd \in FDs, where \in {"polling", "stdin", "writing"} :
          Begin(u, fd, where) /\ (where # "writing" => fds[u][fd].type = "read")
    BY <1>2, <2>1 DEF StdinBegin, ReadFdBegin, WriteBegin
  <2>3. UNCHANGED <<life, fds>> /\ life[u] = "live"
    BY <2>2 DEF Begin, User, tasks
  <2>4. CASE t = u
    <3>1. pc'[t] = where /\ on'[t] = fds[u][fd].pipe
      BY <1>0, <2>2, <2>4 DEF Begin, FdsTypeOK
    <3>2. fds[u][fd].type = "read"
      BY <2>2, <3>1 DEF Waiting
    <3>3. fds[u][fd] = ReadEnd(fds[u][fd].pipe)
      BY <1>0, <3>2, Types, DistinctEnds
    <3>. QED
      BY <2>3, <2>4, <3>1, <3>3
  <2>5. CASE t # u
    BY <1>0, <2>2, <2>3, <2>5 DEF Begin, FdsTypeOK, CallInv
  <2>. QED
    BY <2>4, <2>5
<1>3. ASSUME NEW u \in Slots, Moving(u)
      PROVE  life'[t] = "live" /\ \E f \in FDs : fds'[t][f] = ReadEnd(on'[t])
  <2>1. UNCHANGED <<life, fds>>
    BY <1>3 DEF Moving, PollDone, ReadSome, Drain, WriteSome, tasks
  <2>2. pc[t] \in Waiting /\ on'[t] = on[t]
    <3>1. CASE t = u
      BY <1>0, <1>3, <3>1 DEF Moving, PollDone, ReadSome, Drain, WriteSome, Return, Waiting, FdsTypeOK
    <3>2. CASE t # u
      BY <1>0, <1>3, <3>2 DEF Moving, PollDone, ReadSome, Drain, WriteSome, Return, FdsTypeOK
    <3>. QED
      BY <3>1, <3>2
  <2>. QED
    BY <2>1, <2>2 DEF CallInv
<1>4. CASE UNCHANGED fdsVars
  BY <1>4 DEF fdsVars, tasks, call, CallInv
<1>. QED
  BY <1>1, <1>2, <1>3, <1>4 DEF FdsNext, CallInv

LEMMA AloneStep ==
  ASSUME CountsInv, CallInv, AloneInv, OneReader, [FdsNext]_fdsVars
  PROVE  AloneInv'
<1>0. FdsTypeOK
  BY DEF CountsInv
<1>1. ASSUME UNCHANGED on, \A t \in Slots : pc'[t] \in Waiting => pc[t] \in Waiting
      PROVE  AloneInv'
  BY <1>1 DEF AloneInv
<1>2. ASSUME NEW u \in Slots, \/ Pipe(u) \/ StartMain(u) \/ ExitChild(u)
                              \/ ExitMain(u) \/ Reap(u) \/ Kill(u)
                              \/ \E fd \in FDs : Close(u, fd) \/ \E old \in FDs : Dup2(u, old, fd)
      PROVE  AloneInv'
  <2>1. UNCHANGED <<pc, on>>
    BY <1>2 DEF Pipe, StartMain, ExitChild, ExitMain, Reap, Kill, Close, Dup2, call
  <2>. QED
    BY <1>1, <2>1
<1>3. ASSUME NEW u \in Slots, Fork(u)
      PROVE  AloneInv'
  <2>1. PICK c \in Slots : pc' = [pc EXCEPT ![c] = "user"] /\ on' = on
    BY <1>0, <1>3, ForkChild
  <2>2. \A t \in Slots : pc'[t] \in Waiting => pc[t] \in Waiting
    BY <1>0, <2>1 DEF FdsTypeOK, Waiting
  <2>. QED
    BY <1>1, <2>1, <2>2
<1>4. ASSUME NEW u \in Slots, StdinBegin(u) \/ \E fd \in FDs : ReadFdBegin(u, fd) \/ WriteBegin(u, fd)
      PROVE  AloneInv'
  <2>1. 0 \in FDs
    BY SizesAssumption DEF FDs
  <2>2. PICK fd \in FDs, where \in {"polling", "stdin", "writing"} :
          Begin(u, fd, where) /\ (where # "writing" => Alone(u, fds[u][fd].pipe, Waiting))
    BY <1>4, <2>1 DEF StdinBegin, ReadFdBegin, WriteBegin, OneReader, Waiting
  <2>3. /\ on' = [on EXCEPT ![u] = fds[u][fd].pipe]
        /\ pc' = [pc EXCEPT ![u] = where]
    BY <2>2 DEF Begin
  <2>4. /\ pc'[u] = where /\ on'[u] = fds[u][fd].pipe
        /\ \A t \in Slots \ {u} : pc'[t] = pc[t] /\ on'[t] = on[t]
    BY <1>0, <2>3 DEF FdsTypeOK
  <2>5. ASSUME NEW t \in Slots \ {u}, pc'[t] \in Waiting, pc'[u] \in Waiting
        PROVE  on'[t] # on'[u]
    <3>1. where # "writing"
      BY <2>4, <2>5 DEF Waiting
    <3>2. life[t] = "live" /\ pc[t] \in Waiting
      BY <2>4, <2>5 DEF CallInv
    <3>. QED
      BY <2>2, <2>4, <3>1, <3>2 DEF Alone
  <2>. QED
    BY <2>4, <2>5 DEF AloneInv
<1>5. ASSUME NEW u \in Slots, Moving(u)
      PROVE  AloneInv'
  <2>1. \A t \in Slots : pc'[t] \in Waiting => pc[t] \in Waiting /\ on'[t] = on[t]
    <3>. TAKE t \in Slots
    <3>1. CASE t = u
      BY <1>0, <1>5, <3>1 DEF Moving, PollDone, ReadSome, Drain, WriteSome, Return, Waiting, FdsTypeOK
    <3>2. CASE t # u
      BY <1>0, <1>5, <3>2 DEF Moving, PollDone, ReadSome, Drain, WriteSome, Return, FdsTypeOK
    <3>. QED
      BY <3>1, <3>2
  <2>. QED
    BY <2>1 DEF AloneInv
<1>6. CASE UNCHANGED fdsVars
  BY <1>1, <1>6 DEF fdsVars, call
<1>. QED
  BY <1>2, <1>3, <1>4, <1>5, <1>6 DEF FdsNext

\* Nobody comes to hold a write end of a pipe in use that nobody holds one of.
LEMMA NoNewWriter ==
  ASSUME CountsInv, [FdsNext]_fdsVars, NEW q \in Pipes, pipes[q].used, NoWriter(life, fds, q)
  PROVE  NoWriter(life', fds', q)
<1>0. FdsTypeOK /\ UnusedEmpty
  BY DEF CountsInv
<1>1. ASSUME UNCHANGED <<life, fds>>
      PROVE  NoWriter(life', fds', q)
  BY <1>1 DEF NoWriter
<1>2. ASSUME NEW t \in Slots, Pipe(t)
      PROVE  NoWriter(life', fds', q)
  <2>. DEFINE p == Min(FreePipes)
              r == Min(FreeFds(t))
              w == Min(FreeFds(t) \ {r})
  <2>1. FreePipes \in SUBSET Nat /\ FreePipes # {}
    BY <1>2, SizesAssumption DEF Pipe, FreePipes, Pipes
  <2>2. p # q
    BY <2>1, MinNat DEF FreePipes
  <2>3. /\ life' = life
        /\ \/ fds' = fds
           \/ fds' = [fds EXCEPT ![t] = [@ EXCEPT ![r] = ReadEnd(p), ![w] = WriteEnd(p)]]
    BY <1>2, Zenon DEF Pipe, tasks
  <2>. HIDE DEF p, r, w
  <2>4. \A u \in Slots, f \in FDs : fds'[u][f] \in {fds[u][f], ReadEnd(p), WriteEnd(p)}
    <3>. TAKE u \in Slots, f \in FDs
    <3>1. fds[t] \in Tables /\ fds[u] \in Tables
      BY <1>0, Types
    <3>2. CASE u = t
      BY <1>0, <2>3, <3>1, <3>2 DEF FdsTypeOK, Tables
    <3>3. CASE u # t
      BY <1>0, <2>3, <3>3 DEF FdsTypeOK
    <3>. QED
      BY <3>2, <3>3
  <2>. QED
    BY <2>2, <2>3, <2>4, DistinctEnds DEF NoWriter
<1>3. ASSUME NEW t \in Slots, Fork(t)
      PROVE  NoWriter(life', fds', q)
  <2>1. PICK c \in Slots \ {t} : /\ life' = [life EXCEPT ![c] = "live"]
                                 /\ fds' = [fds EXCEPT ![c] = fds[t]]
    BY <1>0, <1>3, ForkChild
  <2>2. life[t] = "live"
    BY <1>3 DEF Fork, User
  <2>3. \A u \in Slots : \/ life'[u] = life[u] /\ fds'[u] = fds[u]
                         \/ fds'[u] = fds[t]
    BY <1>0, <2>1 DEF FdsTypeOK
  <2>. QED
    BY <2>2, <2>3 DEF NoWriter
<1>4. ASSUME NEW t \in Slots, StartMain(t)
      PROVE  NoWriter(life', fds', q)
  <2>1. Unused \in SUBSET Nat /\ Unused # {}
    BY <1>4, SizesAssumption DEF StartMain, Unused, Slots
  <2>2. life[t] = "unused"
    BY <1>4, <2>1, MinNat DEF StartMain, Unused
  <2>3. fds' = fds /\ life' = [life EXCEPT ![t] = "live"] /\ fds[t] = [f \in FDs |-> None]
    BY <1>0, <1>4, <2>2 DEF StartMain, UnusedEmpty
  <2>4. \A u \in Slots : \/ life'[u] = life[u] /\ fds'[u] = fds[u]
                         \/ fds'[u] = [f \in FDs |-> None]
    BY <1>0, <2>3 DEF FdsTypeOK
  <2>. QED
    BY <2>4, DistinctEnds DEF NoWriter
<1>5. ASSUME NEW t \in Slots, ExitChild(t) \/ ExitMain(t) \/ Reap(t) \/ Kill(t)
      PROVE  NoWriter(life', fds', q)
  <2>1. \A u \in Slots : \/ life'[u] = life[u] /\ fds'[u] = fds[u]
                         \/ life'[u] # "live"
    BY <1>0, <1>5 DEF ExitChild, ExitMain, Reap, Kill, FdsTypeOK
  <2>. QED
    BY <2>1 DEF NoWriter
<1>6. ASSUME NEW t \in Slots, NEW fd \in FDs, Close(t, fd) \/ \E old \in FDs : Dup2(t, old, fd)
      PROVE  NoWriter(life', fds', q)
  <2>1. fds[t] \in Tables
    BY <1>0, Types
  <2>2. life' = life /\ life[t] = "live" /\ \A u \in Slots \ {t} : fds'[u] = fds[u]
    BY <1>0, <1>6 DEF Close, Dup2, User, tasks, FdsTypeOK
  <2>3. PICK n : fds' = [fds EXCEPT ![t][fd] = n] /\ (n = None \/ \E old \in FDs : n = fds[t][old])
    BY <1>6 DEF Close, Dup2
  <2>4. \A f \in FDs : fds'[t][f] \in {fds[t][f], n}
    BY <1>0, <2>1, <2>3 DEF FdsTypeOK, Tables
  <2>5. n # WriteEnd(q)
    BY <2>2, <2>3, DistinctEnds DEF NoWriter
  <2>. QED
    BY <2>2, <2>4, <2>5 DEF NoWriter
<1>7. ASSUME NEW t \in Slots, \/ StdinBegin(t) \/ Moving(t)
                              \/ \E fd \in FDs : ReadFdBegin(t, fd) \/ WriteBegin(t, fd)
      PROVE  NoWriter(life', fds', q)
  <2>1. UNCHANGED <<life, fds>>
    BY <1>7 DEF StdinBegin, ReadFdBegin, WriteBegin, Begin, Moving, PollDone, ReadSome,
                Drain, WriteSome, tasks
  <2>. QED
    BY <1>1, <2>1
<1>8. CASE UNCHANGED fdsVars
  BY <1>1, <1>8 DEF fdsVars, tasks
<1>. QED
  BY <1>2, <1>3, <1>4, <1>5, <1>6, <1>7, <1>8 DEF FdsNext

\* Only the calls that move bytes change how much a pipe in use holds.
LEMMA LevelKept ==
  ASSUME CountsInv, FdsNext, \A t \in Slots : ~Moving(t), NEW q \in Pipes, pipes[q].used
  PROVE  pipes'[q].level = pipes[q].level
<1>0. FdsTypeOK /\ pipes \in [Pipes -> PipeRec] /\ pipes[q] \in PipeRec
  BY DEF CountsInv, FdsTypeOK, PipeRec
<1>1. ASSUME NEW t \in Slots, Pipe(t)
      PROVE  pipes'[q].level = pipes[q].level
  <2>. DEFINE p == Min(FreePipes)
              new == [read_open |-> 1, write_open |-> 1, used |-> TRUE, level |-> 0]
  <2>1. FreePipes \in SUBSET Nat /\ FreePipes # {}
    BY <1>1, SizesAssumption DEF Pipe, FreePipes, Pipes
  <2>2. p # q
    BY <2>1, MinNat DEF FreePipes
  <2>3. \/ pipes' = [pipes EXCEPT ![p] = new]
        \/ pipes' = [pipes EXCEPT ![p] = Closed(new, 1, 1)]
    BY <1>1, Zenon DEF Pipe
  <2>. HIDE DEF p, new
  <2>. QED
    BY <1>0, <2>2, <2>3
<1>2. ASSUME NEW t \in Slots, Fork(t)
      PROVE  pipes'[q].level = pipes[q].level
  <2>. DEFINE a == Cardinality(Refs(t, ReadEnd(q)))
              b == Cardinality(Refs(t, WriteEnd(q)))
              q1 == [pipes[q] EXCEPT !.read_open = @ + a]
  <2>1. pipes'[q] = [pipes[q] EXCEPT !.read_open = @ + a, !.write_open = @ + b]
    BY <1>2, Zenon DEF Fork, Inherited
  <2>. HIDE DEF a, b
  <2>2. q1.level = pipes[q].level /\ q1 \in [DOMAIN pipes[q] -> {q1[x] : x \in DOMAIN pipes[q]}]
    BY <1>0 DEF PipeRec
  <2>3. pipes'[q] = [q1 EXCEPT !.write_open = @ + b]
    BY <1>0, <2>1 DEF PipeRec
  <2>. HIDE DEF q1
  <2>. QED
    BY <2>2, <2>3
<1>3. ASSUME NEW t \in Slots, ExitChild(t)
      PROVE  pipes'[q].level = pipes[q].level
  <2>. DEFINE a == Cardinality(Refs(t, ReadEnd(q)))
              b == Cardinality(Refs(t, WriteEnd(q)))
  <2>1. a \in Nat /\ b \in Nat
    BY RefsAreRowRefs
  <2>2. pipes'[q] = Closed(pipes[q], a, b)
    BY <1>3 DEF ExitChild
  <2>. HIDE DEF a, b
  <2>. QED
    BY <1>0, <2>1, <2>2, ClosedType
<1>4. ASSUME NEW t \in Slots, NEW fd \in FDs, Close(t, fd) \/ \E old \in FDs : Dup2(t, old, fd)
      PROVE  pipes'[q].level = pipes[q].level
  <2>. DEFINE ps == CloseEnd(pipes, fds[t][fd])
  <2>1. fds[t] \in Tables
    BY <1>0, Types
  <2>2. ps \in [Pipes -> PipeRec] /\ ps[q].level = pipes[q].level
    <3>1. fds[t][fd] \in {None} \cup Ends
      BY <2>1 DEF Tables
    <3>2. /\ ps \in [Pipes -> PipeRec]
          /\ ps[q] \in {Closed(pipes[q], 1, 0), Closed(pipes[q], 0, 1), pipes[q]}
      BY <1>0, <3>1, CloseEndFacts
    <3>. HIDE DEF ps
    <3>. QED
      BY <1>0, <3>2, ClosedType
  <2>3. pipes' = ps \/ \E old \in FDs : pipes' = RefEnd(ps, fds[t][old])
    BY <1>4 DEF Close, Dup2
  <2>. HIDE DEF ps
  <2>4. ASSUME NEW old \in FDs
        PROVE  RefEnd(ps, fds[t][old])[q].level = ps[q].level
    <3>1. fds[t][old] \in {None} \cup Ends
      BY <2>1 DEF Tables
    <3>. QED
      BY <2>2, <3>1, RefEndFacts
  <2>. QED
    BY <2>2, <2>3, <2>4
<1>5. ASSUME NEW t \in Slots, \/ StartMain(t) \/ ExitMain(t) \/ Reap(t) \/ Kill(t) \/ StdinBegin(t)
                              \/ \E fd \in FDs : ReadFdBegin(t, fd) \/ WriteBegin(t, fd)
      PROVE  pipes'[q].level = pipes[q].level
  BY <1>5 DEF StartMain, ExitMain, Reap, Kill, StdinBegin, ReadFdBegin, WriteBegin, Begin
<1>. QED
  BY <1>1, <1>2, <1>3, <1>4, <1>5 DEF FdsNext

LEMMA DoneStep ==
  ASSUME CountsInv, CallInv, AloneInv, DoneInv, OneReader, [FdsNext]_fdsVars
  PROVE  DoneInv'
<1>. SUFFICES ASSUME NEW t \in Slots, pc'[t] \in {"reading", "draining"}
              PROVE  pipes'[on'[t]].level > 0 \/ NoWriter(life', fds', on'[t])
  BY DEF DoneInv
<1>. DEFINE q == on[t]
<1>0. FdsTypeOK /\ pipes \in [Pipes -> PipeRec] /\ q \in Pipes
  BY OnType DEF CountsInv, FdsTypeOK, PipeRec
<1>1. CASE \E u \in Slots : Moving(u)
  <2>1. PICK u \in Slots : Moving(u)
    BY <1>1
  <2>2. UNCHANGED <<life, fds>>
    BY <2>1 DEF Moving, PollDone, ReadSome, Drain, WriteSome, tasks
  <2>3. /\ pc[t] \in Waiting /\ on'[t] = q
        /\ t = u => PollDone(t) /\ pc[t] \in {"polling", "stdin"}
        /\ t # u => pc[t] = pc'[t]
    <3>1. CASE t = u
      BY <1>0, <2>1, <3>1 DEF Moving, PollDone, ReadSome, Drain, WriteSome, Return, Waiting, FdsTypeOK
    <3>2. CASE t # u
      BY <1>0, <2>1, <3>2 DEF Moving, PollDone, ReadSome, Drain, WriteSome, Return, Waiting, FdsTypeOK
    <3>. QED
      BY <3>1, <3>2
  <2>4. NoWriter(life, fds, q) => NoWriter(life', fds', q)
    BY <2>2 DEF NoWriter
  <2>5. CASE t = u
    <3>1. pipes' = pipes /\ (pipes[q].level > 0 \/ pipes[q].write_open = 0)
      BY <2>3, <2>5 DEF PollDone
    <3>2. pipes[q].write_open = Count(life, fds, WriteEnd(q))
      BY <1>0, <2>3, ReadUsed DEF CallInv
    <3>. QED
      BY <1>0, <2>3, <2>4, <3>1, <3>2, NoWriterMeans
  <2>6. CASE t # u
    <3>1. pipes[q].level > 0 \/ NoWriter(life, fds, q)
      BY <2>3, <2>6 DEF DoneInv
    <3>2. pipes[q].level > 0 => pipes'[q].level > 0
      <4>. DEFINE l == pipes[on[u]].level
      <4>0. /\ on[u] \in Pipes /\ wanted[u] \in Nat /\ l \in 0 .. Capacity
            /\ Capacity \in Nat /\ l \in Nat /\ Capacity - l \in Nat
        BY <1>0, OnType, SizesAssumption
      <4>1. CASE PollDone(u)
        BY <4>1 DEF PollDone
      <4>2. CASE ReadSome(u) \/ Drain(u)
        <5>1. on[u] # q
          BY <2>3, <2>6, <4>2 DEF ReadSome, Drain, AloneInv, Waiting
        <5>2. \E n : pipes' = [pipes EXCEPT ![on[u]].level = n]
          BY <4>2, Zenon DEF ReadSome, Drain
        <5>. QED
          BY <1>0, <5>1, <5>2
      <4>3. CASE WriteSome(u)
        <5>. DEFINE n == Min({Capacity - l, wanted[u]})
        <5>1. n \in Nat
          BY <4>0, MinPair
        <5>2. pipes' = [pipes EXCEPT ![on[u]].level = l + n]
          BY <4>3, Zenon DEF WriteSome
        <5>. HIDE DEF n
        <5>3. pipes'[q].level = IF on[u] = q THEN l + n ELSE pipes[q].level
          BY <1>0, <4>0, <5>2 DEF PipeRec
        <5>. QED
          BY <4>0, <5>1, <5>3
      <4>. QED
        BY <2>1, <4>1, <4>2, <4>3 DEF Moving
    <3>. QED
      BY <2>3, <2>4, <3>1, <3>2
  <2>. QED
    BY <2>5, <2>6
<1>2. CASE FdsNext /\ \A u \in Slots : ~Moving(u)
  <2>1. pc[t] = pc'[t] /\ on'[t] = on[t]
    <3>1. ASSUME NEW u \in Slots, Fork(u)
          PROVE  pc[t] = pc'[t] /\ on'[t] = on[t]
      <4>1. PICK c \in Slots : pc' = [pc EXCEPT ![c] = "user"] /\ on' = on
        BY <1>0, <3>1, ForkChild
      <4>. QED
        BY <1>0, <4>1 DEF FdsTypeOK
    <3>2. ASSUME NEW u \in Slots, StdinBegin(u) \/ \E fd \in FDs : ReadFdBegin(u, fd) \/ WriteBegin(u, fd)
          PROVE  pc[t] = pc'[t] /\ on'[t] = on[t]
      <4>1. PICK fd \in FDs \cup {0}, where \in {"polling", "stdin", "writing"} : Begin(u, fd, where)
        BY <3>2 DEF StdinBegin, ReadFdBegin, WriteBegin
      <4>2. t # u
        BY <1>0, <4>1 DEF Begin, FdsTypeOK
      <4>. QED
        BY <1>0, <4>1, <4>2 DEF Begin, FdsTypeOK
    <3>3. ASSUME NEW u \in Slots, \/ Pipe(u) \/ StartMain(u) \/ ExitChild(u)
                              \/ ExitMain(u) \/ Reap(u) \/ Kill(u)
                              \/ \E fd \in FDs : Close(u, fd) \/ \E old \in FDs : Dup2(u, old, fd)
          PROVE  pc[t] = pc'[t] /\ on'[t] = on[t]
      BY <3>3 DEF Pipe, StartMain, ExitChild, ExitMain, Reap, Kill, Close, Dup2, call
    <3>. QED
      BY <1>2, <3>1, <3>2, <3>3 DEF FdsNext
  <2>2. pipes[q].level > 0 \/ NoWriter(life, fds, q)
    BY <2>1 DEF DoneInv
  <2>3. pipes[q].used
    BY <1>0, <2>1, ReadUsed DEF CallInv, Waiting
  <2>. QED
    BY <1>0, <1>2, <2>1, <2>2, <2>3, LevelKept, NoNewWriter
<1>3. CASE UNCHANGED fdsVars
  BY <1>3 DEF fdsVars, tasks, call, DoneInv, NoWriter
<1>. QED
  BY <1>1, <1>2, <1>3

\* A read of a pipe comes back with nothing only when no live task can write to
\* it any more (syscall.c's polling loop and what it does after it), when no
\* program dies with pipe ends open and no two tasks read one pipe at a time.
THEOREM EofIsSound ==
  ASSUME OneReader
  PROVE  FdsSpec => EofSound
<1>. DEFINE Sound ==
       \A t \in Slots :
         /\ pc[t] \in {"reading", "draining"} /\ pc'[t] = "user"
         /\ pipes[on[t]].level = 0
         => Holders(WriteEnd(on[t])) = {}
<1>1. FdsInit => ReadInv
  BY CountsInit DEF ReadInv, CallInv, AloneInv, DoneInv, FdsInit, Waiting
<1>2. ReadInv /\ [FdsNext]_fdsVars => ReadInv'
  BY CountsStep, CallStep, AloneStep, DoneStep DEF ReadInv, OneReader
<1>3. ReadInv => Sound
  BY OnType, NoWriterMeans DEF ReadInv, CountsInv, DoneInv
<1>. HIDE DEF Sound
<1>4. ReadInv /\ [FdsNext]_fdsVars => [Sound]_fdsVars
  BY <1>3
<1>5. FdsSpec => [][Sound]_fdsVars
  BY <1>1, <1>2, <1>4, PTL DEF FdsSpec
<1>. QED
  BY <1>5 DEF EofSound, Sound
=============================================================================
