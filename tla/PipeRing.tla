------------------------------ MODULE PipeRing ------------------------------
(***************************************************************************)
(* One pipe of src/src/kernel/pipe.c, access by access: the loops of       *)
(* pipe_write and pipe_read inside the blocking loops of SYS_WRITE_FD and  *)
(* SYS_READ_FD (syscall.c).  Both system calls run them with interrupts    *)
(* on, so the PIT may switch tasks between any two accesses to head, tail  *)
(* and buf; the kernel is compiled without optimisation, so the accesses   *)
(* happen in the order of the source.  Opening, duplicating and inheriting *)
(* the ends is PipeFds.                                                    *)
(***************************************************************************)
EXTENDS Naturals, Sequences

CONSTANTS
  PipeBuf,    \* PIPE_BUF: slots of the ring
  Byte,       \* the values of a byte
  Writers,    \* tasks that hold a write end
  Messages,   \* what a program passes to one SYS_WRITE_FD
  Lens,       \* the lengths a program passes to SYS_READ_FD
  MaxSent     \* bound on the bytes ever written

ASSUME PipeBufAssumption == PipeBuf \in Nat /\ PipeBuf >= 2
ASSUME MessagesAssumption == Messages \subseteq Seq(Byte) \ {<<>>}
ASSUME LensAssumption == Lens \subseteq Nat \ {0}
ASSUME WritersAssumption == Writers # {}
ASSUME MaxSentAssumption == MaxSent \in Nat

VARIABLES
  buf, head, tail,   \* the pipe_t
  open,              \* the tasks write_open counts
  wpc, todo, next,   \* per writer: where it is, what is left, pipe_write's next
  rpc, want, byte,   \* the reader: where it is, bytes left to read, the last one
  sent, got,         \* all bytes written, and read, so far
  ended              \* a read has returned short

ring   == <<buf, head, tail>>
writer == <<wpc, todo, next>>
reader == <<rpc, want, byte, got, ended>>
vars   == <<ring, open, writer, reader, sent>>

Index == 0 .. PipeBuf - 1
Succ(i) == (i + 1) % PipeBuf

\* pipe_alloc; what the buffer of a slot holds then does not matter.
Init ==
  /\ buf \in {[i \in Index |-> b] : b \in Byte}
  /\ head = 0 /\ tail = 0
  /\ open = Writers
  /\ wpc = [w \in Writers |-> "user"]
  /\ todo = [w \in Writers |-> <<>>]
  /\ next = [w \in Writers |-> 0]
  /\ rpc = "user" /\ want = 0 /\ byte \in Byte
  /\ sent = <<>> /\ got = <<>> /\ ended = FALSE

-----------------------------------------------------------------------------
(***************************************************************************)
(* SYS_WRITE_FD and pipe_write.                                            *)
(***************************************************************************)
WriteCall(w) ==
  /\ wpc[w] = "user" /\ w \in open
  /\ \E data \in Messages :
       /\ Len(sent) + Len(data) <= MaxSent
       /\ todo' = [todo EXCEPT ![w] = data]
  /\ wpc' = [wpc EXCEPT ![w] = "test"]
  /\ UNCHANGED <<ring, open, next, reader, sent>>

\* Mutant of TestFull: the ring counts as full only when it has wrapped.
TestFullLate(w) ==
  /\ wpc[w] = "test"
  /\ next' = [next EXCEPT ![w] = Succ(tail)]
  /\ wpc' = [wpc EXCEPT ![w] = "store"]
  /\ UNCHANGED <<ring, open, todo, reader, sent>>

\* A full ring ends pipe_write; the loop of the system call tries again.
TestFull(w) ==
  /\ wpc[w] = "test"
  /\ Succ(tail) # head
  /\ next' = [next EXCEPT ![w] = Succ(tail)]
  /\ wpc' = [wpc EXCEPT ![w] = "store"]
  /\ UNCHANGED <<ring, open, todo, reader, sent>>

Store(w) ==
  /\ wpc[w] = "store"
  /\ buf' = [buf EXCEPT ![tail] = Head(todo[w])]
  /\ wpc' = [wpc EXCEPT ![w] = "advance"]
  /\ UNCHANGED <<head, tail, open, todo, next, reader, sent>>

AdvanceTail(w) ==
  /\ wpc[w] = "advance"
  /\ tail' = next[w]
  /\ sent' = Append(sent, Head(todo[w]))
  /\ todo' = [todo EXCEPT ![w] = Tail(@)]
  /\ wpc' = [wpc EXCEPT ![w] = IF Len(todo[w]) = 1 THEN "user" ELSE "test"]
  /\ UNCHANGED <<buf, head, open, next, reader>>

\* pipe_close_write, from SYS_CLOSE or the SYS_EXIT of a fork child.
CloseWrite(w) ==
  /\ wpc[w] = "user" /\ w \in open
  /\ open' = open \ {w}
  /\ UNCHANGED <<ring, writer, reader, sent>>

-----------------------------------------------------------------------------
(***************************************************************************)
(* SYS_READ_FD and pipe_read.                                              *)
(***************************************************************************)
ReadCall ==
  /\ rpc = "user"
  /\ want' \in Lens
  /\ rpc' = "poll"
  /\ UNCHANGED <<ring, open, writer, byte, got, ended, sent>>

\* Mutant of Poll: emptiness is head >= tail, which ignores the wrap.
PollNoWrap ==
  /\ rpc = "poll"
  /\ rpc' = IF head >= tail THEN "open" ELSE "check"
  /\ UNCHANGED <<ring, open, writer, want, byte, got, ended, sent>>

\* while (pipe_is_empty && pipe_write_open): two calls, one after the other.
Poll ==
  /\ rpc = "poll"
  /\ rpc' = IF head = tail THEN "open" ELSE "check"
  /\ UNCHANGED <<ring, open, writer, want, byte, got, ended, sent>>

\* Mutant of PollOpen: the loop waits for data whether or not a writer is left.
PollForever ==
  /\ rpc = "open"
  /\ rpc' = "poll"
  /\ UNCHANGED <<ring, open, writer, want, byte, got, ended, sent>>

PollOpen ==
  /\ rpc = "open"
  /\ rpc' = IF open # {} THEN "poll" ELSE "check"
  /\ UNCHANGED <<ring, open, writer, want, byte, got, ended, sent>>

\* Mutant of Check: end of file as soon as no writer is left.
CheckOpenOnly ==
  /\ rpc = "check"
  /\ ended' = (ended \/ open = {})
  /\ rpc' = IF open = {} THEN "user" ELSE "more"
  /\ UNCHANGED <<ring, open, writer, want, byte, got, sent>>

\* The second look at the ring: still empty means end of file.
Check ==
  /\ rpc = "check"
  /\ ended' = (ended \/ head = tail)
  /\ rpc' = IF head = tail THEN "user" ELSE "more"
  /\ UNCHANGED <<ring, open, writer, want, byte, got, sent>>

\* pipe_read: an empty ring ends it, back to the outer loop.
More ==
  /\ rpc = "more"
  /\ rpc' = IF head = tail THEN "poll" ELSE "load"
  /\ UNCHANGED <<ring, open, writer, want, byte, got, ended, sent>>

Load ==
  /\ rpc = "load"
  /\ byte' = buf[head]
  /\ rpc' = "advance"
  /\ UNCHANGED <<ring, open, writer, want, got, ended, sent>>

AdvanceHead ==
  /\ rpc = "advance"
  /\ head' = Succ(head)
  /\ got' = Append(got, byte)
  /\ want' = want - 1
  /\ rpc' = IF want = 1 THEN "user" ELSE "more"
  /\ UNCHANGED <<buf, tail, open, writer, byte, ended, sent>>

-----------------------------------------------------------------------------
Writing(w) == TestFull(w) \/ Store(w) \/ AdvanceTail(w)
Reading    == Poll \/ PollOpen \/ Check \/ More \/ Load \/ AdvanceHead

Next == \/ \E w \in Writers : WriteCall(w) \/ Writing(w) \/ CloseWrite(w)
        \/ ReadCall \/ Reading

Spec == Init /\ [][Next]_vars

\* The scheduler starves no task (Tasks!NoStarvation), so a system call that can
\* go on does; programs need not make any.
FairSpec == Spec /\ WF_vars(Reading) /\ \A w \in Writers : WF_vars(Writing(w))

-----------------------------------------------------------------------------
(***************************************************************************)
(* Properties.                                                             *)
(***************************************************************************)
TypeOK ==
  /\ buf \in [Index -> Byte] /\ head \in Index /\ tail \in Index
  /\ open \subseteq Writers
  /\ wpc \in [Writers -> {"user", "test", "store", "advance"}]
  /\ todo \in [Writers -> Seq(Byte)]
  /\ next \in [Writers -> Index]
  /\ rpc \in {"user", "poll", "open", "check", "more", "load", "advance"}
  /\ want \in Nat /\ byte \in Byte
  /\ sent \in Seq(Byte) /\ got \in Seq(Byte)
  /\ ended \in BOOLEAN

\* The ring delivers what a pipe promises: with one writer and one reader, every
\* interleaving of their accesses is a behaviour of the byte channel.
Channel == INSTANCE ByteChannel WITH Capacity <- PipeBuf - 1, closed <- open = {}
Implements == Channel!Spec

\* End of file means that the reader has every byte that was ever written.
NoByteLost == ended => got = sent

\* When the last write end is closed, a read in progress returns.
EofReached == (open = {} /\ rpc # "user") ~> rpc = "user"

\* A write in progress returns when the reader stays in SYS_READ_FD or the ring
\* has room for the rest; it can wait for ever only for a reader.
WriteReturns ==
  \A w \in Writers : (wpc[w] # "user") ~> (wpc[w] = "user" \/ rpc = "user")
=============================================================================
