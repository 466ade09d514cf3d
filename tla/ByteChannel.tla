---------------------------- MODULE ByteChannel ----------------------------
(***************************************************************************)
(* What a pipe (src/src/kernel/pipe.c) promises the two programs at its    *)
(* ends: the reader receives exactly the bytes that were written, in       *)
(* order; no more than Capacity bytes wait between them; and a read comes  *)
(* back short, which tells a program "end of file", only after the write   *)
(* end was closed and every byte was received.                             *)
(***************************************************************************)
EXTENDS Naturals, Sequences

CONSTANTS Byte, Capacity

VARIABLES sent,    \* every byte the writer has put into the pipe
          got,     \* every byte the reader has taken out of it
          closed,  \* no write end is open
          ended    \* a read has returned end of file

chan == <<sent, got, closed, ended>>

Init == sent = <<>> /\ got = <<>> /\ closed = FALSE /\ ended = FALSE

Put(b) == /\ ~closed
          /\ Len(sent) < Len(got) + Capacity
          /\ sent' = Append(sent, b)
          /\ UNCHANGED <<got, closed, ended>>

Get == /\ Len(got) < Len(sent)
       /\ got' = Append(got, sent[Len(got) + 1])
       /\ UNCHANGED <<sent, closed, ended>>

Close == /\ ~closed
         /\ closed' = TRUE
         /\ UNCHANGED <<sent, got, ended>>

End == /\ closed /\ got = sent
       /\ ended' = TRUE
       /\ UNCHANGED <<sent, got, closed>>

Next == (\E b \in Byte : Put(b)) \/ Get \/ Close \/ End

Spec == Init /\ [][Next]_chan
=============================================================================
