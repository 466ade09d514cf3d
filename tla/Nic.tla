-------------------------------- MODULE Nic --------------------------------
(***************************************************************************)
(* The descriptor rings of drivers/e1000.c, shared with the card.          *)
(*                                                                         *)
(* The card owns the receive descriptors from RDH up to RDT and the        *)
(* transmit descriptors from TDH up to TDT; equal registers mean that it   *)
(* owns none.  The driver's own indices are g_rx_head and g_tx_tail.  A    *)
(* call is split where the card can get in between: each store to a        *)
(* descriptor or a register is a step.  Frames are numbered in the order   *)
(* in which the card, or the driver's caller, produces them.               *)
(***************************************************************************)
EXTENDS Integers

CONSTANTS
  NumRx, NumTx, \* NUM_RX_DESC, NUM_TX_DESC (8)
  MaxFrames,    \* frames of one behaviour in each direction
  Outstanding   \* frames sent while the card has not transmitted any

ASSUME NicAssumption ==
  /\ {NumRx, NumTx} \subseteq Nat \ {0, 1} /\ MaxFrames \in Nat
  /\ Outstanding \in 1 .. NumTx

VARIABLES
  rxDesc,     \* rx_ring: [dd, frame]
  rdh, rdt,   \* registers of the card
  rxHead,     \* g_rx_head
  arrived, handed, \* last frame received by the card, and given to the caller
  recv,       \* where e1000_recv is
  txDesc, tdh, tdt, txTail,
  queued, sent, \* last frame given to the driver, and put on the wire
  send        \* where e1000_send is

rxVars == <<rxDesc, rdh, rdt, rxHead, arrived, handed, recv>>
txVars == <<txDesc, tdh, tdt, txTail, queued, sent, send>>
nicVars == <<rxDesc, rdh, rdt, rxHead, arrived, handed, recv,
             txDesc, tdh, tdt, txTail, queued, sent, send>>

RxNext(i) == (i + 1) % NumRx
TxNext(i) == (i + 1) % NumTx

\* e1000_init: the transmit descriptors are marked done, all but one of the
\* receive descriptors belong to the card.
NicInit ==
  /\ rxDesc = [i \in 0 .. NumRx - 1 |-> [dd |-> FALSE, frame |-> 0]]
  /\ rdh = 0 /\ rdt = NumRx - 1 /\ rxHead = 0 /\ arrived = 0 /\ handed = 0 /\ recv = "idle"
  /\ txDesc = [i \in 0 .. NumTx - 1 |-> [dd |-> TRUE, frame |-> 0]]
  /\ tdh = 0 /\ tdt = 0 /\ txTail = 0 /\ queued = 0 /\ sent = 0 /\ send = "idle"

-----------------------------------------------------------------------------
(* e1000_recv: nothing when the descriptor at the head is not done.          *)

RecvCopy ==
  /\ recv = "idle" /\ rxDesc[rxHead].dd
  /\ handed' = rxDesc[rxHead].frame
  /\ recv' = "copied"
  /\ UNCHANGED <<rxDesc, rdh, rdt, rxHead, arrived, txVars>>
\* Mutant of RecvClear: the descriptor goes back with its done bit.
RecvClearNot ==
  /\ recv = "copied" /\ recv' = "cleared"
  /\ UNCHANGED <<rxDesc, rdh, rdt, rxHead, arrived, handed, txVars>>
RecvClear ==
  /\ recv = "copied"
  /\ rxDesc' = [rxDesc EXCEPT ![rxHead].dd = FALSE]
  /\ recv' = "cleared"
  /\ UNCHANGED <<rdh, rdt, rxHead, arrived, handed, txVars>>
RecvReturn ==
  /\ recv = "cleared"
  /\ rdt' = rxHead
  /\ rxHead' = RxNext(rxHead)
  /\ recv' = "idle"
  /\ UNCHANGED <<rxDesc, rdh, arrived, handed, txVars>>

(* e1000_send: spins until its slot is done, fills it, moves the tail.       *)

SendCall ==
  /\ send = "idle" /\ queued < MaxFrames
  /\ queued - sent < Outstanding
  /\ queued' = queued + 1 /\ send' = "wait"
  /\ UNCHANGED <<rxVars, txDesc, tdh, tdt, txTail, sent>>
SendFill ==
  /\ send = "wait" /\ txDesc[txTail].dd
  /\ txDesc' = [txDesc EXCEPT ![txTail] = [dd |-> FALSE, frame |-> queued]]
  /\ send' = "filled"
  /\ UNCHANGED <<rxVars, tdh, tdt, txTail, queued, sent>>
SendKick ==
  /\ send = "filled"
  /\ txTail' = TxNext(txTail) /\ tdt' = TxNext(txTail)
  /\ send' = "idle"
  /\ UNCHANGED <<rxVars, txDesc, tdh, queued, sent>>

-----------------------------------------------------------------------------
(* The card.  A frame that arrives when it owns no descriptor is dropped.    *)

CardReceives ==
  /\ arrived < MaxFrames /\ rdh # rdt
  /\ arrived' = arrived + 1
  /\ rxDesc' = [rxDesc EXCEPT ![rdh] = [dd |-> TRUE, frame |-> arrived + 1]]
  /\ rdh' = RxNext(rdh)
  /\ UNCHANGED <<rdt, rxHead, handed, recv, txVars>>
CardSends ==
  /\ tdh # tdt
  /\ sent' = txDesc[tdh].frame
  /\ txDesc' = [txDesc EXCEPT ![tdh].dd = TRUE]
  /\ tdh' = TxNext(tdh)
  /\ UNCHANGED <<rxVars, tdt, txTail, queued, send>>

Sending == SendFill \/ SendKick
NicNext ==
  \/ RecvCopy \/ RecvClear \/ RecvReturn \/ SendCall \/ Sending
  \/ CardReceives \/ CardSends

NicSpec == NicInit /\ [][NicNext]_nicVars /\ WF_nicVars(Sending) /\ WF_nicVars(CardSends)

-----------------------------------------------------------------------------
(* Properties. *)

\* Frames come through in order, none lost in the ring and none twice: the
\* unread ones lie from the driver's head on, and what the card puts on the
\* wire is next (the order of the stores at e1000.c:294-298 and 265-272).
FramesInOrder ==
  /\ \A k \in 1 .. arrived - handed :
       LET i == (rxHead + k - (IF recv = "idle" THEN 1 ELSE 0)) % NumRx
       IN  rxDesc[i] = [dd |-> TRUE, frame |-> handed + k]
  /\ tdh # tdt => txDesc[tdh].frame = sent + 1 /\ ~txDesc[tdh].dd

\* What is given to e1000_send is transmitted in the end, and the send after
\* it returns.  This needs one slot that is never used (Outstanding < NumTx):
\* with every slot filled TDT meets TDH, and the card, which then believes
\* that it owns nothing, and a sender, who waits for it, wait for ever.
SentInTheEnd == (queued # sent) ~> (queued = sent)

=============================================================================
