------------------------------- MODULE Mouse -------------------------------
(***************************************************************************)
(* The PS/2 mouse (mouse.c): packets of three bytes, taken from the 8042   *)
(* by mouse_poll as the desktop's loop finds them there, and the driver    *)
(* going off and on again with the desktop.  A poll stops where the next   *)
(* byte is the keyboard's.                                                 *)
(***************************************************************************)
EXTENDS Integers, Sequences

CONSTANTS
  Width, Height,   \* the screen: 800 by 600
  Deltas,          \* the movements of one packet, of -256..255
  Buttons,         \* the button states, of 0..7
  MaxPackets,      \* bound: packets of a behaviour
  MaxStarts        \* bound: times the desktop starts

ASSUME MouseAssumption == /\ Width \in Nat \ {0} /\ Height \in Nat \ {0}
                          /\ Deltas \subseteq -256..255 /\ Buttons \subseteq 0..7

Centre == [x |-> Width \div 2, y |-> Height \div 2, btn |-> 0]

VARIABLES sent,     \* the bytes in the controller, each with its packet and place
          on,       \* the mouse streams
          polling,  \* the loop of mouse_poll is at work
          phase, pkt, \* the static state of mouse_poll
          mouse,    \* mouse_x, mouse_y, mouse_btn
          prev, moved, \* prev_x, prev_y, prev_btn; mouse_moved
          truth,    \* ghost: where the packets taken so far put the pointer
          aligned,  \* ghost: no packet was cut in two by the driver going off
          packets, starts
mouseVars == <<sent, on, polling, phase, pkt, mouse, prev, moved, truth, aligned, packets, starts>>

(* ------------------------------ a packet ------------------------------- *)
Low(d) == d % 256
Sign(d) == IF d < 0 THEN 1 ELSE 0
Flags(p) == p.btn + 8 + 16 * Sign(p.dx) + 32 * Sign(p.dy) + (IF p.over THEN 64 ELSE 0)
PacketBytes(p) == <<[val |-> Flags(p), place |-> 1, of |-> p],
                    [val |-> Low(p.dx), place |-> 2, of |-> p],
                    [val |-> Low(p.dy), place |-> 3, of |-> p]>>

Bit(b, mask) == (b \div mask) % 2 = 1
Clamp(v, top) == IF v < 0 THEN 0 ELSE IF v > top - 1 THEN top - 1 ELSE v
Move(m, dx, dy, btn) == [x |-> Clamp(m.x + dx, Width), y |-> Clamp(m.y - dy, Height), btn |-> btn]

MouseInit == /\ sent = <<>> /\ on = FALSE /\ polling = FALSE
             /\ phase = 0 /\ pkt = <<0, 0, 0>>
             /\ mouse = Centre /\ prev = Centre /\ moved = FALSE 
             /\ truth = Centre /\ aligned = TRUE /\ packets = 0 /\ starts = 0

\* The user moves the mouse: the device sends a packet.
Moves(dx, dy, btn, over) ==
  /\ on /\ packets < MaxPackets
  /\ packets' = packets + 1
  /\ sent' = sent \o PacketBytes([dx |-> dx, dy |-> dy, btn |-> btn, over |-> over])
  /\ UNCHANGED <<on, polling, phase, pkt, mouse, prev, moved, truth, aligned, starts>>

(* ------------------------------ mouse_poll ----------------------------- *)
\* One byte: wait for the sync bit, collect three, ignore an overflow, and
\* read each movement as nine bits, the ninth from the flags.
Collect(p, b) == [p EXCEPT !.pkt = [@ EXCEPT ![p.phase + 1] = b], !.phase = @ + 1]
Decoded(m, bytes) ==
  LET dx == bytes[2] - (IF Bit(bytes[1], 16) THEN 256 ELSE 0)
      dy == bytes[3] - (IF Bit(bytes[1], 32) THEN 256 ELSE 0)
  IN IF Bit(bytes[1], 64) \/ Bit(bytes[1], 128) THEN m ELSE Move(m, dx, dy, bytes[1] % 8)
TakeByte(p, b) ==
  IF p.phase = 0 /\ ~Bit(b, 8) THEN p
  ELSE LET q == Collect(p, b)
       IN IF q.phase < 3 THEN q ELSE [q EXCEPT !.phase = 0, !.mouse = Decoded(p.mouse, q.pkt)]

\* What a packet whose last byte this is does to the pointer.
WholeMove(m, b) == IF b.place < 3 \/ b.of.over THEN m ELSE Move(m, b.of.dx, b.of.dy, b.of.btn)

\* The loop takes a byte; the device may send more of them before the next.
PollByte == /\ on /\ sent # <<>>
            /\ LET p == TakeByte([phase |-> phase, pkt |-> pkt, mouse |-> mouse], Head(sent).val)
               IN phase' = p.phase /\ pkt' = p.pkt /\ mouse' = p.mouse
            /\ truth' = WholeMove(truth, Head(sent))
            /\ sent' = Tail(sent) /\ polling' = TRUE
            /\ UNCHANGED <<on, prev, moved, aligned, packets, starts>>
\* It ends where no byte is there or the next one is the keyboard's.
PollEnd == /\ on /\ polling' = FALSE
           /\ moved' = (mouse # prev) /\ prev' = mouse
           /\ UNCHANGED <<sent, on, phase, pkt, mouse, truth, aligned, packets, starts>>

(* ----------------------- mouse_init, mouse_disable --------------------- *)
\* The pointer goes to the centre; phase, pkt and prev are left as they are.
StartMouse == /\ ~on /\ starts < MaxStarts
              /\ on' = TRUE /\ starts' = starts + 1
              /\ mouse' = Centre /\ moved' = FALSE /\ truth' = Centre
              /\ UNCHANGED <<sent, polling, phase, pkt, prev, aligned, packets>>

\* Streaming stops and the mouse bytes before the keyboard's are dropped.
Disable == /\ on /\ ~polling
           /\ on' = FALSE
           /\ \E n \in 0..Len(sent) : sent' = SubSeq(sent, n + 1, Len(sent))
           /\ aligned' = (aligned /\ phase = 0 /\ (sent' = <<>> \/ sent'[1].place = 1))
           /\ UNCHANGED <<polling, phase, pkt, mouse, prev, moved, truth, packets, starts>>

MouseNext == \/ \E dx, dy \in Deltas, btn \in Buttons, over \in BOOLEAN : Moves(dx, dy, btn, over)
             \/ PollByte \/ PollEnd \/ StartMouse \/ Disable

MouseSpec == MouseInit /\ [][MouseNext]_mouseVars

(* ------------------------------ properties ----------------------------- *)
MouseTypeOK == /\ phase \in 0..2
               /\ mouse.x \in 0..Width - 1 /\ mouse.y \in 0..Height - 1 /\ mouse.btn \in 0..7

\* The pointer and its buttons are what the packets say that were received
\* whole, however the polls cut them; before each byte the driver knows how many
\* bytes of the next one it has (mouse_poll).
PointerTrue == /\ MouseTypeOK
               /\ aligned => /\ mouse = truth
                             /\ sent # <<>> => sent[1].place = phase + 1

=============================================================================
