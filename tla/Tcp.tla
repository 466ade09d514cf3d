-------------------------------- MODULE Tcp --------------------------------
(***************************************************************************)
(* The TCP client of drivers/tcp.c and http_get on top of it: one          *)
(* connection, one segment kept for retransmission, everything polled.     *)
(* The server and the wire are the environment.                            *)
(*                                                                         *)
(* Time is counted in retransmission timeouts (TCP_RTO_TICKS, one second). *)
(* A source port stands for a connection: s_next_port counts up and wraps  *)
(* after 16384 connections.  Sequence numbers are modulo SeqSpace (2^32).  *)
(***************************************************************************)
EXTENDS Integers, Sequences

CONSTANTS
  Conns,        \* connections of a behaviour, 1 .. Conns
  Attempts,     \* calls of tcp_connect per http_get (3)
  ConnectTime,  \* tcp_connect gives up (500 ticks = 5)
  RecvTime,     \* tcp_recv_data gives up (1000 ticks = 10)
  MaxRetx,      \* TCP_MAX_RETX (5)
  RxSize,       \* TCP_RX_SIZE
  MaxBody,      \* room in the buffer of http_get's caller
  ReqLen,       \* length of the request
  Header,       \* pieces of the server's answer that are HTTP header
  Items,        \* pieces of the server's answer
  SeqSpace, Isns, \* modulus, and what tcp_gen_isn may return
  MaxWire,      \* segments in flight in one direction
  MaxReset,     \* the server resets connections 1 .. MaxReset only
  Faults        \* "lose", "dup", "reset", "noroute", "kill"

ASSUME TcpAssumption ==
  /\ {Conns, Attempts, ConnectTime, RecvTime, RxSize, ReqLen, Items, SeqSpace} \subseteq Nat \ {0}
  /\ {MaxRetx, MaxBody, MaxWire, MaxReset} \subseteq Nat
  /\ Isns \subseteq 0 .. SeqSpace - 1
  /\ Header \in 0 .. Items

VARIABLES
  tcb,     \* g_tcp, g_rx_buf, g_rx_fin, g_retx, and the segments a step sends
  pc,      \* where http_get is
  tried,   \* http_get's "attempt"
  t0,      \* time since the current loop began
  tsyn,    \* time since the last SYN
  opened,  \* connections opened so far: s_next_port
  body,    \* what the last http_get returned: pieces, or Failed
  srv,     \* the server's side of every connection
  up, down \* segments in flight to and from the server

clientVars == <<tcb, pc, tried, t0, tsyn, opened, body>>
tcpVars == <<tcb, pc, tried, t0, tsyn, opened, body, srv, up, down>>

Flags == {"SYN", "ACK", "PSH", "FIN", "RST"}
Add(a, b) == (a + b) % SeqSpace
Failed == <<<<0, 0>>>>
Least(a, b) == IF a < b THEN a ELSE b

-----------------------------------------------------------------------------
(* The client.  c is the value of tcb in the middle of a step.  The rest of  *)
(* g_retx is read only while it is active, so it is cleared with it.         *)

NoRetx == [active |-> FALSE, seg |-> <<>>, end |-> 0, age |-> 0, tries |-> 0]
TcpInit ==
  /\ tcb = [state |-> "CLOSED", port |-> 0, seq |-> 0, ack |-> 0, rx |-> <<>>,
            fin |-> FALSE, retx |-> NoRetx, out |-> <<>>]
  /\ pc = "idle" /\ tried = 0 /\ t0 = 0 /\ tsyn = 0 /\ opened = 0 /\ body = <<>>
  /\ srv = [p \in 1 .. Conns |-> [open |-> FALSE, rcv |-> 0, req |-> FALSE, sent |-> 0, fin |-> FALSE]]
  /\ up = <<>> /\ down = <<>>

\* The server answers SYNs and payloads only, so the others are not followed.
Answered(s) == "SYN" \in s.flags \/ s.len > 0
\* tcp_tx: one segment; one with a payload is kept until it is acknowledged.
Tx(c, flags, len) ==
  LET seg == [port |-> c.port, flags |-> flags, seq |-> c.seq,
              ack |-> IF "ACK" \in flags THEN c.ack ELSE 0, len |-> len]
  IN  [c EXCEPT !.out = IF Answered(seg) THEN Append(@, seg) ELSE @,
                !.retx = IF len = 0 THEN @
                         ELSE [active |-> TRUE, seg |-> seg, end |-> Add(c.seq, len),
                               age |-> 0, tries |-> 0]]

\* Mutant of Mine: the ports are not compared.
MineAnyPort(c, s) == s.port \in 1 .. Conns /\ c.port > 0
\* Is the segment for the connection g_tcp describes?
Mine(c, s) == s.port = c.port
\* Mutant of Acks: every acknowledgement counts.
AcksAny(c, s) == "ACK" \in s.flags
\* Does the segment acknowledge the one that is kept?  (No wrap-around.)
Acks(c, s) == "ACK" \in s.flags /\ s.ack >= c.retx.end

\* Data are appended while there is room, and acknowledged in full.
Data(c, s) ==
  IF s.data = <<>> THEN c
  ELSE Tx([c EXCEPT !.rx = SubSeq(@ \o s.data, 1, Least(RxSize, Len(@ \o s.data))),
                    !.ack = Add(s.seq, Len(s.data))], {"ACK"}, 0)
Fin(c, s) ==
  IF "FIN" \notin s.flags THEN c
  ELSE LET d == Tx([c EXCEPT !.ack = Add(s.seq, Len(s.data) + 1)], {"ACK", "FIN"}, 0)
       IN  [d EXCEPT !.seq = Add(@, 1), !.fin = TRUE, !.state = "CLOSED"]

RecvFrame(c, s) ==
  IF c.state = "CLOSED" \/ ~Mine(c, s) THEN c
  ELSE IF "RST" \in s.flags THEN [c EXCEPT !.state = "CLOSED"]
  ELSE IF c.state = "ESTABLISHED" THEN
    Fin(Data([c EXCEPT !.retx = IF @.active /\ Acks(c, s) THEN NoRetx ELSE @], s), s)
  ELSE IF {"SYN", "ACK"} \subseteq s.flags
  THEN Tx([c EXCEPT !.ack = Add(s.seq, 1), !.state = "ESTABLISHED"], {"ACK"}, 0)
  ELSE c

RetxCheck(c) ==
  IF ~c.retx.active THEN c
  ELSE IF c.state # "ESTABLISHED" THEN [c EXCEPT !.retx = NoRetx]
  ELSE IF c.retx.age < 1 THEN c
  ELSE IF c.retx.tries + 1 > MaxRetx THEN [c EXCEPT !.retx = NoRetx, !.state = "CLOSED"]
  ELSE [c EXCEPT !.out = Append(@, [c.retx.seg EXCEPT !.ack = c.ack]),
                 !.retx = [c.retx EXCEPT !.seg.ack = c.ack, !.age = 0, !.tries = @ + 1]]

\* The segments of the step go out, as far as the wire has room.
Send(c) ==
  /\ LET all == up \o c.out
     IN  up' = SubSeq(all, 1, Least(MaxWire, Len(all)))
  /\ tcb' = [c EXCEPT !.out = <<>>]

\* pump(): one frame, if the card has one (take = 1), then the timer.
Pump(take) == RetxCheck(IF take = 1 THEN RecvFrame(tcb, Head(down)) ELSE tcb)
Taken(take) == take <= Len(down) /\ down' = SubSeq(down, take + 1, Len(down))

-----------------------------------------------------------------------------
(* http_get. *)

Get ==
  /\ pc = "idle"
  /\ opened < Conns
  /\ pc' = "start" /\ tried' = 0 /\ body' = <<>>
  /\ UNCHANGED <<tcb, t0, tsyn, opened, srv, up, down>>

Return(result) == pc' = "idle" /\ body' = result
NoTimers == t0' = 0 /\ tsyn' = 0

\* A failed tcp_connect is tried again; the third failure is http_get's.
NextTry ==
  /\ tried' = tried + 1
  /\ IF tried + 1 = Attempts THEN Return(Failed) ELSE pc' = "start" /\ UNCHANGED body

Fresh(isn) == [tcb EXCEPT !.port = opened + 1, !.seq = isn, !.ack = 0,
                          !.state = "SYN_SENT", !.rx = <<>>, !.fin = FALSE]
Connect ==
  /\ pc = "start"
  /\ opened < Conns
  /\ opened' = opened + 1
  /\ \E isn \in Isns :
       \/ /\ Send([Tx(Fresh(isn), {"SYN"}, 0) EXCEPT !.seq = Add(isn, 1)])
          /\ pc' = "connect" /\ NoTimers
          /\ UNCHANGED <<tried, body>>
       \/ /\ "noroute" \in Faults       \* ip_send fails: no answer to ARP
          /\ tcb' = [Fresh(isn) EXCEPT !.state = "CLOSED"]
          /\ NextTry
          /\ UNCHANGED up /\ NoTimers
  /\ UNCHANGED <<srv, down>>
\* The bound on connections: the third and later ones are not followed.
GiveUp ==
  /\ pc = "start" /\ opened = Conns
  /\ Return(Failed)
  /\ UNCHANGED <<tcb, tried, t0, tsyn, opened, srv, up, down>>

\* The SYN is sent again with the number it had.
SynAgain(c) ==
  IF tsyn < 1 THEN c
  ELSE [Tx([c EXCEPT !.seq = (@ + SeqSpace - 1) % SeqSpace], {"SYN"}, 0) EXCEPT !.seq = c.seq]

ConnectPoll ==
  /\ pc = "connect"
  /\ \E take \in {0, 1} : LET c == Pump(take) IN
       /\ Taken(take)
       /\ \/ /\ c.state = "ESTABLISHED"
             /\ pc' = "request"
             /\ Send(c)
             /\ UNCHANGED <<tried, body>> /\ NoTimers
          \/ /\ c.state = "CLOSED"
             /\ Send(c)
             /\ NextTry /\ NoTimers
          \/ /\ c.state = "SYN_SENT" /\ t0 < ConnectTime
             /\ Send(SynAgain(c)) /\ tsyn' = 0
             /\ UNCHANGED <<pc, tried, body, t0>>
          \/ /\ c.state = "SYN_SENT" /\ t0 >= ConnectTime
             /\ Send([SynAgain(c) EXCEPT !.state = "CLOSED"])
             /\ NextTry /\ NoTimers
  /\ UNCHANGED <<opened, srv>>

Closed(c) ==
  IF c.state = "ESTABLISHED"
  THEN [Tx(c, {"FIN", "ACK"}, 0) EXCEPT !.seq = Add(@, 1), !.state = "CLOSED"]
  ELSE [c EXCEPT !.state = "CLOSED"]

\* tcp_send_data, then tcp_recv_data begins.
Request ==
  /\ pc = "request"
  /\ \/ /\ tcb.state = "ESTABLISHED"
        /\ Send([Tx(tcb, {"PSH", "ACK"}, ReqLen) EXCEPT !.seq = Add(@, ReqLen)])
        /\ pc' = "recv" /\ UNCHANGED body
     \/ /\ "noroute" \in Faults \/ tcb.state # "ESTABLISHED"
        /\ Send(Closed(tcb))
        /\ Return(Failed)
  /\ UNCHANGED <<tried, t0, tsyn, opened, srv, down>>

\* What http_get hands over: the header is cut off when it is all there.
Answer(c) ==
  LET all  == c.rx
      from == IF Len(all) >= Header THEN Header + 1 ELSE 1
  IN  IF all = <<>> THEN Failed
      ELSE SubSeq(all, from, Least(Len(all), from + MaxBody - 1))

\* Mutant of Over: the clock is not read.
OverUntimed(c) == c.fin \/ c.state = "CLOSED"
\* tcp_recv_data's loop ends with the connection or with the time.
Over(c) == c.fin \/ c.state = "CLOSED" \/ t0 >= RecvTime
RecvPoll ==
  /\ pc = "recv"
  /\ \E take \in {0, 1} : LET c == Pump(take) IN
       /\ Taken(take)
       /\ IF Over(c) THEN Send(Closed(c)) /\ Return(Answer(c)) /\ t0' = 0
                     ELSE Send(c) /\ UNCHANGED <<pc, body, t0>>
  /\ UNCHANGED <<tried, tsyn, opened, srv>>

\* Another command's polling loop (ping, DNS) finds a frame for this module.
Stray ==
  /\ pc = "idle"
  /\ down # <<>>
  /\ Send(RecvFrame(tcb, Head(down)))
  /\ down' = Tail(down)
  /\ UNCHANGED <<pc, tried, t0, tsyn, opened, body, srv>>

\* The task that runs the command is killed when the desktop exits (wm.c).
Kill ==
  /\ "kill" \in Faults
  /\ pc # "idle"
  /\ Return(Failed) /\ NoTimers
  /\ UNCHANGED <<tcb, tried, opened, srv, up, down>>

\* A second passes.  A loop looks at the clock far more often than that.
Tick ==
  /\ pc = "connect" => t0 < ConnectTime
  /\ pc = "recv" => t0 < RecvTime
  /\ t0' = IF pc \in {"connect", "recv"} THEN t0 + 1 ELSE t0
  /\ tsyn' = IF pc = "connect" THEN 1 ELSE tsyn
  /\ tcb' = [tcb EXCEPT !.retx.age = IF tcb.retx.active THEN 1 ELSE @]
  /\ UNCHANGED <<pc, tried, opened, body, srv, up, down>>

-----------------------------------------------------------------------------
(* The server and the wire.  The server keeps what it was sent, answers a   *)
(* request once and in order, and sends nothing twice (README).             *)

Reply(p, flags, seq, ack, data) ==
  /\ Len(down) < MaxWire
  /\ down' = Append(down, [port |-> p, flags |-> flags, seq |-> seq, ack |-> ack, data |-> data])

ServerRecv ==
  /\ up # <<>>
  /\ up' = Tail(up)
  /\ LET s == Head(up)  v == srv[s.port] IN
     \/ /\ "SYN" \in s.flags /\ ~v.req
        /\ srv' = [srv EXCEPT ![s.port].open = TRUE, ![s.port].rcv = Add(s.seq, 1)]
        /\ Reply(s.port, {"SYN", "ACK"}, 0, Add(s.seq, 1), <<>>)
     \/ /\ "SYN" \in s.flags /\ v.req
        /\ Reply(s.port, {"ACK"}, v.sent + 1, v.rcv, <<>>)
        /\ UNCHANGED srv
     \/ /\ s.len > 0
        /\ LET new == v.open /\ s.seq = v.rcv
               rcv == IF new THEN Add(v.rcv, s.len) ELSE v.rcv
           IN  /\ srv' = [srv EXCEPT ![s.port].rcv = rcv, ![s.port].req = @ \/ new]
               /\ Reply(s.port, {"ACK"}, v.sent + 1, rcv, <<>>)
  /\ UNCHANGED clientVars

\* n more pieces of the answer, the FIN with the last ones or after them.
ServerSend ==
  \E p \in 1 .. Conns, n \in 0 .. 2, f \in BOOLEAN :
    /\ srv[p].req /\ ~srv[p].fin
    /\ n > 0 \/ f
    /\ srv[p].sent + n <= Items
    /\ f => srv[p].sent + n = Items
    /\ Reply(p, IF f THEN {"ACK", "FIN"} ELSE {"ACK"}, srv[p].sent + 1, srv[p].rcv,
             [k \in 1 .. n |-> <<p, srv[p].sent + k>>])
    /\ srv' = [srv EXCEPT ![p].sent = @ + n, ![p].fin = f]
    /\ UNCHANGED <<clientVars, up>>

ServerReset ==
  /\ "reset" \in Faults
  /\ \E p \in 1 .. Least(opened, MaxReset) :
       /\ ~srv[p].fin
       /\ Reply(p, {"RST"}, 0, 0, <<>>)
       /\ srv' = [srv EXCEPT ![p].fin = TRUE]
  /\ UNCHANGED <<clientVars, up>>

\* A segment to the server is lost or arrives twice; a SYN+ACK is lost.
Lose ==
  /\ "lose" \in Faults
  /\ \/ up # <<>> /\ up' = Tail(up) /\ UNCHANGED down
     \/ /\ down # <<>> /\ "SYN" \in Head(down).flags
        /\ down' = Tail(down) /\ UNCHANGED up
  /\ UNCHANGED <<clientVars, srv>>
Duplicate ==
  /\ "dup" \in Faults
  /\ up # <<>> /\ Len(up) < MaxWire
  /\ up' = Append(up, Head(up))
  /\ UNCHANGED <<clientVars, srv, down>>

TcpClient == Connect \/ GiveUp \/ ConnectPoll \/ Request \/ RecvPoll
TcpNext ==
  \/ Get \/ TcpClient \/ Stray \/ Kill \/ Tick
  \/ ServerRecv \/ ServerSend \/ ServerReset \/ Lose \/ Duplicate

TcpSpec == TcpInit /\ [][TcpNext]_tcpVars /\ WF_tcpVars(TcpClient) /\ WF_tcpVars(Tick)

-----------------------------------------------------------------------------
(* Properties. *)

Segment == [port : 1 .. Conns, flags : SUBSET Flags, seq : 0 .. SeqSpace - 1,
            ack : 0 .. SeqSpace - 1, len : {0, ReqLen}]
\* The fields keep their types; a step leaves no segment behind unsent.
TcpTypeOK ==
  /\ tcb.state \in {"CLOSED", "SYN_SENT", "ESTABLISHED"}
  /\ tcb.port \in 0 .. opened /\ opened \in 0 .. Conns
  /\ {tcb.seq, tcb.ack, tcb.retx.end} \subseteq 0 .. SeqSpace - 1
  /\ Len(tcb.rx) <= RxSize /\ tcb.out = <<>>
  /\ tcb.retx.tries \in 0 .. MaxRetx + 1
  /\ tcb.retx.active => tcb.retx.seg \in Segment
  /\ pc \in {"idle", "start", "connect", "request", "recv"}
  /\ tried \in 0 .. Attempts /\ t0 \in 0 .. ConnectTime + RecvTime
  /\ \A k \in DOMAIN up : up[k] \in Segment

\* What was received is the beginning of what the server sends on this very
\* connection, in order, nothing twice and nothing left out; and what
\* http_get hands over is a piece of such an answer that begins at the body,
\* or at the start when the answer broke off within the header.  What the client
\* sends may be lost, repeated or late, SYN+ACKs may be lost or repeated, and
\* segments of earlier connections still arrive; but the server's data of this
\* connection come once and in order (ServerSend, Lose), since the client, which
\* compares no number, would take any others as well
\* (tcp_recv_frame, tcp.c:143 and 169 to 184; http_get, tcp.c:330).
InOrder ==
  /\ TcpTypeOK
  /\ \A k \in DOMAIN tcb.rx : tcb.rx[k] = <<tcb.port, k>>
  /\ body \notin {<<>>, Failed} =>
       \E p \in 1 .. opened : \E first \in {1, Header + 1} :
         \A k \in DOMAIN body : body[k] = <<p, first + k - 1>>

\* A request is not forgotten: until the server has it, the copy kept for
\* retransmission stays armed -- unless its end wraps around modulo 2^32,
\* where the comparison at tcp.c:163 takes any acknowledgement for it.
RequestKept ==
  pc = "recv" /\ tcb.state = "ESTABLISHED" /\ tcb.seq >= ReqLen
    => tcb.retx.active \/ srv[tcb.port].req

\* Every http_get returns, whatever the network does: the loops count ticks
\* (tcp.c:258 and 281) and the retransmissions are numbered (tcp.c:203).
GetEnds == (pc # "idle") ~> (pc = "idle")

=============================================================================
