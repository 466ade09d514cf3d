--------------------------- MODULE NetworkProofs ---------------------------
(***************************************************************************)
(* Proofs about Net, Nic and Tcp.  Net: a command uses an answer for its   *)
(* own question, and the cache finds what it heard last, with any number   *)
(* of hosts, commands and cache entries.  Nic: the rings hand frames over  *)
(* in order, whatever their sizes and the moments at which the card gets   *)
(* in between the driver's stores.  Tcp: the receive buffer holds what the *)
(* server sent, in order, and a lost request is still there to be sent     *)
(* again, however many connections, segments and faults there are.         *)
(***************************************************************************)
EXTENDS Tcp, Net, Nic, SequenceTheorems, WellFoundedInduction, TLAPS

Hosts  == Local \cup Far \cup Names \cup Leases \cup {OwnIp, None}
Frames == [kind : {None, "arp", "echo", "dns", "offer", "ack", "nak"},
           from : Hosts, id : Nat, mac : Nat, call : Nat]
Places == {"idle", "ping", "query", "discover", "warm", "arp", "echo", "dns", "offer", "ack"}
Calls  == [cmd : Commands \cup {<<None, None>>}, at : Places, to : Local \cup {None},
           tries : Nat, age : Nat, list : Seq(Local \cup Far), offer : Leases \cup {None},
           i : Nat, best : Nat, rtt : Nat, late : BOOLEAN]

\* What a frame's fields say, as a question or as an answer; n commands have begun.
FrameOK(f, n) ==
  /\ f.call <= n
  /\ f.kind = "arp" => f.from \in Local
  /\ f.kind = "dns" => f.from \in Names
  /\ f.kind = "ack" => f.from \in Leases /\ f.id <= n
\* The frames that call c, the n-th one, caused answer what it asked.
Own(f, c, n) ==
  c.at # "idle" =>
    /\ f.kind = "echo" /\ f.call = n => f.id \in 1 .. Len(c.list) /\ f.from = c.list[f.id]
    /\ f.kind = "dns" /\ f.call = n => f.from = c.cmd[2]
    /\ f.kind = "ack" /\ f.id = n => c.at \notin {"discover", "offer"} /\ f.from = c.offer
Good(f, c, n) == FrameOK(f, n) /\ Own(f, c, n)
AnswerOK(f) ==
  /\ f.kind = "arp" => f.mac \in 1 .. 2
  /\ f.kind = "offer" => f.from \in Leases
RingOK(r, c, n) ==
  /\ r \in Seq(Frames) /\ Len(r) <= MaxRing
  /\ \A k \in 1 .. Len(r) : AnswerOK(r[k]) /\ Good(r[k], c, n)
AskedOK(A, c, n) == A \subseteq Frames /\ \A f \in A : Good(f, c, n)

ByName(c) == c.cmd[1] \in {"host", "lookup"}
\* Which parts of the call say what, where it is.
CallOK(c) ==
  /\ c.at # "idle" => c.cmd \in Commands
  /\ c.at \in {"ping", "echo"} => c.list # <<>>
  /\ c.at \in {"query", "dns"} => ByName(c) /\ c.list = <<>>
  /\ c.at \in {"discover", "offer", "ack", "warm"} => c.cmd[1] = "dhcp"
  /\ c.at = "arp" => c.to \in Local /\ c.tries \in 1 .. ArpTries
  /\ IF c.list = <<>> THEN c.i = 0 ELSE c.i \in 1 .. Len(c.list)
  /\ c.best <= c.i
  /\ c.cmd[1] = "ping" => c.list = <<c.cmd[2]>>
  /\ c.cmd[1] = "dhcp" => c.list = <<>>
  /\ ByName(c) /\ c.list # <<>> /\ ~c.late => c.list = Addrs[c.cmd[2]]
\* While a command waits for a datagram or an echo, what was there before is gone.
WaitOK(c, u, e) ==
  /\ \/ c.at \in {"query", "dns"}
     \/ c.at = "arp" /\ ByName(c) /\ c.list = <<>>
     => u.port = DnsPort /\ u.data = Silence
  /\ c.at \in {"discover", "offer", "ack"} => u.port = DhcpPort /\ u.data = Silence
  /\ c.at = "echo" => e.got = Silence
UdpOK(u) ==
  /\ u \in [port : {0, DnsPort, DhcpPort}, data : Frames]
  /\ u.data # Silence => u.data.kind \in Datagrams /\ PortOf(u.data) = u.port
CacheOK(c) == c \in [Slots -> {Empty} \cup (Local \X (1 .. 2))]
CfgOK(g)   == g \in [ip : {OwnIp} \cup Leases, gw : Local, dns : Local]
EchoOK(e)  == e \in [seq : Nat, got : Frames]
Right(r, g) ==
  r.ok /\ ~r.late =>
    /\ r.cmd[1] = "dhcp" => r.got = g.ip
    /\ r.cmd[1] = "ping" => r.got = r.cmd[2]
    /\ r.cmd[1] \notin {"dhcp", "ping"} => r.got \in ToSet(Addrs[r.cmd[2]])
ResultOK(r, c, g) == (c.at # "idle" => r = NoResult) /\ Right(r, g)

NetInv ==
  /\ CacheOK(cache) /\ CfgOK(cfg) /\ UdpOK(udp) /\ EchoOK(echo)
  /\ calls \in Nat /\ mac \in [Local -> 1 .. 2]
  /\ call \in Calls /\ CallOK(call) /\ WaitOK(call, udp, echo)
  /\ call.at = "warm" => cfg.ip = call.offer
  /\ ResultOK(result, call, cfg)
  /\ AskedOK(asked, call, calls) /\ RingOK(ring, call, calls)

-----------------------------------------------------------------------------
(***************************************************************************)
(* The cache.                                                              *)
(***************************************************************************)
LEMMA NetConsts ==
  /\ Gw \in Local /\ Dns \in Local
  /\ CacheSize \in Nat \ {0} /\ ArpTries \in Nat \ {0} /\ MaxRing \in Nat \ {0}
  /\ \A n \in Names : Addrs[n] \in Seq(Local \cup Far) /\ Addrs[n] # <<>>
BY NetAssumption

LEMMA LeastSlot ==
  ASSUME NEW S \in SUBSET Slots, S # {}
  PROVE  /\ (CHOOSE s \in S : \A r \in S : s <= r) \in S
         /\ \A r \in S : (CHOOSE s \in S : \A q \in S : s <= q) <= r
<1>. DEFINE LT == {p \in Nat \X Nat : p[1] < p[2]}
<1>1. IsWellFoundedOn(LT, Nat)
  BY NatLessThanWellFounded DEF OpToRel
<1>2. S \subseteq Nat
  BY NetConsts DEF Slots
<1>3. \E s \in S : \A r \in S : ~(<<r, s>> \in LT)
  <2>. HIDE DEF LT
  <2>. QED
    BY <1>1, <1>2, WFMin
<1>4. \A r, s \in Nat : <<r, s>> \notin LT => s <= r
  OBVIOUS
<1>5. \E s \in S : \A r \in S : s <= r
  <2>. HIDE DEF LT
  <2>. QED
    BY <1>2, <1>3, <1>4
<1>. QED
  BY <1>5

\* An insertion goes to the first entry of the address, or to a slot of its own.
LEMMA PlaceFacts ==
  ASSUME CacheOK(cache), NEW ip \in Local
  PROVE  /\ Place(ip) \in Slots
         /\ (\E s \in Slots : Holds(s, ip)) => Holds(Place(ip), ip)
         /\ \A r \in 1 .. Place(ip) - 1 : ~Holds(r, ip)
<1>. DEFINE same == {s \in Slots : Holds(s, ip)}
            free == {s \in Slots : cache[s] = Empty}
            least(S) == CHOOSE s \in S : \A r \in S : s <= r
<1>1. Place(ip) = IF same # {} THEN least(same) ELSE IF free # {} THEN least(free) ELSE 1
  BY DEF Place
<1>2. 1 \in Slots
  BY NetConsts DEF Slots
<1>3. CASE same # {}
  <2>1. Place(ip) = least(same)
    BY <1>1, <1>3
  <2>2. least(same) \in same /\ \A r \in same : least(same) <= r
    BY <1>3, LeastSlot
  <2>3. least(same) \in Slots
    BY <2>2
  <2>4. \A r \in 1 .. Place(ip) - 1 : r \in Slots
    BY <2>1, <2>3, NetConsts DEF Slots
  <2>. QED
    <3>. HIDE DEF least
    <3>. QED
      BY <2>1, <2>2, <2>3, <2>4, NetConsts DEF Slots
<1>4. CASE same = {}
  <2>1. Place(ip) \in Slots
    <3>1. CASE free # {}
      <4>1. least(free) \in free
        BY <3>1, LeastSlot
      <4>. QED
        BY <1>1, <1>4, <3>1, <4>1
    <3>2. CASE free = {}
      BY <1>1, <1>2, <1>4, <3>2
    <3>. QED
      BY <3>1, <3>2
  <2>2. \A r \in 1 .. Place(ip) - 1 : r \in Slots
    BY <2>1, NetConsts DEF Slots
  <2>. QED
    BY <1>4, <2>1, <2>2
<1>. QED
  BY <1>3, <1>4

LEMMA HeardOK ==
  ASSUME CacheOK(cache), NEW f \in Frames, AnswerOK(f), f.kind = "arp" => f.from \in Local
  PROVE  CacheOK(Heard(f))
<1>1. CASE f.kind # "arp"
  BY <1>1 DEF Heard
<1>2. CASE f.kind = "arp"
  <2>1. Place(f.from) \in Slots /\ <<f.from, f.mac>> \in Local \X (1 .. 2)
    BY <1>2, PlaceFacts DEF AnswerOK
  <2>2. Heard(f) = [cache EXCEPT ![Place(f.from)] = <<f.from, f.mac>>]
    BY <1>2 DEF Heard, Learned
  <2>. QED
    BY <2>1, <2>2 DEF CacheOK
<1>. QED
  BY <1>1, <1>2

\* What was heard last is found first.
LEMMA HeardFresh ==
  ASSUME CacheOK(cache), NEW f \in Frames, f.kind = "arp", f.from \in Local, f.mac \in 1 .. 2
  PROVE  Lookup(Heard(f), f.from) = f.mac
<1>. DEFINE ip == f.from
            p == Place(ip)
            c == Heard(f)
            First(s) == /\ c[s] # Empty /\ c[s][1] = ip
                        /\ \A r \in 1 .. s - 1 : c[r] = Empty \/ c[r][1] # ip
<1>1. /\ p \in Slots
      /\ \A r \in 1 .. p - 1 : ~Holds(r, ip)
      /\ (\E s \in Slots : Holds(s, ip)) => Holds(p, ip)
  BY PlaceFacts
<1>2. c = [cache EXCEPT ![p] = <<ip, f.mac>>]
  BY DEF Heard, Learned
<1>3. c[p] = <<ip, f.mac>> /\ \A s \in Slots \ {p} : c[s] = cache[s]
  BY <1>1, <1>2 DEF CacheOK
<1>4. c[p] # Empty /\ c[p][1] = ip
  BY <1>3 DEF Empty
<1>. HIDE DEF p, c
<1>5. \A r \in 1 .. p - 1 : r \in Slots \ {p}
  BY <1>1, NetConsts DEF Slots
<1>6. First(p)
  BY <1>1, <1>3, <1>4, <1>5 DEF Holds
<1>7. ASSUME NEW s \in Slots, First(s) PROVE s = p
  <2>1. CASE s < p
    <3>1. s \in 1 .. p - 1
      BY <1>1, <2>1, NetConsts DEF Slots
    <3>. QED
      BY <1>1, <1>3, <1>5, <1>7, <3>1 DEF Holds
  <2>2. CASE p < s
    <3>1. p \in 1 .. s - 1
      BY <1>1, <2>2, NetConsts DEF Slots
    <3>. QED
      BY <1>4, <1>7, <3>1
  <2>. QED
    BY <1>1, <2>1, <2>2, NetConsts DEF Slots
<1>8. (CHOOSE s \in Slots : First(s)) = p
  <2>. HIDE DEF First
  <2>. QED
    BY <1>1, <1>6, <1>7
<1>9. Lookup(c, ip) = c[CHOOSE s \in Slots : First(s)][2]
  BY DEF Lookup
<1>10. c[p][2] = f.mac
  BY <1>3
<1>11. Lookup(c, ip) = f.mac
  BY <1>8, <1>9, <1>10
<1>. QED
  BY <1>11 DEF c

-----------------------------------------------------------------------------
(***************************************************************************)
(* Frames, the ring and the questions on the wire.                         *)
(***************************************************************************)

\* What was asked as part of call c is still so for what c became.
Keeps(c, d) ==
  \/ d.at = "idle"
  \/ /\ c.at # "idle" /\ d.cmd = c.cmd
     /\ d.list = c.list \/ c.list = <<>>
     /\ d.offer = c.offer \/ c.at \in {"discover", "offer"}
     /\ d.at \in {"discover", "offer"} => c.at \in {"discover", "offer"}

LEMMA OwnKeeps ==
  ASSUME NEW f, NEW n, NEW c, NEW d, Keeps(c, d), Own(f, c, n) PROVE Own(f, d, n)
BY DEF Keeps, Own

LEMMA AskedKeeps ==
  ASSUME NEW A, NEW n, NEW c, NEW d, Keeps(c, d), AskedOK(A, c, n) PROVE AskedOK(A, d, n)
BY OwnKeeps DEF AskedOK, Good

LEMMA AskedMore ==
  ASSUME NEW A, NEW n, NEW c, NEW d, Keeps(c, d), AskedOK(A, c, n),
         NEW q \in Frames, Good(q, d, n)
  PROVE  AskedOK(A \cup {q}, d, n)
<1>1. AskedOK(A, d, n)
  BY AskedKeeps
<1>. QED
  BY <1>1 DEF AskedOK

LEMMA RingKeeps ==
  ASSUME NEW r, NEW n, NEW c, NEW d, Keeps(c, d), RingOK(r, c, n) PROVE RingOK(r, d, n)
BY OwnKeeps DEF RingOK, Good

\* A new command has caused no frame yet.
LEMMA BeginKeeps ==
  ASSUME NEW A, NEW r, NEW n \in Nat, NEW c, NEW d, AskedOK(A, c, n), RingOK(r, c, n)
  PROVE  AskedOK(A, d, n + 1) /\ RingOK(r, d, n + 1)
<1>1. ASSUME NEW f \in Frames, Good(f, c, n) PROVE Good(f, d, n + 1)
  <2>1. f.call \in Nat /\ f.id \in Nat /\ f.call <= n /\ (f.kind = "ack" => f.id <= n)
    BY <1>1 DEF Frames, Good, FrameOK
  <2>2. f.call <= n + 1 /\ f.call # n + 1 /\ (f.kind = "ack" => f.id <= n + 1 /\ f.id # n + 1)
    BY <2>1
  <2>. QED
    BY <1>1, <2>2 DEF Good, FrameOK, Own
<1>2. AskedOK(A, d, n + 1)
  BY <1>1 DEF AskedOK
<1>3. \A k \in 1 .. Len(r) : r[k] \in Frames
  BY DEF RingOK
<1>. QED
  BY <1>1, <1>2, <1>3 DEF RingOK

LEMMA SilenceOK == Silence \in Frames /\ Silence.kind = None /\ AnswerOK(Silence)
                   /\ \A c : \A n \in Nat : Good(Silence, c, n)
BY DEF Silence, Frames, Hosts, AnswerOK, Good, FrameOK, Own, None

LEMMA ReadFacts ==
  ASSUME NetInv, NEW take \in {0, 1}, Read(take)
  PROVE  /\ RingOK(ring', call, calls)
         /\ Frame(take) \in Frames /\ AnswerOK(Frame(take)) /\ Good(Frame(take), call, calls)
<1>1. ring \in Seq(Frames) /\ Len(ring) <= MaxRing /\ calls \in Nat
      /\ \A k \in 1 .. Len(ring) : AnswerOK(ring[k]) /\ Good(ring[k], call, calls)
  BY DEF NetInv, RingOK
<1>2. take <= Len(ring) /\ Len(ring) \in Nat /\ ring' = SubSeq(ring, take + 1, Len(ring))
  BY <1>1 DEF Read
<1>3. /\ ring' \in Seq(Frames) /\ Len(ring') = Len(ring) - take
      /\ \A k \in 1 .. Len(ring') : ring'[k] = ring[k + take]
  <2>1. take + 1 \in 1 .. Len(ring) + 1 /\ Len(ring) \in take .. Len(ring)
    BY <1>2
  <2>. QED
    BY <1>1, <1>2, <2>1, SubSeqProperties
<1>4. RingOK(ring', call, calls)
  <2>1. Len(ring') <= MaxRing /\ \A k \in 1 .. Len(ring') : k + take \in 1 .. Len(ring)
    BY <1>1, <1>2, <1>3, NetConsts
  <2>. QED
    BY <1>1, <1>3, <2>1 DEF RingOK
<1>5. CASE take = 0
  BY <1>1, <1>4, <1>5, SilenceOK DEF Frame
<1>6. CASE take = 1
  <2>1. 1 \in 1 .. Len(ring) /\ Frame(take) = ring[1] /\ ring[1] \in Frames
    BY <1>1, <1>2, <1>6 DEF Frame
  <2>. QED
    BY <1>1, <1>4, <2>1
<1>. QED
  BY <1>5, <1>6

LEMMA EchoedOK ==
  ASSUME EchoOK(echo), NEW f \in Frames
  PROVE  /\ EchoOK(Echoed(f))
         /\ Echoed(f).got = echo.got \/ (Echoed(f).got = f /\ f.kind = "echo")
BY DEF EchoOK, Echoed

LEMMA DeliveredOK ==
  ASSUME UdpOK(udp), NEW f \in Frames
  PROVE  /\ UdpOK(Delivered(f)) /\ Delivered(f).port = udp.port
         /\ \/ Delivered(f).data = udp.data
            \/ Delivered(f).data = f /\ f.kind \in Datagrams /\ PortOf(f) = udp.port
BY DEF UdpOK, Delivered

\* One pass of a polling loop: what it makes of the cache, the echo and the listener.
LEMMA PollFacts ==
  ASSUME NetInv, NEW take \in {0, 1}, Read(take)
  PROVE  /\ RingOK(ring', call, calls)
         /\ Frame(take) \in Frames /\ Good(Frame(take), call, calls)
         /\ CacheOK(Heard(Frame(take))) /\ EchoOK(Echoed(Frame(take))) /\ UdpOK(Delivered(Frame(take)))
         /\ AnswerOK(Frame(take))
<1>1. /\ RingOK(ring', call, calls) /\ Frame(take) \in Frames
      /\ AnswerOK(Frame(take)) /\ Good(Frame(take), call, calls)
  BY ReadFacts
<1>2. PICK f : f = Frame(take)
  OBVIOUS
<1>3. f \in Frames /\ AnswerOK(f) /\ (f.kind = "arp" => f.from \in Local)
  BY <1>1, <1>2 DEF Good, FrameOK
<1>4. CacheOK(cache) /\ EchoOK(echo) /\ UdpOK(udp)
  BY DEF NetInv
<1>5. CacheOK(Heard(f)) /\ EchoOK(Echoed(f)) /\ UdpOK(Delivered(f))
  BY <1>3, <1>4, HeardOK, EchoedOK, DeliveredOK
<1>. QED
  BY <1>1, <1>2, <1>5

-----------------------------------------------------------------------------
(***************************************************************************)
(* How a command begins, goes on and ends.                                 *)
(***************************************************************************)
LEMMA NoCallOK ==
  /\ NoCall \in Calls /\ CallOK(NoCall)
  /\ \A c : Keeps(c, NoCall)
  /\ \A u, e : WaitOK(NoCall, u, e)
  /\ NoCall.at = "idle"
<1>1. NoCall \in Calls
  BY DEF NoCall, Calls, Places
<1>2. /\ NoCall.at = "idle" /\ NoCall.list = <<>> /\ NoCall.i = 0 /\ NoCall.best = 0
      /\ NoCall.cmd[1] = None
  BY DEF NoCall
<1>3. CallOK(NoCall)
  BY <1>2 DEF CallOK, ByName, None
<1>. QED
  BY <1>1, <1>2, <1>3 DEF Keeps, WaitOK

\* What a step must show about the call that it leaves.
Goes(d) == d \in Calls /\ CallOK(d) /\ Keeps(call, d)

LEMMA FinishOK ==
  ASSUME NEW ok, NEW got, NEW late, Finish(ok, got, late), ok \in BOOLEAN, late \in BOOLEAN,
         NEW g,
         ok /\ ~late =>
           /\ call.cmd[1] = "dhcp" => got = g.ip
           /\ call.cmd[1] = "ping" => got = call.cmd[2]
           /\ call.cmd[1] \notin {"dhcp", "ping"} => got \in ToSet(Addrs[call.cmd[2]])
  PROVE  call' = NoCall /\ Goes(call') /\ ResultOK(result', call', g)
<1>1. call' = NoCall
      /\ result' = [cmd |-> call.cmd, ok |-> ok, got |-> got, call |-> calls, late |-> late]
  BY DEF Finish
<1>2. Goes(call') /\ call'.at = "idle"
  BY <1>1, NoCallOK DEF Goes
<1>3. /\ result'.cmd = call.cmd /\ result'.ok = ok /\ result'.got = got /\ result'.late = late
  BY <1>1
<1>4. Right(result', g)
  BY <1>3 DEF Right
<1>. QED
  BY <1>1, <1>2, <1>4 DEF ResultOK

LEMMA CallFacts ==
  ASSUME NetInv
  PROVE  /\ call \in Calls /\ CallOK(call) /\ WaitOK(call, udp, echo)
         /\ call.cmd \in Commands \cup {<<None, None>>} /\ call.at \in Places /\ call.to \in Local \cup {None}
         /\ call.tries \in Nat /\ call.age \in Nat /\ call.list \in Seq(Local \cup Far)
         /\ call.offer \in Leases \cup {None} /\ call.i \in Nat /\ call.best \in Nat /\ call.rtt \in Nat
         /\ call.late \in BOOLEAN /\ calls \in Nat
         /\ call.at # "idle" => result = NoResult
BY DEF NetInv, Calls, ResultOK

\* The commands there are.
LEMMA CommandFacts ==
  ASSUME NEW cmd \in Commands
  PROVE  /\ cmd[1] \in {"ping", "host", "lookup", "dhcp"}
         /\ cmd[1] = "ping" => cmd[2] \in Local \cup Far
         /\ cmd[1] \in {"host", "lookup"} => cmd[2] \in Names
<1>1. cmd \in ({"ping"} \X (Local \cup Far)) \cup ({"host", "lookup"} \X Names) \cup {<<"dhcp", Gw>>}
  BY NetAssumption
<1>. QED
  BY <1>1

LEMMA HopLocal == ASSUME NetInv, NEW dst PROVE Hop(dst) \in Local
BY DEF Hop, NetInv, CfgOK

LEMMA StartArpOK ==
  ASSUME NetInv, call.at \in {"ping", "query", "warm"}, NEW dst, StartArp(call, dst)
  PROVE  /\ Goes(call') /\ AskedOK(asked', call', calls)
         /\ call'.at = "arp" /\ call'.cmd = call.cmd /\ call'.list = call.list
<1>. PICK h \in Local : h = Hop(dst)
  BY HopLocal
<1>1. call' = [call EXCEPT !.at = "arp", !.to = h, !.tries = 1, !.age = 0]
      /\ asked' = asked \cup {Question("arp", h, 0)}
  BY DEF StartArp, AskArp, Ask
<1>2. call \in Calls /\ CallOK(call) /\ calls \in Nat
  BY CallFacts
<1>3. /\ call' \in Calls /\ call'.at = "arp" /\ call'.cmd = call.cmd /\ call'.list = call.list
      /\ call'.to = h /\ call'.tries = 1 /\ call'.i = call.i /\ call'.best = call.best
      /\ call'.late = call.late /\ call'.offer = call.offer
  BY <1>1, <1>2 DEF Calls, Places
<1>4. CallOK(call')
  BY <1>2, <1>3, NetConsts DEF CallOK, ByName
<1>5. Keeps(call, call')
  BY <1>3 DEF Keeps
<1>6. Question("arp", h, 0) \in Frames /\ Good(Question("arp", h, 0), call', calls)
  BY <1>2 DEF Question, Frames, Hosts, Good, FrameOK, Own
<1>7. AskedOK(asked', call', calls)
  BY <1>1, <1>5, <1>6, AskedMore DEF NetInv
<1>. QED
  BY <1>3, <1>4, <1>5, <1>7 DEF Goes

LEMMA SendEchoOK ==
  ASSUME NetInv, call.at \in {"ping", "arp"}, call.list # <<>>,
         SendEcho(call, call.list[call.i], call.i)
  PROVE  /\ Goes(call') /\ AskedOK(asked', call', calls)
         /\ EchoOK(echo') /\ echo'.got = Silence /\ call'.at = "echo"
<1>. DEFINE q == Question("echo", call.list[call.i], call.i)
<1>1. call' = [call EXCEPT !.at = "echo", !.age = 0]
      /\ asked' = asked \cup {q} /\ echo' = [seq |-> call.i, got |-> Silence]
  BY DEF SendEcho, Ask
<1>2. call \in Calls /\ CallOK(call) /\ calls \in Nat /\ call.i \in Nat /\ call.list \in Seq(Local \cup Far)
  BY CallFacts
<1>3. /\ call' \in Calls /\ call'.at = "echo" /\ call'.cmd = call.cmd /\ call'.list = call.list
      /\ call'.i = call.i /\ call'.best = call.best
      /\ call'.late = call.late /\ call'.offer = call.offer
  BY <1>1, <1>2 DEF Calls, Places
<1>4. CallOK(call')
  BY <1>2, <1>3 DEF CallOK, ByName
<1>5. Keeps(call, call')
  BY <1>3 DEF Keeps
<1>6. call.i \in 1 .. Len(call.list) /\ call.list[call.i] \in Local \cup Far
  BY <1>2 DEF CallOK
<1>7. q \in Frames /\ q.kind = "echo" /\ q.id = call.i /\ q.from = call.list[call.i] /\ q.call = calls
  BY <1>2, <1>6 DEF Question, Frames, Hosts
<1>8. Good(q, call', calls)
  BY <1>2, <1>3, <1>6, <1>7 DEF Good, FrameOK, Own
<1>9. AskedOK(asked', call', calls)
  <2>. HIDE DEF q
  <2>. QED
    BY <1>1, <1>5, <1>7, <1>8, AskedMore DEF NetInv
<1>10. EchoOK(echo') /\ echo'.got = Silence
  BY <1>1, <1>2, SilenceOK DEF EchoOK
<1>. QED
  BY <1>3, <1>4, <1>5, <1>9, <1>10 DEF Goes

LEMMA SendQueryOK ==
  ASSUME NetInv, call.at \in {"query", "arp"}, ByName(call), call.list = <<>>, SendQuery(call)
  PROVE  Goes(call') /\ AskedOK(asked', call', calls) /\ call'.at = "dns"
<1>. DEFINE q == Question("dns", call.cmd[2], 0)
<1>1. call' = [call EXCEPT !.at = "dns", !.age = 0] /\ asked' = asked \cup {q}
  BY DEF SendQuery, Ask
<1>2. call \in Calls /\ CallOK(call) /\ calls \in Nat
  BY CallFacts
<1>3. /\ call' \in Calls /\ call'.at = "dns" /\ call'.cmd = call.cmd /\ call'.list = call.list
      /\ call'.i = call.i /\ call'.best = call.best
      /\ call'.late = call.late /\ call'.offer = call.offer
  BY <1>1, <1>2 DEF Calls, Places
<1>4. CallOK(call')
  BY <1>2, <1>3 DEF CallOK, ByName
<1>5. Keeps(call, call')
  BY <1>3 DEF Keeps
<1>6. call.cmd[2] \in Names
  BY <1>2, CommandFacts DEF CallOK, ByName
<1>7. q \in Frames /\ q.kind = "dns" /\ q.from = call.cmd[2] /\ q.call = calls
  BY <1>2, <1>6 DEF Question, Frames, Hosts
<1>8. Good(q, call', calls)
  BY <1>2, <1>3, <1>6, <1>7 DEF Good, FrameOK, Own
<1>9. AskedOK(asked', call', calls)
  <2>. HIDE DEF q
  <2>. QED
    BY <1>1, <1>5, <1>7, <1>8, AskedMore DEF NetInv
<1>. QED
  BY <1>3, <1>4, <1>5, <1>9 DEF Goes

LEMMA NoResultOK == \A c, g : ResultOK(NoResult, c, g)
BY DEF NoResult, ResultOK, Right

LEMMA NextProbeOK ==
  ASSUME NetInv, call.at \in {"echo", "arp"}, ByName(call), call.list # <<>>,
         NEW late \in BOOLEAN, call.late => late,
         NEW c \in Calls, c.at = call.at, c.cmd = call.cmd, c.list = call.list, c.i = call.i,
         c.offer = call.offer, c.best <= c.i,
         NextProbe(c, late), NEW g
  PROVE  Goes(call') /\ ResultOK(result', call', g) /\ call'.at \in {"ping", "idle"}
<1>1. /\ CallOK(call) /\ call.list \in Seq(Local \cup Far) /\ call.i \in 1 .. Len(call.list)
      /\ result = NoResult /\ c.best \in Nat /\ c.i \in Nat /\ call.cmd[1] \in {"host", "lookup"}
      /\ Len(call.list) \in Nat
  BY CallFacts DEF CallOK, ByName, Calls
<1>2. CASE c.i < Len(c.list)
  <2>1. call' = [c EXCEPT !.at = "ping", !.i = c.i + 1, !.late = late] /\ result' = NoResult
    BY <1>1, <1>2 DEF NextProbe
  <2>2. /\ call' \in Calls /\ call'.at = "ping" /\ call'.cmd = call.cmd /\ call'.list = call.list
        /\ call'.i = call.i + 1 /\ call'.best = c.best /\ call'.offer = call.offer
        /\ (~call'.late => ~late)
    <3>. PICK k \in Nat : k = c.i + 1
      BY <1>1
    <3>1. call' = [c EXCEPT !.at = "ping", !.i = k, !.late = late]
      BY <2>1
    <3>2. call' \in Calls
      BY <3>1 DEF Calls, Places
    <3>3. /\ call'.at = "ping" /\ call'.cmd = c.cmd /\ call'.list = c.list
          /\ call'.i = k /\ call'.best = c.best /\ call'.offer = c.offer /\ call'.late = late
      BY <3>1 DEF Calls
    <3>. QED
      BY <3>2, <3>3
  <2>3. call'.i \in 1 .. Len(call'.list) /\ call'.best <= call'.i
    BY <1>1, <1>2, <2>2
  <2>4. CallOK(call')
    BY <1>1, <2>2, <2>3 DEF CallOK, ByName
  <2>5. Keeps(call, call')
    BY <2>2 DEF Keeps
  <2>. QED
    BY <2>1, <2>2, <2>4, <2>5, NoResultOK DEF Goes
<1>3. CASE ~(c.i < Len(c.list))
  <2>. DEFINE k == IF c.best = 0 THEN 1 ELSE c.best
  <2>1. Finish(TRUE, c.list[k], late)
    BY <1>3 DEF NextProbe
  <2>2. k \in 1 .. Len(call.list)
    BY <1>1
  <2>3. ~late => call.list[k] \in ToSet(Addrs[call.cmd[2]])
    <3>1. ~late => call.list = Addrs[call.cmd[2]]
      BY <1>1 DEF CallOK, ByName
    <3>2. call.list[k] \in ToSet(call.list)
      BY <1>1, <2>2 DEF ToSet
    <3>. QED
      BY <3>1, <3>2
  <2>4. /\ call' = NoCall /\ Goes(call') /\ ResultOK(result', call', g)
    <3>. PICK got : got = call.list[k]
      OBVIOUS
    <3>1. Finish(TRUE, got, late)
      BY <2>1
    <3>2. call.cmd[1] \notin {"dhcp", "ping"}
      BY <1>1
    <3>3. ~late => got \in ToSet(Addrs[call.cmd[2]])
      BY <2>3
    <3>. HIDE DEF k
    <3>. QED
      BY <3>1, <3>2, <3>3, FinishOK
  <2>. QED
    BY <2>4, NoCallOK
<1>. QED
  BY <1>2, <1>3

LEMMA NoAnswerOK ==
  ASSUME NetInv, call.at \in {"echo", "arp"}, call.list # <<>>,
         NEW late \in BOOLEAN, call.late => late, NoAnswer(late), NEW g
  PROVE  Goes(call') /\ ResultOK(result', call', g) /\ call'.at \in {"ping", "idle"}
<1>1. CASE call.cmd[1] = "ping"
  BY <1>1, FinishOK, NoCallOK DEF NoAnswer
<1>2. CASE call.cmd[1] # "ping"
  <2>1. ByName(call) /\ call \in Calls /\ call.best <= call.i
    BY <1>2, CallFacts, CommandFacts DEF CallOK, ByName
  <2>. QED
    BY <1>2, <2>1, NextProbeOK DEF NoAnswer
<1>. QED
  BY <1>1, <1>2

LEMMA PingAnsweredOK ==
  ASSUME NetInv, call.at = "echo", NEW host, NEW late \in BOOLEAN, call.late => late,
         ~late /\ call.cmd[1] = "ping" => host = call.cmd[2], PingAnswered(host, late), NEW g
  PROVE  Goes(call') /\ ResultOK(result', call', g) /\ call'.at \in {"ping", "idle"}
<1>0. call.list # <<>> /\ call \in Calls /\ call.best <= call.i /\ call.i \in Nat /\ call.age \in Nat
  BY CallFacts DEF CallOK
<1>1. CASE call.cmd[1] = "ping"
  BY <1>1, FinishOK, NoCallOK DEF PingAnswered
<1>2. CASE call.cmd[1] # "ping"
  <2>1. ByName(call)
    BY <1>0, <1>2, CallFacts, CommandFacts DEF CallOK, ByName
  <2>. DEFINE c == IF Better(call.age) THEN [call EXCEPT !.best = call.i, !.rtt = call.age] ELSE call
  <2>2. /\ c \in Calls /\ c.at = call.at /\ c.cmd = call.cmd /\ c.list = call.list /\ c.i = call.i
        /\ c.offer = call.offer /\ c.best <= c.i
    <3>1. CASE Better(call.age)
      <4>1. c = [call EXCEPT !.best = call.i, !.rtt = call.age]
        BY <3>1
      <4>2. c \in Calls
        BY <1>0, <4>1 DEF Calls
      <4>. QED
        BY <1>0, <4>1, <4>2 DEF Calls
    <3>2. CASE ~Better(call.age)
      BY <1>0, <3>2
    <3>. QED
      BY <3>1, <3>2
  <2>3. NextProbe(c, late)
    BY <1>2 DEF PingAnswered
  <2>. HIDE DEF c
  <2>. QED
    BY <1>0, <2>1, <2>2, <2>3, NextProbeOK
<1>. QED
  BY <1>1, <1>2

LEMMA AddressesOK ==
  ASSUME NetInv, call.at = "dns", NEW name \in Names, NEW late \in BOOLEAN, call.late => late,
         ~late => name = call.cmd[2], Addresses(name, late), NEW g
  PROVE  Goes(call') /\ ResultOK(result', call', g) /\ call'.at \in {"ping", "idle"}
<1>1. /\ call \in Calls /\ CallOK(call) /\ call.list = <<>> /\ call.cmd[1] \in {"host", "lookup"}
      /\ result = NoResult /\ call.i = 0 /\ call.best \in Nat
  BY CallFacts DEF CallOK, ByName
<1>2. Addrs[name] \in Seq(Local \cup Far) /\ Addrs[name] # <<>> /\ 1 \in 1 .. Len(Addrs[name])
  BY NetConsts
<1>3. CASE call.cmd[1] = "lookup" \/ Len(Addrs[name]) = 1
  <2>1. Finish(TRUE, Addrs[name][1], late)
    BY <1>3 DEF Addresses
  <2>2. ~late => Addrs[name][1] \in ToSet(Addrs[call.cmd[2]])
    BY <1>2 DEF ToSet
  <2>3. call' = NoCall /\ Goes(call') /\ ResultOK(result', call', g)
    BY <1>1, <2>1, <2>2, FinishOK
  <2>. QED
    BY <2>3, NoCallOK
<1>4. CASE ~(call.cmd[1] = "lookup" \/ Len(Addrs[name]) = 1)
  <2>. PICK L \in Seq(Local \cup Far) : L = Addrs[name]
    BY <1>2
  <2>1. call' = [call EXCEPT !.at = "ping", !.list = L, !.i = 1, !.late = late] /\ result' = NoResult
    BY <1>1, <1>4 DEF Addresses
  <2>2. /\ call' \in Calls /\ call'.at = "ping" /\ call'.cmd = call.cmd /\ call'.list = L
        /\ call'.i = 1 /\ call'.best = call.best /\ call'.offer = call.offer
        /\ (~call'.late => ~late)
    BY <1>1, <2>1 DEF Calls, Places
  <2>3. CallOK(call')
    <3>1. call'.best <= call'.i
      BY <1>1, <2>2 DEF CallOK
    <3>. QED
      BY <1>1, <1>2, <2>2, <3>1 DEF CallOK, ByName
  <2>4. Keeps(call, call')
    BY <1>1, <2>2 DEF Keeps
  <2>. QED
    BY <2>1, <2>2, <2>3, <2>4, NoResultOK DEF Goes
<1>. QED
  BY <1>3, <1>4

-----------------------------------------------------------------------------
(***************************************************************************)
(* The actions.                                                            *)
(***************************************************************************)

LEMMA BeginInd == ASSUME NetInv, NEW cmd \in Commands, Begin(cmd) PROVE NetInv'
<1>. DEFINE c == [NoCall EXCEPT !.cmd = cmd]
<1>1. /\ call.at = "idle" /\ calls' = calls + 1 /\ result' = NoResult
      /\ UNCHANGED <<cache, cfg, echo, ring, asked, mac>>
      /\ calls \in Nat
  BY CallFacts DEF Begin
<1>2. c \in Calls /\ c.cmd = cmd /\ c.list = <<>> /\ c.i = 0 /\ c.best = 0 /\ c.at = "idle"
  <2>1. NoCall \in Calls
    BY NoCallOK
  <2>2. c \in Calls /\ c.cmd = cmd
    BY <2>1 DEF Calls
  <2>3. c.list = NoCall.list /\ c.i = NoCall.i /\ c.best = NoCall.best /\ c.at = NoCall.at
    BY <2>1 DEF Calls
  <2>4. NoCall.list = <<>> /\ NoCall.i = 0 /\ NoCall.best = 0 /\ NoCall.at = "idle"
    BY DEF NoCall
  <2>. HIDE DEF c
  <2>. QED
    BY <2>2, <2>3, <2>4
<1>3. \/ cmd[1] = "ping" /\ call' = [c EXCEPT !.at = "ping", !.list = <<cmd[2]>>, !.i = 1] /\ UNCHANGED udp
      \/ cmd[1] \in {"host", "lookup"} /\ call' = [c EXCEPT !.at = "query"] /\ UdpOpen(DnsPort)
      \/ cmd[1] = "dhcp" /\ call' = [c EXCEPT !.at = "discover"] /\ UdpOpen(DhcpPort)
  BY DEF Begin
<1>. HIDE DEF c
<1>4. /\ call' \in Calls /\ CallOK(call') /\ WaitOK(call', udp', echo') /\ UdpOK(udp')
      /\ call'.at # "warm"
  <2>1. CASE cmd[1] = "ping"
    <3>. PICK L \in Seq(Local \cup Far) : L = <<cmd[2]>> /\ Len(L) = 1 /\ L # <<>>
      <4>. PICK x \in Local \cup Far : x = cmd[2]
        BY <2>1, CommandFacts
      <4>1. <<x>> \in Seq(Local \cup Far) /\ Len(<<x>>) = 1 /\ <<x>> # <<>>
        OBVIOUS
      <4>. QED
        BY <4>1
    <3>1. call' = [c EXCEPT !.at = "ping", !.list = L, !.i = 1] /\ udp' = udp
      BY <1>3, <2>1
    <3>2. /\ call' \in Calls /\ call'.at = "ping" /\ call'.cmd = cmd /\ call'.list = L
          /\ call'.i = 1 /\ call'.best = 0
      BY <1>2, <3>1 DEF Calls, Places
    <3>3. CallOK(call')
      BY <2>1, <3>2 DEF CallOK, ByName
    <3>. QED
      BY <3>1, <3>2, <3>3 DEF WaitOK, NetInv
  <2>2. CASE cmd[1] \in {"host", "lookup"}
    <3>1. call' = [c EXCEPT !.at = "query"] /\ udp' = [port |-> DnsPort, data |-> Silence]
      BY <1>3, <2>2 DEF UdpOpen
    <3>2. /\ call' \in Calls /\ call'.at = "query" /\ call'.cmd = cmd /\ call'.list = <<>>
          /\ call'.i = 0 /\ call'.best = 0
      BY <1>2, <3>1 DEF Calls, Places
    <3>3. CallOK(call') /\ UdpOK(udp')
      BY <2>2, <3>1, <3>2, SilenceOK DEF CallOK, ByName, UdpOK
    <3>. QED
      BY <3>1, <3>2, <3>3 DEF WaitOK
  <2>3. CASE cmd[1] = "dhcp"
    <3>1. call' = [c EXCEPT !.at = "discover"] /\ udp' = [port |-> DhcpPort, data |-> Silence]
      BY <1>3, <2>3 DEF UdpOpen
    <3>2. /\ call' \in Calls /\ call'.at = "discover" /\ call'.cmd = cmd /\ call'.list = <<>>
          /\ call'.i = 0 /\ call'.best = 0
      BY <1>2, <3>1 DEF Calls, Places
    <3>3. CallOK(call') /\ UdpOK(udp')
      BY <2>3, <3>1, <3>2, SilenceOK DEF CallOK, ByName, UdpOK
    <3>. QED
      BY <3>1, <3>2, <3>3 DEF WaitOK
  <2>. QED
    BY <1>3, <2>1, <2>2, <2>3
<1>5. AskedOK(asked', call', calls') /\ RingOK(ring', call', calls')
  BY <1>1, BeginKeeps DEF NetInv
<1>. QED
  BY <1>1, <1>4, <1>5, NoResultOK DEF NetInv

LEMMA PingInd == ASSUME NetInv, Ping PROVE NetInv'
<1>1. /\ call.at = "ping" /\ PingFrom(call, call.list[call.i], call.i)
      /\ UNCHANGED <<cache, cfg, udp, calls, result, ring, mac>>
  BY DEF Ping
<1>2. CallOK(call) /\ WaitOK(call, udp, echo) /\ call.list # <<>> /\ result = NoResult /\ EchoOK(echo)
  BY <1>1, CallFacts DEF CallOK, NetInv
<1>3. /\ Goes(call') /\ AskedOK(asked', call', calls) /\ EchoOK(echo')
      /\ WaitOK(call', udp', echo') /\ call'.at # "warm"
  <2>1. CASE Known(cache, Hop(call.list[call.i]))
    <3>1. SendEcho(call, call.list[call.i], call.i)
      BY <1>1, <2>1 DEF PingFrom
    <3>2. Goes(call') /\ AskedOK(asked', call', calls) /\ EchoOK(echo') /\ echo'.got = Silence
          /\ call'.at = "echo"
      BY <1>1, <1>2, <3>1, SendEchoOK
    <3>. QED
      BY <3>2 DEF WaitOK
  <2>2. CASE ~Known(cache, Hop(call.list[call.i]))
    <3>1. StartArp(call, call.list[call.i]) /\ echo' = echo
      BY <1>1, <2>2 DEF PingFrom
    <3>2. Goes(call') /\ AskedOK(asked', call', calls) /\ call'.at = "arp" /\ call'.list = call.list
      BY <1>1, <3>1, StartArpOK
    <3>. QED
      BY <1>2, <3>1, <3>2 DEF WaitOK
  <2>. QED
    BY <2>1, <2>2
<1>4. RingOK(ring', call', calls')
  BY <1>1, <1>3, RingKeeps DEF NetInv, Goes
<1>. QED
  BY <1>1, <1>2, <1>3, <1>4, NoResultOK DEF NetInv, Goes

LEMMA QueryInd == ASSUME NetInv, Query PROVE NetInv'
<1>1. /\ call.at = "query"
      /\ UNCHANGED <<cache, cfg, udp, echo, calls, result, ring, mac>>
  BY DEF Query
<1>2. /\ CallOK(call) /\ WaitOK(call, udp, echo) /\ call.list = <<>> /\ ByName(call)
      /\ result = NoResult
  BY <1>1, CallFacts DEF CallOK
<1>3. /\ Goes(call') /\ AskedOK(asked', call', calls)
      /\ WaitOK(call', udp', echo') /\ call'.at # "warm"
  <2>1. udp.port = DnsPort /\ udp.data = Silence
    BY <1>1, <1>2 DEF WaitOK
  <2>2. CASE Known(cache, cfg.dns)
    <3>1. Goes(call') /\ AskedOK(asked', call', calls) /\ call'.at = "dns"
      BY <1>1, <1>2, <2>2, SendQueryOK DEF Query
    <3>. QED
      BY <1>1, <2>1, <3>1 DEF WaitOK
  <2>3. CASE ~Known(cache, cfg.dns)
    <3>1. StartArp(call, cfg.dns)
      BY <2>3 DEF Query
    <3>2. Goes(call') /\ AskedOK(asked', call', calls) /\ call'.at = "arp"
      BY <1>1, <3>1, StartArpOK
    <3>. QED
      BY <1>1, <2>1, <3>2 DEF WaitOK
  <2>. QED
    BY <2>2, <2>3
<1>4. RingOK(ring', call', calls')
  BY <1>1, <1>3, RingKeeps DEF NetInv, Goes
<1>. QED
  BY <1>1, <1>2, <1>3, <1>4, NoResultOK DEF NetInv, Goes

\* A DHCP packet goes out: a question of this command, which has its number.
LEMMA AskDhcpOK ==
  ASSUME NetInv, NEW kind, NEW ip, NEW d, Keeps(call, d), AskDhcp(kind, ip),
         \/ kind = "offer" /\ ip = OwnIp
         \/ kind = "ack" /\ ip \in Leases /\ d.at = "ack" /\ d.offer = ip
  PROVE  AskedOK(asked', d, calls)
<1>. PICK q : q = Question(kind, ip, calls)
  OBVIOUS
<1>1. asked' = asked \cup {q} /\ calls \in Nat
  BY CallFacts DEF AskDhcp, Ask
<1>2. q \in Frames /\ q.kind = kind /\ q.from = ip /\ q.id = calls /\ q.call = calls
  BY <1>1 DEF Question, Frames, Hosts
<1>3. Good(q, d, calls)
  BY <1>1, <1>2 DEF Good, FrameOK, Own
<1>. QED
  BY <1>1, <1>2, <1>3, AskedMore DEF NetInv

LEMMA DiscoverInd == ASSUME NetInv, Discover PROVE NetInv'
<1>1. /\ call.at = "discover" /\ AskDhcp("offer", OwnIp)
      /\ call' = [call EXCEPT !.at = "offer", !.age = 0]
      /\ UNCHANGED <<cache, cfg, udp, echo, calls, result, ring, mac>>
  BY DEF Discover
<1>2. call \in Calls /\ CallOK(call) /\ WaitOK(call, udp, echo) /\ result = NoResult
  BY <1>1, CallFacts
<1>3. /\ call' \in Calls /\ call'.at = "offer" /\ call'.cmd = call.cmd /\ call'.list = call.list
      /\ call'.i = call.i /\ call'.best = call.best
      /\ call'.late = call.late /\ call'.offer = call.offer
  BY <1>1, <1>2 DEF Calls, Places
<1>4. CallOK(call') /\ Keeps(call, call') /\ WaitOK(call', udp', echo')
  BY <1>1, <1>2, <1>3 DEF CallOK, ByName, Keeps, WaitOK
<1>5. AskedOK(asked', call', calls)
  BY <1>1, <1>4, AskDhcpOK
<1>6. RingOK(ring', call', calls')
  BY <1>1, <1>4, RingKeeps DEF NetInv
<1>. QED
  BY <1>1, <1>2, <1>3, <1>4, <1>5, <1>6, NoResultOK DEF NetInv

LEMMA WarmInd == ASSUME NetInv, Warm PROVE NetInv'
<1>1. /\ call.at = "warm"
      /\ UNCHANGED <<cache, cfg, udp, echo, calls, ring, mac>>
  BY DEF Warm
<1>2. CallOK(call) /\ call.cmd[1] = "dhcp" /\ result = NoResult
  BY <1>1, CallFacts DEF CallOK
<1>3. /\ Goes(call') /\ AskedOK(asked', call', calls) /\ ResultOK(result', call', cfg)
      /\ WaitOK(call', udp', echo') /\ call'.at # "warm"
  <2>1. CASE Known(cache, cfg.gw)
    <3>1. Finish(TRUE, cfg.ip, FALSE) /\ asked' = asked
      BY <2>1 DEF Warm
    <3>2. call' = NoCall /\ Goes(call') /\ ResultOK(result', call', cfg)
      BY <1>2, <3>1, FinishOK
    <3>3. AskedOK(asked', call', calls)
      BY <3>1, <3>2, AskedKeeps DEF NetInv, Goes
    <3>. QED
      BY <3>2, <3>3, NoCallOK
  <2>2. CASE ~Known(cache, cfg.gw)
    <3>1. StartArp(call, cfg.gw) /\ result' = result
      BY <2>2 DEF Warm
    <3>2. Goes(call') /\ AskedOK(asked', call', calls) /\ call'.at = "arp" /\ call'.cmd = call.cmd
      BY <1>1, <3>1, StartArpOK
    <3>. QED
      BY <1>2, <3>1, <3>2, NoResultOK DEF WaitOK, ByName
  <2>. QED
    BY <2>1, <2>2
<1>4. RingOK(ring', call', calls')
  BY <1>1, <1>3, RingKeeps DEF NetInv, Goes
<1>. QED
  BY <1>1, <1>3, <1>4 DEF NetInv, Goes

LEMMA KillInd == ASSUME NetInv, KillCommand PROVE NetInv'
<1>1. /\ call' = NoCall /\ call.at # "idle"
      /\ UNCHANGED <<cache, cfg, udp, echo, calls, result, ring, asked, mac>>
  BY DEF KillCommand
<1>2. AskedOK(asked', call', calls') /\ RingOK(ring', call', calls')
  BY <1>1, NoCallOK, AskedKeeps, RingKeeps DEF NetInv
<1>. QED
  BY <1>1, <1>2, NoCallOK, NoResultOK, CallFacts DEF NetInv

LEMMA SecondInd == ASSUME NetInv, Second PROVE NetInv'
<1>1. /\ call.at # "idle" /\ call' = [call EXCEPT !.age = @ + 1]
      /\ UNCHANGED <<cache, cfg, udp, echo, calls, result, ring, asked, mac>>
  BY DEF Second
<1>2. call \in Calls /\ CallOK(call) /\ WaitOK(call, udp, echo) /\ result = NoResult
  BY <1>1, CallFacts
<1>3. /\ call' \in Calls /\ call'.at = call.at /\ call'.cmd = call.cmd /\ call'.list = call.list
      /\ call'.i = call.i /\ call'.best = call.best /\ call'.to = call.to /\ call'.tries = call.tries
      /\ call'.late = call.late /\ call'.offer = call.offer
  BY <1>1, <1>2 DEF Calls
<1>4. CallOK(call') /\ Keeps(call, call') /\ WaitOK(call', udp', echo')
  BY <1>1, <1>2, <1>3 DEF CallOK, ByName, Keeps, WaitOK
<1>5. AskedOK(asked', call', calls') /\ RingOK(ring', call', calls')
  BY <1>1, <1>4, AskedKeeps, RingKeeps DEF NetInv
<1>6. call'.at = "warm" => cfg'.ip = call'.offer
  BY <1>1, <1>3 DEF NetInv
<1>. QED
  BY <1>1, <1>2, <1>3, <1>4, <1>5, <1>6, NoResultOK DEF NetInv

\* A frame reaches the card.
LEMMA ArriveOK ==
  ASSUME NetInv, NEW f \in Frames, AnswerOK(f), Good(f, call, calls), Arrive(f)
  PROVE  RingOK(ring', call, calls)
<1>1. ring \in Seq(Frames) /\ Len(ring) < MaxRing /\ ring' = Append(ring, f)
      /\ \A k \in 1 .. Len(ring) : AnswerOK(ring[k]) /\ Good(ring[k], call, calls)
  BY DEF NetInv, RingOK, Arrive
<1>2. /\ ring' \in Seq(Frames) /\ Len(ring') = Len(ring) + 1 /\ Len(ring) \in Nat
      /\ \A k \in 1 .. Len(ring') : ring'[k] = IF k <= Len(ring) THEN ring[k] ELSE f
  BY <1>1
<1>. QED
  BY <1>1, <1>2, NetConsts DEF RingOK

LEMMA HostInd == ASSUME NetInv, HostReplies PROVE NetInv'
<1>1. UNCHANGED <<cache, cfg, udp, echo, call, calls, result, mac>>
  BY DEF HostReplies
<1>2. PICK q \in asked : \E again \in BOOLEAN :
       /\ \/ q.kind = "arp" /\ Arrive([q EXCEPT !.mac = mac[q.from]])
          \/ q.kind \in {"echo", "dns", "ack"} /\ Arrive(q)
          \/ q.kind = "offer" /\ \E ip \in Leases : Arrive([q EXCEPT !.from = ip])
          \/ q.kind = "ack" /\ Arrive([q EXCEPT !.kind = "nak"])
       /\ asked' = IF again THEN asked ELSE asked \ {q}
  BY DEF HostReplies
<1>3. q \in Frames /\ Good(q, call, calls) /\ AskedOK(asked, call, calls) /\ mac \in [Local -> 1 .. 2]
  BY DEF NetInv, AskedOK
<1>4. AskedOK(asked', call', calls')
  BY <1>1, <1>2, <1>3 DEF AskedOK
<1>5. RingOK(ring', call, calls)
  <2>1. CASE q.kind = "arp" /\ Arrive([q EXCEPT !.mac = mac[q.from]])
    <3>. PICK f : f = [q EXCEPT !.mac = mac[q.from]]
      OBVIOUS
    <3>1. q.from \in Local /\ mac[q.from] \in 1 .. 2
      BY <1>3, <2>1 DEF Good, FrameOK
    <3>2. f \in Frames /\ f.kind = "arp" /\ f.mac \in 1 .. 2 /\ f.from = q.from /\ f.call = q.call
      BY <1>3, <2>1, <3>1 DEF Frames
    <3>3. Good(f, call, calls) /\ AnswerOK(f)
      BY <1>3, <2>1, <3>1, <3>2 DEF Good, FrameOK, Own, AnswerOK
    <3>. QED
      BY <2>1, <3>2, <3>3, ArriveOK
  <2>2. CASE q.kind \in {"echo", "dns", "ack"} /\ Arrive(q)
    <3>1. AnswerOK(q)
      BY <2>2 DEF AnswerOK
    <3>. QED
      BY <1>3, <2>2, <3>1, ArriveOK
  <2>3. CASE q.kind = "offer" /\ \E ip \in Leases : Arrive([q EXCEPT !.from = ip])
    <3>. PICK ip \in Leases : Arrive([q EXCEPT !.from = ip])
      BY <2>3
    <3>. PICK f : f = [q EXCEPT !.from = ip]
      OBVIOUS
    <3>1. f \in Frames /\ f.kind = "offer" /\ f.from = ip /\ f.call = q.call
      BY <1>3, <2>3 DEF Frames, Hosts
    <3>2. Good(f, call, calls) /\ AnswerOK(f)
      BY <1>3, <2>3, <3>1 DEF Good, FrameOK, Own, AnswerOK
    <3>. QED
      BY <3>1, <3>2, ArriveOK
  <2>4. CASE q.kind = "ack" /\ Arrive([q EXCEPT !.kind = "nak"])
    <3>. PICK f : f = [q EXCEPT !.kind = "nak"]
      OBVIOUS
    <3>1. f \in Frames /\ f.kind = "nak" /\ f.call = q.call
      BY <1>3 DEF Frames
    <3>2. Good(f, call, calls) /\ AnswerOK(f)
      BY <1>3, <3>1 DEF Good, FrameOK, Own, AnswerOK
    <3>. QED
      BY <2>4, <3>1, <3>2, ArriveOK
  <2>. QED
    BY <1>2, <2>1, <2>2, <2>3, <2>4
<1>. QED
  BY <1>1, <1>4, <1>5 DEF NetInv

LEMMA MoveInd == ASSUME NetInv, Move PROVE NetInv'
<1>1. UNCHANGED <<cache, cfg, udp, echo, call, calls, result, asked>>
  BY DEF Move
<1>2. PICK h \in Local \ {Gw, Dns} :
        /\ mac' = [mac EXCEPT ![h] = 2]
        /\ Arrive([Silence EXCEPT !.kind = "arp", !.from = h, !.mac = 2])
  BY DEF Move
<1>. PICK f : f = [Silence EXCEPT !.kind = "arp", !.from = h, !.mac = 2]
  OBVIOUS
<1>3. f \in Frames /\ f.kind = "arp" /\ f.from \in Local /\ f.mac = 2 /\ f.call = 0
  BY DEF Silence, Frames, Hosts
<1>4. Good(f, call, calls) /\ AnswerOK(f)
  BY <1>3, CallFacts DEF Good, FrameOK, Own, AnswerOK
<1>5. RingOK(ring', call, calls) /\ mac' \in [Local -> 1 .. 2]
  BY <1>2, <1>3, <1>4, ArriveOK DEF NetInv
<1>. QED
  BY <1>1, <1>5 DEF NetInv

\* The parts of the invariant that a polling loop's pass must show.
Polled ==
  /\ Goes(call') /\ AskedOK(asked', call', calls) /\ UdpOK(udp') /\ EchoOK(echo')
  /\ WaitOK(call', udp', echo') /\ ResultOK(result', call', cfg')

LEMMA PolledInd ==
  ASSUME NetInv, Polled, RingOK(ring', call, calls), CacheOK(cache'), CfgOK(cfg'),
         calls' = calls, mac' = mac, call'.at = "warm" => cfg'.ip = call'.offer
  PROVE  NetInv'
<1>1. RingOK(ring', call', calls)
  BY RingKeeps DEF Polled, Goes
<1>. QED
  BY <1>1 DEF Polled, Goes, NetInv

LEMMA LateFacts ==
  ASSUME NetInv, NEW f \in Frames, Good(f, call, calls)
  PROVE  /\ Late(f) \in BOOLEAN
         /\ call.late => Late(f)
         /\ ~Late(f) /\ f.kind \in {"echo", "dns"} => f.call = calls
<1>1. f.call \in Nat /\ calls \in Nat /\ f.call <= calls
  BY CallFacts DEF Frames, Good, FrameOK
<1>. QED
  BY <1>1 DEF Late

LEMMA WaitsOn ==
  ASSUME NetInv, NEW late \in BOOLEAN, call.late => late, call' = [call EXCEPT !.late = late]
  PROVE  Goes(call') /\ call'.at = call.at /\ call'.cmd = call.cmd /\ call'.list = call.list
<1>1. call \in Calls /\ CallOK(call)
  BY CallFacts
<1>2. /\ call' \in Calls /\ call'.at = call.at /\ call'.cmd = call.cmd /\ call'.list = call.list
      /\ call'.i = call.i /\ call'.best = call.best /\ call'.to = call.to /\ call'.tries = call.tries
      /\ (~call'.late => ~late) /\ call'.offer = call.offer
  BY <1>1 DEF Calls
<1>3. CallOK(call') /\ Keeps(call, call')
  BY <1>1, <1>2 DEF CallOK, ByName, Keeps
<1>. QED
  BY <1>2, <1>3 DEF Goes

LEMMA UdpCloseOK == UdpClose => UdpOK(udp')
BY SilenceOK DEF UdpClose, UdpOpen, UdpOK

LEMMA WaitTrivial ==
  ASSUME NEW c, NEW u, NEW e, c.at \in {"idle", "ping", "warm"} PROVE WaitOK(c, u, e)
BY DEF WaitOK

LEMMA ResolvedOK ==
  ASSUME NetInv, call.at = "arp", Resolved, udp' = udp, cfg' = cfg
  PROVE  Polled /\ call'.at # "warm"
<1>1. CallOK(call) /\ WaitOK(call, udp, echo) /\ result = NoResult /\ UdpOK(udp) /\ EchoOK(echo)
      /\ AskedOK(asked, call, calls)
  BY CallFacts DEF NetInv
<1>2. CASE call.cmd[1] = "dhcp" /\ Finish(TRUE, cfg.ip, call.late) /\ UNCHANGED <<echo, asked>>
  <2>1. call' = NoCall /\ Goes(call') /\ ResultOK(result', call', cfg)
    BY <1>2, CallFacts, FinishOK
  <2>2. AskedOK(asked', call', calls)
    BY <1>1, <1>2, <2>1, AskedKeeps DEF Goes
  <2>. QED
    BY <1>1, <1>2, <2>1, <2>2, NoCallOK DEF Polled
<1>3. CASE call.list # <<>> /\ SendEcho(call, call.list[call.i], call.i) /\ UNCHANGED result
  <2>1. Goes(call') /\ AskedOK(asked', call', calls) /\ EchoOK(echo') /\ echo'.got = Silence
        /\ call'.at = "echo"
    BY <1>3, SendEchoOK
  <2>2. WaitOK(call', udp', echo')
    BY <2>1 DEF WaitOK
  <2>. QED
    BY <1>1, <1>3, <2>1, <2>2, NoResultOK DEF Polled
<1>4. CASE Asking /\ SendQuery(call) /\ UNCHANGED <<echo, result>>
  <2>0. ByName(call) /\ call.list = <<>>
    BY <1>4 DEF Asking, ByName
  <2>1. Goes(call') /\ AskedOK(asked', call', calls) /\ call'.at = "dns"
    BY <1>4, <2>0, SendQueryOK
  <2>2. WaitOK(call', udp', echo')
    BY <1>1, <2>0, <2>1 DEF WaitOK
  <2>. QED
    BY <1>1, <1>4, <2>1, <2>2, NoResultOK DEF Polled
<1>. QED
  BY <1>2, <1>3, <1>4 DEF Resolved

LEMMA ArpFailsOK ==
  ASSUME NetInv, call.at = "arp", ArpFails, echo' = echo, cfg' = cfg
  PROVE  Polled /\ call'.at # "warm"
<1>1. CallOK(call) /\ UdpOK(udp) /\ EchoOK(echo) /\ AskedOK(asked, call, calls) /\ call.late \in BOOLEAN
      /\ asked' = asked
  BY CallFacts DEF NetInv, ArpFails
<1>2. /\ Goes(call') /\ ResultOK(result', call', cfg) /\ call'.at \in {"ping", "idle"} /\ UdpOK(udp')
  <2>1. CASE call.cmd[1] = "dhcp" /\ Finish(TRUE, cfg.ip, call.late) /\ UNCHANGED udp
    BY <1>1, <2>1, FinishOK, NoCallOK
  <2>2. CASE call.list # <<>> /\ NoAnswer(call.late) /\ UNCHANGED udp
    BY <1>1, <2>2, NoAnswerOK
  <2>3. CASE Asking /\ UdpClose /\ Finish(FALSE, None, call.late)
    BY <1>1, <2>3, FinishOK, NoCallOK, UdpCloseOK
  <2>. QED
    BY <2>1, <2>2, <2>3 DEF ArpFails
<1>3. AskedOK(asked', call', calls)
  BY <1>1, <1>2, AskedKeeps DEF Goes
<1>. QED
  BY <1>1, <1>2, <1>3, WaitTrivial DEF Polled

LEMMA TriesMore ==
  ASSUME NEW c \in Calls, NEW t \in Nat
  PROVE  LET d == [c EXCEPT !.tries = t, !.age = 0]
         IN  /\ d \in Calls /\ d.at = c.at /\ d.cmd = c.cmd /\ d.list = c.list
             /\ d.i = c.i /\ d.best = c.best /\ d.to = c.to /\ d.tries = t
             /\ d.late = c.late /\ d.offer = c.offer
<1>. PICK d : d = [c EXCEPT !.tries = t, !.age = 0]
  OBVIOUS
<1>1. d \in Calls
  BY DEF Calls
<1>. QED
  BY <1>1 DEF Calls

\* The next attempt of arp_resolve.
LEMMA ArpAgainOK ==
  ASSUME NetInv, call.at = "arp", call.tries < ArpTries,
         call' = [call EXCEPT !.tries = @ + 1, !.age = 0], AskArp(call.to),
         UNCHANGED <<udp, echo, result>>
  PROVE  Polled /\ call'.at # "warm"
<1>1. /\ call \in Calls /\ CallOK(call) /\ calls \in Nat /\ WaitOK(call, udp, echo)
      /\ result = NoResult /\ UdpOK(udp) /\ EchoOK(echo) /\ call.to \in Local /\ call.tries \in 1 .. ArpTries
  BY CallFacts DEF NetInv, CallOK
<1>. PICK q : q = Question("arp", call.to, 0)
  OBVIOUS
<1>2. /\ call' \in Calls /\ call'.at = call.at /\ call'.cmd = call.cmd /\ call'.list = call.list
      /\ call'.i = call.i /\ call'.best = call.best /\ call'.to = call.to /\ call'.tries = call.tries + 1
      /\ call'.late = call.late /\ call'.offer = call.offer
  <2>1. call.tries + 1 \in Nat
    BY <1>1
  <2>. QED
    BY <1>1, <2>1, TriesMore
<1>3. call'.tries \in 1 .. ArpTries
  BY <1>1, <1>2, NetConsts
<1>4. CallOK(call') /\ Keeps(call, call') /\ WaitOK(call', udp', echo')
  BY <1>1, <1>2, <1>3 DEF CallOK, ByName, Keeps, WaitOK
<1>5. q \in Frames /\ q.kind = "arp" /\ q.from = call.to /\ q.call = 0
  BY <1>1 DEF Question, Frames, Hosts
<1>6. Good(q, call', calls)
  BY <1>1, <1>5 DEF Good, FrameOK, Own
<1>7. AskedOK(asked', call', calls)
  BY <1>4, <1>5, <1>6, AskedMore DEF NetInv, AskArp, Ask
<1>. QED
  BY <1>1, <1>2, <1>4, <1>7, NoResultOK DEF Polled, Goes

LEMMA ArpPollInd == ASSUME NetInv, ArpPoll PROVE NetInv'
<1>1. PICK take \in {0, 1} : Read(take) /\ cache' = Heard(Frame(take))
  BY DEF ArpPoll
<1>2. call.at = "arp" /\ UNCHANGED <<cfg, calls, mac>>
  BY DEF ArpPoll
<1>3. RingOK(ring', call, calls) /\ CacheOK(cache') /\ CfgOK(cfg')
  BY <1>1, <1>2, PollFacts DEF NetInv
<1>4. \/ Resolved /\ UNCHANGED udp
      \/ UNCHANGED <<udp, echo, call, result, asked>>
      \/ /\ call.tries < ArpTries
         /\ call' = [call EXCEPT !.tries = @ + 1, !.age = 0]
         /\ AskArp(call.to)
         /\ UNCHANGED <<udp, echo, result>>
      \/ ArpFails /\ UNCHANGED echo
  BY DEF ArpPoll
<1>5. Polled /\ call'.at # "warm"
  <2>1. CASE Resolved /\ UNCHANGED udp
    BY <1>2, <2>1, ResolvedOK
  <2>2. CASE UNCHANGED <<udp, echo, call, result, asked>>
    <3>1. Keeps(call, call)
      BY <1>2 DEF Keeps
    <3>. QED
      BY <1>2, <2>2, <3>1, NoResultOK DEF Polled, Goes, NetInv, ResultOK
  <2>3. CASE /\ call.tries < ArpTries
             /\ call' = [call EXCEPT !.tries = @ + 1, !.age = 0]
             /\ AskArp(call.to)
             /\ UNCHANGED <<udp, echo, result>>
    BY <1>2, <2>3, ArpAgainOK
  <2>4. CASE ArpFails /\ UNCHANGED echo
    BY <1>2, <2>4, ArpFailsOK
  <2>. QED
    BY <1>4, <2>1, <2>2, <2>3, <2>4
<1>. QED
  BY <1>2, <1>3, <1>5, PolledInd

LEMMA EchoPollInd == ASSUME NetInv, EchoPoll PROVE NetInv'
<1>1. call.at = "echo" /\ UNCHANGED <<cfg, calls, asked, mac>>
  BY DEF EchoPoll
<1>2. PICK take \in {0, 1} :
       LET f == Frame(take)  reply == Echoed(f).got IN
       /\ Read(take) /\ cache' = Heard(f) /\ echo' = Echoed(f) /\ udp' = Delivered(f)
       /\ \/ reply # Silence /\ PingAnswered(reply.from, Late(f))
          \/ reply = Silence /\ TimeOver /\ NoAnswer(Late(f))
          \/ /\ reply = Silence /\ ~TimeOver
             /\ call' = [call EXCEPT !.late = Late(f)] /\ UNCHANGED result
  BY DEF EchoPoll
<1>. PICK f : f = Frame(take)
  OBVIOUS
<1>3. /\ Read(take) /\ cache' = Heard(f) /\ echo' = Echoed(f) /\ udp' = Delivered(f)
      /\ \/ Echoed(f).got # Silence /\ PingAnswered(Echoed(f).got.from, Late(f))
         \/ Echoed(f).got = Silence /\ NoAnswer(Late(f))
         \/ Echoed(f).got = Silence /\ call' = [call EXCEPT !.late = Late(f)] /\ UNCHANGED result
  BY <1>2
<1>4. /\ RingOK(ring', call, calls) /\ CacheOK(cache') /\ EchoOK(echo') /\ UdpOK(udp')
      /\ f \in Frames /\ Good(f, call, calls)
  BY <1>3, PollFacts
<1>5. /\ call \in Calls /\ CallOK(call) /\ result = NoResult /\ echo.got = Silence
      /\ call.list # <<>> /\ EchoOK(echo) /\ AskedOK(asked, call, calls) /\ CfgOK(cfg)
  BY <1>1, CallFacts DEF WaitOK, NetInv, CallOK
<1>. PICK late \in BOOLEAN : late = Late(f)
  BY <1>4, LateFacts
<1>6. /\ call.late => late
      /\ ~late /\ f.kind \in {"echo", "dns"} => f.call = calls
  BY <1>4, LateFacts
<1>7. /\ Goes(call') /\ ResultOK(result', call', cfg) /\ WaitOK(call', udp', echo')
      /\ call'.at # "warm"
  <2>1. CASE Echoed(f).got # Silence /\ PingAnswered(Echoed(f).got.from, Late(f))
    <3>1. Echoed(f).got = f /\ f.kind = "echo"
      BY <1>4, <1>5, <2>1, EchoedOK
    <3>2. ~late /\ call.cmd[1] = "ping" => f.from = call.cmd[2]
      <4>. SUFFICES ASSUME ~late, call.cmd[1] = "ping" PROVE f.from = call.cmd[2]
        OBVIOUS
      <4>1. f.call = calls
        BY <1>6, <3>1
      <4>2. f.id \in 1 .. Len(call.list) /\ f.from = call.list[f.id]
        BY <1>1, <1>4, <3>1, <4>1 DEF Good, Own
      <4>3. call.list = <<call.cmd[2]>>
        BY <1>5 DEF CallOK
      <4>. QED
        BY <4>2, <4>3
    <3>3. PingAnswered(f.from, late)
      BY <2>1, <3>1
    <3>4. Goes(call') /\ ResultOK(result', call', cfg) /\ call'.at \in {"ping", "idle"}
      BY <1>1, <1>6, <3>2, <3>3, PingAnsweredOK
    <3>. QED
      BY <3>4, WaitTrivial
  <2>2. CASE Echoed(f).got = Silence /\ NoAnswer(Late(f))
    <3>1. Goes(call') /\ ResultOK(result', call', cfg) /\ call'.at \in {"ping", "idle"}
      BY <1>1, <1>5, <1>6, <2>2, NoAnswerOK
    <3>. QED
      BY <3>1, WaitTrivial
  <2>3. CASE Echoed(f).got = Silence /\ call' = [call EXCEPT !.late = Late(f)] /\ UNCHANGED result
    <3>1. Goes(call') /\ call'.at = call.at
      BY <1>6, <2>3, WaitsOn
    <3>2. WaitOK(call', udp', echo')
      BY <1>1, <1>3, <2>3, <3>1 DEF WaitOK
    <3>. QED
      BY <1>1, <1>5, <2>3, <3>1, <3>2, NoResultOK
  <2>. QED
    BY <1>3, <2>1, <2>2, <2>3
<1>8. AskedOK(asked', call', calls)
  BY <1>1, <1>5, <1>7, AskedKeeps DEF Goes
<1>9. Polled
  BY <1>1, <1>4, <1>7, <1>8 DEF Polled
<1>. QED
  BY <1>1, <1>4, <1>5, <1>7, <1>9, PolledInd

LEMMA DnsPollInd == ASSUME NetInv, DnsPoll PROVE NetInv'
<1>1. call.at = "dns" /\ UNCHANGED <<cfg, calls, asked, mac>>
  BY DEF DnsPoll
<1>2. PICK take \in {0, 1} :
       LET f == Frame(take)  d == Delivered(f).data IN
       /\ Read(take) /\ cache' = Heard(f) /\ echo' = Echoed(f)
       /\ \/ /\ d = Silence /\ ~TimeOver
             /\ call' = [call EXCEPT !.late = Late(f)] /\ UNCHANGED <<udp, result>>
          \/ d = Silence /\ TimeOver /\ UdpClose /\ Finish(FALSE, None, Late(f))
          \/ d # Silence /\ UdpClose /\ Addresses(d.from, Late(f))
  BY DEF DnsPoll
<1>. PICK f : f = Frame(take)
  OBVIOUS
<1>3. /\ Read(take) /\ cache' = Heard(f) /\ echo' = Echoed(f)
      /\ \/ call' = [call EXCEPT !.late = Late(f)] /\ UNCHANGED <<udp, result>>
         \/ UdpClose /\ Finish(FALSE, None, Late(f))
         \/ Delivered(f).data # Silence /\ UdpClose /\ Addresses(Delivered(f).data.from, Late(f))
  BY <1>2
<1>4. /\ RingOK(ring', call, calls) /\ CacheOK(cache') /\ EchoOK(echo')
      /\ f \in Frames /\ Good(f, call, calls)
  BY <1>3, PollFacts
<1>5. /\ call \in Calls /\ CallOK(call) /\ result = NoResult /\ udp.data = Silence /\ udp.port = DnsPort
      /\ UdpOK(udp) /\ AskedOK(asked, call, calls) /\ CfgOK(cfg)
  BY <1>1, CallFacts DEF WaitOK, NetInv
<1>. PICK late \in BOOLEAN : late = Late(f)
  BY <1>4, LateFacts
<1>6. /\ call.late => late
      /\ ~late /\ f.kind \in {"echo", "dns"} => f.call = calls
  BY <1>4, LateFacts
<1>7. /\ Goes(call') /\ ResultOK(result', call', cfg) /\ WaitOK(call', udp', echo')
      /\ UdpOK(udp') /\ call'.at # "warm"
  <2>1. CASE call' = [call EXCEPT !.late = Late(f)] /\ UNCHANGED <<udp, result>>
    <3>1. Goes(call') /\ call'.at = call.at
      BY <1>6, <2>1, WaitsOn
    <3>2. WaitOK(call', udp', echo')
      BY <1>1, <1>5, <2>1, <3>1 DEF WaitOK
    <3>. QED
      BY <1>1, <1>5, <2>1, <3>1, <3>2, NoResultOK
  <2>2. CASE UdpClose /\ Finish(FALSE, None, Late(f))
    <3>1. call' = NoCall /\ Goes(call') /\ ResultOK(result', call', cfg)
      BY <2>2, FinishOK
    <3>. QED
      BY <2>2, <3>1, NoCallOK, UdpCloseOK
  <2>3. CASE Delivered(f).data # Silence /\ UdpClose /\ Addresses(Delivered(f).data.from, Late(f))
    <3>1. Delivered(f).data = f /\ f.kind \in Datagrams /\ PortOf(f) = DnsPort
      BY <1>4, <1>5, <2>3, DeliveredOK
    <3>2. f.kind = "dns"
      BY <3>1 DEF PortOf, DnsPort, DhcpPort
    <3>3. f.from \in Names /\ (~late => f.from = call.cmd[2])
      BY <1>1, <1>4, <1>6, <3>2 DEF Good, FrameOK, Own
    <3>4. Addresses(f.from, late)
      BY <2>3, <3>1
    <3>5. Goes(call') /\ ResultOK(result', call', cfg) /\ call'.at \in {"ping", "idle"}
      BY <1>1, <1>6, <3>3, <3>4, AddressesOK
    <3>. QED
      BY <2>3, <3>5, WaitTrivial, UdpCloseOK
  <2>. QED
    BY <1>3, <2>1, <2>2, <2>3
<1>8. AskedOK(asked', call', calls)
  BY <1>1, <1>5, <1>7, AskedKeeps DEF Goes
<1>9. Polled
  BY <1>1, <1>4, <1>7, <1>8 DEF Polled
<1>. QED
  BY <1>1, <1>4, <1>5, <1>7, <1>9, PolledInd

\* The exchange is over without a lease.
LEMMA GivesUp ==
  ASSUME NetInv, UdpClose, Finish(FALSE, None, FALSE), UNCHANGED <<asked, cfg>>, EchoOK(echo')
  PROVE  Polled /\ call'.at # "warm"
<1>1. call' = NoCall /\ Goes(call') /\ ResultOK(result', call', cfg)
  BY FinishOK
<1>2. AskedOK(asked', call', calls)
  BY <1>1, AskedKeeps DEF NetInv, Goes
<1>. QED
  BY <1>1, <1>2, NoCallOK, UdpCloseOK DEF Polled

LEMMA StaysPut ==
  ASSUME NetInv, call.at \in {"offer", "ack"}, UNCHANGED <<udp, call, result, asked, cfg>>, EchoOK(echo')
  PROVE  Polled /\ call'.at # "warm"
<1>1. Goes(call')
  BY CallFacts DEF Goes, Keeps
<1>2. WaitOK(call', udp', echo') /\ UdpOK(udp') /\ AskedOK(asked', call', calls)
      /\ result' = NoResult
  BY CallFacts DEF WaitOK, NetInv
<1>. QED
  BY <1>1, <1>2, NoResultOK DEF Polled

LEMMA OfferPollInd == ASSUME NetInv, OfferPoll PROVE NetInv'
<1>1. call.at = "offer" /\ UNCHANGED <<cfg, calls, mac>>
  BY DEF OfferPoll
<1>2. PICK take \in {0, 1} :
       LET f == Frame(take)  d == Delivered(f).data IN
       /\ Read(take) /\ cache' = Heard(f) /\ echo' = Echoed(f)
       /\ \/ d = Silence /\ ~TimeOver /\ UNCHANGED <<udp, call, result, asked>>
          \/ /\ d # Silence /\ d.kind = "offer" /\ d.id = calls
             /\ udp' = [udp EXCEPT !.data = Silence]
             /\ AskDhcp("ack", d.from)
             /\ call' = [call EXCEPT !.at = "ack", !.age = 0, !.offer = d.from] /\ UNCHANGED result
          \/ /\ IF d = Silence THEN TimeOver ELSE d.kind # "offer" \/ d.id # calls
             /\ UdpClose /\ Finish(FALSE, None, FALSE) /\ UNCHANGED asked
  BY DEF OfferPoll
<1>. PICK f : f = Frame(take)
  OBVIOUS
<1>. PICK d : d = Delivered(f).data
  OBVIOUS
<1>3. /\ Read(take) /\ cache' = Heard(f) /\ echo' = Echoed(f)
      /\ \/ UNCHANGED <<udp, call, result, asked>>
         \/ /\ d # Silence /\ d.kind = "offer"
            /\ udp' = [udp EXCEPT !.data = Silence]
            /\ AskDhcp("ack", d.from)
            /\ call' = [call EXCEPT !.at = "ack", !.age = 0, !.offer = d.from] /\ UNCHANGED result
         \/ UdpClose /\ Finish(FALSE, None, FALSE) /\ UNCHANGED asked
  BY <1>2
<1>4. /\ RingOK(ring', call, calls) /\ CacheOK(cache') /\ EchoOK(echo')
      /\ f \in Frames /\ Good(f, call, calls) /\ AnswerOK(f)
  BY <1>3, PollFacts
<1>5. /\ call \in Calls /\ CallOK(call) /\ result = NoResult /\ udp.data = Silence /\ udp.port = DhcpPort
      /\ UdpOK(udp) /\ CfgOK(cfg)
  BY <1>1, CallFacts DEF WaitOK, NetInv
<1>6. Polled /\ call'.at # "warm"
  <2>1. CASE UNCHANGED <<udp, call, result, asked>>
    BY <1>1, <1>4, <2>1, StaysPut
  <2>2. CASE /\ d # Silence /\ d.kind = "offer"
             /\ udp' = [udp EXCEPT !.data = Silence]
             /\ AskDhcp("ack", d.from)
             /\ call' = [call EXCEPT !.at = "ack", !.age = 0, !.offer = d.from] /\ UNCHANGED result
    <3>1. d = f
      BY <1>4, <1>5, <2>2, DeliveredOK
    <3>. PICK ip \in Leases : ip = d.from
      BY <1>4, <2>2, <3>1 DEF AnswerOK
    <3>2. call' = [call EXCEPT !.at = "ack", !.age = 0, !.offer = ip]
      BY <2>2
    <3>3. /\ call' \in Calls /\ call'.at = "ack" /\ call'.cmd = call.cmd /\ call'.list = call.list
          /\ call'.i = call.i /\ call'.best = call.best
          /\ call'.late = call.late /\ call'.offer = ip
      BY <1>5, <3>2 DEF Calls, Places
    <3>4. CallOK(call') /\ Keeps(call, call')
      BY <1>1, <1>5, <3>3 DEF CallOK, ByName, Keeps
    <3>5. AskedOK(asked', call', calls)
      BY <2>2, <3>3, <3>4, AskDhcpOK
    <3>6. UdpOK(udp') /\ udp'.data = Silence /\ udp'.port = DhcpPort
      BY <1>5, <2>2, SilenceOK DEF UdpOK
    <3>7. WaitOK(call', udp', echo')
      BY <3>3, <3>6 DEF WaitOK
    <3>. QED
      BY <1>4, <1>5, <2>2, <3>3, <3>4, <3>5, <3>6, <3>7, NoResultOK DEF Polled, Goes
  <2>3. CASE UdpClose /\ Finish(FALSE, None, FALSE) /\ UNCHANGED asked
    BY <1>1, <1>4, <2>3, GivesUp
  <2>. QED
    BY <1>3, <2>1, <2>2, <2>3
<1>. QED
  BY <1>1, <1>4, <1>5, <1>6, PolledInd

LEMMA AckPollInd == ASSUME NetInv, AckPoll PROVE NetInv'
<1>1. call.at = "ack" /\ UNCHANGED <<calls, asked, mac>>
  BY DEF AckPoll
<1>2. PICK take \in {0, 1} :
       LET f == Frame(take)  d == Delivered(f).data IN
       /\ Read(take) /\ cache' = Heard(f) /\ echo' = Echoed(f)
       /\ \/ d = Silence /\ ~TimeOver /\ UNCHANGED <<udp, call, result, cfg>>
          \/ /\ d # Silence /\ OwnAck(d)
             /\ cfg' = [cfg EXCEPT !.ip = d.from]
             /\ UdpClose /\ call' = [call EXCEPT !.at = "warm"] /\ UNCHANGED result
          \/ /\ IF d = Silence THEN TimeOver ELSE ~OwnAck(d)
             /\ UdpClose /\ Finish(FALSE, None, FALSE) /\ UNCHANGED cfg
  BY DEF AckPoll
<1>. PICK f : f = Frame(take)
  OBVIOUS
<1>. PICK d : d = Delivered(f).data
  OBVIOUS
<1>3. /\ Read(take) /\ cache' = Heard(f) /\ echo' = Echoed(f)
      /\ \/ UNCHANGED <<udp, call, result, cfg>>
         \/ /\ d # Silence /\ OwnAck(d)
            /\ cfg' = [cfg EXCEPT !.ip = d.from]
            /\ UdpClose /\ call' = [call EXCEPT !.at = "warm"] /\ UNCHANGED result
         \/ UdpClose /\ Finish(FALSE, None, FALSE) /\ UNCHANGED cfg
  BY <1>2
<1>4. /\ RingOK(ring', call, calls) /\ CacheOK(cache') /\ EchoOK(echo')
      /\ f \in Frames /\ Good(f, call, calls)
  BY <1>3, PollFacts
<1>5. /\ call \in Calls /\ CallOK(call) /\ result = NoResult /\ udp.data = Silence
      /\ UdpOK(udp) /\ CfgOK(cfg) /\ AskedOK(asked, call, calls)
  BY <1>1, CallFacts DEF WaitOK, NetInv
<1>6. Polled /\ CfgOK(cfg') /\ (call'.at = "warm" => cfg'.ip = call'.offer)
  <2>1. CASE UNCHANGED <<udp, call, result, cfg>>
    BY <1>1, <1>4, <1>5, <2>1, StaysPut
  <2>2. CASE /\ d # Silence /\ OwnAck(d)
             /\ cfg' = [cfg EXCEPT !.ip = d.from]
             /\ UdpClose /\ call' = [call EXCEPT !.at = "warm"] /\ UNCHANGED result
    <3>1. d = f
      BY <1>4, <1>5, <2>2, DeliveredOK
    <3>2. d.from \in Leases /\ d.from = call.offer
      BY <1>1, <1>4, <2>2, <3>1 DEF OwnAck, Good, FrameOK, Own
    <3>3. /\ call' \in Calls /\ call'.at = "warm" /\ call'.cmd = call.cmd /\ call'.list = call.list
          /\ call'.i = call.i /\ call'.best = call.best
          /\ call'.late = call.late /\ call'.offer = call.offer
      BY <1>5, <2>2 DEF Calls, Places
    <3>4. CallOK(call') /\ Keeps(call, call')
      BY <1>1, <1>5, <3>3 DEF CallOK, ByName, Keeps
    <3>5. AskedOK(asked', call', calls)
      BY <1>1, <1>5, <3>4, AskedKeeps
    <3>6. CfgOK(cfg') /\ cfg'.ip = call.offer
      BY <1>5, <2>2, <3>2 DEF CfgOK
    <3>7. WaitOK(call', udp', echo') /\ UdpOK(udp')
      <4>1. UdpClose
        BY <2>2
      <4>. QED
        BY <3>3, <4>1, UdpCloseOK DEF WaitOK
    <3>. QED
      BY <1>4, <1>5, <2>2, <3>3, <3>4, <3>5, <3>6, <3>7, NoResultOK DEF Polled, Goes
  <2>3. CASE UdpClose /\ Finish(FALSE, None, FALSE) /\ UNCHANGED cfg
    BY <1>1, <1>4, <1>5, <2>3, GivesUp
  <2>. QED
    BY <1>3, <2>1, <2>2, <2>3
<1>. QED
  BY <1>1, <1>4, <1>6, PolledInd

-----------------------------------------------------------------------------
(***************************************************************************)
(* The theorems.                                                           *)
(***************************************************************************)
LEMMA NetInvInit == NetInit => NetInv
<1>. SUFFICES ASSUME NetInit PROVE NetInv
  OBVIOUS
<1>. USE DEF NetInit
<1>1. CacheOK(cache) /\ mac \in [Local -> 1 .. 2] /\ calls \in Nat
  BY DEF CacheOK
<1>2. CfgOK(cfg)
  BY NetConsts DEF CfgOK
<1>3. UdpOK(udp) /\ EchoOK(echo)
  BY SilenceOK DEF UdpOK, EchoOK
<1>4. call \in Calls /\ CallOK(call) /\ WaitOK(call, udp, echo) /\ call.at = "idle"
  BY NoCallOK
<1>5. AskedOK(asked, call, calls)
  BY DEF AskedOK
<1>6. RingOK(ring, call, calls)
  <2>1. ring \in Seq(Frames) /\ Len(ring) = 0
    OBVIOUS
  <2>. QED
    BY <2>1, NetConsts DEF RingOK
<1>. QED
  BY <1>1, <1>2, <1>3, <1>4, <1>5, <1>6, NoResultOK DEF NetInv

LEMMA NetNextInd == NetInv /\ [NetNext]_netVars => NetInv'
<1>. SUFFICES ASSUME NetInv, [NetNext]_netVars PROVE NetInv'
  OBVIOUS
<1>1. CASE \E cmd \in Commands : Begin(cmd)
  BY <1>1, BeginInd
<1>2. CASE Command
  BY <1>2, PingInd, QueryInd, DiscoverInd, WarmInd DEF Command
<1>3. CASE Polling
  BY <1>3, ArpPollInd, EchoPollInd, DnsPollInd, OfferPollInd, AckPollInd DEF Polling
<1>4. CASE KillCommand
  BY <1>4, KillInd
<1>5. CASE Second
  BY <1>5, SecondInd
<1>6. CASE HostReplies
  BY <1>6, HostInd
<1>7. CASE Move
  BY <1>7, MoveInd
<1>8. CASE UNCHANGED netVars
  BY <1>8 DEF netVars, NetInv
<1>. QED
  BY <1>1, <1>2, <1>3, <1>4, <1>5, <1>6, <1>7, <1>8 DEF NetNext

THEOREM NetInduction == NetSpec => []NetInv
<1>1. NetInit => NetInv
  BY NetInvInit
<1>2. NetInv /\ [NetNext]_netVars => NetInv'
  BY NetNextInd
<1>. QED
  BY <1>1, <1>2, PTL DEF NetSpec

\* A lease, an address or a ping's answer that a command reports is the answer to
\* what this command asked, unless an older answer was on the wire meanwhile
\* (dhcp.c:206, dns.c:20, shell.c:1845).
THEOREM AnswersAreOwn == NetSpec => []AnswerOwn
<1>1. NetInv => AnswerOwn
  <2>. SUFFICES ASSUME NetInv PROVE AnswerOwn
    OBVIOUS
  <2>1. \A s \in Slots : cache[s] # Empty => cache[s][1] \in Local /\ cache[s][2] \in 1 .. 2
    BY DEF NetInv, CacheOK
  <2>2. cfg \in [ip : {OwnIp} \cup Leases, gw : Local, dns : Local]
    BY DEF NetInv, CfgOK
  <2>3. udp.port \in {0, DnsPort, DhcpPort} /\ (udp.data # Silence => PortOf(udp.data) = udp.port)
    BY DEF NetInv, UdpOK
  <2>4. /\ call.at \in Places /\ call.best \in Nat /\ call.i \in Nat
        /\ (call.at = "arp" => call.to \in Local /\ call.tries \in 1 .. ArpTries)
        /\ call.best <= call.i
        /\ call.i <= Len(call.list)
    <3>1. call.list = <<>> => Len(call.list) = 0
      OBVIOUS
    <3>. QED
      BY <3>1, CallFacts DEF CallOK
  <2>5. Len(ring) <= MaxRing
    BY DEF NetInv, RingOK
  <2>6. NetTypeOK
    BY <2>1, <2>2, <2>3, <2>4, <2>5 DEF NetTypeOK, Places
  <2>7. call.at = "warm" => cfg.ip = call.offer
    BY DEF NetInv
  <2>8. Right(result, cfg)
    BY DEF NetInv, ResultOK
  <2>. QED
    BY <2>6, <2>7, <2>8 DEF AnswerOwn, Right
<1>. QED
  BY <1>1, NetInduction, PTL

\* Taking a frame off is told from leaving or adding one by the ring's length.
LEMMA RingLengths ==
  ASSUME NEW r \in Seq(Frames), r # <<>>
  PROVE  /\ Tail(r) # r /\ SubSeq(r, 0 + 1, Len(r)) # Tail(r)
         /\ \A f : Append(r, f) # Tail(r)
<1>1. Len(Tail(r)) = Len(r) - 1
  BY HeadTailProperties
<1>2. Len(SubSeq(r, 0 + 1, Len(r))) = Len(r)
  <2>1. Len(r) \in Nat /\ \A i \in 1 .. Len(r) : r[i] \in Frames
    OBVIOUS
  <2>2. 0 + 1 = 1 /\ Len(r) - 1 + 1 = Len(r) /\ 1 <= Len(r) + 1
    BY <2>1
  <2>. QED
    BY <2>1, <2>2, SubSeqProperties
<1>3. ASSUME NEW f PROVE Len(Append(r, f)) = Len(r) + 1
  <2>1. r \in Seq(Frames \cup {f})
    OBVIOUS
  <2>. QED
    BY <2>1, AppendProperties
<1>4. Len(r) - 1 # Len(r) /\ Len(r) - 1 # Len(r) + 1
  <2>1. Len(r) \in Nat
    OBVIOUS
  <2>. QED
    BY <2>1
<1>5. Tail(r) # r /\ SubSeq(r, 0 + 1, Len(r)) # Tail(r)
  BY <1>1, <1>2, <1>4, Zenon
<1>6. ASSUME NEW f PROVE Append(r, f) # Tail(r)
  BY <1>1, <1>3, <1>4, Zenon
<1>. QED
  BY <1>5, <1>6

\* Only a polling loop takes a frame off the ring, and it hears that frame.
LEMMA TakenIsHeard ==
  ASSUME NetInv, [NetNext]_netVars, ring # <<>>, ring' = Tail(ring)
  PROVE  cache' = Heard(Head(ring))
<1>1. ring \in Seq(Frames)
  BY DEF NetInv, RingOK
<1>2. CASE \E take \in {0, 1} : Read(take) /\ cache' = Heard(Frame(take))
  <2>. PICK take \in {0, 1} : Read(take) /\ cache' = Heard(Frame(take))
    BY <1>2
  <2>1. take # 0
    BY <1>1, RingLengths DEF Read
  <2>. QED
    BY <2>1 DEF Frame
<1>3. ring' # ring
  BY <1>1, RingLengths
<1>4. ASSUME NEW f, Arrive(f) PROVE FALSE
  BY <1>1, <1>4, RingLengths DEF Arrive
<1>5. CASE \E cmd \in Commands : Begin(cmd)
  BY <1>3, <1>5 DEF Begin
<1>6. CASE Command
  BY <1>3, <1>6 DEF Command, Ping, Query, Discover, Warm
<1>7. CASE Polling
  BY <1>2, <1>7 DEF Polling, ArpPoll, EchoPoll, DnsPoll, OfferPoll, AckPoll
<1>8. CASE KillCommand \/ Second
  BY <1>3, <1>8 DEF KillCommand, Second
<1>9. CASE HostReplies \/ Move
  BY <1>4, <1>9 DEF HostReplies, Move
<1>10. CASE UNCHANGED netVars
  BY <1>3, <1>10 DEF netVars
<1>. QED
  BY <1>5, <1>6, <1>7, <1>8, <1>9, <1>10 DEF NetNext

\* With a cache of any size: what an ARP packet says is what a lookup finds next
\* (arp_cache_insert against arp_cache_lookup, arp.c:22 and 34).
THEOREM CacheIsFresh == NetSpec => CacheFresh
<1>1. NetInv /\ [NetNext]_netVars
        => (ring # <<>> /\ ring' = Tail(ring) /\ Head(ring).kind = "arp"
              => Lookup(cache', Head(ring).from) = Head(ring).mac)
  <2>. SUFFICES ASSUME NetInv, [NetNext]_netVars,
                       ring # <<>>, ring' = Tail(ring), Head(ring).kind = "arp"
                PROVE  Lookup(cache', Head(ring).from) = Head(ring).mac
    OBVIOUS
  <2>. PICK f : f = Head(ring)
    OBVIOUS
  <2>1. cache' = Heard(f)
    BY TakenIsHeard
  <2>2. f = ring[1] /\ 1 \in 1 .. Len(ring)
    BY DEF NetInv, RingOK
  <2>3. f \in Frames /\ f.from \in Local /\ f.mac \in 1 .. 2 /\ CacheOK(cache)
    BY <2>2 DEF NetInv, RingOK, AnswerOK, Good, FrameOK
  <2>4. Lookup(Heard(f), f.from) = f.mac
    BY <2>3, HeardFresh
  <2>. QED
    BY <2>1, <2>4
<1>. QED
  BY <1>1, NetInduction, PTL DEF NetSpec, CacheFresh

-----------------------------------------------------------------------------
(***************************************************************************)
(* The rings of the card.                                                  *)
(***************************************************************************)
RxIndex == 0 .. NumRx - 1
TxIndex == 0 .. NumTx - 1

\* The i-th descriptor from the driver's head, and from the card's.
RxSlot(i) == IF rxHead + i < NumRx THEN rxHead + i ELSE rxHead + i - NumRx
TxSlot(i) == IF tdh + i < NumTx THEN tdh + i ELSE tdh + i - NumTx

\* The descriptors that hold a frame not yet given back to the card, the one
\* e1000_recv is at included; those that the card may transmit.
Held  == arrived - handed + (IF recv = "idle" THEN 0 ELSE 1)
Owned == queued - sent - (IF send = "idle" THEN 0 ELSE 1)

RxTypeOK ==
  /\ rxDesc \in [RxIndex -> [dd : BOOLEAN, frame : Int]]
  /\ rdh \in RxIndex /\ rdt \in RxIndex /\ rxHead \in RxIndex
  /\ arrived \in Int /\ handed \in Int /\ recv \in {"idle", "copied", "cleared"}

TxTypeOK ==
  /\ txDesc \in [TxIndex -> [dd : BOOLEAN, frame : Int]]
  /\ tdh \in TxIndex /\ tdt \in TxIndex /\ txTail \in TxIndex
  /\ queued \in Int /\ sent \in Int /\ send \in {"idle", "wait", "filled"}

\* The frames lie from the head on, in the order of their arrival; the card
\* owns what follows, up to the last slot before the head.
RxInv ==
  /\ RxTypeOK
  /\ handed <= arrived /\ Held <= NumRx - 1
  /\ rdh = RxSlot(Held) /\ rdt = RxSlot(NumRx - 1)
  /\ \A i \in RxIndex :
       /\ i < Held => rxDesc[RxSlot(i)].frame = handed + i + (IF recv = "idle" THEN 1 ELSE 0)
       /\ rxDesc[RxSlot(i)].dd <=> i < Held /\ ~(i = 0 /\ recv = "cleared")

\* The frames not yet sent lie from TDH on; behind them the slot that
\* e1000_send is filling, then slots that are done.
TxInv ==
  /\ TxTypeOK
  /\ 0 <= Owned /\ queued - sent <= NumTx
  /\ txTail = TxSlot(Owned) /\ tdt = txTail
  /\ send = "filled" => Owned < NumTx
  /\ \A i \in TxIndex :
       /\ i < Owned => txDesc[TxSlot(i)].frame = sent + i + 1
       /\ send = "filled" /\ i = Owned => txDesc[TxSlot(i)].frame = queued
       /\ txDesc[TxSlot(i)].dd <=> i >= Owned /\ ~(i = Owned /\ send = "filled")

NicInv == RxInv /\ TxInv

-----------------------------------------------------------------------------
(***************************************************************************)
(* The ring's indices without division.                                    *)
(***************************************************************************)
LEMMA SizeFacts ==
  /\ NumRx \in Nat \ {0} /\ NumRx >= 2
  /\ NumTx \in Nat \ {0} /\ NumTx >= 2
BY NicAssumption

LEMMA ModFacts ==
  ASSUME NEW n \in Nat \ {0}, NEW i \in 0 .. n - 1, NEW k \in 0 .. n
  PROVE  (i + k) % n = IF i + k < n THEN i + k ELSE i + k - n
<1>1. CASE i + k < n
  BY <1>1
<1>2. CASE i + k >= n
  <2>1. i + k - n \in 0 .. n - 1 /\ i + k = n * 1 + (i + k - n)
    BY <1>2
  <2>. QED
    BY <1>2, <2>1
<1>. QED
  BY <1>1, <1>2

LEMMA RxNextFacts ==
  ASSUME NEW i \in RxIndex
  PROVE  RxNext(i) = IF i + 1 < NumRx THEN i + 1 ELSE 0
<1>. USE SizeFacts DEF RxIndex
<1>1. CASE i + 1 < NumRx
  BY <1>1, (i + 1) % NumRx = i + 1 DEF RxNext
<1>2. CASE i + 1 = NumRx
  BY <1>2, NumRx % NumRx = 0 DEF RxNext
<1>. QED
  BY <1>1, <1>2

LEMMA TxNextFacts ==
  ASSUME NEW i \in TxIndex
  PROVE  TxNext(i) = IF i + 1 < NumTx THEN i + 1 ELSE 0
<1>. USE SizeFacts DEF TxIndex
<1>1. CASE i + 1 < NumTx
  BY <1>1, (i + 1) % NumTx = i + 1 DEF TxNext
<1>2. CASE i + 1 = NumTx
  BY <1>2, NumTx % NumTx = 0 DEF TxNext
<1>. QED
  BY <1>1, <1>2

\* Different places in the ring are different descriptors.
LEMMA RxSlotFacts ==
  ASSUME RxTypeOK
  PROVE  /\ \A i \in RxIndex : RxSlot(i) \in RxIndex
         /\ \A i, j \in RxIndex : RxSlot(i) = RxSlot(j) => i = j
         /\ RxSlot(0) = rxHead
<1>. USE SizeFacts DEF RxIndex, RxSlot
<1>1. rxHead \in RxIndex
  BY DEF RxTypeOK
<1>2. ASSUME NEW i \in RxIndex PROVE RxSlot(i) \in RxIndex
  BY <1>1
<1>3. ASSUME NEW i \in RxIndex, NEW j \in RxIndex, RxSlot(i) = RxSlot(j)
      PROVE  i = j
  BY <1>1, <1>3
<1>. QED
  BY <1>1, <1>2, <1>3

LEMMA TxSlotFacts ==
  ASSUME TxTypeOK
  PROVE  /\ \A i \in TxIndex : TxSlot(i) \in TxIndex
         /\ \A i, j \in TxIndex : TxSlot(i) = TxSlot(j) => i = j
         /\ TxSlot(0) = tdh /\ TxSlot(NumTx) = tdh
<1>. USE SizeFacts DEF TxIndex, TxSlot
<1>1. tdh \in TxIndex
  BY DEF TxTypeOK
<1>2. ASSUME NEW i \in TxIndex PROVE TxSlot(i) \in TxIndex
  BY <1>1
<1>3. ASSUME NEW i \in TxIndex, NEW j \in TxIndex, TxSlot(i) = TxSlot(j)
      PROVE  i = j
  BY <1>1, <1>3
<1>. QED
  BY <1>1, <1>2, <1>3

LEMMA InitNic == NicInit => NicInv
<1>. SUFFICES ASSUME NicInit PROVE NicInv
  OBVIOUS
<1>. USE SizeFacts DEF NicInit, RxIndex, TxIndex
<1>1. RxInv
  BY DEF RxInv, RxTypeOK, Held, RxSlot
<1>2. TxInv
  BY DEF TxInv, TxTypeOK, Owned, TxSlot
<1>. QED
  BY <1>1, <1>2 DEF NicInv

-----------------------------------------------------------------------------
(***************************************************************************)
(* Receiving: the driver's steps, and the card's.                          *)
(***************************************************************************)
LEMMA RecvCopyInd == ASSUME RxInv, RecvCopy PROVE RxInv'
<1>. USE SizeFacts DEF RxIndex
<1>1. /\ recv = "idle" /\ recv' = "copied" /\ handed' = rxDesc[rxHead].frame
      /\ UNCHANGED <<rxDesc, rdh, rdt, rxHead, arrived>>
  BY DEF RecvCopy
<1>2. rxHead = RxSlot(0) /\ rxDesc[rxHead].dd
  BY RxSlotFacts DEF RxInv, RecvCopy
<1>3. 0 < Held /\ handed' = handed + 1
  <2>1. 0 \in RxIndex /\ handed \in Int
    BY DEF RxInv, RxTypeOK
  <2>. QED
    BY <1>1, <1>2, <2>1 DEF RxInv
<1>4. Held' = Held /\ \A i : RxSlot(i)' = RxSlot(i)
  BY <1>1, <1>3 DEF Held, RxSlot, RxInv, RxTypeOK
<1>. QED
  BY <1>1, <1>3, <1>4 DEF RxInv, RxTypeOK, Held

LEMMA RecvClearInd == ASSUME RxInv, RecvClear PROVE RxInv'
<1>. USE SizeFacts DEF RxIndex
<1>1. /\ recv = "copied" /\ recv' = "cleared"
      /\ rxDesc' = [rxDesc EXCEPT ![rxHead].dd = FALSE]
      /\ UNCHANGED <<rdh, rdt, rxHead, arrived, handed>>
  BY DEF RecvClear
<1>2. Held' = Held /\ \A i : RxSlot(i)' = RxSlot(i)
  BY <1>1 DEF Held, RxSlot
<1>3. RxTypeOK'
  BY <1>1 DEF RxInv, RxTypeOK
<1>4. \A i \in RxIndex : /\ rxDesc'[RxSlot(i)].frame = rxDesc[RxSlot(i)].frame
                         /\ (rxDesc'[RxSlot(i)].dd <=> rxDesc[RxSlot(i)].dd /\ i # 0)
  <2>1. RxTypeOK /\ 0 \in RxIndex /\ RxSlot(0) = rxHead
    BY RxSlotFacts DEF RxInv
  <2>2. \A i \in RxIndex : RxSlot(i) \in RxIndex /\ (RxSlot(i) = rxHead <=> i = 0)
    BY <2>1, RxSlotFacts
  <2>. QED
    BY <1>1, <2>1, <2>2 DEF RxTypeOK
<1>. QED
  BY <1>1, <1>2, <1>3, <1>4 DEF RxInv

\* The head moves on: every frame is one place nearer.
LEMMA RecvReturnInd == ASSUME RxInv, RecvReturn PROVE RxInv'
<1>. USE SizeFacts DEF RxIndex
<1>1. /\ recv = "cleared" /\ recv' = "idle" /\ rdt' = rxHead /\ rxHead' = RxNext(rxHead)
      /\ UNCHANGED <<rxDesc, rdh, arrived, handed>>
  BY DEF RecvReturn
<1>2. rxHead \in RxIndex /\ rxHead' = IF rxHead + 1 < NumRx THEN rxHead + 1 ELSE 0
  BY <1>1, RxNextFacts DEF RxInv, RxTypeOK
<1>3. RxTypeOK'
  BY <1>1, <1>2 DEF RxInv, RxTypeOK
<1>4. Held = arrived - handed + 1 /\ Held' = Held - 1 /\ Held \in 1 .. NumRx - 1
  BY <1>1 DEF Held, RxInv, RxTypeOK
<1>5. /\ \A i \in 0 .. NumRx - 2 : RxSlot(i)' = RxSlot(i + 1)
      /\ RxSlot(NumRx - 1)' = RxSlot(0)
  BY <1>2 DEF RxSlot
<1>6. rdh' = RxSlot(Held)' /\ rdt' = RxSlot(NumRx - 1)'
  <2>1. RxSlot(Held)' = RxSlot(Held)
    BY <1>4, <1>5
  <2>. QED
    BY <1>1, <1>5, <2>1, RxSlotFacts DEF RxInv
<1>7. ASSUME NEW i \in RxIndex
      PROVE  /\ i < Held' => rxDesc'[RxSlot(i)'].frame = handed' + i + 1
             /\ rxDesc'[RxSlot(i)'].dd <=> i < Held'
  <2>1. CASE i < NumRx - 1
    <3>1. RxSlot(i)' = RxSlot(i + 1) /\ i + 1 \in RxIndex
      BY <1>5, <2>1
    <3>2. /\ i + 1 < Held => rxDesc[RxSlot(i + 1)].frame = handed + (i + 1)
          /\ rxDesc[RxSlot(i + 1)].dd <=> i + 1 < Held
      BY <1>1, <3>1 DEF RxInv, RxTypeOK
    <3>3. rxDesc'[RxSlot(i)'] = rxDesc[RxSlot(i + 1)] /\ handed' = handed /\ handed \in Int
      BY <1>1, <3>1 DEF RxInv, RxTypeOK
    <3>4. Held' = Held - 1 /\ Held \in Int /\ i \in Int
      BY <1>4
    <3>. QED
      BY <3>2, <3>3, <3>4
  <2>2. CASE i = NumRx - 1
    <3>1. RxSlot(i)' = RxSlot(0)
      BY <1>5, <2>2
    <3>2. ~rxDesc[RxSlot(0)].dd
      BY <1>1 DEF RxInv
    <3>. QED
      BY <1>1, <1>4, <2>2, <3>1, <3>2
  <2>. QED
    BY <2>1, <2>2
<1>8. handed' <= arrived' /\ Held' <= NumRx - 1
  BY <1>1, <1>4 DEF RxInv
<1>. QED
  BY <1>1, <1>3, <1>6, <1>7, <1>8 DEF RxInv

LEMMA CardReceivesInd == ASSUME RxInv, CardReceives PROVE RxInv'
<1>. USE SizeFacts DEF RxIndex
<1>1. /\ rdh # rdt /\ arrived' = arrived + 1 /\ rdh' = RxNext(rdh)
      /\ rxDesc' = [rxDesc EXCEPT ![rdh] = [dd |-> TRUE, frame |-> arrived + 1]]
      /\ UNCHANGED <<rdt, rxHead, handed, recv>>
  BY DEF CardReceives
<1>2. Held' = Held + 1 /\ \A i : RxSlot(i)' = RxSlot(i)
  BY <1>1 DEF Held, RxSlot, RxInv, RxTypeOK
<1>3. Held \in 0 .. NumRx - 2
  BY <1>1 DEF Held, RxInv, RxTypeOK
<1>4. rdh' = RxSlot(Held)'
  <2>1. rdh \in RxIndex /\ rdh' = IF rdh + 1 < NumRx THEN rdh + 1 ELSE 0
    BY <1>1, RxNextFacts DEF RxInv, RxTypeOK
  <2>2. RxSlot(Held + 1) = IF RxSlot(Held) + 1 < NumRx THEN RxSlot(Held) + 1 ELSE 0
    BY <1>3 DEF RxSlot, RxInv, RxTypeOK
  <2>. QED
    BY <1>2, <1>3, <2>1, <2>2 DEF RxInv
<1>5. RxTypeOK'
  BY <1>1, RxNextFacts DEF RxInv, RxTypeOK
<1>6. /\ rxDesc'[RxSlot(Held)] = [dd |-> TRUE, frame |-> arrived + 1]
      /\ \A i \in RxIndex \ {Held} : rxDesc'[RxSlot(i)] = rxDesc[RxSlot(i)]
  BY <1>1, <1>3, RxSlotFacts DEF RxInv, RxTypeOK
<1>7. ASSUME NEW i \in RxIndex
      PROVE  /\ i < Held' => rxDesc'[RxSlot(i)'].frame = handed' + i + (IF recv' = "idle" THEN 1 ELSE 0)
             /\ rxDesc'[RxSlot(i)'].dd <=> i < Held' /\ ~(i = 0 /\ recv' = "cleared")
  <2>1. CASE i = Held
    <3>1. arrived + 1 = handed + i + (IF recv = "idle" THEN 1 ELSE 0)
      BY <2>1 DEF Held, RxInv, RxTypeOK
    <3>2. ~(i = 0 /\ recv = "cleared")
      BY <2>1 DEF Held, RxInv, RxTypeOK
    <3>. QED
      BY <1>1, <1>2, <1>3, <1>6, <2>1, <3>1, <3>2
  <2>2. CASE i # Held
    BY <1>1, <1>2, <1>3, <1>6, <2>2 DEF RxInv
  <2>. QED
    BY <2>1, <2>2
<1>8. handed' <= arrived' /\ Held' <= NumRx - 1
  BY <1>1, <1>2, <1>3 DEF RxInv, RxTypeOK
<1>9. rdt' = RxSlot(NumRx - 1)'
  BY <1>1, <1>2 DEF RxInv
<1>. QED
  BY <1>4, <1>5, <1>7, <1>8, <1>9 DEF RxInv

-----------------------------------------------------------------------------
(***************************************************************************)
(* Sending.                                                                *)
(***************************************************************************)
LEMMA SendCallInd == ASSUME TxInv, SendCall PROVE TxInv'
<1>. USE SizeFacts DEF TxIndex
<1>1. /\ send = "idle" /\ send' = "wait" /\ queued' = queued + 1
      /\ queued - sent < Outstanding
      /\ UNCHANGED <<txDesc, tdh, tdt, txTail, sent>>
  BY DEF SendCall
<1>2. Owned' = Owned /\ \A i : TxSlot(i)' = TxSlot(i)
  BY <1>1 DEF Owned, TxSlot, TxInv, TxTypeOK
<1>3. TxTypeOK' /\ queued' - sent' <= NumTx
  BY <1>1, NicAssumption DEF TxInv, TxTypeOK
<1>. QED
  BY <1>1, <1>2, <1>3 DEF TxInv

LEMMA SendFillInd == ASSUME TxInv, SendFill PROVE TxInv'
<1>. USE SizeFacts DEF TxIndex
<1>1. /\ send = "wait" /\ send' = "filled" /\ txDesc[txTail].dd
      /\ txDesc' = [txDesc EXCEPT ![txTail] = [dd |-> FALSE, frame |-> queued]]
      /\ UNCHANGED <<tdh, tdt, txTail, queued, sent>>
  BY DEF SendFill
<1>2. Owned' = Owned /\ \A i : TxSlot(i)' = TxSlot(i)
  BY <1>1 DEF Owned, TxSlot
<1>3. Owned \in 0 .. NumTx - 1
  <2>1. Owned \in 0 .. NumTx
    BY <1>1 DEF Owned, TxInv, TxTypeOK
  <2>2. CASE Owned = NumTx
    <3>1. txTail = TxSlot(0)
      BY <2>2, TxSlotFacts DEF TxInv
    <3>. QED
      BY <1>1, <2>2, <3>1 DEF TxInv
  <2>. QED
    BY <2>1, <2>2
<1>4. TxTypeOK'
  BY <1>1 DEF TxInv, TxTypeOK
<1>5. /\ txDesc'[TxSlot(Owned)] = [dd |-> FALSE, frame |-> queued]
      /\ \A i \in TxIndex \ {Owned} : txDesc'[TxSlot(i)] = txDesc[TxSlot(i)]
  BY <1>1, <1>3, TxSlotFacts DEF TxInv, TxTypeOK
<1>6. ASSUME NEW i \in TxIndex
      PROVE  /\ i < Owned => txDesc'[TxSlot(i)].frame = sent + i + 1
             /\ i = Owned => txDesc'[TxSlot(i)].frame = queued
             /\ txDesc'[TxSlot(i)].dd <=> i >= Owned /\ i # Owned
  BY <1>1, <1>3, <1>5 DEF TxInv
<1>. QED
  BY <1>1, <1>2, <1>3, <1>4, <1>6 DEF TxInv

LEMMA SendKickInd == ASSUME TxInv, SendKick PROVE TxInv'
<1>. USE SizeFacts DEF TxIndex
<1>1. /\ send = "filled" /\ send' = "idle"
      /\ txTail' = TxNext(txTail) /\ tdt' = TxNext(txTail)
      /\ UNCHANGED <<txDesc, tdh, queued, sent>>
  BY DEF SendKick
<1>2. Owned' = Owned + 1 /\ \A i : TxSlot(i)' = TxSlot(i)
  BY <1>1 DEF Owned, TxSlot, TxInv, TxTypeOK
<1>3. Owned \in 0 .. NumTx - 1 /\ queued = sent + Owned + 1
  BY <1>1 DEF Owned, TxInv, TxTypeOK
<1>4. txTail' = TxSlot(Owned)'
  <2>1. txTail \in TxIndex /\ txTail' = IF txTail + 1 < NumTx THEN txTail + 1 ELSE 0
    BY <1>1, TxNextFacts DEF TxInv, TxTypeOK
  <2>2. TxSlot(Owned + 1) = IF TxSlot(Owned) + 1 < NumTx THEN TxSlot(Owned) + 1 ELSE 0
    BY <1>3 DEF TxSlot, TxInv, TxTypeOK
  <2>. QED
    BY <1>2, <1>3, <2>1, <2>2 DEF TxInv
<1>5. TxTypeOK'
  BY <1>1, TxNextFacts DEF TxInv, TxTypeOK
<1>6. ASSUME NEW i \in TxIndex
      PROVE  /\ i < Owned + 1 => txDesc[TxSlot(i)].frame = sent + i + 1
             /\ txDesc[TxSlot(i)].dd <=> i >= Owned + 1
  BY <1>1, <1>3 DEF TxInv
<1>. QED
  BY <1>1, <1>2, <1>3, <1>4, <1>5, <1>6 DEF TxInv

\* The card's head moves on.
LEMMA CardSendsInd == ASSUME TxInv, CardSends PROVE TxInv'
<1>. USE SizeFacts DEF TxIndex
<1>1. /\ tdh # tdt /\ sent' = txDesc[tdh].frame /\ tdh' = TxNext(tdh)
      /\ txDesc' = [txDesc EXCEPT ![tdh].dd = TRUE]
      /\ UNCHANGED <<tdt, txTail, queued, send>>
  BY DEF CardSends
<1>2. tdh \in TxIndex /\ tdh' = IF tdh + 1 < NumTx THEN tdh + 1 ELSE 0
  BY <1>1, TxNextFacts DEF TxInv, TxTypeOK
<1>3. Owned \in 1 .. NumTx - 1
  <2>1. Owned \in 0 .. NumTx
    BY DEF Owned, TxInv, TxTypeOK
  <2>2. Owned # 0 /\ Owned # NumTx
    BY <1>1, TxSlotFacts DEF TxInv
  <2>. QED
    BY <2>1, <2>2
<1>4. sent' = sent + 1
  <2>1. 0 \in TxIndex /\ 0 < Owned /\ TxSlot(0) = tdh
    BY <1>3, TxSlotFacts DEF TxInv
  <2>2. \A i \in TxIndex : i < Owned => txDesc[TxSlot(i)].frame = sent + i + 1
    BY DEF TxInv
  <2>3. txDesc[tdh].frame = sent + 0 + 1
    BY <2>1, <2>2
  <2>4. sent \in Int
    BY DEF TxInv, TxTypeOK
  <2>. QED
    BY <1>1, <2>3, <2>4
<1>5. Owned' = Owned - 1
  BY <1>1, <1>4 DEF Owned, TxInv, TxTypeOK
<1>6. TxTypeOK'
  <2>1. txDesc' \in [TxIndex -> [dd : BOOLEAN, frame : Int]]
    BY <1>1, <1>2 DEF TxInv, TxTypeOK
  <2>2. tdh' \in TxIndex
    BY <1>2
  <2>3. /\ tdt \in TxIndex /\ txTail \in TxIndex /\ queued \in Int /\ sent \in Int
        /\ send \in {"idle", "wait", "filled"}
    BY DEF TxInv, TxTypeOK
  <2>4. sent' \in Int
    BY <1>4, <2>3
  <2>. HIDE DEF TxIndex
  <2>. QED
    BY <1>1, <2>1, <2>2, <2>3, <2>4 DEF TxTypeOK
<1>7. /\ \A i \in 0 .. NumTx - 2 : TxSlot(i)' = TxSlot(i + 1)
      /\ TxSlot(NumTx - 1)' = TxSlot(0)
  BY <1>2 DEF TxSlot
<1>8. /\ txDesc'[TxSlot(0)].dd
      /\ \A i \in TxIndex \ {0} : txDesc'[TxSlot(i)] = txDesc[TxSlot(i)]
  <2>1. TxTypeOK /\ 0 \in TxIndex /\ TxSlot(0) = tdh
    BY TxSlotFacts DEF TxInv
  <2>2. \A i \in TxIndex \ {0} : TxSlot(i) \in TxIndex /\ TxSlot(i) # tdh
    BY <2>1, TxSlotFacts
  <2>. QED
    BY <1>1, <1>2, <2>1, <2>2 DEF TxTypeOK
<1>9. txTail' = TxSlot(Owned)'
  <2>1. TxSlot(Owned)' = TxSlot(Owned)
    BY <1>3, <1>5, <1>7
  <2>. QED
    BY <1>1, <2>1 DEF TxInv
<1>10. ASSUME NEW i \in TxIndex
       PROVE  /\ i < Owned' => txDesc'[TxSlot(i)'].frame = sent' + i + 1
              /\ send' = "filled" /\ i = Owned' => txDesc'[TxSlot(i)'].frame = queued'
              /\ txDesc'[TxSlot(i)'].dd <=> i >= Owned' /\ ~(i = Owned' /\ send' = "filled")
  <2>1. CASE i < NumTx - 1
    <3>1. TxSlot(i)' = TxSlot(i + 1) /\ i + 1 \in TxIndex \ {0}
      BY <1>7, <2>1
    <3>2. txDesc'[TxSlot(i)'] = txDesc[TxSlot(i + 1)]
      BY <1>8, <3>1
    <3>3. /\ i + 1 < Owned => txDesc[TxSlot(i + 1)].frame = sent + (i + 1) + 1
          /\ send = "filled" /\ i + 1 = Owned => txDesc[TxSlot(i + 1)].frame = queued
          /\ txDesc[TxSlot(i + 1)].dd <=> i + 1 >= Owned /\ ~(i + 1 = Owned /\ send = "filled")
      BY <3>1 DEF TxInv
    <3>4. Owned' = Owned - 1 /\ Owned \in Int /\ i \in Int /\ sent \in Int
      BY <1>3, <1>5 DEF TxInv, TxTypeOK
    <3>5. /\ i < Owned' <=> i + 1 < Owned
          /\ i = Owned' <=> i + 1 = Owned
          /\ i >= Owned' <=> i + 1 >= Owned
          /\ sent' + i + 1 = sent + (i + 1) + 1
      BY <1>4, <3>4
    <3>6. send' = send /\ queued' = queued
      BY <1>1
    <3>. QED
      BY <3>2, <3>3, <3>5, <3>6
  <2>2. CASE i = NumTx - 1
    <3>1. txDesc'[TxSlot(i)'].dd
      BY <1>7, <1>8, <2>2
    <3>. QED
      BY <1>3, <1>5, <2>2, <3>1
  <2>. QED
    BY <2>1, <2>2
<1>11. /\ 0 <= Owned' /\ queued' - sent' <= NumTx /\ tdt' = txTail'
       /\ send' = "filled" => Owned' < NumTx
  BY <1>1, <1>3, <1>4, <1>5 DEF TxInv, TxTypeOK
<1>. QED
  BY <1>6, <1>9, <1>10, <1>11 DEF TxInv

-----------------------------------------------------------------------------
LEMMA NicNextInd == NicInv /\ [NicNext]_nicVars => NicInv'
<1>. SUFFICES ASSUME RxInv, TxInv, [NicNext]_nicVars PROVE RxInv' /\ TxInv'
  BY DEF NicInv
<1>1. UNCHANGED rxVars => RxInv'
  BY DEF rxVars, RxInv, RxTypeOK, Held, RxSlot
<1>2. UNCHANGED txVars => TxInv'
  BY DEF txVars, TxInv, TxTypeOK, Owned, TxSlot
<1>3. CASE RecvCopy
  BY <1>2, <1>3, RecvCopyInd DEF RecvCopy
<1>4. CASE RecvClear
  BY <1>2, <1>4, RecvClearInd DEF RecvClear
<1>5. CASE RecvReturn
  BY <1>2, <1>5, RecvReturnInd DEF RecvReturn
<1>6. CASE SendCall
  BY <1>1, <1>6, SendCallInd DEF SendCall
<1>7. CASE Sending
  BY <1>1, <1>7, SendFillInd, SendKickInd DEF Sending, SendFill, SendKick
<1>8. CASE CardReceives
  BY <1>2, <1>8, CardReceivesInd DEF CardReceives
<1>9. CASE CardSends
  BY <1>1, <1>9, CardSendsInd DEF CardSends
<1>10. CASE UNCHANGED nicVars
  BY <1>1, <1>2, <1>10 DEF nicVars, rxVars, txVars
<1>. QED
  BY <1>3, <1>4, <1>5, <1>6, <1>7, <1>8, <1>9, <1>10 DEF NicNext

LEMMA NicOrder == NicInv => FramesInOrder
<1>. SUFFICES ASSUME RxInv, TxInv PROVE FramesInOrder
  BY DEF NicInv
<1>. USE SizeFacts DEF RxIndex, TxIndex
<1>1. ASSUME NEW k \in 1 .. arrived - handed
      PROVE  rxDesc[(rxHead + k - (IF recv = "idle" THEN 1 ELSE 0)) % NumRx]
               = [dd |-> TRUE, frame |-> handed + k]
  <2>. DEFINE i == k - (IF recv = "idle" THEN 1 ELSE 0)
  <2>1. i \in 0 .. NumRx - 1 /\ i < Held /\ ~(i = 0 /\ recv = "cleared")
    BY DEF Held, RxInv, RxTypeOK
  <2>2. rxHead \in 0 .. NumRx - 1
    BY DEF RxInv, RxTypeOK
  <2>3. (rxHead + i) % NumRx = RxSlot(i)
    <3>. HIDE DEF i
    <3>1. i \in 0 .. NumRx /\ NumRx \in Nat \ {0}
      BY <2>1
    <3>2. (rxHead + i) % NumRx = IF rxHead + i < NumRx THEN rxHead + i ELSE rxHead + i - NumRx
      BY <2>2, <3>1, ModFacts
    <3>. QED
      BY <3>2 DEF RxSlot
  <2>4. rxHead + k - (IF recv = "idle" THEN 1 ELSE 0) = rxHead + i
    BY <2>2
  <2>5. rxDesc[RxSlot(i)].dd /\ rxDesc[RxSlot(i)].frame = handed + k
    <3>1. handed + i + (IF recv = "idle" THEN 1 ELSE 0) = handed + k
      BY DEF RxInv, RxTypeOK
    <3>. HIDE DEF i
    <3>. QED
      BY <2>1, <3>1 DEF RxInv
  <2>6. rxDesc[RxSlot(i)] \in [dd : BOOLEAN, frame : Int]
    BY <2>1, RxSlotFacts DEF RxInv, RxTypeOK
  <2>. QED
    BY <2>3, <2>4, <2>5, <2>6
<1>2. ASSUME tdh # tdt
      PROVE  txDesc[tdh].frame = sent + 1 /\ ~txDesc[tdh].dd
  <2>1. Owned # 0 /\ Owned \in Int /\ 0 <= Owned
    BY <1>2, TxSlotFacts DEF Owned, TxInv, TxTypeOK
  <2>2. 0 \in TxIndex /\ 0 < Owned /\ TxSlot(0) = tdh
    BY <2>1, TxSlotFacts DEF TxInv
  <2>3. \A i \in TxIndex :
          /\ i < Owned => txDesc[TxSlot(i)].frame = sent + i + 1
          /\ i < Owned => ~txDesc[TxSlot(i)].dd
    BY <2>1 DEF TxInv
  <2>4. txDesc[tdh].frame = sent + 0 + 1 /\ ~txDesc[tdh].dd
    BY <2>2, <2>3
  <2>. QED
    BY <2>4 DEF TxInv, TxTypeOK
<1>. QED
  BY <1>1, <1>2 DEF FramesInOrder

\* With rings of any size, no frame is lost or doubled on its way through them
\* and none overtakes another (e1000.c: e1000_recv, e1000_send).
THEOREM RingsInOrder == NicSpec => []FramesInOrder
<1>1. NicInv => FramesInOrder
  BY NicOrder
<1>2. NicInit => NicInv
  BY InitNic
<1>3. NicInv /\ [NicNext]_nicVars => NicInv'
  BY NicNextInd
<1>. QED
  BY <1>1, <1>2, <1>3, PTL DEF NicSpec

-----------------------------------------------------------------------------
Numbers == 0 .. SeqSpace - 1
States  == {"CLOSED", "SYN_SENT", "ESTABLISHED"}
Pieces  == Seq(Nat \X Nat)
Retx    == [active : BOOLEAN, seg : Segment \cup {<<>>}, end : Numbers, age : {0, 1},
            tries : 0 .. MaxRetx]
Tcb     == [state : States, port : 0 .. Conns, seq : Numbers, ack : Numbers, rx : Pieces,
            fin : BOOLEAN, retx : Retx, out : Seq(Segment)]
DownSegment == [port : 1 .. Conns, flags : SUBSET Flags, seq : Nat, ack : Numbers, data : Pieces]
Server  == [open : BOOLEAN, rcv : Numbers, req : BOOLEAN, sent : Nat, fin : BOOLEAN]

\* The segments that carry the server's numbers.
Numbered(s) == "SYN" \notin s.flags /\ "RST" \notin s.flags
After(s)    == s.seq + Len(s.data)

(***************************************************************************)
(* The parts take the client's value c, the segments u to the server and d *)
(* from it, and the server's side v of n connections: a step's lemmas      *)
(* speak of the values in its middle.                                      *)
(***************************************************************************)
\* The server's side: nothing has happened on connections not yet opened.
ServerOK(v, n) ==
  /\ v \in [1 .. Conns -> Server]
  /\ \A p \in 1 .. Conns : p > n => ~v[p].open /\ ~v[p].req /\ v[p].sent = 0

\* Payload goes to servers that have the connection.
SegmentOK(s, v, n) == s \in Segment /\ s.port <= n /\ (s.len > 0 => v[s.port].open)
UpOK(u, v, n) == u \in Seq(Segment) /\ \A k \in DOMAIN u : SegmentOK(u[k], v, n)

\* Each segment of an answer says where its pieces belong, and they come in order.
PiecesOK(s, v) ==
  Numbered(s) => /\ s.seq >= 1 /\ After(s) <= v[s.port].sent + 1
                 /\ \A k \in DOMAIN s.data : s.data[k] = <<s.port, s.seq + k - 1>>
DownOK(d, v, n) ==
  /\ d \in Seq(DownSegment)
  /\ \A i \in DOMAIN d : /\ d[i].port <= n /\ PiecesOK(d[i], v)
                         /\ ~Numbered(d[i]) => d[i].data = <<>>
                         /\ "SYN" \in d[i].flags => v[d[i].port].open
  /\ \A i, j \in DOMAIN d : i < j /\ Numbered(d[i]) /\ Numbered(d[j]) /\ d[i].port = d[j].port
       => After(d[i]) <= d[j].seq

\* No request has been sent on connection p.
Quiet(p, c, u, d, v) ==
  /\ ~v[p].req /\ v[p].sent = 0
  /\ \A k \in DOMAIN u : u[k].port = p => u[k].len = 0
  /\ \A i \in DOMAIN d : d[i].port = p => ~Numbered(d[i])
  /\ c.retx.active => c.retx.seg.port # p
  /\ \A k \in DOMAIN c.out : c.out[k].port = p => c.out[k].len = 0

\* The pieces after the first len of connection p are on their way, up to the last sent.
Awaited(len, p, d, told) ==
  /\ \A i \in DOMAIN d : d[i].port = p /\ Numbered(d[i]) => len < d[i].seq
  /\ \A m \in len + 1 .. told :
       \E i \in DOMAIN d : d[i].port = p /\ Numbered(d[i]) /\ d[i].seq <= m /\ m < After(d[i])
Coming(c, d, v) == Len(c.rx) < RxSize => Awaited(Len(c.rx), c.port, d, v[c.port].sent)

RxOK(c) == Len(c.rx) <= RxSize /\ \A k \in DOMAIN c.rx : c.rx[k] = <<c.port, k>>
RetxOK(c, v, n) == c.retx.active => c.retx.seg.len > 0 /\ "SYN" \notin c.retx.seg.flags
                                     /\ SegmentOK(c.retx.seg, v, n)
ClientOK(c, u, d, v, n) ==
  /\ c \in Tcb /\ c.port = n /\ RxOK(c) /\ RetxOK(c, v, n)
  /\ c.state # "CLOSED" => n >= 1
  /\ c.state = "SYN_SENT" => c.rx = <<>> /\ Quiet(n, c, u, d, v)
  /\ c.state = "ESTABLISHED" => v[n].open /\ Len(c.rx) <= v[n].sent /\ Coming(c, d, v)
  /\ \A k \in DOMAIN c.out : SegmentOK(c.out[k], v, n)

\* Where http_get is.
PcOK ==
  /\ pc \in {"idle", "start", "connect", "request", "recv"}
  /\ pc = "connect" => tcb.state = "SYN_SENT"
  /\ pc \in {"request", "recv"} => tcb.state = "ESTABLISHED"
  /\ tried \in 0 .. Attempts /\ (pc \in {"start", "connect"} => tried < Attempts)
  /\ t0 \in Nat /\ (pc = "connect" => t0 <= ConnectTime) /\ (pc = "recv" => t0 <= RecvTime)
  /\ (pc \notin {"connect", "recv"} => t0 = 0)

BodyOK ==
  body \notin {<<>>, Failed} =>
    \E p \in 1 .. opened : \E first \in {1, Header + 1} :
      \A k \in DOMAIN body : body[k] = <<p, first + k - 1>>

\* The number of the request's first byte, and what the server says of it before
\* it has the request.
Based(base, c, u, d, v, n) ==
  /\ \A k \in DOMAIN u : u[k].port = n /\ "SYN" \in u[k].flags => Add(u[k].seq, 1) = base
  /\ \A k \in DOMAIN c.out : c.out[k].port = n /\ "SYN" \in c.out[k].flags => Add(c.out[k].seq, 1) = base
  /\ ~v[n].req => \A i \in DOMAIN d : d[i].port = n /\ "ACK" \in d[i].flags => d[i].ack = base
  /\ ~v[n].req /\ v[n].open => v[n].rcv = base
Armed(base, c, v, n) ==
  /\ c.seq = Add(base, ReqLen) /\ (c.retx.active => c.retx.end = c.seq)
  /\ c.retx.active \/ v[n].req \/ c.seq < ReqLen
RequestOK ==
  pc \in {"connect", "request", "recv"} =>
    \E base \in Numbers : /\ Based(base, tcb, up, down, srv, opened)
                          /\ pc # "recv" => tcb.seq = base
                          /\ pc = "recv" => Armed(base, tcb, srv, opened)

TcpInv ==
  /\ opened \in 0 .. Conns /\ ServerOK(srv, opened) /\ UpOK(up, srv, opened) /\ DownOK(down, srv, opened)
  /\ ClientOK(tcb, up, down, srv, opened) /\ tcb.out = <<>>
  /\ PcOK /\ BodyOK /\ RequestOK

-----------------------------------------------------------------------------
(***************************************************************************)
(* Numbers, and the client's helpers.                                      *)
(***************************************************************************)

LEMMA Consts ==
  /\ Conns \in Nat /\ Attempts \in Nat /\ ConnectTime \in Nat /\ RecvTime \in Nat
  /\ RxSize \in Nat /\ ReqLen \in Nat /\ SeqSpace \in Nat /\ MaxRetx \in Nat
  /\ MaxBody \in Nat /\ MaxWire \in Nat /\ MaxReset \in Nat /\ Header \in Nat
  /\ Attempts > 0 /\ RxSize > 0 /\ ReqLen > 0 /\ SeqSpace > 0 /\ Isns \subseteq Numbers
  BY TcpAssumption DEF Numbers

LEMMA AddIn ==
  ASSUME NEW a \in Nat, NEW b \in Nat
  PROVE  Add(a, b) \in Numbers
  BY Consts DEF Add, Numbers

LEMMA Wraps ==
  ASSUME NEW x \in Nat, x < 2 * SeqSpace
  PROVE  x % SeqSpace = IF x < SeqSpace THEN x ELSE x - SeqSpace
<1>0. SeqSpace \in Nat /\ SeqSpace > 0
  BY Consts
<1>1. CASE x < SeqSpace
  BY <1>0, <1>1
<1>2. CASE x >= SeqSpace
  <2>1. x - SeqSpace \in 0 .. SeqSpace - 1 /\ x = SeqSpace * 1 + (x - SeqSpace)
    BY <1>0, <1>2
  <2>. QED
    BY <1>0, <1>2, <2>1
<1>. QED
  BY <1>0, <1>1, <1>2

\* The number before a number, and back.
LEMMA BackAndForth ==
  ASSUME NEW a \in Numbers
  PROVE  (a + SeqSpace - 1) % SeqSpace \in Numbers /\ Add((a + SeqSpace - 1) % SeqSpace, 1) = a
<1>. DEFINE b == (a + SeqSpace - 1) % SeqSpace
<1>1. a \in Nat /\ a < SeqSpace
  BY Consts DEF Numbers
<1>2. b = IF a = 0 THEN SeqSpace - 1 ELSE a - 1
  <2>1. a + SeqSpace - 1 \in Nat /\ a + SeqSpace - 1 < 2 * SeqSpace
    BY <1>1, Consts
  <2>. QED
    BY <1>1, <2>1, Wraps, Consts
<1>. HIDE DEF b
<1>3. b \in Numbers /\ b + 1 \in Nat /\ b + 1 < 2 * SeqSpace
  BY <1>1, <1>2, Consts DEF Numbers
<1>4. (b + 1) % SeqSpace = a
  <2>1. PICK x : x = b + 1
    OBVIOUS
  <2>2. x \in Nat /\ x < 2 * SeqSpace
    BY <1>3, <2>1
  <2>3. x % SeqSpace = IF x < SeqSpace THEN x ELSE x - SeqSpace
    BY <2>2, Wraps
  <2>. QED
    BY <1>1, <1>2, <2>1, <2>2, <2>3, Consts
<1>. QED
  BY <1>3, <1>4 DEF Add, b

\* A request whose end does not wrap around ends after it begins.
LEMMA EndsLater ==
  ASSUME NEW a \in Numbers, Add(a, ReqLen) >= ReqLen
  PROVE  a < Add(a, ReqLen)
<1>1. a \in Nat /\ a < SeqSpace /\ Add(a, ReqLen) \in Numbers
  BY Consts, AddIn DEF Numbers
<1>2. ReqLen < SeqSpace
  BY <1>1, Consts DEF Numbers
<1>3. Add(a, ReqLen) = IF a + ReqLen < SeqSpace THEN a + ReqLen ELSE a + ReqLen - SeqSpace
  BY <1>1, <1>2, Wraps, Consts DEF Add
<1>. QED
  BY <1>1, <1>2, <1>3, Consts

\* Only SYNs and payloads are followed.
LEMMA TxNothing ==
  ASSUME NEW c \in Tcb, NEW flags \in SUBSET Flags, "SYN" \notin flags
  PROVE  Tx(c, flags, 0) = c
<1>. DEFINE seg == [port |-> c.port, flags |-> flags, seq |-> c.seq,
                    ack |-> IF "ACK" \in flags THEN c.ack ELSE 0, len |-> 0]
<1>1. ~Answered(seg)
  BY DEF Answered
<1>. HIDE DEF seg
<1>2. Tx(c, flags, 0) = [c EXCEPT !.out = IF Answered(seg) THEN Append(@, seg) ELSE @, !.retx = @]
  BY DEF Tx, seg
<1>3. Tx(c, flags, 0) = [c EXCEPT !.out = @, !.retx = @]
  BY <1>1, <1>2
<1>. QED
  BY <1>3 DEF Tcb

\* A SYN, or the request.
LEMMA TxSends ==
  ASSUME NEW c \in Tcb, c.port >= 1, NEW flags \in SUBSET Flags, NEW len \in {0, ReqLen},
         "SYN" \in flags \/ len > 0
  PROVE  \E seg \in Segment :
           /\ seg.port = c.port /\ seg.flags = flags /\ seg.seq = c.seq /\ seg.len = len
           /\ Tx(c, flags, len) =
                [c EXCEPT !.out = Append(@, seg),
                          !.retx = IF len = 0 THEN @
                                   ELSE [active |-> TRUE, seg |-> seg, end |-> Add(c.seq, len),
                                         age |-> 0, tries |-> 0]]
<1>. DEFINE seg == [port |-> c.port, flags |-> flags, seq |-> c.seq,
                    ack |-> IF "ACK" \in flags THEN c.ack ELSE 0, len |-> len]
<1>1. c.port \in 1 .. Conns /\ c.seq \in Numbers /\ c.ack \in Numbers /\ 0 \in Numbers
  BY Consts DEF Tcb, Numbers
<1>2. seg \in Segment
  BY <1>1 DEF Segment, Numbers
<1>3. Answered(seg) /\ seg.port = c.port /\ seg.flags = flags /\ seg.seq = c.seq /\ seg.len = len
  BY DEF Answered
<1>. HIDE DEF seg
<1>4. Tx(c, flags, len) = [c EXCEPT !.out = IF Answered(seg) THEN Append(@, seg) ELSE @,
                                    !.retx = IF len = 0 THEN @
                                             ELSE [active |-> TRUE, seg |-> seg, end |-> Add(c.seq, len),
                                                   age |-> 0, tries |-> 0]]
  BY DEF Tx, seg
<1>. QED
  BY <1>2, <1>3, <1>4

-----------------------------------------------------------------------------
(***************************************************************************)
(* The client takes a segment.                                             *)
(***************************************************************************)

LEMMA TailFacts ==
  ASSUME NEW S, NEW d \in Seq(S), d # <<>>
  PROVE  /\ Head(d) = d[1] /\ 1 \in DOMAIN d /\ d[1] \in S /\ Tail(d) \in Seq(S)
         /\ \A i \in DOMAIN Tail(d) : i \in Nat /\ i >= 1 /\ i + 1 \in DOMAIN d /\ Tail(d)[i] = d[i + 1]
         /\ \A i \in DOMAIN d : i # 1 => i - 1 \in DOMAIN Tail(d) /\ Tail(d)[i - 1] = d[i]
<1>1. Len(d) \in Nat /\ Len(d) >= 1 /\ DOMAIN d = 1 .. Len(d)
  OBVIOUS
<1>2. Tail(d) \in Seq(S) /\ Len(Tail(d)) = Len(d) - 1 /\ DOMAIN Tail(d) = 1 .. Len(d) - 1
  BY <1>1
<1>3. \A i \in 1 .. Len(d) - 1 : Tail(d)[i] = d[i + 1]
  BY <1>1, <1>2
<1>. QED
  BY <1>1, <1>2, <1>3

LEMMA DownTail ==
  ASSUME NEW d, NEW v, NEW n, DownOK(d, v, n), d # <<>>
  PROVE  DownOK(Tail(d), v, n)
<1>1. d \in Seq(DownSegment)
  BY DEF DownOK
<1>2. /\ Tail(d) \in Seq(DownSegment)
      /\ \A i \in DOMAIN Tail(d) : i \in Nat /\ i + 1 \in DOMAIN d /\ Tail(d)[i] = d[i + 1]
  BY <1>1, TailFacts
<1>3. \A i \in DOMAIN Tail(d) :
        /\ Tail(d)[i].port <= n /\ PiecesOK(Tail(d)[i], v)
        /\ ~Numbered(Tail(d)[i]) => Tail(d)[i].data = <<>>
        /\ "SYN" \in Tail(d)[i].flags => v[Tail(d)[i].port].open
  BY <1>2 DEF DownOK
<1>4. ASSUME NEW i \in DOMAIN Tail(d), NEW j \in DOMAIN Tail(d), i < j,
             Numbered(Tail(d)[i]), Numbered(Tail(d)[j]), Tail(d)[i].port = Tail(d)[j].port
      PROVE  After(Tail(d)[i]) <= Tail(d)[j].seq
  <2>1. i + 1 < j + 1
    BY <1>2, <1>4
  <2>. QED
    BY <2>1, <1>2, <1>4 DEF DownOK
<1>. QED
  BY <1>2, <1>3, <1>4 DEF DownOK

LEMMA QuietTail ==
  ASSUME NEW p, NEW c, NEW u, NEW d, NEW v, NEW S, d \in Seq(S), d # <<>>, Quiet(p, c, u, d, v)
  PROVE  Quiet(p, c, u, Tail(d), v)
  BY TailFacts DEF Quiet

\* A segment that brings nothing to this connection.
LEMMA AwaitedTail ==
  ASSUME NEW len \in Nat, NEW p, NEW d \in Seq(DownSegment), NEW told \in Nat, d # <<>>,
         Awaited(len, p, d, told), ~(d[1].port = p /\ Numbered(d[1]) /\ d[1].data # <<>>)
  PROVE  Awaited(len, p, Tail(d), told)
<1>1. \A i \in DOMAIN Tail(d) : Tail(d)[i].port = p /\ Numbered(Tail(d)[i]) => len < Tail(d)[i].seq
  BY TailFacts DEF Awaited
<1>2. ASSUME NEW m \in len + 1 .. told
      PROVE  \E i \in DOMAIN Tail(d) : /\ Tail(d)[i].port = p /\ Numbered(Tail(d)[i])
                                       /\ Tail(d)[i].seq <= m /\ m < After(Tail(d)[i])
  <2>1. PICK i \in DOMAIN d : /\ d[i].port = p /\ Numbered(d[i])
                              /\ d[i].seq <= m /\ m < After(d[i])
    BY DEF Awaited
  <2>2. i # 1
    <3>1. CASE d[1].data = <<>>
      <4>1. d[1] \in DownSegment
        BY TailFacts
      <4>2. After(d[1]) = d[1].seq /\ d[1].seq \in Nat
        BY <4>1, <3>1 DEF After, DownSegment
      <4>3. m \in Int
        BY <1>2
      <4>. QED
        BY <2>1, <4>2, <4>3
    <3>. QED
      BY <2>1, <3>1
  <2>3. i - 1 \in DOMAIN Tail(d) /\ Tail(d)[i - 1] = d[i]
    BY <2>2, TailFacts
  <2>. QED
    BY <2>1, <2>3
<1>. QED
  BY <1>1, <1>2 DEF Awaited

\* The next data of the connection are the next pieces.
NoneBefore(e, p, d) == \A i \in DOMAIN d : i > 1 /\ Numbered(d[i]) /\ d[i].port = p => e <= d[i].seq
LEMMA AwaitedNext ==
  ASSUME NEW len \in Nat, NEW p, NEW d \in Seq(DownSegment), NEW told \in Nat, d # <<>>,
         Awaited(len, p, d, told), d[1].port = p, Numbered(d[1]), NEW more \in Nat, more >= 1,
         After(d[1]) = d[1].seq + more, After(d[1]) <= told + 1, NoneBefore(After(d[1]), p, d)
  PROVE  d[1].seq = len + 1 /\ Awaited(len + more, p, Tail(d), told)
<1>0. PICK s \in DownSegment : s = d[1]
  BY TailFacts
<1>01. PICK q \in Nat : q = s.seq
  BY DEF DownSegment
<1>02. PICK e \in Nat : e = q + more
  OBVIOUS
<1>1. /\ q = s.seq /\ e = After(s) /\ s.port = p /\ Numbered(s) /\ s = d[1] /\ e = q + more
      /\ e <= told + 1 /\ NoneBefore(e, p, d)
  BY <1>0, <1>01, <1>02
<1>2. 1 \in DOMAIN d
  BY TailFacts
<1>3. len < q
  BY <1>1, <1>2 DEF Awaited
<1>4. \A i \in DOMAIN d : i \in Nat /\ i >= 1 /\ d[i] \in DownSegment /\ d[i].seq \in Nat
  <2>1. \A i \in DOMAIN d : i \in Nat /\ i >= 1 /\ d[i] \in DownSegment
    OBVIOUS
  <2>. QED
    BY <2>1 DEF DownSegment
<1>5. q = len + 1
  <2>1. len + 1 \in len + 1 .. told
    BY <1>1, <1>3
  <2>2. PICK m : m = len + 1
    OBVIOUS
  <2>3. PICK i \in DOMAIN d : /\ d[i].port = p /\ Numbered(d[i])
                              /\ d[i].seq <= m /\ m < After(d[i])
    BY <2>1, <2>2 DEF Awaited
  <2>4. CASE i = 1
    BY <1>1, <1>3, <2>2, <2>3, <2>4
  <2>5. CASE i > 1
    <3>1. q + more <= d[i].seq
      BY <1>1, <2>3, <2>5 DEF NoneBefore
    <3>2. PICK r \in Nat : r = d[i].seq
      BY <1>4
    <3>. QED
      BY <1>3, <2>2, <2>3, <3>1, <3>2
  <2>. QED
    BY <1>4, <2>4, <2>5
<1>7. e = len + more + 1 /\ After(s) = e
  BY <1>1, <1>5
<1>8. ASSUME NEW i \in DOMAIN Tail(d), Tail(d)[i].port = p, Numbered(Tail(d)[i])
      PROVE  len + more < Tail(d)[i].seq
  <2>1. PICK j : j = i + 1
    OBVIOUS
  <2>2. j \in DOMAIN d /\ j > 1 /\ Tail(d)[i] = d[j]
    BY <2>1, TailFacts
  <2>3. e <= d[j].seq /\ d[j].seq \in Nat
    <3>1. NoneBefore(e, p, d)
      BY <1>1
    <3>2. d[j].port = p /\ Numbered(d[j])
      BY <1>8, <2>2
    <3>. QED
      BY <1>4, <2>2, <3>1, <3>2 DEF NoneBefore
  <2>. QED
    BY <1>7, <2>2, <2>3
<1>9. ASSUME NEW m \in len + more + 1 .. told
      PROVE  \E i \in DOMAIN Tail(d) : /\ Tail(d)[i].port = p /\ Numbered(Tail(d)[i])
                                       /\ Tail(d)[i].seq <= m /\ m < After(Tail(d)[i])
  <2>1. m \in Int /\ m >= e /\ m \in len + 1 .. told
    BY <1>7, <1>9
  <2>2. PICK i \in DOMAIN d : d[i].port = p /\ Numbered(d[i]) /\ d[i].seq <= m /\ m < After(d[i])
    BY <2>1 DEF Awaited
  <2>3. i # 1
    <3>1. ASSUME i = 1 PROVE After(d[i]) = e
      BY <1>1, <3>1
    <3>. QED
      BY <2>1, <2>2, <3>1
  <2>4. i - 1 \in DOMAIN Tail(d) /\ Tail(d)[i - 1] = d[i]
    BY <2>3, TailFacts
  <2>. QED
    BY <2>2, <2>4
<1>. QED
  BY <1>1, <1>5, <1>8, <1>9 DEF Awaited

\* What fits of the data is kept.
Kept(rx, data) == SubSeq(rx \o data, 1, Least(RxSize, Len(rx \o data)))

LEMMA KeptIs ==
  ASSUME NEW rx \in Pieces, NEW data \in Pieces
  PROVE  /\ Kept(rx, data) \in Pieces
         /\ Len(Kept(rx, data)) = IF RxSize < Len(rx) + Len(data) THEN RxSize ELSE Len(rx) + Len(data)
         /\ \A k \in DOMAIN Kept(rx, data) :
              /\ k \in Nat /\ k >= 1 /\ k <= Len(rx) + Len(data)
              /\ k <= Len(rx) => Kept(rx, data)[k] = rx[k]
              /\ k > Len(rx) => Kept(rx, data)[k] = data[k - Len(rx)]
<1>. DEFINE all == rx \o data  m == Least(RxSize, Len(all))
<1>1. /\ all \in Pieces /\ Len(all) = Len(rx) + Len(data) /\ Len(rx) \in Nat /\ Len(data) \in Nat
      /\ \A k \in 1 .. Len(rx) : all[k] = rx[k]
      /\ \A k \in Len(rx) + 1 .. Len(rx) + Len(data) : all[k] = data[k - Len(rx)]
  BY DEF Pieces
<1>2. m \in Nat /\ m <= Len(all) /\ m = IF RxSize < Len(all) THEN RxSize ELSE Len(all)
  BY <1>1, Consts DEF Least
<1>. HIDE DEF all, m
<1>3. /\ SubSeq(all, 1, m) \in Pieces /\ Len(SubSeq(all, 1, m)) = m
      /\ \A k \in 1 .. m : SubSeq(all, 1, m)[k] = all[k]
  BY <1>1, <1>2 DEF Pieces
<1>4. Kept(rx, data) = SubSeq(all, 1, m)
  BY DEF Kept, all, m
<1>5. DOMAIN Kept(rx, data) = 1 .. m
  BY <1>3, <1>4 DEF Pieces
<1>. QED
  BY <1>1, <1>2, <1>3, <1>4, <1>5

\* The next pieces go where they belong.
PiecesFrom(xs, p, q) == \A k \in DOMAIN xs : xs[k] = <<p, q + k - 1>>
InPlace(xs, p) == \A k \in DOMAIN xs : xs[k] = <<p, k>>
LEMMA KeptInOrder ==
  ASSUME NEW rx \in Pieces, NEW data \in Pieces, NEW p, NEW q \in Nat, q = Len(rx) + 1,
         InPlace(rx, p), PiecesFrom(data, p, q)
  PROVE  InPlace(Kept(rx, data), p)
<1>. SUFFICES ASSUME NEW k \in DOMAIN Kept(rx, data) PROVE Kept(rx, data)[k] = <<p, k>>
  BY DEF InPlace
<1>1. /\ k \in Nat /\ k >= 1 /\ k <= Len(rx) + Len(data)
      /\ k <= Len(rx) => Kept(rx, data)[k] = rx[k]
      /\ k > Len(rx) => Kept(rx, data)[k] = data[k - Len(rx)]
  BY KeptIs
<1>2. /\ Len(rx) \in Nat /\ Len(data) \in Nat
      /\ DOMAIN rx = 1 .. Len(rx) /\ DOMAIN data = 1 .. Len(data)
  BY DEF Pieces
<1>3. CASE k <= Len(rx)
  <2>1. k \in DOMAIN rx
    BY <1>1, <1>2, <1>3
  <2>. QED
    BY <1>1, <1>3, <2>1 DEF InPlace
<1>4. CASE k > Len(rx)
  <2>1. PICK j \in DOMAIN data : j = k - Len(rx)
    BY <1>1, <1>2, <1>4
  <2>2. q + j - 1 = k
    BY <1>1, <1>2, <2>1
  <2>. QED
    BY <1>1, <1>4, <2>1, <2>2 DEF PiecesFrom
<1>. QED
  BY <1>1, <1>2, <1>3, <1>4

\* The next data of the connection.
LEMMA TakesNext ==
  ASSUME NEW c \in Tcb, NEW d, NEW v, NEW n \in 1 .. Conns, NEW c2 \in Tcb, c.port = n, c2.port = n,
         ServerOK(v, n), DownOK(d, v, n), d # <<>>, Coming(c, d, v), RxOK(c), Len(c.rx) <= v[n].sent,
         d[1].port = n, Numbered(d[1]), d[1].data # <<>>, c2.rx = Kept(c.rx, d[1].data)
  PROVE  RxOK(c2) /\ Len(c2.rx) <= v[n].sent /\ Coming(c2, Tail(d), v)
<1>1. PICK s, rx, rx2, told : s = d[1] /\ rx = c.rx /\ rx2 = c2.rx /\ told = v[n].sent
  OBVIOUS
<1>2. PICK data : data = s.data
  OBVIOUS
<1>3. /\ d \in Seq(DownSegment) /\ 1 \in DOMAIN d /\ s \in DownSegment /\ s.port = n /\ Numbered(s)
      /\ \A i \in DOMAIN d : i \in Nat
  BY <1>1, TailFacts DEF DownOK
<1>4. s.seq \in Nat /\ data \in Pieces /\ rx \in Pieces /\ rx2 \in Pieces /\ data # <<>>
  BY <1>1, <1>2, <1>3 DEF DownSegment, Tcb
<1>5. told \in Nat
  BY <1>1 DEF ServerOK, Server
<1>6. PICK len, more, len2 \in Nat : len = Len(rx) /\ more = Len(data) /\ len2 = Len(rx2)
  BY <1>4 DEF Pieces
<1>7. more >= 1
  BY <1>4, <1>6 DEF Pieces
<1>8. /\ s.seq >= 1 /\ After(s) = s.seq + more /\ After(s) <= told + 1
      /\ PiecesFrom(data, n, s.seq)
  BY <1>1, <1>2, <1>3, <1>6 DEF DownOK, PiecesOK, After, PiecesFrom
<1>9. NoneBefore(After(s), n, d)
  BY <1>1, <1>3 DEF DownOK, NoneBefore
<1>10. rx2 = Kept(rx, data) /\ len2 = IF RxSize < len + more THEN RxSize ELSE len + more
  <2>1. rx2 = Kept(rx, data)
    BY <1>1, <1>2
  <2>. QED
    BY <2>1, <1>4, <1>6, KeptIs
<1>11. len <= RxSize /\ len <= told /\ InPlace(rx, n)
  BY <1>1, <1>6 DEF RxOK, InPlace
<1>12. len2 <= RxSize
  BY <1>6, <1>10, Consts
<1>13. CASE len = RxSize
  <2>1. len2 = len
    BY <1>7, <1>10, <1>13, Consts
  <2>0. DOMAIN rx2 = 1 .. len2 /\ DOMAIN rx = 1 .. len
    BY <1>4, <1>6 DEF Pieces
  <2>2. \A k \in DOMAIN rx2 : k \in Nat /\ k >= 1 /\ k <= len
    BY <2>0, <2>1
  <2>3. \A k \in DOMAIN rx2 : rx2[k] = rx[k] /\ k \in DOMAIN rx
    <3>1. \A k \in DOMAIN rx2 : k <= Len(rx) => rx2[k] = rx[k]
      <4>1. \A k \in DOMAIN Kept(rx, data) : k <= Len(rx) => Kept(rx, data)[k] = rx[k]
        BY <1>4, KeptIs
      <4>. QED
        BY <1>10, <4>1
    <3>. QED
      BY <1>6, <2>0, <2>1, <2>2, <3>1
  <2>4. RxOK(c2)
    BY <1>1, <1>6, <1>11, <1>12, <2>3 DEF RxOK, InPlace
  <2>5. Coming(c2, Tail(d), v)
    BY <1>1, <1>6, <1>13, <2>1 DEF Coming
  <2>. QED
    BY <1>1, <1>6, <1>11, <2>1, <2>4, <2>5
<1>14. CASE len < RxSize
  <2>1. Awaited(len, n, d, told)
    BY <1>1, <1>6, <1>14 DEF Coming
  <2>3. PICK q \in Nat : q = s.seq
    BY <1>4
  <2>2. q = len + 1 /\ Awaited(len + more, n, Tail(d), told)
    <3>1. /\ d[1].port = n /\ Numbered(d[1]) /\ After(d[1]) = d[1].seq + more /\ After(d[1]) <= told + 1
          /\ NoneBefore(After(d[1]), n, d)
      BY <1>1, <1>3, <1>8, <1>9
    <3>2. d[1].seq = len + 1 /\ Awaited(len + more, n, Tail(d), told)
      BY <1>3, <1>5, <1>7, <2>1, <3>1, AwaitedNext
    <3>. QED
      BY <1>1, <2>3, <3>2
  <2>4. InPlace(rx2, n)
    <3>1. q = Len(rx) + 1 /\ PiecesFrom(data, n, q)
      BY <1>6, <1>8, <2>2, <2>3
    <3>. QED
      BY <1>4, <1>10, <1>11, <3>1, KeptInOrder
  <2>5. RxOK(c2)
    BY <1>1, <1>6, <1>12, <2>4 DEF RxOK, InPlace
  <2>6. len2 <= told
    BY <1>5, <1>6, <1>8, <1>10, <2>2, <2>3, Consts
  <2>7. Coming(c2, Tail(d), v)
    <3>1. len2 < RxSize => len2 = len + more
      BY <1>6, <1>10, Consts
    <3>. QED
      BY <1>1, <1>6, <2>2, <3>1 DEF Coming
  <2>. QED
    BY <1>1, <1>6, <2>5, <2>6, <2>7
<1>. QED
  BY <1>6, <1>11, <1>13, <1>14, Consts

-----------------------------------------------------------------------------
(***************************************************************************)
(* What the steps of the client do to g_tcp.                               *)
(***************************************************************************)

LEMMA TcbFields ==
  ASSUME NEW c \in Tcb
  PROVE  /\ c.state \in States /\ c.port \in 0 .. Conns /\ c.seq \in Numbers /\ c.ack \in Numbers
         /\ c.rx \in Pieces /\ c.retx \in Retx /\ c.retx.active \in BOOLEAN /\ c.out \in Seq(Segment)
  BY DEF Tcb, Retx

LEMMA ClearRetx ==
  NoRetx \in Retx /\ ~NoRetx.active
<1>1. 0 \in Numbers /\ 0 \in 0 .. MaxRetx
  BY Consts DEF Numbers
<1>. QED
  BY <1>1 DEF NoRetx, Retx

\* Data that come are kept as far as they fit.
LEMMA DataIs ==
  ASSUME NEW c \in Tcb, NEW s \in DownSegment
  PROVE  /\ Data(c, s) \in Tcb /\ Data(c, s).port = c.port /\ Data(c, s).out = c.out
         /\ Data(c, s).state = c.state /\ Data(c, s).seq = c.seq /\ Data(c, s).retx = c.retx
         /\ s.data = <<>> => Data(c, s).rx = c.rx
         /\ s.data # <<>> => Data(c, s).rx = Kept(c.rx, s.data)
<1>1. CASE s.data = <<>>
  BY <1>1 DEF Data
<1>2. CASE s.data # <<>>
  <2>1. s.seq \in Nat /\ s.data \in Pieces /\ Len(s.data) \in Nat /\ c.rx \in Pieces
    BY DEF DownSegment, Tcb, Pieces
  <2>2. PICK rx, ack : rx = Kept(c.rx, s.data) /\ ack = Add(s.seq, Len(s.data))
    OBVIOUS
  <2>3. rx \in Pieces /\ ack \in Numbers
    <3>1. PICK data, old : data = s.data /\ old = c.rx
      OBVIOUS
    <3>2. Kept(old, data) \in Pieces
      BY <2>1, <3>1, KeptIs
    <3>. QED
      BY <2>1, <2>2, <3>1, <3>2, AddIn
  <2>4. PICK b : b = [c EXCEPT !.rx = rx, !.ack = ack]
    OBVIOUS
  <2>5. /\ b \in Tcb /\ b.port = c.port /\ b.out = c.out /\ b.state = c.state /\ b.seq = c.seq
        /\ b.retx = c.retx /\ b.rx = rx
    BY <2>3, <2>4 DEF Tcb
  <2>6. Data(c, s) = Tx(b, {"ACK"}, 0)
    BY <1>2, <2>2, <2>4 DEF Data, Kept
  <2>7. Tx(b, {"ACK"}, 0) = b
    BY <2>5, TxNothing DEF Flags
  <2>. QED
    BY <1>2, <2>2, <2>5, <2>6, <2>7
<1>. QED
  BY <1>1, <1>2

\* A FIN closes the connection.
LEMMA FinIs ==
  ASSUME NEW c \in Tcb, NEW s \in DownSegment
  PROVE  /\ Fin(c, s) \in Tcb /\ Fin(c, s).port = c.port /\ Fin(c, s).out = c.out
         /\ Fin(c, s).rx = c.rx /\ Fin(c, s).retx = c.retx
         /\ Fin(c, s) = c \/ Fin(c, s).state = "CLOSED"
<1>1. CASE "FIN" \notin s.flags
  BY <1>1 DEF Fin
<1>2. CASE "FIN" \in s.flags
  <2>1. s.seq \in Nat /\ Len(s.data) + 1 \in Nat /\ c.seq \in Numbers
    BY DEF DownSegment, Tcb, Pieces
  <2>2. PICK ack, seq \in Numbers : ack = Add(s.seq, Len(s.data) + 1) /\ seq = Add(c.seq, 1)
    <3>1. Add(s.seq, Len(s.data) + 1) \in Numbers
      BY <2>1, AddIn
    <3>2. Add(c.seq, 1) \in Numbers
      <4>1. c.seq \in Nat /\ 1 \in Nat
        BY <2>1, Consts DEF Numbers
      <4>. QED
        BY <4>1, AddIn
    <3>. QED
      BY <3>1, <3>2
  <2>3. PICK b : b = [c EXCEPT !.ack = ack]
    OBVIOUS
  <2>4. /\ b \in Tcb /\ b.port = c.port /\ b.out = c.out /\ b.rx = c.rx /\ b.retx = c.retx /\ b.seq = c.seq
    BY <2>3 DEF Tcb
  <2>5. Fin(c, s) = [Tx(b, {"ACK", "FIN"}, 0) EXCEPT !.seq = Add(@, 1), !.fin = TRUE, !.state = "CLOSED"]
    BY <1>2, <2>2, <2>3 DEF Fin
  <2>6. Tx(b, {"ACK", "FIN"}, 0) = b
    BY <2>4, TxNothing DEF Flags
  <2>7. Fin(c, s) = [b EXCEPT !.seq = seq, !.fin = TRUE, !.state = "CLOSED"]
    BY <2>2, <2>4, <2>5, <2>6
  <2>. QED
    BY <2>4, <2>7 DEF Tcb, States
<1>. QED
  BY <1>1, <1>2

\* What a frame does.
Accepts(c, s, c2) ==
  /\ c.state = "ESTABLISHED" /\ s.port = c.port /\ "RST" \notin s.flags
  /\ s.data = <<>> => c2.rx = c.rx
  /\ s.data # <<>> => c2.rx = Kept(c.rx, s.data)
  /\ c2.retx = c.retx \/ (c2.retx = NoRetx /\ Acks(c, s))
  /\ c2.state = "CLOSED" \/ (c2.state = "ESTABLISHED" /\ c2.seq = c.seq)
Opens(c, s, c2) ==
  /\ c.state = "SYN_SENT" /\ s.port = c.port /\ {"SYN", "ACK"} \subseteq s.flags
  /\ c2.state = "ESTABLISHED" /\ c2.rx = c.rx /\ c2.retx = c.retx /\ c2.seq = c.seq
Resets(c, c2) == c2.state = "CLOSED" /\ c2.rx = c.rx /\ c2.retx = c.retx
Ignores(c, s, c2) ==
  c2 = c /\ (c.state \in {"CLOSED", "SYN_SENT"} \/ s.port # c.port)

LEMMA RecvFrameIs ==
  ASSUME NEW c \in Tcb, NEW s \in DownSegment, NEW c2, c2 = RecvFrame(c, s)
  PROVE  /\ c2 \in Tcb /\ c2.port = c.port /\ c2.out = c.out
         /\ Accepts(c, s, c2) \/ Opens(c, s, c2) \/ Resets(c, c2) \/ Ignores(c, s, c2)
<1>1. CASE c.state = "CLOSED" \/ ~Mine(c, s)
  BY <1>1 DEF RecvFrame, Mine, Ignores
<1>2. CASE ~(c.state = "CLOSED" \/ ~Mine(c, s)) /\ "RST" \in s.flags
  <2>1. c2 = [c EXCEPT !.state = "CLOSED"]
    BY <1>2 DEF RecvFrame
  <2>. QED
    BY <2>1 DEF Tcb, States, Resets
<1>3. CASE ~(c.state = "CLOSED" \/ ~Mine(c, s)) /\ "RST" \notin s.flags /\ c.state = "SYN_SENT"
  <2>1. CASE {"SYN", "ACK"} \subseteq s.flags
    <3>1. PICK ack \in Numbers : ack = Add(s.seq, 1)
      <4>1. s.seq \in Nat
        BY DEF DownSegment
      <4>. QED
        BY <4>1, AddIn
    <3>2. PICK b : b = [c EXCEPT !.ack = ack, !.state = "ESTABLISHED"]
      OBVIOUS
    <3>3. /\ b \in Tcb /\ b.port = c.port /\ b.out = c.out /\ b.rx = c.rx /\ b.retx = c.retx
          /\ b.seq = c.seq /\ b.state = "ESTABLISHED"
      BY <3>2 DEF Tcb, States
    <3>4. c2 = Tx(b, {"ACK"}, 0)
      BY <1>3, <2>1, <3>1, <3>2 DEF RecvFrame
    <3>5. Tx(b, {"ACK"}, 0) = b
      BY <3>3, TxNothing DEF Flags
    <3>. QED
      BY <1>3, <2>1, <3>3, <3>4, <3>5 DEF Opens, Mine
  <2>2. CASE ~({"SYN", "ACK"} \subseteq s.flags)
    <3>1. c2 = c
      BY <1>3, <2>2 DEF RecvFrame
    <3>. QED
      BY <1>3, <3>1 DEF Ignores
  <2>. QED
    BY <2>1, <2>2
<1>4. CASE ~(c.state = "CLOSED" \/ ~Mine(c, s)) /\ "RST" \notin s.flags /\ c.state # "SYN_SENT"
  <2>1. c.state = "ESTABLISHED" /\ s.port = c.port
    BY <1>4 DEF Tcb, States, Mine
  <2>2. PICK retx : retx = IF c.retx.active /\ Acks(c, s) THEN NoRetx ELSE c.retx
    OBVIOUS
  <2>3. retx \in Retx /\ (retx = c.retx \/ (retx = NoRetx /\ Acks(c, s)))
    <3>1. c.retx \in Retx
      BY TcbFields
    <3>. QED
      BY <2>2, <3>1, ClearRetx
  <2>4. PICK b : b = [c EXCEPT !.retx = retx]
    OBVIOUS
  <2>5. /\ b \in Tcb /\ b.port = c.port /\ b.out = c.out /\ b.rx = c.rx /\ b.retx = retx
        /\ b.seq = c.seq /\ b.state = "ESTABLISHED"
    BY <2>1, <2>3, <2>4 DEF Tcb
  <2>6. PICK e : e = Data(b, s)
    OBVIOUS
  <2>7. /\ e \in Tcb /\ e.port = b.port /\ e.out = b.out /\ e.state = b.state /\ e.seq = b.seq
        /\ e.retx = b.retx /\ (s.data = <<>> => e.rx = b.rx)
    BY <2>5, <2>6, DataIs
  <2>8. s.data # <<>> => e.rx = Kept(c.rx, s.data)
    <3>1. s.data # <<>> => e.rx = Kept(b.rx, s.data)
      BY <2>5, <2>6, DataIs
    <3>. QED
      BY <2>5, <3>1
  <2>9. c2 = Fin(e, s)
    <3>1. c2 = Fin(Data([c EXCEPT !.retx = IF @.active /\ Acks(c, s) THEN NoRetx ELSE @], s), s)
      BY <1>4, <2>1 DEF RecvFrame
    <3>2. [c EXCEPT !.retx = IF @.active /\ Acks(c, s) THEN NoRetx ELSE @] = b
      BY <2>2, <2>4
    <3>. QED
      BY <2>6, <3>1, <3>2
  <2>10. /\ c2 \in Tcb /\ c2.port = e.port /\ c2.out = e.out /\ c2.rx = e.rx /\ c2.retx = e.retx
         /\ c2 = e \/ c2.state = "CLOSED"
    BY <2>7, <2>9, FinIs
  <2>. QED
    BY <1>4, <2>1, <2>3, <2>5, <2>7, <2>8, <2>10 DEF Accepts
<1>. QED
  BY <1>1, <1>2, <1>3, <1>4

\* The retransmission timer: the kept segment goes out again, is given up with the
\* connection, or is dropped where there is none.
Repeats(c, c2) ==
  /\ c.state = "ESTABLISHED" /\ c.retx.active /\ c2.state = c.state /\ c2.seq = c.seq
  /\ \E seg \in Segment :
       /\ seg.port = c.retx.seg.port /\ seg.flags = c.retx.seg.flags /\ seg.len = c.retx.seg.len
       /\ c2.out = Append(c.out, seg)
       /\ c2.retx.active /\ c2.retx.seg = seg /\ c2.retx.end = c.retx.end
Drops(c, c2) ==
  /\ c2.out = c.out /\ ~c2.retx.active
  /\ c2.state = "CLOSED" \/ (c2.state = c.state /\ c2.seq = c.seq /\ c.state # "ESTABLISHED")

LEMMA RetxCheckIs ==
  ASSUME NEW c \in Tcb, NEW c2, c2 = RetxCheck(c), c.retx.active => c.retx.seg \in Segment
  PROVE  /\ c2 \in Tcb /\ c2.port = c.port /\ c2.rx = c.rx
         /\ c2 = c \/ Drops(c, c2) \/ Repeats(c, c2)
<1>1. CASE ~c.retx.active
  BY <1>1 DEF RetxCheck
<1>2. CASE c.retx.active /\ c.state # "ESTABLISHED"
  <2>1. c2 = [c EXCEPT !.retx = NoRetx]
    BY <1>2 DEF RetxCheck
  <2>. QED
    BY <1>2, <2>1, ClearRetx DEF Tcb, Drops
<1>3. CASE c.retx.active /\ c.state = "ESTABLISHED" /\ c.retx.age < 1
  BY <1>3 DEF RetxCheck
<1>4. CASE /\ c.retx.active /\ c.state = "ESTABLISHED" /\ ~(c.retx.age < 1)
           /\ c.retx.tries + 1 > MaxRetx
  <2>1. c2 = [c EXCEPT !.retx = NoRetx, !.state = "CLOSED"]
    BY <1>4 DEF RetxCheck
  <2>. QED
    BY <2>1, ClearRetx DEF Tcb, Drops, States
<1>5. CASE /\ c.retx.active /\ c.state = "ESTABLISHED" /\ ~(c.retx.age < 1)
           /\ ~(c.retx.tries + 1 > MaxRetx)
  <2>1. c.retx \in Retx /\ c.retx.seg \in Segment /\ c.ack \in Numbers
    BY <1>5, TcbFields DEF Retx
  <2>2. PICK old, tries : old = c.retx.seg /\ tries = c.retx.tries + 1
    OBVIOUS
  <2>3. PICK seg : seg = [old EXCEPT !.ack = c.ack]
    OBVIOUS
  <2>4. seg \in Segment /\ seg.port = old.port /\ seg.flags = old.flags /\ seg.len = old.len
    BY <2>1, <2>2, <2>3 DEF Segment, Numbers
  <2>5. tries \in 0 .. MaxRetx
    BY <1>5, <2>1, <2>2, Consts DEF Retx
  <2>6. PICK retx : retx = [c.retx EXCEPT !.seg = seg, !.age = 0, !.tries = tries]
    OBVIOUS
  <2>7. retx \in Retx /\ retx.active /\ retx.seg = seg /\ retx.end = c.retx.end
    BY <1>5, <2>1, <2>4, <2>5, <2>6 DEF Retx
  <2>8. [c.retx EXCEPT !.seg.ack = c.ack, !.age = 0, !.tries = @ + 1] = retx
    BY <2>1, <2>2, <2>3, <2>6 DEF Retx
  <2>9. c2 = [c EXCEPT !.out = Append(@, seg), !.retx = retx]
    <3>1. c2 = [c EXCEPT !.out = Append(@, [c.retx.seg EXCEPT !.ack = c.ack]),
                         !.retx = [c.retx EXCEPT !.seg.ack = c.ack, !.age = 0, !.tries = @ + 1]]
      BY <1>5 DEF RetxCheck
    <3>2. [c.retx.seg EXCEPT !.ack = c.ack] = seg
      BY <2>2, <2>3
    <3>3. c2 = [c EXCEPT !.out = Append(@, seg),
                         !.retx = [c.retx EXCEPT !.seg.ack = c.ack, !.age = 0, !.tries = @ + 1]]
      BY <3>1, <3>2
    <3>. QED
      BY <2>8, <3>3
  <2>10. Append(c.out, seg) \in Seq(Segment)
    BY <2>4, TcbFields
  <2>11. /\ c2 \in Tcb /\ c2.port = c.port /\ c2.rx = c.rx /\ c2.state = c.state /\ c2.seq = c.seq
         /\ c2.out = Append(c.out, seg) /\ c2.retx = retx
    BY <2>7, <2>9, <2>10 DEF Tcb
  <2>. QED
    BY <1>5, <2>2, <2>4, <2>7, <2>11 DEF Repeats
<1>. QED
  BY <1>1, <1>2, <1>3, <1>4, <1>5

-----------------------------------------------------------------------------
(***************************************************************************)
(* The client's part of the invariant, step by step.                       *)
(***************************************************************************)

\* A connection that is closed, or a kept segment that is dropped, changes nothing else.
LEMMA SameView ==
  ASSUME NEW c, NEW u, NEW d, NEW v, NEW n, ClientOK(c, u, d, v, n), NEW c2 \in Tcb,
         c2.port = c.port, c2.rx = c.rx, c2.out = c.out, c2.state \in {c.state, "CLOSED"},
         c2.retx.active => c.retx.active /\ c2.retx.seg = c.retx.seg
  PROVE  ClientOK(c2, u, d, v, n)
<1>1. c.state # "CLOSED" => n >= 1
  BY DEF ClientOK
<1>2. RxOK(c2)
  BY DEF ClientOK, RxOK
<1>3. RetxOK(c2, v, n)
  BY DEF ClientOK, RetxOK
<1>4. c2.state = "SYN_SENT" => c2.rx = <<>> /\ Quiet(n, c2, u, d, v)
  <2>1. Quiet(n, c, u, d, v) => Quiet(n, c2, u, d, v)
    BY DEF Quiet
  <2>. QED
    BY <2>1 DEF ClientOK
<1>5. c2.state = "ESTABLISHED" => v[n].open /\ Len(c2.rx) <= v[n].sent /\ Coming(c2, d, v)
  BY DEF ClientOK, Coming
<1>. QED
  BY <1>1, <1>2, <1>3, <1>4, <1>5 DEF ClientOK

\* A frame is taken from the card.
LEMMA TailKeeps ==
  ASSUME NEW c, NEW u, NEW d, NEW v, NEW n \in 0 .. Conns, ClientOK(c, u, d, v, n), ServerOK(v, n),
         DownOK(d, v, n), d # <<>>,
         c.state = "ESTABLISHED" => ~(d[1].port = n /\ Numbered(d[1]) /\ d[1].data # <<>>)
  PROVE  ClientOK(c, u, Tail(d), v, n)
<1>1. d \in Seq(DownSegment) /\ c \in Tcb /\ c.port = n
  BY DEF DownOK, ClientOK
<1>2. c.state = "SYN_SENT" => Quiet(n, c, u, Tail(d), v)
  BY <1>1, QuietTail DEF ClientOK
<1>3. ASSUME c.state = "ESTABLISHED" PROVE Coming(c, Tail(d), v)
  <2>1. n \in 1 .. Conns /\ Len(c.rx) \in Nat /\ v[n].sent \in Nat
    BY <1>1, <1>3 DEF ClientOK, ServerOK, Server, Tcb, Pieces
  <2>2. PICK len, told \in Nat : len = Len(c.rx) /\ told = v[n].sent
    BY <2>1
  <2>3. len < RxSize => Awaited(len, n, d, told)
    BY <1>1, <1>3, <2>2 DEF ClientOK, Coming
  <2>4. len < RxSize => Awaited(len, n, Tail(d), told)
    BY <1>1, <1>3, <2>3, AwaitedTail
  <2>. QED
    BY <1>1, <2>2, <2>4 DEF Coming
<1>. QED
  BY <1>2, <1>3 DEF ClientOK

LEMMA RecvKeeps ==
  ASSUME NEW c, NEW u, NEW d, NEW v, NEW n \in 0 .. Conns, ClientOK(c, u, d, v, n), ServerOK(v, n),
         DownOK(d, v, n), d # <<>>, NEW c2, c2 = RecvFrame(c, d[1])
  PROVE  ClientOK(c2, u, Tail(d), v, n)
<1>1. PICK s : s = d[1]
  OBVIOUS
<1>2. d \in Seq(DownSegment) /\ c \in Tcb /\ c.port = n
  BY DEF DownOK, ClientOK
<1>3. s \in DownSegment /\ 1 \in DOMAIN d
  BY <1>1, <1>2, TailFacts
<1>4. /\ c2 \in Tcb /\ c2.port = c.port /\ c2.out = c.out
      /\ Accepts(c, s, c2) \/ Opens(c, s, c2) \/ Resets(c, c2) \/ Ignores(c, s, c2)
  BY <1>1, <1>2, <1>3, RecvFrameIs
<1>5. ~Numbered(s) => s.data = <<>>
  BY <1>1, <1>3 DEF DownOK
<1>6. CASE Accepts(c, s, c2)
  <2>1. /\ c.state = "ESTABLISHED" /\ s.port = n /\ n \in 1 .. Conns
        /\ c2.state \in {"CLOSED", "ESTABLISHED"} /\ c2.retx \in {c.retx, NoRetx}
    BY <1>2, <1>6 DEF Accepts, ClientOK
  <2>2. CASE s.data = <<>>
    <3>1. ClientOK(c, u, Tail(d), v, n)
      BY <1>1, <2>2, TailKeeps
    <3>2. c2.rx = c.rx /\ c2.state \in {c.state, "CLOSED"} /\ (c2.retx = c.retx \/ ~c2.retx.active)
      BY <1>6, <2>1, <2>2, ClearRetx DEF Accepts
    <3>. QED
      BY <1>4, <3>1, <3>2, SameView
  <2>3. CASE s.data # <<>>
    <3>1. c2.rx = Kept(c.rx, s.data) /\ Numbered(s)
      BY <1>5, <1>6, <2>3 DEF Accepts
    <3>2. RxOK(c) /\ Len(c.rx) <= v[n].sent /\ Coming(c, d, v) /\ v[n].open
      BY <2>1 DEF ClientOK
    <3>3. RxOK(c2) /\ Len(c2.rx) <= v[n].sent /\ Coming(c2, Tail(d), v)
      <4>1. c2.rx = Kept(c.rx, d[1].data) /\ d[1].port = n /\ Numbered(d[1]) /\ d[1].data # <<>>
        BY <1>1, <2>1, <2>3, <3>1
      <4>. QED
        BY <1>2, <1>4, <2>1, <3>2, <4>1, TakesNext
    <3>4. RetxOK(c2, v, n)
      BY <2>1, ClearRetx DEF ClientOK, RetxOK
    <3>. QED
      BY <1>2, <1>4, <2>1, <3>2, <3>3, <3>4 DEF ClientOK
  <2>. QED
    BY <2>2, <2>3
<1>7. CASE Opens(c, s, c2)
  <2>1. /\ c.state = "SYN_SENT" /\ s.port = n /\ "SYN" \in s.flags /\ c2.state = "ESTABLISHED"
        /\ c2.rx = c.rx /\ c2.retx = c.retx /\ n >= 1
    BY <1>2, <1>7 DEF Opens, ClientOK
  <2>2. c.rx = <<>> /\ Quiet(n, c, u, d, v)
    BY <2>1 DEF ClientOK
  <2>3. v[n].open
    BY <1>1, <1>3, <2>1 DEF DownOK
  <2>4. v[n].sent = 0 /\ Len(c2.rx) = 0
    BY <2>1, <2>2 DEF Quiet
  <2>5. Coming(c2, Tail(d), v)
    <3>1. Quiet(n, c, u, Tail(d), v)
      BY <1>2, <2>2, QuietTail
    <3>2. Awaited(0, n, Tail(d), 0)
      BY <3>1 DEF Awaited, Quiet
    <3>. QED
      BY <1>2, <1>4, <2>4, <3>2 DEF Coming
  <2>6. RxOK(c2) /\ RetxOK(c2, v, n)
    BY <1>4, <2>1 DEF ClientOK, RxOK, RetxOK
  <2>. QED
    BY <1>2, <1>4, <2>1, <2>3, <2>4, <2>5, <2>6 DEF ClientOK
<1>8. CASE Resets(c, c2)
  <2>1. PICK b : b = [c EXCEPT !.state = "CLOSED"]
    OBVIOUS
  <2>2. b \in Tcb /\ b.port = c.port /\ b.rx = c.rx /\ b.out = c.out /\ b.retx = c.retx /\ b.state = "CLOSED"
    BY <1>2, <2>1 DEF Tcb, States
  <2>3. ClientOK(b, u, d, v, n)
    BY <2>2, SameView
  <2>4. ClientOK(b, u, Tail(d), v, n)
    BY <2>2, <2>3, TailKeeps
  <2>5. c2.rx = b.rx /\ c2.retx = b.retx /\ c2.state = b.state /\ c2.port = b.port /\ c2.out = b.out
    BY <1>4, <1>8, <2>2 DEF Resets
  <2>. QED
    BY <1>4, <2>4, <2>5, SameView
<1>9. CASE Ignores(c, s, c2)
  <2>1. c2 = c /\ (c.state = "ESTABLISHED" => s.port # n)
    BY <1>2, <1>9 DEF Ignores
  <2>. QED
    BY <1>1, <2>1, TailKeeps
<1>. QED
  BY <1>4, <1>6, <1>7, <1>8, <1>9

\* The retransmission timer.
LEMMA RetxKeeps ==
  ASSUME NEW c, NEW u, NEW d, NEW v, NEW n \in 0 .. Conns, ClientOK(c, u, d, v, n),
         NEW c2, c2 = RetxCheck(c)
  PROVE  ClientOK(c2, u, d, v, n)
<1>1. c \in Tcb /\ RetxOK(c, v, n)
  BY DEF ClientOK
<1>2. /\ c2 \in Tcb /\ c2.port = c.port /\ c2.rx = c.rx
      /\ c2 = c \/ Drops(c, c2) \/ Repeats(c, c2)
  BY <1>1, RetxCheckIs DEF RetxOK, SegmentOK
<1>3. CASE Drops(c, c2)
  BY <1>2, <1>3, SameView DEF Drops
<1>4. CASE Repeats(c, c2)
  <2>1. PICK seg \in Segment :
          /\ seg.port = c.retx.seg.port /\ seg.flags = c.retx.seg.flags /\ seg.len = c.retx.seg.len
          /\ c2.out = Append(c.out, seg)
          /\ c2.retx.active /\ c2.retx.seg = seg /\ c2.retx.end = c.retx.end
    BY <1>4 DEF Repeats
  <2>2. c.state = "ESTABLISHED" /\ c2.state = c.state /\ c.retx.active
    BY <1>4 DEF Repeats
  <2>3. SegmentOK(seg, v, n) /\ seg.len > 0 /\ "SYN" \notin seg.flags
    <3>1. /\ SegmentOK(c.retx.seg, v, n) /\ c.retx.seg.len > 0 /\ "SYN" \notin c.retx.seg.flags
      BY <1>1, <2>2 DEF RetxOK
    <3>. QED
      BY <2>1, <3>1 DEF SegmentOK
  <2>4. RetxOK(c2, v, n)
    BY <2>1, <2>3 DEF RetxOK
  <2>5. \A k \in DOMAIN c2.out : SegmentOK(c2.out[k], v, n)
    <3>1. c.out \in Seq(Segment) /\ \A k \in DOMAIN c.out : SegmentOK(c.out[k], v, n)
      BY DEF ClientOK, Tcb
    <3>2. PICK out : out = c.out
      OBVIOUS
    <3>. QED
      BY <2>1, <2>3, <3>1, <3>2
  <2>6. RxOK(c2) /\ (Coming(c, d, v) => Coming(c2, d, v))
    BY <1>2 DEF ClientOK, RxOK, Coming
  <2>. QED
    BY <1>2, <2>2, <2>4, <2>5, <2>6 DEF ClientOK
<1>. QED
  BY <1>2, <1>3, <1>4

-----------------------------------------------------------------------------
(***************************************************************************)
(* What goes out, and what the server answers.                             *)
(***************************************************************************)

\* All segments on the wire were there or have just been sent.
From(u2, u, w) ==
  /\ u2 \in Seq(Segment)
  /\ \A k \in DOMAIN u2 : \/ \E j \in DOMAIN u : u2[k] = u[j]
                          \/ \E j \in DOMAIN w : u2[k] = w[j]

LEMMA SendIs ==
  ASSUME NEW c \in Tcb, up \in Seq(Segment), Send(c)
  PROVE  From(up', up, c.out) /\ tcb' = [c EXCEPT !.out = <<>>]
<1>1. PICK w : w = c.out
  OBVIOUS
<1>2. w \in Seq(Segment)
  BY <1>1 DEF Tcb
<1>3. PICK all : all = up \o w
  OBVIOUS
<1>4. /\ all \in Seq(Segment) /\ Len(all) = Len(up) + Len(w)
      /\ \A k \in 1 .. Len(up) : all[k] = up[k]
      /\ \A k \in Len(up) + 1 .. Len(up) + Len(w) : all[k] = w[k - Len(up)]
  BY <1>2, <1>3
<1>5. PICK m : m = Least(MaxWire, Len(all))
  OBVIOUS
<1>6. m \in Nat /\ m <= Len(all)
  BY <1>4, <1>5, Consts DEF Least
<1>7. up' = SubSeq(all, 1, m) /\ tcb' = [c EXCEPT !.out = <<>>]
  BY <1>1, <1>3, <1>5 DEF Send
<1>8. up' \in Seq(Segment) /\ DOMAIN up' = 1 .. m /\ \A k \in 1 .. m : up'[k] = all[k]
  BY <1>4, <1>6, <1>7
<1>9. ASSUME NEW k \in DOMAIN up'
      PROVE  (\E j \in DOMAIN up : up'[k] = up[j]) \/ (\E j \in DOMAIN w : up'[k] = w[j])
  <2>1. k \in Nat /\ k >= 1 /\ k <= Len(up) + Len(w) /\ up'[k] = all[k] /\ Len(up) \in Nat /\ Len(w) \in Nat
    BY <1>2, <1>4, <1>6, <1>8
  <2>2. CASE k <= Len(up)
    BY <1>4, <2>1, <2>2
  <2>3. CASE k > Len(up)
    <3>1. k - Len(up) \in DOMAIN w /\ up'[k] = w[k - Len(up)]
      BY <1>2, <1>4, <2>1, <2>3
    <3>. QED
      BY <3>1
  <2>. QED
    BY <2>1, <2>2, <2>3
<1>. QED
  BY <1>1, <1>7, <1>8, <1>9 DEF From

\* What is sent, lost or repeated on the way to the server.
LEMMA WireKeeps ==
  ASSUME NEW c, NEW u, NEW d, NEW v, NEW n, ClientOK(c, u, d, v, n), UpOK(u, v, n),
         NEW u2, From(u2, u, c.out), NEW c2, c2 = [c EXCEPT !.out = <<>>]
  PROVE  ClientOK(c2, u2, d, v, n) /\ UpOK(u2, v, n) /\ c2.out = <<>>
<1>1. c \in Tcb
  BY DEF ClientOK
<1>2. /\ c2 \in Tcb /\ c2.port = c.port /\ c2.rx = c.rx /\ c2.state = c.state
      /\ c2.retx = c.retx /\ c2.out = <<>>
  <2>1. <<>> \in Seq(Segment)
    OBVIOUS
  <2>. QED
    BY <1>1, <2>1 DEF Tcb
<1>3. UpOK(u2, v, n)
  <2>1. /\ \A k \in DOMAIN c.out : SegmentOK(c.out[k], v, n)
        /\ \A k \in DOMAIN u : SegmentOK(u[k], v, n)
    BY DEF ClientOK, UpOK
  <2>. QED
    BY <2>1 DEF UpOK, From
<1>4. Quiet(n, c, u, d, v) => Quiet(n, c2, u2, d, v)
  BY <1>2 DEF Quiet, From
<1>5. RxOK(c2) /\ RetxOK(c2, v, n) /\ (Coming(c, d, v) => Coming(c2, d, v))
  BY <1>2 DEF ClientOK, RxOK, RetxOK, Coming
<1>. QED
  BY <1>2, <1>3, <1>4, <1>5 DEF ClientOK

LEMMA AppendIs ==
  ASSUME NEW S, NEW d \in Seq(S), NEW s \in S
  PROVE  /\ Append(d, s) \in Seq(S)
         /\ Len(d) + 1 \in DOMAIN Append(d, s) /\ Append(d, s)[Len(d) + 1] = s
         /\ \A i \in DOMAIN d : i \in Nat /\ i < Len(d) + 1 /\ i \in DOMAIN Append(d, s) /\ Append(d, s)[i] = d[i]
         /\ \A i \in DOMAIN Append(d, s) : i = Len(d) + 1 \/ i \in DOMAIN d
<1>1. /\ Append(d, s) \in Seq(S) /\ Len(Append(d, s)) = Len(d) + 1 /\ Len(d) \in Nat
      /\ DOMAIN Append(d, s) = 1 .. Len(d) + 1 /\ DOMAIN d = 1 .. Len(d)
      /\ \A i \in 1 .. Len(d) : Append(d, s)[i] = d[i]
      /\ Append(d, s)[Len(d) + 1] = s
  OBVIOUS
<1>. QED
  BY <1>1

\* The server answers with s, and its side goes from v to v2.
Answers(s, v, v2, n) ==
  /\ v2 \in [1 .. Conns -> Server] /\ s \in DownSegment /\ s.port <= n
  /\ \A p \in 1 .. Conns : /\ v[p].open => v2[p].open
                           /\ v[p].req => v2[p].req
                           /\ p # s.port => v2[p] = v[p]
  /\ ~Numbered(s) => s.data = <<>> /\ v2[s.port].sent = v[s.port].sent
  /\ "SYN" \in s.flags => v2[s.port].open
  /\ Numbered(s) => /\ s.seq = v[s.port].sent + 1 /\ After(s) = v2[s.port].sent + 1
                    /\ \A k \in DOMAIN s.data : s.data[k] = <<s.port, s.seq + k - 1>>

LEMMA SentGrows ==
  ASSUME NEW s, NEW v, NEW v2, NEW n, ServerOK(v, n), Answers(s, v, v2, n)
  PROVE  /\ s.port \in 1 .. Conns
         /\ \A p \in 1 .. Conns : v[p].sent \in Nat /\ v2[p].sent \in Nat /\ v[p].sent <= v2[p].sent
<1>1. s.port \in 1 .. Conns
  BY DEF Answers, DownSegment
<1>2. \A p \in 1 .. Conns : v[p].sent \in Nat /\ v2[p].sent \in Nat
  BY DEF ServerOK, Answers, Server
<1>3. v[s.port].sent <= v2[s.port].sent
  <2>1. CASE Numbered(s)
    <3>1. PICK q, e, len : q = s.seq /\ e = After(s) /\ len = Len(s.data)
      OBVIOUS
    <3>2. q \in Nat /\ len \in Nat /\ e = q + len
      BY <3>1 DEF Answers, DownSegment, Pieces, After
    <3>3. q = v[s.port].sent + 1 /\ e = v2[s.port].sent + 1
      BY <2>1, <3>1 DEF Answers
    <3>. QED
      BY <1>1, <1>2, <3>2, <3>3
  <2>2. CASE ~Numbered(s)
    BY <1>1, <1>2, <2>2 DEF Answers
  <2>. QED
    BY <2>1, <2>2
<1>. QED
  BY <1>1, <1>2, <1>3 DEF Answers

LEMMA ServerKeeps ==
  ASSUME NEW s, NEW v, NEW v2, NEW n \in 0 .. Conns, ServerOK(v, n), Answers(s, v, v2, n)
  PROVE  ServerOK(v2, n)
<1>1. s.port \in 1 .. Conns /\ s.port <= n
  BY DEF Answers, DownSegment
<1>2. ASSUME NEW p \in 1 .. Conns, p > n PROVE v2[p] = v[p]
  <2>1. p # s.port
    BY <1>1, <1>2
  <2>. QED
    BY <2>1 DEF Answers
<1>. QED
  BY <1>2 DEF ServerOK, Answers

LEMMA UpKeeps ==
  ASSUME NEW s, NEW u, NEW v, NEW v2, NEW n, UpOK(u, v, n), Answers(s, v, v2, n)
  PROVE  UpOK(u, v2, n)
<1>1. ASSUME NEW x, SegmentOK(x, v, n) PROVE SegmentOK(x, v2, n)
  BY <1>1 DEF SegmentOK, Segment, Answers
<1>. QED
  BY <1>1 DEF UpOK

LEMMA DownKeeps ==
  ASSUME NEW s, NEW d, NEW v, NEW v2, NEW n, ServerOK(v, n), DownOK(d, v, n), Answers(s, v, v2, n)
  PROVE  DownOK(Append(d, s), v2, n)
<1>1. d \in Seq(DownSegment) /\ s \in DownSegment
  BY DEF DownOK, Answers
<1>2. PICK d2, z : d2 = Append(d, s) /\ z = Len(d) + 1
  OBVIOUS
<1>3. /\ d2 \in Seq(DownSegment) /\ z \in DOMAIN d2 /\ d2[z] = s /\ z \in Nat
      /\ \A i \in DOMAIN d : i \in Nat /\ i < z /\ d2[i] = d[i] /\ d[i] \in DownSegment
      /\ \A i \in DOMAIN d2 : i = z \/ i \in DOMAIN d
  BY <1>1, <1>2, AppendIs
<1>4. /\ s.port \in 1 .. Conns
      /\ \A p \in 1 .. Conns : v[p].sent \in Nat /\ v2[p].sent \in Nat /\ v[p].sent <= v2[p].sent
  BY SentGrows
<1>5. PiecesOK(s, v2)
  BY <1>4 DEF PiecesOK, Answers
<1>6. ASSUME NEW x \in DownSegment, PiecesOK(x, v) PROVE PiecesOK(x, v2)
  <2>1. x.port \in 1 .. Conns /\ x.seq \in Nat /\ Len(x.data) \in Nat
    BY DEF DownSegment, Pieces
  <2>2. PICK e \in Nat : e = After(x)
    BY <2>1 DEF After
  <2>. QED
    BY <1>4, <1>6, <2>1, <2>2 DEF PiecesOK
<1>7. \A i \in DOMAIN d2 : /\ d2[i].port <= n /\ PiecesOK(d2[i], v2)
                           /\ ~Numbered(d2[i]) => d2[i].data = <<>>
                           /\ "SYN" \in d2[i].flags => v2[d2[i].port].open
  <2>1. ASSUME NEW i \in DOMAIN d
        PROVE  /\ d[i].port <= n /\ PiecesOK(d[i], v2)
               /\ ~Numbered(d[i]) => d[i].data = <<>>
               /\ "SYN" \in d[i].flags => v2[d[i].port].open
    <3>1. d[i] \in DownSegment /\ d[i].port \in 1 .. Conns
      BY <1>3 DEF DownSegment
    <3>. QED
      BY <1>6, <3>1 DEF DownOK, Answers
  <2>2. /\ s.port <= n /\ (~Numbered(s) => s.data = <<>>) /\ ("SYN" \in s.flags => v2[s.port].open)
    BY DEF Answers
  <2>. QED
    BY <1>3, <1>5, <2>1, <2>2
<1>8. ASSUME NEW i \in DOMAIN d2, NEW j \in DOMAIN d2, i < j, Numbered(d2[i]), Numbered(d2[j]),
             d2[i].port = d2[j].port
      PROVE  After(d2[i]) <= d2[j].seq
  <2>1. i # z /\ i \in DOMAIN d
    <3>1. j = z \/ j < z
      BY <1>3
    <3>2. i \in Nat /\ j \in Nat
      BY <1>3
    <3>. QED
      BY <1>3, <1>8, <3>1, <3>2
  <2>2. CASE j \in DOMAIN d
    BY <1>3, <1>8, <2>1, <2>2 DEF DownOK
  <2>3. CASE j = z
    <3>1. d2[i] = d[i] /\ d2[j] = s /\ d[i].port = s.port /\ Numbered(d[i]) /\ Numbered(s)
      BY <1>3, <1>8, <2>1, <2>3
    <3>2. After(d[i]) <= v[s.port].sent + 1
      BY <2>1, <3>1 DEF DownOK, PiecesOK
    <3>3. s.seq = v[s.port].sent + 1
      BY <3>1 DEF Answers
    <3>. QED
      BY <3>1, <3>2, <3>3
  <2>. QED
    BY <1>3, <2>2, <2>3
<1>. QED
  BY <1>2, <1>3, <1>7, <1>8 DEF DownOK

\* The client's view of it.
LEMMA AnswerKeeps ==
  ASSUME NEW c, NEW u, NEW d, NEW s, NEW v, NEW v2, NEW n \in 0 .. Conns, ServerOK(v, n),
         d \in Seq(DownSegment), Answers(s, v, v2, n), ClientOK(c, u, d, v, n),
         c.state = "SYN_SENT" => ~v2[n].req /\ ~(s.port = n /\ Numbered(s))
  PROVE  ClientOK(c, u, Append(d, s), v2, n)
<1>1. c \in Tcb /\ c.port = n /\ (c.state # "CLOSED" => n \in 1 .. Conns) /\ s \in DownSegment
  BY DEF ClientOK, Answers
<1>2. PICK d2, z : d2 = Append(d, s) /\ z = Len(d) + 1
  OBVIOUS
<1>3. /\ z \in DOMAIN d2 /\ d2[z] = s
      /\ \A i \in DOMAIN d : i \in DOMAIN d2 /\ d2[i] = d[i]
      /\ \A i \in DOMAIN d2 : i = z \/ i \in DOMAIN d
  BY <1>1, <1>2, AppendIs
<1>4. /\ s.port \in 1 .. Conns
      /\ \A p \in 1 .. Conns : v[p].sent \in Nat /\ v2[p].sent \in Nat /\ v[p].sent <= v2[p].sent
  BY SentGrows
<1>5. ASSUME NEW x, SegmentOK(x, v, n) PROVE SegmentOK(x, v2, n)
  BY <1>5 DEF SegmentOK, Segment, Answers
<1>6. RetxOK(c, v2, n) /\ \A k \in DOMAIN c.out : SegmentOK(c.out[k], v2, n)
  BY <1>5 DEF ClientOK, RetxOK
<1>7. ASSUME c.state = "SYN_SENT" PROVE Quiet(n, c, u, d2, v2)
  <2>1. Quiet(n, c, u, d, v) /\ n \in 1 .. Conns
    BY <1>1, <1>7 DEF ClientOK
  <2>2. v2[n].sent = 0
    <3>1. CASE s.port = n
      BY <1>7, <2>1, <3>1 DEF Answers, Quiet
    <3>2. CASE s.port # n
      BY <2>1, <3>2 DEF Answers, Quiet
    <3>. QED
      BY <3>1, <3>2
  <2>3. \A i \in DOMAIN d2 : d2[i].port = n => ~Numbered(d2[i])
    BY <1>3, <1>7, <2>1 DEF Quiet
  <2>. QED
    BY <1>7, <2>1, <2>2, <2>3 DEF Quiet
<1>8. ASSUME c.state = "ESTABLISHED"
      PROVE  v2[n].open /\ Len(c.rx) <= v2[n].sent /\ Coming(c, d2, v2)
  <2>1. /\ n \in 1 .. Conns /\ Len(c.rx) \in Nat
        /\ v[n].open /\ Len(c.rx) <= v[n].sent /\ Coming(c, d, v)
    BY <1>1, <1>8 DEF ClientOK, Tcb, Pieces
  <2>2. PICK len, told, told2 \in Nat : len = Len(c.rx) /\ told = v[n].sent /\ told2 = v2[n].sent
    BY <1>4, <2>1
  <2>3. v2[n].open /\ len <= told /\ told <= told2
    BY <1>4, <2>1, <2>2 DEF Answers
  <2>4. (s.port = n /\ Numbered(s)) \/ told2 = told
    BY <2>1, <2>2 DEF Answers
  <2>5. ASSUME Awaited(len, n, d, told) PROVE Awaited(len, n, d2, told2)
    <3>1. ASSUME NEW i \in DOMAIN d2, d2[i].port = n, Numbered(d2[i]) PROVE len < d2[i].seq
      <4>1. CASE i \in DOMAIN d
        BY <1>3, <2>5, <3>1, <4>1 DEF Awaited
      <4>2. CASE i = z
        <5>1. s.seq = told + 1
          BY <1>3, <2>2, <3>1, <4>2 DEF Answers
        <5>. QED
          BY <1>3, <2>3, <4>2, <5>1
      <4>. QED
        BY <1>3, <4>1, <4>2
    <3>2. ASSUME NEW m \in len + 1 .. told2
          PROVE  \E i \in DOMAIN d2 : d2[i].port = n /\ Numbered(d2[i]) /\ d2[i].seq <= m /\ m < After(d2[i])
      <4>1. CASE m <= told
        <5>1. m \in len + 1 .. told
          BY <3>2, <4>1
        <5>2. PICK i \in DOMAIN d : d[i].port = n /\ Numbered(d[i]) /\ d[i].seq <= m /\ m < After(d[i])
          BY <2>5, <5>1 DEF Awaited
        <5>. QED
          BY <1>3, <5>2
      <4>2. CASE m > told
        <5>1. s.port = n /\ Numbered(s)
          BY <2>4, <3>2, <4>2
        <5>2. s.seq = told + 1 /\ After(s) = told2 + 1
          BY <2>2, <5>1 DEF Answers
        <5>3. s.seq <= m /\ m < After(s)
          BY <3>2, <4>2, <5>2
        <5>. QED
          BY <1>3, <5>1, <5>3
      <4>. QED
        BY <3>2, <4>1, <4>2
    <3>. QED
      BY <3>1, <3>2 DEF Awaited
  <2>. QED
    BY <1>1, <2>1, <2>2, <2>3, <2>5 DEF Coming
<1>. QED
  BY <1>1, <1>2, <1>6, <1>7, <1>8 DEF ClientOK

-----------------------------------------------------------------------------
(***************************************************************************)
(* The request.                                                            *)
(***************************************************************************)

LEMMA BasedWire ==
  ASSUME NEW base, NEW c, NEW u, NEW d, NEW v, NEW n, Based(base, c, u, d, v, n),
         NEW u2, From(u2, u, c.out), NEW c2, c2.out = <<>>
  PROVE  Based(base, c2, u2, d, v, n)
  BY DEF Based, From

LEMMA BasedTail ==
  ASSUME NEW base, NEW c, NEW u, NEW d \in Seq(DownSegment), NEW v, NEW n, d # <<>>,
         Based(base, c, u, d, v, n)
  PROVE  Based(base, c, u, Tail(d), v, n)
  BY TailFacts DEF Based

LEMMA BasedAnswer ==
  ASSUME NEW base, NEW c, NEW u, NEW d \in Seq(DownSegment), NEW s, NEW v, NEW v2, NEW n \in 1 .. Conns,
         Based(base, c, u, d, v, n), Answers(s, v, v2, n),
         s.port = n /\ ~v2[n].req =>
           /\ "ACK" \in s.flags => s.ack = base
           /\ v2[n].open => v2[n].rcv = base
  PROVE  Based(base, c, u, Append(d, s), v2, n)
<1>1. s \in DownSegment
  BY DEF Answers
<1>2. PICK d2, z : d2 = Append(d, s) /\ z = Len(d) + 1
  OBVIOUS
<1>3. /\ z \in DOMAIN d2 /\ d2[z] = s
      /\ \A i \in DOMAIN d : i \in DOMAIN d2 /\ d2[i] = d[i]
      /\ \A i \in DOMAIN d2 : i = z \/ i \in DOMAIN d
  BY <1>1, <1>2, AppendIs
<1>4. ~v2[n].req => ~v[n].req
  BY DEF Answers
<1>5. ASSUME ~v2[n].req, NEW i \in DOMAIN d2, d2[i].port = n, "ACK" \in d2[i].flags
      PROVE  d2[i].ack = base
  BY <1>3, <1>4, <1>5 DEF Based
<1>6. ASSUME ~v2[n].req, v2[n].open PROVE v2[n].rcv = base
  <2>1. CASE s.port = n
    BY <1>6, <2>1
  <2>2. CASE s.port # n
    <3>1. v2[n] = v[n]
      BY <2>2 DEF Answers
    <3>. QED
      BY <1>6, <3>1 DEF Based
  <2>. QED
    BY <2>1, <2>2
<1>. QED
  BY <1>2, <1>5, <1>6 DEF Based

\* The client's own steps send no SYN.
LEMMA BasedRecv ==
  ASSUME NEW base, NEW c \in Tcb, NEW u, NEW d \in Seq(DownSegment), NEW v, NEW n, d # <<>>,
         Based(base, c, u, d, v, n), NEW c2, c2 = RecvFrame(c, d[1])
  PROVE  Based(base, c2, u, Tail(d), v, n)
<1>1. PICK s : s = d[1]
  OBVIOUS
<1>2. s \in DownSegment
  BY <1>1, TailFacts
<1>3. c2.out = c.out
  BY <1>1, <1>2, RecvFrameIs
<1>4. Based(base, c, u, Tail(d), v, n)
  BY BasedTail
<1>. QED
  BY <1>3, <1>4 DEF Based

LEMMA BasedRetx ==
  ASSUME NEW base, NEW c \in Tcb, NEW u, NEW d, NEW v, NEW n,
         Based(base, c, u, d, v, n), RetxOK(c, v, n), NEW c2, c2 = RetxCheck(c)
  PROVE  Based(base, c2, u, d, v, n)
<1>1. c2 = c \/ Drops(c, c2) \/ Repeats(c, c2)
  BY RetxCheckIs DEF RetxOK, SegmentOK
<1>2. CASE c2.out = c.out
  BY <1>2 DEF Based
<1>3. CASE Repeats(c, c2)
  <2>1. PICK seg \in Segment : seg.flags = c.retx.seg.flags /\ c2.out = Append(c.out, seg)
    BY <1>3 DEF Repeats
  <2>2. "SYN" \notin seg.flags
    BY <1>3, <2>1 DEF RetxOK, Repeats
  <2>3. PICK out, out2 : out = c.out /\ out2 = c2.out
    OBVIOUS
  <2>4. out \in Seq(Segment) /\ out2 = Append(out, seg)
    BY <2>1, <2>3 DEF Tcb
  <2>5. \A k \in DOMAIN out2 : out2[k] = seg \/ (k \in DOMAIN out /\ out2[k] = out[k])
    BY <2>4
  <2>. QED
    BY <2>2, <2>3, <2>5 DEF Based
<1>. QED
  BY <1>1, <1>2, <1>3 DEF Drops

\* The acknowledgement that counts is of the request.
LEMMA ArmedRecv ==
  ASSUME NEW base \in Numbers, NEW c \in Tcb, NEW u, NEW d \in Seq(DownSegment), NEW v, NEW n \in 1 .. Conns,
         v \in [1 .. Conns -> Server], d # <<>>,
         Based(base, c, u, d, v, n), Armed(base, c, v, n), c.port = n, c.state = "ESTABLISHED",
         NEW c2, c2 = RecvFrame(c, d[1]), c2.state = "ESTABLISHED"
  PROVE  Armed(base, c2, v, n)
<1>1. PICK s : s = d[1]
  OBVIOUS
<1>2. s \in DownSegment /\ 1 \in DOMAIN d
  BY <1>1, TailFacts
<1>3. Accepts(c, s, c2) \/ Ignores(c, s, c2)
  <2>1. Accepts(c, s, c2) \/ Opens(c, s, c2) \/ Resets(c, c2) \/ Ignores(c, s, c2)
    BY <1>1, <1>2, RecvFrameIs
  <2>. QED
    BY <2>1 DEF Opens, Resets
<1>4. CASE Ignores(c, s, c2)
  BY <1>4 DEF Ignores
<1>5. CASE Accepts(c, s, c2)
  <2>1. c2.seq = c.seq /\ s.port = n /\ (c2.retx = c.retx \/ (c2.retx = NoRetx /\ Acks(c, s)))
    BY <1>5 DEF Accepts
  <2>2. CASE c2.retx = c.retx
    BY <2>1, <2>2 DEF Armed
  <2>3. CASE c2.retx = NoRetx /\ Acks(c, s)
    <3>1. ASSUME c.retx.active, ~v[n].req, c.seq >= ReqLen PROVE FALSE
      <4>1. s.ack = base
        BY <1>1, <1>2, <2>1, <2>3, <3>1 DEF Based, Acks
      <4>2. s.ack >= c.seq
        BY <2>3, <3>1 DEF Armed, Acks
      <4>3. base < c.seq
        BY <3>1, EndsLater DEF Armed
      <4>4. c.seq \in Nat /\ base \in Nat
        BY DEF Tcb, Numbers
      <4>. QED
        BY <4>1, <4>2, <4>3, <4>4
    <3>2. c.seq \in Nat /\ ReqLen \in Nat
      BY Consts DEF Tcb, Numbers
    <3>3. v[n].req \/ c.seq < ReqLen
      <4>1. c.retx.active \/ v[n].req \/ c.seq < ReqLen
        BY DEF Armed
      <4>. QED
        BY <3>1, <3>2, <4>1
    <3>. QED
      BY <2>1, <2>3, <3>3, ClearRetx DEF Armed
  <2>. QED
    BY <2>1, <2>2, <2>3
<1>. QED
  BY <1>3, <1>4, <1>5

LEMMA ArmedRetx ==
  ASSUME NEW base, NEW c \in Tcb, NEW v, NEW n, RetxOK(c, v, n), Armed(base, c, v, n),
         c.state = "ESTABLISHED", NEW c2, c2 = RetxCheck(c), c2.state = "ESTABLISHED"
  PROVE  Armed(base, c2, v, n)
<1>1. c2 = c \/ Drops(c, c2) \/ Repeats(c, c2)
  BY RetxCheckIs DEF RetxOK, SegmentOK
<1>. QED
  BY <1>1 DEF Drops, Repeats, Armed

-----------------------------------------------------------------------------
(***************************************************************************)
(* The steps of the client keep the invariant.                             *)
(***************************************************************************)

LEMMA TakenIs ==
  ASSUME TcpInv, NEW take \in {0, 1}, Taken(take)
  PROVE  /\ take = 0 => down' = down
         /\ take = 1 => down # <<>> /\ Head(down) = down[1] /\ down' = Tail(down)
<1>1. down \in Seq(DownSegment)
  BY DEF TcpInv, DownOK
<1>2. Len(down) \in Nat /\ take <= Len(down) /\ down' = SubSeq(down, take + 1, Len(down))
  BY <1>1 DEF Taken
<1>3. CASE take = 0
  <2>1. down' = SubSeq(down, 1, Len(down))
    BY <1>2, <1>3
  <2>. QED
    BY <1>1, <1>2, <1>3, <2>1
<1>4. CASE take = 1
  <2>1. down # <<>> /\ down' = SubSeq(down, 2, Len(down))
    BY <1>1, <1>2, <1>4
  <2>2. Tail(down) = SubSeq(down, 2, Len(down)) /\ Head(down) = down[1]
    BY <1>1, <2>1
  <2>. QED
    BY <1>4, <2>1, <2>2
<1>. QED
  BY <1>3, <1>4

\* pump(): a frame, then the timer.
Follows(c0, c) == c.state = "CLOSED" \/ (/\ c.seq = c0.seq
                                         /\ \/ c.state = c0.state
                                            \/ c0.state = "SYN_SENT" /\ c.state = "ESTABLISHED")
LEMMA PumpKeeps ==
  ASSUME TcpInv, NEW take \in {0, 1}, Taken(take), NEW c, c = Pump(take)
  PROVE  /\ DownOK(down', srv, opened) /\ ClientOK(c, up, down', srv, opened) /\ Follows(tcb, c)
         /\ \A base \in Numbers :
              Based(base, tcb, up, down, srv, opened) =>
                /\ Based(base, c, up, down', srv, opened)
                /\ (tcb.state = "ESTABLISHED" /\ c.state = "ESTABLISHED"
                    /\ Armed(base, tcb, srv, opened)) => Armed(base, c, srv, opened)
<1>1. /\ opened \in 0 .. Conns /\ ServerOK(srv, opened) /\ DownOK(down, srv, opened)
      /\ ClientOK(tcb, up, down, srv, opened) /\ tcb \in Tcb /\ tcb.port = opened
      /\ down \in Seq(DownSegment)
  BY DEF TcpInv, ClientOK, DownOK
<1>2. /\ take = 0 => down' = down
      /\ take = 1 => down # <<>> /\ Head(down) = down[1] /\ down' = Tail(down)
  BY TakenIs
<1>3. PICK b : b = IF take = 1 THEN RecvFrame(tcb, Head(down)) ELSE tcb
  OBVIOUS
<1>4. c = RetxCheck(b)
  BY <1>3 DEF Pump
<1>5. /\ DownOK(down', srv, opened) /\ ClientOK(b, up, down', srv, opened) /\ Follows(tcb, b)
  <2>1. CASE take = 0
    BY <1>1, <1>2, <1>3, <2>1 DEF Follows
  <2>2. CASE take = 1
    <3>1. /\ b = RecvFrame(tcb, down[1]) /\ down # <<>> /\ down' = Tail(down)
      BY <1>2, <1>3, <2>2
    <3>2. DownOK(down', srv, opened) /\ ClientOK(b, up, down', srv, opened)
      BY <1>1, <3>1, DownTail, RecvKeeps
    <3>3. PICK s \in DownSegment : s = down[1]
      BY <1>1, <3>1, TailFacts
    <3>4. Accepts(tcb, s, b) \/ Opens(tcb, s, b) \/ Resets(tcb, b) \/ Ignores(tcb, s, b)
      BY <1>1, <3>1, <3>3, RecvFrameIs
    <3>. QED
      BY <3>2, <3>4 DEF Accepts, Opens, Resets, Ignores, Follows
  <2>. QED
    BY <2>1, <2>2
<1>6. b \in Tcb /\ b.port = opened /\ RetxOK(b, srv, opened)
  BY <1>5 DEF ClientOK
<1>7. ClientOK(c, up, down', srv, opened)
  BY <1>1, <1>4, <1>5, RetxKeeps
<1>8. c = b \/ Drops(b, c) \/ Repeats(b, c)
  BY <1>4, <1>6, RetxCheckIs DEF RetxOK, SegmentOK
<1>9. Follows(tcb, c)
  BY <1>5, <1>8 DEF Drops, Repeats, Follows
<1>10. ASSUME NEW base \in Numbers, Based(base, tcb, up, down, srv, opened)
       PROVE  /\ Based(base, c, up, down', srv, opened)
              /\ (tcb.state = "ESTABLISHED" /\ c.state = "ESTABLISHED"
                  /\ Armed(base, tcb, srv, opened)) => Armed(base, c, srv, opened)
  <2>1. Based(base, b, up, down', srv, opened)
    <3>1. CASE take = 0
      BY <1>2, <1>3, <1>10, <3>1
    <3>2. CASE take = 1
      <4>1. b = RecvFrame(tcb, down[1]) /\ down # <<>> /\ down' = Tail(down)
        BY <1>2, <1>3, <3>2
      <4>2. Based(base, b, up, Tail(down), srv, opened)
        BY <1>1, <1>10, <4>1, BasedRecv
      <4>. QED
        BY <4>1, <4>2
    <3>. QED
      BY <3>1, <3>2
  <2>2. Based(base, c, up, down', srv, opened)
    BY <1>4, <1>6, <2>1, BasedRetx
  <2>3. ASSUME tcb.state = "ESTABLISHED", c.state = "ESTABLISHED", Armed(base, tcb, srv, opened)
        PROVE  Armed(base, c, srv, opened)
    <3>1. b.state = "ESTABLISHED"
      BY <1>8, <2>3 DEF Drops, Repeats
    <3>2. opened \in 1 .. Conns /\ srv \in [1 .. Conns -> Server]
      BY <1>1, <2>3 DEF ClientOK, ServerOK
    <3>3. Armed(base, b, srv, opened)
      <4>1. CASE take = 0
        BY <1>3, <2>3, <4>1
      <4>2. CASE take = 1
        <5>1. b = RecvFrame(tcb, down[1]) /\ down # <<>>
          BY <1>2, <1>3, <4>2
        <5>. QED
          BY <1>1, <1>10, <2>3, <3>1, <3>2, <5>1, ArmedRecv
      <4>. QED
        BY <4>1, <4>2
    <3>. QED
      BY <1>4, <1>6, <2>3, <3>1, <3>3, ArmedRetx
  <2>. QED
    BY <2>2, <2>3
<1>. QED
  BY <1>5, <1>7, <1>9, <1>10

\* The step ends: what it sends is on the wire.
LEMMA SendKeeps ==
  ASSUME TcpInv, NEW c, NEW d, NEW n, ClientOK(c, up, d, srv, n), UpOK(up, srv, n), Send(c)
  PROVE  /\ ClientOK(tcb', up', d, srv, n) /\ UpOK(up', srv, n) /\ tcb'.out = <<>>
         /\ tcb'.state = c.state /\ tcb'.seq = c.seq /\ tcb'.retx = c.retx
         /\ \A base : Based(base, c, up, d, srv, n) => Based(base, tcb', up', d, srv, n)
         /\ \A base : Armed(base, c, srv, n) => Armed(base, tcb', srv, n)
<1>1. c \in Tcb /\ up \in Seq(Segment)
  BY DEF ClientOK, UpOK
<1>2. PICK u2, c2 : u2 = up' /\ c2 = tcb'
  OBVIOUS
<1>3. From(u2, up, c.out) /\ c2 = [c EXCEPT !.out = <<>>]
  BY <1>1, <1>2, SendIs
<1>4. ClientOK(c2, u2, d, srv, n) /\ UpOK(u2, srv, n) /\ c2.out = <<>>
  BY <1>3, WireKeeps
<1>5. c2.state = c.state /\ c2.seq = c.seq /\ c2.retx = c.retx
  BY <1>1, <1>3 DEF Tcb
<1>6. ASSUME NEW base, Based(base, c, up, d, srv, n) PROVE Based(base, c2, u2, d, srv, n)
  BY <1>3, <1>4, <1>6, BasedWire
<1>7. ASSUME NEW base, Armed(base, c, srv, n) PROVE Armed(base, c2, srv, n)
  BY <1>5, <1>7 DEF Armed
<1>. QED
  BY <1>2, <1>4, <1>5, <1>6, <1>7

\* One more segment goes out.
LEMMA OutKeeps ==
  ASSUME NEW c, NEW u, NEW d, NEW v, NEW n, ClientOK(c, u, d, v, n), NEW c2 \in Tcb,
         c2.port = c.port, c2.rx = c.rx, c2.state = c.state, NEW seg, SegmentOK(seg, v, n),
         c2.out = Append(c.out, seg), RetxOK(c2, v, n),
         c.state = "SYN_SENT" => seg.len = 0 /\ c2.retx = c.retx
  PROVE  /\ ClientOK(c2, u, d, v, n)
         /\ \A base : Based(base, c, u, d, v, n)
                      /\ (seg.port = n /\ "SYN" \in seg.flags => Add(seg.seq, 1) = base)
                      => Based(base, c2, u, d, v, n)
<1>1. PICK out, out2 : out = c.out /\ out2 = c2.out
  OBVIOUS
<1>2. out \in Seq(Segment) /\ out2 = Append(out, seg) /\ seg \in Segment
  BY <1>1 DEF ClientOK, Tcb, SegmentOK
<1>3. \A k \in DOMAIN out2 : out2[k] = seg \/ (k \in DOMAIN out /\ out2[k] = out[k])
  BY <1>2
<1>4. \A k \in DOMAIN c2.out : SegmentOK(c2.out[k], v, n)
  BY <1>1, <1>3 DEF ClientOK
<1>5. c.state = "SYN_SENT" /\ Quiet(n, c, u, d, v) => Quiet(n, c2, u, d, v)
  BY <1>1, <1>3 DEF Quiet
<1>6. RxOK(c2) /\ (Coming(c, d, v) => Coming(c2, d, v))
  BY DEF ClientOK, RxOK, Coming
<1>7. ClientOK(c2, u, d, v, n)
  BY <1>4, <1>5, <1>6 DEF ClientOK
<1>8. ASSUME NEW base, Based(base, c, u, d, v, n), seg.port = n /\ "SYN" \in seg.flags => Add(seg.seq, 1) = base
      PROVE  Based(base, c2, u, d, v, n)
  BY <1>1, <1>3, <1>8 DEF Based
<1>. QED
  BY <1>7, <1>8

LEMMA SynAgainKeeps ==
  ASSUME NEW c, NEW u, NEW d, NEW v, NEW n, ClientOK(c, u, d, v, n), c.state = "SYN_SENT",
         NEW c2, c2 = SynAgain(c)
  PROVE  /\ ClientOK(c2, u, d, v, n) /\ c2.state = c.state /\ c2.seq = c.seq
         /\ Based(c.seq, c, u, d, v, n) => Based(c.seq, c2, u, d, v, n)
<1>1. CASE tsyn < 1
  BY <1>1 DEF SynAgain
<1>2. CASE ~(tsyn < 1)
  <2>1. c \in Tcb /\ c.seq \in Numbers /\ c.port = n /\ n >= 1
    BY DEF ClientOK, Tcb
  <2>2. PICK seq \in Numbers : seq = (c.seq + SeqSpace - 1) % SeqSpace /\ Add(seq, 1) = c.seq
    BY <2>1, BackAndForth
  <2>3. PICK b : b = [c EXCEPT !.seq = seq]
    OBVIOUS
  <2>4. /\ b \in Tcb /\ b.port = n /\ b.seq = seq /\ b.out = c.out /\ b.rx = c.rx
        /\ b.state = c.state /\ b.retx = c.retx
    BY <2>1, <2>3 DEF Tcb
  <2>5. PICK seg \in Segment :
          /\ seg.port = b.port /\ seg.flags = {"SYN"} /\ seg.seq = b.seq /\ seg.len = 0
          /\ Tx(b, {"SYN"}, 0) =
               [b EXCEPT !.out = Append(@, seg),
                         !.retx = IF 0 = 0 THEN @
                                  ELSE [active |-> TRUE, seg |-> seg, end |-> Add(b.seq, 0),
                                        age |-> 0, tries |-> 0]]
    <3>1. b.port >= 1 /\ {"SYN"} \in SUBSET Flags /\ 0 \in {0, ReqLen}
      BY <2>1, <2>4 DEF Flags
    <3>. QED
      BY <2>4, <3>1, TxSends
  <2>6. PICK e : e = Tx(b, {"SYN"}, 0)
    OBVIOUS
  <2>7. Append(b.out, seg) \in Seq(Segment)
    BY <2>4, TcbFields
  <2>8. /\ e \in Tcb /\ e.port = n /\ e.out = Append(c.out, seg) /\ e.rx = c.rx
        /\ e.state = c.state /\ e.retx = c.retx
    BY <2>4, <2>5, <2>6, <2>7 DEF Tcb
  <2>9. c2 = [e EXCEPT !.seq = c.seq]
    BY <1>2, <2>2, <2>3, <2>6 DEF SynAgain
  <2>10. /\ c2 \in Tcb /\ c2.port = n /\ c2.out = Append(c.out, seg) /\ c2.rx = c.rx
         /\ c2.state = c.state /\ c2.retx = c.retx /\ c2.seq = c.seq
    BY <2>1, <2>8, <2>9 DEF Tcb
  <2>11. SegmentOK(seg, v, n) /\ RetxOK(c2, v, n)
    <3>1. n \in Nat
      BY <2>1 DEF Tcb
    <3>2. RetxOK(c2, v, n)
      BY <2>10 DEF ClientOK, RetxOK
    <3>. QED
      BY <2>4, <2>5, <3>1, <3>2 DEF SegmentOK
  <2>12. Add(seg.seq, 1) = c.seq
    BY <2>2, <2>4, <2>5
  <2>. QED
    BY <2>1, <2>5, <2>10, <2>11, <2>12, OutKeeps
<1>. QED
  BY <1>1, <1>2

\* tcp_close.
LEMMA ClosedKeeps ==
  ASSUME NEW c, NEW u, NEW d, NEW v, NEW n, ClientOK(c, u, d, v, n), NEW c2, c2 = Closed(c)
  PROVE  ClientOK(c2, u, d, v, n) /\ c2.state = "CLOSED"
<1>1. c \in Tcb /\ c.seq \in Nat
  BY DEF ClientOK, Tcb, Numbers
<1>2. PICK seq \in Numbers : seq = Add(c.seq, 1)
  BY <1>1, AddIn
<1>3. Tx(c, {"FIN", "ACK"}, 0) = c
  BY <1>1, TxNothing DEF Flags
<1>4. /\ c2 \in Tcb /\ c2.port = c.port /\ c2.out = c.out /\ c2.rx = c.rx
      /\ c2.retx = c.retx /\ c2.state = "CLOSED"
  <2>1. CASE c.state = "ESTABLISHED"
    <3>1. c2 = [c EXCEPT !.seq = seq, !.state = "CLOSED"]
      BY <1>2, <1>3, <2>1 DEF Closed
    <3>. QED
      BY <1>1, <3>1 DEF Tcb, States
  <2>2. CASE c.state # "ESTABLISHED"
    <3>1. c2 = [c EXCEPT !.state = "CLOSED"]
      BY <2>2 DEF Closed
    <3>. QED
      BY <1>1, <3>1 DEF Tcb, States
  <2>. QED
    BY <2>1, <2>2
<1>. QED
  BY <1>4, SameView

\* What every step of the client must show.
ClientStep ==
  /\ UpOK(up', srv, opened) /\ DownOK(down', srv, opened)
  /\ ClientOK(tcb', up', down', srv, opened) /\ tcb'.out = <<>>
  /\ PcOK' /\ BodyOK' /\ RequestOK'

LEMMA StepDone ==
  ASSUME TcpInv, UNCHANGED <<srv, opened>>, ClientStep
  PROVE  TcpInv'
  BY DEF TcpInv, ClientStep

\* The frame that was taken and what was sent.
LEMMA PumpSend ==
  ASSUME TcpInv, NEW take \in {0, 1}, Taken(take), NEW c, ClientOK(c, up, down', srv, opened), Send(c)
  PROVE  /\ UpOK(up', srv, opened) /\ DownOK(down', srv, opened)
         /\ ClientOK(tcb', up', down', srv, opened) /\ tcb'.out = <<>>
         /\ tcb'.state = c.state /\ tcb'.seq = c.seq
         /\ \A base : Based(base, c, up, down', srv, opened) => Based(base, tcb', up', down', srv, opened)
         /\ \A base : Armed(base, c, srv, opened) => Armed(base, tcb', srv, opened)
<1>1. UpOK(up, srv, opened)
  BY DEF TcpInv
<1>2. DownOK(down', srv, opened)
  <2>1. PICK b : b = Pump(take)
    OBVIOUS
  <2>. QED
    BY <2>1, PumpKeeps
<1>3. PICK d : d = down'
  OBVIOUS
<1>4. ClientOK(c, up, d, srv, opened)
  BY <1>3
<1>5. /\ ClientOK(tcb', up', d, srv, opened) /\ UpOK(up', srv, opened) /\ tcb'.out = <<>>
      /\ tcb'.state = c.state /\ tcb'.seq = c.seq
      /\ \A base : Based(base, c, up, d, srv, opened) => Based(base, tcb', up', d, srv, opened)
      /\ \A base : Armed(base, c, srv, opened) => Armed(base, tcb', srv, opened)
  BY <1>1, <1>4, SendKeeps
<1>. QED
  BY <1>2, <1>3, <1>5

\* A connection that was not made, or an answer handed over: no request is out.
LEMMA NotWaiting ==
  ASSUME pc' \in {"idle", "start"}, tried' \in 0 .. Attempts, pc' = "start" => tried' < Attempts, t0' = 0
  PROVE  PcOK' /\ RequestOK'
  BY DEF PcOK, RequestOK

LEMMA NextTryKeeps ==
  ASSUME PcOK, BodyOK, pc \in {"start", "connect"}, UNCHANGED opened, NextTry
  PROVE  /\ pc' \in {"idle", "start"} /\ tried' \in 0 .. Attempts /\ (pc' = "start" => tried' < Attempts)
         /\ BodyOK'
<1>1. tried \in Nat /\ tried < Attempts /\ tried' = tried + 1 /\ Attempts \in Nat
  BY Consts DEF PcOK, NextTry
<1>2. CASE tried + 1 = Attempts
  <2>1. pc' = "idle" /\ body' = Failed
    BY <1>2 DEF NextTry, Return
  <2>. QED
    BY <1>1, <1>2, <2>1 DEF BodyOK
<1>3. CASE tried + 1 # Attempts
  <2>1. pc' = "start" /\ body' = body
    BY <1>3 DEF NextTry
  <2>. QED
    BY <1>1, <1>3, <2>1 DEF BodyOK
<1>. QED
  BY <1>2, <1>3

LEMMA ConnectPollKeeps ==
  ASSUME TcpInv, ConnectPoll
  PROVE  TcpInv'
<1>1. /\ opened \in 0 .. Conns /\ UpOK(up, srv, opened) /\ ClientOK(tcb, up, down, srv, opened)
      /\ PcOK /\ BodyOK /\ RequestOK /\ pc = "connect" /\ tcb.state = "SYN_SENT" /\ t0 \in Nat
      /\ UNCHANGED <<srv, opened>>
  BY DEF TcpInv, ConnectPoll, PcOK
<1>2. PICK take \in {0, 1} :
        LET c == Pump(take) IN
          /\ Taken(take)
          /\ \/ /\ c.state = "ESTABLISHED"
                /\ pc' = "request"
                /\ Send(c)
                /\ UNCHANGED <<tried, body>> /\ NoTimers
             \/ /\ c.state = "CLOSED"
                /\ Send(c)
                /\ NextTry /\ NoTimers
             \/ /\ c.state = "SYN_SENT" /\ t0 < ConnectTime
                /\ Send(SynAgain(c)) /\ tsyn' = 0
                /\ UNCHANGED <<pc, tried, body, t0>>
             \/ /\ c.state = "SYN_SENT" /\ t0 >= ConnectTime
                /\ Send([SynAgain(c) EXCEPT !.state = "CLOSED"])
                /\ NextTry /\ NoTimers
  BY DEF ConnectPoll
<1>3. PICK c : c = Pump(take)
  OBVIOUS
<1>4. Taken(take)
  BY <1>2
<1>5. /\ ClientOK(c, up, down', srv, opened) /\ Follows(tcb, c)
      /\ \A base \in Numbers : Based(base, tcb, up, down, srv, opened) =>
                               Based(base, c, up, down', srv, opened)
  BY <1>3, <1>4, PumpKeeps
<1>6. PICK base \in Numbers : Based(base, tcb, up, down, srv, opened) /\ tcb.seq = base
  BY <1>1 DEF RequestOK
<1>7. Based(base, c, up, down', srv, opened) /\ (c.state # "CLOSED" => c.seq = base)
  BY <1>5, <1>6 DEF Follows
<1>8. CASE /\ c.state = "ESTABLISHED" /\ pc' = "request" /\ Send(c)
           /\ UNCHANGED <<tried, body>> /\ NoTimers
  <2>1. /\ UpOK(up', srv, opened) /\ DownOK(down', srv, opened)
        /\ ClientOK(tcb', up', down', srv, opened) /\ tcb'.out = <<>>
        /\ tcb'.state = c.state /\ tcb'.seq = c.seq /\ Based(base, tcb', up', down', srv, opened)
    BY <1>4, <1>5, <1>7, <1>8, PumpSend
  <2>2. PcOK'
    BY <1>1, <1>8, <2>1 DEF PcOK, NoTimers
  <2>3. BodyOK'
    BY <1>1, <1>8 DEF BodyOK
  <2>4. RequestOK'
    BY <1>1, <1>7, <1>8, <2>1 DEF RequestOK
  <2>. QED
    BY <1>1, <2>1, <2>2, <2>3, <2>4, StepDone DEF ClientStep
<1>9. CASE c.state = "CLOSED" /\ Send(c) /\ NextTry /\ NoTimers
  <2>1. /\ UpOK(up', srv, opened) /\ DownOK(down', srv, opened)
        /\ ClientOK(tcb', up', down', srv, opened) /\ tcb'.out = <<>>
    BY <1>4, <1>5, <1>9, PumpSend
  <2>2. PcOK' /\ RequestOK' /\ BodyOK'
    BY <1>1, <1>9, NextTryKeeps, NotWaiting DEF NoTimers
  <2>. QED
    BY <1>1, <2>1, <2>2, StepDone DEF ClientStep
<1>10. CASE /\ c.state = "SYN_SENT" /\ t0 < ConnectTime /\ Send(SynAgain(c)) /\ tsyn' = 0
            /\ UNCHANGED <<pc, tried, body, t0>>
  <2>1. PICK e : e = SynAgain(c)
    OBVIOUS
  <2>2. /\ ClientOK(e, up, down', srv, opened) /\ e.state = c.state /\ e.seq = c.seq
        /\ Based(base, e, up, down', srv, opened)
    <3>1. PICK d : d = down'
      OBVIOUS
    <3>2. ClientOK(c, up, d, srv, opened) /\ Based(c.seq, c, up, d, srv, opened) /\ c.seq = base
      BY <1>5, <1>7, <1>10, <3>1
    <3>3. /\ ClientOK(e, up, d, srv, opened) /\ e.state = c.state /\ e.seq = c.seq
          /\ Based(c.seq, e, up, d, srv, opened)
      BY <1>10, <2>1, <3>2, SynAgainKeeps
    <3>. QED
      BY <3>1, <3>2, <3>3
  <2>3. /\ UpOK(up', srv, opened) /\ DownOK(down', srv, opened)
        /\ ClientOK(tcb', up', down', srv, opened) /\ tcb'.out = <<>>
        /\ tcb'.state = e.state /\ tcb'.seq = e.seq /\ Based(base, tcb', up', down', srv, opened)
    BY <1>4, <1>10, <2>1, <2>2, PumpSend
  <2>4. PcOK'
    BY <1>1, <1>10, <2>2, <2>3 DEF PcOK
  <2>5. BodyOK'
    BY <1>1, <1>10 DEF BodyOK
  <2>6. RequestOK'
    BY <1>1, <1>7, <1>10, <2>2, <2>3 DEF RequestOK
  <2>. QED
    BY <1>1, <2>3, <2>4, <2>5, <2>6, StepDone DEF ClientStep
<1>11. CASE /\ c.state = "SYN_SENT" /\ t0 >= ConnectTime
            /\ Send([SynAgain(c) EXCEPT !.state = "CLOSED"]) /\ NextTry /\ NoTimers
  <2>1. PICK e, f : e = SynAgain(c) /\ f = [e EXCEPT !.state = "CLOSED"]
    OBVIOUS
  <2>2. ClientOK(e, up, down', srv, opened)
    <3>1. PICK d : d = down'
      OBVIOUS
    <3>. QED
      BY <1>5, <1>11, <2>1, <3>1, SynAgainKeeps
  <2>3. ClientOK(f, up, down', srv, opened)
    <3>1. e \in Tcb
      BY <2>2 DEF ClientOK
    <3>2. f \in Tcb /\ f.port = e.port /\ f.rx = e.rx /\ f.out = e.out /\ f.state = "CLOSED" /\ f.retx = e.retx
      BY <2>1, <3>1 DEF Tcb, States
    <3>3. PICK d : d = down'
      OBVIOUS
    <3>. QED
      BY <2>2, <3>2, <3>3, SameView
  <2>4. /\ UpOK(up', srv, opened) /\ DownOK(down', srv, opened)
        /\ ClientOK(tcb', up', down', srv, opened) /\ tcb'.out = <<>>
    BY <1>4, <1>11, <2>1, <2>3, PumpSend
  <2>5. PcOK' /\ RequestOK' /\ BodyOK'
    BY <1>1, <1>11, NextTryKeeps, NotWaiting DEF NoTimers
  <2>. QED
    BY <1>1, <2>4, <2>5, StepDone DEF ClientStep
<1>. QED
  BY <1>2, <1>3, <1>8, <1>9, <1>10, <1>11

\* What http_get hands over is in order.
LEMMA AnswerIs ==
  ASSUME NEW c \in Tcb, RxOK(c), c.port \in 1 .. opened, NEW b, b = Answer(c), b \notin {<<>>, Failed}
  PROVE  \E p \in 1 .. opened : \E first \in {1, Header + 1} :
           \A k \in DOMAIN b : b[k] = <<p, first + k - 1>>
<1>1. PICK all, p : all = c.rx /\ p = c.port
  OBVIOUS
<1>2. all \in Seq(Nat \X Nat) /\ InPlace(all, p) /\ p \in 1 .. opened
  BY <1>1 DEF Tcb, Pieces, RxOK, InPlace
<1>3. PICK first : first = IF Len(all) >= Header THEN Header + 1 ELSE 1
  OBVIOUS
<1>4. first \in {1, Header + 1} /\ first \in Nat /\ first >= 1
  BY <1>3, Consts
<1>5. PICK last : last = Least(Len(all), first + MaxBody - 1)
  OBVIOUS
<1>6. Len(all) \in Nat /\ last \in Int /\ last <= Len(all)
  BY <1>2, <1>4, <1>5, Consts DEF Least
<1>7. b = SubSeq(all, first, last)
  BY <1>1, <1>3, <1>5 DEF Answer
<1>8. first <= last
  <2>1. ASSUME first > last PROVE SubSeq(all, first, last) = <<>>
    BY <1>2, <1>4, <1>6, <2>1
  <2>. QED
    BY <1>4, <1>6, <1>7, <2>1
<1>9. ASSUME NEW k \in DOMAIN b PROVE b[k] = <<p, first + k - 1>>
  <2>0. /\ b \in Seq(Nat \X Nat) /\ Len(b) = last - first + 1
        /\ \A i \in 1 .. last - first + 1 : b[i] = all[first + i - 1]
    <3>1. first \in Int /\ \A i \in first .. last : all[i] \in Nat \X Nat
      BY <1>2, <1>4, <1>6
    <3>. QED
      BY <1>6, <1>7, <1>8, <3>1, SubSeqProperties
  <2>1. DOMAIN b = 1 .. last - first + 1 /\ k \in Nat /\ k >= 1
    BY <2>0
  <2>2. b[k] = all[first + k - 1]
    BY <2>0, <2>1
  <2>3. PICK j : j = first + k - 1
    OBVIOUS
  <2>4. j \in DOMAIN all
    BY <1>2, <1>4, <1>6, <1>8, <2>1, <2>3
  <2>. QED
    BY <1>2, <2>2, <2>3, <2>4 DEF InPlace
<1>. QED
  BY <1>2, <1>4, <1>9

LEMMA RecvPollKeeps ==
  ASSUME TcpInv, RecvPoll
  PROVE  TcpInv'
<1>1. /\ opened \in 0 .. Conns /\ ClientOK(tcb, up, down, srv, opened)
      /\ PcOK /\ BodyOK /\ RequestOK /\ pc = "recv" /\ tcb.state = "ESTABLISHED"
      /\ UNCHANGED <<srv, opened>> /\ tried' = tried
  BY DEF TcpInv, RecvPoll, PcOK
<1>2. PICK take \in {0, 1} :
        LET c == Pump(take) IN
          /\ Taken(take)
          /\ IF Over(c) THEN Send(Closed(c)) /\ Return(Answer(c)) /\ t0' = 0
                        ELSE Send(c) /\ UNCHANGED <<pc, body, t0>>
  BY DEF RecvPoll
<1>3. PICK c : c = Pump(take)
  OBVIOUS
<1>4. Taken(take)
  BY <1>2
<1>5. /\ ClientOK(c, up, down', srv, opened) /\ Follows(tcb, c)
      /\ \A base \in Numbers :
           Based(base, tcb, up, down, srv, opened) =>
             /\ Based(base, c, up, down', srv, opened)
             /\ (tcb.state = "ESTABLISHED" /\ c.state = "ESTABLISHED"
                 /\ Armed(base, tcb, srv, opened)) => Armed(base, c, srv, opened)
  BY <1>3, <1>4, PumpKeeps
<1>6. CASE Over(c) /\ Send(Closed(c)) /\ Return(Answer(c)) /\ t0' = 0
  <2>1. PICK e : e = Closed(c)
    OBVIOUS
  <2>2. ClientOK(e, up, down', srv, opened)
    <3>1. PICK d : d = down'
      OBVIOUS
    <3>. QED
      BY <1>5, <2>1, <3>1, ClosedKeeps
  <2>3. /\ UpOK(up', srv, opened) /\ DownOK(down', srv, opened)
        /\ ClientOK(tcb', up', down', srv, opened) /\ tcb'.out = <<>>
    BY <1>4, <1>6, <2>1, <2>2, PumpSend
  <2>4. tried \in 0 .. Attempts /\ pc' = "idle" /\ body' = Answer(c)
    BY <1>1, <1>6 DEF PcOK, Return
  <2>5. PcOK' /\ RequestOK'
    BY <1>1, <1>6, <2>4, NotWaiting
  <2>6. BodyOK'
    <3>1. c \in Tcb /\ RxOK(c) /\ c.port \in 1 .. opened
      BY <1>1, <1>5 DEF ClientOK
    <3>2. PICK b : b = Answer(c)
      OBVIOUS
    <3>3. b \notin {<<>>, Failed} =>
            \E p \in 1 .. opened : \E first \in {1, Header + 1} :
              \A k \in DOMAIN b : b[k] = <<p, first + k - 1>>
      BY <3>1, <3>2, AnswerIs
    <3>4. body' = b /\ opened' = opened
      BY <1>1, <2>4, <3>2
    <3>. QED
      BY <3>3, <3>4 DEF BodyOK
  <2>. QED
    BY <1>1, <2>3, <2>5, <2>6, StepDone DEF ClientStep
<1>7. CASE ~Over(c) /\ Send(c) /\ UNCHANGED <<pc, body, t0>>
  <2>1. /\ UpOK(up', srv, opened) /\ DownOK(down', srv, opened)
        /\ ClientOK(tcb', up', down', srv, opened) /\ tcb'.out = <<>>
        /\ tcb'.state = c.state /\ tcb'.seq = c.seq
        /\ \A base : Based(base, c, up, down', srv, opened) => Based(base, tcb', up', down', srv, opened)
        /\ \A base : Armed(base, c, srv, opened) => Armed(base, tcb', srv, opened)
    BY <1>4, <1>5, <1>7, PumpSend
  <2>2. c.state = "ESTABLISHED"
    BY <1>1, <1>5, <1>7 DEF Over, Follows
  <2>3. PcOK'
    BY <1>1, <1>7, <2>1, <2>2 DEF PcOK
  <2>4. BodyOK'
    BY <1>1, <1>7 DEF BodyOK
  <2>5. RequestOK'
    <3>1. PICK base \in Numbers : Based(base, tcb, up, down, srv, opened) /\ Armed(base, tcb, srv, opened)
      BY <1>1 DEF RequestOK
    <3>2. Based(base, c, up, down', srv, opened) /\ Armed(base, c, srv, opened)
      BY <1>1, <1>5, <2>2, <3>1
    <3>3. Based(base, tcb', up', down', srv, opened) /\ Armed(base, tcb', srv, opened)
      BY <2>1, <3>2
    <3>. QED
      BY <1>1, <1>7, <3>3 DEF RequestOK
  <2>. QED
    BY <1>1, <2>1, <2>3, <2>4, <2>5, StepDone DEF ClientStep
<1>. QED
  BY <1>2, <1>3, <1>6, <1>7

\* tcp_send_data: the request goes out and is kept.
LEMMA RequestKeeps ==
  ASSUME TcpInv, Request
  PROVE  TcpInv'
<1>1. /\ opened \in 0 .. Conns /\ UpOK(up, srv, opened) /\ DownOK(down, srv, opened)
      /\ ClientOK(tcb, up, down, srv, opened) /\ tcb \in Tcb /\ tcb.port = opened /\ tcb.out = <<>>
      /\ PcOK /\ BodyOK /\ RequestOK /\ pc = "request" /\ tcb.state = "ESTABLISHED" /\ t0 = 0
      /\ UNCHANGED <<srv, opened, tried, t0, down>>
  BY DEF TcpInv, Request, PcOK, ClientOK
<1>2. CASE /\ Send([Tx(tcb, {"PSH", "ACK"}, ReqLen) EXCEPT !.seq = Add(@, ReqLen)])
           /\ pc' = "recv" /\ body' = body
  <2>1. PICK base \in Numbers : Based(base, tcb, up, down, srv, opened) /\ tcb.seq = base
    BY <1>1 DEF RequestOK
  <2>2. PICK flags : flags = {"PSH", "ACK"}
    OBVIOUS
  <2>3. flags \in SUBSET Flags /\ "SYN" \notin flags /\ opened \in 1 .. Conns /\ srv[opened].open
        /\ ReqLen \in Nat /\ ReqLen > 0
    BY <1>1, <2>2, Consts DEF Flags, ClientOK
  <2>4. PICK seg \in Segment :
          /\ seg.port = tcb.port /\ seg.flags = flags /\ seg.seq = tcb.seq /\ seg.len = ReqLen
          /\ Tx(tcb, flags, ReqLen) =
               [tcb EXCEPT !.out = Append(@, seg),
                           !.retx = IF ReqLen = 0 THEN @
                                    ELSE [active |-> TRUE, seg |-> seg, end |-> Add(tcb.seq, ReqLen),
                                          age |-> 0, tries |-> 0]]
    <3>1. tcb.port >= 1 /\ ReqLen \in {0, ReqLen}
      BY <1>1, <2>3
    <3>. QED
      BY <1>1, <2>3, <3>1, TxSends
  <2>5. PICK end \in Numbers : end = Add(base, ReqLen)
    <3>1. base \in Nat
      BY DEF Numbers
    <3>. QED
      BY <2>3, <3>1, AddIn
  <2>6. PICK retx : retx = [active |-> TRUE, seg |-> seg, end |-> end, age |-> 0, tries |-> 0]
    OBVIOUS
  <2>7. retx \in Retx /\ retx.active /\ retx.seg = seg /\ retx.end = end
    BY <2>6, Consts DEF Retx
  <2>8. PICK e : e = Tx(tcb, flags, ReqLen)
    OBVIOUS
  <2>9. e = [tcb EXCEPT !.out = Append(@, seg), !.retx = retx]
    <3>1. e = [tcb EXCEPT !.out = Append(@, seg),
                          !.retx = IF ReqLen = 0 THEN @
                                   ELSE [active |-> TRUE, seg |-> seg, end |-> Add(tcb.seq, ReqLen),
                                         age |-> 0, tries |-> 0]]
      BY <2>4, <2>8
    <3>2. [active |-> TRUE, seg |-> seg, end |-> Add(tcb.seq, ReqLen), age |-> 0, tries |-> 0] = retx
      BY <2>1, <2>5, <2>6
    <3>3. ReqLen # 0
      BY <2>3
    <3>4. e = [tcb EXCEPT !.out = Append(@, seg),
                          !.retx = IF ReqLen = 0 THEN @ ELSE retx]
      BY <3>1, <3>2
    <3>. QED
      BY <3>3, <3>4
  <2>10. Append(tcb.out, seg) \in Seq(Segment)
    BY <1>1, TcbFields
  <2>11. /\ e \in Tcb /\ e.port = tcb.port /\ e.out = Append(tcb.out, seg) /\ e.rx = tcb.rx
         /\ e.state = tcb.state /\ e.retx = retx /\ e.seq = tcb.seq
    BY <1>1, <2>7, <2>9, <2>10 DEF Tcb
  <2>12. PICK f : f = [e EXCEPT !.seq = end]
    OBVIOUS
  <2>13. /\ f \in Tcb /\ f.port = tcb.port /\ f.out = Append(tcb.out, seg) /\ f.rx = tcb.rx
         /\ f.state = tcb.state /\ f.retx = retx /\ f.seq = end
    BY <2>11, <2>12 DEF Tcb
  <2>14. Send(f)
    <3>1. [e EXCEPT !.seq = Add(@, ReqLen)] = f
      BY <2>1, <2>5, <2>11, <2>12
    <3>. QED
      BY <1>2, <2>2, <2>8, <3>1
  <2>15. SegmentOK(seg, srv, opened) /\ seg.len > 0
    BY <1>1, <2>3, <2>4 DEF SegmentOK
  <2>16. RetxOK(f, srv, opened)
    BY <2>3, <2>4, <2>7, <2>13, <2>15 DEF RetxOK
  <2>17. /\ ClientOK(f, up, down, srv, opened) /\ Based(base, f, up, down, srv, opened)
    BY <1>1, <2>1, <2>3, <2>4, <2>13, <2>15, <2>16, OutKeeps
  <2>18. Armed(base, f, srv, opened)
    BY <2>5, <2>7, <2>13 DEF Armed
  <2>19. /\ ClientOK(tcb', up', down, srv, opened) /\ UpOK(up', srv, opened) /\ tcb'.out = <<>>
         /\ tcb'.state = f.state
         /\ Based(base, tcb', up', down, srv, opened) /\ Armed(base, tcb', srv, opened)
    BY <1>1, <2>14, <2>17, <2>18, SendKeeps
  <2>20. PcOK'
    BY <1>1, <1>2, <2>13, <2>19, Consts DEF PcOK
  <2>21. BodyOK'
    BY <1>1, <1>2 DEF BodyOK
  <2>22. RequestOK'
    BY <1>1, <1>2, <2>19 DEF RequestOK
  <2>. QED
    BY <1>1, <2>19, <2>20, <2>21, <2>22, StepDone DEF ClientStep
<1>3. CASE Send(Closed(tcb)) /\ Return(Failed)
  <2>1. PICK e : e = Closed(tcb)
    OBVIOUS
  <2>2. ClientOK(e, up, down, srv, opened)
    BY <1>1, <2>1, ClosedKeeps
  <2>3. ClientOK(tcb', up', down, srv, opened) /\ UpOK(up', srv, opened) /\ tcb'.out = <<>>
    BY <1>1, <1>3, <2>1, <2>2, SendKeeps
  <2>4. tried \in 0 .. Attempts /\ pc' = "idle" /\ body' = Failed
    BY <1>1, <1>3 DEF PcOK, Return
  <2>5. PcOK' /\ RequestOK'
    BY <1>1, <2>4, NotWaiting
  <2>6. BodyOK'
    BY <2>4 DEF BodyOK
  <2>. QED
    BY <1>1, <2>3, <2>5, <2>6, StepDone DEF ClientStep
<1>. QED
  BY <1>2, <1>3 DEF Request

\* A new connection: nothing in flight speaks of it.
LEMMA NewPort ==
  ASSUME NEW n \in Nat, NEW m, m = n + 1, NEW u, NEW d, NEW v, ServerOK(v, n), UpOK(u, v, n), DownOK(d, v, n),
         m \in 1 .. Conns
  PROVE  /\ ServerOK(v, m) /\ UpOK(u, v, m) /\ DownOK(d, v, m)
         /\ ~v[m].open /\ ~v[m].req /\ v[m].sent = 0
         /\ \A k \in DOMAIN u : u[k].port # m
         /\ \A i \in DOMAIN d : d[i].port # m
         /\ \A x : SegmentOK(x, v, n) => SegmentOK(x, v, m) /\ x.port # m
<1>1. m > n /\ \A p \in Nat : p <= n => p <= m /\ p # m
  OBVIOUS
<1>2. ASSUME NEW x, SegmentOK(x, v, n) PROVE SegmentOK(x, v, m) /\ x.port # m
  <2>1. x.port \in Nat /\ x.port <= n
    BY <1>2 DEF SegmentOK, Segment
  <2>2. x.port <= m /\ x.port # m
    BY <1>1, <2>1
  <2>. QED
    BY <1>2, <2>2 DEF SegmentOK
<1>3. UpOK(u, v, m) /\ \A k \in DOMAIN u : u[k].port # m
  BY <1>2 DEF UpOK
<1>4. \A i \in DOMAIN d : d[i].port <= m /\ d[i].port # m
  <2>1. ASSUME NEW i \in DOMAIN d PROVE d[i].port \in Nat /\ d[i].port <= n
    <3>1. d[i] \in DownSegment
      BY DEF DownOK
    <3>. QED
      BY <3>1 DEF DownOK, DownSegment
  <2>. QED
    BY <1>1, <2>1
<1>5. DownOK(d, v, m)
  BY <1>4 DEF DownOK
<1>6. ServerOK(v, m) /\ ~v[m].open /\ ~v[m].req /\ v[m].sent = 0
  BY <1>1 DEF ServerOK
<1>. QED
  BY <1>2, <1>3, <1>4, <1>5, <1>6

LEMMA ConnectKeeps ==
  ASSUME TcpInv, Connect
  PROVE  TcpInv'
<1>1. /\ opened \in 0 .. Conns /\ ServerOK(srv, opened) /\ UpOK(up, srv, opened) /\ DownOK(down, srv, opened)
      /\ ClientOK(tcb, up, down, srv, opened) /\ tcb \in Tcb /\ tcb.out = <<>>
      /\ PcOK /\ BodyOK /\ pc = "start" /\ opened < Conns /\ UNCHANGED <<srv, down>>
  BY DEF TcpInv, Connect, ClientOK
<1>2. PICK m : m = opened + 1
  OBVIOUS
<1>3. opened' = m /\ m \in 1 .. Conns /\ opened \in Nat
  BY <1>1, <1>2, Consts DEF Connect
<1>4. /\ ServerOK(srv, m) /\ UpOK(up, srv, m) /\ DownOK(down, srv, m)
      /\ ~srv[m].open /\ ~srv[m].req /\ srv[m].sent = 0
      /\ \A k \in DOMAIN up : up[k].port # m
      /\ \A i \in DOMAIN down : down[i].port # m
      /\ \A x : SegmentOK(x, srv, opened) => SegmentOK(x, srv, m) /\ x.port # m
  BY <1>1, <1>2, <1>3, NewPort
<1>5. PICK isn \in Isns :
       \/ /\ Send([Tx(Fresh(isn), {"SYN"}, 0) EXCEPT !.seq = Add(isn, 1)])
          /\ pc' = "connect" /\ NoTimers
          /\ UNCHANGED <<tried, body>>
       \/ /\ tcb' = [Fresh(isn) EXCEPT !.state = "CLOSED"]
          /\ NextTry
          /\ UNCHANGED up /\ NoTimers
  BY DEF Connect
<1>6. PICK b : b = Fresh(isn)
  OBVIOUS
<1>7. isn \in Numbers /\ <<>> \in Pieces /\ 0 \in Numbers
  BY Consts DEF Numbers, Pieces
<1>8. /\ b \in Tcb /\ b.port = m /\ b.seq = isn /\ b.state = "SYN_SENT" /\ b.rx = <<>> /\ b.out = <<>>
      /\ b.retx = tcb.retx
  <2>1. b = [tcb EXCEPT !.port = m, !.seq = isn, !.ack = 0, !.state = "SYN_SENT", !.rx = <<>>, !.fin = FALSE]
    BY <1>2, <1>6 DEF Fresh
  <2>2. m \in 0 .. Conns
    BY <1>3
  <2>3. PICK none : none = <<>>
    OBVIOUS
  <2>4. none \in Pieces
    BY <1>7, <2>3
  <2>5. b = [tcb EXCEPT !.port = m, !.seq = isn, !.ack = 0, !.state = "SYN_SENT", !.rx = none, !.fin = FALSE]
    BY <2>1, <2>3
  <2>6. /\ b \in Tcb /\ b.port = m /\ b.seq = isn /\ b.state = "SYN_SENT" /\ b.rx = none
        /\ b.out = tcb.out /\ b.retx = tcb.retx
    BY <1>1, <1>7, <2>2, <2>4, <2>5 DEF Tcb, States
  <2>. QED
    BY <1>1, <2>3, <2>6
<1>9. ClientOK(b, up, down, srv, m)
  <2>1. RetxOK(b, srv, m) /\ (b.retx.active => b.retx.seg.port # m)
    BY <1>1, <1>4, <1>8 DEF ClientOK, RetxOK
  <2>2. Quiet(m, b, up, down, srv)
    BY <1>4, <1>8, <2>1 DEF Quiet
  <2>3. RxOK(b)
    <3>1. Len(<<>>) = 0 /\ DOMAIN <<>> = {}
      OBVIOUS
    <3>. QED
      BY <1>8, <3>1, Consts DEF RxOK
  <2>. QED
    BY <1>3, <1>8, <2>1, <2>2, <2>3 DEF ClientOK
<1>10. CASE /\ Send([Tx(Fresh(isn), {"SYN"}, 0) EXCEPT !.seq = Add(isn, 1)])
            /\ pc' = "connect" /\ NoTimers /\ UNCHANGED <<tried, body>>
  <2>1. PICK base \in Numbers : base = Add(isn, 1)
    <3>1. isn \in Nat
      BY <1>7 DEF Numbers
    <3>. QED
      BY <3>1, AddIn
  <2>2. PICK seg \in Segment :
          /\ seg.port = b.port /\ seg.flags = {"SYN"} /\ seg.seq = b.seq /\ seg.len = 0
          /\ Tx(b, {"SYN"}, 0) =
               [b EXCEPT !.out = Append(@, seg),
                         !.retx = IF 0 = 0 THEN @
                                  ELSE [active |-> TRUE, seg |-> seg, end |-> Add(b.seq, 0),
                                        age |-> 0, tries |-> 0]]
    <3>1. b.port >= 1 /\ {"SYN"} \in SUBSET Flags /\ 0 \in {0, ReqLen}
      BY <1>3, <1>8 DEF Flags
    <3>. QED
      BY <1>8, <3>1, TxSends
  <2>3. PICK e : e = Tx(b, {"SYN"}, 0)
    OBVIOUS
  <2>4. Append(b.out, seg) \in Seq(Segment)
    BY <1>8, TcbFields
  <2>5. /\ e \in Tcb /\ e.port = m /\ e.out = Append(b.out, seg) /\ e.rx = b.rx
        /\ e.state = b.state /\ e.retx = b.retx
    BY <1>8, <2>2, <2>3, <2>4 DEF Tcb
  <2>6. PICK f : f = [e EXCEPT !.seq = base]
    OBVIOUS
  <2>7. /\ f \in Tcb /\ f.port = b.port /\ f.out = Append(b.out, seg) /\ f.rx = b.rx
        /\ f.state = b.state /\ f.retx = b.retx /\ f.seq = base
    BY <1>8, <2>5, <2>6 DEF Tcb
  <2>8. SegmentOK(seg, srv, m) /\ RetxOK(f, srv, m)
    <3>1. RetxOK(f, srv, m)
      BY <1>9, <2>7 DEF ClientOK, RetxOK
    <3>. QED
      BY <1>3, <1>8, <2>2, <3>1 DEF SegmentOK
  <2>9. Based(base, b, up, down, srv, m)
    BY <1>4, <1>8 DEF Based
  <2>10. Add(seg.seq, 1) = base
    BY <1>8, <2>1, <2>2
  <2>11. ClientOK(f, up, down, srv, m) /\ Based(base, f, up, down, srv, m)
    BY <1>9, <2>2, <2>7, <2>8, <2>9, <2>10, OutKeeps
  <2>12. Send(f)
    BY <1>6, <1>10, <2>1, <2>3, <2>6
  <2>13. /\ ClientOK(tcb', up', down, srv, m) /\ UpOK(up', srv, m) /\ tcb'.out = <<>>
         /\ tcb'.state = f.state /\ tcb'.seq = f.seq /\ Based(base, tcb', up', down, srv, m)
    BY <1>4, <2>11, <2>12, SendKeeps
  <2>14. PcOK'
    BY <1>1, <1>8, <1>10, <2>7, <2>13, Consts DEF PcOK, NoTimers
  <2>15. BodyOK'
    <3>1. body' = body /\ \A p \in 1 .. opened : p \in 1 .. m
      BY <1>2, <1>3, <1>10
    <3>. QED
      BY <1>1, <1>3, <3>1 DEF BodyOK
  <2>16. RequestOK'
    BY <1>1, <1>3, <1>10, <2>7, <2>13 DEF RequestOK
  <2>. QED
    BY <1>1, <1>3, <1>4, <2>13, <2>14, <2>15, <2>16 DEF TcpInv
<1>11. CASE /\ tcb' = [Fresh(isn) EXCEPT !.state = "CLOSED"] /\ NextTry
            /\ UNCHANGED up /\ NoTimers
  <2>1. PICK f : f = [b EXCEPT !.state = "CLOSED"]
    OBVIOUS
  <2>2. f \in Tcb /\ f.port = b.port /\ f.rx = b.rx /\ f.out = b.out /\ f.retx = b.retx /\ f.state = "CLOSED"
    BY <1>8, <2>1 DEF Tcb, States
  <2>3. ClientOK(f, up, down, srv, m) /\ tcb' = f
    BY <1>6, <1>9, <1>11, <2>1, <2>2, SameView
  <2>4. pc' \in {"idle", "start"} /\ tried' \in 0 .. Attempts /\ (pc' = "start" => tried' < Attempts)
    <3>1. tried \in Nat /\ tried < Attempts /\ tried' = tried + 1 /\ Attempts \in Nat
      BY <1>1, <1>11, Consts DEF PcOK, NextTry
    <3>2. CASE tried + 1 = Attempts
      BY <1>11, <3>1, <3>2 DEF NextTry, Return
    <3>3. CASE tried + 1 # Attempts
      BY <1>11, <3>1, <3>3 DEF NextTry
    <3>. QED
      BY <3>2, <3>3
  <2>5. PcOK' /\ RequestOK'
    BY <1>11, <2>4, NotWaiting DEF NoTimers
  <2>6. BodyOK'
    <3>1. body' = body \/ body' = Failed
      BY <1>11 DEF NextTry, Return
    <3>2. \A p \in 1 .. opened : p \in 1 .. m
      BY <1>2, <1>3
    <3>. QED
      BY <1>1, <1>3, <3>1, <3>2 DEF BodyOK
  <2>7. /\ UpOK(up', srv', opened') /\ DownOK(down', srv', opened') /\ ServerOK(srv', opened')
        /\ opened' \in 0 .. Conns
    BY <1>1, <1>3, <1>4, <1>11
  <2>8. ClientOK(tcb', up', down', srv', opened') /\ tcb'.out = <<>>
    BY <1>1, <1>3, <1>8, <1>11, <2>2, <2>3
  <2>. QED
    BY <2>5, <2>6, <2>7, <2>8 DEF TcpInv
<1>. QED
  BY <1>5, <1>10, <1>11

LEMMA StrayKeeps ==
  ASSUME TcpInv, Stray
  PROVE  TcpInv'
<1>1. /\ opened \in 0 .. Conns /\ ServerOK(srv, opened) /\ UpOK(up, srv, opened) /\ DownOK(down, srv, opened)
      /\ ClientOK(tcb, up, down, srv, opened) /\ PcOK /\ BodyOK /\ pc = "idle" /\ down # <<>>
      /\ down \in Seq(DownSegment) /\ down' = Tail(down)
      /\ UNCHANGED <<pc, tried, t0, opened, body, srv>>
  BY DEF TcpInv, Stray, DownOK
<1>2. PICK c, d : c = RecvFrame(tcb, down[1]) /\ d = Tail(down)
  OBVIOUS
<1>3. Head(down) = down[1]
  BY <1>1, TailFacts
<1>4. Send(c)
  BY <1>2, <1>3 DEF Stray
<1>5. ClientOK(c, up, d, srv, opened) /\ DownOK(d, srv, opened)
  BY <1>1, <1>2, RecvKeeps, DownTail
<1>6. ClientOK(tcb', up', d, srv, opened) /\ UpOK(up', srv, opened) /\ tcb'.out = <<>>
  BY <1>1, <1>4, <1>5, SendKeeps
<1>7. PcOK' /\ BodyOK' /\ RequestOK'
  BY <1>1 DEF PcOK, BodyOK, RequestOK
<1>. QED
  BY <1>1, <1>2, <1>5, <1>6, <1>7, StepDone DEF ClientStep

\* The timers.
LEMMA TickKeeps ==
  ASSUME TcpInv, Tick
  PROVE  TcpInv'
<1>1. /\ opened \in 0 .. Conns /\ ServerOK(srv, opened) /\ UpOK(up, srv, opened) /\ DownOK(down, srv, opened)
      /\ ClientOK(tcb, up, down, srv, opened) /\ PcOK /\ BodyOK /\ RequestOK /\ tcb \in Tcb /\ tcb.out = <<>>
      /\ UNCHANGED <<pc, tried, opened, body, srv, up, down>>
  BY DEF TcpInv, Tick, ClientOK
<1>2. PICK c : c = tcb'
  OBVIOUS
<1>3. PICK age : age = IF tcb.retx.active THEN 1 ELSE tcb.retx.age
  OBVIOUS
<1>4. PICK retx : retx = [tcb.retx EXCEPT !.age = age]
  OBVIOUS
<1>5. /\ retx \in Retx /\ retx.active = tcb.retx.active /\ retx.seg = tcb.retx.seg /\ retx.end = tcb.retx.end
  <2>1. tcb.retx \in Retx
    BY <1>1, TcbFields
  <2>2. age \in {0, 1}
    BY <1>3, <2>1 DEF Retx
  <2>. QED
    BY <1>4, <2>1, <2>2 DEF Retx
<1>6. c = [tcb EXCEPT !.retx = retx]
  <2>1. c = [tcb EXCEPT !.retx.age = IF tcb.retx.active THEN 1 ELSE @]
    BY <1>2 DEF Tick
  <2>. QED
    BY <1>1, <1>3, <1>4, <2>1 DEF Tcb, Retx
<1>7. /\ c \in Tcb /\ c.port = tcb.port /\ c.rx = tcb.rx /\ c.out = tcb.out /\ c.state = tcb.state
      /\ c.retx = retx /\ c.seq = tcb.seq
  BY <1>1, <1>5, <1>6 DEF Tcb
<1>8. ClientOK(c, up, down, srv, opened)
  BY <1>1, <1>5, <1>7, SameView
<1>9. PcOK'
  <2>1. t0 \in Nat /\ (pc = "connect" => t0 < ConnectTime) /\ (pc = "recv" => t0 < RecvTime)
        /\ t0' = IF pc \in {"connect", "recv"} THEN t0 + 1 ELSE t0
    BY <1>1 DEF PcOK, Tick
  <2>. QED
    BY <1>1, <1>2, <1>7, <2>1, Consts DEF PcOK
<1>10. BodyOK'
  BY <1>1 DEF BodyOK
<1>11. RequestOK'
  <2>1. ASSUME NEW base, Based(base, tcb, up, down, srv, opened) PROVE Based(base, c, up, down, srv, opened)
    BY <1>7, <2>1 DEF Based
  <2>2. ASSUME NEW base, Armed(base, tcb, srv, opened) PROVE Armed(base, c, srv, opened)
    BY <1>5, <1>7, <2>2 DEF Armed
  <2>. QED
    BY <1>1, <1>2, <1>7, <2>1, <2>2 DEF RequestOK
<1>. QED
  BY <1>1, <1>2, <1>7, <1>8, <1>9, <1>10, <1>11, StepDone DEF ClientStep

LEMMA QuickSteps ==
  ASSUME TcpInv, Get \/ GiveUp \/ Kill
  PROVE  TcpInv'
<1>1. /\ opened \in 0 .. Conns /\ ServerOK(srv, opened) /\ UpOK(up, srv, opened) /\ DownOK(down, srv, opened)
      /\ ClientOK(tcb, up, down, srv, opened) /\ PcOK /\ BodyOK /\ RequestOK /\ tcb.out = <<>>
  BY DEF TcpInv
<1>2. UNCHANGED <<tcb, opened, srv, up, down>> /\ body' \in {<<>>, Failed} /\ pc' \in {"idle", "start"} /\ t0' = 0
  BY <1>1 DEF Get, GiveUp, Kill, Return, NoTimers, PcOK
<1>3. tried' \in 0 .. Attempts /\ (pc' = "start" => tried' < Attempts)
  BY <1>1, Consts DEF Get, GiveUp, Kill, Return, PcOK
<1>4. PcOK' /\ RequestOK' /\ BodyOK'
  BY <1>2, <1>3, NotWaiting DEF BodyOK
<1>. QED
  BY <1>1, <1>2, <1>4 DEF TcpInv

-----------------------------------------------------------------------------
(***************************************************************************)
(* The steps of the server and of the wire.                                *)
(***************************************************************************)

LEMMA FromFacts ==
  ASSUME NEW u \in Seq(Segment), u # <<>>
  PROVE  /\ From(u, u, <<>>) /\ From(Tail(u), u, <<>>) /\ From(Append(u, Head(u)), u, <<>>)
<1>1. \A k \in DOMAIN Tail(u) : k + 1 \in DOMAIN u /\ Tail(u)[k] = u[k + 1]
  BY TailFacts
<1>2. Tail(u) \in Seq(Segment) /\ Head(u) = u[1] /\ 1 \in DOMAIN u /\ u[1] \in Segment
  BY TailFacts
<1>3. PICK h : h = u[1]
  OBVIOUS
<1>4. /\ Append(u, h) \in Seq(Segment)
      /\ \A i \in DOMAIN u : Append(u, h)[i] = u[i]
      /\ \A i \in DOMAIN Append(u, h) : i = Len(u) + 1 \/ i \in DOMAIN u
      /\ Append(u, h)[Len(u) + 1] = h
  BY <1>2, <1>3, AppendIs
<1>5. \A i \in DOMAIN Append(u, h) : \E j \in DOMAIN u : Append(u, h)[i] = u[j]
  BY <1>2, <1>3, <1>4
<1>. QED
  BY <1>1, <1>2, <1>3, <1>4, <1>5 DEF From

\* What is lost or repeated on the way to the server.
LEMMA UpChanges ==
  ASSUME TcpInv, From(up', up, <<>>), UNCHANGED <<clientVars, srv, down>>
  PROVE  TcpInv'
<1>1. /\ opened \in 0 .. Conns /\ ServerOK(srv, opened) /\ UpOK(up, srv, opened) /\ DownOK(down, srv, opened)
      /\ ClientOK(tcb, up, down, srv, opened) /\ PcOK /\ BodyOK /\ RequestOK /\ tcb.out = <<>> /\ tcb \in Tcb
  BY DEF TcpInv, ClientOK
<1>2. PICK u : u = up'
  OBVIOUS
<1>3. From(u, up, tcb.out)
  BY <1>1, <1>2
<1>4. tcb = [tcb EXCEPT !.out = <<>>]
  BY <1>1 DEF Tcb
<1>5. ClientOK(tcb, u, down, srv, opened) /\ UpOK(u, srv, opened)
  BY <1>1, <1>3, <1>4, WireKeeps
<1>6. \A base : Based(base, tcb, up, down, srv, opened) => Based(base, tcb, u, down, srv, opened)
  BY <1>1, <1>3, BasedWire
<1>7. UNCHANGED <<tcb, pc, tried, t0, opened, body, srv, down>>
  BY DEF clientVars
<1>8. RequestOK'
  BY <1>1, <1>2, <1>6, <1>7 DEF RequestOK
<1>9. PcOK' /\ BodyOK'
  BY <1>1, <1>7 DEF PcOK, BodyOK
<1>. QED
  BY <1>1, <1>2, <1>5, <1>7, <1>8, <1>9 DEF TcpInv

LEMMA LoseKeeps ==
  ASSUME TcpInv, Lose
  PROVE  TcpInv'
<1>1. /\ opened \in 0 .. Conns /\ ServerOK(srv, opened) /\ UpOK(up, srv, opened) /\ DownOK(down, srv, opened)
      /\ ClientOK(tcb, up, down, srv, opened) /\ PcOK /\ BodyOK /\ RequestOK /\ tcb.out = <<>>
      /\ UNCHANGED <<tcb, pc, tried, t0, opened, body, srv>> /\ UNCHANGED clientVars
      /\ up \in Seq(Segment) /\ down \in Seq(DownSegment)
  BY DEF TcpInv, Lose, clientVars, UpOK, DownOK
<1>2. CASE up # <<>> /\ up' = Tail(up) /\ UNCHANGED down
  <2>1. From(up', up, <<>>)
    BY <1>1, <1>2, FromFacts
  <2>. QED
    BY <1>1, <1>2, <2>1, UpChanges
<1>3. CASE down # <<>> /\ "SYN" \in Head(down).flags /\ down' = Tail(down) /\ UNCHANGED up
  <2>1. ~Numbered(down[1])
    BY <1>1, <1>3, TailFacts DEF Numbered
  <2>2. PICK d : d = Tail(down)
    OBVIOUS
  <2>3. ClientOK(tcb, up, d, srv, opened) /\ DownOK(d, srv, opened)
    BY <1>1, <1>3, <2>1, <2>2, TailKeeps, DownTail
  <2>4. \A base : Based(base, tcb, up, down, srv, opened) => Based(base, tcb, up, d, srv, opened)
    BY <1>1, <1>3, <2>2, BasedTail
  <2>5. RequestOK'
    BY <1>1, <1>3, <2>2, <2>4 DEF RequestOK
  <2>6. PcOK' /\ BodyOK'
    BY <1>1 DEF PcOK, BodyOK
  <2>. QED
    BY <1>1, <1>3, <2>2, <2>3, <2>5, <2>6 DEF TcpInv
<1>. QED
  BY <1>2, <1>3 DEF Lose

LEMMA DuplicateKeeps ==
  ASSUME TcpInv, Duplicate
  PROVE  TcpInv'
<1>1. up \in Seq(Segment) /\ up # <<>>
  BY DEF TcpInv, UpOK, Duplicate
<1>2. From(up', up, <<>>)
  BY <1>1, FromFacts DEF Duplicate
<1>. QED
  BY <1>2, UpChanges DEF Duplicate

\* The server has read a segment or not, and answers.
LEMMA AnswerStep ==
  ASSUME TcpInv, NEW s, NEW v2, Answers(s, srv, v2, opened), srv' = v2, down' = Append(down, s),
         From(up', up, <<>>), UNCHANGED clientVars,
         tcb.state = "SYN_SENT" => ~v2[opened].req /\ ~(s.port = opened /\ Numbered(s)),
         \A base \in Numbers :
           Based(base, tcb, up, down, srv, opened) /\ opened \in 1 .. Conns /\ s.port = opened /\ ~v2[opened].req =>
             ("ACK" \in s.flags => s.ack = base) /\ (v2[opened].open => v2[opened].rcv = base)
  PROVE  TcpInv'
<1>1. /\ opened \in 0 .. Conns /\ ServerOK(srv, opened) /\ UpOK(up, srv, opened) /\ DownOK(down, srv, opened)
      /\ ClientOK(tcb, up, down, srv, opened) /\ PcOK /\ BodyOK /\ RequestOK /\ tcb.out = <<>> /\ tcb \in Tcb
      /\ down \in Seq(DownSegment)
  BY DEF TcpInv, ClientOK, DownOK
<1>2. UNCHANGED <<tcb, pc, tried, t0, opened, body>>
  BY DEF clientVars
<1>3. PICK u, d : u = up' /\ d = Append(down, s)
  OBVIOUS
<1>4. ServerOK(v2, opened) /\ UpOK(up, v2, opened) /\ DownOK(d, v2, opened)
  BY <1>1, <1>3, ServerKeeps, UpKeeps, DownKeeps
<1>5. ClientOK(tcb, up, d, v2, opened)
  BY <1>1, <1>3, AnswerKeeps
<1>6. From(u, up, tcb.out) /\ tcb = [tcb EXCEPT !.out = <<>>]
  BY <1>1, <1>3 DEF Tcb
<1>7. ClientOK(tcb, u, d, v2, opened) /\ UpOK(u, v2, opened)
  BY <1>4, <1>5, <1>6, WireKeeps
<1>8. RequestOK'
  <2>. SUFFICES ASSUME pc \in {"connect", "request", "recv"}
                PROVE  \E base \in Numbers : /\ Based(base, tcb, u, d, v2, opened)
                                             /\ pc # "recv" => tcb.seq = base
                                             /\ pc = "recv" => Armed(base, tcb, v2, opened)
    BY <1>2, <1>3 DEF RequestOK
  <2>1. PICK base \in Numbers : /\ Based(base, tcb, up, down, srv, opened)
                                /\ pc # "recv" => tcb.seq = base
                                /\ pc = "recv" => Armed(base, tcb, srv, opened)
    BY <1>1 DEF RequestOK
  <2>2. opened \in 1 .. Conns
    <3>1. tcb.state # "CLOSED"
      BY <1>1 DEF PcOK
    <3>. QED
      BY <1>1, <3>1 DEF ClientOK
  <2>3. s.port = opened /\ ~v2[opened].req =>
          /\ "ACK" \in s.flags => s.ack = base
          /\ v2[opened].open => v2[opened].rcv = base
    BY <2>1, <2>2
  <2>4. Based(base, tcb, up, d, v2, opened)
    BY <1>1, <1>3, <2>1, <2>2, <2>3, BasedAnswer
  <2>5. Based(base, tcb, u, d, v2, opened)
    BY <1>1, <1>6, <2>4, BasedWire
  <2>6. srv[opened].req => v2[opened].req
    BY <2>2 DEF Answers
  <2>7. Armed(base, tcb, srv, opened) => Armed(base, tcb, v2, opened)
    BY <2>6 DEF Armed
  <2>. QED
    BY <2>1, <2>5, <2>7
<1>9. PcOK' /\ BodyOK'
  BY <1>1, <1>2 DEF PcOK, BodyOK
<1>. QED
  BY <1>1, <1>2, <1>3, <1>4, <1>7, <1>8, <1>9 DEF TcpInv

LEMMA QuietHere ==
  ASSUME TcpInv, tcb.state = "SYN_SENT"
  PROVE  /\ opened \in 1 .. Conns /\ ~srv[opened].req
         /\ \A k \in DOMAIN up : up[k].port = opened => up[k].len = 0
  BY DEF TcpInv, ClientOK, Quiet

\* A segment without data says only what its port, flags and numbers are.
LEMMA PlainReply ==
  ASSUME NEW p \in 1 .. Conns, NEW flags \in SUBSET Flags, NEW seq \in Nat, NEW ack \in Numbers,
         NEW s, s = [port |-> p, flags |-> flags, seq |-> seq, ack |-> ack, data |-> <<>>]
  PROVE  /\ s \in DownSegment /\ s.port = p /\ s.flags = flags /\ s.seq = seq /\ s.ack = ack
         /\ s.data = <<>> /\ After(s) = seq
<1>1. <<>> \in Pieces
  BY DEF Pieces
<1>2. s \in DownSegment
  BY <1>1 DEF DownSegment
<1>3. Len(<<>>) = 0
  OBVIOUS
<1>. QED
  BY <1>2, <1>3 DEF After

LEMMA ServerRecvKeeps ==
  ASSUME TcpInv, ServerRecv
  PROVE  TcpInv'
<1>1. /\ opened \in 0 .. Conns /\ ServerOK(srv, opened) /\ UpOK(up, srv, opened)
      /\ up \in Seq(Segment) /\ up # <<>> /\ up' = Tail(up) /\ UNCHANGED clientVars
      /\ srv \in [1 .. Conns -> Server]
  BY DEF TcpInv, UpOK, ServerOK, ServerRecv
<1>2. From(up', up, <<>>) /\ Head(up) = up[1] /\ 1 \in DOMAIN up
  BY <1>1, FromFacts, TailFacts
<1>3. PICK x, p : x = up[1] /\ p = x.port
  OBVIOUS
<1>4. SegmentOK(x, srv, opened)
  BY <1>2, <1>3 DEF TcpInv, UpOK
<1>5. /\ p \in 1 .. Conns /\ p <= opened /\ x.seq \in Nat /\ x.len \in Nat /\ (x.len > 0 => srv[p].open)
      /\ x.seq \in Numbers
  BY <1>3, <1>4, Consts DEF SegmentOK, Segment, Numbers
<1>6. PICK v : v = srv[p]
  OBVIOUS
<1>7. v \in Server /\ v.sent + 1 \in Nat /\ v.rcv \in Numbers /\ v.req \in BOOLEAN /\ v.open \in BOOLEAN
  BY <1>1, <1>5, <1>6 DEF Server
<1>8. CASE /\ "SYN" \in x.flags /\ ~v.req
           /\ srv' = [srv EXCEPT ![p].open = TRUE, ![p].rcv = Add(x.seq, 1)]
           /\ Reply(p, {"SYN", "ACK"}, 0, Add(x.seq, 1), <<>>)
  <2>1. PICK next \in Numbers : next = Add(x.seq, 1)
    <3>1. 1 \in Nat
      OBVIOUS
    <3>. QED
      BY <1>5, <3>1, AddIn
  <2>2. PICK w : w = [v EXCEPT !.open = TRUE, !.rcv = next]
    OBVIOUS
  <2>3. w \in Server /\ w.open /\ w.rcv = next /\ w.req = v.req /\ w.sent = v.sent
    BY <1>7, <2>2 DEF Server
  <2>4. PICK v2 : v2 = [srv EXCEPT ![p] = w]
    OBVIOUS
  <2>5. srv' = v2
    BY <1>1, <1>5, <1>6, <1>8, <2>1, <2>2, <2>4
  <2>6. /\ v2 \in [1 .. Conns -> Server] /\ v2[p] = w /\ \A q \in 1 .. Conns : q # p => v2[q] = srv[q]
    BY <1>1, <1>5, <2>3, <2>4
  <2>7. PICK s : s = [port |-> p, flags |-> {"SYN", "ACK"}, seq |-> 0, ack |-> next, data |-> <<>>]
    OBVIOUS
  <2>8. /\ s \in DownSegment /\ s.port = p /\ s.flags = {"SYN", "ACK"} /\ s.ack = next /\ s.data = <<>>
    <3>1. 0 \in Nat /\ {"SYN", "ACK"} \in SUBSET Flags
      BY DEF Flags
    <3>. QED
      BY <1>5, <2>7, <3>1, PlainReply
  <2>9. down' = Append(down, s)
    BY <1>8, <2>1, <2>7 DEF Reply
  <2>10. ~Numbered(s)
    BY <2>8 DEF Numbered
  <2>11. Answers(s, srv, v2, opened)
    BY <1>5, <1>6, <2>3, <2>6, <2>8, <2>10 DEF Answers
  <2>12. tcb.state = "SYN_SENT" => ~v2[opened].req
    BY <1>6, <1>8, <2>3, <2>6, QuietHere
  <2>13. ASSUME NEW base \in Numbers, Based(base, tcb, up, down, srv, opened), s.port = opened
         PROVE  s.ack = base /\ v2[opened].rcv = base
    <3>1. Add(x.seq, 1) = base
      BY <1>2, <1>3, <1>8, <2>8, <2>13 DEF Based
    <3>. QED
      BY <2>1, <2>3, <2>6, <2>8, <2>13, <3>1
  <2>. QED
    BY <1>1, <1>2, <2>5, <2>9, <2>10, <2>11, <2>12, <2>13, AnswerStep
<1>9. CASE /\ "SYN" \in x.flags /\ v.req
           /\ Reply(p, {"ACK"}, v.sent + 1, v.rcv, <<>>)
           /\ UNCHANGED srv
  <2>1. PICK s, q : q = v.sent + 1 /\ s = [port |-> p, flags |-> {"ACK"}, seq |-> q, ack |-> v.rcv, data |-> <<>>]
    OBVIOUS
  <2>2. /\ s \in DownSegment /\ s.port = p /\ s.flags = {"ACK"} /\ s.seq = q /\ s.data = <<>> /\ After(s) = q
    <3>1. q \in Nat /\ {"ACK"} \in SUBSET Flags
      BY <1>7, <2>1 DEF Flags
    <3>2. PICK rcv \in Numbers : rcv = v.rcv
      BY <1>7
    <3>. QED
      BY <1>5, <2>1, <3>1, <3>2, PlainReply
  <2>3. down' = Append(down, s)
    BY <1>9, <2>1 DEF Reply
  <2>4. Answers(s, srv, srv, opened)
    <3>1. \A k \in DOMAIN s.data : s.data[k] = <<s.port, s.seq + k - 1>>
      BY <2>2
    <3>. QED
      BY <1>1, <1>5, <1>6, <2>1, <2>2, <3>1 DEF Answers
  <2>5. tcb.state = "SYN_SENT" => ~srv[opened].req /\ s.port # opened
    BY <1>6, <1>9, <2>2, QuietHere
  <2>6. ~(s.port = opened /\ ~srv[opened].req)
    BY <1>6, <1>9, <2>2
  <2>. QED
    BY <1>1, <1>2, <1>9, <2>3, <2>4, <2>5, <2>6, AnswerStep
<1>10. CASE /\ x.len > 0
            /\ LET new == v.open /\ x.seq = v.rcv
                   rcv == IF new THEN Add(v.rcv, x.len) ELSE v.rcv
               IN  /\ srv' = [srv EXCEPT ![p].rcv = rcv, ![p].req = @ \/ new]
                   /\ Reply(p, {"ACK"}, v.sent + 1, rcv, <<>>)
  <2>1. PICK new \in BOOLEAN : new = (v.open /\ x.seq = v.rcv)
    OBVIOUS
  <2>2. PICK rcv : rcv = IF new THEN Add(v.rcv, x.len) ELSE v.rcv
    OBVIOUS
  <2>3. rcv \in Numbers
    <3>1. v.rcv \in Nat
      BY <1>7 DEF Numbers
    <3>2. Add(v.rcv, x.len) \in Numbers
      BY <1>5, <3>1, AddIn
    <3>. QED
      BY <1>7, <2>2, <3>2
  <2>4. PICK req \in BOOLEAN : req = (v.req \/ new)
    OBVIOUS
  <2>5. /\ srv' = [srv EXCEPT ![p].rcv = rcv, ![p].req = @ \/ new]
        /\ Reply(p, {"ACK"}, v.sent + 1, rcv, <<>>)
    BY <1>10, <2>1, <2>2
  <2>6. PICK w : w = [v EXCEPT !.rcv = rcv, !.req = req]
    OBVIOUS
  <2>7. w \in Server /\ w.open = v.open /\ w.rcv = rcv /\ w.req = req /\ w.sent = v.sent
    BY <1>7, <2>3, <2>6 DEF Server
  <2>8. PICK v2 : v2 = [srv EXCEPT ![p] = w]
    OBVIOUS
  <2>9. srv' = v2
    BY <1>1, <1>5, <1>6, <2>4, <2>5, <2>6, <2>8
  <2>10. /\ v2 \in [1 .. Conns -> Server] /\ v2[p] = w /\ \A i \in 1 .. Conns : i # p => v2[i] = srv[i]
    BY <1>1, <1>5, <2>7, <2>8
  <2>11. PICK s, q : q = v.sent + 1 /\ s = [port |-> p, flags |-> {"ACK"}, seq |-> q, ack |-> rcv, data |-> <<>>]
    OBVIOUS
  <2>12. /\ s \in DownSegment /\ s.port = p /\ s.flags = {"ACK"} /\ s.seq = q /\ s.data = <<>> /\ After(s) = q
         /\ s.ack = rcv
    <3>1. q \in Nat /\ {"ACK"} \in SUBSET Flags
      BY <1>7, <2>11 DEF Flags
    <3>. QED
      BY <1>5, <2>3, <2>11, <3>1, PlainReply
  <2>13. down' = Append(down, s)
    BY <2>5, <2>11 DEF Reply
  <2>14. Answers(s, srv, v2, opened)
    <3>1. \A k \in DOMAIN s.data : s.data[k] = <<s.port, s.seq + k - 1>>
      BY <2>12
    <3>2. "SYN" \notin s.flags /\ Numbered(s)
      BY <2>12 DEF Numbered
    <3>3. v.req => req
      BY <2>4
    <3>. QED
      BY <1>5, <1>6, <2>7, <2>10, <2>11, <2>12, <3>1, <3>2, <3>3 DEF Answers
  <2>15. tcb.state = "SYN_SENT" => ~v2[opened].req /\ s.port # opened
    <3>1. tcb.state = "SYN_SENT" => p # opened
      <4>1. tcb.state = "SYN_SENT" /\ p = opened => x.len = 0
        BY <1>2, <1>3, QuietHere
      <4>. QED
        BY <1>10, <4>1
    <3>. QED
      BY <2>10, <2>12, <3>1, QuietHere
  <2>16. ASSUME NEW base \in Numbers, Based(base, tcb, up, down, srv, opened), s.port = opened, ~v2[opened].req
         PROVE  s.ack = base /\ v2[opened].rcv = base
    <3>1. ~req /\ p = opened
      BY <2>7, <2>10, <2>12, <2>16
    <3>2. ~v.req /\ ~new
      BY <2>4, <3>1
    <3>3. v.open
      BY <1>5, <1>6, <1>10
    <3>4. v.rcv = base
      BY <1>6, <2>16, <3>1, <3>2, <3>3 DEF Based
    <3>. QED
      BY <2>2, <2>7, <2>10, <2>12, <3>1, <3>2, <3>4
  <2>. QED
    BY <1>1, <1>2, <2>9, <2>13, <2>14, <2>15, <2>16, AnswerStep
<1>. QED
  BY <1>2, <1>3, <1>6, <1>8, <1>9, <1>10 DEF ServerRecv

LEMMA ServerSendKeeps ==
  ASSUME TcpInv, ServerSend
  PROVE  TcpInv'
<1>1. /\ opened \in 0 .. Conns /\ ServerOK(srv, opened) /\ up \in Seq(Segment)
      /\ srv \in [1 .. Conns -> Server]
  BY DEF TcpInv, UpOK, ServerOK
<1>2. PICK p \in 1 .. Conns, n \in 0 .. 2, f \in BOOLEAN :
        /\ srv[p].req /\ ~srv[p].fin
        /\ Reply(p, IF f THEN {"ACK", "FIN"} ELSE {"ACK"}, srv[p].sent + 1, srv[p].rcv,
                 [k \in 1 .. n |-> <<p, srv[p].sent + k>>])
        /\ srv' = [srv EXCEPT ![p].sent = @ + n, ![p].fin = f]
        /\ UNCHANGED <<clientVars, up>>
  BY DEF ServerSend
<1>3. p <= opened
  BY <1>1, <1>2 DEF ServerOK
<1>4. PICK v, told : v = srv[p] /\ told = v.sent
  OBVIOUS
<1>5. v \in Server /\ told \in Nat /\ v.rcv \in Numbers /\ n \in Nat /\ p \in Nat
  BY <1>1, <1>4 DEF Server
<1>6. PICK w, told2 : told2 = told + n /\ w = [v EXCEPT !.sent = told2, !.fin = f]
  OBVIOUS
<1>7. w \in Server /\ w.open = v.open /\ w.rcv = v.rcv /\ w.req = v.req /\ w.sent = told2
  <2>1. told2 \in Nat
    BY <1>5, <1>6
  <2>. QED
    BY <1>5, <1>6, <2>1 DEF Server
<1>8. PICK v2 : v2 = [srv EXCEPT ![p] = w]
  OBVIOUS
<1>9. srv' = v2
  BY <1>1, <1>2, <1>4, <1>6, <1>8
<1>10. v2 \in [1 .. Conns -> Server] /\ v2[p] = w /\ \A i \in 1 .. Conns : i # p => v2[i] = srv[i]
  BY <1>1, <1>7, <1>8
<1>11. PICK flags, data : /\ flags = IF f THEN {"ACK", "FIN"} ELSE {"ACK"}
                          /\ data = [k \in 1 .. n |-> <<p, told + k>>]
  OBVIOUS
<1>12. flags \in SUBSET Flags /\ "SYN" \notin flags /\ "RST" \notin flags
  BY <1>11 DEF Flags
<1>13. data \in Pieces /\ Len(data) = n /\ DOMAIN data = 1 .. n
  <2>1. \A k \in 1 .. n : <<p, told + k>> \in Nat \X Nat
    BY <1>5
  <2>2. data \in [1 .. n -> Nat \X Nat]
    BY <1>11, <2>1
  <2>. QED
    BY <1>5, <2>2 DEF Pieces
<1>14. PICK s, q : q = told + 1 /\ s = [port |-> p, flags |-> flags, seq |-> q, ack |-> v.rcv, data |-> data]
  OBVIOUS
<1>15. s \in DownSegment /\ s.port = p /\ s.flags = flags /\ s.seq = q /\ s.data = data /\ q \in Nat
  BY <1>5, <1>12, <1>13, <1>14 DEF DownSegment
<1>16. down' = Append(down, s)
  BY <1>2, <1>4, <1>11, <1>14 DEF Reply
<1>17. Numbered(s) /\ After(s) = told2 + 1
  <2>1. After(s) = q + n
    BY <1>13, <1>15 DEF After
  <2>. QED
    BY <1>5, <1>6, <1>12, <1>14, <1>15, <2>1 DEF Numbered
<1>18. \A k \in DOMAIN s.data : s.data[k] = <<s.port, s.seq + k - 1>>
  <2>1. \A k \in DOMAIN data : data[k] = <<p, told + k>> /\ told + k = q + k - 1
    BY <1>5, <1>11, <1>13, <1>14
  <2>. QED
    BY <1>15, <2>1
<1>19. Answers(s, srv, v2, opened)
  BY <1>3, <1>4, <1>7, <1>10, <1>12, <1>14, <1>15, <1>17, <1>18 DEF Answers
<1>20. From(up', up, <<>>) /\ UNCHANGED clientVars
  BY <1>1, <1>2 DEF From
<1>21. tcb.state = "SYN_SENT" => ~v2[opened].req /\ s.port # opened
  BY <1>2, <1>10, <1>15, QuietHere
<1>22. ~(s.port = opened /\ ~v2[opened].req)
  BY <1>2, <1>4, <1>7, <1>10, <1>15
<1>. QED
  BY <1>9, <1>16, <1>19, <1>20, <1>21, <1>22, AnswerStep

LEMMA ServerResetKeeps ==
  ASSUME TcpInv, ServerReset
  PROVE  TcpInv'
<1>1. /\ opened \in 0 .. Conns /\ up \in Seq(Segment) /\ srv \in [1 .. Conns -> Server] /\ opened \in Nat
  BY DEF TcpInv, UpOK, ServerOK
<1>2. PICK p \in 1 .. Least(opened, MaxReset) :
        /\ Reply(p, {"RST"}, 0, 0, <<>>)
        /\ srv' = [srv EXCEPT ![p].fin = TRUE]
  BY DEF ServerReset
<1>3. p \in 1 .. Conns /\ p <= opened
  BY <1>1, <1>2, Consts DEF Least
<1>4. PICK v, w : v = srv[p] /\ w = [v EXCEPT !.fin = TRUE]
  OBVIOUS
<1>5. v \in Server /\ w \in Server /\ w.open = v.open /\ w.rcv = v.rcv /\ w.req = v.req /\ w.sent = v.sent
  BY <1>1, <1>3, <1>4 DEF Server
<1>6. PICK v2 : v2 = [srv EXCEPT ![p] = w]
  OBVIOUS
<1>7. srv' = v2
  BY <1>1, <1>2, <1>3, <1>4, <1>6
<1>8. v2 \in [1 .. Conns -> Server] /\ v2[p] = w /\ \A i \in 1 .. Conns : i # p => v2[i] = srv[i]
  BY <1>1, <1>3, <1>5, <1>6
<1>9. PICK s : s = [port |-> p, flags |-> {"RST"}, seq |-> 0, ack |-> 0, data |-> <<>>]
  OBVIOUS
<1>10. s \in DownSegment /\ s.port = p /\ s.flags = {"RST"} /\ s.data = <<>>
  <2>1. 0 \in Nat /\ 0 \in Numbers /\ {"RST"} \in SUBSET Flags
    BY Consts DEF Flags, Numbers
  <2>. QED
    BY <1>3, <1>9, <2>1, PlainReply
<1>11. down' = Append(down, s)
  BY <1>2, <1>9 DEF Reply
<1>12. ~Numbered(s) /\ "SYN" \notin s.flags /\ "ACK" \notin s.flags
  BY <1>10 DEF Numbered
<1>13. Answers(s, srv, v2, opened)
  BY <1>3, <1>4, <1>5, <1>8, <1>10, <1>12 DEF Answers
<1>14. From(up', up, <<>>) /\ UNCHANGED clientVars
  BY <1>1 DEF From, ServerReset
<1>15. tcb.state = "SYN_SENT" => ~v2[opened].req
  BY <1>4, <1>5, <1>8, QuietHere
<1>16. ASSUME NEW base \in Numbers, Based(base, tcb, up, down, srv, opened), s.port = opened, ~v2[opened].req,
              v2[opened].open
       PROVE  v2[opened].rcv = base
  BY <1>4, <1>5, <1>8, <1>10, <1>16 DEF Based
<1>. QED
  BY <1>7, <1>11, <1>12, <1>13, <1>14, <1>15, <1>16, AnswerStep

-----------------------------------------------------------------------------
(***************************************************************************)
(* The invariant, and what it says.                                        *)
(***************************************************************************)

LEMMA TcpInvInit == TcpInit => TcpInv
<1>. SUFFICES ASSUME TcpInit PROVE TcpInv
  OBVIOUS
<1>1. /\ opened = 0 /\ up = <<>> /\ down = <<>> /\ pc = "idle" /\ body = <<>> /\ tried = 0 /\ t0 = 0
  BY DEF TcpInit
<1>2. /\ <<>> \in Pieces /\ <<>> \in Seq(Segment) /\ <<>> \in Seq(DownSegment) /\ Len(<<>>) = 0
      /\ DOMAIN <<>> = {} /\ 0 \in Numbers
  BY Consts DEF Pieces, Numbers
<1>3. /\ tcb \in Tcb /\ tcb.port = 0 /\ tcb.rx = <<>> /\ tcb.out = <<>> /\ tcb.state = "CLOSED"
      /\ ~tcb.retx.active
  BY <1>2, ClearRetx, Consts DEF TcpInit, Tcb, States
<1>4. ServerOK(srv, 0)
  BY <1>2 DEF TcpInit, ServerOK, Server
<1>5. UpOK(up, srv, 0) /\ DownOK(down, srv, 0)
  BY <1>1, <1>2 DEF UpOK, DownOK
<1>6. ClientOK(tcb, up, down, srv, 0)
  BY <1>2, <1>3, Consts DEF ClientOK, RxOK, RetxOK
<1>7. PcOK /\ BodyOK /\ RequestOK
  BY <1>1, <1>3, Consts DEF PcOK, BodyOK, RequestOK
<1>. QED
  BY <1>1, <1>3, <1>4, <1>5, <1>6, <1>7, Consts DEF TcpInv

LEMMA TcpInvNext == TcpInv /\ [TcpNext]_tcpVars => TcpInv'
<1>. SUFFICES ASSUME TcpInv, [TcpNext]_tcpVars PROVE TcpInv'
  OBVIOUS
<1>1. CASE Get \/ GiveUp \/ Kill
  BY <1>1, QuickSteps
<1>2. CASE Connect
  BY <1>2, ConnectKeeps
<1>3. CASE ConnectPoll
  BY <1>3, ConnectPollKeeps
<1>4. CASE Request
  BY <1>4, RequestKeeps
<1>5. CASE RecvPoll
  BY <1>5, RecvPollKeeps
<1>6. CASE Stray
  BY <1>6, StrayKeeps
<1>7. CASE Tick
  BY <1>7, TickKeeps
<1>8. CASE ServerRecv
  BY <1>8, ServerRecvKeeps
<1>9. CASE ServerSend
  BY <1>9, ServerSendKeeps
<1>10. CASE ServerReset
  BY <1>10, ServerResetKeeps
<1>11. CASE Lose
  BY <1>11, LoseKeeps
<1>12. CASE Duplicate
  BY <1>12, DuplicateKeeps
<1>13. CASE UNCHANGED tcpVars
  BY <1>13 DEF tcpVars, TcpInv, PcOK, BodyOK, RequestOK
<1>. QED
  BY <1>1, <1>2, <1>3, <1>4, <1>5, <1>6, <1>7, <1>8, <1>9, <1>10, <1>11, <1>12, <1>13
     DEF TcpNext, TcpClient

THEOREM TcpInduction == TcpSpec => []TcpInv
<1>1. TcpInit => TcpInv
  BY TcpInvInit
<1>2. TcpInv /\ [TcpNext]_tcpVars => TcpInv'
  BY TcpInvNext
<1>. QED
  BY <1>1, <1>2, PTL DEF TcpSpec

\* What the client has received is the beginning of the server's answer on the
\* connection, and what http_get hands over is a piece of one such answer, in
\* order, whatever happens to the client's segments and to SYN+ACKs, and whatever
\* earlier connections left behind.  The server's data of this connection is taken
\* to arrive once and in order (tcp_recv_frame, tcp.c:143 and 169; http_get, tcp.c:330).
THEOREM ReceivedInOrder == TcpSpec => []InOrder
<1>1. TcpInv => InOrder
  <2>. SUFFICES ASSUME TcpInv PROVE InOrder
    OBVIOUS
  <2>1. /\ opened \in 0 .. Conns /\ ClientOK(tcb, up, down, srv, opened) /\ tcb \in Tcb /\ tcb.out = <<>>
        /\ tcb.port = opened /\ RxOK(tcb) /\ RetxOK(tcb, srv, opened) /\ PcOK /\ BodyOK
        /\ up \in Seq(Segment)
    BY DEF TcpInv, ClientOK, UpOK
  <2>2. tcb.retx \in Retx /\ tcb.state \in States /\ tcb.seq \in Numbers /\ tcb.ack \in Numbers
    BY <2>1, TcbFields
  <2>3. /\ tcb.state \in {"CLOSED", "SYN_SENT", "ESTABLISHED"}
        /\ {tcb.seq, tcb.ack, tcb.retx.end} \subseteq 0 .. SeqSpace - 1
        /\ tcb.retx.tries \in 0 .. MaxRetx
    BY <2>2 DEF States, Retx, Numbers
  <2>4. tcb.retx.tries \in 0 .. MaxRetx + 1
    BY <2>3, Consts
  <2>5. tcb.port \in 0 .. opened /\ opened \in 0 .. Conns
    BY <2>1
  <2>6. Len(tcb.rx) <= RxSize /\ \A k \in DOMAIN tcb.rx : tcb.rx[k] = <<tcb.port, k>>
    BY <2>1 DEF RxOK
  <2>7. tcb.retx.active => tcb.retx.seg \in Segment
    BY <2>1 DEF RetxOK, SegmentOK
  <2>8. /\ pc \in {"idle", "start", "connect", "request", "recv"}
        /\ tried \in 0 .. Attempts
    BY <2>1 DEF PcOK
  <2>9. t0 \in 0 .. ConnectTime + RecvTime
    <3>1. t0 \in Nat /\ (t0 <= ConnectTime \/ t0 <= RecvTime)
      BY <2>1, Consts DEF PcOK
    <3>. QED
      BY <3>1, Consts
  <2>10. \A k \in DOMAIN up : up[k] \in Segment
    BY <2>1
  <2>11. TcpTypeOK
    BY <2>1, <2>3, <2>4, <2>5, <2>6, <2>7, <2>8, <2>9, <2>10 DEF TcpTypeOK
  <2>. QED
    BY <2>1, <2>6, <2>11 DEF InOrder, BodyOK
<1>. QED
  BY <1>1, TcpInduction, PTL

\* The request stays armed for retransmission until the server has it, unless its
\* end wraps around (tcp_recv_frame, tcp.c:163; tcp_retx_check, tcp.c:203).
THEOREM RequestIsKept == TcpSpec => []RequestKept
<1>1. TcpInv => RequestKept
  <2>. SUFFICES ASSUME TcpInv, pc = "recv", tcb.seq >= ReqLen
                PROVE  tcb.retx.active \/ srv[tcb.port].req
    BY DEF RequestKept
  <2>1. tcb.port = opened /\ tcb.seq \in Nat
    BY DEF TcpInv, ClientOK, Tcb, Numbers
  <2>2. tcb.retx.active \/ srv[opened].req \/ tcb.seq < ReqLen
    BY DEF TcpInv, RequestOK, Armed
  <2>. QED
    BY <2>1, <2>2, Consts
<1>. QED
  BY <1>1, TcpInduction, PTL

=============================================================================
