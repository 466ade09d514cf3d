-------------------------------- MODULE Net --------------------------------
(***************************************************************************)
(* ARP, IP, ICMP, UDP, DNS and DHCP (arp.c, ip.c, dns.c, dhcp.c) and the   *)
(* shell's resolve_host and ping (shell.c).  There are no threads here: a  *)
(* command asks a question and polls the card until an answer that passes  *)
(* its tests is found or the time is over, and frames that arrive while    *)
(* nobody polls wait in the card's ring for whoever polls next.            *)
(*                                                                         *)
(* The other hosts are the environment.  They answer a question late, more *)
(* than once or never, and in any order.  Time is in seconds.              *)
(***************************************************************************)
EXTENDS Integers, Sequences, FiniteSets, SequencesExt

CONSTANTS
  Local, Far,    \* addresses on our subnet and elsewhere
  Gw, Dns,       \* gateway and name server before DHCP
  OwnIp, Leases, \* our address before DHCP, and those a server may give
  Names, Addrs,  \* host names, and the addresses of each: a sequence
  Commands,      \* <<"ping", address>>, <<"host", name>> (resolve_host),
                 \* <<"lookup", name>> (nslookup, both ways), <<"dhcp", Gw>>
  CacheSize,     \* ARP_CACHE_SIZE (8)
  ArpTries,      \* attempts of arp_resolve (3)
  EchoTime, DnsTime, DhcpTime, \* 3, 3, 2
  MaxRing,       \* frames the card holds
  MaxCalls       \* commands of one behaviour

ASSUME NetAssumption ==
  /\ {Gw, Dns} \subseteq Local
  /\ {CacheSize, ArpTries, EchoTime, DnsTime, DhcpTime, MaxRing} \subseteq Nat \ {0}
  /\ \A n \in Names : Addrs[n] \in Seq(Local \cup Far) /\ Addrs[n] # <<>>
  /\ Commands \subseteq ({"ping"} \X (Local \cup Far)) \cup ({"host", "lookup"} \X Names)
                          \cup {<<"dhcp", Gw>>}

VARIABLES
  cache,   \* arp_cache: slot -> <<address, MAC>>
  cfg,     \* g_net_ip, g_net_gw, g_net_dns
  udp,     \* the one UDP listener: [port, data]
  echo,    \* g_ping_seq and g_ping_got
  call,    \* the command in progress
  calls,   \* commands begun so far
  result,  \* how the last one ended
  ring,    \* frames received by the card and not yet read
  asked,   \* questions on the wire, answered or not
  mac      \* the MAC of each host

netVars == <<cache, cfg, udp, echo, call, calls, result, ring, asked, mac>>

None == "none"
Empty == <<None, 0>>
\* No frame.  Frames carry the command that asked, for the properties only.
Silence == [kind |-> None, from |-> None, id |-> 0, mac |-> 0, call |-> 0]
Slots == 1 .. CacheSize
DnsPort == 5353
DhcpPort == 68
NoCall == [cmd |-> <<None, None>>, at |-> "idle", to |-> None, tries |-> 0, age |-> 0,
           list |-> <<>>, offer |-> None, i |-> 0, best |-> 0, rtt |-> 0, late |-> FALSE]
NoResult == [cmd |-> <<None, None>>, ok |-> FALSE, got |-> None, call |-> 0, late |-> FALSE]

NetInit ==
  /\ cache = [s \in Slots |-> Empty]
  /\ cfg = [ip |-> OwnIp, gw |-> Gw, dns |-> Dns]
  /\ udp = [port |-> 0, data |-> Silence]
  /\ echo = [seq |-> 0, got |-> Silence]
  /\ call = NoCall /\ calls = 0 /\ result = NoResult
  /\ ring = <<>> /\ asked = {}
  /\ mac = [h \in Local |-> 1]

-----------------------------------------------------------------------------
(* The ARP cache. *)

Holds(s, ip) == cache[s] # Empty /\ cache[s][1] = ip
Known(c, ip) == \E s \in Slots : c[s] # Empty /\ c[s][1] = ip
\* arp_cache_lookup: the first entry for the address.
Lookup(c, ip) ==
  c[CHOOSE s \in Slots : /\ c[s] # Empty /\ c[s][1] = ip
                         /\ \A r \in 1 .. s - 1 : c[r] = Empty \/ c[r][1] # ip][2]
\* Mutant of Place: a known address gets a second entry.
PlaceNew(ip) ==
  LET free == {s \in Slots : cache[s] = Empty}
  IN  IF free = {} THEN 1 ELSE CHOOSE s \in free : \A r \in free : s <= r
\* arp_cache_insert: the entry for the address, else the first free one, else
\* the first of all.
Place(ip) ==
  LET same == {s \in Slots : Holds(s, ip)}
      free == {s \in Slots : cache[s] = Empty}
      least(S) == CHOOSE s \in S : \A r \in S : s <= r
  IN  IF same # {} THEN least(same) ELSE IF free # {} THEN least(free) ELSE 1
Learned(f) == [cache EXCEPT ![Place(f.from)] = <<f.from, f.mac>>]

\* Addresses off the subnet are reached through the gateway.
Hop(dst) == IF dst \in Local THEN dst ELSE cfg.gw

-----------------------------------------------------------------------------
(* Frames.                                                                 *)

\* A question is written as the frame that answers it.
Question(kind, to, id) == [kind |-> kind, from |-> to, id |-> id, mac |-> 0,
                           call |-> IF kind = "arp" THEN 0 ELSE calls]
Ask(kind, to, id) == asked' = asked \cup {Question(kind, to, id)}
\* arp_send_request, and dhcp_send_raw with the packet of dhcp_build_pkt: both
\* are broadcast and need no address; the xid is the tick count, new each time.
AskArp(ip) == Ask("arp", ip, 0)
AskDhcp(kind, ip) == Ask(kind, ip, calls)

\* net_recv: ARP to arp_recv; an echo reply that matches the ping that is
\* waited for; a datagram for the listener's port, over the one before.
Datagrams == {"dns", "offer", "ack", "nak"}
PortOf(f) == IF f.kind = "dns" THEN DnsPort ELSE DhcpPort
Heard(f) == IF f.kind = "arp" THEN Learned(f) ELSE cache
Echoed(f) == IF f.kind = "echo" /\ f.id = echo.seq THEN [echo EXCEPT !.got = f] ELSE echo
Delivered(f) == IF f.kind \in Datagrams /\ udp.port = PortOf(f)
                THEN [udp EXCEPT !.data = f] ELSE udp

\* e1000_recv of a polling loop: the first frame in the card (take = 1) or none.
Read(take) == take <= Len(ring) /\ ring' = SubSeq(ring, take + 1, Len(ring))
Frame(take) == IF take = 1 THEN Head(ring) ELSE Silence
\* Has this command met the answer to an earlier one on the wire?
Late(f) == call.late \/ (f.kind \in {"echo", "dns"} /\ f.call < calls)

UdpOpen(port) == udp' = [port |-> port, data |-> Silence]
UdpClose == UdpOpen(0)

-----------------------------------------------------------------------------
(* Ends of commands, and the steps between two waits. *)

Finish(ok, got, late) ==
  /\ call' = NoCall
  /\ result' = [cmd |-> call.cmd, ok |-> ok, got |-> got, call |-> calls, late |-> late]

\* arp_resolve begins: nothing to do when the address is known.
StartArp(c, dst) ==
  /\ call' = [c EXCEPT !.at = "arp", !.to = Hop(dst), !.tries = 1, !.age = 0]
  /\ AskArp(Hop(dst))

\* icmp_ping, after its address is resolved: armed before it is sent.
SendEcho(c, dst, seq) ==
  /\ echo' = [seq |-> seq, got |-> Silence]
  /\ Ask("echo", dst, seq)
  /\ call' = [c EXCEPT !.at = "echo", !.age = 0]
PingFrom(c, dst, seq) ==
  IF Known(cache, Hop(dst)) THEN SendEcho(c, dst, seq)
  ELSE StartArp(c, dst) /\ UNCHANGED echo
SendQuery(c) ==
  /\ Ask("dns", c.cmd[2], 0)
  /\ call' = [c EXCEPT !.at = "dns", !.age = 0]

Asking == call.cmd[1] \in {"host", "lookup"} /\ call.list = <<>>
\* The command line is taken; resolve_host asks the name server first.
Begin(cmd) ==
  /\ call.at = "idle" /\ calls < MaxCalls
  /\ calls' = calls + 1
  /\ result' = NoResult
  /\ LET c == [NoCall EXCEPT !.cmd = cmd] IN
     \/ /\ cmd[1] = "ping"
        /\ call' = [c EXCEPT !.at = "ping", !.list = <<cmd[2]>>, !.i = 1]
        /\ UNCHANGED udp
     \/ /\ cmd[1] \in {"host", "lookup"}
        /\ call' = [c EXCEPT !.at = "query"]
        /\ UdpOpen(DnsPort)
     \/ /\ cmd[1] = "dhcp"
        /\ call' = [c EXCEPT !.at = "discover"]
        /\ UdpOpen(DhcpPort)
  /\ UNCHANGED <<cache, cfg, echo, ring, asked, mac>>

Ping ==
  /\ call.at = "ping"
  /\ PingFrom(call, call.list[call.i], call.i)
  /\ UNCHANGED <<cache, cfg, udp, calls, result, ring, mac>>
Query ==
  /\ call.at = "query"
  /\ IF Known(cache, cfg.dns) THEN SendQuery(call) ELSE StartArp(call, cfg.dns)
  /\ UNCHANGED <<cache, cfg, udp, echo, calls, result, ring, mac>>
Discover ==
  /\ call.at = "discover"
  /\ AskDhcp("offer", OwnIp)
  /\ call' = [call EXCEPT !.at = "offer", !.age = 0]
  /\ UNCHANGED <<cache, cfg, udp, echo, calls, result, ring, mac>>

\* What the command does once the address is there.
Resolved ==
  \/ /\ call.cmd[1] = "dhcp" /\ Finish(TRUE, cfg.ip, call.late)
     /\ UNCHANGED <<echo, asked>>
  \/ /\ call.list # <<>> /\ SendEcho(call, call.list[call.i], call.i)
     /\ UNCHANGED result
  \/ /\ Asking /\ SendQuery(call)
     /\ UNCHANGED <<echo, result>>

\* resolve_host goes through the addresses; a host that did not answer is
\* never better than one that did.
Better(rtt) == call.best = 0 \/ rtt < call.rtt
NextProbe(c, late) ==
  IF c.i < Len(c.list)
  THEN call' = [c EXCEPT !.at = "ping", !.i = @ + 1, !.late = late] /\ UNCHANGED result
  ELSE Finish(TRUE, c.list[IF c.best = 0 THEN 1 ELSE c.best], late)
\* The end of icmp_ping, for cmd_ping and for a probe of resolve_host.
PingAnswered(host, late) ==
  IF call.cmd[1] = "ping" THEN Finish(TRUE, host, late)
  ELSE NextProbe(IF Better(call.age) THEN [call EXCEPT !.best = call.i, !.rtt = call.age]
                 ELSE call, late)
NoAnswer(late) ==
  IF call.cmd[1] = "ping" THEN Finish(FALSE, None, late) ELSE NextProbe(call, late)
\* The name server's answer: nslookup shows it, and resolve_host uses one
\* address as it is and probes more.
Addresses(name, late) ==
  IF call.cmd[1] = "lookup" \/ Len(Addrs[name]) = 1 THEN Finish(TRUE, Addrs[name][1], late)
  ELSE /\ call' = [call EXCEPT !.at = "ping", !.list = Addrs[name], !.i = 1, !.late = late]
       /\ UNCHANGED result
\* Mutant of OwnAck: the transaction id is not compared.
OwnAckAny(d) == d.kind = "ack"
\* dhcp_discover takes the ACK of its own exchange only.
OwnAck(d) == d.kind = "ack" /\ d.id = calls

\* After three attempts without an answer.
ArpFails ==
  /\ \/ call.cmd[1] = "dhcp" /\ Finish(TRUE, cfg.ip, call.late) /\ UNCHANGED udp
     \/ call.list # <<>> /\ NoAnswer(call.late) /\ UNCHANGED udp
     \/ Asking /\ UdpClose
        /\ Finish(FALSE, None, call.late)
  /\ UNCHANGED asked

-----------------------------------------------------------------------------
(* The polling loops.  Each looks at the clock far more often than once a     *)
(* second, so no second passes that it has not counted.                      *)

Limit == CASE call.at = "arp" -> 1 [] call.at = "echo" -> EchoTime
           [] call.at = "dns" -> DnsTime [] OTHER -> DhcpTime
TimeOver == call.age >= Limit

\* arp_resolve reads the card itself and drops everything that is not ARP.
ArpPoll ==
  /\ call.at = "arp"
  /\ \E take \in {0, 1} :
       /\ Read(take)
       /\ cache' = Heard(Frame(take))
  /\ LET found == Known(cache', call.to) IN
     \/ found /\ Resolved /\ UNCHANGED udp
     \/ ~found /\ ~TimeOver /\ UNCHANGED <<udp, echo, call, result, asked>>
     \/ /\ ~found /\ TimeOver /\ call.tries < ArpTries
        /\ call' = [call EXCEPT !.tries = @ + 1, !.age = 0]
        /\ AskArp(call.to)
        /\ UNCHANGED <<udp, echo, result>>
     \/ ~found /\ TimeOver /\ call.tries = ArpTries /\ ArpFails /\ UNCHANGED echo
  /\ UNCHANGED <<cfg, calls, mac>>

EchoPoll ==
  /\ call.at = "echo"
  /\ \E take \in {0, 1} : LET f == Frame(take)  reply == Echoed(f).got IN
       /\ Read(take) /\ cache' = Heard(f) /\ echo' = Echoed(f) /\ udp' = Delivered(f)
       /\ \/ reply # Silence /\ PingAnswered(reply.from, Late(f))
          \/ reply = Silence /\ TimeOver /\ NoAnswer(Late(f))
          \/ /\ reply = Silence /\ ~TimeOver
             /\ call' = [call EXCEPT !.late = Late(f)] /\ UNCHANGED result
  /\ UNCHANGED <<cfg, calls, asked, mac>>

\* The loops that wait for a datagram; udp_recv takes it out of the buffer.
DnsPoll ==
  /\ call.at = "dns"
  /\ \E take \in {0, 1} : LET f == Frame(take)  d == Delivered(f).data IN
       /\ Read(take) /\ cache' = Heard(f) /\ echo' = Echoed(f)
       /\ \/ /\ d = Silence /\ ~TimeOver
             /\ call' = [call EXCEPT !.late = Late(f)] /\ UNCHANGED <<udp, result>>
          \/ d = Silence /\ TimeOver /\ UdpClose /\ Finish(FALSE, None, Late(f))
          \/ d # Silence /\ UdpClose /\ Addresses(d.from, Late(f))
  /\ UNCHANGED <<cfg, calls, asked, mac>>

OfferPoll ==
  /\ call.at = "offer"
  /\ \E take \in {0, 1} : LET f == Frame(take)  d == Delivered(f).data IN
       /\ Read(take) /\ cache' = Heard(f) /\ echo' = Echoed(f)
       /\ \/ d = Silence /\ ~TimeOver /\ UNCHANGED <<udp, call, result, asked>>
          \/ /\ d # Silence /\ d.kind = "offer" /\ d.id = calls
             /\ udp' = [udp EXCEPT !.data = Silence]
             /\ AskDhcp("ack", d.from)
             /\ call' = [call EXCEPT !.at = "ack", !.age = 0, !.offer = d.from] /\ UNCHANGED result
          \/ /\ IF d = Silence THEN TimeOver ELSE d.kind # "offer" \/ d.id # calls
             /\ UdpClose /\ Finish(FALSE, None, FALSE) /\ UNCHANGED asked
  /\ UNCHANGED <<cfg, calls, mac>>

\* The configuration is committed; arp_resolve of the gateway follows.
AckPoll ==
  /\ call.at = "ack"
  /\ \E take \in {0, 1} : LET f == Frame(take)  d == Delivered(f).data IN
       /\ Read(take) /\ cache' = Heard(f) /\ echo' = Echoed(f)
       /\ \/ d = Silence /\ ~TimeOver /\ UNCHANGED <<udp, call, result, cfg>>
          \/ /\ d # Silence /\ OwnAck(d)
             /\ cfg' = [cfg EXCEPT !.ip = d.from]
             /\ UdpClose /\ call' = [call EXCEPT !.at = "warm"] /\ UNCHANGED result
          \/ /\ IF d = Silence THEN TimeOver ELSE ~OwnAck(d)
             /\ UdpClose /\ Finish(FALSE, None, FALSE) /\ UNCHANGED cfg
  /\ UNCHANGED <<calls, asked, mac>>
Warm ==
  /\ call.at = "warm"
  /\ IF Known(cache, cfg.gw) THEN Finish(TRUE, cfg.ip, FALSE) /\ UNCHANGED asked
     ELSE StartArp(call, cfg.gw) /\ UNCHANGED result
  /\ UNCHANGED <<cache, cfg, udp, echo, calls, ring, mac>>

\* The desktop exits and kills the task that runs the command: nothing is closed.
KillCommand ==
  /\ call.at # "idle"
  /\ call' = NoCall
  /\ UNCHANGED <<cache, cfg, udp, echo, calls, result, ring, asked, mac>>

Second ==
  /\ call.at \in {"arp", "echo", "dns", "offer", "ack"}
  /\ call.age < Limit
  /\ call' = [call EXCEPT !.age = @ + 1]
  /\ UNCHANGED <<cache, cfg, udp, echo, calls, result, ring, asked, mac>>

-----------------------------------------------------------------------------
(* The other hosts. *)

\* After the last command of the behaviour nothing reads the card any more.
Arrive(f) ==
  /\ Len(ring) < MaxRing /\ (call.at # "idle" \/ calls < MaxCalls)
  /\ ring' = Append(ring, f)
\* The answer to a question; all but ARP requests may be answered again.
HostReplies ==
  /\ \E q \in asked, again \in BOOLEAN :
       /\ again => q.kind # "arp"
       /\ \/ q.kind = "arp" /\ Arrive([q EXCEPT !.mac = mac[q.from]])
          \/ q.kind \in {"echo", "dns", "ack"} /\ Arrive(q)
          \/ q.kind = "offer" /\ \E ip \in Leases : Arrive([q EXCEPT !.from = ip])
          \/ q.kind = "ack" /\ Arrive([q EXCEPT !.kind = "nak"])
       /\ asked' = IF again THEN asked ELSE asked \ {q}
  /\ UNCHANGED <<cache, cfg, udp, echo, call, calls, result, mac>>
\* An address that we know moves to another card, and the host announces it.
Move ==
  /\ \E h \in Local \ {Gw, Dns} :
       /\ Known(cache, h) /\ mac[h] = 1 /\ mac' = [mac EXCEPT ![h] = 2]
       /\ Arrive([Silence EXCEPT !.kind = "arp", !.from = h, !.mac = 2])
  /\ UNCHANGED <<cache, cfg, udp, echo, call, calls, result, asked>>

Command == Ping \/ Query \/ Discover \/ Warm
Polling == ArpPoll \/ EchoPoll \/ DnsPoll \/ OfferPoll \/ AckPoll
NetNext ==
  \/ \E cmd \in Commands : Begin(cmd)
  \/ Command \/ Polling \/ KillCommand \/ Second \/ HostReplies \/ Move

NetSpec == NetInit /\ [][NetNext]_netVars
           /\ WF_netVars(Command \/ Polling) /\ WF_netVars(Second)

-----------------------------------------------------------------------------
(* Properties. *)

\* The fields keep their types; nobody listens on an unknown port.
NetTypeOK ==
  /\ \A s \in Slots : cache[s] # Empty => cache[s][1] \in Local /\ cache[s][2] \in 1 .. 2
  /\ cfg \in [ip : {OwnIp} \cup Leases, gw : Local, dns : Local]
  /\ udp.port \in {0, DnsPort, DhcpPort}
  /\ udp.data # Silence => PortOf(udp.data) = udp.port
  /\ call.at \in {"idle", "ping", "query", "discover", "warm", "arp", "echo", "dns", "offer", "ack"}
  /\ call.at = "arp" => call.to \in Local /\ call.tries \in 1 .. ArpTries
  /\ call.i <= Len(call.list) /\ call.best <= call.i
  /\ Len(ring) <= MaxRing

\* An answer is used for the question it answers.  A lease is always one the
\* server offered and acknowledged in this exchange (dhcp.c:206: the xid).  A name's
\* address, or the host that answered a ping, can be another question's only
\* when an answer to an earlier command came in while this one waited: the
\* transaction id and the ping's sequence numbers are the same each time
\* (dns.c:20, shell.c:1845).
AnswerOwn ==
  /\ NetTypeOK
  /\ call.at = "warm" => cfg.ip = call.offer
  /\ result.ok /\ ~result.late =>
       CASE result.cmd[1] = "dhcp" -> result.got = cfg.ip
         [] result.cmd[1] = "ping" -> result.got = result.cmd[2]
         [] OTHER -> result.got \in ToSet(Addrs[result.cmd[2]])

\* After an ARP packet from an address is read, that address resolves to the
\* MAC of that packet, whatever the cache held and evicted before
\* (arp_cache_insert against arp_cache_lookup, arp.c:22 and 34).
CacheFresh ==
  [][ring # <<>> /\ ring' = Tail(ring) /\ Head(ring).kind = "arp"
       => Lookup(cache', Head(ring).from) = Head(ring).mac]_netVars

\* Every command comes to an end whatever is answered (the tick counts in
\* arp_resolve, icmp_ping, dns_resolve_all and dhcp_wait).
CommandsEnd == (call.at # "idle") ~> (call.at = "idle")

=============================================================================
