------------------------------- MODULE Router -------------------------------
(***************************************************************************)
(* The forwarding loop of the routers (router.c: main, with the packet I/O  *)
(* and the ICMP answers of skel.c), for a network of routers and hosts.     *)
(*                                                                         *)
(* One turn of the loop is one step: a router reads the first packet of its *)
(* lowest ready interface and forwards it, answers it or drops it.  Links   *)
(* are queues that lose nothing.  A router reads whatever arrives, to any   *)
(* MAC address; a host's stack takes what bears its own MAC and IP address. *)
(***************************************************************************)
EXTENDS Checksum, Sequences, FiniteSets

CONSTANTS
  Routers, Hosts,
  rtable,        \* router -> sequence of [prefix, mask, interface]
  arp_table,     \* the addresses that have an entry -> MAC address
  InterfaceIp,   \* router -> interface -> address
  InterfaceMac,
  Link,          \* router -> interface -> <<router, interface>> or <<host, 0>>
  HostIp, HostMac,
  HostFrames,    \* the frames that hosts may send
  Attachment,    \* host -> <<router, interface>>
  Byte,          \* the number of values of a byte
  ByteBits,      \* the number of bits of a byte
  FirstWord,     \* version, header length and type of service of a new header
  FreshTtl,      \* the ttl of a new packet: 64 in the code
  MaxSent        \* bound: frames that the hosts send

VARIABLES
  inq,           \* router -> interface -> the frames that wait on it
  status,        \* router -> "running", "crashed" or "exited"
  sent,          \* the frames that the hosts sent
  received       \* host -> the frames that its stack took

vars == <<inq, status, sent, received>>

ROUTER_NUM_INTERFACES == 3
Interfaces == 0 .. ROUTER_NUM_INTERFACES - 1
IPPROTO_ICMP == 1
Addresses == Words \X Words
Macs == {HostMac[h] : h \in Hosts} \union {InterfaceMac[r][i] : r \in Routers, i \in Interfaces}

ASSUME RoutersOK ==
  /\ Byte \in Nat /\ Byte >= 16
  /\ Word = Byte * Byte /\ FirstWord \in Words
  /\ FreshTtl \in 2 .. Byte - 1
  /\ arp_table \in [DOMAIN arp_table -> Macs]
  /\ InterfaceMac \in [Routers -> [Interfaces -> Macs]]
  /\ Link \in [Routers -> [Interfaces -> (Hosts \union Routers) \X Interfaces]]
  /\ Hosts \intersect Routers = {}
  /\ Attachment \in [Hosts -> Routers \X Interfaces]
  /\ HostMac \in [Hosts -> Macs]

-----------------------------------------------------------------------------
(* Headers and frames *)

ttl(h) == h[5] \div Byte
protocol(h) == h[5] % Byte
daddr(h) == <<h[9], h[10]>>
type(m) == m[1] \div Byte

ECHOREPLY == 0
UNREACHABLE == 3
ECHO == 8
TIME_EXCEEDED == 11

(* Each frame carries its history: the one who made it, the ttl it had then *)
(* and the interfaces it was forwarded on.                                  *)
Frames ==
  [ether : {"IP", "ARP"}, shost : Macs, dhost : Macs, ip : Header, icmp : Message,
   source : Hosts \union Routers, first : 0 .. Byte - 1,
   path : Seq(Routers \X Interfaces)]

ASSUME HostFramesOK ==
  /\ HostFrames \subseteq Frames
  /\ \A f \in HostFrames : f.source \in Hosts /\ f.first = ttl(f.ip) /\ f.path = <<>>

(* skel.c: parse_icmp returns NULL otherwise. *)
IsIcmp(f) == f.ether = "IP" /\ protocol(f.ip) = IPPROTO_ICMP

WithCheck_Stale(h, offset) ==                   \* mutant: check not zeroed
  [h EXCEPT ![HeaderCheck] = ip_checksum(h, offset)]
WithCheck(h, offset) ==
  LET h0 == [h EXCEPT ![HeaderCheck] = 0]
  IN  [h0 EXCEPT ![HeaderCheck] = ip_checksum(h0, offset)]

(* An ICMP answer goes to the destination of the packet it answers, from    *)
(* its source, and keeps its MAC addresses.                                 *)
IcmpAnswer(r, f, m) ==
  [ether |-> "IP", shost |-> f.shost, dhost |-> f.dhost,
   ip |-> WithCheck(<<FirstWord, 28, 1, 0, FreshTtl * Byte + IPPROTO_ICMP, 0,
                      f.ip[7], f.ip[8], f.ip[9], f.ip[10]>>, Fresh),
   icmp |-> [m EXCEPT ![MessageCheck] = icmp_checksum(m)],
   source |-> r, first |-> FreshTtl, path |-> <<>>]

send_icmp(r, f) == IcmpAnswer(r, f, <<ECHOREPLY * Byte, 0, f.ip[3], f.ip[3]>>)
send_icmp_error(r, f, t) == IcmpAnswer(r, f, <<t * Byte, 0, 0, 0>>)

-----------------------------------------------------------------------------
(* The tables *)

ByteOf(a, k) == IF k % 2 = 0 THEN a[1 + k \div 2] \div Byte ELSE a[1 + k \div 2] % Byte
ByteBit(x, c) == (x \div 2 ^ (ByteBits - 1 - c)) % 2
Positions == 0 .. 4 * ByteBits - 1
Bit(a, b) == ByteBit(ByteOf(a, b \div ByteBits), b % ByteBits)

(* (mask & address) == prefix, byte by byte. *)
And == [x, y \in 0 .. Byte - 1 |-> CHOOSE z \in 0 .. Byte - 1 :
          \A c \in 0 .. ByteBits - 1 : ByteBit(z, c) = ByteBit(x, c) * ByteBit(y, c)]
Matches(e, a) ==
  \A k \in 0 .. 3 : And[ByteOf(e.mask, k), ByteOf(a, k)] = ByteOf(e.prefix, k)

(* The number that the machine reads from an address in network order. *)
LittleEndian(a) ==
  ByteOf(a, 0) + Byte * ByteOf(a, 1) + Word * ByteOf(a, 2) + Word * Byte * ByteOf(a, 3)

(* The masks of a table are prefix masks: n bits set and then none.         *)
PrefixMask(m) == \E n \in 0 .. 4 * ByteBits :
  \A b \in Positions : Bit(m, b) = IF b < n THEN 1 ELSE 0
ASSUME TablesOK ==
  /\ rtable \in [Routers -> Seq([prefix : Addresses, mask : Addresses, interface : Nat])]
  /\ \A r \in Routers : \A k \in DOMAIN rtable[r] : PrefixMask(rtable[r][k].mask)

(* The last line is arithmetic that the provers do not know.                *)
ASSUME BytesOK ==
  /\ ByteBits \in Nat /\ Byte = 2 ^ ByteBits
  /\ \A n \in 0 .. ByteBits : 2 ^ n \in Nat /\ 2 ^ (n + 1) = 2 * 2 ^ n

(* The entry with the greatest mask of those that match, the first one of   *)
(* equals, or none.                                                         *)
Precedes_Never(e, f) == FALSE                    \* mutant: the first match
Precedes(e, f) == LittleEndian(e.mask) > LittleEndian(f.mask)
NoRoute == 0
get_best_route(r, a) ==
  LET t == rtable[r]
      matching == {k \in DOMAIN t : Matches(t[k], a)}
      Best(k) == /\ Matches(t[k], a)
                 /\ \A l \in DOMAIN t :
                      Precedes(t[l], t[k]) \/ (l < k /\ ~Precedes(t[k], t[l]))
                        => ~Matches(t[l], a)
  IN  IF \A k \in DOMAIN t : ~Matches(t[k], a) THEN NoRoute
      ELSE CHOOSE k \in DOMAIN t : Best(k)

-----------------------------------------------------------------------------
(* Packet I/O *)

(* skel.c: get_packet takes a packet from the lowest interface with one. *)
Ready(r) == {i \in Interfaces : inq[r][i] # <<>>}
Arrival(r) == {i \in Ready(r) : \A j \in Ready(r) : i <= j}
Rest(r, i) == [inq EXCEPT ![r][i] = Tail(@)]

Accepts(h, f) == f.ether = "IP" /\ f.dhost = HostMac[h] /\ daddr(f.ip) = HostIp[h]

(* Interface i of router r gave a packet and interface out sends g: what    *)
(* send_packet (skel.c) writes, and what is at the other end of the link.   *)
send_packet(r, i, out, g) ==
  LET peer == Link[r][out]
  IN  IF peer[1] \in Hosts
      THEN /\ inq' = Rest(r, i)
           /\ received' = IF Accepts(peer[1], g)
                          THEN [received EXCEPT ![peer[1]] = @ \union {g}]
                          ELSE received
      ELSE /\ inq' = [Rest(r, i) EXCEPT ![peer[1]][peer[2]] = Append(@, g)]
           /\ UNCHANGED received

Drop(r, i) == inq' = Rest(r, i) /\ UNCHANGED received

-----------------------------------------------------------------------------
(* The loop of main: router r and the packet f that interface i gave *)

Valid(f) == ip_checksum(f.ip, Received) = 0
ForInterface(r, i, f) == daddr(f.ip) = InterfaceIp[r][i]
EchoRequest(f) == type(f.icmp) = ECHO

(* The packet is one to forward: not an echo request to this interface. *)
InTransit(r, i, f) ==
  /\ Valid(f)
  /\ ForInterface(r, i, f) => IsIcmp(f) /\ ~EchoRequest(f)
best_route(r, f) == get_best_route(r, daddr(f.ip))
Routed_AnyTtl(r, i, f) ==                        \* mutant: ttl not tested
  InTransit(r, i, f) /\ best_route(r, f) # NoRoute
Routed_LastHop(r, i, f) ==                       \* mutant: ttl < 1 tested
  InTransit(r, i, f) /\ ttl(f.ip) >= 1 /\ best_route(r, f) # NoRoute
Routed(r, i, f) == InTransit(r, i, f) /\ ttl(f.ip) > 1 /\ best_route(r, f) # NoRoute
OutInterface_Uplink(r, f) == 0                   \* mutant: interface not set
OutInterface(r, f) == rtable[r][best_route(r, f)].interface
HasArpEntry(f) == daddr(f.ip) \in DOMAIN arp_table

HostSend(f) ==
  LET at == Attachment[f.source]
  IN  /\ f \notin sent /\ Cardinality(sent) < MaxSent
      /\ sent' = sent \union {f}
      /\ inq' = [inq EXCEPT ![at[1]][at[2]] = Append(@, f)]
      /\ UNCHANGED <<status, received>>

DropCorrupt(r, i, f) ==
  /\ ~Valid(f)
  /\ Drop(r, i)
  /\ UNCHANGED <<status, sent>>

(* icmp_hdr->type is read through a null pointer. *)
NullIcmp(r, i, f) ==
  /\ Valid(f)
  /\ ForInterface(r, i, f) /\ ~IsIcmp(f)
  /\ status' = [status EXCEPT ![r] = "crashed"]
  /\ Drop(r, i)
  /\ UNCHANGED sent

EchoReply(r, i, f) ==
  /\ Valid(f)
  /\ ForInterface(r, i, f) /\ IsIcmp(f) /\ EchoRequest(f)
  /\ send_packet(r, i, i, send_icmp(r, f))
  /\ UNCHANGED <<status, sent>>

TimeExceeded(r, i, f) ==
  /\ InTransit(r, i, f)
  /\ ttl(f.ip) <= 1
  /\ send_packet(r, i, i, send_icmp_error(r, f, TIME_EXCEEDED))
  /\ UNCHANGED <<status, sent>>

Unreachable(r, i, f) ==
  /\ InTransit(r, i, f) /\ ttl(f.ip) > 1
  /\ best_route(r, f) = NoRoute
  /\ send_packet(r, i, i, send_icmp_error(r, f, UNREACHABLE))
  /\ UNCHANGED <<status, sent>>

(* The new ttl and the new checksum go with the packet that is dropped. *)
NoArp(r, i, f) ==
  /\ Routed(r, i, f)
  /\ ~HasArpEntry(f)
  /\ Drop(r, i)
  /\ UNCHANGED <<status, sent>>

(* The ttl is one less and the checksum new. *)
NextHop(h) == WithCheck([h EXCEPT ![5] = h[5] - Byte], Received)

Forwarded_SameMac(r, f, out) ==                  \* mutant: ether_dhost kept
  [f EXCEPT !.ip = NextHop(f.ip),
            !.shost = InterfaceMac[r][out],
            !.path = Append(@, <<r, out>>)]
Forwarded(r, f, out) ==
  [f EXCEPT !.ip = NextHop(f.ip),
            !.dhost = arp_table[daddr(f.ip)],
            !.shost = InterfaceMac[r][out],
            !.path = Append(@, <<r, out>>)]

Forward(r, i, f) ==
  /\ Routed(r, i, f)
  /\ HasArpEntry(f)
  /\ \E out \in Interfaces :
       /\ out = OutInterface(r, f)
       /\ send_packet(r, i, out, Forwarded(r, f, out))
  /\ UNCHANGED <<status, sent>>

(* interfaces[] is read past its end: the write fails and DIE ends the      *)
(* router, or it reaches a descriptor that is no link and the packet is     *)
(* lost.                                                                    *)
WildInterface(r, i, f) ==
  /\ Routed(r, i, f)
  /\ HasArpEntry(f)
  /\ OutInterface(r, f) \notin Interfaces
  /\ \E s \in {"running", "exited"} : status' = [status EXCEPT ![r] = s]
  /\ Drop(r, i)
  /\ UNCHANGED sent

-----------------------------------------------------------------------------
Init ==
  /\ inq = [r \in Routers |-> [i \in Interfaces |-> <<>>]]
  /\ status = [r \in Routers |-> "running"]
  /\ sent = {}
  /\ received = [h \in Hosts |-> {}]

Turn(r) ==
  /\ status[r] = "running"
  /\ \E i \in Arrival(r) : \E f \in {Head(inq[r][i])} :
       \/ DropCorrupt(r, i, f)
       \/ NullIcmp(r, i, f)
       \/ EchoReply(r, i, f)
       \/ TimeExceeded(r, i, f)
       \/ Unreachable(r, i, f)
       \/ NoArp(r, i, f)
       \/ Forward(r, i, f)
       \/ WildInterface(r, i, f)

Next ==
  \/ \E f \in HostFrames : HostSend(f)
  \/ \E r \in Routers : Turn(r)

Spec == Init /\ [][Next]_vars

(* A router with a packet to read takes its turn: its loop waits for        *)
(* nothing else.                                                            *)
FairSpec == Spec /\ \A r \in Routers : WF_vars(Turn(r))
=============================================================================
