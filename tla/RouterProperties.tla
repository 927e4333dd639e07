-------------------------- MODULE RouterProperties --------------------------
(***************************************************************************)
(* What the routers promise: each property states what could go wrong in    *)
(* the forwarding loop.                                                     *)
(***************************************************************************)
EXTENDS Router

Waiting == UNION {UNION {{inq[r][i][k] : k \in DOMAIN inq[r][i]} : i \in Interfaces}
                    : r \in Routers}
InFlight == Waiting \union UNION {received[h] : h \in Hosts}

TypeOK ==
  /\ inq \in [Routers -> [Interfaces -> Seq(Frames)]]
  /\ status \in [Routers -> {"running", "crashed", "exited"}]
  /\ sent \subseteq HostFrames
  /\ received \in [Hosts -> SUBSET Frames]

(* A frame is a router's work when a router made it or forwarded it. *)
ByRouter(f) == f.source \in Routers \/ f.path # <<>>

(* Every header that a router sends verifies at the next hop, whatever the  *)
(* header it received: the ttl it decrements and the checksum it computes   *)
(* anew, at either alignment, agree (router.c:150-152, skel.c:258), and so  *)
(* does the checksum of its ICMP answers (skel.c:260).                      *)
ChecksumsValid ==
  \A f \in InFlight : ByRouter(f) =>
    /\ Valid(f)
    /\ f.source \in Routers => icmp_checksum(f.icmp) = 0

(* Each hop costs one: a packet leaves with its first ttl less the          *)
(* interfaces it was forwarded on, and never with 0, so that no packet is   *)
(* forwarded for ever (router.c:135-151).                                   *)
TtlPaid ==
  \A f \in InFlight :
    /\ ttl(f.ip) + Len(f.path) = f.first
    /\ f.path # <<>> => ttl(f.ip) >= 1

(* A packet was last forwarded by a route with the longest prefix of all    *)
(* that match its destination: the masks compared as little-endian numbers  *)
(* are ordered by their lengths (router.c:77).                              *)
PrefixLength(e) == Cardinality({b \in Positions : Bit(e.mask, b) = 1})
BestHop(hop, a) ==
  LET t == rtable[hop[1]]
      matching == {k \in DOMAIN t : Matches(t[k], a)}
  IN  \E k \in matching :
        /\ t[k].interface = hop[2]
        /\ \A l \in matching : PrefixLength(t[l]) <= PrefixLength(t[k])
LongestPrefixUsed ==
  \A f \in InFlight : f.path # <<>> => BestHop(f.path[Len(f.path)], daddr(f.ip))

-----------------------------------------------------------------------------
AllRunning == \A r \in Routers : status[r] = "running"

RouterIps == {InterfaceIp[r][i] : r \in Routers, i \in Interfaces}
(* No host writes to the address of a router's interface that is not the    *)
(* one its packets arrive on: the answer to such a packet may circulate.    *)
NoRemotePing ==
  \A f \in sent : daddr(f.ip) \in RouterIps =>
    daddr(f.ip) = InterfaceIp[Attachment[f.source][1]][Attachment[f.source][2]]

(* A packet to a host of the network, with a good checksum and the ttl for  *)
(* the two routers, reaches that host for as long as the routers run and no *)
(* answer circulates: no packet ahead of it on its links stays there.       *)
Deliverable(f) ==
  /\ f.ether = "IP" /\ Valid(f) /\ ttl(f.ip) > Cardinality(Routers)
  /\ \E h \in Hosts : daddr(f.ip) = HostIp[h]
Arrived(f) ==
  \E h \in Hosts : /\ daddr(f.ip) = HostIp[h]
                    /\ \E g \in received[h] : g.icmp = f.icmp /\ g.source = f.source
Delivered ==
  [](AllRunning /\ NoRemotePing) => <>[](\A f \in sent : Deliverable(f) => Arrived(f))

(* The answers to bad packets beget no further ones: the links fall silent. *)
FallSilent == [](AllRunning /\ NoRemotePing) => <>[](Waiting = {})

(* README and the comments at router.c:123-127: an echo request is answered *)
(* by an echo reply (to the host that sent it).                             *)
EchoAnswered ==
  \A f \in HostFrames :
    (f \in sent /\ Valid(f) /\ IsIcmp(f) /\ EchoRequest(f)
       /\ daddr(f.ip) = InterfaceIp[Attachment[f.source][1]][Attachment[f.source][2]])
      ~> (\E g \in received[f.source] : IsIcmp(g) /\ type(g.icmp) = ECHOREPLY)
=============================================================================
