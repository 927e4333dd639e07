------------------------------ MODULE MCRouter ------------------------------
(***************************************************************************)
(* The network of topo.py for TLC: two routers, two hosts on each, with     *)
(* bytes of 16 values.  The tables are those of rtable0.txt, rtable1.txt    *)
(* and arp_table.txt, without most of their 64265 prefixes and with some    *)
(* that overlap.                                                            *)
(***************************************************************************)
EXTENDS RouterProperties, TLC

Ip(a, b, c, d) == <<16 * a + b, 16 * c + d>>
Entry(prefix, mask, i) == [prefix |-> prefix, mask |-> mask, interface |-> i]

MCHosts == {"h0", "h1", "h2", "h3"}
MCRouters == {"R0", "R1"}
MCHostIp == [h0 |-> Ip(12, 8, 0, 2), h1 |-> Ip(12, 8, 1, 2),
             h2 |-> Ip(12, 8, 2, 2), h3 |-> Ip(12, 8, 3, 2)]
MCHostMac == [h \in MCHosts |-> h]
MCInterfaceIp ==
  [R0 |-> (0 :> Ip(12, 0, 1, 1) @@ 1 :> Ip(12, 8, 0, 1) @@ 2 :> Ip(12, 8, 1, 1)),
   R1 |-> (0 :> Ip(12, 0, 1, 2) @@ 1 :> Ip(12, 8, 2, 1) @@ 2 :> Ip(12, 8, 3, 1))]
MCInterfaceMac ==
  [R0 |-> (0 :> "R0.0" @@ 1 :> "R0.1" @@ 2 :> "R0.2"),
   R1 |-> (0 :> "R1.0" @@ 1 :> "R1.1" @@ 2 :> "R1.2")]
MCLink ==
  [R0 |-> (0 :> <<"R1", 0>> @@ 1 :> <<"h0", 0>> @@ 2 :> <<"h1", 0>>),
   R1 |-> (0 :> <<"R0", 0>> @@ 1 :> <<"h2", 0>> @@ 2 :> <<"h3", 0>>)]
MCAttachment == [h0 |-> <<"R0", 1>>, h1 |-> <<"R0", 2>>, h2 |-> <<"R1", 1>>, h3 |-> <<"R1", 2>>]

M4 == Ip(15, 0, 0, 0)
M8 == Ip(15, 15, 0, 0)
M12 == Ip(15, 15, 15, 0)
M13 == Ip(15, 15, 15, 8)
M16 == Ip(15, 15, 15, 15)
Tables ==
  [R0 |-> << Entry(Ip(12, 0, 0, 0), M4, 0), Entry(Ip(12, 8, 2, 0), M13, 0),
             Entry(Ip(12, 8, 2, 0), M12, 1), Entry(Ip(12, 8, 0, 0), M12, 1),
             Entry(Ip(12, 8, 1, 0), M12, 2), Entry(Ip(12, 8, 3, 0), M12, 0),
             Entry(Ip(12, 0, 1, 2), M16, 0), Entry(Ip(11, 1, 4, 0), M12, 3) >>,
   R1 |-> << Entry(Ip(12, 8, 0, 0), M8, 0), Entry(Ip(12, 8, 2, 0), M12, 1),
             Entry(Ip(12, 8, 3, 0), M12, 2), Entry(Ip(12, 8, 0, 0), M12, 0),
             Entry(Ip(12, 8, 1, 0), M12, 0), Entry(Ip(12, 0, 1, 1), M16, 0) >>]
Neighbours ==
  [a \in {MCHostIp[h] : h \in MCHosts} |-> CHOOSE h \in MCHosts : MCHostIp[h] = a]
    @@ Ip(12, 0, 1, 1) :> "R0.0" @@ Ip(12, 0, 1, 2) :> "R1.0" @@ Ip(11, 1, 4, 2) :> "h1"

IpHeader(proto, t, from, to) ==
  WithCheck(<<69, 28, 9, 0, 16 * t + proto, 0>> \o from \o to, Received)
Frame(h, header, kind) ==
  [ether |-> "IP", shost |-> MCHostMac[h], ip |-> header, icmp |-> <<16 * kind, 7, 9, 9>>,
   dhost |-> MCInterfaceMac[MCAttachment[h][1]][MCAttachment[h][2]],
   source |-> h, first |-> ttl(header), path |-> <<>>]
Ping(h, t, to) == Frame(h, IpHeader(IPPROTO_ICMP, t, MCHostIp[h], to), ECHO)

Nowhere == Ip(8, 8, 8, 8)
Silent == Ip(12, 8, 0, 3)   \* a host without an ARP entry
Wild == Ip(11, 1, 4, 2)     \* a prefix of the shipped tables: interface 3

(* Packets that cross the network or stay on one router, one for a single   *)
(* hop, one that is damaged, and the addresses the tables do not know.      *)
Traffic ==
  { Ping("h0", 9, MCHostIp["h2"]), Ping("h0", 2, MCHostIp["h2"]),
    Ping("h0", 1, MCHostIp["h2"]),
    Ping("h3", 7, MCHostIp["h0"]), Ping("h1", 3, MCHostIp["h0"]),
    Ping("h0", 9, Nowhere), Ping("h2", 9, Silent),
    [Ping("h0", 9, MCHostIp["h2"]) EXCEPT !.ip[4] = 1],
    Ping("h0", 9, MCInterfaceIp["R0"][1]) }
(* Packets that end a router or set an answer circulating. *)
Unlucky ==
  { Ping("h0", 9, Wild), Ping("h0", 9, MCInterfaceIp["R1"][0]),
    Frame("h1", IpHeader(6, 9, MCHostIp["h1"], MCInterfaceIp["R0"][2]), 0) }

AnyTraffic == Traffic \union Unlucky
OwnPing == {Ping("h0", 9, MCInterfaceIp["R0"][1])}

(* TLC evaluates the definition a constant is given whenever it reads the   *)
(* constant, and Tables, Neighbours and the sets above once.                *)
MCrtable == Tables
MCarp_table == Neighbours
MCAnyTraffic == AnyTraffic
MCOwnPing == OwnPing
=============================================================================
