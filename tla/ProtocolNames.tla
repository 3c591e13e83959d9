--------------------------- MODULE ProtocolNames ---------------------------
(***************************************************************************)
(* The table of sniffer_packages/handleProto.h: which IP protocol numbers  *)
(* have a handler, and the name each handler leaves.  The handlers of TCP  *)
(* and UDP look at the ports, in the order of their tests.                 *)
(***************************************************************************)
EXTENDS Integers

\* The handlers whose name is fixed, by protocol number.
FixedName ==
    [n \in {0, 1, 2, 3, 4, 5, 7, 8, 9, 12, 22, 27, 43, 44, 50, 51, 58, 59, 60, 77,
            103, 113, 115, 132, 256, 257, 258} |->
        CASE n = 0   -> "IP"      [] n = 1   -> "ICMP"     [] n = 2  -> "IGMP"
          [] n = 3   -> "GGP"     [] n = 4   -> "IPV4"     [] n = 5  -> "ST"
          [] n = 7   -> "CBT"     [] n = 8   -> "EGP"      [] n = 9  -> "IGP"
          [] n = 12  -> "PUP"     [] n = 22  -> "IDP"      [] n = 27 -> "RDP"
          [] n = 43  -> "ROUTING" [] n = 44  -> "FRAGMENT" [] n = 50 -> "ESP"
          [] n = 51  -> "AH"      [] n = 58  -> "IPV6"     [] n = 59 -> "NONE"
          [] n = 60  -> "PROTO_DSTOPTS" [] n = 77 -> "ND"  [] n = 103 -> "PIM"
          [] n = 113 -> "PGM"     [] n = 115 -> "L2TP"     [] n = 132 -> "SCTP"
          [] n = 256 -> "PROTO_MAX" [] n = 257 -> "PROTO_RAW"
          [] n = 258 -> "RESERVED_IPSEC"]

\* What the headers of a captured packet hold; the protocol is one byte.
Protocols == 0..255
Ports     == 0..65535
Packets   == [proto : Protocols, src_port : Ports, dst_port : Ports]

TCP == 6
UDP == 17

\* The protocols initialize() registers a handler for.
Registered == DOMAIN FixedName \union {TCP, UDP}

\* The bytes of a name nothing has written.
Unset == "unset"

\* The handlers write to protoStr, which points to the single character proto of
\* Packages: seven bytes of padding take what follows, and these names, longer
\* than that, run into the pointer protoh behind them.
Overruns(p) == p.proto \in {44, 60}

UsesPort(p, port) == p.src_port = port \/ p.dst_port = port

TcpName(p) ==
    CASE UsesPort(p, 443) -> "TLS"
      [] ~UsesPort(p, 443) /\ UsesPort(p, 80) -> "Http"
      [] ~UsesPort(p, 443) /\ ~UsesPort(p, 80) /\ UsesPort(p, 53) -> "DNS"
      [] OTHER -> "TCP"

UdpName(p) ==
    CASE UsesPort(p, 53) -> "DNS"
      [] ~UsesPort(p, 53) /\ (p.src_port = 67 \/ p.dst_port = 68) -> "DHCP"
      [] OTHER -> "UDP"

\* What the handler of a registered protocol writes.
Handler(p) ==
    CASE p.proto = TCP -> TcpName(p)
      [] p.proto = UDP -> UdpName(p)
      [] OTHER         -> FixedName[p.proto]

Names == {FixedName[n] : n \in DOMAIN FixedName}
            \union {"TLS", "Http", "DNS", "TCP", "DHCP", "UDP", Unset}
==============================================================================
