---------------------------- MODULE PacketParser ----------------------------
(***************************************************************************)
(* From a captured frame to a session's data: the route to a worker        *)
(* (GetPortNo), the filter of the capture loop, and the two parsers        *)
(* (custom_packet_parser.go, gopacket_packet_parser.go under               *)
(* MRTECollector/src/mrte).  A frame is a sequence of bytes; positions     *)
(* count from 0 as in the code.                                            *)
(***************************************************************************)
LOCAL INSTANCE Naturals
LOCAL INSTANCE Sequences

TYPE_IP   == 2048
TYPE_IPV6 == 34525
IP_TCP    == 6

At(data, pos) == data[pos + 1]
From(data, pos) == SubSeq(data, pos + 1, Len(data))
Slice(data, from, to) == SubSeq(data, from + 1, to)
Uint16(data, pos) == 256 * At(data, pos) + At(data, pos + 1)
AtMost(n, m) == IF n > m THEN m ELSE n

(* No request: an error, a frame that is skipped, or one without data.     *)
None == [port |-> 0, data |-> <<>>]

-----------------------------------------------------------------------------
(* dlt is "ethernet" for DLT_EN10MB and DLT_EN3MB, "raw" for all others.   *)
EthernetHeader(dlt) == IF dlt = "ethernet" THEN 14 ELSE 0

GetPortNoBug(data, dlt) ==
    LET portIdx == 14 + 4 * (At(data, 14) % 16)
    IN  IF portIdx + 2 > Len(data) THEN 0 ELSE Uint16(data, portIdx)
GetPortNo(data, dlt) ==
    LET ip      == EthernetHeader(dlt)
        portIdx == ip + 4 * (At(data, ip) % 16)
    IN  IF portIdx + 2 > Len(data) THEN 0 ELSE Uint16(data, portIdx)

(* The frames that the capture loop drops with -fastparsing.               *)
TooShortBug(data) == Len(data) <= 67
TooShort(data) == Len(data) <= 66

(* The part of the IP packet behind its header.                            *)
IpPayloadBug(ip) == Slice(ip, 20, AtMost(Uint16(ip, 2), Len(ip)))
IpPayload(ip) ==
    LET pEnd == AtMost(Uint16(ip, 2), Len(ip))
        pIhl == AtMost(4 * (At(ip, 0) % 16), pEnd)
    IN  Slice(ip, pIhl, pEnd)

ParsePacketFast(data, dlt) ==
    LET type  == IF dlt = "ethernet" THEN Uint16(data, 12) ELSE TYPE_IP
        ip    == From(data, EthernetHeader(dlt))
        tcp   == IpPayload(ip)
        start == AtMost(4 * (At(tcp, 12) \div 16), Len(tcp))
    IN  IF \/ Len(data) < 14
           \/ type # TYPE_IP
           \/ Len(ip) < 20
           \/ At(ip, 9) # IP_TCP
           \/ Len(tcp) < 20
        THEN None
        ELSE [port |-> Uint16(tcp, 0), data |-> From(tcp, start)]

(* gopacket's decoders, as the worker sets them up: Ethernet first, then   *)
(* IPv4 or IPv6, then TCP; nothing is left where one of them fails.  An    *)
(* IPv4 length of 0 stands for all that was captured.  The filter "tcp dst *)
(* port" passes neither fragments nor IPv6 extension headers.              *)
Ipv4Payload(ip) ==
    LET length == IF Uint16(ip, 2) = 0 THEN Len(ip) ELSE Uint16(ip, 2)
        ihl    == 4 * (At(ip, 0) % 16)
    IN  IF \/ Len(ip) < 20 \/ length < 20 \/ ihl < 20
           \/ ihl > AtMost(length, Len(ip)) \/ At(ip, 9) # IP_TCP
        THEN <<>>
        ELSE Slice(ip, ihl, AtMost(length, Len(ip)))

Ipv6Payload(ip) ==
    IF Len(ip) < 40 \/ Uint16(ip, 4) = 0 \/ At(ip, 6) # IP_TCP
    THEN <<>>
    ELSE Slice(ip, 40, AtMost(40 + Uint16(ip, 4), Len(ip)))

TcpPayload(tcp) ==
    LET dataStart == 4 * (At(tcp, 12) \div 16)
    IN  IF Len(tcp) < 20 \/ dataStart < 20 \/ dataStart > Len(tcp) THEN <<>>
        ELSE From(tcp, dataStart)

DecodeLayers(data) ==
    LET type == Uint16(data, 12)
        tcp  == IF type = TYPE_IP THEN Ipv4Payload(From(data, 14))
                ELSE Ipv6Payload(From(data, 14))
    IN  IF Len(data) < 14 \/ type \notin {TYPE_IP, TYPE_IPV6} THEN None
        ELSE IF tcp = <<>> THEN None
        ELSE [port |-> Uint16(tcp, 0), data |-> TcpPayload(tcp)]

(* The link type is not asked for.                                         *)
ParsePacketSlow(data) ==
    LET decoded == DecodeLayers(data)
    IN  IF decoded.data = <<>> THEN None ELSE decoded

(* What the worker goes on with: a request without data is skipped.        *)
ToWorker(data, dlt, fastPacketParsing) ==
    IF ~fastPacketParsing THEN ParsePacketSlow(data)
    ELSE IF TooShort(data) \/ ParsePacketFast(data, dlt).data = <<>> THEN None
    ELSE ParsePacketFast(data, dlt)

-----------------------------------------------------------------------------
(* The frames that the filter "tcp dst port" lets through.                 *)
(*   link, version, options, tcpOptions, class (high half of the traffic   *)
(*   class) and port belong to the session;                                *)
(*   n       what differs from frame to frame: the sequence number, the    *)
(*           identification, the checksums;                                *)
(*   len     bytes of data;  lost  how many of them are beyond the         *)
(*           capture's snapshot length;  noTotal  the IPv4 length is 0,    *)
(*           which only large packets have.                                *)

IsFrame(f) ==
    /\ f \in [link: {"ethernet", "raw"}, version: {4, 6}, options: Nat,
              tcpOptions: Nat, class: Nat, port: Nat, n: Nat, len: Nat,
              lost: Nat, noTotal: BOOLEAN]
    /\ f.options <= 10 /\ f.tcpOptions <= 10
    /\ f.class <= 15 /\ f.port <= 65535 /\ f.n <= 255
    /\ f.lost <= f.len
    /\ f.noTotal => f.len >= 60
    /\ f.version = 6 => f.options = 0 /\ ~f.noTotal

Bytes(b, n)   == [i \in 1 .. n |-> b]
Octets(n)     == <<n \div 256, n % 256>>
Data(f)       == [i \in 1 .. f.len |-> (97 + i * f.n) % 256]
TcpLength(f)  == 20 + 4 * f.tcpOptions + f.len

Tcp(f) ==
    Octets(f.port) \o Octets(3306)
    \o <<7, 7, f.n, f.n>> \o <<9, f.n, 9, f.n>>
    \o <<16 * (5 + f.tcpOptions), 24, f.n, 1>> \o <<f.n, 5, 0, 0>>
    \o Bytes(1, 4 * f.tcpOptions) \o Data(f)

Ip(f) ==
    IF f.version = 4
    THEN LET header == 20 + 4 * f.options
         IN  <<64 + 5 + f.options, 16 * f.class>>
             \o Octets(IF f.noTotal THEN 0 ELSE header + TcpLength(f))
             \o <<f.n, f.n, 64, 0, 64, IP_TCP, f.n, f.n>>
             \o <<10, 0, 0, 1>> \o <<10, 0, 0, 2>> \o Bytes(1, 4 * f.options)
    ELSE <<96 + f.class, 0, 0, 0>> \o Octets(TcpLength(f)) \o <<IP_TCP, 64>>
         \o Bytes(32, 15) \o <<1>> \o Bytes(32, 15) \o <<2>>

Ethernet(f) ==
    IF f.link = "raw" THEN <<>>
    ELSE Bytes(2, 12) \o Octets(IF f.version = 4 THEN TYPE_IP ELSE TYPE_IPV6)

Headers(f) == Len(Ethernet(f)) + Len(Ip(f)) + TcpLength(f) - f.len

(* An Ethernet card sends at least 60 bytes.                               *)
Padding(f) ==
    Bytes(0, IF f.link = "ethernet" /\ Headers(f) + f.len < 60
             THEN 60 - (Headers(f) + f.len) ELSE 0)

BytesOf(f) ==
    LET sent == Ethernet(f) \o Ip(f) \o Tcp(f)
    IN  IF f.lost > 0 THEN SubSeq(sent, 1, Len(sent) - f.lost)
        ELSE sent \o Padding(f)

(* What the worker should get.                                             *)
Captured(f) ==
    IF f.len = f.lost THEN None
    ELSE [port |-> f.port, data |-> SubSeq(Data(f), 1, f.len - f.lost)]

(* Where each parser is at home: the fast one with IPv4, headers as long   *)
(* as the filter takes them to be, and a length in the IP header; the slow *)
(* one on Ethernet.                                                        *)
Supported(f, fastPacketParsing) ==
    IF fastPacketParsing
    THEN f.version = 4 /\ Headers(f) >= 66 /\ ~f.noTotal
    ELSE f.link = "ethernet"

(* Another frame of the same session.                                      *)
Later(f) == [f EXCEPT !.n = 2, !.len = f.len + 7]

(* Where IPv6 has no header length, the code reads the traffic class; the  *)
(* bytes it then takes for the port are those of the addresses, of the     *)
(* first word or, by chance, of the port, unless the class is one of       *)
(* these: then they are the payload length, the sequence or acknowledgment *)
(* number, the flags, the checksum, or an option or the data.              *)
Scattered(f) == f.version = 6 /\ f.class \in {1} \union (11 .. 15)
=============================================================================
