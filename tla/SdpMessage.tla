----------------------------- MODULE SdpMessage -----------------------------
(***************************************************************************)
(* The messages of SECC discovery as sdp.cpp writes and reads them: the    *)
(* V2GTP header, a request of two bytes and a response of twenty.  Only    *)
(* the bytes that the parser tells apart are kept; the 16 bytes of an      *)
(* IPv6 address are the name of the node.                                  *)
(***************************************************************************)
EXTENDS Naturals

CONSTANTS
    Addresses,      \* IPv6 addresses
    NoAddress       \* what the buffer holds when none could be written

Byte == 0 .. 255
UINT16_MAX == 65535
UInt16 == 0 .. UINT16_MAX

\* A 32-bit unsigned integer, most significant byte first.
Word == [1 .. 4 -> Byte]

Number(b) == <<0, 0, 0, b>>

V2GTP_VERSION           == 1
V2GTP_VERSION_INV       == 254
SDP_REQUEST_TYPE        == 36864    \* 0x9000
SDP_RESPONSE_TYPE       == 36865    \* 0x9001

No_Transport_Layer_Security == 16
SDP_TCP == 0

Messages ==
    [version : Byte, inverse : Byte, type : UInt16, length : Word,
     security : Byte, transport : Byte,
     addr : Addresses \cup {NoAddress}, port : [1 .. 2 -> Byte]]

\* What v2gtp_inStream holds before anything was received.
Zeros ==
    [version |-> 0, inverse |-> 0, type |-> 0, length |-> Number(0),
     security |-> 0, transport |-> 0, addr |-> NoAddress, port |-> <<0, 0>>]

-----------------------------------------------------------------------------
(* Writing.                                                                *)

create_v2gtp_header(type, length) ==
    [Zeros EXCEPT !.version = V2GTP_VERSION, !.inverse = V2GTP_VERSION_INV,
                  !.type = type, !.length = Number(length)]

create_SDP_request ==
    [create_v2gtp_header(SDP_REQUEST_TYPE, 2)
        EXCEPT !.security = No_Transport_Layer_Security,
               !.transport = SDP_TCP]

ResponseWith(addr, port) ==
    [create_v2gtp_header(SDP_RESPONSE_TYPE, 20)
        EXCEPT !.security = No_Transport_Layer_Security,
               !.transport = SDP_TCP, !.addr = addr, !.port = port]

\* The board writes the low byte of its TCP port first.
create_SDP_response(addr, TCP_port) ==
    ResponseWith(addr, <<TCP_port % 256, TCP_port \div 256>>)

\* get_IPv6 found no address: the header is written, the payload is not.
create_SDP_response_fails == create_v2gtp_header(SDP_RESPONSE_TYPE, 20)

\* A device under test sends the port in network byte order.
DutResponse(addr, port) == ResponseWith(addr, <<port \div 256, port % 256>>)

-----------------------------------------------------------------------------
(* Reading: parse_SDP_message.                                             *)

\* Rejected only when both bytes are wrong.
VersionAccepted(m) ==
    ~(m.version # V2GTP_VERSION /\ m.inverse # V2GTP_VERSION_INV)

Shifted(w, n) ==
    LET Part(i) == IF i + n <= 4 THEN w[i + n] ELSE 0
    IN  <<Part(1), Part(2), Part(3), Part(4)>>

\* w << 8n | b, for n > 0
ShiftIn(w, n, b) ==
    LET s == Shifted(w, n) IN <<s[1], s[2], s[3], b>>

\* The shifts are 8, 16 and 24, each of what is already there.
payload_length(m) ==
    LET b4   == Number(m.length[1])
        b45  == ShiftIn(b4, 1, m.length[2])
        b456 == ShiftIn(b45, 2, m.length[3])
    IN  ShiftIn(b456, 3, m.length[4])

HeaderAccepted(m, type, length) ==
    /\ VersionAccepted(m)
    /\ m.type = type
    /\ payload_length(m) = Number(length)

\* On the EVSE board: security and transport are printed, not judged.
RequestAccepted(m) == HeaderAccepted(m, SDP_REQUEST_TYPE, 2)

\* (A slip for the runs to find: TLS is insisted on.)
ResponseOverTls(m) ==
    /\ HeaderAccepted(m, SDP_RESPONSE_TYPE, 20)
    /\ m.security = 0

\* On the EV board.
ResponseAccepted(m) ==
    /\ HeaderAccepted(m, SDP_RESPONSE_TYPE, 20)
    /\ m.security = No_Transport_Layer_Security
    /\ m.transport = SDP_TCP

\* (A slip for the runs to find: the byte order the board writes.)
SECCPortLowFirst(m) == m.port[1] + m.port[2] * 256

\* The EV board takes the high byte first.
SECCPort(m) == m.port[1] * 256 + m.port[2]

-----------------------------------------------------------------------------

\* What a header of the supported version, with the length of its payload,
\* looks like: the reference the parser is compared with.
ProperHeader(m, type, length) ==
    /\ m.version = V2GTP_VERSION /\ m.inverse = V2GTP_VERSION_INV
    /\ m.type = type
    /\ m.length = Number(length)

\* A message the parser takes although its header is not a proper one: one
\* version byte is wrong, or the upper two bytes of the length are not zero.
Slack(m) ==
    \/ RequestAccepted(m) /\ ~ProperHeader(m, SDP_REQUEST_TYPE, 2)
    \/ ResponseAccepted(m) /\ ~ProperHeader(m, SDP_RESPONSE_TYPE, 20)
=============================================================================
