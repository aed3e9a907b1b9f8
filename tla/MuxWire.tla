------------------------------ MODULE MuxWire ------------------------------
(***************************************************************************)
(* The bytes of the mux frames on USB: what the build functions of mux.rs  *)
(* lay out and parse_packet reads back.  A u32 is a pair of 16-bit halves  *)
(* <<high, low>>, a byte string a sequence over 0..255.                    *)
(***************************************************************************)
EXTENDS Integers, Sequences

\* to_be_bytes and from_be_bytes of u16 and u32; the first byte is at 1.
B16(n) == <<n \div 256, n % 256>>
B32(w) == B16(w[1]) \o B16(w[2])
N16(s, at) == 256 * s[at] + s[at + 1]
N32(s, at) == <<N16(s, at), N16(s, at + 2)>>

HEADER_VERSION == <<0, 0>>
HEADER_CONTROL == <<0, 1>>
HEADER_SETUP == <<0, 2>>
HEADER_TCP == <<0, 6>>
TCP_SYN == 2
TCP_ACK == 16

\* The magics parse_mux_header accepts, the one it sends first.
Magic == <<65261, 64206>>        \* 0xFEEDFACE
AppleMagic == <<64206, 64206>>   \* 0xFACEFACE

NoSeqs == <<>>                   \* v2_seqs = None: v1 framing

\* A frame whose declared length is that of the whole frame, below 2^16 here
\* (USB_MTU); seqs = <<tx, rx>> selects the 16-byte header with the magic.
Frame(magic, protocol, seqs, payload) ==
    B32(protocol)
        \o B32(<<0, Len(payload) + (IF seqs = NoSeqs THEN 8 ELSE 16)>>)
        \o (IF seqs = NoSeqs THEN <<>> ELSE B32(magic) \o B16(seqs[1]) \o B16(seqs[2]))
        \o payload

\* build_version_request's 12-byte body, build_setup_packet's one byte.
VersionBody == B32(<<0, 2>>) \o B32(<<0, 0>>) \o B32(<<0, 0>>)
SetupBody == <<7>>

\* Mutant: the earlier (0x50 << 12), which overflows u16 to zero.
OffsetFlagsOverflow(flags) == ((80 * 4096) % 65536) + (flags % 4096)
\* Five words of header in the top nibble, the flags below it.
OffsetFlags(flags) == 5 * 4096 + (flags % 4096)

\* build_tcp_packet: header without options, checksum and urgent pointer 0.
TcpBody(seg) ==
    B16(seg.sport) \o B16(seg.dport) \o B32(seg.seq) \o B32(seg.ack)
        \o B16(OffsetFlags(seg.flags)) \o B16(seg.window) \o B32(<<0, 0>>)
        \o seg.data
-----------------------------------------------------------------------------
\* parse_mux_header's is_v2: a magic where the v2 header has one.
IsV2(s) == Len(s) >= 12 /\ N32(s, 9) \in {Magic, AppleMagic}

\* header.length as usize; anything from 2^31 up is beyond every buffer.
Length(s) == LET w == N32(s, 5) IN
    IF w[1] >= 32768 THEN 2147483647 ELSE 65536 * w[1] + w[2]

\* TcpHeader::parse_tcp_header, offset() and flags().
ParseTcp(p) ==
    [kind |-> "tcp", sport |-> N16(p, 1), dport |-> N16(p, 3),
     seq |-> N32(p, 5), ack |-> N32(p, 9),
     offset |-> N16(p, 13) \div 4096, flags |-> N16(p, 13) % 256,
     window |-> N16(p, 15), data |-> SubSeq(p, 21, Len(p))]

\* parse_packet's match on the protocol; a field that is not there reads 0.
Body(protocol, p) ==
    CASE protocol = HEADER_VERSION ->
            [kind |-> "version",
             major |-> IF Len(p) >= 4 THEN N32(p, 1) ELSE <<0, 0>>,
             minor |-> IF Len(p) >= 8 THEN N32(p, 5) ELSE <<0, 0>>]
      [] protocol = HEADER_CONTROL -> [kind |-> "control", data |-> p]
      [] protocol = HEADER_SETUP -> [kind |-> "setup"]
      [] protocol = HEADER_TCP /\ Len(p) >= 20 -> ParseTcp(p)
      [] OTHER -> [kind |-> "error"]

ParsePacket(s) ==
    LET start == IF IsV2(s) THEN 16 ELSE 8
        end == Length(s)
    IN IF Len(s) < 8 \/ end > Len(s) \/ end < start
         THEN [kind |-> "error"]
         ELSE Body(N32(s, 1), SubSeq(s, start + 1, end))
=============================================================================
