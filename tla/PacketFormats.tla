--------------------------- MODULE PacketFormats ----------------------------
(***************************************************************************)
(* The packets as bytes: the formats of vnt/packet (Ethernet, ARP, IPv4,   *)
(* ICMP, IGMP, UDP, TCP) and of vnt/src/protocol (the head of a NetPacket, *)
(* control packets, the list of a broadcast, the bodies of the ciphers).   *)
(* A format is a set of fields over a buffer that is written in place, one *)
(* setter at a time, in whatever order a handler likes.                    *)
(*                                                                         *)
(* A variant of an enumeration is known by its place in the declaration;   *)
(* From and Into are tables of what number gives, and is given by, each.   *)
(***************************************************************************)
EXTENDS Integers, Sequences

CONSTANTS
    Buffers,    \* pairs of a format and the bytes a buffer holds before
    Numbers,    \* numbers that are written, each where it fits
    Strings,    \* and addresses and payloads
    MaxWrites   \* bound of the model on writes to one buffer

VARIABLES
    fmt,      \* the format the buffer is read and written as
    buf,      \* its bytes, 1 .. Len(buf)
    ends,     \* source and destination address of the pseudo header
    expect,   \* history: what each field was set to last, or was to begin with
    blurred,  \* history: fields a setter wrote without masking
    fresh,    \* history: nothing was written since the checksum was
    writes

formatVars == <<fmt, buf, ends, expect, blurred, fresh, writes>>

-----------------------------------------------------------------------------
(* Fields: bytes at .. at+n-1, counted from 0, of which the bits from      *)
(* shift on.  One or two bytes are a number; more, or none, are bytes.     *)
Plain == [from |-> <<>>, into |-> <<>>]
Whole(at, n) == [at |-> at, n |-> n, shift |-> 0, width |-> 8 * n, enum |-> Plain]
Bits(at, n, shift, width) ==
    [at |-> at, n |-> n, shift |-> shift, width |-> width, enum |-> Plain]
Of(f, e) == [f EXCEPT !.enum = e]

IsNumber(f) == f.n \in {1, 2}
Word(b, f) == IF f.n = 1 THEN b[f.at + 1] ELSE 256 * b[f.at + 1] + b[f.at + 2]
Number(b, f) == (Word(b, f) \div 2^f.shift) % 2^f.width

(* From and Into of the enumerations.                                      *)
Variants(from, into) == [from |-> from, into |-> into]
From(e, v) ==
    IF \E i \in DOMAIN e.from : e.from[i] = v
    THEN <<"variant", CHOOSE i \in DOMAIN e.from : e.from[i] = v>>
    ELSE <<"Unknown", v>>
Into(e, x) == IF x[1] = "variant" THEN e.into[x[2]] ELSE x[2]

Get(b, f) ==
    IF ~IsNumber(f) THEN SubSeq(b, f.at + 1, f.at + f.n)
    ELSE IF f.enum = Plain THEN Number(b, f) ELSE From(f.enum, Number(b, f))

(* Mutant: the rest of the byte is lost.                                   *)
Put_NoMask(b, f, v) ==
    LET word  == 2^f.shift * (IF f.enum = Plain THEN v ELSE Into(f.enum, v))
        bytes == IF ~IsNumber(f) THEN v
                 ELSE IF f.n = 1 THEN <<word>> ELSE <<word \div 256, word % 256>>
    IN  [i \in DOMAIN b |-> IF i \in f.at + 1 .. f.at + f.n THEN bytes[i - f.at] ELSE b[i]]

(* A setter masks its bits and leaves the other bits of the bytes alone.   *)
Put(b, f, v) ==
    LET value == IF f.enum = Plain THEN v ELSE Into(f.enum, v)
        word  == Word(b, f) + 2^f.shift * (value - Number(b, f))
        bytes == IF ~IsNumber(f) THEN v
                 ELSE IF f.n = 1 THEN <<word>> ELSE <<word \div 256, word % 256>>
    IN  [i \in DOMAIN b |-> IF i \in f.at + 1 .. f.at + f.n THEN bytes[i - f.at] ELSE b[i]]

-----------------------------------------------------------------------------
(* The enumerations, each in the order of its declaration.                 *)
Count(n) == [i \in 1 .. n |-> i]
FromZero(n) == [i \in 1 .. n |-> i - 1]

(* The IP protocols in the order of their numbers, and two for experiments.*)
IpProtocolNames == 145
IpProtocolFrom == [i \in 1 .. IpProtocolNames |-> IF i <= 143 THEN i - 1 ELSE i + 109]
IpProtocolInto == [i \in 1 .. IpProtocolNames |-> IF i <= 143 THEN i - 1 ELSE i + 109]
IpProtocol == Variants(IpProtocolFrom, IpProtocolInto)

EtherTypeFrom == <<2048, 2054, 2114, 8947, 24579, 32821, 32923, 33011, 33079, 33284, 34525, 34824,
                   34841, 34887, 34888, 34915, 34916, 33024, 34984, 35020, 35063, 35074, 37120>>
EtherTypeInto == <<2048, 2054, 2114, 8947, 24579, 32821, 32923, 33011, 33079, 33284, 34525, 34824,
                   34841, 34887, 34888, 34915, 34916, 33024, 34984, 35020, 35063, 35074, 37120>>
EtherType == Variants(EtherTypeFrom, EtherTypeInto)

EchoRequest == 8
DestinationUnreachable == 3
Redirect == 5
ParameterProblem == 12
KindFrom == <<0, 3, 4, 5, 8, 9, 10, 11, 12, 13, 14, 15, 16, 17, 18, 30>>
KindInto == <<0, 3, 4, 5, 8, 9, 10, 11, 12, 13, 14, 15, 16, 17, 18, 30>>
Kind == Variants(KindFrom, KindInto)

(* The code means what the kind says; the kinds without codes of their own *)
(* keep the number.                                                        *)
UnreachableFrom == FromZero(16)
UnreachableInto == FromZero(16)
RedirectFrom == FromZero(4)
RedirectInto == FromZero(4)
ParameterFrom == FromZero(3)
ParameterInto == FromZero(3)
CodeOf(kind) ==
    CASE kind = DestinationUnreachable -> Variants(UnreachableFrom, UnreachableInto)
      [] kind = Redirect -> Variants(RedirectFrom, RedirectInto)
      [] kind = ParameterProblem -> Variants(ParameterFrom, ParameterInto)
      [] OTHER -> Plain

IgmpV1Type == Variants(<<17, 18>>, <<17, 18>>)
IgmpV2Type == Variants(<<17, 22, 23>>, <<17, 22, 23>>)
IgmpV3Type == Variants(<<17, 34>>, <<17, 34>>)
IgmpV3RecordType == Variants(Count(6), Count(6))

Version == Variants(<<2>>, <<2>>)
Protocol == Variants(Count(5), Count(5))
ServiceProtocol == Variants(Count(9), Count(9))
ErrorProtocol == Variants(Count(6), Count(6))
ControlProtocol == Variants(Count(6), Count(6))
IpTurnProtocol == Variants(<<4, 5, 201>>, <<4, 5, 201>>)
OtherTurnProtocol == Variants(<<1>>, <<1>>)
TransportProtocol(protocol) ==
    CASE protocol = 1 -> ServiceProtocol
      [] protocol = 2 -> ErrorProtocol
      [] protocol = 3 -> ControlProtocol
      [] protocol = 4 -> IpTurnProtocol
      [] protocol = 5 -> OtherTurnProtocol
      [] OTHER -> Plain
Algorithm == Variants(<<1, 2>>, <<1, 2>>)
ExtensionType == Variants(<<0>>, <<0>>)

-----------------------------------------------------------------------------
(* The formats.                                                            *)
Ethernet == [destination |-> Whole(0, 6), source |-> Whole(6, 6),
             protocol |-> Of(Whole(12, 2), EtherType)]

Arp == [hardware_type |-> Whole(0, 2), protocol_type |-> Whole(2, 2),
        hardware_size |-> Whole(4, 1), protocol_size |-> Whole(5, 1), op_code |-> Whole(6, 2),
        sender_hardware_addr |-> Whole(8, 6), sender_protocol_addr |-> Whole(14, 4),
        target_hardware_addr |-> Whole(18, 6), target_protocol_addr |-> Whole(24, 4)]

Ipv4 == [version |-> Bits(0, 1, 4, 4), header_len |-> Bits(0, 1, 0, 4),
         dscp |-> Bits(1, 1, 2, 6), ecn |-> Bits(1, 1, 0, 2), length |-> Whole(2, 2),
         id |-> Whole(4, 2), flags |-> Bits(6, 1, 5, 3), offset |-> Bits(6, 2, 0, 13),
         ttl |-> Whole(8, 1), protocol |-> Of(Whole(9, 1), IpProtocol),
         checksum |-> Whole(10, 2), source_ip |-> Whole(12, 4), destination_ip |-> Whole(16, 4)]

Udp == [source_port |-> Whole(0, 2), destination_port |-> Whole(2, 2), length |-> Whole(4, 2),
        checksum |-> Whole(6, 2)]

Tcp == [source_port |-> Whole(0, 2), destination_port |-> Whole(2, 2), sequence |-> Whole(4, 4),
        acknowledgment |-> Whole(8, 4), data_offset |-> Bits(12, 1, 4, 4), flags |-> Whole(13, 1),
        window |-> Whole(14, 2), checksum |-> Whole(16, 2), urgent_pointer |-> Whole(18, 2)]

(* The second word of an ICMP packet means what its kind says.             *)
HeaderOther(kind) ==
    CASE kind \in {0, 8, 13, 14, 15, 16} -> [identifier |-> Whole(4, 2), sequence |-> Whole(6, 2)]
      [] kind = ParameterProblem -> [pointer |-> Whole(4, 1)]
      [] OTHER -> [other |-> Whole(4, 4)]

Icmp(b) ==
    LET other == HeaderOther(b[1])
        base  == [kind |-> Of(Whole(0, 1), Kind), checksum |-> Whole(2, 2),
                  code |-> Of(Whole(1, 1), CodeOf(b[1]))]
    IN  [n \in DOMAIN base \cup DOMAIN other |-> IF n \in DOMAIN base THEN base[n] ELSE other[n]]

IgmpV1 == [version |-> Bits(0, 1, 4, 4), igmp_type |-> Of(Bits(0, 1, 0, 4), IgmpV1Type),
           unused |-> Whole(1, 1), checksum |-> Whole(2, 2), group_address |-> Whole(4, 4)]

IgmpV2 == [igmp_type |-> Of(Whole(0, 1), IgmpV2Type), max_resp_time |-> Whole(1, 1),
           checksum |-> Whole(2, 2), group_address |-> Whole(4, 4)]

IgmpV3Query == [igmp_type |-> Of(Whole(0, 1), IgmpV3Type), max_resp_code |-> Whole(1, 1),
                checksum |-> Whole(2, 2), group_address |-> Whole(4, 4),
                resv |-> Bits(8, 1, 4, 4), s |-> Bits(8, 1, 3, 1), qrv |-> Bits(8, 1, 0, 3),
                qqic |-> Whole(9, 1), source_number |-> Whole(10, 2)]

IgmpV3Report == [igmp_type |-> Of(Whole(0, 1), IgmpV3Type), reserved1 |-> Whole(1, 1),
                 checksum |-> Whole(2, 2), reserved2 |-> Whole(4, 2),
                 record_number |-> Whole(6, 2)]

IgmpV3Record == [record_type |-> Of(Whole(0, 1), IgmpV3RecordType),
                 aux_data_len |-> Whole(1, 1), source_number |-> Whole(2, 2),
                 multicast_address |-> Whole(4, 4)]

Net(b) == [encrypt |-> Bits(0, 1, 7, 1), gateway |-> Bits(0, 1, 6, 1),
           extension |-> Bits(0, 1, 5, 1), version |-> Of(Bits(0, 1, 0, 4), Version),
           protocol |-> Of(Whole(1, 1), Protocol),
           transport_protocol |-> Of(Whole(2, 1), TransportProtocol(b[2])),
           source_ttl |-> Bits(3, 1, 4, 4), ttl |-> Bits(3, 1, 0, 4),
           source |-> Whole(4, 4), destination |-> Whole(8, 4)]

Ping == [time |-> Whole(0, 2), epoch |-> Whole(2, 2)]
Addr == [ipv4 |-> Whole(0, 4), port |-> Whole(4, 2)]
CompressionTail ==
    [algorithm |-> Of(Whole(0, 1), Algorithm), type |-> Of(Whole(3, 1), ExtensionType)]

(* The addresses that have got the packet, and the packet.                 *)
BroadcastList(b) ==
    [addr_num |-> Whole(0, 1), addresses |-> Whole(1, 4 * b[1]),
     data |-> Whole(1 + 4 * b[1], Len(b) - 1 - 4 * b[1])]

(* What the ciphers append, counted from the end: with or without a finger.*)
FromEnd(b, name, n, behind) == [x \in {name} |-> Whole(Len(b) - behind - n, n)]
Join(f, g) == [x \in DOMAIN f \cup DOMAIN g |-> IF x \in DOMAIN f THEN f[x] ELSE g[x]]
Rest(b, fields, n) == Join(fields, FromEnd(b, "data", Len(b) - n, n))

Finger(b, k) == IF k = 0 THEN <<>> ELSE FromEnd(b, "finger", k, 0)
SecretTail(b, k) == Join(Finger(b, k), FromEnd(b, "random", 4, k))
AeadBody(b, k) == Rest(b, Join(SecretTail(b, k), FromEnd(b, "tag", 16, k + 4)), k + 20)
IvBody(b, k) == Rest(b, SecretTail(b, k), k + 4)
GcmBody(b, k) ==
    Rest(b, Join(Join(Finger(b, k), FromEnd(b, "tag", 16, k)), FromEnd(b, "random", 4, k + 16)),
         k + 20)
CbcBody(b, k) == Rest(b, Join(Finger(b, k), FromEnd(b, "random", 4, k)), k + 4)
RsaBody(b) == Rest(b, Join(Finger(b, 16), FromEnd(b, "random", 16, 16)), 32)

Fields(f, b) ==
    CASE f = "ethernet" -> Ethernet
      [] f = "arp" -> Arp
      [] f = "ipv4" -> Ipv4
      [] f = "udp" -> Udp
      [] f = "tcp" -> Tcp
      [] f = "icmp" -> Icmp(b)
      [] f = "igmp_v1" -> IgmpV1
      [] f = "igmp_v2" -> IgmpV2
      [] f = "igmp_v3_query" -> IgmpV3Query
      [] f = "igmp_v3_report" -> IgmpV3Report
      [] f = "net" -> Net(b)
      [] f = "ping" -> Ping
      [] f = "addr" -> Addr
      [] f = "compression_tail" -> CompressionTail
      [] f = "broadcast" -> BroadcastList(b)
      [] f = "aead_body" -> AeadBody(b, 12)
      [] f = "aead_body_bare" -> AeadBody(b, 0)
      [] f = "iv_body" -> IvBody(b, 12)
      [] f = "iv_body_bare" -> IvBody(b, 0)
      [] f = "gcm_body" -> GcmBody(b, 12)
      [] f = "gcm_body_bare" -> GcmBody(b, 0)
      [] f = "cbc_body" -> CbcBody(b, 12)
      [] f = "cbc_body_bare" -> CbcBody(b, 0)
      [] f = "rsa_body" -> RsaBody(b)

Read(f, b) == [n \in DOMAIN Fields(f, b) |-> Get(b, Fields(f, b)[n])]

(* The fields that have a setter of their own.                             *)
EthernetSetters == DOMAIN Ethernet
ArpSetters == DOMAIN Arp
Ipv4Setters == {"protocol", "source_ip", "destination_ip", "ttl"}
UdpSetters == {"source_port", "destination_port"}
TcpSetters == {"source_port", "destination_port"}
IgmpV1Setters == {"version", "checksum", "group_address"}
IgmpV2Setters == DOMAIN IgmpV2
IgmpV3Setters == {"max_resp_code", "checksum", "group_address", "qrv", "qqic"}
NetSetters == {"encrypt", "gateway", "extension", "protocol", "transport_protocol", "source_ttl",
               "ttl", "source", "destination"}
BodySetters == {"data", "tag", "random", "finger"}

Bodies == {"aead_body", "aead_body_bare", "iv_body", "iv_body_bare", "gcm_body", "gcm_body_bare",
           "cbc_body", "cbc_body_bare", "rsa_body"}

Setters(f) ==
    CASE f = "ethernet" -> EthernetSetters
      [] f = "arp" -> ArpSetters
      [] f = "ipv4" -> Ipv4Setters
      [] f = "udp" -> UdpSetters
      [] f = "tcp" -> TcpSetters
      [] f = "icmp" -> {"kind"}
      [] f = "igmp_v1" -> IgmpV1Setters
      [] f = "igmp_v2" -> IgmpV2Setters
      [] f = "igmp_v3_query" -> IgmpV3Setters
      [] f = "igmp_v3_report" -> {}
      [] f = "net" -> NetSetters
      [] f \in {"ping", "addr"} -> DOMAIN Fields(f, <<>>)
      [] f = "compression_tail" -> {"algorithm"}
      [] f = "broadcast" -> {"data"}
      [] f \in Bodies -> BodySetters

(* What new accepts.                                                       *)
MinLen(f) ==
    CASE f = "ethernet" -> 14
      [] f = "arp" -> 28
      [] f \in {"ipv4", "tcp"} -> 20
      [] f \in {"udp", "icmp", "igmp_v1", "igmp_v2", "igmp_v3_report"} -> 8
      [] f \in {"igmp_v3_query", "net"} -> 12
      [] f \in {"ping", "compression_tail"} -> 4
      [] f \in {"addr", "broadcast"} -> 6
      [] f \in {"aead_body", "gcm_body", "rsa_body"} -> 32
      [] f \in {"aead_body_bare", "gcm_body_bare"} -> 20
      [] f \in {"iv_body", "cbc_body"} -> 16
      [] f \in {"iv_body_bare", "cbc_body_bare"} -> 4

New(f, b) ==
    /\ IF f \in {"arp", "igmp_v1", "igmp_v2", "compression_tail"} THEN Len(b) = MinLen(f)
       ELSE Len(b) >= MinLen(f)
    /\ f = "ipv4" => Number(b, Ipv4.version) = 4 /\ Len(b) >= 4 * Number(b, Ipv4.header_len)
    /\ f = "tcp" => Len(b) >= 4 * Number(b, Tcp.data_offset)
    /\ f = "broadcast" => b[1] # 0

-----------------------------------------------------------------------------
(* Checksums, RFC 1071.  Big-endian words, an odd byte counts as the high  *)
(* one; carries are added until none is left.                              *)
WordSum(b) ==
    LET words == (Len(b) + 1) \div 2
        word(i) == 256 * b[2 * i - 1] + (IF 2 * i <= Len(b) THEN b[2 * i] ELSE 0)
        sum[i \in 0 .. words] == IF i = 0 THEN 0 ELSE sum[i - 1] + word(i)
    IN  sum[words]

(* Mutant: one round of carries is taken to be enough.                     *)
Fold_Once(sum) == ((sum % 65536) + (sum \div 65536)) % 65536

Fold(sum) ==
    LET fold[s \in Nat] == IF s < 65536 THEN s ELSE fold[(s % 65536) + (s \div 65536)]
    IN  fold[sum]

(* cal_checksum, and ipv4_cal_checksum with the pseudo header: addresses,  *)
(* protocol and length.                                                    *)
CalChecksum(b) == 65535 - Fold(WordSum(b))
Ipv4CalChecksum(b, e, protocol) ==
    65535 - Fold(WordSum(e.src) + WordSum(e.dst) + protocol + Len(b) + WordSum(b))

Summed == {"ipv4", "udp", "tcp", "icmp", "igmp_v1", "igmp_v2", "igmp_v3_query", "igmp_v3_report"}

(* What the checksum of a format covers.                                   *)
Covered(f, b) ==
    IF f = "ipv4" THEN SubSeq(b, 1, 4 * Number(b, Ipv4.header_len)) ELSE b

Checksum(f, b, e) ==
    CASE f = "udp" -> Ipv4CalChecksum(b, e, 17)
      [] f = "tcp" -> Ipv4CalChecksum(b, e, 6)
      [] OTHER -> CalChecksum(Covered(f, b))

IsValid(f, b, e) == Get(b, Fields(f, b).checksum) = 0 \/ Checksum(f, b, e) = 0

-----------------------------------------------------------------------------
(* Mutant: the auxiliary data is counted in bytes.                         *)
RecordLen_Bytes(b, start) ==
    LET at(f) == [f EXCEPT !.at = @ + start]
    IN  8 + Number(b, at(IgmpV3Record.aux_data_len))
          + 4 * Number(b, at(IgmpV3Record.source_number))

(* IgmpV3ReportPacket::group_records: records of varying length one after  *)
(* the other, or nothing if the last one is cut short.                     *)
RecordLen(b, start) ==
    LET at(f) == [f EXCEPT !.at = @ + start]
    IN  8 + 4 * Number(b, at(IgmpV3Record.aux_data_len))
          + 4 * Number(b, at(IgmpV3Record.source_number))

GroupRecords(b) ==
    LET num == Number(b, IgmpV3Report.record_number)
        from[k \in 0 .. num] ==
            IF k = 0 THEN 8
            ELSE IF from[k - 1] + 8 > Len(b) THEN Len(b) + 1
            ELSE from[k - 1] + RecordLen(b, from[k - 1])
    IN  IF num = 0 \/ from[num] > Len(b) THEN <<>>
        ELSE [k \in 1 .. num |-> SubSeq(b, from[k - 1] + 1, from[k])]

(* A record with so many sources and words of auxiliary data.              *)
Record(sources, aux) ==
    <<1, aux, 0, sources>> \o [i \in 1 .. 4 + 4 * (sources + aux) |-> i]
RecordLists == UNION {[1 .. k -> {Record(s, a) : s \in 0 .. 2, a \in 0 .. 1}] : k \in 0 .. 2}
Bytes(seqs) ==
    LET all[k \in 0 .. Len(seqs)] == IF k = 0 THEN <<>> ELSE all[k - 1] \o seqs[k]
    IN  all[Len(seqs)]

-----------------------------------------------------------------------------
(* A buffer of this format: bytes that new takes, with all of the list     *)
(* that it says it has.                                                    *)
Byte == 0 .. 255
U16 == 0 .. 2^16 - 1
Accepted(f, b) ==
    /\ b \in Seq(Byte)
    /\ New(f, b)
    /\ f = "broadcast" => 1 + 4 * b[1] <= Len(b)

(* Reports arrive from others, whole or with their last byte missing.      *)
Reports ==
    {<<34, 0, 0, 0, 0, 0, 0, Len(list)>> \o Bytes(list) : list \in RecordLists}

Formats == Bodies \cup
    {"ethernet", "arp", "ipv4", "udp", "tcp", "icmp", "igmp_v1", "igmp_v2", "igmp_v3_query",
     "net", "ping", "addr", "compression_tail", "broadcast"}

FormatInit ==
    /\ \/ fmt \in Formats /\ buf \in {p[2] : p \in {q \in Buffers : q[1] = fmt}}
       \/ fmt = "igmp_v3_report" /\ buf \in Reports
    /\ Accepted(fmt, buf)
    /\ ends = [src |-> <<10, 26, 0, 2>>, dst |-> <<10, 26, 255, 255>>]
    /\ expect = Read(fmt, buf)
    /\ blurred = {}
    /\ fresh = FALSE
    /\ writes = 0

(* What a field can be set to: bytes, a number or what the number means.   *)
Values(f) ==
    IF ~IsNumber(f) THEN {s \in Strings : Len(s) = f.n /\ s \in Seq(Byte)}
    ELSE LET held == {v \in Numbers : v \in 0 .. 2^f.width - 1}
         IN  IF f.enum = Plain THEN held ELSE {From(f.enum, v) : v \in held}

(* The buffer becomes b; the fields in set are to read as v says, a field  *)
(* whose place or meaning is another now as it does.                       *)
Becomes(b, set, v) ==
    LET was == Fields(fmt, buf)
        is  == Fields(fmt, b)
    IN  /\ writes < MaxWrites
        /\ writes' = writes + 1
        /\ buf' = b
        /\ expect' = [n \in DOMAIN is |->
                        IF n \in set THEN v[n]
                        ELSE IF n \in DOMAIN was /\ was[n] = is[n] THEN expect[n]
                        ELSE Get(b, is[n])]
        /\ UNCHANGED <<fmt, ends>>

Writes(b, set, v) == Becomes(b, set, v) /\ fresh' = FALSE

SetField ==
    \E n \in Setters(fmt) \cap DOMAIN Fields(fmt, buf) :
    \E v \in Values(Fields(fmt, buf)[n]) :
        /\ Writes(Put(buf, Fields(fmt, buf)[n], v), {n}, [x \in {n} |-> v])
        /\ UNCHANGED blurred

(* set_default_version and the V3 set_igmp_type have one value each.       *)
SetFixed ==
    \E n \in DOMAIN Fields(fmt, buf) :
        /\ <<fmt, n>> \in {<<"net", "version">>, <<"igmp_v3_query", "igmp_type">>}
        /\ LET v == From(Fields(fmt, buf)[n].enum, IF fmt = "net" THEN 2 ELSE 17)
           IN  Writes(Put(buf, Fields(fmt, buf)[n], v), {n}, [x \in {n} |-> v])
        /\ UNCHANGED blurred

(* first_set_ttl.                                                          *)
FirstSetTtl ==
    /\ fmt = "net"
    /\ \E t \in Numbers \cap 1 .. 15 :
          Writes([buf EXCEPT ![4] = 16 * t + t], {"ttl", "source_ttl"},
                 [ttl |-> t, source_ttl |-> t])
    /\ UNCHANGED blurred

(* Bitwise or of two bytes.                                                *)
Bit(x, k) == (x \div 2^k) % 2
IsOr(w, x, y) == \A k \in 0 .. 7 : Bit(w, k) = 1 <=> Bit(x, k) = 1 \/ Bit(y, k) = 1

(* The IPv4 set_flags keeps the flags that are there and clears the upper  *)
(* five bits of the offset instead.                                        *)
SetFlags ==
    /\ fmt = "ipv4"
    /\ \E v \in 0 .. 7, w \in Byte :
          /\ IsOr(w, 32 * (buf[7] \div 32), 32 * v)
          /\ Writes([buf EXCEPT ![7] = w], {"flags"}, [flags |-> v])
    /\ blurred' = blurred \cup {"flags", "offset"}

(* The IGMPv1 set_type writes eight bits where four are read.              *)
SetIgmpV1Type ==
    /\ fmt = "igmp_v1"
    /\ \E t \in {17, 18}, w \in Byte :
          /\ IsOr(w, 16 * (buf[1] \div 16), t)
          /\ Writes([buf EXCEPT ![1] = w], {"igmp_type"}, [igmp_type |-> From(IgmpV1Type, t)])
    /\ blurred' = blurred \cup {"igmp_type", "version"}

(* BroadcastPacket::set_address; the packet comes after the addresses.     *)
SetAddress ==
    /\ fmt = "broadcast"
    /\ \E num \in Byte : \E list \in Values(Whole(1, 4 * num)) :
          /\ Len(buf) >= 1 + 4 * num
          /\ Writes([i \in DOMAIN buf |-> IF i = 1 THEN num
                                          ELSE IF i <= 1 + 4 * num THEN list[i - 1]
                                          ELSE buf[i]],
                    {"addr_num", "addresses"}, [addr_num |-> num, addresses |-> list])
    /\ UNCHANGED blurred

(* update_checksum: zero first, or the old one is summed up too.  The sum  *)
(* is a u16.                                                               *)
UpdateChecksum ==
    /\ fmt \in Summed \ {"igmp_v3_report"}
    /\ LET field == Fields(fmt, buf).checksum
           sum == Checksum(fmt, Put(buf, field, 0), ends)
       IN  /\ sum \in U16
           /\ Becomes(Put(buf, field, sum), {"checksum"}, [checksum |-> sum])
    /\ fresh' = TRUE
    /\ UNCHANGED blurred

(* An IgmpV3 report is cut off on its way.                                 *)
Truncate ==
    /\ fmt = "igmp_v3_report" /\ writes = 0 /\ Len(buf) > 8
    /\ buf' = SubSeq(buf, 1, Len(buf) - 1)
    /\ writes' = 1
    /\ UNCHANGED <<fmt, ends, expect, blurred, fresh>>

FormatNext ==
    \/ SetField \/ SetFixed \/ FirstSetTtl \/ SetFlags \/ SetIgmpV1Type
    \/ SetAddress \/ UpdateChecksum \/ Truncate

FormatSpec == FormatInit /\ [][FormatNext]_formatVars

-----------------------------------------------------------------------------
(* A field reads as it was set last, or as it was: no setter reaches into  *)
(* a neighbour, whichever of them a handler calls and in whatever order,   *)
(* and a list that says where the rest begins moves nothing over it.  The  *)
(* IPv4 set_flags and the IGMPv1 set_type do reach into a neighbour, but   *)
(* into no more than one.                                                  *)
ReadsBack == \A n \in DOMAIN expect \ blurred : Get(buf, Fields(fmt, buf)[n]) = expect[n]

(* An IGMPv3 report is taken apart into the records it was made of, and    *)
(* not at all when the last one is cut short.                              *)
RecordsFound ==
    fmt = "igmp_v3_report" =>
        IF writes = 0
        THEN \E list \in RecordLists :
                Bytes(list) = SubSeq(buf, 9, Len(buf)) /\ GroupRecords(buf) = list
        ELSE GroupRecords(buf) = <<>>

(* The ones' complement sum by the weight of each byte, modulo 2^16 - 1.   *)
Weighted(b) ==
    LET sum[i \in 0 .. Len(b)] ==
            IF i = 0 THEN 0 ELSE sum[i - 1] + b[i] * (IF i % 2 = 1 THEN 256 ELSE 1)
    IN  sum[Len(b)]

Pseudo == CASE fmt = "udp" -> Weighted(ends.src) + Weighted(ends.dst) + 17 + Len(buf)
            [] fmt = "tcp" -> Weighted(ends.src) + Weighted(ends.dst) + 6 + Len(buf)
            [] OTHER -> 0

(* What update_checksum wrote is right by the definition of the sum, and   *)
(* is_valid accepts that and nothing else but an absent checksum: not the  *)
(* one that was right before a field was rewritten, nor one that carries   *)
(* left a carry behind in.                                                 *)
ChecksumRight ==
    fmt \in Summed =>
        LET total == Weighted(Covered(fmt, buf)) + Pseudo
        IN  /\ fresh => total % 65535 = 0 /\ IsValid(fmt, buf, ends)
            /\ IsValid(fmt, buf, ends) <=>
                  expect.checksum = 0 \/ (total # 0 /\ total % 65535 = 0)
=============================================================================
