------------------------------ MODULE Protocol ------------------------------
(***************************************************************************)
(* internal/protocol: addresses and the UDP envelope on the wire, and the  *)
(* SOCKS form of a datagram (proxy/socks_udp.go). A buffer is a sequence   *)
(* of bytes. A session id is the sequence of its base 128 digits, least    *)
(* first: TLC's integers are narrower than uint64. Of letters, digits and  *)
(* underscores one stands for all.                                         *)
(***************************************************************************)
EXTENDS Integers, Sequences

Version == 2
AtypIPv4 == 1
AtypDomain == 3
AtypIPv6 == 4
MaxUDPPayload == 850

\* Mutant of MaxUDPDatagramSize: the largest envelope without the dot that may end a name.
MaxUDPDatagramSizeTight == 1118

MaxUDPDatagramSize == 1120

Letter == 97
Dot == 46
Dash == 45
Space == 32
Colon == 58

\* net.ParseIP: "::" stands for the names that are IP literals (external).
IsIP(host) == host = <<Colon, Colon>>

\* Validate, for a name: labels of 1 to 63 letters, digits, underscores and inner dashes.
ValidName(host) ==
    LET h == IF host # <<>> /\ host[Len(host)] = Dot THEN SubSeq(host, 1, Len(host) - 1) ELSE host
        cuts == {0, Len(h) + 1} \cup {i \in DOMAIN h : h[i] = Dot}
    IN  /\ Len(h) \in 1..253
        /\ \A i \in DOMAIN h : h[i] \in {Letter, Dot, Dash}
        /\ \A d, e \in cuts : d < e /\ ~(\E f \in cuts : d < f /\ f < e) =>
              e - d - 1 \in 1..63 /\ h[d + 1] # Dash /\ h[e - 1] # Dash

\* An address: host is the name or the bytes of the IP.
Validate(a) ==
    \/ a.atyp = AtypIPv4 /\ Len(a.host) = 4
    \/ a.atyp = AtypIPv6 /\ Len(a.host) = 16
    \/ a.atyp = AtypDomain /\ (IsIP(a.host) \/ ValidName(a.host))

AppendUint16(n) == <<n \div 256, n % 256>>

Encode(a) ==
    <<a.atyp>> \o (IF a.atyp = AtypDomain THEN <<Len(a.host) % 256>> ELSE <<>>) \o a.host \o AppendUint16(a.port)

Fail == [ok |-> FALSE]

\* decodeAddress: the address at the front of a buffer, and the bytes it took.
DecodeAddress(buf) ==
    LET named == buf # <<>> /\ buf[1] = AtypDomain
        off == IF named THEN 2 ELSE 1
        size == IF buf = <<>> THEN -1
                ELSE CASE buf[1] = AtypIPv4 -> 4
                       [] buf[1] = AtypIPv6 -> 16
                       [] named /\ Len(buf) >= 2 -> buf[2]
                       [] OTHER -> -1
        end == off + size
        a == [atyp |-> buf[1], host |-> SubSeq(buf, off + 1, end),
              port |-> 256 * buf[end + 1] + buf[end + 2]]
    IN  IF size < 0 \/ Len(buf) < end + 2 \/ ~Validate(a) THEN Fail
        ELSE [ok |-> TRUE, addr |-> a, used |-> end + 2]

\* ReadAddress: the same from a stream, one field after the other.
ReadAddress(s) ==
    LET Has(n) == Len(s) >= n
        Rest(at, n) ==
            IF ~Has(at + n + 2) THEN Fail
            ELSE LET a == [atyp |-> s[1], host |-> SubSeq(s, at + 1, at + n),
                           port |-> 256 * s[at + n + 1] + s[at + n + 2]]
                 IN  IF Validate(a) THEN [ok |-> TRUE, addr |-> a, used |-> at + n + 2] ELSE Fail
    IN  IF ~Has(1) THEN Fail
        ELSE CASE s[1] = AtypIPv4 -> Rest(1, 4)
               [] s[1] = AtypIPv6 -> Rest(1, 16)
               [] s[1] = AtypDomain -> IF Has(2) THEN Rest(2, s[2]) ELSE Fail
               [] OTHER -> Fail

-----------------------------------------------------------------------------
\* binary.AppendUvarint and binary.Uvarint (external)

AppendUvarint(sid) == [i \in 1..Len(sid) |-> IF i < Len(sid) THEN 128 + sid[i] ELSE sid[i]]

Uvarint(buf) ==
    LET ends == {i \in 1..Len(buf) : i <= 10 /\ buf[i] < 128 /\ \A j \in 1..(i - 1) : buf[j] >= 128}
        n == CHOOSE i \in ends : TRUE
    IN  IF ends = {} \/ (n = 10 /\ buf[n] > 1) THEN Fail
        ELSE [ok |-> TRUE, sid |-> [i \in 1..n |-> buf[i] % 128], used |-> n]

EncodeDatagram(sid, a, payload) == <<Version>> \o AppendUvarint(sid) \o Encode(a) \o payload

DecodeDatagram(buf) ==
    IF Len(buf) \notin 2..MaxUDPDatagramSize \/ buf[1] # Version \/ ~Uvarint(Tail(buf)).ok THEN Fail
    ELSE LET id == Uvarint(Tail(buf))
             rest == SubSeq(buf, 2 + id.used, Len(buf))
             d == DecodeAddress(rest)
         IN  IF ~d.ok \/ Len(rest) - d.used > MaxUDPPayload THEN Fail
             ELSE [ok |-> TRUE, sid |-> id.sid, addr |-> d.addr,
                   payload |-> SubSeq(rest, d.used + 1, Len(rest))]

-----------------------------------------------------------------------------
\* proxy/socks_udp.go

BuildSOCKSUDP(a, payload) == <<0, 0, 0>> \o Encode(a) \o payload

ParseSOCKSUDP(b) ==
    IF Len(b) < 4 \/ SubSeq(b, 1, 3) # <<0, 0, 0>> THEN Fail
    ELSE LET r == SubSeq(b, 4, Len(b))
             d == ReadAddress(r)
         IN  IF ~d.ok \/ Len(r) - d.used > MaxUDPPayload THEN Fail
             ELSE IF d.addr.port = 0 THEN Fail
             ELSE [ok |-> TRUE, addr |-> d.addr, payload |-> SubSeq(r, d.used + 1, Len(r))]

-----------------------------------------------------------------------------
\* StreamRequest.WriteTo, and ReadStreamRequest

WriteRequest(cmd, flags, a) ==
    IF Validate(a) THEN <<Version, cmd, flags>> \o Encode(a) ELSE <<>>

ReadStreamRequest(s) ==
    IF Len(s) < 3 \/ s[1] # Version \/ ~ReadAddress(SubSeq(s, 4, Len(s))).ok THEN Fail
    ELSE [ok |-> TRUE, cmd |-> s[2], flags |-> s[3], addr |-> ReadAddress(SubSeq(s, 4, Len(s))).addr]

-----------------------------------------------------------------------------
\* Properties

\* A name of n bytes in labels of 63.
Name(n) == [i \in 1..n |-> IF i % 64 = 0 THEN Dot ELSE Letter]

Address(t, h, p) == [atyp |-> t, host |-> h, port |-> p]

\* Addresses at the edges of what Validate allows, and names beyond them.
GoodAddresses ==
    {Address(AtypIPv4, <<127, 0, 0, 1>>, p) : p \in {1, 255, 256, 256 * 256 - 1}}
    \cup {Address(AtypIPv6, [i \in 1..16 |-> 15 * i], 256)}
    \cup {Address(AtypDomain, h, 443) :
            h \in {Name(1), Name(63), Name(253), Append(Name(253), Dot), <<Colon, Colon>>,
                  <<Letter, Dash, Letter, Dot>>}}

BadNames ==
    {<<>>, <<Dot>>, <<Dash, Letter>>, <<Letter, Dash>>, <<Letter, Dot, Dot, Letter>>,
     <<Letter, Space>>, [i \in 1..64 |-> Letter], Name(254), Append(Name(254), Dot)}

\* Session ids: 0, 127, 128, 2^63 and 2^64 - 1.
SessionIds ==
    {<<0>>, <<127>>, <<0, 1>>, [i \in 1..10 |-> IF i = 10 THEN 1 ELSE 0],
     [i \in 1..10 |-> IF i = 10 THEN 1 ELSE 127]}

Payload(n) == [i \in 1..n |-> i % 256]

\* A datagram that the client may send survives the way: parsed from SOCKS, wrapped, unwrapped
\* and built again, it has the same session, address and payload, also with the longest name, id
\* and payload at once, which must fit MaxUDPDatagramSize.
EnvelopeExact ==
    \A sid \in SessionIds, a \in GoodAddresses, n \in {0, 1, 850} :
        LET p == Payload(n)
            socks == ParseSOCKSUDP(BuildSOCKSUDP(a, p))
        IN  /\ socks = [ok |-> TRUE, addr |-> a, payload |-> p]
            /\ DecodeDatagram(EncodeDatagram(sid, socks.addr, socks.payload))
                  = [ok |-> TRUE, sid |-> sid, addr |-> a, payload |-> p]

\* A datagram that is too long, cut in its header, or with a name that is no name is refused, and
\* the decoders of streams and of datagrams agree on every address, whole or cut.
RefusalExact ==
    /\ \A a \in GoodAddresses :
          /\ ~DecodeDatagram(EncodeDatagram(<<0>>, a, Payload(851))).ok
          /\ ~ParseSOCKSUDP(BuildSOCKSUDP(a, Payload(851))).ok
          /\ \A k \in 0..(2 + Len(Encode(a))) :
                ~DecodeDatagram(SubSeq(EncodeDatagram(<<0, 1>>, a, <<>>), 1, k)).ok
          /\ ReadStreamRequest(WriteRequest(1, 1, a)) = [ok |-> TRUE, cmd |-> 1, flags |-> 1, addr |-> a]
    /\ \A a \in GoodAddresses \cup {Address(AtypDomain, h, 443) : h \in BadNames} :
          \A k \in 0..Len(Encode(a)) :
             LET b == SubSeq(Encode(a), 1, k) IN
             /\ ReadAddress(b) = DecodeAddress(b)
             /\ DecodeAddress(b).ok <=> k = Len(Encode(a)) /\ a \in GoodAddresses

=============================================================================
