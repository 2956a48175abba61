------------------------------ MODULE MCEngine ------------------------------
(* Engine for TLC: list files, and traffic of every kind.                  *)
EXTENDS Engine

Letters == {97, 66, Dot}    \* "a", "B", "."
Strings(n) == UNION {[1..k -> Letters] : k \in 1..n}

\* "#a", ".", " b.A.<tab>", "a"
Lists == << <<Hash, 97>>, <<Dot>>, <<32, 98, Dot, 65, Dot, 9>>, <<97>> >>

\* "B.a" is on the list, "a.B" is not.
Host == <<66, Dot, 97>>
Stranger == <<97, Dot, 66>>

\* What the flags "strategy", "split", "quic" and "ports" make of Default.
Chosen == {Default,
           [Default EXCEPT !.Strategy = "disorder", !.QUIC = "off", !.Ports = <<443, 8443>>],
           [Default EXCEPT !.Strategy = "fake", !.Ports = <<8443>>],
           [Default EXCEPT !.Strategy = "split", !.SplitPos = "middle"]}

-----------------------------------------------------------------------------
IPv4(options, proto, body) ==
  <<69 + Len(options) \div 4, 0>> \o Bytes16(20 + Len(options) + Len(body)) \o <<18, 52, 64, 0, 128, proto>>
    \o Zeros(2) \o <<192, 168, 1, 10, 142, 250, 74, 78>> \o options
TCPSegment(options, port, payload) ==
  <<199, 56>> \o Bytes16(port) \o <<255, 255, 255, 250, 17, 34, 51, 68, 16 * (5 + Len(options) \div 4), 24, 250, 240>>
    \o Zeros(4) \o options \o payload
TCP(ipOpts, tcpOpts, port, payload) ==
  LET tcp == TCPSegment(tcpOpts, port, payload) IN IPv4(ipOpts, ProtoTCP, tcp) \o tcp
UDP(port, payload) ==
  LET udp == <<199, 56>> \o Bytes16(port) \o Bytes16(8 + Len(payload)) \o Zeros(2) \o payload
  IN  IPv4(<<>>, ProtoUDP, udp) \o udp

Out(data) == [Data |-> data, Outbound |-> TRUE]
Hello(pkt, host, end, whole, port) ==
  [pkt |-> pkt, kind |-> "hello", host |-> host, end |-> end, whole |-> whole, port |-> port]
Other(pkt) == [pkt |-> pkt, kind |-> "other"]

-----------------------------------------------------------------------------
\* Every short host name.
Plain == {Hello(Out(TCP(<<>>, <<>>, 443, BuildClientHello(h))), h, Len(BuildClientHello(h)), h # <<>>, 443) :
            h \in Strings(4) \cup {<<>>}}

\* Messages and packets of every shape, in both directions.
After == Extension(43, <<2, 3, 4>>)
Around(host, session, suites, before) == Message(session, suites, before \o NameExtension(host) \o After)
NameEnd(m) == Len(m) - Len(After)
Before == {<<>>, Extension(2570, <<>>), Extension(10, <<0, 2, 0, 29>>)}
Shapes ==
  { LET m == Around(h, s, <<19, 1, 19, 2>>, b)
    IN  Hello([Data |-> TCP(i, t, p, m) \o pad, Outbound |-> o], h, NameEnd(m), TRUE, p) :
      h \in {Host, Stranger}, i \in {<<>>, <<148, 4, 0, 0>>}, t \in {<<>>, <<1, 1, 5, 2>>}, p \in {80, 443, 8443},
      s \in {<<>>, <<1, 2, 3>>}, b \in Before, pad \in {<<>>, <<0, 0>>}, o \in BOOLEAN }

\* A first segment of every length.
Long == Around(Host, <<1>>, <<19, 1>>, Extension(10, <<0, 2, 0, 29>>))
Cuts == {Hello(Out(TCP(<<>>, <<>>, 443, Cut(Long, 0, k))), Host, NameEnd(Long), k >= NameEnd(Long), 443) :
           k \in 0..Len(Long)}

\* Any one byte is wrong.
Garbled ==
  LET data == TCP(<<>>, <<1, 1, 5, 2>>, 443, Long)
  IN  {Other(Out([data EXCEPT ![i] = v])) : i \in DOMAIN data, v \in {0, 1, 4, 70, 255}}

\* UDP of every kind.
Datagrams ==
  { [pkt |-> [Data |-> UDP(p, <<first>> \o version \o rest), Outbound |-> o],
     kind |-> IF p = 443 /\ first \in 192..207 /\ version = <<0, 0, 0, 1>> THEN "initial" ELSE "other"] :
      p \in {53, 443}, first \in {0, 64, 128, 191, 192, 207, 208, 224, 255},
      version \in {<<0, 0, 0, 1>>, <<0, 0, 0, 0>>, <<1, 0, 0, 0>>, <<0, 0, 0>>},
      rest \in {<<>>, <<8>>}, o \in BOOLEAN }

All == Plain \cup Shapes \cup Cuts \cup Garbled \cup Datagrams
=============================================================================
