------------------------------- MODULE Engine -------------------------------
(***************************************************************************)
(* The verdict of Engine.Process (internal/engine/engine.go) on a packet   *)
(* as it comes from the driver, byte for byte: which packets are injected  *)
(* in its place.  The engine composes the host list, the packet codec, the *)
(* ClientHello parser and the strategies; the list is loaded before it     *)
(* starts.  How packets come and go is in modules Manager and Delivery.    *)
(***************************************************************************)
EXTENDS Strategy, Packet, ClientHello, HostList, Config

CONSTANTS
  Confs,      \* the configurations the engine is started with
  File,       \* the lines of the list files, one after the other
  Traffic,    \* what the driver may capture, and what its sender meant by it
  None

Captures == [Data : Seq(Byte), Outbound : BOOLEAN]

(* A captured packet fits the buffer of the source (maxPacketSize).        *)
ASSUME TrafficAssumption ==
  /\ \A c \in Confs : Validate(c)
  /\ \A t \in Traffic :
       /\ t.pkt \in Captures /\ Len(t.pkt.Data) < Size16
       /\ t.kind \in {"hello", "initial", "other"}
       /\ t.kind = "hello" =>
            t.host \in Seq(Byte) /\ t.end \in Nat /\ t.whole \in BOOLEAN /\ t.port \in 1..(Size16 - 1)
  /\ None \notin Confs \cup Traffic
  /\ File \in Seq(Seq(Byte))
  /\ SeqSpace \in Nat /\ SeqSpace >= Size16

VARIABLES
  read,    \* how many lines of File have been read
  list,    \* the domains of the list
  conf,    \* the configuration; None until the engine is started
  sent,    \* the packet that has been captured
  out      \* the packets to inject in its place

vars == <<read, list, conf, sent, out>>

TypeOK ==
  /\ read \in 0..Len(File)
  /\ list \subseteq Seq(Byte) \ {<<>>}
  /\ conf \in Confs \cup {None}
  /\ sent \in Traffic \cup {None}
  /\ out \in Seq(Captures)

Init ==
  /\ read = 0
  /\ list = {}
  /\ conf = None
  /\ sent = None
  /\ out = <<>>

-----------------------------------------------------------------------------
(* A definition with a plausible bug, which the properties are shown to    *)
(* catch: the cut is where the name begins.                                *)
SplitPosName(c, payload, name) == name.from

-----------------------------------------------------------------------------
SplitOffset(c, payload, name) ==
  IF c.SplitPos = "sni" THEN name.from + (name.to - name.from) \div 2 ELSE Len(payload) \div 2

(* The packet that a strategy is given, and those it returns: all but the  *)
(* last part of a payload lose their PSH flag.                             *)
Whole(tcp) == [from |-> 0, to |-> Len(tcp.Payload), seq |-> 0, ttl |-> tcp.TTL, decoy |-> FALSE]
Render(tcp, seg) ==
  [tcp EXCEPT
     !.TTL = seg.ttl,
     !.Seq = AddSeq(@, seg.seq),
     !.Flags = IF seg.to < Len(tcp.Payload) /\ (@ \div PSH) % 2 = 1 THEN @ - PSH ELSE @,
     !.Payload = IF seg.decoy THEN Zeros(Length(seg)) ELSE Cut(@, seg.from, seg.to)]

Rewrite(c, pkt, tcp, name) ==
  LET segments == Apply(c.Strategy, Whole(tcp), SplitOffset(c, tcp.Payload, name), c.FakeTTL)
  IN  [i \in DOMAIN segments |-> [pkt EXCEPT !.Data = Serialize(Render(tcp, segments[i]))]]

ProcessTCP(c, domains, pkt, tcp) ==
  LET name == ParseClientHello(tcp.Payload) IN
  IF /\ tcp.DstPort \in ToSet(c.Ports)
     /\ name # <<>>
     /\ Match(domains, Cut(tcp.Payload, name[1].from, name[1].to))
  THEN Rewrite(c, pkt, tcp, name[1])
  ELSE <<pkt>>

ProcessUDP(c, pkt, udp) ==
  IF c.QUIC = "drop" /\ udp.DstPort = 443 /\ IsInitial(udp.Payload) THEN <<>> ELSE <<pkt>>

Process(c, domains, pkt) ==
  LET tcp == ParseTCP(pkt.Data)
      udp == ParseUDP(pkt.Data)
  IN  CASE ~pkt.Outbound -> <<pkt>>
        [] pkt.Outbound /\ tcp # <<>> -> ProcessTCP(c, domains, pkt, tcp[1])
        [] pkt.Outbound /\ tcp = <<>> /\ udp # <<>> -> ProcessUDP(c, pkt, udp[1])
        [] OTHER -> <<pkt>>

(* Which packets the driver captures for a filter, by their headers.       *)
Selects(filter, pkt) ==
  LET port == U16(pkt.Data, IHL(pkt.Data) + 2) IN
  /\ pkt.Outbound
  /\ \/ At(pkt.Data, 9) = ProtoTCP /\ port \in filter.tcp
     \/ At(pkt.Data, 9) = ProtoUDP /\ port \in filter.udp

-----------------------------------------------------------------------------
(* loadLists, then engine.New: a list without domains is refused.          *)
ReadLine ==
  /\ conf = None
  /\ read < Len(File)
  /\ read' = read + 1
  /\ list' = LoadLine(list, File[read + 1])
  /\ UNCHANGED <<conf, sent, out>>

New(c) ==
  /\ conf = None
  /\ list # {}
  /\ conf' = c
  /\ UNCHANGED <<read, list, sent, out>>

(* The loop of Run, its sends in one step.                                 *)
Recv(t) ==
  /\ conf # None
  /\ sent = None
  /\ sent' = t
  /\ out' = Process(conf, list, t.pkt)
  /\ UNCHANGED <<read, list, conf>>

Inject ==
  /\ sent # None
  /\ sent' = None
  /\ out' = <<>>
  /\ UNCHANGED <<read, list, conf>>

Next == ReadLine \/ (\E c \in Confs : New(c)) \/ (\E t \in Traffic : Recv(t)) \/ Inject

Spec == Init /\ [][Next]_vars

-----------------------------------------------------------------------------
(* Properties.  They are stated about what the sender meant, and about the *)
(* bytes that are injected.                                                *)

Rewritten == sent # None /\ out \notin {<<>>, <<sent.pkt>>}

(* What a line or host means, if anything: case, the blanks around it and  *)
(* the dot of a fully qualified name do not count.                         *)
Inked(s) == {i \in DOMAIN s : s[i] \notin Blanks}
Meant(s) == {TrimDot(Lower(SubSeq(s, m, n))) :
               m \in {i \in Inked(s) : \A k \in Inked(s) : i <= k},
               n \in {i \in Inked(s) : \A k \in Inked(s) : i >= k}}
Wanted == {d \in UNION {Meant(File[i]) : i \in 1..read} : d # <<>>}
Under(host, domain) ==
  host = domain \/ \E i \in 0..Len(host) : SubSeq(host, i + 1, Len(host)) = <<Dot>> \o domain

(* "matches the exact host and any of its subdomains" (hostlist), wherever *)
(* in the ClientHello the name stands: a segment is rewritten exactly if   *)
(* it has the whole name of a host on the list.                            *)
TargetsFound == sent # None /\ sent.kind = "hello" =>
  (Rewritten <=> /\ sent.pkt.Outbound /\ sent.port \in ToSet(conf.Ports) /\ sent.whole
                 /\ \E d \in Wanted, h \in Meant(sent.host) : d[1] # Hash /\ Under(h, d))

(* "fail-open": whatever the bytes are, only a QUIC Initial is dropped.    *)
OnlyInitialsDropped == sent # None =>
  (out = <<>> <=> conf.QUIC = "drop" /\ sent.kind = "initial" /\ sent.pkt.Outbound)

(* The driver hands over every packet that Process would not send on as it *)
(* is: the filter and the checks of Process agree for every configuration. *)
FilterCovers == sent # None /\ out # <<sent.pkt>> => Selects(Filter(conf), sent.pkt)

(* How far apart two sequence numbers are; -1 for further than a payload.  *)
Distance(from, to) ==
  CASE to[1] = from[1] -> to[2] - from[2]
    [] to[1] = (from[1] + 1) % Size16 -> Size16 + to[2] - from[2]
    [] OTHER -> -1

IsDecoy(p) == p.TTL = conf.FakeTTL
Part(orig, p) ==
  LET off == Distance(orig.Seq, p.Seq) IN
  /\ off \in 0..Len(orig.Payload)
  /\ off + Len(p.Payload) <= Len(orig.Payload)
  /\ p.Payload = Cut(orig.Payload, off, off + Len(p.Payload))
  /\ p = [orig EXCEPT !.Seq = p.Seq, !.Payload = p.Payload, !.Flags = p.Flags]
  /\ off + Len(p.Payload) = Len(orig.Payload) => p.Flags = orig.Flags

(* What is injected for a packet parses again, and its real parts are the  *)
(* bytes of the packet at their sequence numbers, all of them, under the   *)
(* packet's own headers and options; decoys differ in TTL and payload.     *)
Reassembles == Rewritten =>
  LET orig == ParseTCP(sent.pkt.Data)[1] IN
  /\ \A i \in DOMAIN out : ParseTCP(out[i].Data) # <<>>
  /\ LET parts == {ParseTCP(out[i].Data)[1] : i \in DOMAIN out}
         real  == {p \in parts : ~IsDecoy(p)}
     IN  /\ \A p \in real : Part(orig, p)
         /\ \A k \in 0..(Len(orig.Payload) - 1) : \E p \in real :
              LET off == Distance(orig.Seq, p.Seq) IN off <= k /\ k < off + Len(p.Payload)
         /\ \A p \in parts \ real :
              p = [orig EXCEPT !.TTL = conf.FakeTTL, !.Payload = Zeros(Len(orig.Payload))]

(* "correct lengths and checksums": the ones' complement sum of every      *)
(* header that is written, and of every segment with its pseudo-header, is *)
(* zero, that is a multiple of 2^16-1.                                     *)
Sum(b) == LET s[i \in 0..Len(b)] == IF i = 0 THEN 0 ELSE s[i - 1] + b[i] * (IF i % 2 = 1 THEN 256 ELSE 1)
          IN  s[Len(b)]
ChecksumsValid == Rewritten => \A i \in DOMAIN out :
  LET buf == out[i].Data
      tcp == Cut(buf, IHL(buf), Len(buf))
  IN  /\ Sum(Cut(buf, 0, IHL(buf))) % (Size16 - 1) = 0
      /\ Sum(Pseudo(Cut(buf, 12, 20), tcp) \o tcp) % (Size16 - 1) = 0
      /\ U16(buf, 2) = Len(buf)

(* "so neither half contains the whole name": of the packets that are      *)
(* injected for a cutting strategy, none but the decoys has the payload    *)
(* from the first byte of the host name to its last.                       *)
NameCut == Rewritten /\ sent.kind = "hello" /\ Len(sent.host) > 1
             /\ conf.SplitPos = "sni" /\ conf.Strategy # "fake" =>
  \A i \in DOMAIN out :
    LET p   == ParseTCP(out[i].Data)[1]
        off == Distance(ParseTCP(sent.pkt.Data)[1].Seq, p.Seq)
    IN  IsDecoy(p) \/ off > sent.end - Len(sent.host) \/ off + Len(p.Payload) < sent.end
=============================================================================
