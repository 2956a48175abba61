------------------------------- MODULE Packet -------------------------------
(***************************************************************************)
(* The IPv4 codec of internal/packet/packet.go and the QUIC test of        *)
(* internal/quic/quic.go.                                                  *)
(*                                                                         *)
(* A decoded packet has a number where the engine computes with the field, *)
(* and the bytes themselves where it only copies it.  A uint32 is a pair   *)
(* of its halves, since TLC has no 32-bit unsigned numbers.  A function    *)
(* that returns an error returns <<>>, otherwise <<its result>>.           *)
(***************************************************************************)
EXTENDS Bytes

ProtoTCP == 6
ProtoUDP == 17
PSH == 8

Uint16 == 0..(Size16 - 1)
TCPPackets == [
  TOS : Byte, Frag : Seq(Byte), TTL : Byte, Addrs : Seq(Byte), IPOpts : Seq(Byte),
  SrcPort : Uint16, DstPort : Uint16, Seq : Uint16 \X Uint16, Ack : Seq(Byte),
  Flags : Byte, Window : Seq(Byte), Urgent : Seq(Byte), TCPOpts : Seq(Byte), Payload : Seq(Byte)]

-----------------------------------------------------------------------------
(* Definitions with a plausible bug, which the properties of module Engine *)
(* are shown to catch.                                                     *)

(* The last byte of an odd length is left out of the sum.                  *)
WordsEven(b) == [i \in 1..(Len(b) \div 2) |-> U16(b, 2 * i - 2)]

(* The lower half is added without a carry.                                *)
AddSeqWide(seq, n) == <<seq[1], seq[2] + n>>

(* The version is not looked at.                                           *)
IsInitialAnyVersion(payload) ==
  Len(payload) >= 5 /\ At(payload, 0) >= 192 /\ (At(payload, 0) \div 16) % 4 = 0

-----------------------------------------------------------------------------
(* Checksums.                                                              *)

(* The 16-bit words of a slice, the last one filled up with a zero.        *)
Words(b) == [i \in 1..((Len(b) + 1) \div 2) |->
               IF 2 * i <= Len(b) THEN U16(b, 2 * i - 2) ELSE 256 * b[2 * i - 1]]

Checksum(b) ==
  LET w == Words(b)
      sum[i \in 0..Len(w)] == IF i = 0 THEN 0 ELSE sum[i - 1] + w[i]
      fold[n \in Nat] == IF n < Size16 THEN n ELSE fold[(n % Size16) + (n \div Size16)]
  IN  Size16 - 1 - fold[sum[Len(w)]]

Pseudo(addrs, tcp) == addrs \o <<0, ProtoTCP>> \o Bytes16(Len(tcp))

-----------------------------------------------------------------------------
(* IPv4 and TCP.                                                           *)

IHL(buf) == 4 * (At(buf, 0) % 16)

ParseTCP(buf) ==
  LET ihl     == IHL(buf)
      total   == U16(buf, 2)
      tcp     == Cut(buf, ihl, IF total < ihl \/ total > Len(buf) THEN Len(buf) ELSE total)
      dataOff == 4 * (At(tcp, 12) \div 16)
  IN  IF /\ Len(buf) >= 20
         /\ At(buf, 0) \div 16 = 4
         /\ ihl >= 20 /\ Len(buf) >= ihl
         /\ At(buf, 9) = ProtoTCP
         /\ Len(tcp) >= 20
         /\ dataOff >= 20 /\ dataOff <= Len(tcp)
      THEN << [ TOS     |-> At(buf, 1),
                Frag    |-> Cut(buf, 4, 8),
                TTL     |-> At(buf, 8),
                Addrs   |-> Cut(buf, 12, 20),
                IPOpts  |-> Cut(buf, 20, ihl),
                SrcPort |-> U16(tcp, 0),
                DstPort |-> U16(tcp, 2),
                Seq     |-> <<U16(tcp, 4), U16(tcp, 6)>>,
                Ack     |-> Cut(tcp, 8, 12),
                Flags   |-> At(tcp, 13),
                Window  |-> Cut(tcp, 14, 16),
                Urgent  |-> Cut(tcp, 18, 20),
                TCPOpts |-> Cut(tcp, 20, dataOff),
                Payload |-> Cut(tcp, dataOff, Len(tcp)) ] >>
      ELSE <<>>

Serialize(p) ==
  LET ihl    == 20 + Len(p.IPOpts)
      tcpHdr == 20 + Len(p.TCPOpts)
      ip(chk) ==
        <<64 + ihl \div 4, p.TOS>> \o Bytes16(ihl + tcpHdr + Len(p.Payload)) \o p.Frag
          \o <<p.TTL, ProtoTCP>> \o chk \o p.Addrs \o p.IPOpts
      tcp(chk) ==
        Bytes16(p.SrcPort) \o Bytes16(p.DstPort) \o Bytes16(p.Seq[1]) \o Bytes16(p.Seq[2])
          \o p.Ack \o <<(16 * (tcpHdr \div 4)) % 256, p.Flags>> \o p.Window \o chk \o p.Urgent
          \o p.TCPOpts \o p.Payload
      blank  == tcp(Zeros(2))
  IN  ip(Bytes16(Checksum(ip(Zeros(2)))))
        \o tcp(Bytes16(Checksum(Pseudo(p.Addrs, blank) \o blank)))

(* orig.Seq + uint32(n), for n < 2^16.                                     *)
AddSeq(seq, n) == << (seq[1] + (seq[2] + n) \div Size16) % Size16, (seq[2] + n) % Size16 >>

-----------------------------------------------------------------------------
(* IPv4 and UDP, and QUIC.                                                 *)

ParseUDP(buf) ==
  LET ihl    == IHL(buf)
      length == U16(buf, ihl + 4)
      end    == IF length < 8 \/ ihl + length > Len(buf) THEN Len(buf) ELSE ihl + length
  IN  IF /\ Len(buf) >= 20
         /\ At(buf, 0) \div 16 = 4
         /\ ihl >= 20 /\ Len(buf) >= ihl + 8
         /\ At(buf, 9) = ProtoUDP
      THEN <<[DstPort |-> U16(buf, ihl + 2), Payload |-> Cut(buf, ihl + 8, end)]>>
      ELSE <<>>

(* Form and fixed bit set, packet type 0, version 1.                       *)
IsInitial(payload) ==
  /\ Len(payload) >= 5
  /\ At(payload, 0) >= 192
  /\ Cut(payload, 1, 5) = <<0, 0, 0, 1>>
  /\ (At(payload, 0) \div 16) % 4 = 0
=============================================================================
