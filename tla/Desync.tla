------------------------------- MODULE Desync -------------------------------
(***************************************************************************)
(* What the engine makes of one outbound TCP segment of a connection:      *)
(* Engine.Process (internal/engine/engine.go) for segments as intervals of *)
(* the client's byte stream.  The stream begins with a ClientHello; the    *)
(* offsets where its host name begins and ends are constants.  Module      *)
(* Engine has Process for packets as bytes.                                *)
(***************************************************************************)
EXTENDS Strategy

CONSTANTS
  N,           \* the length of the client's stream
  NameFrom,    \* SNIOffset
  NameTo,      \* SNIOffset + SNILength
  Listed,      \* does the list match the host?
  SplitPos     \* "sni" | "middle"

ASSUME StreamAssumption ==
  /\ N \in Nat /\ SeqSpace \in Nat /\ N < SeqSpace
  /\ NameFrom \in 1..N /\ NameTo \in 1..N /\ NameFrom < NameTo
  /\ Listed \in BOOLEAN
  /\ SplitPos \in {"sni", "middle"}

(* A packet.TCPPacket, its payload being stream[from .. to-1] or zeros.    *)
Segments == [from : 0..N, to : 0..N, seq : 0..(SeqSpace - 1), ttl : 0..255, decoy : BOOLEAN]

-----------------------------------------------------------------------------
(* Definitions with a plausible bug, which the properties of module        *)
(* Delivery are shown to catch.                                            *)

(* The cut is where the host name begins.                                  *)
SplitPosName(seg) == NameFrom

(* What is not understood is dropped.                                      *)
PassDropped(seg) == <<>>

-----------------------------------------------------------------------------
(* ParseClientHello succeeds on a segment that begins with the stream and  *)
(* has the whole server_name extension; no other bytes of the stream look  *)
(* like a ClientHello.                                                     *)
HasSNI(seg) == seg.from = 0 /\ seg.to >= NameTo

Desynced(seg) == HasSNI(seg) /\ Listed

SplitOffset(seg) == IF SplitPos = "sni" THEN NameFrom + (NameTo - NameFrom) \div 2
                    ELSE Length(seg) \div 2

(* A segment that is let through as it is.                                 *)
Pass(seg) == <<seg>>

(* Process, for an outbound IPv4 TCP segment to a target port.             *)
Process(conf, seg) ==
  IF Desynced(seg) THEN Apply(conf.Strategy, seg, SplitOffset(seg), conf.FakeTTL) ELSE Pass(seg)
=============================================================================
