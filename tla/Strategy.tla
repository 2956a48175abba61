------------------------------ MODULE Strategy ------------------------------
(***************************************************************************)
(* The desync strategies of internal/desync/desync.go.                     *)
(*                                                                         *)
(* A segment is a packet.TCPPacket of which only what the strategies       *)
(* change is kept: its payload is the bytes from .. to-1 of some stream,   *)
(* or as many zeros (a decoy).                                             *)
(***************************************************************************)
EXTENDS Integers, Sequences

CONSTANT SeqSpace    \* how many sequence numbers there are; uint32: 2^32

Strategies == {"split", "disorder", "fake", "fakedsplit"}

Length(seg) == seg.to - seg.from

(* Addition and subtraction of uint32.                                     *)
Plus(x, y) == IF x + y < SeqSpace THEN x + y ELSE x + y - SeqSpace
Minus(x, y) == IF x >= y THEN x - y ELSE x - y + SeqSpace

-----------------------------------------------------------------------------
(* Definitions with a plausible bug, which the properties of module        *)
(* Delivery are shown to catch.                                            *)

(* The sequence number of the second half is that of the first.            *)
SecondSeqKept(orig, pos) == [orig EXCEPT !.from = @ + pos]

(* The sequence number is not cut to 32 bits.                              *)
SecondWide(orig, pos) == [orig EXCEPT !.from = @ + pos, !.seq = @ + pos]

(* The decoy comes last.                                                   *)
FakesLast(strategy, orig, ttl, real) ==
  IF strategy \in {"fake", "fakedsplit"} THEN real \o <<[orig EXCEPT !.ttl = ttl, !.decoy = TRUE]>>
  ELSE real

-----------------------------------------------------------------------------
Clamp(v, lo, hi) == IF hi < lo \/ v < lo THEN lo ELSE IF v > hi THEN hi ELSE v

(* The two halves of splitAt.                                              *)
First(orig, pos) == [orig EXCEPT !.to = orig.from + pos]
Second(orig, pos) == [orig EXCEPT !.from = @ + pos, !.seq = Plus(@, pos)]

(* makeFake puts the decoy before the segments in real; a TTL of 0 means   *)
(* DefaultFakeTTL.                                                         *)
DefaultFakeTTL == 8
Fakes(strategy, orig, ttl, real) ==
  IF strategy \in {"fake", "fakedsplit"}
  THEN <<[orig EXCEPT !.ttl = IF ttl = 0 THEN DefaultFakeTTL ELSE ttl, !.decoy = TRUE]>> \o real
  ELSE real

(* Strategy.Apply.                                                         *)
Apply(strategy, orig, splitpos, ttl) ==
  LET pos  == Clamp(splitpos, 1, Length(orig) - 1)
      real == CASE Length(orig) < 2 \/ strategy = "fake" -> <<orig>>
                [] Length(orig) >= 2 /\ strategy = "disorder" -> <<Second(orig, pos), First(orig, pos)>>
                [] OTHER -> <<First(orig, pos), Second(orig, pos)>>
  IN  Fakes(strategy, orig, ttl, real)
=============================================================================
