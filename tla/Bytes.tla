------------------------------- MODULE Bytes -------------------------------
(***************************************************************************)
(* Byte slices and the fixed-width numbers in them, as the packages        *)
(* packet, tls and quic read and write them.  A slice is a sequence of     *)
(* bytes; offsets count from 0, as they do in Go.                          *)
(***************************************************************************)
EXTENDS Integers, Sequences

Byte == 0..255

(* How many values a uint16 has.                                           *)
Size16 == 65536

At(b, i) == b[i + 1]

(* b[from:to]                                                              *)
Cut(b, from, to) == SubSeq(b, from + 1, to)

(* make([]byte, n)                                                         *)
Zeros(n) == [i \in 1..n |-> 0]

(* uint16(b[i])<<8 | uint16(b[i+1]), and back.                             *)
U16(b, i) == 256 * At(b, i) + At(b, i + 1)
Bytes16(n) == <<(n \div 256) % 256, n % 256>>
=============================================================================
