---------------------------- MODULE PacketProofs ----------------------------
(***************************************************************************)
(* Proofs about the packet codec (module Packet), for every packet and     *)
(* payload. Serialize writes the checksums that a receiver accepts, and    *)
(* the length that the packet has (SerializeCorrect); ParseTCP returns     *)
(* what Serialize was given (RoundTrip); and what ParseTCP returns can be  *)
(* written again (ParseWellFormed).                                        *)
(*                                                                         *)
(* For the checksums: the carry loop of Checksum returns the remainder of  *)
(* its sum by 2^16-1, and the words of a slice sum up to its bytes with    *)
(* weights 256 and 1; so writing the complement into the field that was    *)
(* zero makes the sum a multiple of 2^16-1. For the round trip: a buffer   *)
(* is cut where its parts were appended. The sums and the loop are         *)
(* functions that recurse; what they return is proved by induction, which  *)
(* is stated for the set of numbers that have a property.                  *)
(***************************************************************************)
EXTENDS Packet, SequenceTheorems, WellFoundedInduction, TLAPS

(* A set of natural numbers that is not empty has a least element.         *)
LEMMA Least ==
  ASSUME NEW T \in SUBSET Nat, T # {}
  PROVE  \E n \in T : \A m \in T : n <= m
<1>1. PICK n \in T : \A m \in T : ~(<<m, n>> \in OpToRel(<, Nat))
  BY NatLessThanWellFounded, WFMin, Zenon
<1>2. \A m \in T : ~(m < n)
  BY <1>1 DEF OpToRel
<1> QED BY <1>2

(* Induction, for a property given as the set that has it.                 *)
LEMMA Induction ==
  ASSUME NEW S, 0 \in S, \A n \in Nat : n \in S => n + 1 \in S
  PROVE  Nat \subseteq S
<1> SUFFICES ASSUME ~(Nat \subseteq S)
             PROVE  FALSE
  OBVIOUS
<1> DEFINE T == Nat \ S
<1>1. T \in SUBSET Nat /\ T # {}
  OBVIOUS
<1>2. PICK n \in T : \A m \in T : n <= m
  BY <1>1, Least
<1>3. n \in Nat /\ n # 0
  OBVIOUS
<1>4. n - 1 \in Nat /\ n - 1 \notin T
  BY <1>2, <1>3
<1> QED BY <1>3, <1>4

(* Sums that are defined by recursion are what their definition says.      *)
LEMMA PrefixSums ==
  ASSUME NEW n \in Nat, NEW w \in [1..n -> Int]
  PROVE  \E g : g = [i \in 0..n |-> IF i = 0 THEN 0 ELSE g[i - 1] + w[i]]
<1> DEFINE Upto(k, g) == g[0] = 0 /\ \A i \in 1..k : g[i] = g[i - 1] + w[i]
           S == {k \in Nat : k <= n => \E g \in [0..k -> Int] : Upto(k, g)}
<1>1. 0 \in S
  <2> DEFINE g == [i \in 0..0 |-> 0]
  <2>1. g \in [0..0 -> Int] /\ Upto(0, g)
    OBVIOUS
  <2> QED BY <2>1
<1>2. ASSUME NEW k \in Nat, k \in S
      PROVE  k + 1 \in S
  <2>1. ASSUME k + 1 <= n
        PROVE  \E g \in [0..(k + 1) -> Int] : Upto(k + 1, g)
    <3>1. PICK g \in [0..k -> Int] : g[0] = 0 /\ \A i \in 1..k : g[i] = g[i - 1] + w[i]
      BY <1>2, <2>1, SMTT(30)
    <3> DEFINE h == [i \in 0..(k + 1) |-> IF i = k + 1 THEN g[k] + w[k + 1] ELSE g[i]]
    <3>2. h \in [0..(k + 1) -> Int]
      BY <2>1, <3>1, SMTT(30)
    <3>3. Upto(k + 1, h)
      BY <3>1
    <3> QED BY <3>2, <3>3
  <2> HIDE DEF Upto
  <2> QED BY <2>1
<1> HIDE DEF S
<1>3. n \in S
  BY <1>1, <1>2, Induction
<1>4. PICK g \in [0..n -> Int] : Upto(n, g)
  BY <1>3 DEF S
<1>5. g = [i \in 0..n |-> IF i = 0 THEN 0 ELSE g[i - 1] + w[i]]
  BY <1>4
<1> QED BY <1>5

(* The partial sums of numbers are numbers.                                *)
LEMMA PrefixSumsType ==
  ASSUME NEW n \in Nat, NEW w \in [1..n -> Int], NEW g,
         g = [i \in 0..n |-> IF i = 0 THEN 0 ELSE g[i - 1] + w[i]]
  PROVE  g \in [0..n -> Int]
<1> DEFINE S == {k \in Nat : k <= n => g[k] \in Int}
<1>1. 0 \in S
  OBVIOUS
<1>2. ASSUME NEW k \in Nat, k \in S
      PROVE  k + 1 \in S
  <2>1. ASSUME k + 1 <= n
        PROVE  g[k + 1] \in Int
    <3>1. g[k + 1] = g[k] + w[k + 1]
      BY <2>1
    <3> QED BY <1>2, <2>1, <3>1
  <2> QED BY <2>1
<1> HIDE DEF S
<1>3. Nat \subseteq S
  BY <1>1, <1>2, Induction
<1>4. \A i \in 0..n : g[i] \in Int
  BY <1>3, SMTT(30) DEF S
<1> QED BY <1>4

-----------------------------------------------------------------------------
(* Arithmetic of 16 bits.                                                  *)
LEMMA Size16Range == Size16 \in Nat /\ Size16 > 255
<1>1. Size16 \in Nat
  BY SMTT(30) DEF Size16
<1>2. Size16 > 255
  BY SMTT(30) DEF Size16
<1> QED BY <1>1, <1>2

(* The range of a remainder.                                               *)
LEMMA RemainderRange ==
  ASSUME NEW m \in Nat, m > 0, NEW n \in Nat
  PROVE  n % m \in 0..(m - 1)
OBVIOUS

(* A number is its upper 16 bits and its lower 16 bits.                    *)
LEMMA HighLow ==
  ASSUME NEW n \in Nat
  PROVE  /\ n \div Size16 \in Nat /\ n % Size16 \in 0..(Size16 - 1)
         /\ n = Size16 * (n \div Size16) + (n % Size16)
<1>1. n \div Size16 \in Nat
  BY SMTT(30) DEF Size16
<1>2. n % Size16 \in 0..(Size16 - 1)
  BY Size16Range, RemainderRange
<1>3. n = Size16 * (n \div Size16) + (n % Size16)
  BY SMTT(30) DEF Size16
<1> QED BY <1>1, <1>2, <1>3

(* Multiplication distributes over addition.                               *)
LEMMA Distribute ==
  ASSUME NEW a \in Int, NEW b \in Int, NEW c \in Int
  PROVE  a * (b + c) = a * b + a * c
OBVIOUS

(* A number that does not fit 16 bits has a carry.                         *)
LEMMA CarryPositive ==
  ASSUME NEW m \in Nat, NEW hi \in Nat, NEW lo \in Nat, lo < m, m <= m * hi + lo
  PROVE  hi > 0
<1>1. CASE hi = 0
  <2>1. m * 0 = 0
    OBVIOUS
  <2> QED BY <1>1, <2>1
<1> QED BY <1>1

(* Numbers that differ by a multiple of 2^16-1 have the same remainder.    *)
LEMMA SameRemainder ==
  ASSUME NEW a \in Nat, NEW b \in Nat, NEW k \in Nat, a = b + (Size16 - 1) * k
  PROVE  a % (Size16 - 1) = b % (Size16 - 1)
<1>1. Size16 - 1 = 65535
  BY SMT DEF Size16
<1>2. a = b + 65535 * k
  BY <1>1
<1>3. a % 65535 = b % 65535
  BY <1>2
<1> QED BY <1>1, <1>3

(* Folding the carry in takes away a multiple of 2^16-1.                   *)
LEMMA CarryRemainder ==
  ASSUME NEW hi \in Int, NEW lo \in Int, NEW x \in Int, NEW k \in Int,
         lo + hi = x + (Size16 - 1) * k
  PROVE  Size16 * hi + lo = x + (Size16 - 1) * (k + hi)
<1>1. (Size16 - 1) * (k + hi) = (Size16 - 1) * k + (Size16 - 1) * hi
  BY Size16Range, Distribute
<1>2. (Size16 - 1) * hi = Size16 * hi - hi
  BY SMTT(30) DEF Size16
<1>3. (Size16 - 1) * k \in Int /\ Size16 * hi \in Int
  BY Size16Range
<1> QED BY <1>1, <1>2, <1>3

(* Folding the carry in makes a number that has a carry smaller.           *)
LEMMA CarrySmaller ==
  ASSUME NEW hi \in Nat, NEW lo \in Nat, hi > 0
  PROVE  lo + hi < Size16 * hi + lo
BY SMTT(30) DEF Size16

(* Adding the carries to the lower 16 bits until there are none ends, and  *)
(* keeps the remainder by 2^16-1.                                          *)
Folds(f) == f = [n \in Nat |-> IF n < Size16 THEN n ELSE f[(n % Size16) + (n \div Size16)]]

(* There is such a function: every number above 0 has one remainder in     *)
(* 1..2^16-1.                                                              *)
LEMMA FoldExists == \E f : Folds(f)
<1> DEFINE f == [n \in Nat |-> IF n = 0 THEN 0 ELSE 1 + ((n - 1) % (Size16 - 1))]
<1>0. /\ \A n \in Nat : f[n] = IF n = 0 THEN 0 ELSE 1 + ((n - 1) % (Size16 - 1))
      /\ f = [n \in Nat |-> f[n]]
  OBVIOUS
<1> HIDE DEF f
<1>1. ASSUME NEW n \in Nat
      PROVE  f[n] = IF n < Size16 THEN n ELSE f[(n % Size16) + (n \div Size16)]
  <2>0. f[n] = IF n = 0 THEN 0 ELSE 1 + ((n - 1) % (Size16 - 1))
    BY <1>0
  <2>1. CASE n < Size16
    <3>1. n # 0 => (n - 1) % (Size16 - 1) = n - 1
      BY <2>1, SMTT(30) DEF Size16
    <3>2. f[n] = n
      BY <2>0, <3>1
    <3> QED BY <2>1, <3>2
  <2>2. CASE n >= Size16
    <3>1. PICK hi, lo : hi = n \div Size16 /\ lo = n % Size16
      OBVIOUS
    <3>2. hi \in Nat /\ lo \in 0..(Size16 - 1) /\ n = Size16 * hi + lo
      <4>1. /\ n \div Size16 \in Nat /\ n % Size16 \in 0..(Size16 - 1)
            /\ n = Size16 * (n \div Size16) + (n % Size16)
        BY HighLow
      <4> QED BY <3>1, <4>1, Zenon
    <3>3. hi > 0
      BY <2>2, <3>2, Size16Range, CarryPositive
    <3>4. lo + hi \in Nat /\ lo + hi # 0 /\ n # 0
      BY <2>2, <3>2, <3>3, Size16Range
    <3>5. PICK q \in Nat : q = lo + hi
      BY <3>4
    <3>6. (n - 1) % (Size16 - 1) = (q - 1) % (Size16 - 1)
      <4>1. PICK a, b : a = n - 1 /\ b = q - 1
        OBVIOUS
      <4>2. a \in Nat /\ b \in Nat
        BY <3>4, <3>5, <4>1
      <4>3. a = b + (Size16 - 1) * hi
        <5>1. (Size16 - 1) * hi = Size16 * hi - hi /\ Size16 * hi \in Nat
          BY <3>2, Size16Range
        <5> QED BY <3>2, <3>5, <4>1, <5>1
      <4>4. a % (Size16 - 1) = b % (Size16 - 1)
        BY <3>2, <4>2, <4>3, SameRemainder
      <4> QED BY <4>1, <4>4
    <3>7. f[n] = f[q]
      <4>1. f[q] = IF q = 0 THEN 0 ELSE 1 + ((q - 1) % (Size16 - 1))
        BY <1>0
      <4> QED BY <2>0, <3>4, <3>5, <3>6, <4>1, Zenon
    <3>8. ~(n < Size16)
      BY <2>2, Size16Range
    <3> QED BY <3>1, <3>5, <3>7, <3>8
  <2> QED BY <2>1, <2>2, Size16Range
<1>2. f = [n \in Nat |-> IF n < Size16 THEN n ELSE f[(n % Size16) + (n \div Size16)]]
  BY <1>0, <1>1
<1> QED BY <1>2 DEF Folds

(* The loop ends with 16 bits that differ from what it began with by a     *)
(* multiple of 2^16-1.                                                     *)
LEMMA FoldRemainder ==
  ASSUME NEW f, Folds(f), NEW n \in Nat
  PROVE  f[n] \in 0..(Size16 - 1) /\ \E k \in Nat : n = f[n] + (Size16 - 1) * k
<1> DEFINE Good(m) == f[m] \in 0..(Size16 - 1) /\ \E k \in Nat : m = f[m] + (Size16 - 1) * k
           T == {m \in Nat : ~Good(m)}
<1>1. SUFFICES ASSUME T # {}
               PROVE  FALSE
  OBVIOUS
<1>2. PICK m \in T : \A j \in T : m <= j
  <2>1. T \in SUBSET Nat
    OBVIOUS
  <2> HIDE DEF T
  <2> QED BY <1>1, <2>1, Least
<1>3. m \in Nat /\ ~Good(m) /\ \A j \in Nat : j < m => Good(j)
  BY <1>2
<1> HIDE DEF T
<1>4. CASE m < Size16
  <2>1. f[m] = m
    BY <1>3, <1>4 DEF Folds
  <2>2. m = f[m] + (Size16 - 1) * 0
    BY <1>3, <2>1, Size16Range
  <2> QED BY <1>3, <1>4, <2>1, <2>2, Size16Range
<1>5. CASE m >= Size16
  <2>0. PICK hi, lo : hi = m \div Size16 /\ lo = m % Size16
    OBVIOUS
  <2>1. hi \in Nat /\ lo \in 0..(Size16 - 1) /\ m = Size16 * hi + lo
    <3>1. /\ m \div Size16 \in Nat /\ m % Size16 \in 0..(Size16 - 1)
          /\ m = Size16 * (m \div Size16) + (m % Size16)
      BY <1>3, HighLow
    <3> QED BY <2>0, <3>1, Zenon
  <2>2. f[m] = f[lo + hi]
    <3>1. ~(m < Size16)
      BY <1>3, <1>5, Size16Range
    <3>2. f[m] = IF m < Size16 THEN m ELSE f[(m % Size16) + (m \div Size16)]
      BY <1>3 DEF Folds
    <3> QED BY <2>0, <3>1, <3>2
  <2>3. lo + hi \in Nat /\ lo + hi < m
    <3>1. hi > 0
      BY <1>5, <2>1, Size16Range, CarryPositive
    <3> QED BY <2>1, <3>1, CarrySmaller
  <2>4. f[lo + hi] \in 0..(Size16 - 1) /\ \E k \in Nat : lo + hi = f[lo + hi] + (Size16 - 1) * k
    BY <1>3, <2>3
  <2>5. PICK k \in Nat : lo + hi = f[lo + hi] + (Size16 - 1) * k
    BY <2>4
  <2>6. Size16 * hi + lo = f[lo + hi] + (Size16 - 1) * (k + hi)
    <3>1. f[lo + hi] \in Int /\ lo \in Int
      BY <2>1, <2>4, Size16Range
    <3> QED BY <2>1, <2>5, <3>1, CarryRemainder
  <2>7. k + hi \in Nat /\ m = f[m] + (Size16 - 1) * (k + hi)
    BY <2>1, <2>2, <2>6
  <2> QED BY <1>3, <2>2, <2>4, <2>7
<1> QED BY <1>3, <1>4, <1>5, Size16Range

-----------------------------------------------------------------------------
(* Sequences of bytes.                                                     *)
LEMMA BytesTyped ==
  /\ \A n \in Nat : Bytes16(n) \in Seq(Byte) /\ Len(Bytes16(n)) = 2
  /\ \A n \in Nat : Zeros(n) \in Seq(Byte) /\ Len(Zeros(n)) = n
  /\ \A a, b \in Byte : <<a, b>> \in Seq(Byte) /\ Len(<<a, b>>) = 2
<1>1. ASSUME NEW n \in Nat
      PROVE  Bytes16(n) \in Seq(Byte) /\ Len(Bytes16(n)) = 2
  <2>1. (n \div 256) % 256 \in Byte /\ n % 256 \in Byte
    BY DEF Byte
  <2> QED BY <2>1 DEF Bytes16
<1>2. ASSUME NEW n \in Nat
      PROVE  Zeros(n) \in Seq(Byte) /\ Len(Zeros(n)) = n
  BY DEF Zeros, Byte
<1> QED BY <1>1, <1>2

(* The bytes of a slice are numbers.                                       *)
LEMMA ByteNat ==
  ASSUME NEW b \in Seq(Byte), NEW i \in 1..Len(b)
  PROVE  b[i] \in Nat
<1>1. b[i] \in 0..255
  BY ElementOfSeq DEF Byte
<1>2. 0..255 \subseteq Nat
  OBVIOUS
<1> QED BY <1>1, <1>2, Zenon

(* An index within the slice reads a byte.                                 *)
LEMMA AtTyped ==
  ASSUME NEW b \in Seq(Byte), NEW i \in 0..(Len(b) - 1)
  PROVE  At(b, i) \in Byte
<1>1. i + 1 \in 1..Len(b)
  BY LenProperties
<1> QED BY <1>1, ElementOfSeq DEF At

(* Two bytes within the slice read 16 bits.                                *)
LEMMA U16Typed ==
  ASSUME NEW b \in Seq(Byte), NEW i \in 0..(Len(b) - 2)
  PROVE  U16(b, i) \in Uint16
<1>1. At(b, i) \in Byte /\ At(b, i + 1) \in Byte
  BY LenProperties, AtTyped
<1>2. PICK h, l : h = At(b, i) /\ l = At(b, i + 1)
  OBVIOUS
<1>3. h \in 0..255 /\ l \in 0..255
  BY <1>1, <1>2 DEF Byte
<1>4. 256 * h + l \in 0..(Size16 - 1)
  <2>1. h \in Nat /\ l \in Nat /\ h <= 255 /\ l <= 255
    BY <1>3
  <2>2. 256 * h + l \in Nat
    BY <2>1
  <2>3. 256 * h + l < Size16
    BY <2>1, SMTT(30) DEF Size16
  <2> QED BY <2>2, <2>3, Size16Range
<1> QED BY <1>2, <1>4 DEF U16, Uint16

(* A slice expression within bounds has the bytes between its bounds.      *)
LEMMA CutTyped ==
  ASSUME NEW b \in Seq(Byte), NEW i \in 0..Len(b), NEW j \in i..Len(b)
  PROVE  /\ Cut(b, i, j) \in Seq(Byte)
         /\ Len(Cut(b, i, j)) = j - i
         /\ \A k \in 1..(j - i) : Cut(b, i, j)[k] = b[i + k]
<1>1. Len(b) \in Nat
  BY LenProperties
<1>2. \A k \in (i + 1)..j : b[k] \in Byte
  BY <1>1, ElementOfSeq
<1> QED BY <1>1, <1>2, SubSeqProperties DEF Cut

(* What a buffer that begins with p and then x has at the place of x.      *)
Begins(q, p) == Len(p) <= Len(q) /\ \A i \in 1..Len(p) : q[i] = p[i]

(* What append makes of two slices.                                        *)
LEMMA ConcatBytes ==
  ASSUME NEW p \in Seq(Byte), NEW x \in Seq(Byte)
  PROVE  /\ p \o x \in Seq(Byte) /\ Len(p \o x) = Len(p) + Len(x)
         /\ \A i \in 1..Len(p) : (p \o x)[i] = p[i]
         /\ \A i \in 1..Len(x) : (p \o x)[Len(p) + i] = x[i]
<1> DEFINE px == p \o x
<1>1. Len(p) \in Nat /\ Len(x) \in Nat
  BY LenProperties
<1>2. /\ px \in Seq(Byte) /\ Len(px) = Len(p) + Len(x)
      /\ \A i \in 1..(Len(p) + Len(x)) :
           px[i] = IF i <= Len(p) THEN p[i] ELSE x[i - Len(p)]
  BY ConcatProperties
<1> HIDE DEF px
<1>3. \A i \in 1..Len(p) : px[i] = p[i]
  BY <1>1, <1>2
<1>4. ASSUME NEW i \in 1..Len(x)
      PROVE  px[Len(p) + i] = x[i]
  <2>1. /\ Len(p) + i \in 1..(Len(p) + Len(x))
        /\ ~(Len(p) + i <= Len(p)) /\ Len(p) + i - Len(p) = i
    BY <1>1
  <2> QED BY <1>2, <2>1
<1> QED BY <1>2, <1>3, <1>4 DEF px

(* A slice begins with itself, and with what something was appended to.    *)
LEMMA BeginsWhole ==
  ASSUME NEW q \in Seq(Byte), NEW p \in Seq(Byte)
  PROVE  Begins(q, q) /\ Begins(p \o q, p)
<1>1. Len(q) \in Nat /\ Len(p) \in Nat
  BY LenProperties
<1> QED BY <1>1, ConcatProperties DEF Begins

(* What follows a beginning p is found len(p) bytes further on.            *)
LEMMA PartAt ==
  ASSUME NEW q \in Seq(Byte), NEW p \in Seq(Byte), NEW x \in Seq(Byte), Begins(q, p \o x)
  PROVE  /\ Begins(q, p)
         /\ Cut(q, Len(p), Len(p) + Len(x)) = x
         /\ \A i \in 0..(Len(x) - 1) : At(q, Len(p) + i) = At(x, i)
<1>1. Len(q) \in Nat /\ Len(p) \in Nat /\ Len(x) \in Nat
  BY LenProperties
<1>2. /\ Len(p) + Len(x) <= Len(q)
      /\ \A i \in 1..Len(p) : q[i] = p[i]
      /\ \A i \in 1..Len(x) : q[Len(p) + i] = x[i]
  <2>1. /\ Len(p) + Len(x) <= Len(q)
        /\ \A i \in 1..(Len(p) + Len(x)) : q[i] = (p \o x)[i]
    BY ConcatBytes DEF Begins
  <2>2. /\ \A i \in 1..Len(p) : i \in 1..(Len(p) + Len(x))
        /\ \A i \in 1..Len(x) : Len(p) + i \in 1..(Len(p) + Len(x))
    BY <1>1
  <2>3. \A i \in 1..Len(p) : q[i] = p[i]
    BY <2>1, <2>2, ConcatBytes
  <2>4. \A i \in 1..Len(x) : q[Len(p) + i] = x[i]
    BY <2>1, <2>2, ConcatBytes
  <2> QED BY <2>1, <2>3, <2>4
<1>3. Cut(q, Len(p), Len(p) + Len(x)) = x
  <2> DEFINE c == Cut(q, Len(p), Len(p) + Len(x))
  <2>0. Len(p) \in 0..Len(q) /\ Len(p) + Len(x) \in Len(p)..Len(q)
    BY <1>1, <1>2
  <2>1. c \in Seq(Byte) /\ Len(c) = Len(x) /\ \A k \in 1..Len(x) : c[k] = q[Len(p) + k]
    <3>1. PICK m, n : m = Len(p) /\ n = Len(p) + Len(x)
      OBVIOUS
    <3>2. /\ Cut(q, m, n) \in Seq(Byte) /\ Len(Cut(q, m, n)) = n - m
          /\ \A k \in 1..(n - m) : Cut(q, m, n)[k] = q[m + k]
      BY <2>0, <3>1, CutTyped
    <3>3. n - m = Len(x)
      BY <1>1, <3>1
    <3> QED BY <3>1, <3>2, <3>3
  <2> HIDE DEF c
  <2>2. c = x
    BY <1>2, <2>1, SeqEqual
  <2> QED BY <2>2 DEF c
<1>4. ASSUME NEW i \in 0..(Len(x) - 1)
      PROVE  At(q, Len(p) + i) = At(x, i)
  <2>1. i + 1 \in 1..Len(x) /\ Len(p) + i + 1 = Len(p) + (i + 1)
    BY <1>1
  <2> QED BY <1>2, <2>1 DEF At
<1> QED BY <1>1, <1>2, <1>3, <1>4 DEF Begins

(* Writing 16 bits and reading them again.                                 *)
LEMMA HighLowByte ==
  ASSUME NEW n \in Uint16
  PROVE  /\ (n \div 256) % 256 \in Nat /\ n % 256 \in Nat
         /\ 256 * ((n \div 256) % 256) + (n % 256) = n
<1>1. n \in Nat /\ n <= Size16 - 1
  BY Size16Range DEF Uint16
<1>2. 256 * ((n \div 256) % 256) + (n % 256) = n
  BY <1>1, SMTT(30) DEF Size16
<1>3. (n \div 256) % 256 \in Nat /\ n % 256 \in Nat
  BY <1>1
<1> QED BY <1>2, <1>3

(* A number that was written in two bytes is read from them.               *)
LEMMA ReadWritten ==
  ASSUME NEW n \in Uint16, NEW q \in Seq(Byte), NEW i \in Nat,
         At(q, i) = At(Bytes16(n), 0), At(q, i + 1) = At(Bytes16(n), 1)
  PROVE  U16(q, i) = n
<1>1. At(Bytes16(n), 0) = (n \div 256) % 256 /\ At(Bytes16(n), 1) = n % 256
  BY DEF Bytes16, At
<1>2. U16(q, i) = 256 * ((n \div 256) % 256) + (n % 256)
  BY <1>1 DEF U16
<1> QED BY <1>2, HighLowByte

-----------------------------------------------------------------------------
(* The sum that a checksum is made of, by bytes and by words.              *)
Weight(i) == IF i % 2 = 1 THEN 256 ELSE 1
ByteSums(b, s) == s = [i \in 0..Len(b) |-> IF i = 0 THEN 0 ELSE s[i - 1] + b[i] * Weight(i)]
WordSums(b, g) == g = [i \in 0..Len(Words(b)) |-> IF i = 0 THEN 0 ELSE g[i - 1] + Words(b)[i]]

(* A byte that is weighted is a number.                                    *)
LEMMA WeightedByte ==
  ASSUME NEW b \in Seq(Byte), NEW i \in 1..Len(b)
  PROVE  b[i] * Weight(i) \in Nat
<1>1. b[i] \in 0..255
  BY ElementOfSeq DEF Byte
<1>2. PICK v \in 0..255 : v = b[i]
  BY <1>1
<1>3. v * Weight(i) \in Nat
  <2>1. Weight(i) = 256 \/ Weight(i) = 1
    BY DEF Weight
  <2> QED BY <2>1
<1> QED BY <1>2, <1>3

(* There are sums over the bytes of every slice.                           *)
LEMMA ByteSumsExist ==
  ASSUME NEW b \in Seq(Byte)
  PROVE  \E s : ByteSums(b, s)
<1> DEFINE w == [i \in 1..Len(b) |-> b[i] * Weight(i)]
<1>1. Len(b) \in Nat
  BY LenProperties
<1>2. w \in [1..Len(b) -> Int]
  BY WeightedByte
<1>3. \A i \in 1..Len(b) : w[i] = b[i] * Weight(i)
  OBVIOUS
<1> HIDE DEF w
<1>4. PICK s : s = [i \in 0..Len(b) |-> IF i = 0 THEN 0 ELSE s[i - 1] + w[i]]
  BY <1>1, <1>2, PrefixSums
<1>5. s = [i \in 0..Len(b) |-> IF i = 0 THEN 0 ELSE s[i - 1] + b[i] * Weight(i)]
  <2>1. \A i \in 0..Len(b) : i # 0 => w[i] = b[i] * Weight(i)
    BY <1>1, <1>3
  <2> QED BY <1>4, <2>1, Zenon
<1> QED BY <1>5 DEF ByteSums

(* The sums, one byte after the other.                                     *)
LEMMA ByteSumsStep ==
  ASSUME NEW b \in Seq(Byte), NEW s, ByteSums(b, s)
  PROVE  /\ s[0] = 0
         /\ \A i \in 1..Len(b) : s[i] = s[i - 1] + b[i] * Weight(i)
         /\ \A i \in 0..Len(b) : s[i] \in Nat
<1>1. Len(b) \in Nat
  BY LenProperties
<1>2. s[0] = 0
  BY <1>1 DEF ByteSums
<1>3. \A i \in 1..Len(b) : s[i] = s[i - 1] + b[i] * Weight(i)
  <2>1. ASSUME NEW i \in 1..Len(b)
        PROVE  s[i] = s[i - 1] + b[i] * Weight(i)
    <3>1. i \in 0..Len(b) /\ i # 0
      BY <1>1
    <3> QED BY <3>1 DEF ByteSums
  <2> QED BY <2>1
<1> DEFINE S == {k \in Nat : k <= Len(b) => s[k] \in Nat}
<1>4. 0 \in S
  BY <1>2
<1>5. ASSUME NEW k \in Nat, k \in S
      PROVE  k + 1 \in S
  <2>1. ASSUME k + 1 <= Len(b)
        PROVE  s[k + 1] \in Nat
    <3>1. s[k + 1] = s[k] + b[k + 1] * Weight(k + 1)
      <4>1. k + 1 \in 1..Len(b) /\ k + 1 - 1 = k
        BY <1>1, <2>1
      <4>2. s[k + 1] = s[k + 1 - 1] + b[k + 1] * Weight(k + 1)
        BY <1>3, <4>1
      <4> QED BY <4>1, <4>2, Zenon
    <3>2. s[k] \in Nat
      BY <1>1, <1>5, <2>1
    <3>3. b[k + 1] * Weight(k + 1) \in Nat
      BY <1>1, <2>1, WeightedByte
    <3> QED BY <3>1, <3>2, <3>3
  <2> QED BY <2>1
<1> HIDE DEF S
<1>6. Nat \subseteq S
  BY <1>4, <1>5, Induction
<1>7. \A i \in 0..Len(b) : s[i] \in Nat
  BY <1>1, <1>6 DEF S
<1> QED BY <1>2, <1>3, <1>7

(* The words of a slice: pairs of bytes, and the odd byte at the end.      *)
LEMMA WordsTyped ==
  ASSUME NEW b \in Seq(Byte)
  PROVE  /\ Len(Words(b)) = (Len(b) + 1) \div 2 /\ Len(Words(b)) \in Nat
         /\ Words(b) \in [1..Len(Words(b)) -> Nat]
         /\ \A i \in 1..Len(Words(b)) :
              Words(b)[i] = IF 2 * i <= Len(b) THEN U16(b, 2 * i - 2) ELSE 256 * b[2 * i - 1]
<1>1. Len(b) \in Nat
  BY LenProperties
<1>2. PICK n : n = (Len(b) + 1) \div 2
  OBVIOUS
<1>3. n \in Nat /\ 2 * n <= Len(b) + 1
  BY <1>1, <1>2
<1> DEFINE word(i) == IF 2 * i <= Len(b) THEN U16(b, 2 * i - 2) ELSE 256 * b[2 * i - 1]
<1>4. ASSUME NEW i \in 1..n
      PROVE  word(i) \in Nat
  <2>1. CASE 2 * i <= Len(b)
    <3>1. 2 * i - 2 \in 0..(Len(b) - 2)
      BY <1>1, <1>3, <2>1
    <3>2. U16(b, 2 * i - 2) \in Uint16
      BY <3>1, U16Typed
    <3> QED BY <2>1, <3>2 DEF Uint16
  <2>2. CASE ~(2 * i <= Len(b))
    <3>1. 2 * i - 1 \in 1..Len(b)
      BY <1>1, <1>3, <2>2
    <3>2. PICK v \in 0..255 : v = b[2 * i - 1]
      BY <3>1, ElementOfSeq DEF Byte
    <3>3. 256 * v \in Nat
      OBVIOUS
    <3> QED BY <2>2, <3>2, <3>3
  <2> QED BY <2>1, <2>2
<1>5. Words(b) = [i \in 1..n |-> word(i)]
  BY <1>2 DEF Words
<1> HIDE DEF word
<1>6. Len(Words(b)) = n /\ Words(b) \in [1..n -> Nat] /\ \A i \in 1..n : Words(b)[i] = word(i)
  <2>1. Words(b) \in [1..n -> Nat] /\ \A i \in 1..n : Words(b)[i] = word(i)
    BY <1>4, <1>5
  <2>2. Words(b) \in Seq(Nat) /\ Len(Words(b)) = n
    BY <1>3, <2>1
  <2> QED BY <2>1, <2>2
<1> QED BY <1>2, <1>3, <1>6 DEF word

(* The words of a slice have the sum of its bytes.                         *)
LEMMA WordsAreBytes ==
  ASSUME NEW b \in Seq(Byte), NEW s, ByteSums(b, s), NEW g, WordSums(b, g)
  PROVE  g[Len(Words(b))] = s[Len(b)]
<1>1. PICK L, n : L = Len(b) /\ n = Len(Words(b))
  OBVIOUS
<1>2. L \in Nat /\ n = (L + 1) \div 2 /\ n \in Nat
  BY <1>1, LenProperties, WordsTyped
<1>3. s[0] = 0 /\ \A i \in 0..L : s[i] \in Nat
  BY <1>1, ByteSumsStep
<1>4. /\ \A k \in Nat : 2 * k < L => s[2 * k + 1] = s[2 * k] + b[2 * k + 1] * 256
      /\ \A k \in Nat : 2 * k + 1 < L => s[2 * k + 2] = s[2 * k + 1] + b[2 * k + 2]
  <2>1. ASSUME NEW k \in Nat, 2 * k < L
        PROVE  s[2 * k + 1] = s[2 * k] + b[2 * k + 1] * 256
    <3>1. PICK i : i = 2 * k + 1
      OBVIOUS
    <3>2. i \in 1..L /\ i % 2 = 1 /\ i - 1 = 2 * k
      BY <1>2, <2>1, <3>1
    <3>3. s[i] = s[i - 1] + b[i] * Weight(i) /\ Weight(i) = 256
      BY <1>1, <3>2, ByteSumsStep DEF Weight
    <3> QED BY <3>1, <3>2, <3>3, Zenon
  <2>2. ASSUME NEW k \in Nat, 2 * k + 1 < L
        PROVE  s[2 * k + 2] = s[2 * k + 1] + b[2 * k + 2]
    <3>1. PICK i : i = 2 * k + 2
      OBVIOUS
    <3>2. i \in 1..L /\ i % 2 # 1 /\ i - 1 = 2 * k + 1
      BY <1>2, <2>2, <3>1
    <3>3. s[i] = s[i - 1] + b[i] * Weight(i) /\ Weight(i) = 1
      BY <1>1, <3>2, ByteSumsStep DEF Weight
    <3>4. b[i] \in Nat
      BY <1>1, <3>2, ByteNat
    <3>5. b[i] * Weight(i) = b[i]
      BY <3>3, <3>4
    <3> QED BY <3>1, <3>2, <3>3, <3>5, Zenon
  <2> QED BY <2>1, <2>2
<1>5. /\ g[0] = 0
      /\ \A i \in 1..n : g[i] = g[i - 1] + Words(b)[i]
  <2>1. g = [i \in 0..n |-> IF i = 0 THEN 0 ELSE g[i - 1] + Words(b)[i]]
    BY <1>1 DEF WordSums
  <2>2. g[0] = 0
    BY <1>2, <2>1
  <2>3. ASSUME NEW i \in 1..n
        PROVE  g[i] = g[i - 1] + Words(b)[i]
    <3>1. i \in 0..n /\ i # 0
      BY <1>2
    <3> QED BY <2>1, <3>1
  <2> QED BY <2>2, <2>3
<1> DEFINE At2(k) == IF 2 * k <= L THEN 2 * k ELSE L
           S == {k \in Nat : k <= n => g[k] = s[At2(k)]}
<1>6. 0 \in S
  BY <1>2, <1>3, <1>5
<1>7. ASSUME NEW k \in Nat, k \in S
      PROVE  k + 1 \in S
  <2>1. ASSUME k + 1 <= n
        PROVE  g[k + 1] = s[At2(k + 1)]
    <3>1. 2 * k < L /\ 2 * k \in 0..L
      BY <1>2, <2>1
    <3>2. g[k] = s[2 * k]
      BY <1>2, <1>7, <2>1, <3>1
    <3>3. g[k + 1] = g[k] + Words(b)[k + 1]
      <4>1. k + 1 \in 1..n /\ k + 1 - 1 = k
        BY <1>2, <2>1
      <4>2. g[k + 1] = g[k + 1 - 1] + Words(b)[k + 1]
        BY <1>5, <4>1
      <4> QED BY <4>1, <4>2, Zenon
    <3>4. Words(b)[k + 1] = IF 2 * k + 2 <= L THEN U16(b, 2 * k) ELSE 256 * b[2 * k + 1]
      <4>1. k + 1 \in 1..n /\ 2 * (k + 1) = 2 * k + 2 /\ 2 * (k + 1) - 2 = 2 * k
            /\ 2 * (k + 1) - 1 = 2 * k + 1
        BY <1>2, <2>1
      <4>2. Words(b)[k + 1] = IF 2 * (k + 1) <= L THEN U16(b, 2 * (k + 1) - 2)
                              ELSE 256 * b[2 * (k + 1) - 1]
        BY <1>1, <4>1, WordsTyped
      <4> QED BY <4>1, <4>2, Zenon
    <3>5. s[2 * k] \in Nat /\ b[2 * k + 1] \in Nat
      <4>1. 2 * k + 1 \in 1..Len(b)
        BY <1>1, <1>2, <3>1
      <4> QED BY <1>3, <3>1, <4>1, ByteNat
    <3>6. s[2 * k + 1] = s[2 * k] + b[2 * k + 1] * 256
      BY <1>4, <3>1
    <3>7. CASE 2 * k + 2 <= L
      <4>1. s[2 * k + 2] = s[2 * k + 1] + b[2 * k + 2]
        BY <1>2, <1>4, <3>7
      <4>2. b[2 * k + 2] \in Nat
        <5>1. 2 * k + 2 \in 1..Len(b)
          BY <1>1, <1>2, <3>7
        <5> QED BY <5>1, ByteNat
      <4>3. U16(b, 2 * k) = 256 * b[2 * k + 1] + b[2 * k + 2]
        BY DEF U16, At
      <4>4. Words(b)[k + 1] = 256 * b[2 * k + 1] + b[2 * k + 2]
        BY <3>4, <3>7, <4>3, Zenon
      <4>5. g[k + 1] = s[2 * k + 2]
        BY <3>2, <3>3, <3>5, <3>6, <4>1, <4>2, <4>4, SMTT(30)
      <4>6. At2(k + 1) = 2 * k + 2
        BY <1>2, <3>7
      <4> QED BY <4>5, <4>6, Zenon
    <3>8. CASE ~(2 * k + 2 <= L)
      <4>1. L = 2 * k + 1
        BY <1>2, <3>1, <3>8
      <4>2. Words(b)[k + 1] = 256 * b[2 * k + 1]
        BY <3>4, <3>8, Zenon
      <4>3. g[k + 1] = s[2 * k + 1]
        BY <3>2, <3>3, <3>5, <3>6, <4>2
      <4>4. At2(k + 1) = 2 * k + 1
        BY <1>2, <4>1
      <4> QED BY <4>3, <4>4, Zenon
    <3> QED BY <3>7, <3>8
  <2> HIDE DEF At2
  <2> QED BY <2>1
<1> HIDE DEF S
<1>8. n \in S
  BY <1>2, <1>6, <1>7, Induction
<1>9. At2(n) = L
  BY <1>2
<1> HIDE DEF At2
<1>10. g[n] = s[L]
  BY <1>2, <1>8, <1>9 DEF S
<1> QED BY <1>1, <1>10

(* A checksum is what the sum lacks to a multiple of 2^16-1.               *)
LEMMA ChecksumCompletes ==
  ASSUME NEW b \in Seq(Byte), NEW s, ByteSums(b, s)
  PROVE  /\ Checksum(b) \in Uint16
         /\ \E k \in Nat : s[Len(b)] + Checksum(b) = (Size16 - 1) * k
<1> DEFINE w == Words(b)
           sum[i \in 0..Len(w)] == IF i = 0 THEN 0 ELSE sum[i - 1] + w[i]
           fold[n \in Nat] == IF n < Size16 THEN n ELSE fold[(n % Size16) + (n \div Size16)]
<1>1. Checksum(b) = Size16 - 1 - fold[sum[Len(w)]]
  BY DEF Checksum
<1>2. Folds(fold)
  <2>1. PICK f : Folds(f)
    BY FoldExists
  <2>2. fold = CHOOSE h : h = [n \in Nat |-> IF n < Size16 THEN n
                                             ELSE h[(n % Size16) + (n \div Size16)]]
    OBVIOUS
  <2> HIDE DEF fold
  <2> QED BY <2>1, <2>2 DEF Folds
<1>3. WordSums(b, sum)
  <2>1. PICK g : g = [i \in 0..Len(w) |-> IF i = 0 THEN 0 ELSE g[i - 1] + w[i]]
    <3>1. PICK n, v : n = Len(w) /\ v = w
      OBVIOUS
    <3>2. n \in Nat /\ v \in [1..n -> Int]
      BY <3>1, WordsTyped
    <3>3. \E g : g = [i \in 0..n |-> IF i = 0 THEN 0 ELSE g[i - 1] + v[i]]
      BY <3>2, PrefixSums
    <3> QED BY <3>1, <3>3
  <2>2. sum = CHOOSE h : h = [i \in 0..Len(w) |-> IF i = 0 THEN 0 ELSE h[i - 1] + w[i]]
    OBVIOUS
  <2> HIDE DEF sum
  <2> QED BY <2>1, <2>2 DEF WordSums
<1> HIDE DEF sum, fold
<1>4. sum[Len(w)] = s[Len(b)]
  BY <1>3, WordsAreBytes
<1>5. Len(b) \in 0..Len(b)
  BY LenProperties
<1>6. PICK t \in Nat : t = s[Len(b)]
  BY <1>5, ByteSumsStep
<1>7. PICK v : v = fold[t]
  OBVIOUS
<1>8. v \in 0..(Size16 - 1) /\ \E k \in Nat : t = v + (Size16 - 1) * k
  BY <1>2, <1>6, <1>7, FoldRemainder
<1>9. Checksum(b) = Size16 - 1 - v
  BY <1>1, <1>4, <1>6, <1>7
<1>10. Size16 - 1 - v \in 0..(Size16 - 1)
  BY <1>8, Size16Range
<1>11. PICK k \in Nat : t = v + (Size16 - 1) * k
  BY <1>8
<1>12. t + (Size16 - 1 - v) = (Size16 - 1) * (k + 1)
  <2>1. (Size16 - 1) * (k + 1) = (Size16 - 1) * k + (Size16 - 1) * 1
    BY Size16Range, Distribute
  <2>2. (Size16 - 1) * k \in Int
    BY Size16Range
  <2> QED BY <1>8, <1>11, <2>1, <2>2, Size16Range
<1>13. k + 1 \in Nat /\ s[Len(b)] + Checksum(b) = (Size16 - 1) * (k + 1)
  BY <1>6, <1>9, <1>12
<1> QED BY <1>9, <1>10, <1>13 DEF Uint16

(* Slices that differ in two bytes after the first p, zeros in the first.  *)
Patched(b, c, p) ==
  /\ Len(b) = Len(c) /\ p + 2 <= Len(b) /\ b[p + 1] = 0 /\ b[p + 2] = 0
  /\ \A i \in 1..Len(b) : i \notin {p + 1, p + 2} => b[i] = c[i]

(* What two bytes at an even place add to the sum.                         *)
LEMMA TwoBytesMore ==
  ASSUME NEW b \in Seq(Byte), NEW c \in Seq(Byte), NEW p \in Nat, p % 2 = 0, Patched(b, c, p),
         NEW t, ByteSums(b, t), NEW s, ByteSums(c, s)
  PROVE  s[Len(c)] = t[Len(b)] + 256 * c[p + 1] + c[p + 2]
<1> USE DEF Patched
<1>1. PICK L, hi, lo : L = Len(b) /\ hi = c[p + 1] /\ lo = c[p + 2]
  OBVIOUS
<1>2. L \in Nat /\ p + 1 \in 1..L /\ p + 2 \in 1..L
  BY <1>1, LenProperties
<1>3. hi \in Nat /\ lo \in Nat
  BY <1>1, <1>2, ByteNat
<1>4. /\ s[0] = 0 /\ t[0] = 0
      /\ \A i \in 0..L : s[i] \in Nat /\ t[i] \in Nat
      /\ \A i \in 1..L : s[i] = s[i - 1] + c[i] * Weight(i)
      /\ \A i \in 1..L : t[i] = t[i - 1] + b[i] * Weight(i)
  BY <1>1, ByteSumsStep
<1> DEFINE More(k) == IF k <= p THEN 0 ELSE IF k = p + 1 THEN 256 * hi ELSE 256 * hi + lo
           S == {k \in Nat : k <= L => s[k] = t[k] + More(k)}
<1>5. 0 \in S
  <2>1. More(0) = 0
    OBVIOUS
  <2> HIDE DEF More
  <2>2. s[0] = t[0] + More(0)
    BY <1>4, <2>1
  <2> QED BY <2>2
<1>6. ASSUME NEW k \in Nat, k \in S
      PROVE  k + 1 \in S
  <2>1. ASSUME k + 1 <= L
        PROVE  s[k + 1] = t[k + 1] + More(k + 1)
    <3>1. PICK i : i = k + 1
      OBVIOUS
    <3>2. i \in 1..L /\ i - 1 = k /\ k \in 0..L
      BY <1>2, <2>1, <3>1
    <3>3. PICK x, y, u, v, m :
            x = s[k] /\ y = t[k] /\ u = c[i] * Weight(i) /\ v = b[i] * Weight(i) /\ m = More(k)
      OBVIOUS
    <3>4. x \in Nat /\ y \in Nat /\ u \in Nat /\ v \in Nat
      <4>1. i \in 1..Len(c) /\ i \in 1..Len(b)
        BY <1>1, <3>2
      <4> QED BY <1>4, <3>2, <3>3, <4>1, WeightedByte
    <3>5. s[i] = x + u /\ t[i] = y + v
      BY <1>4, <3>2, <3>3
    <3>6. x = y + m
      <4>1. k <= L
        BY <3>2, <1>2
      <4> QED BY <1>6, <3>3, <4>1
    <3>7. CASE i \notin {p + 1, p + 2}
      <4>1. u = v
        BY <1>1, <3>2, <3>3, <3>7, Zenon
      <4>2. More(k) = More(i)
        BY <1>2, <1>3, <3>1, <3>2, <3>7
      <4>3. m \in Nat
        BY <1>3, <3>3
      <4> HIDE DEF More
      <4> QED BY <3>1, <3>3, <3>4, <3>5, <3>6, <4>1, <4>2, <4>3, SMTT(30)
    <3>8. CASE i = p + 1
      <4>1. i % 2 = 1
        BY <3>8
      <4>2. Weight(i) = 256
        BY <4>1 DEF Weight
      <4>3. u = 256 * hi /\ v = 0
        BY <1>1, <1>3, <3>3, <3>8, <4>2
      <4>4. m = 0 /\ More(i) = 256 * hi
        BY <1>2, <3>1, <3>2, <3>3, <3>8
      <4> QED BY <1>3, <3>1, <3>4, <3>5, <3>6, <4>3, <4>4
    <3>9. CASE i = p + 2
      <4>1. i % 2 # 1
        BY <3>9
      <4>2. Weight(i) = 1
        BY <4>1 DEF Weight
      <4>3. u = lo /\ v = 0
        BY <1>1, <1>3, <3>3, <3>9, <4>2
      <4>4. m = 256 * hi /\ More(i) = 256 * hi + lo
        BY <1>2, <1>3, <3>1, <3>2, <3>3, <3>9
      <4> QED BY <1>3, <3>1, <3>4, <3>5, <3>6, <4>3, <4>4
    <3> QED BY <3>7, <3>8, <3>9
  <2> HIDE DEF More
  <2> QED BY <2>1
<1> HIDE DEF S
<1>7. L \in S
  BY <1>2, <1>5, <1>6, Induction
<1>8. More(L) = 256 * hi + lo
  BY <1>1, <1>2
<1> HIDE DEF More
<1>9. s[L] = t[L] + (256 * hi + lo)
  BY <1>2, <1>7, <1>8 DEF S
<1>10. t[L] \in Nat
  BY <1>2, <1>4
<1> QED BY <1>1, <1>3, <1>9, <1>10, SMTT(30)

(* A slice in three parts.                                                 *)
Joined(q, pre, mid, post) == q = pre \o mid \o post

(* A slice with two zeros and the same slice with two other bytes in their *)
(* place are such slices.                                                  *)
LEMMA PatchedParts ==
  ASSUME NEW pre \in Seq(Byte), NEW post \in Seq(Byte), NEW x \in Seq(Byte), NEW z \in Seq(Byte),
         Len(z) = 2, z[1] = 0, z[2] = 0, Len(x) = 2,
         NEW b, Joined(b, pre, z, post), NEW c, Joined(c, pre, x, post)
  PROVE  /\ b \in Seq(Byte) /\ c \in Seq(Byte) /\ Patched(b, c, Len(pre))
         /\ c[Len(pre) + 1] = x[1] /\ c[Len(pre) + 2] = x[2]
<1>1. PICK p \in Nat : p = Len(pre)
  BY LenProperties
<1>2. Len(post) \in Nat
  BY LenProperties
<1> DEFINE Mid(y, m) == /\ m \in Seq(Byte) /\ Len(m) = p + 2 /\ \A i \in 1..p : m[i] = pre[i]
                        /\ m[p + 1] = y[1] /\ m[p + 2] = y[2]
           Full(m, q) == /\ q \in Seq(Byte) /\ Len(q) = p + 2 + Len(post)
                         /\ \A i \in 1..(p + 2) : q[i] = m[i]
                         /\ \A i \in 1..Len(post) : q[p + 2 + i] = post[i]
<1>3. ASSUME NEW y \in Seq(Byte), Len(y) = 2
      PROVE  Mid(y, pre \o y)
  <2>0. PICK m : m = pre \o y
    OBVIOUS
  <2>1. 1 \in 1..Len(y) /\ 2 \in 1..Len(y)
    BY <1>3
  <2>2. m[p + 1] = y[1] /\ m[p + 2] = y[2]
    <3>1. m[Len(pre) + 1] = y[1] /\ m[Len(pre) + 2] = y[2]
      BY <2>0, <2>1, ConcatBytes
    <3> QED BY <1>1, <3>1
  <2>3. m \in Seq(Byte) /\ Len(m) = Len(pre) + Len(y)
    BY <2>0, ConcatBytes
  <2>4. \A i \in 1..p : m[i] = pre[i]
    BY <1>1, <2>0, ConcatBytes
  <2>5. Mid(y, m)
    BY <1>1, <1>3, <2>2, <2>3, <2>4
  <2> HIDE DEF Mid
  <2> QED BY <2>0, <2>5
<1>4. ASSUME NEW m \in Seq(Byte), Len(m) = p + 2
      PROVE  Full(m, m \o post)
  <2>0. PICK q : q = m \o post
    OBVIOUS
  <2>1. q \in Seq(Byte) /\ Len(q) = Len(m) + Len(post)
    BY <2>0, ConcatBytes
  <2>2. \A i \in 1..Len(m) : q[i] = m[i]
    BY <2>0, ConcatBytes
  <2>3. \A i \in 1..Len(post) : q[p + 2 + i] = post[i]
    <3>1. \A i \in 1..Len(post) : q[Len(m) + i] = post[i]
      BY <2>0, ConcatBytes
    <3> QED BY <1>4, <3>1
  <2>4. Full(m, q)
    BY <1>4, <2>1, <2>2, <2>3
  <2> HIDE DEF Full
  <2> QED BY <2>0, <2>4
<1>5. PICK mz, mx : mz = pre \o z /\ mx = pre \o x
  OBVIOUS
<1>6. Mid(z, mz) /\ Mid(x, mx)
  <2> HIDE DEF Mid
  <2> QED BY <1>3, <1>5
<1>7. Full(mz, b) /\ Full(mx, c)
  <2>1. mz \in Seq(Byte) /\ Len(mz) = p + 2 /\ mx \in Seq(Byte) /\ Len(mx) = p + 2
    BY <1>6
  <2> HIDE DEF Full
  <2>2. b = mz \o post /\ c = mx \o post
    BY <1>5 DEF Joined
  <2> QED BY <1>4, <2>1, <2>2
<1>8. b = mz \o post /\ c = mx \o post
  BY <1>5 DEF Joined
<1>9. p + 1 \in 1..(p + 2) /\ p + 2 \in 1..(p + 2)
  OBVIOUS
<1>10. c[p + 1] = x[1] /\ c[p + 2] = x[2] /\ b[p + 1] = 0 /\ b[p + 2] = 0
  BY <1>6, <1>7, <1>9
<1>11. ASSUME NEW i \in 1..Len(b), i \notin {p + 1, p + 2}
       PROVE  b[i] = c[i]
  <2>1. CASE i <= p
    <3>1. i \in 1..(p + 2) /\ i \in 1..p
      BY <1>2, <1>7, <2>1
    <3> QED BY <1>6, <1>7, <3>1
  <2>2. CASE i > p + 2
    <3>1. PICK j : j = i - (p + 2)
      OBVIOUS
    <3>2. j \in 1..Len(post) /\ i = p + 2 + j
      BY <1>2, <1>7, <2>2, <3>1
    <3> QED BY <1>7, <3>2
  <2>3. i <= p \/ i > p + 2
    <3>1. i \in Int /\ i # p + 1 /\ i # p + 2
      BY <1>2, <1>7, <1>11
    <3> QED BY <3>1
  <2> QED BY <2>1, <2>2, <2>3
<1>12. Len(b) = Len(c) /\ p + 2 <= Len(b)
  BY <1>2, <1>7
<1>13. Patched(b, c, p) /\ b \in Seq(Byte) /\ c \in Seq(Byte)
  BY <1>7, <1>10, <1>11, <1>12 DEF Patched
<1> HIDE DEF Mid, Full
<1> QED BY <1>1, <1>8, <1>10, <1>13

(* A slice into which its checksum is written, at an even place that held  *)
(* zeros, has a sum that is a multiple of 2^16-1.                          *)
LEMMA ChecksumPatched ==
  ASSUME NEW b \in Seq(Byte), NEW c \in Seq(Byte), NEW p \in Nat, p % 2 = 0, Patched(b, c, p),
         NEW n, n = Checksum(b), c[p + 1] = Bytes16(n)[1], c[p + 2] = Bytes16(n)[2],
         NEW s, ByteSums(c, s)
  PROVE  s[Len(c)] \in Nat /\ s[Len(c)] % (Size16 - 1) = 0
<1>1. PICK t : ByteSums(b, t)
  BY ByteSumsExist
<1>2. n \in Uint16 /\ \E k \in Nat : t[Len(b)] + n = (Size16 - 1) * k
  BY <1>1, ChecksumCompletes
<1>3. s[Len(c)] = t[Len(b)] + 256 * c[p + 1] + c[p + 2]
  BY <1>1, TwoBytesMore
<1>4. PICK h, l : h = c[p + 1] /\ l = c[p + 2]
  OBVIOUS
<1>5. h \in Nat /\ l \in Nat /\ 256 * h + l = n
  <2>1. h = (n \div 256) % 256 /\ l = n % 256
    BY <1>4 DEF Bytes16
  <2> QED BY <1>2, <2>1, HighLowByte
<1>6. PICK u \in Nat : u = t[Len(b)]
  <2>1. Len(b) \in 0..Len(b)
    BY LenProperties
  <2> QED BY <1>1, <2>1, ByteSumsStep
<1>7. PICK k \in Nat : u + n = (Size16 - 1) * k
  BY <1>2, <1>6
<1>8. s[Len(c)] = u + n /\ n \in Nat
  <2>1. s[Len(c)] = u + 256 * h + l
    BY <1>3, <1>4, <1>6
  <2>2. n \in Nat
    BY <1>2, Size16Range DEF Uint16
  <2>3. PICK m \in Nat : m = n
    BY <2>2
  <2>4. u + 256 * h + l = u + m
    BY <1>5, <2>3
  <2> QED BY <2>1, <2>2, <2>3, <2>4
<1>9. (u + n) % (Size16 - 1) = 0
  <2>1. ((Size16 - 1) * k) % (Size16 - 1) = 0
    BY SMTT(30) DEF Size16
  <2> QED BY <1>7, <2>1
<1>10. u + n \in Nat
  BY <1>8
<1> QED BY <1>8, <1>9, <1>10, Zenon

(* The checksum of a slice, computed while its field is zero and then      *)
(* written into the field, makes the sum a multiple of 2^16-1.             *)
LEMMA ChecksumWritten ==
  ASSUME NEW pre \in Seq(Byte), NEW post \in Seq(Byte), Len(pre) % 2 = 0,
         NEW b, Joined(b, pre, Zeros(2), post),
         NEW c, Joined(c, pre, Bytes16(Checksum(b)), post),
         NEW s, ByteSums(c, s)
  PROVE  /\ Checksum(b) \in Uint16 /\ c \in Seq(Byte)
         /\ s[Len(c)] \in Nat /\ s[Len(c)] % (Size16 - 1) = 0
<1>1. PICK z : z = Zeros(2)
  OBVIOUS
<1>2. z \in Seq(Byte) /\ Len(z) = 2 /\ z[1] = 0 /\ z[2] = 0
  <2>1. 2 \in Nat
    OBVIOUS
  <2>2. Zeros(2)[1] = 0 /\ Zeros(2)[2] = 0
    BY DEF Zeros
  <2> QED BY <1>1, <2>1, <2>2, BytesTyped
<1>3. Joined(b, pre, z, post)
  BY <1>1
<1>4. b \in Seq(Byte)
  <2>1. pre \o z \in Seq(Byte)
    BY <1>2, ConcatBytes
  <2>2. (pre \o z) \o post \in Seq(Byte)
    BY <2>1, ConcatBytes
  <2> QED BY <1>3, <2>2 DEF Joined
<1>5. PICK n : n = Checksum(b)
  OBVIOUS
<1>6. n \in Uint16
  <2>1. PICK t : ByteSums(b, t)
    BY <1>4, ByteSumsExist
  <2> QED BY <1>4, <1>5, <2>1, ChecksumCompletes
<1>7. PICK x : x = Bytes16(n)
  OBVIOUS
<1>8. x \in Seq(Byte) /\ Len(x) = 2
  <2>1. n \in Nat
    BY <1>6, Size16Range DEF Uint16
  <2> QED BY <1>7, <2>1, BytesTyped
<1>9. Joined(c, pre, x, post)
  BY <1>5, <1>7
<1>10. /\ c \in Seq(Byte) /\ Patched(b, c, Len(pre))
       /\ c[Len(pre) + 1] = x[1] /\ c[Len(pre) + 2] = x[2]
  BY <1>2, <1>3, <1>8, <1>9, PatchedParts
<1>11. Len(pre) \in Nat
  BY LenProperties
<1>12. s[Len(c)] \in Nat /\ s[Len(c)] % (Size16 - 1) = 0
  BY <1>4, <1>5, <1>7, <1>10, <1>11, ChecksumPatched
<1> QED BY <1>5, <1>6, <1>10, <1>12

-----------------------------------------------------------------------------
(* The layout of a packet.                                                 *)

(* What Serialize needs of a packet that ParseTCP is to read again: fields *)
(* of fixed length have it, options are whole words, at most ten of them,  *)
(* and the packet fits the length field of its header.                     *)
OptionLengths == {4 * k : k \in 0..10}
WellFormed(p) ==
  /\ p \in TCPPackets
  /\ Len(p.Frag) = 4 /\ Len(p.Addrs) = 8 /\ Len(p.IPOpts) \in OptionLengths
  /\ Len(p.Ack) = 4 /\ Len(p.Window) = 2 /\ Len(p.Urgent) = 2 /\ Len(p.TCPOpts) \in OptionLengths
  /\ 40 + Len(p.IPOpts) + Len(p.TCPOpts) + Len(p.Payload) < Size16

(* The two parts that Serialize writes, for given checksums.               *)
Total(p) == 40 + Len(p.IPOpts) + Len(p.TCPOpts) + Len(p.Payload)
VersionAndTOS(p) == <<64 + (20 + Len(p.IPOpts)) \div 4, p.TOS>>
TTLAndProtocol(p) == <<p.TTL, ProtoTCP>>
OffsetAndFlags(p) == <<(16 * ((20 + Len(p.TCPOpts)) \div 4)) % 256, p.Flags>>

BeforeChecksum(p) == VersionAndTOS(p) \o Bytes16(Total(p)) \o p.Frag \o TTLAndProtocol(p)
Header(p, chk) == BeforeChecksum(p) \o chk \o p.Addrs \o p.IPOpts
BeforeTCPChecksum(p) ==
  Bytes16(p.SrcPort) \o Bytes16(p.DstPort) \o Bytes16(p.Seq[1]) \o Bytes16(p.Seq[2]) \o p.Ack
    \o OffsetAndFlags(p) \o p.Window
Segment(p, chk) == BeforeTCPChecksum(p) \o chk \o p.Urgent \o p.TCPOpts \o p.Payload

(* The fields of a packet that can be written are bytes and slices of      *)
(* bytes.                                                                  *)
LEMMA FieldsTyped ==
  ASSUME NEW p, WellFormed(p)
  PROVE  /\ p.TOS \in Byte /\ p.TTL \in Byte /\ p.Flags \in Byte
         /\ p.Frag \in Seq(Byte) /\ p.Addrs \in Seq(Byte) /\ p.IPOpts \in Seq(Byte)
         /\ p.Ack \in Seq(Byte) /\ p.Window \in Seq(Byte) /\ p.Urgent \in Seq(Byte)
         /\ p.TCPOpts \in Seq(Byte) /\ p.Payload \in Seq(Byte)
         /\ p.SrcPort \in Uint16 /\ p.DstPort \in Uint16
         /\ p.Seq[1] \in Uint16 /\ p.Seq[2] \in Uint16 /\ p.Seq = <<p.Seq[1], p.Seq[2]>>
BY DEF WellFormed, TCPPackets

(* What Serialize writes is a header and a segment, each with its          *)
(* checksum.                                                               *)
LEMMA SerializeParts ==
  ASSUME NEW p, WellFormed(p)
  PROVE  Serialize(p) =
           Header(p, Bytes16(Checksum(Header(p, Zeros(2)))))
             \o Segment(p, Bytes16(Checksum(Pseudo(p.Addrs, Segment(p, Zeros(2)))
                                              \o Segment(p, Zeros(2)))))
<1>1. /\ Len(p.IPOpts) \in Nat /\ Len(p.TCPOpts) \in Nat /\ Len(p.Payload) \in Nat
  BY FieldsTyped, LenProperties
<1>2. (20 + Len(p.IPOpts)) + (20 + Len(p.TCPOpts)) + Len(p.Payload) = Total(p)
  <2>1. PICK i, t, d : i = Len(p.IPOpts) /\ t = Len(p.TCPOpts) /\ d = Len(p.Payload)
    OBVIOUS
  <2>2. (20 + i) + (20 + t) + d = 40 + i + t + d
    <3>1. i \in Nat /\ t \in Nat /\ d \in Nat
      BY <1>1, <2>1
    <3> QED BY <3>1
  <2>3. Total(p) = 40 + i + t + d
    BY <2>1 DEF Total
  <2> QED BY <2>1, <2>2, <2>3
<1> QED BY <1>2, ZenonT(40) DEF Serialize, Header, Segment, BeforeChecksum, BeforeTCPChecksum,
       VersionAndTOS, TTLAndProtocol, OffsetAndFlags

(* A slice of n bytes, and where a part of a buffer is.                    *)
Slice(x, n) == x \in Seq(Byte) /\ Len(x) = n

(* Lengths add up.                                                         *)
LEMMA SliceConcat ==
  ASSUME NEW p, NEW x, NEW m \in Nat, NEW n \in Nat, Slice(p, m), Slice(x, n)
  PROVE  Slice(p \o x, m + n)
BY ConcatBytes DEF Slice

(* What follows the first m bytes of a beginning.                          *)
LEMMA PartFrom ==
  ASSUME NEW q \in Seq(Byte), NEW p, NEW x, NEW m \in Nat, NEW n \in Nat,
         Slice(p, m), Slice(x, n), Begins(q, p \o x)
  PROVE  Begins(q, p) /\ Cut(q, m, m + n) = x
BY PartAt DEF Slice

(* What a buffer begins with is its first bytes.                           *)
LEMMA PartFirst ==
  ASSUME NEW q \in Seq(Byte), NEW x, NEW n \in Nat, Slice(x, n), Begins(q, x)
  PROVE  Cut(q, 0, n) = x
<1>1. x \in Seq(Byte) /\ Len(x) = n /\ n <= Len(q) /\ \A i \in 1..n : q[i] = x[i]
  BY DEF Slice, Begins
<1>2. 0 \in 0..Len(q) /\ n \in 0..Len(q) /\ n - 0 = n
  BY <1>1, LenProperties
<1>3. PICK c : c = Cut(q, 0, n)
  OBVIOUS
<1>4. c \in Seq(Byte) /\ Len(c) = n /\ \A i \in 1..n : c[i] = q[0 + i]
  BY <1>2, <1>3, CutTyped
<1>5. \A i \in 1..n : c[i] = x[i]
  BY <1>1, <1>4
<1>6. c = x
  BY <1>1, <1>4, <1>5, SeqEqual
<1> QED BY <1>3, <1>6

(* Where the fields of the two headers are.                                *)
LEMMA HeaderParts ==
  ASSUME NEW a, NEW b, NEW c, NEW d, NEW e, NEW f,
         NEW g, NEW q \in Seq(Byte),
         NEW n \in Nat,
         Slice(a, 2), Slice(b, 2), Slice(c, 4), Slice(d, 2), Slice(e, 2), Slice(f, 8),
         Slice(g, n)
  PROVE  /\ Slice(a \o b \o c \o d \o e \o f \o g, 20 + n)
         /\ Slice(a \o b \o c \o d, 10)
         /\ Begins(q, a \o b \o c \o d \o e \o f \o g) =>
              /\ Cut(q, 0, 2) = a /\ Cut(q, 2, 4) = b /\ Cut(q, 4, 8) = c
              /\ Cut(q, 8, 10) = d /\ Cut(q, 10, 12) = e /\ Cut(q, 12, 20) = f
              /\ Cut(q, 20, 20 + n) = g
<1>1. PICK ab : ab = a \o b
  OBVIOUS
<1>2. Slice(ab, 4)
  BY <1>1, SliceConcat
<1>3. PICK ac : ac = ab \o c
  OBVIOUS
<1>4. Slice(ac, 8)
  BY <1>2, <1>3, SliceConcat
<1>5. PICK ad : ad = ac \o d
  OBVIOUS
<1>6. Slice(ad, 10)
  BY <1>4, <1>5, SliceConcat
<1>7. PICK ae : ae = ad \o e
  OBVIOUS
<1>8. Slice(ae, 12)
  BY <1>6, <1>7, SliceConcat
<1>9. PICK af : af = ae \o f
  OBVIOUS
<1>10. Slice(af, 20)
  BY <1>8, <1>9, SliceConcat
<1>11. PICK ag : ag = af \o g
  OBVIOUS
<1>12. Slice(ag, 20 + n)
  BY <1>10, <1>11, SliceConcat
<1>13. ag = a \o b \o c \o d \o e \o f \o g /\ ad = a \o b \o c \o d
  BY <1>1, <1>3, <1>5, <1>7, <1>9, <1>11
<1>14. ASSUME Begins(q, ag)
      PROVE  /\ Cut(q, 0, 2) = a /\ Cut(q, 2, 4) = b /\ Cut(q, 4, 8) = c
             /\ Cut(q, 8, 10) = d /\ Cut(q, 10, 12) = e /\ Cut(q, 12, 20) = f
             /\ Cut(q, 20, 20 + n) = g
  <2>1. Begins(q, af) /\ Cut(q, 20, 20 + n) = g
    BY <1>14, <1>11, <1>10, PartFrom
  <2>2. Begins(q, ae) /\ Cut(q, 12, 20) = f
    BY <2>1, <1>9, <1>8, PartFrom
  <2>3. Begins(q, ad) /\ Cut(q, 10, 12) = e
    BY <2>2, <1>7, <1>6, PartFrom
  <2>4. Begins(q, ac) /\ Cut(q, 8, 10) = d
    BY <2>3, <1>5, <1>4, PartFrom
  <2>5. Begins(q, ab) /\ Cut(q, 4, 8) = c
    BY <2>4, <1>3, <1>2, PartFrom
  <2>6. Begins(q, a) /\ Cut(q, 2, 4) = b
    BY <2>5, <1>1, PartFrom
  <2>7. Cut(q, 0, 2) = a
    BY <2>6, PartFirst
  <2> QED BY <2>1, <2>2, <2>3, <2>4, <2>5, <2>6, <2>7
<1> QED BY <1>12, <1>6, <1>13, <1>14


(* The places of the parts of a TCP segment, for options of n bytes and a  *)
(* payload of m bytes.                                                     *)
LEMMA SegmentParts ==
  ASSUME NEW a, NEW b, NEW c, NEW d, NEW e, NEW f,
         NEW g, NEW h, NEW i, NEW j, NEW k, NEW q \in Seq(Byte),
         NEW n \in Nat, NEW m \in Nat,
         Slice(a, 2), Slice(b, 2), Slice(c, 2), Slice(d, 2), Slice(e, 4), Slice(f, 2),
         Slice(g, 2), Slice(h, 2), Slice(i, 2), Slice(j, n), Slice(k, m)
  PROVE  /\ Slice(a \o b \o c \o d \o e \o f \o g \o h \o i \o j \o k, 20 + n + m)
         /\ Slice(a \o b \o c \o d \o e \o f \o g, 16)
         /\ Begins(q, a \o b \o c \o d \o e \o f \o g \o h \o i \o j \o k) =>
              /\ Cut(q, 0, 2) = a /\ Cut(q, 2, 4) = b /\ Cut(q, 4, 6) = c
              /\ Cut(q, 6, 8) = d /\ Cut(q, 8, 12) = e /\ Cut(q, 12, 14) = f
              /\ Cut(q, 14, 16) = g /\ Cut(q, 16, 18) = h /\ Cut(q, 18, 20) = i
              /\ Cut(q, 20, 20 + n) = j /\ Cut(q, 20 + n, 20 + n + m) = k
<1>1. PICK ab : ab = a \o b
  OBVIOUS
<1>2. Slice(ab, 4)
  BY <1>1, SliceConcat
<1>3. PICK ac : ac = ab \o c
  OBVIOUS
<1>4. Slice(ac, 6)
  BY <1>2, <1>3, SliceConcat
<1>5. PICK ad : ad = ac \o d
  OBVIOUS
<1>6. Slice(ad, 8)
  BY <1>4, <1>5, SliceConcat
<1>7. PICK ae : ae = ad \o e
  OBVIOUS
<1>8. Slice(ae, 12)
  BY <1>6, <1>7, SliceConcat
<1>9. PICK af : af = ae \o f
  OBVIOUS
<1>10. Slice(af, 14)
  BY <1>8, <1>9, SliceConcat
<1>11. PICK ag : ag = af \o g
  OBVIOUS
<1>12. Slice(ag, 16)
  BY <1>10, <1>11, SliceConcat
<1>13. PICK ah : ah = ag \o h
  OBVIOUS
<1>14. Slice(ah, 18)
  BY <1>12, <1>13, SliceConcat
<1>15. PICK ai : ai = ah \o i
  OBVIOUS
<1>16. Slice(ai, 20)
  BY <1>14, <1>15, SliceConcat
<1>17. PICK aj : aj = ai \o j
  OBVIOUS
<1>18. Slice(aj, 20 + n)
  BY <1>16, <1>17, SliceConcat
<1>19. PICK ak : ak = aj \o k
  OBVIOUS
<1>20. Slice(ak, 20 + n + m)
  BY <1>18, <1>19, SliceConcat
<1>21. /\ ak = a \o b \o c \o d \o e \o f \o g \o h \o i \o j \o k
       /\ ag = a \o b \o c \o d \o e \o f \o g
  BY <1>1, <1>3, <1>5, <1>7, <1>9, <1>11, <1>13, <1>15, <1>17, <1>19
<1>22. ASSUME Begins(q, ak)
      PROVE  /\ Cut(q, 0, 2) = a /\ Cut(q, 2, 4) = b /\ Cut(q, 4, 6) = c
             /\ Cut(q, 6, 8) = d /\ Cut(q, 8, 12) = e /\ Cut(q, 12, 14) = f
             /\ Cut(q, 14, 16) = g /\ Cut(q, 16, 18) = h /\ Cut(q, 18, 20) = i
             /\ Cut(q, 20, 20 + n) = j /\ Cut(q, 20 + n, 20 + n + m) = k
  <2>1. Begins(q, aj) /\ Cut(q, 20 + n, 20 + n + m) = k
    BY <1>22, <1>19, <1>18, PartFrom
  <2>2. Begins(q, ai) /\ Cut(q, 20, 20 + n) = j
    BY <2>1, <1>17, <1>16, PartFrom
  <2>3. Begins(q, ah) /\ Cut(q, 18, 20) = i
    BY <2>2, <1>15, <1>14, PartFrom
  <2>4. Begins(q, ag) /\ Cut(q, 16, 18) = h
    BY <2>3, <1>13, <1>12, PartFrom
  <2>5. Begins(q, af) /\ Cut(q, 14, 16) = g
    BY <2>4, <1>11, <1>10, PartFrom
  <2>6. Begins(q, ae) /\ Cut(q, 12, 14) = f
    BY <2>5, <1>9, <1>8, PartFrom
  <2>7. Begins(q, ad) /\ Cut(q, 8, 12) = e
    BY <2>6, <1>7, <1>6, PartFrom
  <2>8. Begins(q, ac) /\ Cut(q, 6, 8) = d
    BY <2>7, <1>5, <1>4, PartFrom
  <2>9. Begins(q, ab) /\ Cut(q, 4, 6) = c
    BY <2>8, <1>3, <1>2, PartFrom
  <2>10. Begins(q, a) /\ Cut(q, 2, 4) = b
    BY <2>9, <1>1, PartFrom
  <2>11. Cut(q, 0, 2) = a
    BY <2>10, PartFirst
  <2> QED BY <2>1, <2>2, <2>3, <2>4, <2>5, <2>6, <2>7, <2>8, <2>9, <2>10, <2>11
<1> QED BY <1>20, <1>12, <1>21, <1>22

(* Options of a legal length fit the four bits that count words.           *)
LEMMA OptionWords ==
  ASSUME NEW n \in OptionLengths
  PROVE  /\ n \in Nat /\ (20 + n) \div 4 \in 5..15 /\ 4 * ((20 + n) \div 4) = 20 + n
         /\ 64 + (20 + n) \div 4 \in Byte
         /\ (64 + (20 + n) \div 4) \div 16 = 4 /\ 4 * ((64 + (20 + n) \div 4) % 16) = 20 + n
         /\ (16 * ((20 + n) \div 4)) % 256 \in Byte
         /\ 4 * (((16 * ((20 + n) \div 4)) % 256) \div 16) = 20 + n
<1>1. PICK k \in 0..10 : n = 4 * k
  BY DEF OptionLengths
<1>2. PICK w : w = (20 + n) \div 4
  OBVIOUS
<1>3. w = 5 + k /\ w \in 5..15 /\ n \in Nat
  BY <1>1, <1>2
<1>4. 4 * w = 20 + n /\ 64 + w \in Byte /\ (64 + w) \div 16 = 4 /\ (64 + w) % 16 = w
  BY <1>1, <1>3 DEF Byte
<1>5. (16 * w) % 256 = 16 * w /\ (16 * w) \div 16 = w /\ 16 * w \in Byte
  BY <1>1, <1>3 DEF Byte
<1> QED BY <1>2, <1>3, <1>4, <1>5

(* The length of a packet fits its length field.                           *)
LEMMA FieldLengths ==
  ASSUME NEW p, WellFormed(p)
  PROVE  /\ Len(p.IPOpts) \in Nat /\ Len(p.TCPOpts) \in Nat /\ Len(p.Payload) \in Nat
         /\ Total(p) = 20 + Len(p.IPOpts) + 20 + Len(p.TCPOpts) + Len(p.Payload)
         /\ Total(p) \in Uint16 /\ Total(p) \in Nat
<1>1. /\ Len(p.IPOpts) \in Nat /\ Len(p.TCPOpts) \in Nat /\ Len(p.Payload) \in Nat
  BY FieldsTyped, LenProperties
<1>2. PICK i, t, d : i = Len(p.IPOpts) /\ t = Len(p.TCPOpts) /\ d = Len(p.Payload)
  OBVIOUS
<1>3. i \in Nat /\ t \in Nat /\ d \in Nat
  BY <1>1, <1>2
<1>4. Total(p) = 40 + i + t + d /\ 40 + i + t + d < Size16
  BY <1>2 DEF Total, WellFormed
<1>5. 40 + i + t + d = 20 + i + 20 + t + d /\ 40 + i + t + d \in Nat
  BY <1>3
<1>6. 40 + i + t + d \in 0..(Size16 - 1)
  BY <1>4, <1>5, Size16Range
<1> QED BY <1>1, <1>2, <1>4, <1>5, <1>6 DEF Uint16

(* The lengths and the places of the fields of the header.                 *)
LEMMA HeaderFields ==
  ASSUME NEW p, WellFormed(p), NEW chk, Slice(chk, 2), NEW q \in Seq(Byte)
  PROVE  /\ Slice(Header(p, chk), 20 + Len(p.IPOpts)) /\ Slice(BeforeChecksum(p), 10)
         /\ Begins(q, Header(p, chk)) =>
              /\ Cut(q, 0, 2) = VersionAndTOS(p) /\ Cut(q, 2, 4) = Bytes16(Total(p))
              /\ Cut(q, 4, 8) = p.Frag /\ Cut(q, 8, 10) = TTLAndProtocol(p)
              /\ Cut(q, 12, 20) = p.Addrs /\ Cut(q, 20, 20 + Len(p.IPOpts)) = p.IPOpts
<1>1. PICK n \in Nat : n = Len(p.IPOpts)
  BY FieldLengths
<1>2. Slice(VersionAndTOS(p), 2)
  <2>1. PICK v : v = 64 + (20 + Len(p.IPOpts)) \div 4
    OBVIOUS
  <2>2. v \in Byte
    BY <2>1, OptionWords DEF WellFormed
  <2> QED BY <2>1, <2>2, FieldsTyped, BytesTyped DEF VersionAndTOS, Slice
<1>3. Slice(Bytes16(Total(p)), 2)
  BY FieldLengths, BytesTyped DEF Slice
<1>4. Slice(TTLAndProtocol(p), 2)
  <2>1. ProtoTCP \in Byte
    BY DEF ProtoTCP, Byte
  <2> QED BY <2>1, FieldsTyped, BytesTyped DEF TTLAndProtocol, Slice
<1>5. Slice(p.Frag, 4) /\ Slice(p.Addrs, 8) /\ Slice(p.IPOpts, n)
  BY <1>1, FieldsTyped DEF WellFormed, Slice
<1>6. PICK a, b, c, d, f, g : /\ a = VersionAndTOS(p) /\ b = Bytes16(Total(p)) /\ c = p.Frag
                              /\ d = TTLAndProtocol(p) /\ f = p.Addrs /\ g = p.IPOpts
  OBVIOUS
<1>7. /\ Slice(a, 2) /\ Slice(b, 2) /\ Slice(c, 4) /\ Slice(d, 2) /\ Slice(f, 8) /\ Slice(g, n)
  BY <1>2, <1>3, <1>4, <1>5, <1>6
<1>8. /\ Slice(a \o b \o c \o d \o chk \o f \o g, 20 + n)
      /\ Slice(a \o b \o c \o d, 10)
      /\ Begins(q, a \o b \o c \o d \o chk \o f \o g) =>
           /\ Cut(q, 0, 2) = a /\ Cut(q, 2, 4) = b /\ Cut(q, 4, 8) = c
           /\ Cut(q, 8, 10) = d /\ Cut(q, 10, 12) = chk /\ Cut(q, 12, 20) = f
           /\ Cut(q, 20, 20 + n) = g
  BY <1>7, HeaderParts
<1>9. BeforeChecksum(p) = a \o b \o c \o d /\ Header(p, chk) = a \o b \o c \o d \o chk \o f \o g
  BY <1>6 DEF BeforeChecksum, Header
<1> QED BY <1>1, <1>6, <1>8, <1>9

(* The lengths and the places of the fields of the segment.                *)
LEMMA SegmentFields ==
  ASSUME NEW p, WellFormed(p), NEW chk, Slice(chk, 2), NEW q \in Seq(Byte)
  PROVE  /\ Slice(Segment(p, chk), 20 + Len(p.TCPOpts) + Len(p.Payload))
         /\ Slice(BeforeTCPChecksum(p), 16)
         /\ Begins(q, Segment(p, chk)) =>
              /\ Cut(q, 0, 2) = Bytes16(p.SrcPort) /\ Cut(q, 2, 4) = Bytes16(p.DstPort)
              /\ Cut(q, 4, 6) = Bytes16(p.Seq[1]) /\ Cut(q, 6, 8) = Bytes16(p.Seq[2])
              /\ Cut(q, 8, 12) = p.Ack /\ Cut(q, 12, 14) = OffsetAndFlags(p)
              /\ Cut(q, 14, 16) = p.Window /\ Cut(q, 18, 20) = p.Urgent
              /\ Cut(q, 20, 20 + Len(p.TCPOpts)) = p.TCPOpts
              /\ Cut(q, 20 + Len(p.TCPOpts), 20 + Len(p.TCPOpts) + Len(p.Payload)) = p.Payload
<1>1. PICK n \in Nat, m \in Nat : n = Len(p.TCPOpts) /\ m = Len(p.Payload)
  BY FieldLengths
<1>2. Slice(OffsetAndFlags(p), 2)
  <2>1. PICK v : v = (16 * ((20 + Len(p.TCPOpts)) \div 4)) % 256
    OBVIOUS
  <2>2. v \in Byte
    BY <2>1, OptionWords DEF WellFormed
  <2> QED BY <2>1, <2>2, FieldsTyped, BytesTyped DEF OffsetAndFlags, Slice
<1>3. \A v \in Uint16 : Slice(Bytes16(v), 2)
  <2>1. Uint16 \subseteq Nat
    BY Size16Range DEF Uint16
  <2> QED BY <2>1, BytesTyped DEF Slice
<1>4. /\ Slice(p.Ack, 4) /\ Slice(p.Window, 2) /\ Slice(p.Urgent, 2)
      /\ Slice(p.TCPOpts, n) /\ Slice(p.Payload, m)
  BY <1>1, FieldsTyped DEF WellFormed, Slice
<1>5. PICK a, b, c, d, e, f, g, i, j, k :
        /\ a = Bytes16(p.SrcPort) /\ b = Bytes16(p.DstPort) /\ c = Bytes16(p.Seq[1])
        /\ d = Bytes16(p.Seq[2]) /\ e = p.Ack /\ f = OffsetAndFlags(p) /\ g = p.Window
        /\ i = p.Urgent /\ j = p.TCPOpts /\ k = p.Payload
  OBVIOUS
<1>6. /\ Slice(a, 2) /\ Slice(b, 2) /\ Slice(c, 2) /\ Slice(d, 2) /\ Slice(e, 4) /\ Slice(f, 2)
      /\ Slice(g, 2) /\ Slice(i, 2) /\ Slice(j, n) /\ Slice(k, m)
  BY <1>2, <1>3, <1>4, <1>5, FieldsTyped
<1>7. /\ Slice(a \o b \o c \o d \o e \o f \o g \o chk \o i \o j \o k, 20 + n + m)
      /\ Slice(a \o b \o c \o d \o e \o f \o g, 16)
      /\ Begins(q, a \o b \o c \o d \o e \o f \o g \o chk \o i \o j \o k) =>
           /\ Cut(q, 0, 2) = a /\ Cut(q, 2, 4) = b /\ Cut(q, 4, 6) = c
           /\ Cut(q, 6, 8) = d /\ Cut(q, 8, 12) = e /\ Cut(q, 12, 14) = f
           /\ Cut(q, 14, 16) = g /\ Cut(q, 16, 18) = chk /\ Cut(q, 18, 20) = i
           /\ Cut(q, 20, 20 + n) = j /\ Cut(q, 20 + n, 20 + n + m) = k
  BY <1>6, SegmentParts
<1>8. /\ BeforeTCPChecksum(p) = a \o b \o c \o d \o e \o f \o g
      /\ Segment(p, chk) = a \o b \o c \o d \o e \o f \o g \o chk \o i \o j \o k
  BY <1>5 DEF BeforeTCPChecksum, Segment
<1> QED BY <1>1, <1>5, <1>7, <1>8

(* The two bytes of a part.                                                *)
LEMMA TwoAt ==
  ASSUME NEW q \in Seq(Byte), NEW i \in Nat, i + 2 <= Len(q)
  PROVE  /\ At(q, i) = Cut(q, i, i + 2)[1] /\ At(q, i + 1) = Cut(q, i, i + 2)[2]
         /\ \A n \in Uint16 : Cut(q, i, i + 2) = Bytes16(n) => U16(q, i) = n
<1>1. PICK c : c = Cut(q, i, i + 2)
  OBVIOUS
<1>2. i \in 0..Len(q) /\ i + 2 \in i..Len(q) /\ i + 2 - i = 2
  BY LenProperties
<1>3. \A k \in 1..2 : c[k] = q[i + k]
  <2>1. PICK j : j = i + 2
    OBVIOUS
  <2>2. \A k \in 1..(j - i) : Cut(q, i, j)[k] = q[i + k]
    BY <1>2, <2>1, CutTyped
  <2> QED BY <1>1, <1>2, <2>1, <2>2
<1>4. At(q, i) = c[1] /\ At(q, i + 1) = c[2]
  BY <1>3 DEF At
<1>5. ASSUME NEW n \in Uint16, c = Bytes16(n)
      PROVE  U16(q, i) = n
  <2>1. At(q, i) = At(Bytes16(n), 0) /\ At(q, i + 1) = At(Bytes16(n), 1)
    BY <1>4, <1>5 DEF At
  <2> QED BY <2>1, ReadWritten
<1> QED BY <1>1, <1>4, <1>5

(* Two bytes that are a number in big-endian order are read as it.         *)
LEMMA ReadTwo ==
  ASSUME NEW q \in Seq(Byte), NEW i \in Nat, NEW j \in Nat, j = i + 2, j <= Len(q),
         NEW n \in Uint16, Cut(q, i, j) = Bytes16(n)
  PROVE  U16(q, i) = n
BY TwoAt

(* What the parser reads from a buffer that begins with a header.          *)
LEMMA HeaderRead ==
  ASSUME NEW p, WellFormed(p), NEW chk, Slice(chk, 2), NEW q \in Seq(Byte),
         Begins(q, Header(p, chk))
  PROVE  /\ Len(q) >= 20 + Len(p.IPOpts) /\ At(q, 0) \div 16 = 4
         /\ IHL(q) = 20 + Len(p.IPOpts) /\ At(q, 1) = p.TOS /\ U16(q, 2) = Total(p)
         /\ Cut(q, 4, 8) = p.Frag /\ At(q, 8) = p.TTL /\ At(q, 9) = ProtoTCP
         /\ Cut(q, 12, 20) = p.Addrs /\ Cut(q, 20, 20 + Len(p.IPOpts)) = p.IPOpts
<1>1. PICK n \in Nat : n = Len(p.IPOpts)
  BY FieldLengths
<1>2. Slice(Header(p, chk), 20 + n)
  BY <1>1, HeaderFields
<1>3. /\ Cut(q, 0, 2) = VersionAndTOS(p) /\ Cut(q, 2, 4) = Bytes16(Total(p))
      /\ Cut(q, 4, 8) = p.Frag /\ Cut(q, 8, 10) = TTLAndProtocol(p)
      /\ Cut(q, 12, 20) = p.Addrs /\ Cut(q, 20, 20 + Len(p.IPOpts)) = p.IPOpts
  BY HeaderFields
<1>4. Len(q) >= 20 + n
  BY <1>2 DEF Slice, Begins
<1>5. 0 + 2 <= Len(q) /\ 2 + 2 <= Len(q) /\ 8 + 2 <= Len(q)
  BY <1>1, <1>4, LenProperties
<1>6. At(q, 0) = VersionAndTOS(p)[1] /\ At(q, 1) = VersionAndTOS(p)[2]
  BY <1>3, <1>5, TwoAt
<1>7. At(q, 0) = 64 + (20 + n) \div 4 /\ At(q, 1) = p.TOS
  BY <1>1, <1>6 DEF VersionAndTOS
<1>8. U16(q, 2) = Total(p)
  <2>1. PICK t \in Uint16 : t = Total(p)
    BY FieldLengths
  <2>2. Cut(q, 2, 4) = Bytes16(t) /\ 4 <= Len(q)
    BY <1>3, <1>5, <2>1
  <2>3. U16(q, 2) = t
    BY <2>2, ReadTwo
  <2> QED BY <2>1, <2>3
<1>9. At(q, 8) = TTLAndProtocol(p)[1] /\ At(q, 9) = TTLAndProtocol(p)[2]
  BY <1>3, <1>5, TwoAt
<1>10. At(q, 8) = p.TTL /\ At(q, 9) = ProtoTCP
  BY <1>9 DEF TTLAndProtocol
<1>11. n \in OptionLengths
  BY <1>1 DEF WellFormed
<1>12. At(q, 0) \div 16 = 4 /\ IHL(q) = 20 + n
  BY <1>7, <1>11, OptionWords, SMTT(30) DEF IHL
<1> QED BY <1>1, <1>3, <1>4, <1>7, <1>8, <1>10, <1>12

(* What the parser reads from a segment.                                   *)
LEMMA SegmentRead ==
  ASSUME NEW p, WellFormed(p), NEW chk, Slice(chk, 2), NEW q, q = Segment(p, chk)
  PROVE  /\ q \in Seq(Byte) /\ Len(q) = 20 + Len(p.TCPOpts) + Len(p.Payload)
         /\ U16(q, 0) = p.SrcPort /\ U16(q, 2) = p.DstPort
         /\ <<U16(q, 4), U16(q, 6)>> = p.Seq
         /\ Cut(q, 8, 12) = p.Ack /\ 4 * (At(q, 12) \div 16) = 20 + Len(p.TCPOpts)
         /\ At(q, 13) = p.Flags /\ Cut(q, 14, 16) = p.Window /\ Cut(q, 18, 20) = p.Urgent
         /\ Cut(q, 20, 20 + Len(p.TCPOpts)) = p.TCPOpts
         /\ Cut(q, 20 + Len(p.TCPOpts), Len(q)) = p.Payload
<1>1. PICK n \in Nat, m \in Nat : n = Len(p.TCPOpts) /\ m = Len(p.Payload)
  BY FieldLengths
<1>2. <<>> \in Seq(Byte)
  BY EmptySeq
<1>3. q \in Seq(Byte) /\ Len(q) = 20 + n + m
  BY <1>1, <1>2, SegmentFields DEF Slice
<1>4. Begins(q, Segment(p, chk))
  BY <1>3, BeginsWhole
<1>5. /\ Cut(q, 0, 2) = Bytes16(p.SrcPort) /\ Cut(q, 2, 4) = Bytes16(p.DstPort)
      /\ Cut(q, 4, 6) = Bytes16(p.Seq[1]) /\ Cut(q, 6, 8) = Bytes16(p.Seq[2])
      /\ Cut(q, 8, 12) = p.Ack /\ Cut(q, 12, 14) = OffsetAndFlags(p)
      /\ Cut(q, 14, 16) = p.Window /\ Cut(q, 18, 20) = p.Urgent
      /\ Cut(q, 20, 20 + n) = p.TCPOpts
      /\ Cut(q, 20 + n, 20 + n + m) = p.Payload
  BY <1>1, <1>3, <1>4, SegmentFields
<1>6. /\ 0 + 2 <= Len(q) /\ 2 + 2 <= Len(q) /\ 4 + 2 <= Len(q) /\ 6 + 2 <= Len(q)
      /\ 12 + 2 <= Len(q)
  BY <1>3
<1>7. PICK a \in Uint16, b \in Uint16, c \in Uint16, d \in Uint16 :
        a = p.SrcPort /\ b = p.DstPort /\ c = p.Seq[1] /\ d = p.Seq[2]
  BY FieldsTyped
<1>8. U16(q, 0) = a /\ U16(q, 2) = b /\ U16(q, 4) = c /\ U16(q, 6) = d
  <2>1. 2 <= Len(q) /\ 4 <= Len(q) /\ 6 <= Len(q) /\ 8 <= Len(q)
    BY <1>6
  <2>2. /\ Cut(q, 0, 2) = Bytes16(a) /\ Cut(q, 2, 4) = Bytes16(b)
        /\ Cut(q, 4, 6) = Bytes16(c) /\ Cut(q, 6, 8) = Bytes16(d)
    BY <1>5, <1>7
  <2>3. U16(q, 0) = a
    BY <1>3, <2>1, <2>2, ReadTwo
  <2>4. U16(q, 2) = b
    BY <1>3, <2>1, <2>2, ReadTwo
  <2>5. U16(q, 4) = c
    BY <1>3, <2>1, <2>2, ReadTwo
  <2>6. U16(q, 6) = d
    BY <1>3, <2>1, <2>2, ReadTwo
  <2> QED BY <2>3, <2>4, <2>5, <2>6
<1>9. At(q, 12) = OffsetAndFlags(p)[1] /\ At(q, 13) = OffsetAndFlags(p)[2]
  BY <1>3, <1>5, <1>6, TwoAt, SMTT(30)
<1>10. At(q, 12) = (16 * ((20 + n) \div 4)) % 256 /\ At(q, 13) = p.Flags
  BY <1>1, <1>9 DEF OffsetAndFlags
<1>11. 4 * (At(q, 12) \div 16) = 20 + n
  <2>1. n \in OptionLengths
    BY <1>1 DEF WellFormed
  <2> QED BY <1>10, <2>1, OptionWords
<1>12. <<U16(q, 4), U16(q, 6)>> = p.Seq
  BY <1>7, <1>8, FieldsTyped
<1> QED BY <1>1, <1>3, <1>5, <1>7, <1>8, <1>10, <1>11, <1>12

(* The two checksums, each at an even place of what it is computed over.   *)
LEMMA Regroup ==
  ASSUME NEW a \in Seq(Byte), NEW b \in Seq(Byte), NEW c \in Seq(Byte)
  PROVE  (a \o b) \o c = a \o (b \o c)
BY ConcatAssociative

(* Grouping of what is appended, stated without the operators.             *)
Slices(a, b, c, d) == a \in Seq(Byte) /\ b \in Seq(Byte) /\ c \in Seq(Byte) /\ d \in Seq(Byte)

FourRegrouped(b, x, y, z) == ((b \o x) \o y) \o z = b \o ((x \o y) \o z)
FiveRegrouped(u, a, c, r) == u \o ((a \o c) \o r) = ((u \o a) \o c) \o r

(* Grouping does not matter to what is appended.                           *)
LEMMA RegroupFour ==
  ASSUME NEW b, NEW x, NEW y, NEW z, Slices(b, x, y, z)
  PROVE  FourRegrouped(b, x, y, z)
<1> USE DEF Slices
<1>1. PICK xy : xy = x \o y
  OBVIOUS
<1>2. xy \in Seq(Byte)
  BY <1>1, ConcatBytes
<1>3. (b \o x) \o y = b \o xy
  BY <1>1, Regroup
<1>4. (b \o xy) \o z = b \o (xy \o z)
  BY <1>2, Regroup, SMTT(30)
<1> QED BY <1>1, <1>3, <1>4, Zenon DEF FourRegrouped

(* The header is what precedes its checksum, the checksum, and the rest.   *)
LEMMA HeaderJoined ==
  ASSUME NEW p, WellFormed(p), NEW chk, Slice(chk, 2)
  PROVE  Joined(Header(p, chk), BeforeChecksum(p), chk, p.Addrs \o p.IPOpts)
<1>1. PICK a, b : a = BeforeChecksum(p) /\ b = a \o chk
  OBVIOUS
<1>2. PICK x, y : x = p.Addrs /\ y = p.IPOpts
  OBVIOUS
<1>3. a \in Seq(Byte) /\ chk \in Seq(Byte) /\ x \in Seq(Byte) /\ y \in Seq(Byte)
  <2>1. <<>> \in Seq(Byte)
    BY EmptySeq
  <2> QED BY <1>1, <1>2, <2>1, HeaderFields, FieldsTyped DEF Slice
<1>4. b \in Seq(Byte)
  BY <1>1, <1>3, ConcatBytes
<1>5. (b \o x) \o y = b \o (x \o y)
  BY <1>3, <1>4, ConcatAssociative, SMTT(30)
<1> QED BY <1>1, <1>2, <1>5 DEF Joined, Header

(* The same, with three parts to the right.                                *)
LEMMA RegroupFive ==
  ASSUME NEW u, NEW a, NEW c, NEW r, Slices(u, a, c, r)
  PROVE  FiveRegrouped(u, a, c, r)
<1> USE DEF Slices
<1>1. PICK ac \in Seq(Byte) : ac = a \o c
  BY ConcatBytes
<1>2. (u \o ac) \o r = u \o (ac \o r)
  BY Regroup, SMTT(30)
<1>3. (u \o a) \o c = u \o ac
  BY <1>1, Regroup
<1> QED BY <1>1, <1>2, <1>3, Zenon DEF FiveRegrouped

(* So is the segment with its pseudo-header.                               *)
LEMMA SegmentJoined ==
  ASSUME NEW p, WellFormed(p), NEW chk, Slice(chk, 2), NEW pseudo \in Seq(Byte)
  PROVE  Joined(pseudo \o Segment(p, chk), pseudo \o BeforeTCPChecksum(p), chk,
                p.Urgent \o p.TCPOpts \o p.Payload)
<1>1. BeforeTCPChecksum(p) \in Seq(Byte) /\ chk \in Seq(Byte)
  <2>1. <<>> \in Seq(Byte)
    BY EmptySeq
  <2> QED BY <2>1, SegmentFields DEF Slice
<1>2. PICK a \in Seq(Byte), c \in Seq(Byte), x \in Seq(Byte), y \in Seq(Byte), z \in Seq(Byte) :
        a = BeforeTCPChecksum(p) /\ c = chk /\ x = p.Urgent /\ y = p.TCPOpts /\ z = p.Payload
  BY <1>1, FieldsTyped
<1>3. PICK b \in Seq(Byte) : b = a \o c
  BY ConcatBytes
<1>4. ((b \o x) \o y) \o z = b \o ((x \o y) \o z)
  <2>1. Slices(b, x, y, z)
    BY DEF Slices
  <2>2. FourRegrouped(b, x, y, z)
    BY <2>1, RegroupFour
  <2> QED BY <2>2, Zenon DEF FourRegrouped
<1>5. PICK xy \in Seq(Byte) : xy = x \o y
  BY ConcatBytes
<1>6. PICK r \in Seq(Byte) : r = xy \o z
  BY ConcatBytes
<1>7. pseudo \o ((a \o c) \o r) = ((pseudo \o a) \o c) \o r
  <2>1. Slices(pseudo, a, c, r)
    BY DEF Slices
  <2>2. FiveRegrouped(pseudo, a, c, r)
    BY <2>1, RegroupFive
  <2> QED BY <2>2, Zenon DEF FiveRegrouped
<1>8. Segment(p, chk) = (a \o c) \o r
  BY <1>2, <1>3, <1>4, <1>5, <1>6, Zenon DEF Segment
<1> QED BY <1>2, <1>5, <1>6, <1>7, <1>8, Zenon DEF Joined

(* A pseudo-header has twelve bytes.                                       *)
LEMMA PseudoTyped ==
  ASSUME NEW p, WellFormed(p), NEW seg \in Seq(Byte)
  PROVE  Slice(Pseudo(p.Addrs, seg), 12)
<1>1. PICK a, b, c : a = p.Addrs /\ b = <<0, ProtoTCP>> /\ c = Bytes16(Len(seg))
  OBVIOUS
<1>2. Slice(a, 8)
  BY <1>1, FieldsTyped DEF WellFormed, Slice
<1>3. Slice(b, 2)
  <2>1. 0 \in Byte /\ ProtoTCP \in Byte
    BY DEF ProtoTCP, Byte
  <2> QED BY <1>1, <2>1, BytesTyped DEF Slice
<1>4. Slice(c, 2)
  BY <1>1, LenProperties, BytesTyped DEF Slice
<1>5. Slice(a \o b, 10)
  BY <1>2, <1>3, SliceConcat
<1>6. Slice(a \o b \o c, 12)
  BY <1>4, <1>5, SliceConcat
<1> QED BY <1>1, <1>6 DEF Pseudo

(* The sum over a slice is a multiple of 2^16-1.                           *)
SumsToZero(b) ==
  b \in Seq(Byte) /\ \A s : ByteSums(b, s) => s[Len(b)] \in Nat /\ s[Len(b)] % (Size16 - 1) = 0

(* Both checksums that Serialize writes make their sum a multiple of       *)
(* 2^16-1, for payloads of odd length too.                                 *)
LEMMA SerializeChecksums ==
  ASSUME NEW p, WellFormed(p)
  PROVE  \E chk, sum : /\ Slice(chk, 2) /\ Slice(sum, 2)
                       /\ Serialize(p) = Header(p, chk) \o Segment(p, sum)
                       /\ SumsToZero(Header(p, chk))
                       /\ SumsToZero(Pseudo(p.Addrs, Segment(p, sum)) \o Segment(p, sum))
<1>1. Slice(Zeros(2), 2)
  <2>1. 2 \in Nat
    OBVIOUS
  <2> QED BY <2>1, BytesTyped DEF Slice
<1>2. PICK h, g, z, f : /\ h = Header(p, Zeros(2)) /\ g = Segment(p, Zeros(2))
                        /\ z = Pseudo(p.Addrs, g) /\ f = z \o g
  OBVIOUS
<1>3. PICK chk, sum : chk = Bytes16(Checksum(h)) /\ sum = Bytes16(Checksum(f))
  OBVIOUS
<1>4. Serialize(p) = Header(p, chk) \o Segment(p, sum)
  BY <1>2, <1>3, SerializeParts
<1>5. PICK e : e = <<>>
  OBVIOUS
<1>6. e \in Seq(Byte)
  BY <1>5, EmptySeq
<1>7. h \in Seq(Byte) /\ g \in Seq(Byte) /\ Len(g) = 20 + Len(p.TCPOpts) + Len(p.Payload)
  BY <1>1, <1>2, <1>6, HeaderFields, SegmentFields DEF Slice
<1>8. Slice(z, 12)
  BY <1>2, <1>7, PseudoTyped
<1>9. z \in Seq(Byte) /\ Len(z) = 12 /\ f \in Seq(Byte)
  BY <1>2, <1>7, <1>8, ConcatBytes DEF Slice
<1>10. \A b \in Seq(Byte) : Checksum(b) \in Uint16 /\ Slice(Bytes16(Checksum(b)), 2)
  <2>1. ASSUME NEW b \in Seq(Byte)
        PROVE  Checksum(b) \in Uint16 /\ Slice(Bytes16(Checksum(b)), 2)
    <3>1. PICK s : ByteSums(b, s)
      BY ByteSumsExist
    <3>2. Checksum(b) \in Uint16
      BY <3>1, ChecksumCompletes
    <3>3. Checksum(b) \in Nat
      BY <3>2, Size16Range DEF Uint16
    <3> QED BY <3>2, <3>3, BytesTyped DEF Slice
  <2> QED BY <2>1
<1>11. Slice(chk, 2) /\ Slice(sum, 2)
  BY <1>3, <1>7, <1>9, <1>10
<1>12. SumsToZero(Header(p, chk))
  <2>1. Slice(BeforeChecksum(p), 10)
    BY <1>1, <1>6, HeaderFields
  <2>2. PICK pre, post : pre = BeforeChecksum(p) /\ post = p.Addrs \o p.IPOpts
    OBVIOUS
  <2>3. pre \in Seq(Byte) /\ Len(pre) = 10
    BY <2>1, <2>2 DEF Slice
  <2>4. post \in Seq(Byte)
    BY <2>2, FieldsTyped, ConcatBytes
  <2>5. Joined(h, pre, Zeros(2), post)
    BY <1>1, <1>2, <2>2, HeaderJoined
  <2>6. PICK c : c = Header(p, chk)
    OBVIOUS
  <2>7. Joined(c, pre, Bytes16(Checksum(h)), post)
    BY <1>3, <1>11, <2>2, <2>6, HeaderJoined
  <2>8. Len(pre) % 2 = 0
    BY <2>3
  <2>9. c \in Seq(Byte)
    BY <1>6, <1>11, <2>6, HeaderFields DEF Slice
  <2>10. SumsToZero(c)
    BY <2>3, <2>4, <2>5, <2>7, <2>8, <2>9, ChecksumWritten DEF SumsToZero
  <2> QED BY <2>6, <2>10
<1>13. SumsToZero(Pseudo(p.Addrs, Segment(p, sum)) \o Segment(p, sum))
  <2>1. PICK r : r = Segment(p, sum)
    OBVIOUS
  <2>2. r \in Seq(Byte) /\ Len(r) = Len(g)
    BY <1>6, <1>7, <1>11, <2>1, SegmentFields DEF Slice
  <2>3. Pseudo(p.Addrs, r) = z
    BY <1>2, <2>2 DEF Pseudo
  <2>4. PICK pre, post : /\ pre = z \o BeforeTCPChecksum(p)
                         /\ post = p.Urgent \o p.TCPOpts \o p.Payload
    OBVIOUS
  <2>5. Slice(BeforeTCPChecksum(p), 16)
    BY <1>1, <1>6, SegmentFields
  <2>6. Slice(pre, 28)
    BY <1>8, <2>4, <2>5, SliceConcat
  <2>7. pre \in Seq(Byte) /\ Len(pre) = 28
    BY <2>6 DEF Slice
  <2>8. post \in Seq(Byte)
    <3>1. p.Urgent \o p.TCPOpts \in Seq(Byte)
      BY FieldsTyped, ConcatBytes
    <3> QED BY <2>4, <3>1, FieldsTyped, ConcatBytes
  <2>9. Joined(f, pre, Zeros(2), post)
    BY <1>1, <1>2, <1>9, <2>4, SegmentJoined
  <2>10. PICK c : c = z \o r
    OBVIOUS
  <2>11. Joined(c, pre, Bytes16(Checksum(f)), post)
    BY <1>3, <1>9, <1>11, <2>1, <2>4, <2>10, SegmentJoined
  <2>12. Len(pre) % 2 = 0
    BY <2>7
  <2>13. c \in Seq(Byte)
    BY <1>9, <2>2, <2>10, ConcatBytes
  <2>14. SumsToZero(c)
    BY <2>7, <2>8, <2>9, <2>11, <2>12, <2>13, ChecksumWritten, ZenonT(40) DEF SumsToZero
  <2> QED BY <2>1, <2>3, <2>10, <2>14
<1> QED BY <1>4, <1>11, <1>12, <1>13

-----------------------------------------------------------------------------
(* Where the two parts are in what Serialize writes.                       *)
LEMMA SerializeLayout ==
  ASSUME NEW p, WellFormed(p)
  PROVE  \E chk, sum, h, g, buf :
           /\ buf = Serialize(p) /\ h = Header(p, chk) /\ g = Segment(p, sum)
           /\ Slice(chk, 2) /\ Slice(sum, 2) /\ Slice(buf, Total(p))
           /\ h \in Seq(Byte) /\ g \in Seq(Byte) /\ Begins(buf, h)
           /\ Cut(buf, 0, 20 + Len(p.IPOpts)) = h
           /\ Cut(buf, 20 + Len(p.IPOpts), Total(p)) = g
           /\ SumsToZero(h) /\ SumsToZero(Pseudo(p.Addrs, g) \o g)
<1>1. PICK chk, sum : /\ Slice(chk, 2) /\ Slice(sum, 2)
                      /\ Serialize(p) = Header(p, chk) \o Segment(p, sum)
                      /\ SumsToZero(Header(p, chk))
                      /\ SumsToZero(Pseudo(p.Addrs, Segment(p, sum)) \o Segment(p, sum))
  BY SerializeChecksums
<1>2. PICK h, g, buf : h = Header(p, chk) /\ g = Segment(p, sum) /\ buf = h \o g
  OBVIOUS
<1>3. PICK n, m, d : n = Len(p.IPOpts) /\ m = Len(p.TCPOpts) /\ d = Len(p.Payload)
  OBVIOUS
<1>4. n \in OptionLengths /\ m \in OptionLengths /\ n \in Nat /\ m \in Nat /\ d \in Nat
  BY <1>3, FieldLengths DEF WellFormed
<1>5. PICK e : e = <<>>
  OBVIOUS
<1>6. e \in Seq(Byte)
  BY <1>5, EmptySeq
<1>7. Slice(h, 20 + n) /\ Slice(g, 20 + m + d)
  BY <1>1, <1>2, <1>3, <1>6, HeaderFields, SegmentFields
<1>8. PICK end \in Nat : end = (20 + n) + (20 + m + d)
  BY <1>4
<1>9. Slice(buf, end) /\ end = Total(p)
  <2>1. Total(p) = 20 + n + 20 + m + d
    BY <1>3, FieldLengths
  <2>2. end = Total(p)
    BY <1>4, <1>8, <2>1
  <2>3. 20 + n \in Nat /\ 20 + m + d \in Nat
    BY <1>4
  <2> QED BY <1>2, <1>7, <1>8, <2>2, <2>3, SliceConcat
<1>10. buf \in Seq(Byte) /\ Len(buf) = end /\ h \in Seq(Byte) /\ g \in Seq(Byte)
  BY <1>7, <1>9 DEF Slice
<1>11. Begins(buf, h) /\ Begins(buf, h \o g)
  BY <1>2, <1>10, BeginsWhole
<1>12. Cut(buf, 20 + n, end) = g
  <2>1. 20 + n \in Nat /\ 20 + m + d \in Nat
    BY <1>4
  <2>2. Cut(buf, 20 + n, (20 + n) + (20 + m + d)) = g
    BY <1>7, <1>10, <1>11, <2>1, PartFrom
  <2> QED BY <1>8, <2>2
<1>13. Cut(buf, 0, 20 + n) = h
  <2>1. 20 + n \in Nat
    BY <1>4
  <2> QED BY <1>7, <1>10, <1>11, <2>1, PartFirst
<1> QED BY <1>1, <1>2, <1>3, <1>9, <1>10, <1>11, <1>12, <1>13

(* What Serialize writes, ParseTCP reads: the engine's parts, built from   *)
(* the fields of a captured packet, decode to those fields.                *)
THEOREM RoundTrip ==
  ASSUME NEW p, WellFormed(p)
  PROVE  ParseTCP(Serialize(p)) = <<p>>
<1>1. PICK chk, sum, h, g, buf :
        /\ buf = Serialize(p) /\ h = Header(p, chk) /\ g = Segment(p, sum)
        /\ Slice(chk, 2) /\ Slice(sum, 2) /\ Slice(buf, Total(p))
        /\ h \in Seq(Byte) /\ g \in Seq(Byte) /\ Begins(buf, h)
        /\ Cut(buf, 20 + Len(p.IPOpts), Total(p)) = g
  BY SerializeLayout
<1>2. PICK n, m, d : n = Len(p.IPOpts) /\ m = Len(p.TCPOpts) /\ d = Len(p.Payload)
  OBVIOUS
<1>3. n \in Nat /\ m \in Nat /\ d \in Nat
  BY <1>2, FieldLengths
<1>4. PICK end \in Nat : end = Total(p) /\ end = 20 + n + 20 + m + d
  BY <1>2, FieldLengths
<1>5. buf \in Seq(Byte) /\ Len(buf) = end /\ Cut(buf, 20 + n, end) = g
  BY <1>1, <1>2, <1>4 DEF Slice
<1>6. /\ At(buf, 0) \div 16 = 4
      /\ IHL(buf) = 20 + n /\ At(buf, 1) = p.TOS /\ U16(buf, 2) = end
      /\ Cut(buf, 4, 8) = p.Frag /\ At(buf, 8) = p.TTL /\ At(buf, 9) = ProtoTCP
      /\ Cut(buf, 12, 20) = p.Addrs /\ Cut(buf, 20, 20 + n) = p.IPOpts
  BY <1>1, <1>2, <1>4, <1>5, HeaderRead
<1>7. /\ Len(g) = 20 + m + d
      /\ U16(g, 0) = p.SrcPort /\ U16(g, 2) = p.DstPort
      /\ <<U16(g, 4), U16(g, 6)>> = p.Seq
      /\ Cut(g, 8, 12) = p.Ack /\ 4 * (At(g, 12) \div 16) = 20 + m
      /\ At(g, 13) = p.Flags /\ Cut(g, 14, 16) = p.Window /\ Cut(g, 18, 20) = p.Urgent
      /\ Cut(g, 20, 20 + m) = p.TCPOpts
      /\ Cut(g, 20 + m, Len(g)) = p.Payload
  <2>1. Slice(sum, 2) /\ g = Segment(p, sum)
    BY <1>1
  <2> QED BY <1>2, <2>1, SegmentRead, ZenonT(40)
<1>8. /\ ~(end < 20 + n \/ end > Len(buf))
      /\ Len(buf) >= 20 /\ 20 + n >= 20 /\ Len(buf) >= 20 + n
      /\ Len(g) >= 20 /\ 20 + m >= 20 /\ 20 + m <= Len(g)
  BY <1>3, <1>4, <1>5, <1>7
<1>9. ParseTCP(buf) = << [ TOS     |-> p.TOS,
                           Frag    |-> p.Frag,
                           TTL     |-> p.TTL,
                           Addrs   |-> p.Addrs,
                           IPOpts  |-> p.IPOpts,
                           SrcPort |-> p.SrcPort,
                           DstPort |-> p.DstPort,
                           Seq     |-> p.Seq,
                           Ack     |-> p.Ack,
                           Flags   |-> p.Flags,
                           Window  |-> p.Window,
                           Urgent  |-> p.Urgent,
                           TCPOpts |-> p.TCPOpts,
                           Payload |-> p.Payload ] >>
  BY <1>5, <1>6, <1>7, <1>8, ZenonT(40) DEF ParseTCP
<1>10. p = [ TOS     |-> p.TOS,
             Frag    |-> p.Frag,
             TTL     |-> p.TTL,
             Addrs   |-> p.Addrs,
             IPOpts  |-> p.IPOpts,
             SrcPort |-> p.SrcPort,
             DstPort |-> p.DstPort,
             Seq     |-> p.Seq,
             Ack     |-> p.Ack,
             Flags   |-> p.Flags,
             Window  |-> p.Window,
             Urgent  |-> p.Urgent,
             TCPOpts |-> p.TCPOpts,
             Payload |-> p.Payload ]
  BY DEF WellFormed, TCPPackets
<1> QED BY <1>1, <1>9, <1>10

(* "with correct lengths and checksums": the header that Serialize writes, *)
(* and its segment with the pseudo-header, sum up to zero, and the length  *)
(* field is the length.                                                    *)
THEOREM SerializeCorrect ==
  ASSUME NEW p, WellFormed(p), NEW buf, buf = Serialize(p),
         NEW tcp, tcp = Cut(buf, IHL(buf), Len(buf))
  PROVE  /\ buf \in Seq(Byte) /\ Len(buf) < Size16
         /\ SumsToZero(Cut(buf, 0, IHL(buf)))
         /\ SumsToZero(Pseudo(Cut(buf, 12, 20), tcp) \o tcp)
         /\ U16(buf, 2) = Len(buf)
<1>1. PICK chk, sum, h, g, b :
        /\ b = Serialize(p) /\ h = Header(p, chk) /\ g = Segment(p, sum)
        /\ Slice(chk, 2) /\ Slice(sum, 2) /\ Slice(b, Total(p))
        /\ h \in Seq(Byte) /\ g \in Seq(Byte) /\ Begins(b, h)
        /\ Cut(b, 0, 20 + Len(p.IPOpts)) = h
        /\ Cut(b, 20 + Len(p.IPOpts), Total(p)) = g
        /\ SumsToZero(h) /\ SumsToZero(Pseudo(p.Addrs, g) \o g)
  BY SerializeLayout
<1>2. b = buf /\ buf \in Seq(Byte) /\ Len(buf) = Total(p)
  BY <1>1 DEF Slice
<1>3. IHL(buf) = 20 + Len(p.IPOpts) /\ U16(buf, 2) = Total(p) /\ Cut(buf, 12, 20) = p.Addrs
  <2>1. Slice(chk, 2) /\ Begins(buf, Header(p, chk))
    BY <1>1, <1>2
  <2> QED BY <1>2, <2>1, HeaderRead
<1>4. tcp = g /\ Cut(buf, 0, IHL(buf)) = h
  BY <1>1, <1>2, <1>3
<1>5. Len(buf) < Size16
  <2>1. PICK end \in Uint16 : end = Total(p)
    BY FieldLengths
  <2> QED BY <1>2, <2>1, Size16Range DEF Uint16
<1> QED BY <1>1, <1>2, <1>3, <1>4, <1>5

-----------------------------------------------------------------------------
(* What ParseTCP accepts has the parts it reads.                           *)
LEMMA HeaderWords ==
  ASSUME NEW b \in Byte
  PROVE  /\ 4 * (b % 16) \in Nat /\ 4 * (b \div 16) \in Nat
         /\ 4 * (b % 16) >= 20 => 4 * (b % 16) - 20 \in OptionLengths
         /\ 4 * (b \div 16) >= 20 => 4 * (b \div 16) - 20 \in OptionLengths
<1>1. \A k \in 0..15 : 4 * k >= 20 => 4 * k - 20 = 4 * (k - 5) /\ k - 5 \in 0..10
  OBVIOUS
<1>2. b % 16 \in 0..15 /\ b \div 16 \in 0..15
  BY DEF Byte
<1> QED BY <1>1, <1>2 DEF OptionLengths

(* The packet that ParseTCP makes of a buffer, for the segment tcp and its  *)
(* options up to off.                                                       *)
Decoded(buf, ihl, tcp, off) ==
  [ TOS     |-> At(buf, 1),
    Frag    |-> Cut(buf, 4, 8),
    TTL     |-> At(buf, 8),
    Addrs   |-> Cut(buf, 12, 20),
    IPOpts  |-> Cut(buf, 20, ihl),
    SrcPort |-> U16(tcp, 0),
    DstPort |-> U16(tcp, 2),
    Seq     |-> <<U16(tcp, 4), U16(tcp, 6)>>,
    Ack     |-> Cut(tcp, 8, 12),
    Flags   |-> At(tcp, 13),
    Window  |-> Cut(tcp, 14, 16),
    Urgent  |-> Cut(tcp, 18, 20),
    TCPOpts |-> Cut(tcp, 20, off),
    Payload |-> Cut(tcp, off, Len(tcp)) ]
Parts(buf, ihl, end, off, tcp) ==
  /\ ihl = IHL(buf) /\ 20 <= ihl /\ ihl <= end /\ end <= Len(buf)
  /\ tcp = Cut(buf, ihl, end) /\ Len(tcp) = end - ihl
  /\ off = 4 * (At(tcp, 12) \div 16) /\ 20 <= off /\ off <= Len(tcp)
  /\ ihl - 20 \in OptionLengths /\ off - 20 \in OptionLengths

(* What ParseTCP accepts has such parts.                                   *)
LEMMA ParseParts ==
  ASSUME NEW buf \in Seq(Byte), ParseTCP(buf) # <<>>
  PROVE  \E ihl \in Nat, end \in Nat, off \in Nat, tcp \in Seq(Byte) :
           /\ Parts(buf, ihl, end, off, tcp)
           /\ ParseTCP(buf) = <<Decoded(buf, ihl, tcp, off)>>
           /\ At(buf, 9) = ProtoTCP
<1> DEFINE i   == IHL(buf)
           n   == U16(buf, 2)
           e   == IF n < i \/ n > Len(buf) THEN Len(buf) ELSE n
           t   == Cut(buf, i, e)
           o   == 4 * (At(t, 12) \div 16)
<1>1. /\ Len(buf) >= 20 /\ At(buf, 0) \div 16 = 4 /\ i >= 20 /\ Len(buf) >= i
      /\ At(buf, 9) = ProtoTCP /\ Len(t) >= 20 /\ o >= 20 /\ o <= Len(t)
      /\ ParseTCP(buf) = <<Decoded(buf, i, t, o)>>
  BY Zenon DEF ParseTCP, Decoded
<1>2. PICK ihl, total, end, tcp, off : ihl = i /\ total = n /\ end = e /\ tcp = t /\ off = o
  OBVIOUS
<1>3. /\ ihl = IHL(buf) /\ total = U16(buf, 2)
      /\ end = IF total < ihl \/ total > Len(buf) THEN Len(buf) ELSE total
      /\ tcp = Cut(buf, ihl, end) /\ off = 4 * (At(tcp, 12) \div 16)
  BY <1>2
<1>4. ParseTCP(buf) = <<Decoded(buf, ihl, tcp, off)>>
  BY <1>1, <1>2
<1>5. /\ Len(buf) >= 20 /\ At(buf, 0) \div 16 = 4 /\ ihl >= 20 /\ Len(buf) >= ihl
      /\ At(buf, 9) = ProtoTCP /\ Len(tcp) >= 20 /\ off >= 20 /\ off <= Len(tcp)
  BY <1>1, <1>2
<1> HIDE DEF i, n, e, t, o
<1>6. Len(buf) \in Nat
  BY LenProperties
<1>7. ihl \in Nat /\ ihl - 20 \in OptionLengths
  <2>1. At(buf, 0) \in Byte
    BY <1>5, <1>6, AtTyped
  <2> QED BY <1>3, <1>5, <2>1, HeaderWords DEF IHL
<1>8. total \in Nat
  <2>1. 2 \in 0..(Len(buf) - 2)
    BY <1>5, <1>6
  <2> QED BY <1>3, <2>1, U16Typed, Size16Range DEF Uint16
<1>9. end \in Nat /\ ihl <= end /\ end <= Len(buf)
  BY <1>3, <1>5, <1>6, <1>7, <1>8
<1>10. tcp \in Seq(Byte) /\ Len(tcp) = end - ihl
  <2>1. ihl \in 0..Len(buf) /\ end \in ihl..Len(buf)
    BY <1>5, <1>6, <1>7, <1>9
  <2> QED BY <1>3, <2>1, CutTyped
<1>11. off \in Nat /\ off - 20 \in OptionLengths
  <2>1. 12 \in 0..(Len(tcp) - 1)
    BY <1>5, <1>10, LenProperties
  <2>2. At(tcp, 12) \in Byte
    BY <1>10, <2>1, AtTyped
  <2> QED BY <1>3, <1>5, <2>2, HeaderWords
<1>12. 20 <= ihl /\ 20 <= off
  BY <1>5, <1>7, <1>11
<1>13. Parts(buf, ihl, end, off, tcp)
  BY <1>3, <1>5, <1>7, <1>9, <1>10, <1>11, <1>12 DEF Parts
<1> QED BY <1>4, <1>5, <1>7, <1>9, <1>10, <1>11, <1>13

(* How long a slice expression is.                                         *)
LEMMA CutSlice ==
  ASSUME NEW b \in Seq(Byte), NEW i \in Nat, NEW j \in Nat, i <= j, j <= Len(b), NEW n, n = j - i
  PROVE  Slice(Cut(b, i, j), n)
<1>1. i \in 0..Len(b) /\ j \in i..Len(b)
  BY LenProperties
<1> QED BY <1>1, CutTyped DEF Slice

(* The packets that the engine takes apart can be put together again.      *)
THEOREM ParseWellFormed ==
  ASSUME NEW buf \in Seq(Byte), Len(buf) < Size16, ParseTCP(buf) # <<>>
  PROVE  ParseTCP(buf)[1] \in TCPPackets /\ WellFormed(ParseTCP(buf)[1])
<1>1. PICK ihl \in Nat, end \in Nat, off \in Nat, tcp \in Seq(Byte) :
        /\ Parts(buf, ihl, end, off, tcp)
        /\ ParseTCP(buf) = <<Decoded(buf, ihl, tcp, off)>>
  BY ParseParts
<1>2. /\ 20 <= ihl /\ ihl <= end /\ end <= Len(buf) /\ Len(tcp) = end - ihl
      /\ 20 <= off /\ off <= Len(tcp) /\ ihl - 20 \in OptionLengths /\ off - 20 \in OptionLengths
      /\ Len(buf) \in Nat /\ Len(tcp) \in Nat
  BY <1>1, LenProperties DEF Parts
<1>3. 20 <= Len(buf) /\ 20 <= Len(tcp)
  BY <1>2
<1>4. At(buf, 1) \in Byte /\ At(buf, 8) \in Byte /\ At(tcp, 13) \in Byte
  <2>1. 1 \in 0..(Len(buf) - 1) /\ 8 \in 0..(Len(buf) - 1) /\ 13 \in 0..(Len(tcp) - 1)
    BY <1>2, <1>3
  <2> QED BY <2>1, AtTyped
<1>5. /\ U16(tcp, 0) \in Uint16 /\ U16(tcp, 2) \in Uint16
      /\ U16(tcp, 4) \in Uint16 /\ U16(tcp, 6) \in Uint16
  <2>1. {0, 2, 4, 6} \subseteq 0..(Len(tcp) - 2)
    BY <1>2, <1>3
  <2> QED BY <2>1, U16Typed
<1>6. Slice(Cut(buf, 4, 8), 4) /\ Slice(Cut(buf, 12, 20), 8) /\ Slice(Cut(buf, 20, ihl), ihl - 20)
  <2>1. 4 \in Nat /\ 8 \in Nat /\ 12 \in Nat /\ 20 \in Nat
    OBVIOUS
  <2>2. 4 <= 8 /\ 8 <= Len(buf) /\ 4 = 8 - 4
    BY <1>2, <1>3
  <2>3. 12 <= 20 /\ 20 <= Len(buf) /\ 8 = 20 - 12
    BY <1>2, <1>3
  <2>4. 20 <= ihl /\ ihl <= Len(buf)
    BY <1>2
  <2> QED BY <2>1, <2>2, <2>3, <2>4, CutSlice, Zenon
<1>7. Slice(Cut(tcp, 8, 12), 4) /\ Slice(Cut(tcp, 14, 16), 2) /\ Slice(Cut(tcp, 18, 20), 2)
  <2>1. 8 \in Nat /\ 12 \in Nat /\ 14 \in Nat /\ 16 \in Nat /\ 18 \in Nat /\ 20 \in Nat
    OBVIOUS
  <2>2. 8 <= 12 /\ 12 <= Len(tcp) /\ 4 = 12 - 8
    BY <1>2, <1>3
  <2>3. 14 <= 16 /\ 16 <= Len(tcp) /\ 2 = 16 - 14
    BY <1>2, <1>3
  <2>4. 18 <= 20 /\ 20 <= Len(tcp) /\ 2 = 20 - 18
    BY <1>2, <1>3
  <2> QED BY <2>1, <2>2, <2>3, <2>4, CutSlice, Zenon
<1>8. Slice(Cut(tcp, 20, off), off - 20) /\ Slice(Cut(tcp, off, Len(tcp)), Len(tcp) - off)
  <2>1. 20 \in Nat /\ Len(tcp) \in Nat /\ Len(tcp) <= Len(tcp)
    BY <1>2
  <2>2. 20 <= off /\ off <= Len(tcp)
    BY <1>2
  <2> QED BY <2>1, <2>2, CutSlice, Zenon
<1>9. 40 + (ihl - 20) + (off - 20) + (Len(tcp) - off) < Size16
  <2>1. 40 + (ihl - 20) + (off - 20) + (Len(tcp) - off) = end
    BY <1>2
  <2> QED BY <1>2, <2>1, Size16Range
<1>10. PICK p : p = ParseTCP(buf)[1]
  OBVIOUS
<1>11. /\ p.TOS = At(buf, 1) /\ p.TTL = At(buf, 8) /\ p.Flags = At(tcp, 13)
       /\ p.SrcPort = U16(tcp, 0) /\ p.DstPort = U16(tcp, 2)
       /\ p.Seq = <<U16(tcp, 4), U16(tcp, 6)>>
       /\ p.Frag = Cut(buf, 4, 8) /\ p.Addrs = Cut(buf, 12, 20) /\ p.IPOpts = Cut(buf, 20, ihl)
       /\ p.Ack = Cut(tcp, 8, 12) /\ p.Window = Cut(tcp, 14, 16) /\ p.Urgent = Cut(tcp, 18, 20)
       /\ p.TCPOpts = Cut(tcp, 20, off) /\ p.Payload = Cut(tcp, off, Len(tcp))
  BY <1>1, <1>10 DEF Decoded
<1>12. p \in TCPPackets
  <2>1. /\ Cut(buf, 4, 8) \in Seq(Byte) /\ Cut(buf, 12, 20) \in Seq(Byte)
        /\ Cut(buf, 20, ihl) \in Seq(Byte) /\ Cut(tcp, 8, 12) \in Seq(Byte)
        /\ Cut(tcp, 14, 16) \in Seq(Byte) /\ Cut(tcp, 18, 20) \in Seq(Byte)
        /\ Cut(tcp, 20, off) \in Seq(Byte) /\ Cut(tcp, off, Len(tcp)) \in Seq(Byte)
    BY <1>6, <1>7, <1>8 DEF Slice
  <2> QED BY <1>1, <1>4, <1>5, <1>10, <2>1 DEF TCPPackets, Decoded
<1>13. WellFormed(p)
  <2>1. /\ Len(p.Frag) = 4 /\ Len(p.Addrs) = 8 /\ Len(p.IPOpts) = ihl - 20
        /\ Len(p.Ack) = 4 /\ Len(p.Window) = 2 /\ Len(p.Urgent) = 2 /\ Len(p.TCPOpts) = off - 20
        /\ Len(p.Payload) = Len(tcp) - off
    BY <1>6, <1>7, <1>8, <1>11 DEF Slice
  <2> QED BY <1>2, <1>9, <1>12, <2>1 DEF WellFormed
<1> QED BY <1>10, <1>12, <1>13

=============================================================================
