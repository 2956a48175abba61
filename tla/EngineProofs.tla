---------------------------- MODULE EngineProofs ----------------------------
(***************************************************************************)
(* Proofs about module Engine, for every configuration, list file and      *)
(* captured packet.  The invariant says that the list has what the lines    *)
(* mean, and that what is to be injected is the verdict of Process on the  *)
(* captured packet.  What a verdict is follows from four facts: whatever   *)
(* the strategy and the cut, the parts that Apply returns cover the        *)
(* payload (Covers); the packet that Render makes of a part can be written *)
(* if the captured packet could (Drawn); the codec writes packets with     *)
(* correct checksums that decode to what was written (module               *)
(* PacketProofs); and the parser finds the name of every ClientHello       *)
(* (module ClientHelloProofs).                                             *)
(***************************************************************************)
EXTENDS Engine, ClientHelloProofs

-----------------------------------------------------------------------------
(* The host list.                                                          *)
LEMMA Greatest ==
  ASSUME NEW n \in Nat, NEW T \in SUBSET (0..n), T # {}
  PROVE  \E m \in T : \A k \in T : m >= k
<1> DEFINE U == {n - k : k \in T}
<1>1. U \in SUBSET Nat /\ U # {}
  <2>1. \A k \in T : n - k \in Nat
    OBVIOUS
  <2>2. \E k \in T : n - k \in U
    OBVIOUS
  <2> QED BY <2>1, <2>2
<1>2. PICK l \in U : \A k \in U : l <= k
  BY <1>1, Least
<1>3. PICK m \in T : l = n - m
  BY <1>2
<1>4. \A k \in T : n - m <= n - k
  BY <1>2, <1>3
<1>5. \A k \in T : m >= k
  BY <1>4
<1> QED BY <1>5

(* The lower case of a string is a string of bytes.                        *)
LEMMA LowerTyped ==
  ASSUME NEW s \in Seq(Byte)
  PROVE  Lower(s) \in Seq(Byte)
<1>1. \A v \in Byte : v \in 65..90 => v + 32 \in Byte
  BY DEF Byte
<1>2. PICK n \in Nat : DOMAIN s = 1..n
  BY LenProperties
<1>3. \A i \in 1..n : (IF s[i] \in 65..90 THEN s[i] + 32 ELSE s[i]) \in Byte
  BY <1>1, <1>2
<1>4. Lower(s) \in [1..n -> Byte]
  BY <1>2, <1>3 DEF Lower
<1> QED BY <1>2, <1>4

(* So is what is left when blanks are trimmed,                             *)
LEMMA TrimSpaceTyped ==
  ASSUME NEW s \in Seq(Byte)
  PROVE  TrimSpace(s) \in Seq(Byte)
<1> DEFINE ink == {i \in DOMAIN s : s[i] \notin Blanks}
<1>1. CASE ink = {}
  BY <1>1, EmptySeq DEF TrimSpace
<1>2. CASE ink # {}
  <2>1. Len(s) \in Nat /\ DOMAIN s = 1..Len(s) /\ ink \subseteq 1..Len(s)
    BY LenProperties
  <2>2. \E i \in ink : \A j \in ink : i <= j
    <3>1. ink \in SUBSET Nat
      BY <2>1
    <3> HIDE DEF ink
    <3> QED BY <1>2, <3>1, Least
  <2>3. \E i \in ink : \A j \in ink : i >= j
    <3>1. ink \in SUBSET (0..Len(s))
      BY <2>1
    <3> HIDE DEF ink
    <3> QED BY <1>2, <2>1, <3>1, Greatest
  <2>4. PICK m, n : /\ m = CHOOSE i \in ink : \A j \in ink : i <= j
                    /\ n = CHOOSE i \in ink : \A j \in ink : i >= j
    OBVIOUS
  <2>5. TrimSpace(s) = SubSeq(s, m, n)
    BY <1>2, <2>4 DEF TrimSpace
  <2> HIDE DEF ink
  <2>6. m \in ink /\ n \in ink
    BY <2>2, <2>3, <2>4
  <2>7. m \in 1..Len(s) /\ n \in 1..Len(s)
    BY <2>1, <2>6
  <2>8. \A i \in m..n : s[i] \in Byte
    BY <2>1, <2>7, ElementOfSeq
  <2>9. SubSeq(s, m, n) \in Seq(Byte)
    BY <2>7, <2>8, SubSeqProperties
  <2> QED BY <2>5, <2>9
<1> QED BY <1>1, <1>2

(* and the normal form of a name.                                          *)
LEMMA NormalizeTyped ==
  ASSUME NEW s \in Seq(Byte)
  PROVE  Normalize(s) \in Seq(Byte)
<1>1. PICK t \in Seq(Byte) : t = TrimSpace(Lower(s))
  BY LowerTyped, TrimSpaceTyped
<1>2. TrimDot(t) \in Seq(Byte)
  <2>1. CASE t # <<>> /\ t[Len(t)] = Dot
    <3>1. Len(t) \in Nat
      BY LenProperties
    <3>2. \A i \in 1..(Len(t) - 1) : t[i] \in Byte
      BY <3>1, ElementOfSeq
    <3> QED BY <2>1, <3>1, <3>2, SubSeqProperties DEF TrimDot
  <2> QED BY <2>1 DEF TrimDot
<1> QED BY <1>1, <1>2 DEF Normalize

(* A line of a file adds no empty domain.                                  *)
LEMMA LoadLineTyped ==
  ASSUME NEW domains \in SUBSET (Seq(Byte) \ {<<>>}), NEW line \in Seq(Byte)
  PROVE  LoadLine(domains, line) \in SUBSET (Seq(Byte) \ {<<>>})
<1>1. PICK text \in Seq(Byte) : text = TrimSpace(line)
  BY TrimSpaceTyped
<1>2. Add(domains, text) \in SUBSET (Seq(Byte) \ {<<>>})
  BY NormalizeTyped DEF Add
<1> QED BY <1>1, <1>2, Zenon DEF LoadLine

(* What follows a position, with what is at the position.                  *)
LEMMA Behind ==
  ASSUME NEW h \in Seq(Byte), NEW i \in 1..Len(h)
  PROVE  SubSeq(h, i, Len(h)) = <<h[i]>> \o SubSeq(h, i + 1, Len(h))
<1>1. PICK n \in Nat : n = Len(h)
  BY LenProperties
<1>2. i \in 1..n /\ n \in i..n
  BY <1>1
<1>3. i \in 1..Len(h) /\ n \in i..Len(h)
  BY <1>1, <1>2
<1>4. SubSeq(h, i, n) = <<h[i]>> \o SubSeq(h, i + 1, n)
  BY <1>3, SubSeqRecursiveFirst
<1> QED BY <1>1, <1>4

(* A sequence is determined by what is in front of it and the whole.       *)
LEMMA SameTail ==
  ASSUME NEW a \in Byte, NEW b \in Byte, NEW s \in Seq(Byte), NEW t \in Seq(Byte),
         <<a>> \o s = <<b>> \o t
  PROVE  a = b /\ s = t
<1>1. <<a>> \in Seq(Byte) /\ <<b>> \in Seq(Byte) /\ Len(<<a>>) = 1 /\ Len(<<b>>) = 1
  OBVIOUS
<1>2. PICK u, v : u = <<a>> \o s /\ v = <<b>> \o t /\ u = v
  OBVIOUS
<1>3. /\ Len(u) = 1 + Len(s) /\ u[1] = a /\ \A i \in 1..Len(s) : u[1 + i] = s[i]
      /\ Len(v) = 1 + Len(t) /\ v[1] = b /\ \A i \in 1..Len(t) : v[1 + i] = t[i]
  <2>1. \A x \in Byte, y \in Seq(Byte) :
          /\ Len(<<x>> \o y) = 1 + Len(y) /\ (<<x>> \o y)[1] = x
          /\ \A i \in 1..Len(y) : (<<x>> \o y)[1 + i] = y[i]
    <3> SUFFICES ASSUME NEW x \in Byte, NEW y \in Seq(Byte)
                 PROVE  /\ Len(<<x>> \o y) = 1 + Len(y) /\ (<<x>> \o y)[1] = x
                        /\ \A i \in 1..Len(y) : (<<x>> \o y)[1 + i] = y[i]
      OBVIOUS
    <3>1. PICK w : w = <<x>>
      OBVIOUS
    <3>2. w \in Seq(Byte) /\ Len(w) = 1 /\ w[1] = x
      BY <3>1
    <3>3. /\ Len(w \o y) = 1 + Len(y) /\ (w \o y)[1] = x
          /\ \A i \in 1..Len(y) : (w \o y)[1 + i] = y[i]
      <4>1. /\ Len(w \o y) = Len(w) + Len(y) /\ Len(y) \in Nat
            /\ \A i \in 1..Len(w) : (w \o y)[i] = w[i]
            /\ \A i \in 1..Len(y) : (w \o y)[Len(w) + i] = y[i]
        BY <3>2, ConcatBytes, LenProperties
      <4>2. PICK wy : wy = w \o y
        OBVIOUS
      <4>3. /\ Len(wy) = 1 + Len(y)
            /\ \A i \in 1..1 : wy[i] = w[i]
            /\ \A i \in 1..Len(y) : wy[1 + i] = y[i]
        BY <3>2, <4>1, <4>2
      <4>4. wy[1] = x /\ \A i \in 1..Len(y) : wy[1 + i] = y[i]
        BY <3>2, <4>1, <4>3
      <4> QED BY <4>2, <4>3, <4>4
    <3> QED BY <3>1, <3>3
  <2> QED BY <1>2, <2>1
<1>4. Len(s) = Len(t) /\ Len(s) \in Nat /\ \A i \in 1..Len(s) : s[i] = t[i]
  <2>1. Len(s) \in Nat /\ Len(t) \in Nat
    BY LenProperties
  <2>2. Len(s) = Len(t)
    BY <1>2, <1>3, <2>1
  <2> QED BY <1>2, <1>3, <2>1, <2>2
<1>5. s = t
  BY <1>4, SeqEqual
<1> QED BY <1>2, <1>3, <1>5

(* "the exact host and any of its subdomains" (hostlist.go): Match holds   *)
(* exactly if a domain of the list is the host or follows one of its dots, *)
(* case, blanks around it and a final dot aside.                           *)
THEOREM MatchMeaning ==
  ASSUME NEW domains \in SUBSET (Seq(Byte) \ {<<>>}), NEW host \in Seq(Byte)
  PROVE  Match(domains, host) <=> \E d \in domains : Under(Normalize(host), d)
<1>1. PICK h \in Seq(Byte) : h = Normalize(host)
  BY NormalizeTyped
<1>2. PICK n \in Nat : n = Len(h) /\ DOMAIN h = 1..n
  BY LenProperties
<1>3. \A i \in 1..n : /\ h[i] \in Byte /\ SubSeq(h, i + 1, n) \in Seq(Byte)
                      /\ SubSeq(h, i, n) = <<h[i]>> \o SubSeq(h, i + 1, n)
  <2> SUFFICES ASSUME NEW i \in 1..n
               PROVE  /\ h[i] \in Byte /\ SubSeq(h, i + 1, n) \in Seq(Byte)
                      /\ SubSeq(h, i, n) = <<h[i]>> \o SubSeq(h, i + 1, n)
    OBVIOUS
  <2>1. \A j \in 1..n : h[j] \in Byte
    BY <1>2, ElementOfSeq
  <2>2. SubSeq(h, i + 1, n) \in Seq(Byte)
    <3>1. i + 1 \in 1..(n + 1) /\ \A j \in (i + 1)..n : h[j] \in Byte
      BY <2>1
    <3> QED BY <1>2, <3>1, SubSeqProperties
  <2> QED BY <1>2, <2>1, <2>2, Behind
<1>4. ASSUME Match(domains, host)
      PROVE  \E d \in domains : Under(h, d)
  <2>1. PICK d \in domains : d \in Parents(h)
    BY <1>1, <1>4, Zenon DEF Match
  <2>2. CASE d = h
    BY <2>1, <2>2 DEF Under
  <2>3. CASE d # h
    <3>1. PICK i \in 1..n : h[i] = Dot /\ d = SubSeq(h, i + 1, n)
      BY <1>2, <2>1, <2>3 DEF Parents
    <3>2. SubSeq(h, i, n) = <<Dot>> \o d
      BY <1>3, <3>1
    <3>3. i - 1 \in 0..n /\ (i - 1) + 1 = i
      OBVIOUS
    <3>4. SubSeq(h, (i - 1) + 1, n) = <<Dot>> \o d
      BY <3>2, <3>3
    <3> QED BY <1>2, <2>1, <3>3, <3>4 DEF Under
  <2> QED BY <2>2, <2>3
<1>5. ASSUME NEW d \in domains, Under(h, d)
      PROVE  Match(domains, host)
  <2>1. d \in Seq(Byte) /\ d # <<>>
    OBVIOUS
  <2>2. CASE d = h
    BY <1>1, <2>1, <2>2, Zenon DEF Match, Parents
  <2>3. CASE d # h
    <3>1. PICK k \in 0..n : SubSeq(h, k + 1, n) = <<Dot>> \o d
      BY <1>2, <1>5, <2>3 DEF Under
    <3>2. PICK i \in 1..(n + 1) : i = k + 1
      OBVIOUS
    <3>3. i # n + 1
      <4>1. <<Dot>> \o d # <<>>
        <5>1. Dot \in Byte
          BY DEF Dot, Byte
        <5>2. PICK w : w = <<Dot>>
          OBVIOUS
        <5>3. w \in Seq(Byte) /\ Len(w) = 1
          BY <5>1, <5>2
        <5>4. Len(w \o d) = 1 + Len(d) /\ Len(d) \in Nat
          BY <2>1, <5>3, ConcatBytes, LenProperties, SMTT(30)
        <5>5. w \o d # <<>>
          BY <5>4
        <5> QED BY <5>2, <5>5
      <4>2. SubSeq(h, n + 1, n) = <<>>
        BY SubSeqEmpty
      <4> QED BY <3>1, <3>2, <4>1, <4>2
    <3>4. i \in 1..n /\ SubSeq(h, i, n) = <<Dot>> \o d
      BY <3>1, <3>2, <3>3
    <3>5. h[i] = Dot /\ SubSeq(h, i + 1, n) = d
      <4>1. Dot \in Byte
        BY DEF Dot, Byte
      <4>2. /\ h[i] \in Byte /\ SubSeq(h, i + 1, n) \in Seq(Byte)
            /\ <<h[i]>> \o SubSeq(h, i + 1, n) = <<Dot>> \o d
        BY <1>3, <3>4
      <4> QED BY <2>1, <4>1, <4>2, SameTail, SMTT(30)
    <3>6. d \in Parents(h)
      BY <1>2, <3>4, <3>5 DEF Parents
    <3>7. h # <<>>
      BY <1>2, <3>4
    <3> QED BY <1>1, <3>6, <3>7, Zenon DEF Match
  <2> QED BY <2>2, <2>3
<1> QED BY <1>1, <1>4, <1>5, Zenon

-----------------------------------------------------------------------------
(* What a line or a host means is what the code makes of it.               *)

(* From m to n is what is left of a string when blanks are trimmed.        *)
Core(s, m, n) == /\ m \in Inked(s) /\ n \in Inked(s)
                 /\ \A k \in Inked(s) : m <= k /\ k <= n

(* A string that is not all blanks has such a part.                        *)
LEMMA CoreExists ==
  ASSUME NEW s \in Seq(Byte), Inked(s) # {}
  PROVE  \E m, n : Core(s, m, n)
<1>1. PICK l \in Nat : DOMAIN s = 1..l
  BY LenProperties
<1>2. PICK ink : ink = Inked(s)
  OBVIOUS
<1>3. ink \in SUBSET Nat /\ ink \in SUBSET (0..l)
  BY <1>1, <1>2 DEF Inked
<1>4. PICK m \in ink : \A k \in ink : m <= k
  BY <1>2, <1>3, Least
<1>5. PICK n \in ink : \A k \in ink : n >= k
  BY <1>2, <1>3, Greatest
<1>6. \A k \in ink : m <= k /\ k <= n
  BY <1>3, <1>4, <1>5
<1> QED BY <1>2, <1>6 DEF Core

(* It has its ends within the string,                                      *)
LEMMA CoreWithin ==
  ASSUME NEW s \in Seq(Byte), NEW m, NEW n, Core(s, m, n)
  PROVE  /\ m \in 1..Len(s) /\ n \in 1..Len(s) /\ m <= n /\ Len(s) \in Nat
         /\ s[m] \notin Blanks /\ s[n] \notin Blanks
BY LenProperties DEF Core, Inked

(* and is its only one.                                                    *)
LEMMA CoreTrimmed ==
  ASSUME NEW s \in Seq(Byte), NEW m, NEW n, Core(s, m, n)
  PROVE  TrimSpace(s) = SubSeq(s, m, n) /\ Meant(s) = {TrimDot(Lower(SubSeq(s, m, n)))}
<1>1. PICK ink : ink = Inked(s)
  OBVIOUS
<1>2. ink \in SUBSET Nat
  BY <1>1, LenProperties DEF Inked
<1>3. m \in ink /\ n \in ink /\ \A k \in ink : m <= k /\ k <= n
  BY <1>1 DEF Core
<1>4. \A i \in ink : /\ (\A k \in ink : i <= k) <=> i = m
                     /\ (\A k \in ink : i >= k) <=> i = n
  <2> SUFFICES ASSUME NEW i \in ink
               PROVE  /\ (\A k \in ink : i <= k) <=> i = m
                      /\ (\A k \in ink : i >= k) <=> i = n
    OBVIOUS
  <2>1. i \in Nat /\ m \in Nat /\ n \in Nat /\ m <= i /\ i <= n
    BY <1>2, <1>3
  <2>2. i <= m => i = m
    BY <2>1
  <2>3. i >= n => i = n
    BY <2>1
  <2>4. (\A k \in ink : i <= k) <=> i = m
    BY <1>3, <2>2
  <2>5. (\A k \in ink : i >= k) <=> i = n
    BY <1>2, <1>3, <2>3
  <2> QED BY <2>4, <2>5
<1>5. TrimSpace(s) = SubSeq(s, m, n)
  <2>1. PICK a, b : /\ a = CHOOSE i \in ink : \A k \in ink : i <= k
                    /\ b = CHOOSE i \in ink : \A k \in ink : i >= k
    OBVIOUS
  <2>2. TrimSpace(s) = SubSeq(s, a, b)
    BY <1>1, <1>3, <2>1, Zenon DEF TrimSpace, Inked
  <2>3. a = m
    BY <1>3, <1>4, <2>1, Zenon
  <2>4. b = n
    BY <1>3, <1>4, <2>1, Zenon
  <2> QED BY <2>2, <2>3, <2>4
<1>6. Meant(s) = {TrimDot(Lower(SubSeq(s, m, n)))}
  <2>1. /\ {i \in Inked(s) : \A k \in Inked(s) : i <= k} = {m}
        /\ {i \in Inked(s) : \A k \in Inked(s) : i >= k} = {n}
    BY <1>1, <1>3, <1>4
  <2>2. Meant(s) = {TrimDot(Lower(SubSeq(s, i, j))) : i \in {m}, j \in {n}}
    BY <2>1 DEF Meant
  <2>3. \A x : x \in Meant(s) <=> x = TrimDot(Lower(SubSeq(s, m, n)))
    BY <2>2
  <2> QED BY <2>3
<1> QED BY <1>5, <1>6

(* The lower case of a string has the same blanks, and begins with a hash  *)
(* mark if the string does.                                                *)
LEMMA LowerSame ==
  ASSUME NEW s \in Seq(Byte)
  PROVE  /\ DOMAIN Lower(s) = DOMAIN s /\ Len(Lower(s)) = Len(s) /\ Inked(Lower(s)) = Inked(s)
         /\ \A i \in DOMAIN s : Lower(s)[i] = Hash <=> s[i] = Hash
<1>1. PICK t \in Seq(Byte) : t = Lower(s)
  BY LowerTyped
<1>2. PICK l \in Nat : l = Len(s) /\ DOMAIN s = 1..l
  BY LenProperties
<1>3. t = [i \in 1..l |-> IF s[i] \in 65..90 THEN s[i] + 32 ELSE s[i]]
  BY <1>1, <1>2 DEF Lower
<1>4. DOMAIN t = 1..l /\ Len(t) = l
  <2>1. DOMAIN t = 1..l
    BY <1>3
  <2>2. Len(t) \in Nat /\ DOMAIN t = 1..Len(t)
    BY <1>1, LenProperties
  <2> QED BY <1>2, <2>1, <2>2
<1>5. \A i \in 1..l : (t[i] = Hash <=> s[i] = Hash) /\ (t[i] \in Blanks <=> s[i] \in Blanks)
  <2> SUFFICES ASSUME NEW i \in 1..l
               PROVE  (t[i] = Hash <=> s[i] = Hash) /\ (t[i] \in Blanks <=> s[i] \in Blanks)
    OBVIOUS
  <2>1. s[i] \in Byte
    BY <1>2, ElementOfSeq
  <2>2. PICK c \in 0..255 : c = s[i]
    BY <2>1 DEF Byte
  <2>3. PICK d : d = IF c \in 65..90 THEN c + 32 ELSE c
    OBVIOUS
  <2>4. t[i] = d
    BY <1>3, <2>2, <2>3
  <2>5. (d = 35 <=> c = 35) /\ (d \in 9..13 \cup {32} <=> c \in 9..13 \cup {32})
    BY <2>3
  <2> QED BY <2>2, <2>4, <2>5 DEF Hash, Blanks
<1>6. Inked(t) = Inked(s)
  BY <1>2, <1>4, <1>5 DEF Inked
<1> QED BY <1>1, <1>2, <1>4, <1>5, <1>6

(* A part of a string is the string that has its characters.               *)
LEMMA PartTyped ==
  ASSUME NEW s \in Seq(Byte), NEW m \in 1..Len(s), NEW n \in 1..Len(s), m <= n
  PROVE  /\ SubSeq(s, m, n) \in Seq(Byte) /\ Len(SubSeq(s, m, n)) = n - m + 1
         /\ \A i \in 1..(n - m + 1) : SubSeq(s, m, n)[i] = s[(m + i) - 1]
<1>1. Len(s) \in Nat
  BY LenProperties
<1>2. \A i \in m..n : s[i] \in Byte
  BY <1>1, ElementOfSeq
<1> QED BY <1>1, <1>2, SubSeqProperties

(* It is of no matter whether case or length is changed first.             *)
LEMMA LowerPart ==
  ASSUME NEW s \in Seq(Byte), NEW m \in 1..Len(s), NEW n \in 1..Len(s), m <= n
  PROVE  Lower(SubSeq(s, m, n)) = SubSeq(Lower(s), m, n)
<1>1. PICK l \in Nat, k \in Nat : l = Len(s) /\ k = n - m + 1
  BY LenProperties
<1>2. PICK p, q, t : p = SubSeq(s, m, n) /\ t = Lower(s) /\ q = SubSeq(t, m, n)
  OBVIOUS
<1>3. p \in Seq(Byte) /\ Len(p) = k /\ \A i \in 1..k : p[i] = s[(m + i) - 1]
  BY <1>1, <1>2, PartTyped
<1>4. t \in Seq(Byte) /\ Len(t) = l /\ DOMAIN s = 1..l
  BY <1>1, <1>2, LowerTyped, LowerSame, LenProperties
<1>5. q \in Seq(Byte) /\ Len(q) = k /\ \A i \in 1..k : q[i] = t[(m + i) - 1]
  BY <1>1, <1>2, <1>4, PartTyped
<1>6. Lower(p) \in Seq(Byte) /\ Len(Lower(p)) = k /\ DOMAIN p = 1..k
  BY <1>3, LowerTyped, LowerSame, LenProperties
<1>7. ASSUME NEW i \in 1..k
      PROVE  Lower(p)[i] = q[i]
  <2>1. PICK j \in 1..l : j = (m + i) - 1
    BY <1>1
  <2>2. p[i] = s[j] /\ q[i] = t[j]
    BY <1>3, <1>5, <2>1
  <2>3. Lower(p)[i] = IF p[i] \in 65..90 THEN p[i] + 32 ELSE p[i]
    BY <1>6 DEF Lower
  <2>4. t[j] = IF s[j] \in 65..90 THEN s[j] + 32 ELSE s[j]
    BY <1>2, <1>4 DEF Lower
  <2> QED BY <2>2, <2>3, <2>4
<1>8. Lower(p) = q
  BY <1>5, <1>6, <1>7, SeqEqual
<1> QED BY <1>2, <1>8

(* A string without blanks at its ends is its own core.                    *)
LEMMA CoreOfPart ==
  ASSUME NEW t \in Seq(Byte), NEW l \in Nat, l = Len(t), l > 0, t[1] \notin Blanks, t[l] \notin Blanks
  PROVE  Core(t, 1, l) /\ SubSeq(t, 1, l) = t
<1>1. DOMAIN t = 1..l
  BY LenProperties
<1>2. Core(t, 1, l)
  BY <1>1 DEF Core, Inked
<1>3. PICK p : p = SubSeq(t, 1, l)
  OBVIOUS
<1>4. p \in Seq(Byte) /\ Len(p) = l /\ \A i \in 1..l : p[i] = t[i]
  <2>1. 1 \in 1..l /\ l \in 1..l /\ l - 1 + 1 = l /\ \A i \in 1..l : (1 + i) - 1 = i
    OBVIOUS
  <2>2. /\ p \in Seq(Byte) /\ Len(p) = l - 1 + 1
        /\ \A i \in 1..(l - 1 + 1) : p[i] = t[(1 + i) - 1]
    BY <1>3, <2>1, PartTyped
  <2> QED BY <2>1, <2>2
<1>5. p = t
  BY <1>4, SeqEqual
<1> QED BY <1>2, <1>3, <1>5

(* The normal form of a name is what it means.                             *)
LEMMA NormalMeaning ==
  ASSUME NEW s \in Seq(Byte), NEW m, NEW n, Core(s, m, n)
  PROVE  /\ TrimSpace(s) = SubSeq(s, m, n)
         /\ Normalize(s) = TrimDot(Lower(SubSeq(s, m, n)))
         /\ Normalize(SubSeq(s, m, n)) = Normalize(s)
         /\ Meant(s) = {Normalize(s)}
<1>1. PICK t : t = SubSeq(s, m, n)
  OBVIOUS
<1>2. /\ m \in 1..Len(s) /\ n \in 1..Len(s) /\ m <= n /\ Len(s) \in Nat
      /\ s[m] \notin Blanks /\ s[n] \notin Blanks
  BY CoreWithin
<1>3. PICK l \in Nat : l = n - m + 1 /\ l > 0
  BY <1>2
<1>4. t \in Seq(Byte) /\ Len(t) = l /\ t[1] \notin Blanks /\ t[l] \notin Blanks
  <2>1. t \in Seq(Byte) /\ Len(t) = l /\ \A i \in 1..l : t[i] = s[(m + i) - 1]
    BY <1>1, <1>2, <1>3, PartTyped
  <2>2. 1 \in 1..l /\ l \in 1..l /\ (m + 1) - 1 = m /\ (m + l) - 1 = n
    BY <1>2, <1>3
  <2> QED BY <1>2, <2>1, <2>2
<1>5. Normalize(s) = TrimDot(Lower(t))
  <2>1. Core(Lower(s), m, n) /\ Lower(s) \in Seq(Byte)
    BY LowerSame, LowerTyped DEF Core
  <2>2. TrimSpace(Lower(s)) = SubSeq(Lower(s), m, n)
    BY <2>1, CoreTrimmed
  <2>3. SubSeq(Lower(s), m, n) = Lower(t)
    BY <1>1, <1>2, LowerPart
  <2> QED BY <2>2, <2>3, Zenon DEF Normalize
<1>6. Normalize(t) = TrimDot(Lower(t))
  <2>1. Core(t, 1, l) /\ SubSeq(t, 1, l) = t
    BY <1>3, <1>4, CoreOfPart
  <2>2. Core(Lower(t), 1, l) /\ Lower(t) \in Seq(Byte)
    BY <1>4, <2>1, LowerSame, LowerTyped DEF Core
  <2>3. TrimSpace(Lower(t)) = SubSeq(Lower(t), 1, l)
    BY <2>2, CoreTrimmed
  <2>4. SubSeq(Lower(t), 1, l) = Lower(SubSeq(t, 1, l))
    <3>1. 1 \in 1..Len(t) /\ l \in 1..Len(t) /\ 1 <= l
      BY <1>3, <1>4
    <3> QED BY <1>4, <3>1, LowerPart
  <2> QED BY <2>1, <2>3, <2>4, Zenon DEF Normalize
<1>7. TrimSpace(s) = t /\ Meant(s) = {TrimDot(Lower(t))}
  BY <1>1, CoreTrimmed
<1> QED BY <1>1, <1>5, <1>6, <1>7

(* A final dot makes no difference to how a name begins.                   *)
LEMMA TrimDotFirst ==
  ASSUME NEW u \in Seq(Byte), TrimDot(u) # <<>>
  PROVE  TrimDot(u)[1] = u[1] /\ u # <<>>
<1>1. CASE u # <<>> /\ u[Len(u)] = Dot
  <2>1. PICK l \in Nat : l = Len(u) /\ l > 0
    BY <1>1, LenProperties, EmptySeq
  <2>2. TrimDot(u) = SubSeq(u, 1, l - 1)
    BY <1>1, <2>1, Zenon DEF TrimDot
  <2>3. l # 1
    <3>1. l = 1 => SubSeq(u, 1, l - 1) = <<>>
      BY SubSeqEmpty
    <3> QED BY <2>2, <3>1
  <2>4. 1 \in 1..Len(u) /\ l - 1 \in 1..Len(u) /\ 1 <= l - 1 /\ 1 \in 1..((l - 1) - 1 + 1) /\ (1 + 1) - 1 = 1
    BY <2>1, <2>3
  <2>5. SubSeq(u, 1, l - 1)[1] = u[(1 + 1) - 1]
    BY <2>4, PartTyped
  <2> QED BY <1>1, <2>2, <2>4, <2>5
<1>2. CASE ~(u # <<>> /\ u[Len(u)] = Dot)
  BY <1>2, Zenon DEF TrimDot
<1> QED BY <1>1, <1>2

(* What a string of blanks is made of.                                     *)
LEMMA BlankMeaning ==
  ASSUME NEW s \in Seq(Byte), Inked(s) = {}
  PROVE  TrimSpace(s) = <<>> /\ Normalize(s) = <<>> /\ Meant(s) = {}
<1>1. \A t : Inked(t) = {} => TrimSpace(t) = <<>>
  BY Zenon DEF TrimSpace, Inked
<1>2. TrimDot(<<>>) = <<>>
  BY Zenon DEF TrimDot
<1>3. Inked(Lower(s)) = {}
  BY LowerSame
<1>4. Meant(s) = {}
  BY DEF Meant
<1> QED BY <1>1, <1>2, <1>3, <1>4, Zenon DEF Normalize

(* LoadReader adds what a line means, unless that is a comment or nothing. *)
LEMMA LineMeaning ==
  ASSUME NEW domains, NEW line \in Seq(Byte)
  PROVE  LoadLine(domains, line) = domains \cup {d \in Meant(line) \ {<<>>} : d[1] # Hash}
<1>1. CASE Inked(line) = {}
  <2>1. LoadLine(domains, line) = domains /\ Meant(line) = {}
    BY <1>1, BlankMeaning, Zenon DEF LoadLine
  <2> QED BY <2>1
<1>2. CASE Inked(line) # {}
  <2>1. PICK m, n : Core(line, m, n)
    BY <1>2, CoreExists
  <2>2. PICK t, d : t = SubSeq(line, m, n) /\ d = Normalize(line)
    OBVIOUS
  <2>3. TrimSpace(line) = t /\ d = TrimDot(Lower(t)) /\ Normalize(t) = d /\ Meant(line) = {d}
    BY <2>1, <2>2, NormalMeaning
  <2>4. t \in Seq(Byte) /\ t # <<>> /\ 1 \in DOMAIN t
    <3>1. m \in 1..Len(line) /\ n \in 1..Len(line) /\ m <= n
      BY <2>1, CoreWithin
    <3>2. t \in Seq(Byte) /\ Len(t) = n - m + 1
      BY <2>2, <3>1, PartTyped
    <3>3. n - m + 1 > 0 /\ n - m + 1 \in Nat
      BY <3>1
    <3> QED BY <3>2, <3>3, LenProperties
  <2>5. d # <<>> => (d[1] = Hash <=> t[1] = Hash)
    <3>1. Lower(t) \in Seq(Byte) /\ (Lower(t)[1] = Hash <=> t[1] = Hash)
      BY <2>4, LowerTyped, LowerSame
    <3>2. d # <<>> => d[1] = Lower(t)[1]
      BY <2>3, <3>1, TrimDotFirst
    <3> QED BY <3>1, <3>2
  <2>6. LoadLine(domains, line) = IF t[1] = Hash THEN domains ELSE domains \cup ({d} \ {<<>>})
    BY <2>3, <2>4, Zenon DEF LoadLine, Add
  <2> QED BY <2>3, <2>5, <2>6
<1> QED BY <1>1, <1>2

(* Match holds exactly if what the host means is under a domain.           *)
LEMMA HostMeaning ==
  ASSUME NEW domains \in SUBSET (Seq(Byte) \ {<<>>}), NEW host \in Seq(Byte)
  PROVE  Match(domains, host) <=> \E d \in domains, h \in Meant(host) : Under(h, d)
<1>1. CASE Inked(host) = {}
  <2>1. Normalize(host) = <<>> /\ Meant(host) = {}
    BY <1>1, BlankMeaning
  <2>2. ~Match(domains, host)
    BY <2>1, Zenon DEF Match
  <2> QED BY <2>1, <2>2
<1>2. CASE Inked(host) # {}
  <2>1. Meant(host) = {Normalize(host)}
    BY <1>2, CoreExists, NormalMeaning
  <2> QED BY <2>1, MatchMeaning, Zenon
<1> QED BY <1>1, <1>2

-----------------------------------------------------------------------------
(* The strategies: a sequence of real parts, which together have every     *)
(* byte of the payload, and of decoys as long as the payload.              *)
Real(seg, n, ttl) ==
  /\ seg.from \in Nat /\ seg.to \in Nat /\ seg.from <= seg.to /\ seg.to <= n
  /\ seg.seq = seg.from /\ seg.ttl = ttl /\ seg.decoy = FALSE
Decoy(seg, n, ttl) ==
  seg.from = 0 /\ seg.to = n /\ seg.seq = 0 /\ seg.ttl = ttl /\ seg.decoy = TRUE
Covers(segs, n, ttl, fake) ==
  /\ \E m \in Nat \ {0} : DOMAIN segs = 1..m
  /\ \A i \in DOMAIN segs : Real(segs[i], n, ttl) \/ Decoy(segs[i], n, fake)
  /\ \A k \in 0..(n - 1) : \E i \in DOMAIN segs :
       Real(segs[i], n, ttl) /\ segs[i].from <= k /\ k < segs[i].to

(* The cut is within the payload, not at either of its ends.               *)
LEMMA ClampTyped ==
  ASSUME NEW v \in Int, NEW hi \in Int, 1 <= hi
  PROVE  Clamp(v, 1, hi) \in 1..hi
BY DEF Clamp

(* A payload in one part, with or without a decoy before it.               *)
LEMMA CoveredByOne ==
  ASSUME NEW n \in Nat, NEW ttl, NEW fake, NEW x, Real(x, n, ttl), x.from = 0, x.to = n,
         NEW d, Decoy(d, n, fake)
  PROVE  Covers(<<x>>, n, ttl, fake) /\ Covers(<<d, x>>, n, ttl, fake)
<1>1. \A k \in 0..(n - 1) : x.from <= k /\ k < x.to
  OBVIOUS
<1>2. Covers(<<x>>, n, ttl, fake)
  <2>1. DOMAIN <<x>> = 1..1 /\ <<x>>[1] = x /\ 1 \in 1..1 /\ 1 \in Nat \ {0}
    OBVIOUS
  <2>2. \A i \in 1..1 : <<x>>[i] = x
    OBVIOUS
  <2> QED BY <1>1, <2>1, <2>2, Zenon DEF Covers
<1>3. Covers(<<d, x>>, n, ttl, fake)
  <2>1. DOMAIN <<d, x>> = 1..2 /\ <<d, x>>[2] = x /\ 2 \in 1..2 /\ 2 \in Nat \ {0}
    OBVIOUS
  <2>2. \A i \in 1..2 : <<d, x>>[i] = d \/ <<d, x>>[i] = x
    OBVIOUS
  <2> QED BY <1>1, <2>1, <2>2, Zenon DEF Covers
<1> QED BY <1>2, <1>3

(* A payload in two parts, in either order, with or without a decoy.       *)
LEMMA CoveredByTwo ==
  ASSUME NEW n \in Nat, NEW ttl, NEW fake, NEW a, NEW b, Real(a, n, ttl), Real(b, n, ttl),
         a.from = 0, a.to = b.from, b.to = n, NEW d, Decoy(d, n, fake)
  PROVE  /\ Covers(<<a, b>>, n, ttl, fake) /\ Covers(<<d, a, b>>, n, ttl, fake)
         /\ Covers(<<b, a>>, n, ttl, fake) /\ Covers(<<d, b, a>>, n, ttl, fake)
<1>1. \A k \in 0..(n - 1) : (a.from <= k /\ k < a.to) \/ (b.from <= k /\ k < b.to)
  BY DEF Real
<1>2. ASSUME NEW x, NEW y, \/ x = a /\ y = b
                           \/ x = b /\ y = a
      PROVE  Covers(<<x, y>>, n, ttl, fake) /\ Covers(<<d, x, y>>, n, ttl, fake)
  <2>1. /\ Real(x, n, ttl) /\ Real(y, n, ttl)
        /\ \A k \in 0..(n - 1) : (x.from <= k /\ k < x.to) \/ (y.from <= k /\ k < y.to)
    BY <1>1, <1>2
  <2>2. Covers(<<x, y>>, n, ttl, fake)
    <3>1. DOMAIN <<x, y>> = 1..2 /\ 1 \in 1..2 /\ 2 \in 1..2 /\ 2 \in Nat \ {0}
      OBVIOUS
    <3>2. <<x, y>>[1] = x /\ <<x, y>>[2] = y /\ \A i \in 1..2 : i = 1 \/ i = 2
      OBVIOUS
    <3> QED BY <2>1, <3>1, <3>2, Zenon DEF Covers
  <2>3. Covers(<<d, x, y>>, n, ttl, fake)
    <3>1. DOMAIN <<d, x, y>> = 1..3 /\ 2 \in 1..3 /\ 3 \in 1..3 /\ 3 \in Nat \ {0}
      OBVIOUS
    <3>2. /\ <<d, x, y>>[1] = d /\ <<d, x, y>>[2] = x /\ <<d, x, y>>[3] = y
          /\ \A i \in 1..3 : i = 1 \/ i = 2 \/ i = 3
      OBVIOUS
    <3> QED BY <2>1, <3>1, <3>2, Zenon DEF Covers
  <2> QED BY <2>2, <2>3
<1> QED BY <1>2

(* A decoy before one part and before two.                                 *)
LEMMA Prepended ==
  ASSUME NEW d, NEW a, NEW b
  PROVE  <<d>> \o <<a>> = <<d, a>> /\ <<d>> \o <<a, b>> = <<d, a, b>>
<1> DEFINE S == {d, a, b}
<1>1. <<d>> \in Seq(S) /\ <<a>> \in Seq(S) /\ <<a, b>> \in Seq(S)
  OBVIOUS
<1>2. <<d>> \o <<a>> = <<d, a>>
  <2>1. PICK t : t = <<d>> \o <<a>>
    OBVIOUS
  <2>2. t \in Seq(S) /\ Len(t) = 2 /\ t[1] = d /\ t[2] = a
    BY <1>1, <2>1, ConcatProperties
  <2>3. PICK u : u = <<d, a>>
    OBVIOUS
  <2>4. u \in Seq(S) /\ Len(u) = 2 /\ \A i \in 1..2 : t[i] = u[i]
    BY <2>2, <2>3
  <2>5. t = u
    BY <2>2, <2>4, SeqEqual
  <2> QED BY <2>1, <2>3, <2>5
<1>3. <<d>> \o <<a, b>> = <<d, a, b>>
  <2>1. PICK t : t = <<d>> \o <<a, b>>
    OBVIOUS
  <2>2. t \in Seq(S) /\ Len(t) = 3 /\ t[1] = d /\ t[2] = a /\ t[3] = b
    BY <1>1, <2>1, ConcatProperties
  <2>3. PICK u : u = <<d, a, b>>
    OBVIOUS
  <2>4. u \in Seq(S) /\ Len(u) = 3 /\ \A i \in 1..3 : t[i] = u[i]
    BY <2>2, <2>3
  <2>5. t = u
    BY <2>2, <2>4, SeqEqual
  <2> QED BY <2>1, <2>3, <2>5
<1> QED BY <1>2, <1>3

(* Every strategy, wherever the cut is asked for, covers the payload.      *)
LEMMA ApplyCovers ==
  ASSUME NEW n \in Nat, n < SeqSpace, NEW v \in Int, NEW ttl, NEW fake, fake # 0,
         NEW strategy, NEW orig,
         orig = [from |-> 0, to |-> n, seq |-> 0, ttl |-> ttl, decoy |-> FALSE]
  PROVE  Covers(Apply(strategy, orig, v, fake), n, ttl, fake)
<1>1. Length(orig) = n /\ Real(orig, n, ttl) /\ orig.from = 0 /\ orig.to = n
  BY DEF Length, Real
<1>2. PICK d : d = [orig EXCEPT !.ttl = IF fake = 0 THEN DefaultFakeTTL ELSE fake, !.decoy = TRUE]
  OBVIOUS
<1>3. Decoy(d, n, fake)
  BY <1>2 DEF Decoy
<1>4. \A real : \/ Fakes(strategy, orig, fake, real) = <<d>> \o real
                \/ Fakes(strategy, orig, fake, real) = real
  BY <1>2, Zenon DEF Fakes
<1>5. PICK pos : pos = Clamp(v, 1, Length(orig) - 1)
  OBVIOUS
<1>6. PICK a, b : a = First(orig, pos) /\ b = Second(orig, pos)
  OBVIOUS
<1>7. CASE n < 2 \/ strategy = "fake"
  <2>1. /\ Length(orig) < 2 \/ strategy = "fake"
        /\ ~(Length(orig) >= 2 /\ strategy = "disorder")
    BY <1>1, <1>7
  <2>2. Apply(strategy, orig, v, fake) = Fakes(strategy, orig, fake, <<orig>>)
    BY <2>1, Zenon DEF Apply
  <2>3. Apply(strategy, orig, v, fake) = <<d, orig>> \/ Apply(strategy, orig, v, fake) = <<orig>>
    <3>1. <<d>> \o <<orig>> = <<d, orig>>
      BY Prepended
    <3> QED BY <1>4, <2>2, <3>1, Zenon
  <2> QED BY <1>1, <1>3, <2>3, CoveredByOne
<1>8. CASE ~(n < 2 \/ strategy = "fake")
  <2>1. pos \in 1..(n - 1) /\ pos < SeqSpace
    <3>1. n - 1 \in Int /\ 1 <= n - 1
      BY <1>8
    <3>2. pos \in 1..(n - 1)
      BY <1>1, <1>5, <3>1, ClampTyped
    <3> QED BY <3>2, TrafficAssumption
  <2>2. a = [from |-> 0, to |-> 0 + pos, seq |-> 0, ttl |-> ttl, decoy |-> FALSE]
    BY <1>6 DEF First
  <2>3. b = [from |-> 0 + pos, to |-> n, seq |-> Plus(0, pos), ttl |-> ttl, decoy |-> FALSE]
    BY <1>6 DEF Second
  <2>4. 0 + pos = pos /\ Plus(0, pos) = pos
    BY <2>1 DEF Plus
  <2>5. /\ Real(a, n, ttl) /\ a.from = 0 /\ a.to = pos
        /\ Real(b, n, ttl) /\ b.from = pos /\ b.to = n
    BY <2>1, <2>2, <2>3, <2>4 DEF Real
  <2>6. ~(Length(orig) < 2 \/ strategy = "fake") /\ Length(orig) >= 2
    BY <1>1, <1>8
  <2>7. \/ Apply(strategy, orig, v, fake) = Fakes(strategy, orig, fake, <<b, a>>)
        \/ Apply(strategy, orig, v, fake) = Fakes(strategy, orig, fake, <<a, b>>)
    <3>1. CASE strategy = "disorder"
      BY <1>5, <1>6, <2>6, <3>1, Zenon DEF Apply
    <3>2. CASE strategy # "disorder"
      BY <1>5, <1>6, <2>6, <3>2, Zenon DEF Apply
    <3> QED BY <3>1, <3>2
  <2>8. \/ Apply(strategy, orig, v, fake) = <<b, a>>
        \/ Apply(strategy, orig, v, fake) = <<d, b, a>>
        \/ Apply(strategy, orig, v, fake) = <<a, b>>
        \/ Apply(strategy, orig, v, fake) = <<d, a, b>>
    <3>1. <<d>> \o <<a, b>> = <<d, a, b>> /\ <<d>> \o <<b, a>> = <<d, b, a>>
      BY Prepended
    <3> QED BY <1>4, <2>7, <3>1, Zenon
  <2> QED BY <1>3, <2>5, <2>8, CoveredByTwo
<1> QED BY <1>7, <1>8

-----------------------------------------------------------------------------
(* Sequence numbers.                                                       *)
LEMMA NextRemainder ==
  ASSUME NEW m \in Nat, m > 1, NEW h \in 0..(m - 1)
  PROVE  h % m = h /\ h # (h + 1) % m
OBVIOUS

(* The distance of n is what AddSeq adds, wherever the number wraps.       *)
LEMMA AddSeqApart ==
  ASSUME NEW seq \in Uint16 \X Uint16, NEW n \in Nat, n < Size16
  PROVE  AddSeq(seq, n) \in Uint16 \X Uint16 /\ Distance(seq, AddSeq(seq, n)) = n
<1>1. PICK h \in Nat, l \in Nat : seq = <<h, l>> /\ h < Size16 /\ l < Size16
  BY Size16Range DEF Uint16
<1>2. PICK q, r : q = (l + n) \div Size16 /\ r = (l + n) % Size16
  OBVIOUS
<1>3. q \in Nat /\ r \in 0..(Size16 - 1) /\ l + n = Size16 * q + r
  BY <1>2, HighLow
<1>4. PICK g : g = (h + q) % Size16
  OBVIOUS
<1>5. AddSeq(seq, n) = <<g, r>>
  BY <1>1, <1>2, <1>4 DEF AddSeq
<1>6. g \in 0..(Size16 - 1)
  BY <1>1, <1>3, <1>4, HighLow
<1>7. q = 0 \/ q = 1
  <2>1. l < Size16 /\ n < Size16 /\ l + n = Size16 * q + r /\ 0 <= r
    BY <1>1, <1>3
  <2>2. \A m \in Nat : l < m /\ n < m /\ r >= 0 /\ l + n = m * q + r => q < 2
    BY <1>1, <1>3
  <2> QED BY <1>3, <2>1, <2>2, Size16Range
<1>8. CASE q = 0
  <2>1. g = h /\ g # (h + 1) % Size16 /\ r - l = n
    <3>1. h + q = h /\ l + n = r
      BY <1>1, <1>3, <1>8, Size16Range
    <3>2. g = h % Size16
      BY <1>4, <3>1
    <3>3. h % Size16 = h /\ h # (h + 1) % Size16
      BY <1>1, Size16Range, NextRemainder
    <3> QED BY <1>1, <1>3, <3>1, <3>2, <3>3
  <2>2. Distance(<<h, l>>, <<g, r>>) = r - l
    BY <2>1 DEF Distance
  <2> QED BY <1>1, <1>3, <1>5, <1>6, <2>1, <2>2 DEF Uint16
<1>9. CASE q = 1
  <2>1. g = (h + 1) % Size16 /\ g # h
    BY <1>1, <1>4, <1>9, Size16Range, NextRemainder
  <2>2. Size16 + r - l = n
    <3>1. Size16 * 1 = Size16
      BY Size16Range
    <3> QED BY <1>1, <1>3, <1>9, <3>1, Size16Range
  <2>3. Distance(<<h, l>>, <<g, r>>) = Size16 + r - l
    BY <2>1 DEF Distance
  <2> QED BY <1>1, <1>3, <1>5, <1>6, <2>2, <2>3 DEF Uint16
<1> QED BY <1>7, <1>8, <1>9

-----------------------------------------------------------------------------
(* The packets that are made of the parts.                                 *)
Drawn(tcp, seg, ttl, r) ==
  /\ WellFormed(r)
  /\ r = [tcp EXCEPT !.TTL = ttl, !.Seq = r.Seq, !.Flags = r.Flags, !.Payload = r.Payload]
  /\ r.Seq = AddSeq(tcp.Seq, seg.seq)
  /\ seg.to = Len(tcp.Payload) => r.Flags = tcp.Flags
  /\ r.Payload = IF seg.decoy THEN Zeros(Len(tcp.Payload)) ELSE Cut(tcp.Payload, seg.from, seg.to)

(* Each part makes a packet that can be written.                           *)
LEMMA RenderWellFormed ==
  ASSUME NEW tcp, WellFormed(tcp), NEW ttl \in Byte,
         NEW seg, Real(seg, Len(tcp.Payload), ttl) \/ Decoy(seg, Len(tcp.Payload), ttl)
  PROVE  Drawn(tcp, seg, ttl, Render(tcp, seg))
<1>1. PICK n \in Nat, m \in Nat, k \in Nat :
        n = Len(tcp.Payload) /\ m = Len(tcp.IPOpts) /\ k = Len(tcp.TCPOpts)
  BY FieldLengths
<1>2. PICK flags : flags = IF seg.to < n /\ (tcp.Flags \div PSH) % 2 = 1 THEN tcp.Flags - PSH
                           ELSE tcp.Flags
  OBVIOUS
<1>3. flags \in Byte /\ (seg.to = n => flags = tcp.Flags)
  <2>1. PICK v \in 0..255 : v = tcp.Flags
    BY FieldsTyped, SMTT(30) DEF Byte
  <2>2. (v \div 8) % 2 = 1 => v - 8 \in 0..255
    OBVIOUS
  <2>3. ~(n < n)
    OBVIOUS
  <2> QED BY <1>2, <2>1, <2>2, <2>3 DEF PSH, Byte
<1>4. PICK payload : payload = IF seg.decoy THEN Zeros(Length(seg))
                                ELSE Cut(tcp.Payload, seg.from, seg.to)
  OBVIOUS
<1>5. /\ payload \in Seq(Byte) /\ Len(payload) <= n
      /\ payload = IF seg.decoy THEN Zeros(n) ELSE Cut(tcp.Payload, seg.from, seg.to)
  <2>1. CASE Real(seg, n, ttl)
    <3>1. seg.from \in 0..n /\ seg.to \in seg.from..n /\ seg.decoy = FALSE
      BY <2>1 DEF Real
    <3>2. /\ Cut(tcp.Payload, seg.from, seg.to) \in Seq(Byte)
          /\ Len(Cut(tcp.Payload, seg.from, seg.to)) = seg.to - seg.from
      BY <1>1, <3>1, FieldsTyped, CutTyped
    <3>3. seg.to - seg.from <= n
      BY <3>1
    <3> QED BY <1>4, <3>1, <3>2, <3>3
  <2>2. CASE Decoy(seg, n, ttl)
    <3>1. Length(seg) = n /\ seg.decoy = TRUE
      BY <2>2 DEF Decoy, Length
    <3> QED BY <1>4, <3>1, BytesTyped
  <2> QED BY <1>1, <2>1, <2>2
<1>6. PICK seq : seq = AddSeq(tcp.Seq, seg.seq)
  OBVIOUS
<1>7. seq \in Uint16 \X Uint16
  <2>1. seg.seq \in Nat /\ seg.seq <= n
    BY <1>1 DEF Real, Decoy
  <2>2. n < Size16
    <3>1. 40 + m + k + n < Size16
      BY <1>1 DEF WellFormed
    <3> QED BY <3>1, Size16Range
  <2>3. seg.seq < Size16
    BY <2>1, <2>2, Size16Range
  <2>4. tcp.Seq \in Uint16 \X Uint16
    BY DEF WellFormed, TCPPackets
  <2> QED BY <1>6, <2>1, <2>3, <2>4, AddSeqApart
<1>8. seg.ttl = ttl
  BY DEF Real, Decoy
<1>9. PICK r : r = [tcp EXCEPT !.TTL = ttl, !.Seq = seq, !.Flags = flags, !.Payload = payload]
  OBVIOUS
<1>10. Render(tcp, seg) = r
  BY <1>1, <1>2, <1>4, <1>6, <1>8, <1>9 DEF Render
<1>11. tcp \in TCPPackets
  BY DEF WellFormed
<1>12. /\ r \in TCPPackets
       /\ r.TTL = ttl /\ r.Seq = seq /\ r.Flags = flags /\ r.Payload = payload
       /\ r.Frag = tcp.Frag /\ r.Addrs = tcp.Addrs /\ r.IPOpts = tcp.IPOpts /\ r.Ack = tcp.Ack
       /\ r.Window = tcp.Window /\ r.Urgent = tcp.Urgent /\ r.TCPOpts = tcp.TCPOpts
  BY <1>3, <1>5, <1>7, <1>9, <1>11 DEF TCPPackets
<1>13. WellFormed(r)
  <2>1. PICK j \in Nat : j = Len(payload) /\ j <= n
    BY <1>5, LenProperties
  <2>2. 40 + m + k + n < Size16
    BY <1>1 DEF WellFormed
  <2>3. 40 + m + k + j < Size16
    BY <2>1, <2>2, Size16Range
  <2> QED BY <1>1, <1>12, <2>1, <2>3 DEF WellFormed
<1>14. Drawn(tcp, seg, ttl, r)
  BY <1>1, <1>3, <1>5, <1>6, <1>9, <1>12, <1>13 DEF Drawn
<1> QED BY <1>10, <1>14

-----------------------------------------------------------------------------
(* What the engine drops if it is told to: a datagram to port 443 with a   *)
(* long header of type Initial and version 1.                              *)
QUICInitial(data) ==
  /\ ParseUDP(data) # <<>> /\ ParseUDP(data)[1].DstPort = 443
  /\ IsInitial(ParseUDP(data)[1].Payload)

(* The verdict.  A packet is sent on, dropped, or rewritten; the last two  *)
(* only happen to outbound packets of a kind that Process looks for.       *)
LEMMA ProcessCases ==
  ASSUME NEW c, NEW domains, NEW pkt
  PROVE  \/ Process(c, domains, pkt) = <<pkt>>
         \/ /\ Process(c, domains, pkt) = <<>>
            /\ pkt.Outbound /\ c.QUIC = "drop" /\ QUICInitial(pkt.Data)
         \/ \E tcp, name :
              /\ Process(c, domains, pkt) = Rewrite(c, pkt, tcp, name)
              /\ pkt.Outbound /\ ParseTCP(pkt.Data) # <<>> /\ tcp = ParseTCP(pkt.Data)[1]
              /\ tcp.DstPort \in ToSet(c.Ports)
              /\ ParseClientHello(tcp.Payload) # <<>> /\ name = ParseClientHello(tcp.Payload)[1]
<1>1. PICK tcp, udp : tcp = ParseTCP(pkt.Data) /\ udp = ParseUDP(pkt.Data)
  OBVIOUS
<1>2. CASE ~pkt.Outbound
  BY <1>2, Zenon DEF Process
<1>3. CASE pkt.Outbound /\ tcp # <<>>
  <2>1. Process(c, domains, pkt) = ProcessTCP(c, domains, pkt, tcp[1])
    BY <1>1, <1>3, Zenon DEF Process
  <2>2. PICK name : name = ParseClientHello(tcp[1].Payload)
    OBVIOUS
  <2>3. \/ ProcessTCP(c, domains, pkt, tcp[1]) = <<pkt>>
        \/ /\ ProcessTCP(c, domains, pkt, tcp[1]) = Rewrite(c, pkt, tcp[1], name[1])
           /\ tcp[1].DstPort \in ToSet(c.Ports) /\ name # <<>>
    BY <2>2, Zenon DEF ProcessTCP
  <2> QED BY <1>1, <1>3, <2>1, <2>2, <2>3, ZenonT(40)
<1>4. CASE pkt.Outbound /\ tcp = <<>> /\ udp # <<>>
  <2>1. Process(c, domains, pkt) = ProcessUDP(c, pkt, udp[1])
    BY <1>1, <1>4, Zenon DEF Process
  <2> QED BY <1>1, <1>4, <2>1, Zenon DEF ProcessUDP, QUICInitial
<1>5. CASE pkt.Outbound /\ tcp = <<>> /\ udp = <<>>
  BY <1>1, <1>5, Zenon DEF Process
<1> QED BY <1>2, <1>3, <1>4, <1>5 DEF QUICInitial

(* What is injected for a packet that is rewritten.                        *)
Rendered(c, pkt, tcp, res) ==
  /\ ParseTCP(pkt.Data) # <<>> /\ tcp = ParseTCP(pkt.Data)[1]
  /\ WellFormed(tcp)
  /\ \E segs : /\ Covers(segs, Len(tcp.Payload), tcp.TTL, c.FakeTTL)
               /\ res = [i \in DOMAIN segs |->
                            [pkt EXCEPT !.Data = Serialize(Render(tcp, segs[i]))]]

(* The TTL of decoys is a byte and is not zero.                            *)
LEMMA ConfTyped ==
  ASSUME NEW c \in Confs
  PROVE  c.FakeTTL \in Byte /\ c.FakeTTL # 0
<1>1. c.FakeTTL \in 1..255
  BY TrafficAssumption DEF Validate
<1> QED BY <1>1 DEF Byte

(* The verdict on a packet: it is sent on as it is, dropped or rewritten.  *)
LEMMA Rewritings ==
  ASSUME NEW c \in Confs, NEW domains, NEW pkt \in Captures, Len(pkt.Data) < Size16
  PROVE  \/ Process(c, domains, pkt) = <<pkt>>
         \/ /\ Process(c, domains, pkt) = <<>>
            /\ pkt.Outbound /\ c.QUIC = "drop" /\ QUICInitial(pkt.Data)
         \/ \E tcp : Rendered(c, pkt, tcp, Process(c, domains, pkt))
<1> SUFFICES ASSUME Process(c, domains, pkt) # <<pkt>>,
                    ~(/\ Process(c, domains, pkt) = <<>>
                      /\ pkt.Outbound /\ c.QUIC = "drop" /\ QUICInitial(pkt.Data))
             PROVE  \E tcp : Rendered(c, pkt, tcp, Process(c, domains, pkt))
  OBVIOUS
<1>1. PICK tcp, name :
              /\ Process(c, domains, pkt) = Rewrite(c, pkt, tcp, name)
              /\ ParseTCP(pkt.Data) # <<>> /\ tcp = ParseTCP(pkt.Data)[1]
              /\ ParseClientHello(tcp.Payload) # <<>> /\ name = ParseClientHello(tcp.Payload)[1]
  BY ProcessCases
<1>2. WellFormed(tcp)
  <2>1. pkt.Data \in Seq(Byte)
    BY DEF Captures
  <2> QED BY <1>1, <2>1, ParseWellFormed
<1>3. SplitOffset(c, tcp.Payload, name) \in Int
  <2>1. tcp.Payload \in Seq(Byte)
    BY <1>2, FieldsTyped
  <2>2. name.from \in Nat /\ name.to \in Nat /\ Len(tcp.Payload) \in Nat
    BY <1>1, <2>1, NameWithin, LenProperties
  <2>3. PICK a, b, n : a = name.from /\ b = name.to /\ n = Len(tcp.Payload)
    OBVIOUS
  <2>4. a + (b - a) \div 2 \in Int /\ n \div 2 \in Int
    BY <2>2, <2>3
  <2> QED BY <2>3, <2>4 DEF SplitOffset
<1>4. PICK v \in Int : v = SplitOffset(c, tcp.Payload, name)
  BY <1>3
<1>5. PICK segs : segs = Apply(c.Strategy, Whole(tcp), v, c.FakeTTL)
  OBVIOUS
<1>6. Covers(segs, Len(tcp.Payload), tcp.TTL, c.FakeTTL)
  <2>1. PICK n \in Nat : n = Len(tcp.Payload) /\ n < SeqSpace
    <3>1. PICK n, m, k : n = Len(tcp.Payload) /\ m = Len(tcp.IPOpts) /\ k = Len(tcp.TCPOpts)
      OBVIOUS
    <3>2. n \in Nat /\ m \in Nat /\ k \in Nat /\ 40 + m + k + n < Size16
      BY <1>2, <3>1, FieldLengths DEF WellFormed
    <3>3. n < SeqSpace
      BY <3>2, Size16Range, TrafficAssumption
    <3> QED BY <3>1, <3>2, <3>3
  <2>2. PICK w : w = Whole(tcp)
    OBVIOUS
  <2>3. w = [from |-> 0, to |-> n, seq |-> 0, ttl |-> tcp.TTL, decoy |-> FALSE]
    BY <2>1, <2>2 DEF Whole
  <2>4. Covers(Apply(c.Strategy, w, v, c.FakeTTL), n, tcp.TTL, c.FakeTTL)
    BY <2>1, <2>3, ConfTyped, ApplyCovers
  <2> QED BY <1>5, <2>1, <2>2, <2>4
<1>7. Rewrite(c, pkt, tcp, name) =
        [i \in DOMAIN segs |-> [pkt EXCEPT !.Data = Serialize(Render(tcp, segs[i]))]]
  BY <1>4, <1>5, Zenon DEF Rewrite
<1>8. PICK res : res = Process(c, domains, pkt)
  OBVIOUS
<1>9. res = [i \in DOMAIN segs |-> [pkt EXCEPT !.Data = Serialize(Render(tcp, segs[i]))]]
  BY <1>1, <1>7, <1>8
<1>10. Rendered(c, pkt, tcp, res)
  BY <1>1, <1>2, <1>6, <1>9, Zenon DEF Rendered
<1> QED BY <1>8, <1>10

(* Each packet that is injected is the rendering of a real part or decoy.  *)
LEMMA RenderedPackets ==
  ASSUME NEW c \in Confs, NEW pkt \in Captures, NEW tcp, NEW res, Rendered(c, pkt, tcp, res)
  PROVE  /\ res \in Seq(Captures)
         /\ \A i \in DOMAIN res : \E p : WellFormed(p) /\ res[i].Data = Serialize(p)
<1>1. PICK segs : /\ Covers(segs, Len(tcp.Payload), tcp.TTL, c.FakeTTL)
                  /\ res = [i \in DOMAIN segs |->
                               [pkt EXCEPT !.Data = Serialize(Render(tcp, segs[i]))]]
  BY DEF Rendered
<1>2. ASSUME NEW i \in DOMAIN segs
      PROVE  /\ WellFormed(Render(tcp, segs[i]))
             /\ res[i].Data = Serialize(Render(tcp, segs[i])) /\ res[i] \in Captures
  <2>1. PICK seg : seg = segs[i]
    OBVIOUS
  <2>2. PICK ttl \in Byte : Real(seg, Len(tcp.Payload), ttl) \/ Decoy(seg, Len(tcp.Payload), ttl)
    <3>1. tcp.TTL \in Byte /\ c.FakeTTL \in Byte
      BY FieldsTyped, ConfTyped DEF Rendered
    <3> QED BY <1>1, <2>1, <3>1, Zenon DEF Covers
  <2>3. WellFormed(Render(tcp, seg))
    BY <2>2, RenderWellFormed DEF Rendered, Drawn
  <2>4. PICK data : data = Serialize(Render(tcp, seg))
    OBVIOUS
  <2>5. data \in Seq(Byte)
    BY <2>3, <2>4, SerializeCorrect
  <2>6. res[i] = [pkt EXCEPT !.Data = data]
    BY <1>1, <2>1, <2>4
  <2>7. res[i].Data = data /\ res[i] \in Captures
    BY <2>5, <2>6 DEF Captures
  <2> QED BY <2>1, <2>3, <2>4, <2>7
<1>3. PICK m \in Nat : DOMAIN segs = 1..m
  BY <1>1 DEF Covers
<1>4. res \in Seq(Captures)
  <2>1. DOMAIN res = DOMAIN segs /\ res = [i \in DOMAIN segs |-> res[i]]
    BY <1>1
  <2>2. res \in [1..m -> Captures]
    BY <1>2, <1>3, <2>1
  <2> QED BY <2>2
<1> QED BY <1>1, <1>2, <1>4

-----------------------------------------------------------------------------
(* More than one part, and none that reaches over v.                       *)
Several(segs) == \E m \in Nat : m > 1 /\ DOMAIN segs = 1..m
CutAt(segs, v) == \A i \in DOMAIN segs : segs[i].decoy \/ segs[i].to = v \/ segs[i].from = v

(* Two or three parts are several.                                         *)
LEMMA TwoOrThree ==
  ASSUME NEW d, NEW a, NEW b
  PROVE  Several(<<a, b>>) /\ Several(<<d, a, b>>)
<1>1. DOMAIN <<a, b>> = 1..2 /\ 2 \in Nat /\ 2 > 1
  OBVIOUS
<1>2. DOMAIN <<d, a, b>> = 1..3 /\ 3 \in Nat /\ 3 > 1
  OBVIOUS
<1> QED BY <1>1, <1>2, Zenon DEF Several

(* Two parts that meet at v, with or without a decoy before them.          *)
LEMMA PartsMeet ==
  ASSUME NEW v, NEW d, d.decoy, NEW a, a.to = v \/ a.from = v, NEW b, b.to = v \/ b.from = v
  PROVE  CutAt(<<a, b>>, v) /\ CutAt(<<d, a, b>>, v)
<1>1. /\ DOMAIN <<a, b>> = 1..2 /\ \A i \in 1..2 : <<a, b>>[i] = a \/ <<a, b>>[i] = b
      /\ DOMAIN <<d, a, b>> = 1..3
      /\ \A i \in 1..3 : <<d, a, b>>[i] = d \/ <<d, a, b>>[i] = a \/ <<d, a, b>>[i] = b
  OBVIOUS
<1> QED BY <1>1, Zenon DEF CutAt

(* Every strategy makes several parts of a payload of two bytes or more,   *)
(* and those that cut it do so where they are told to.                     *)
LEMMA ApplyParts ==
  ASSUME NEW n \in Nat, 1 < n, n < SeqSpace, NEW v \in Int, NEW ttl, NEW fake, fake # 0,
         NEW strategy \in Registry, NEW orig,
         orig = [from |-> 0, to |-> n, seq |-> 0, ttl |-> ttl, decoy |-> FALSE]
  PROVE  /\ Several(Apply(strategy, orig, v, fake))
         /\ strategy # "fake" /\ v \in 1..(n - 1) => CutAt(Apply(strategy, orig, v, fake), v)
<1>1. Length(orig) = n /\ Length(orig) >= 2 /\ ~(Length(orig) < 2)
  BY DEF Length
<1>2. PICK d : d = [orig EXCEPT !.ttl = IF fake = 0 THEN DefaultFakeTTL ELSE fake, !.decoy = TRUE]
  OBVIOUS
<1>3. d.decoy
  BY <1>2
<1>4. PICK res : res = Apply(strategy, orig, v, fake)
  OBVIOUS
<1>5. CASE strategy = "fake"
  <2>1. res = Fakes(strategy, orig, fake, <<orig>>)
    BY <1>1, <1>4, <1>5, Zenon DEF Apply
  <2>2. res = <<d>> \o <<orig>>
    BY <1>2, <1>5, <2>1 DEF Fakes
  <2>3. res = <<d, orig>>
    BY <2>2, Prepended
  <2> QED BY <1>4, <1>5, <2>3, TwoOrThree
<1>6. CASE strategy # "fake"
  <2>1. PICK pos : pos = Clamp(v, 1, Length(orig) - 1)
    OBVIOUS
  <2>2. PICK a, b : a = First(orig, pos) /\ b = Second(orig, pos)
    OBVIOUS
  <2>3. \/ res = Fakes(strategy, orig, fake, <<a, b>>)
        \/ res = Fakes(strategy, orig, fake, <<b, a>>)
    <3>1. CASE strategy = "disorder"
      BY <1>1, <1>4, <1>6, <2>1, <2>2, <3>1, Zenon DEF Apply
    <3>2. CASE strategy # "disorder"
      BY <1>1, <1>4, <1>6, <2>1, <2>2, <3>2, Zenon DEF Apply
    <3> QED BY <3>1, <3>2
  <2>4. \/ res = <<a, b>>
        \/ res = <<d, a, b>>
        \/ res = <<b, a>>
        \/ res = <<d, b, a>>
    <3>1. \A real : \/ Fakes(strategy, orig, fake, real) = <<d>> \o real
                    \/ Fakes(strategy, orig, fake, real) = real
      BY <1>2, Zenon DEF Fakes
    <3>2. <<d>> \o <<a, b>> = <<d, a, b>> /\ <<d>> \o <<b, a>> = <<d, b, a>>
      BY Prepended
    <3> QED BY <2>3, <3>1, <3>2, Zenon
  <2>5. Several(res)
    BY <2>4, TwoOrThree, Zenon
  <2>6. ASSUME v \in 1..(n - 1)
        PROVE  CutAt(res, v)
    <3>1. pos = v
      BY <1>1, <2>1, <2>6 DEF Clamp
    <3>2. 0 + v = v
      BY <2>6
    <3>3. a.to = v /\ b.from = v
      BY <2>2, <3>1, <3>2 DEF First, Second
    <3> QED BY <1>3, <2>4, <3>3, PartsMeet, Zenon
  <2> QED BY <1>4, <2>5, <2>6
<1> QED BY <1>5, <1>6

(* What Rewrite makes of a packet whose payload has two bytes or more.     *)
Parted(c, pkt, tcp, v, res) ==
  \E segs :
    /\ Several(segs) /\ Covers(segs, Len(tcp.Payload), tcp.TTL, c.FakeTTL)
    /\ res = [i \in DOMAIN segs |-> [pkt EXCEPT !.Data = Serialize(Render(tcp, segs[i]))]]
    /\ c.Strategy # "fake" /\ v \in 1..(Len(tcp.Payload) - 1) => CutAt(segs, v)

(* So it is made.                                                          *)
LEMMA RewriteParts ==
  ASSUME NEW c \in Confs, NEW pkt, NEW tcp, WellFormed(tcp), Len(tcp.Payload) > 1,
         NEW name, SplitOffset(c, tcp.Payload, name) \in Int
  PROVE  Parted(c, pkt, tcp, SplitOffset(c, tcp.Payload, name), Rewrite(c, pkt, tcp, name))
<1>1. PICK n \in Nat : n = Len(tcp.Payload) /\ n < SeqSpace /\ 1 < n
  <2>1. PICK n, m, k : n = Len(tcp.Payload) /\ m = Len(tcp.IPOpts) /\ k = Len(tcp.TCPOpts)
    OBVIOUS
  <2>2. n \in Nat /\ m \in Nat /\ k \in Nat /\ 40 + m + k + n < Size16
    BY <2>1, FieldLengths DEF WellFormed
  <2>3. n < Size16
    BY <2>2, Size16Range
  <2>4. SeqSpace \in Nat /\ SeqSpace >= Size16
    BY TrafficAssumption
  <2>5. n < SeqSpace /\ 1 < n
    BY <2>1, <2>2, <2>3, <2>4, Size16Range
  <2> QED BY <2>1, <2>2, <2>5
<1>2. PICK v \in Int : v = SplitOffset(c, tcp.Payload, name)
  OBVIOUS
<1>3. PICK w : w = Whole(tcp)
  OBVIOUS
<1>4. w = [from |-> 0, to |-> n, seq |-> 0, ttl |-> tcp.TTL, decoy |-> FALSE]
  BY <1>1, <1>3 DEF Whole
<1>5. c.Strategy \in Registry /\ c.FakeTTL \in Byte /\ c.FakeTTL # 0
  BY ConfTyped, TrafficAssumption DEF Validate
<1>6. PICK segs : segs = Apply(c.Strategy, w, v, c.FakeTTL)
  OBVIOUS
<1>7. Covers(segs, n, tcp.TTL, c.FakeTTL)
  <2>1. Covers(Apply(c.Strategy, w, v, c.FakeTTL), n, tcp.TTL, c.FakeTTL)
    BY <1>1, <1>4, <1>5, ApplyCovers
  <2> QED BY <1>6, <2>1
<1>8. Several(segs) /\ (c.Strategy # "fake" /\ v \in 1..(n - 1) => CutAt(segs, v))
  <2>1. /\ Several(Apply(c.Strategy, w, v, c.FakeTTL))
        /\ c.Strategy # "fake" /\ v \in 1..(n - 1) => CutAt(Apply(c.Strategy, w, v, c.FakeTTL), v)
    BY <1>1, <1>4, <1>5, ApplyParts
  <2> QED BY <1>6, <2>1
<1>9. Rewrite(c, pkt, tcp, name) =
        [i \in DOMAIN segs |-> [pkt EXCEPT !.Data = Serialize(Render(tcp, segs[i]))]]
  BY <1>2, <1>3, <1>6, Zenon DEF Rewrite
<1>10. Parted(c, pkt, tcp, v, Rewrite(c, pkt, tcp, name))
  BY <1>1, <1>7, <1>8, <1>9, Zenon DEF Parted
<1> QED BY <1>2, <1>10

(* It is neither nothing nor the packet itself.                            *)
LEMMA PartedDiffers ==
  ASSUME NEW c, NEW pkt, NEW tcp, NEW v, NEW res, Parted(c, pkt, tcp, v, res)
  PROVE  res # <<>> /\ res # <<pkt>>
<1>1. PICK m \in Nat : m > 1 /\ DOMAIN res = 1..m
  <2>1. PICK segs :
          /\ Several(segs)
          /\ res = [i \in DOMAIN segs |-> [pkt EXCEPT !.Data = Serialize(Render(tcp, segs[i]))]]
    BY Zenon DEF Parted
  <2>2. DOMAIN res = DOMAIN segs
    BY <2>1
  <2> QED BY <2>1, <2>2 DEF Several
<1>2. DOMAIN <<>> = {} /\ DOMAIN <<pkt>> = 1..1
  OBVIOUS
<1>3. 2 \in 1..m /\ 2 \notin 1..1
  BY <1>1
<1> QED BY <1>1, <1>2, <1>3, Zenon

-----------------------------------------------------------------------------
(* What is to be injected is the verdict on the packet that was captured.  *)
Verdict ==
  sent # None => /\ conf \in Confs /\ sent \in Traffic
                 /\ out = Process(conf, list, sent.pkt)

(* The list has every domain that a line that has been read asks for, and  *)
(* no other.                                                               *)
ListRead == list = {d \in Wanted : d[1] # Hash}

(* The inductive invariant.                                                *)
EngineInv == TypeOK /\ Verdict /\ ListRead

(* Before a list is loaded the invariant holds.                            *)
LEMMA InitInv == Init => EngineInv
<1> SUFFICES ASSUME Init
             PROVE  EngineInv
  OBVIOUS
<1>1. Len(File) \in Nat
  BY TrafficAssumption, LenProperties
<1>2. ListRead
  BY DEF Init, ListRead, Wanted
<1> QED BY <1>1, <1>2, EmptySeq DEF Init, EngineInv, TypeOK, Verdict

(* Reading a line keeps it so.                                            *)
LEMMA ReadLineListed ==
  ASSUME TypeOK, ListRead, ReadLine
  PROVE  ListRead'
<1>1. PICK n \in Nat : n = read /\ n + 1 <= Len(File) /\ Len(File) \in Nat
  BY TrafficAssumption, LenProperties DEF TypeOK, ReadLine
<1>2. File[n + 1] \in Seq(Byte)
  <2>1. n + 1 \in 1..Len(File)
    BY <1>1
  <2> QED BY <2>1, TrafficAssumption, ElementOfSeq
<1>3. list' = list \cup {d \in Meant(File[n + 1]) \ {<<>>} : d[1] # Hash}
  BY <1>1, <1>2, LineMeaning DEF ReadLine
<1>4. Wanted' = Wanted \cup (Meant(File[n + 1]) \ {<<>>})
  <2>1. read' = n + 1
    BY <1>1 DEF ReadLine
  <2>2. 1..(n + 1) = (1..n) \cup {n + 1}
    BY <1>1
  <2>3. \A d : d \in Wanted' <=> d # <<>> /\ \E i \in 1..(n + 1) : d \in Meant(File[i])
    <3>1. PICK S : S = UNION {Meant(File[i]) : i \in 1..(n + 1)}
      OBVIOUS
    <3>2. \A d : d \in S <=> \E i \in 1..(n + 1) : d \in Meant(File[i])
      BY <3>1, Zenon
    <3>3. Wanted' = {d \in S : d # <<>>}
      BY <2>1, <3>1, Zenon DEF Wanted
    <3> QED BY <3>2, <3>3, Zenon
  <2>4. \A d : d \in Wanted <=> d # <<>> /\ \E i \in 1..n : d \in Meant(File[i])
    <3>1. PICK S : S = UNION {Meant(File[i]) : i \in 1..n}
      OBVIOUS
    <3>2. \A d : d \in S <=> \E i \in 1..n : d \in Meant(File[i])
      BY <3>1, Zenon
    <3>3. Wanted = {d \in S : d # <<>>}
      BY <1>1, <3>1, Zenon DEF Wanted
    <3> QED BY <3>2, <3>3, Zenon
  <2>5. PICK w, v, x : w = Wanted' /\ v = Wanted /\ x = Meant(File[n + 1])
    OBVIOUS
  <2>6. \A d : d \in w <=> d \in v \/ (d # <<>> /\ d \in x)
    BY <2>2, <2>3, <2>4, <2>5
  <2>7. w = v \cup (x \ {<<>>})
    BY <2>6
  <2> QED BY <2>5, <2>7
<1> QED BY <1>3, <1>4 DEF ListRead

(* A verdict is a sequence of packets as they are captured.                *)
LEMMA ProcessTyped ==
  ASSUME NEW c \in Confs, NEW domains, NEW t \in Traffic
  PROVE  Process(c, domains, t.pkt) \in Seq(Captures)
<1>1. PICK pkt \in Captures : pkt = t.pkt /\ Len(pkt.Data) < Size16
  BY TrafficAssumption
<1>2. PICK o : o = Process(c, domains, pkt)
  OBVIOUS
<1>3. <<pkt>> \in Seq(Captures) /\ <<>> \in Seq(Captures)
  OBVIOUS
<1>4. o = <<pkt>> \/ o = <<>> \/ \E tcp : Rendered(c, pkt, tcp, o)
  BY <1>1, <1>2, Rewritings
<1>5. o \in Seq(Captures)
  BY <1>1, <1>3, <1>4, RenderedPackets
<1> QED BY <1>1, <1>2, <1>5

(* Every step keeps the invariant.                                         *)
LEMMA NextInv == EngineInv /\ [Next]_vars => EngineInv'
<1> SUFFICES ASSUME EngineInv, [Next]_vars
             PROVE  EngineInv'
  OBVIOUS
<1> USE DEF EngineInv
<1>1. CASE ReadLine
  <2>1. Len(File) \in Nat /\ read + 1 \in 0..Len(File) /\ File[read + 1] \in Seq(Byte)
    <3>1. Len(File) \in Nat /\ read \in 0..Len(File) /\ read < Len(File)
      BY <1>1, TrafficAssumption, LenProperties DEF ReadLine, TypeOK
    <3>2. read + 1 \in 1..Len(File) /\ read + 1 \in 0..Len(File)
      BY <3>1
    <3> QED BY <3>1, <3>2, TrafficAssumption, ElementOfSeq
  <2>2. list' \in SUBSET (Seq(Byte) \ {<<>>})
    BY <1>1, <2>1, LoadLineTyped DEF ReadLine, TypeOK
  <2>3. TypeOK'
    BY <1>1, <2>1, <2>2 DEF ReadLine, TypeOK
  <2>4. Verdict'
    BY <1>1, TrafficAssumption DEF ReadLine, Verdict
  <2>5. ListRead'
    BY <1>1, ReadLineListed
  <2> QED BY <2>3, <2>4, <2>5
<1>2. ASSUME NEW c \in Confs, New(c)
      PROVE  EngineInv'
  BY <1>2, TrafficAssumption DEF New, TypeOK, Verdict, ListRead, Wanted
<1>3. ASSUME NEW t \in Traffic, Recv(t)
      PROVE  EngineInv'
  <2>1. conf \in Confs
    BY <1>3 DEF Recv, TypeOK
  <2>2. out' \in Seq(Captures)
    BY <1>3, <2>1, ProcessTyped DEF Recv
  <2>3. TypeOK'
    BY <1>3, <2>2 DEF Recv, TypeOK
  <2>4. Verdict'
    BY <1>3, <2>1 DEF Recv, Verdict
  <2>5. ListRead'
    BY <1>3 DEF Recv, ListRead, Wanted
  <2> QED BY <2>3, <2>4, <2>5
<1>4. CASE Inject
  BY <1>4, EmptySeq DEF Inject, TypeOK, Verdict, ListRead, Wanted
<1>5. CASE UNCHANGED vars
  BY <1>5 DEF vars, TypeOK, Verdict, ListRead, Wanted
<1> QED BY <1>1, <1>2, <1>3, <1>4, <1>5 DEF Next

(* In every reachable state the list is what the lines that were read ask  *)
(* for, and what is to be injected is the verdict of Process on the packet *)
(* that was captured.                                                      *)
THEOREM EngineInvariant == Spec => []EngineInv
<1> QED BY InitInv, NextInv, PTL DEF Spec

(* Every variable of the engine stays within its type: the list has no     *)
(* empty domain, and what Process returns are packets as they are          *)
(* captured, whatever was captured.                                        *)
THEOREM EngineTypeCorrect == Spec => []TypeOK
<1>1. EngineInv => TypeOK
  BY DEF EngineInv
<1> QED BY <1>1, EngineInvariant, PTL

-----------------------------------------------------------------------------
(* The port that ParseTCP reads is where the driver's filter reads it.     *)
LEMMA PortInPlace ==
  ASSUME NEW buf \in Seq(Byte), ParseTCP(buf) # <<>>
  PROVE  At(buf, 9) = ProtoTCP /\ ParseTCP(buf)[1].DstPort = U16(buf, IHL(buf) + 2)
<1>1. PICK ihl \in Nat, end \in Nat, off \in Nat, tcp \in Seq(Byte) :
        /\ Parts(buf, ihl, end, off, tcp)
        /\ ParseTCP(buf) = <<Decoded(buf, ihl, tcp, off)>>
        /\ At(buf, 9) = ProtoTCP
  BY ParseParts
<1>2. /\ ihl = IHL(buf) /\ ihl <= end /\ end <= Len(buf) /\ tcp = Cut(buf, ihl, end)
      /\ 20 <= end - ihl /\ Len(buf) \in Nat
  BY <1>1, LenProperties DEF Parts
<1>3. tcp[2 + 1] = buf[ihl + 2 + 1] /\ tcp[2 + 1 + 1] = buf[ihl + 2 + 1 + 1]
  <2>1. \A k \in 1..(end - ihl) : tcp[k] = buf[ihl + k]
    <3>1. ihl \in 0..Len(buf) /\ end \in ihl..Len(buf)
      BY <1>2
    <3> QED BY <1>2, <3>1, CutTyped
  <2>2. /\ 2 + 1 \in 1..(end - ihl) /\ 2 + 1 + 1 \in 1..(end - ihl)
        /\ ihl + 2 + 1 = ihl + (2 + 1) /\ ihl + 2 + 1 + 1 = ihl + (2 + 1 + 1)
    BY <1>2
  <2>3. tcp[2 + 1] = buf[ihl + (2 + 1)] /\ tcp[2 + 1 + 1] = buf[ihl + (2 + 1 + 1)]
    BY <2>1, <2>2
  <2> QED BY <2>2, <2>3
<1>4. U16(tcp, 2) = U16(buf, ihl + 2)
  BY <1>3, Zenon DEF U16, At
<1> QED BY <1>1, <1>2, <1>4 DEF Decoded

(* The filter that Filter builds for the driver selects every packet that  *)
(* Process drops or rewrites: whatever the configuration, no packet that   *)
(* the engine is to act on passes it by.                                   *)
THEOREM FilterCorrect == Spec => []FilterCovers
<1>1. EngineInv => FilterCovers
  <2> SUFFICES ASSUME EngineInv, sent # None, out # <<sent.pkt>>
               PROVE  Selects(Filter(conf), sent.pkt)
    BY DEF FilterCovers
  <2>1. PICK pkt : pkt = sent.pkt
    OBVIOUS
  <2>2. pkt.Data \in Seq(Byte) /\ Process(conf, list, pkt) # <<pkt>>
    BY <2>1, TrafficAssumption DEF EngineInv, Verdict, Captures
  <2>3. CASE pkt.Outbound /\ conf.QUIC = "drop" /\ QUICInitial(pkt.Data)
    <3>1. At(pkt.Data, 9) = ProtoUDP /\ U16(pkt.Data, IHL(pkt.Data) + 2) = 443
      <4>1. /\ At(pkt.Data, 9) = ProtoUDP
            /\ ParseUDP(pkt.Data)[1].DstPort = U16(pkt.Data, IHL(pkt.Data) + 2)
        BY <2>3 DEF ParseUDP, QUICInitial
      <4> QED BY <2>3, <4>1 DEF QUICInitial
    <3>2. 443 \in Filter(conf).udp
      BY <2>3 DEF Filter
    <3> QED BY <2>1, <2>3, <3>1, <3>2 DEF Selects
  <2>4. CASE /\ pkt.Outbound /\ ParseTCP(pkt.Data) # <<>>
             /\ ParseTCP(pkt.Data)[1].DstPort \in ToSet(conf.Ports)
    <3>1. Filter(conf).tcp = ToSet(conf.Ports)
      BY DEF Filter
    <3> QED BY <2>1, <2>2, <2>4, <3>1, PortInPlace DEF Selects
  <2> QED BY <2>2, <2>3, <2>4, ProcessCases
<1> QED BY <1>1, EngineInvariant, PTL

(* The captures that are marked as Initials are QUIC Initials.             *)
InitialsMarked == \A t \in Traffic : t.kind = "initial" <=> QUICInitial(t.pkt.Data)

(* "fail-open" (engine.go): the engine drops QUIC Initials if it is told   *)
(* to; for every other packet, whatever its bytes, the verdict is to send  *)
(* something, since no strategy returns a payload in no parts.             *)
THEOREM FailsOpen ==
  ASSUME InitialsMarked
  PROVE  Spec => []OnlyInitialsDropped
<1>1. EngineInv => OnlyInitialsDropped
  <2> SUFFICES ASSUME EngineInv, sent # None
               PROVE  out = <<>> <=> /\ conf.QUIC = "drop" /\ sent.kind = "initial"
                                     /\ sent.pkt.Outbound
    BY DEF OnlyInitialsDropped
  <2>1. PICK pkt : pkt = sent.pkt
    OBVIOUS
  <2>2. /\ pkt \in Captures /\ Len(pkt.Data) < Size16 /\ conf \in Confs
        /\ out = Process(conf, list, pkt)
        /\ sent.kind = "initial" <=> QUICInitial(pkt.Data)
    BY <2>1, TrafficAssumption DEF EngineInv, Verdict, InitialsMarked
  <2>3. ASSUME out = <<>>
        PROVE  conf.QUIC = "drop" /\ QUICInitial(pkt.Data) /\ pkt.Outbound
    <3>1. out # <<pkt>>
      BY <2>3
    <3>2. ASSUME NEW tcp, Rendered(conf, pkt, tcp, out)
          PROVE  FALSE
      <4>1. PICK segs : /\ Covers(segs, Len(tcp.Payload), tcp.TTL, conf.FakeTTL)
                        /\ out = [i \in DOMAIN segs |->
                                    [pkt EXCEPT !.Data = Serialize(Render(tcp, segs[i]))]]
        BY <3>2 DEF Rendered
      <4>2. PICK m \in Nat \ {0} : DOMAIN segs = 1..m
        BY <4>1 DEF Covers
      <4>3. DOMAIN out = DOMAIN segs
        BY <4>1
      <4>4. DOMAIN out = {} /\ 1 \in 1..m
        BY <2>3
      <4> QED BY <4>2, <4>3, <4>4
    <3> QED BY <2>2, <3>1, <3>2, Rewritings
  <2>4. ASSUME conf.QUIC = "drop", QUICInitial(pkt.Data), pkt.Outbound
        PROVE  out = <<>>
    <3>1. ParseTCP(pkt.Data) = <<>>
      <4>1. At(pkt.Data, 9) = ProtoUDP
        BY <2>4, Zenon DEF QUICInitial, ParseUDP
      <4>2. At(pkt.Data, 9) # ProtoTCP
        BY <4>1 DEF ProtoUDP, ProtoTCP
      <4> QED BY <4>2, Zenon DEF ParseTCP
    <3>2. Process(conf, list, pkt) = ProcessUDP(conf, pkt, ParseUDP(pkt.Data)[1])
      BY <2>4, <3>1, Zenon DEF Process, QUICInitial
    <3> QED BY <2>2, <2>4, <3>2, Zenon DEF ProcessUDP, QUICInitial
  <2> QED BY <2>1, <2>2, <2>3, <2>4
<1> QED BY <1>1, EngineInvariant, PTL

-----------------------------------------------------------------------------
(* The sum of the property is the sum of the codec.                        *)
LEMMA SumIsZero ==
  ASSUME NEW b, SumsToZero(b)
  PROVE  Sum(b) % (Size16 - 1) = 0
<1> DEFINE s == CHOOSE s : s = [i \in 0..Len(b) |-> IF i = 0 THEN 0
                                  ELSE s[i - 1] + b[i] * (IF i % 2 = 1 THEN 256 ELSE 1)]
<1>1. Sum(b) = s[Len(b)]
  BY Zenon DEF Sum
<1>2. PICK g : ByteSums(b, g)
  BY ByteSumsExist DEF SumsToZero
<1>3. g = [i \in 0..Len(b) |-> IF i = 0 THEN 0
                               ELSE g[i - 1] + b[i] * (IF i % 2 = 1 THEN 256 ELSE 1)]
  BY <1>2, Zenon DEF ByteSums, Weight
<1>4. PICK f : f = s
  OBVIOUS
<1>5. f = [i \in 0..Len(b) |-> IF i = 0 THEN 0
                               ELSE f[i - 1] + b[i] * (IF i % 2 = 1 THEN 256 ELSE 1)]
  BY <1>3, <1>4, Zenon
<1> HIDE DEF s
<1>6. ByteSums(b, f)
  BY <1>5, Zenon DEF ByteSums, Weight
<1>7. f[Len(b)] % (Size16 - 1) = 0
  BY <1>6 DEF SumsToZero
<1> QED BY <1>1, <1>4, <1>7

(* What is injected for a packet that the engine rewrites.                 *)
LEMMA RewrittenPackets ==
  ASSUME EngineInv, Rewritten
  PROVE  /\ conf \in Confs /\ sent.pkt \in Captures
         /\ \E tcp : Rendered(conf, sent.pkt, tcp, out)
<1>1. PICK pkt : pkt = sent.pkt
  OBVIOUS
<1>2. pkt \in Captures /\ Len(pkt.Data) < Size16 /\ conf \in Confs /\ out = Process(conf, list, pkt)
  BY <1>1, TrafficAssumption DEF EngineInv, Verdict, Rewritten
<1>3. out # <<pkt>> /\ out # <<>>
  BY <1>1 DEF Rewritten
<1> QED BY <1>1, <1>2, <1>3, Rewritings

(* "with correct lengths and checksums": for every packet that is          *)
(* injected, the header sums up to zero, so does the segment with its      *)
(* pseudo-header, and the length field is the length.                      *)
THEOREM ChecksumsCorrect == Spec => []ChecksumsValid
<1>1. EngineInv => ChecksumsValid
  <2> SUFFICES ASSUME EngineInv, Rewritten, NEW i \in DOMAIN out,
                      NEW buf, buf = out[i].Data, NEW tcp, tcp = Cut(buf, IHL(buf), Len(buf))
               PROVE  /\ Sum(Cut(buf, 0, IHL(buf))) % (Size16 - 1) = 0
                      /\ Sum(Pseudo(Cut(buf, 12, 20), tcp) \o tcp) % (Size16 - 1) = 0
                      /\ U16(buf, 2) = Len(buf)
    BY Zenon DEF ChecksumsValid
  <2>1. PICK p : WellFormed(p) /\ buf = Serialize(p)
    BY RewrittenPackets, RenderedPackets
  <2>2. /\ SumsToZero(Cut(buf, 0, IHL(buf)))
        /\ SumsToZero(Pseudo(Cut(buf, 12, 20), tcp) \o tcp)
        /\ U16(buf, 2) = Len(buf)
    BY <2>1, SerializeCorrect
  <2> QED BY <2>2, SumIsZero
<1> QED BY <1>1, EngineInvariant, PTL

-----------------------------------------------------------------------------
(* A real part is the bytes of the payload at its sequence number.         *)
LEMMA RealPart ==
  ASSUME NEW tcp, WellFormed(tcp), NEW seg, Real(seg, Len(tcp.Payload), tcp.TTL),
         NEW r, r = Render(tcp, seg)
  PROVE  /\ WellFormed(r) /\ r.TTL = tcp.TTL /\ Part(tcp, r)
         /\ Distance(tcp.Seq, r.Seq) = seg.from /\ Len(r.Payload) = seg.to - seg.from
<1>1. PICK n \in Nat : n = Len(tcp.Payload) /\ n < Size16
  <2>1. PICK n, m, k : n = Len(tcp.Payload) /\ m = Len(tcp.IPOpts) /\ k = Len(tcp.TCPOpts)
    OBVIOUS
  <2>2. n \in Nat /\ m \in Nat /\ k \in Nat /\ 40 + m + k + n < Size16
    BY <2>1, FieldLengths DEF WellFormed
  <2>3. n < Size16
    BY <2>2, Size16Range
  <2> QED BY <2>1, <2>2, <2>3
<1>2. PICK from \in Nat, to \in Nat : from = seg.from /\ to = seg.to /\ from <= to /\ to <= n
  BY <1>1 DEF Real
<1>3. seg.seq = from /\ seg.decoy = FALSE
  BY <1>2 DEF Real
<1>4. tcp.TTL \in Byte /\ tcp.Payload \in Seq(Byte) /\ tcp \in TCPPackets
  BY FieldsTyped DEF WellFormed
<1>5. /\ WellFormed(r)
      /\ r = [tcp EXCEPT !.TTL = tcp.TTL, !.Seq = r.Seq, !.Flags = r.Flags, !.Payload = r.Payload]
      /\ r.Seq = AddSeq(tcp.Seq, from)
      /\ to = n => r.Flags = tcp.Flags
      /\ r.Payload = Cut(tcp.Payload, from, to)
  <2>1. Drawn(tcp, seg, tcp.TTL, r)
    BY <1>4, RenderWellFormed
  <2> QED BY <1>1, <1>2, <1>3, <2>1 DEF Drawn
<1>6. r = [tcp EXCEPT !.Seq = r.Seq, !.Payload = r.Payload, !.Flags = r.Flags] /\ r.TTL = tcp.TTL
  BY <1>4, <1>5, ZenonT(40) DEF TCPPackets
<1>7. Distance(tcp.Seq, r.Seq) = from
  <2>1. from < Size16
    BY <1>1, <1>2, Size16Range
  <2>2. tcp.Seq \in Uint16 \X Uint16
    BY <1>4 DEF TCPPackets
  <2> QED BY <1>5, <2>1, <2>2, AddSeqApart
<1>8. Len(r.Payload) = to - from
  <2>1. from \in 0..Len(tcp.Payload) /\ to \in from..Len(tcp.Payload)
    BY <1>1, <1>2
  <2> QED BY <1>4, <1>5, <2>1, CutTyped
<1>9. Part(tcp, r)
  <2>1. from \in 0..n /\ from + (to - from) = to
    BY <1>2
  <2> QED BY <1>1, <1>2, <1>5, <1>6, <1>7, <1>8, <2>1 DEF Part
<1> QED BY <1>2, <1>5, <1>6, <1>7, <1>8, <1>9

(* The packet of a decoy.                                                  *)
DecoyOf(tcp, ttl, r) ==
  /\ WellFormed(r) /\ r.TTL = ttl
  /\ r = [tcp EXCEPT !.TTL = ttl, !.Payload = Zeros(Len(tcp.Payload))]

(* A decoy differs from the packet in TTL and payload only.                *)
LEMMA DecoyPart ==
  ASSUME NEW tcp, WellFormed(tcp), NEW ttl \in Byte, NEW seg, Decoy(seg, Len(tcp.Payload), ttl),
         NEW r, r = Render(tcp, seg)
  PROVE  DecoyOf(tcp, ttl, r)
<1>1. tcp \in TCPPackets
  BY DEF WellFormed
<1>2. /\ WellFormed(r)
      /\ r = [tcp EXCEPT !.TTL = ttl, !.Seq = r.Seq, !.Flags = r.Flags, !.Payload = r.Payload]
      /\ r.Seq = AddSeq(tcp.Seq, 0)
      /\ r.Flags = tcp.Flags
      /\ r.Payload = Zeros(Len(tcp.Payload))
  <2>1. Drawn(tcp, seg, ttl, r)
    BY RenderWellFormed
  <2> QED BY <2>1 DEF Drawn, Decoy
<1>3. r.Seq = tcp.Seq
  <2>1. PICK h \in Nat, l \in Nat : tcp.Seq = <<h, l>> /\ h < Size16 /\ l < Size16
    BY <1>1, Size16Range, SMTT(30) DEF TCPPackets, Uint16
  <2>2. (h + (l + 0) \div Size16) % Size16 = h /\ (l + 0) % Size16 = l
    BY <2>1, SMTT(30) DEF Size16
  <2> QED BY <1>2, <2>1, <2>2 DEF AddSeq
<1>4. r = [tcp EXCEPT !.TTL = ttl, !.Payload = Zeros(Len(tcp.Payload))] /\ r.TTL = ttl
  <2>1. PICK z, s, f : z = Zeros(Len(tcp.Payload)) /\ s = tcp.Seq /\ f = tcp.Flags
    OBVIOUS
  <2>2. r = [tcp EXCEPT !.TTL = ttl, !.Seq = s, !.Flags = f, !.Payload = z]
    BY <1>2, <1>3, <2>1
  <2>3. r = [tcp EXCEPT !.TTL = ttl, !.Payload = z] /\ r.TTL = ttl
    BY <1>1, <2>1, <2>2, ZenonT(40) DEF TCPPackets
  <2> QED BY <2>1, <2>3
<1> QED BY <1>2, <1>4 DEF DecoyOf

(* No packet is captured that already has the TTL that marks decoys.       *)
TTLsApart ==
  \A t \in Traffic, c \in Confs :
    ParseTCP(t.pkt.Data) # <<>> => ParseTCP(t.pkt.Data)[1].TTL # c.FakeTTL

(* "the real server assembles everything correctly" (desync.go): whatever  *)
(* the packet, its headers and options, the strategy and the place of the  *)
(* cut, what is injected decodes again, its real parts are the bytes of    *)
(* the packet at their sequence numbers, all of them, and the decoys       *)
(* differ from the packet in TTL and payload only.                         *)
THEOREM Reassembled ==
  ASSUME TTLsApart
  PROVE  Spec => []Reassembles
<1>1. EngineInv => Reassembles
  <2> SUFFICES ASSUME EngineInv, Rewritten
               PROVE  Reassembles
    BY DEF Reassembles
  <2>1. PICK orig : Rendered(conf, sent.pkt, orig, out) /\ conf \in Confs
    BY RewrittenPackets
  <2>2. WellFormed(orig) /\ orig = ParseTCP(sent.pkt.Data)[1] /\ orig.TTL # conf.FakeTTL
    BY <2>1 DEF Rendered, TTLsApart, EngineInv, Verdict, Rewritten
  <2>3. PICK segs : /\ Covers(segs, Len(orig.Payload), orig.TTL, conf.FakeTTL)
                    /\ out = [i \in DOMAIN segs |->
                                [sent.pkt EXCEPT !.Data = Serialize(Render(orig, segs[i]))]]
    BY <2>1 DEF Rendered
  <2>4. DOMAIN out = DOMAIN segs
    BY <2>3
  <2>5. \A i \in DOMAIN out : out[i].Data = Serialize(Render(orig, segs[i]))
    <3>1. sent.pkt \in Captures
      BY RewrittenPackets
    <3> QED BY <2>3, <2>4, <3>1 DEF Captures
  <2>6. ASSUME NEW i \in DOMAIN out
        PROVE  /\ ParseTCP(out[i].Data) = <<Render(orig, segs[i])>>
               /\ \/ /\ Real(segs[i], Len(orig.Payload), orig.TTL)
                     /\ ~IsDecoy(Render(orig, segs[i])) /\ Part(orig, Render(orig, segs[i]))
                  \/ /\ Decoy(segs[i], Len(orig.Payload), conf.FakeTTL)
                     /\ IsDecoy(Render(orig, segs[i]))
                     /\ Render(orig, segs[i]) =
                          [orig EXCEPT !.TTL = conf.FakeTTL, !.Payload = Zeros(Len(orig.Payload))]
    <3>1. PICK seg, r : seg = segs[i] /\ r = Render(orig, seg)
      OBVIOUS
    <3>2. CASE Real(seg, Len(orig.Payload), orig.TTL)
      <4>1. WellFormed(r) /\ r.TTL = orig.TTL /\ Part(orig, r)
        BY <2>2, <3>1, <3>2, RealPart
      <4>2. ParseTCP(out[i].Data) = <<r>>
        BY <2>5, <3>1, <4>1, RoundTrip
      <4> QED BY <2>2, <3>1, <3>2, <4>1, <4>2, Zenon DEF IsDecoy
    <3>3. CASE Decoy(seg, Len(orig.Payload), conf.FakeTTL)
      <4>1. /\ WellFormed(r) /\ r.TTL = conf.FakeTTL
            /\ r = [orig EXCEPT !.TTL = conf.FakeTTL, !.Payload = Zeros(Len(orig.Payload))]
        <5>1. conf.FakeTTL \in Byte
          BY <2>1, ConfTyped
        <5>2. DecoyOf(orig, conf.FakeTTL, r)
          BY <2>2, <3>1, <3>3, <5>1, DecoyPart
        <5> QED BY <5>2, Zenon DEF DecoyOf
      <4>2. ParseTCP(out[i].Data) = <<r>>
        BY <2>5, <3>1, <4>1, RoundTrip
      <4> QED BY <3>1, <3>3, <4>1, <4>2, Zenon DEF IsDecoy
    <3> QED BY <2>3, <2>4, <3>1, <3>2, <3>3, Zenon DEF Covers
  <2>7. PICK parts, real : /\ parts = {ParseTCP(out[i].Data)[1] : i \in DOMAIN out}
                           /\ real = {p \in parts : ~IsDecoy(p)}
    OBVIOUS
  <2>8. \A i \in DOMAIN out : ParseTCP(out[i].Data)[1] = Render(orig, segs[i])
    BY <2>6
  <2>9. \A i \in DOMAIN out : ParseTCP(out[i].Data) # <<>>
    BY <2>6
  <2>10. \A p \in parts : \E i \in DOMAIN out : p = Render(orig, segs[i])
    BY <2>7, <2>8, Zenon
  <2>11. \A p \in real : Part(orig, p)
    BY <2>6, <2>7, <2>10, Zenon
  <2>12. \A p \in parts \ real :
           p = [orig EXCEPT !.TTL = conf.FakeTTL, !.Payload = Zeros(Len(orig.Payload))]
    BY <2>6, <2>7, <2>10, ZenonT(40)
  <2>13. ASSUME NEW k \in 0..(Len(orig.Payload) - 1)
         PROVE  \E p \in real :
                  LET off == Distance(orig.Seq, p.Seq) IN off <= k /\ k < off + Len(p.Payload)
    <3>1. PICK i \in DOMAIN segs : /\ Real(segs[i], Len(orig.Payload), orig.TTL)
                                   /\ segs[i].from <= k /\ k < segs[i].to
      BY <2>3 DEF Covers
    <3>2. PICK seg, r : seg = segs[i] /\ r = Render(orig, seg)
      OBVIOUS
    <3>3. /\ WellFormed(r) /\ r.TTL = orig.TTL
          /\ Distance(orig.Seq, r.Seq) = seg.from /\ Len(r.Payload) = seg.to - seg.from
      BY <2>2, <3>1, <3>2, RealPart
    <3>4. r \in real
      BY <2>2, <2>4, <2>7, <2>8, <3>2, <3>3 DEF IsDecoy
    <3>5. seg.from + (seg.to - seg.from) = seg.to
      BY <3>1, <3>2 DEF Real
    <3> QED BY <3>1, <3>2, <3>3, <3>4, <3>5
  <2> QED BY <2>2, <2>7, <2>9, <2>11, <2>12, <2>13, Zenon DEF Reassembles
<1> QED BY <1>1, EngineInvariant, PTL

-----------------------------------------------------------------------------
(* The captures that are marked as ClientHellos are what they are marked   *)
(* as: segments to the port, with a first part of a message that names the *)
(* host, with its last byte at end, or of one that names nobody.           *)
HelloPayload(t, payload) ==
  \E m : /\ Prefix(payload, m)
         /\ \/ HelloMessage(m, t.host, t.end) /\ (t.whole <=> ~(Len(payload) < t.end))
            \/ NamelessMessage(m) /\ ~t.whole
HellosMarked ==
  \A t \in Traffic : t.kind = "hello" =>
    /\ ParseTCP(t.pkt.Data) # <<>> /\ ParseTCP(t.pkt.Data)[1].DstPort = t.port
    /\ HelloPayload(t, ParseTCP(t.pkt.Data)[1].Payload)

(* In such a segment the parser finds the bytes of the host name at their  *)
(* place, if all of them are there.                                        *)
FoundName(t, payload, name) ==
  /\ name = <<[from |-> t.end - Len(t.host), to |-> t.end]>>
  /\ t.end \in Nat /\ Len(t.host) \in Nat \ {0} /\ t.end > Len(t.host) /\ t.end <= Len(payload)
  /\ Cut(payload, name[1].from, name[1].to) = t.host

(* The parser finds the name in such a payload if and only if it is whole. *)
LEMMA HelloParsed ==
  ASSUME NEW t, NEW payload, HelloPayload(t, payload)
  PROVE  IF t.whole THEN FoundName(t, payload, ParseClientHello(payload))
                    ELSE ParseClientHello(payload) = <<>>
<1>1. PICK m : /\ Prefix(payload, m)
               /\ \/ HelloMessage(m, t.host, t.end) /\ (t.whole <=> ~(Len(payload) < t.end))
                  \/ NamelessMessage(m) /\ ~t.whole
  BY DEF HelloPayload
<1>2. CASE NamelessMessage(m) /\ ~t.whole
  BY <1>1, <1>2, NoNameFound
<1>3. CASE HelloMessage(m, t.host, t.end) /\ (t.whole <=> ~(Len(payload) < t.end))
  <2>1. PICK name : name = ParseClientHello(payload)
    OBVIOUS
  <2>2. PICK host, end : host = t.host /\ end = t.end
    OBVIOUS
  <2>3. HelloMessage(m, host, end)
    BY <1>3, <2>2
  <2>4. name = IF Len(payload) < end THEN <<>> ELSE <<[from |-> end - Len(host), to |-> end]>>
    BY <1>1, <2>1, <2>3, NameFound
  <2>5. CASE ~(Len(payload) < end)
    <3>1. Len(payload) \in Nat
      BY <1>1, LenProperties DEF Prefix
    <3>2. /\ end \in Nat /\ end > Len(host) /\ Len(host) \in Nat \ {0}
          /\ Cut(payload, end - Len(host), end) = host
      BY <1>1, <2>3, <2>5, NameBytes
    <3>3. end <= Len(payload)
      BY <2>5, <3>1, <3>2
    <3>4. name[1].from = end - Len(host) /\ name[1].to = end
      BY <2>4, <2>5
    <3>5. FoundName(t, payload, name)
      BY <2>2, <2>4, <2>5, <3>1, <3>2, <3>3, <3>4 DEF FoundName
    <3> QED BY <1>3, <2>1, <2>2, <2>5, <3>5
  <2> QED BY <1>3, <2>1, <2>2, <2>4, <2>5
<1> QED BY <1>1, <1>2, <1>3

(* The verdict on such a segment: it is rewritten exactly if it goes to a  *)
(* target port with the whole name of a host on the list, and then it is   *)
(* cut where the name that was found says.                                 *)
Hit(t) ==
  t.pkt.Outbound /\ t.port \in ToSet(conf.Ports) /\ t.whole /\ Match(list, t.host)
HelloParted(t, tcp, res) ==
  /\ WellFormed(tcp) /\ tcp = ParseTCP(t.pkt.Data)[1]
  /\ \E name : /\ FoundName(t, tcp.Payload, name)
               /\ Parted(conf, t.pkt, tcp, SplitOffset(conf, tcp.Payload, name[1]), res)

(* Process rewrites such a segment if and only if it is a hit.             *)
LEMMA HelloVerdict ==
  ASSUME HellosMarked, EngineInv, sent # None, sent.kind = "hello"
  PROVE  /\ Rewritten <=> Hit(sent)
         /\ Rewritten => \E tcp : HelloParted(sent, tcp, out)
<1>1. PICK t, pkt : t = sent /\ pkt = t.pkt
  OBVIOUS
<1>2. /\ t \in Traffic /\ t.kind = "hello" /\ conf \in Confs /\ out = Process(conf, list, pkt)
      /\ pkt \in Captures /\ pkt.Data \in Seq(Byte) /\ Len(pkt.Data) < Size16
  BY <1>1, TrafficAssumption DEF EngineInv, Verdict, Captures
<1>3. PICK tcp : tcp = ParseTCP(pkt.Data)[1]
  OBVIOUS
<1>4. /\ ParseTCP(pkt.Data) # <<>> /\ tcp.DstPort = t.port /\ HelloPayload(t, tcp.Payload)
  BY <1>1, <1>2, <1>3 DEF HellosMarked
<1>5. WellFormed(tcp)
  <2>1. pkt.Data \in Seq(Byte) /\ Len(pkt.Data) < Size16 /\ ParseTCP(pkt.Data) # <<>>
    BY <1>2, <1>4
  <2> QED BY <1>3, <2>1, ParseWellFormed
<1>6. Rewritten <=> out # <<>> /\ out # <<pkt>>
  BY <1>1 DEF Rewritten
<1>7. CASE ~pkt.Outbound
  <2>1. out = <<pkt>>
    BY <1>2, <1>7, Zenon DEF Process
  <2> QED BY <1>1, <1>6, <1>7, <2>1, Zenon DEF Hit
<1>8. CASE pkt.Outbound
  <2>1. out = ProcessTCP(conf, list, pkt, tcp)
    BY <1>2, <1>3, <1>4, <1>8, Zenon DEF Process
  <2>2. PICK name : name = ParseClientHello(tcp.Payload)
    OBVIOUS
  <2>3. IF t.whole THEN FoundName(t, tcp.Payload, name) ELSE name = <<>>
    BY <1>4, <2>2, HelloParsed, Zenon
  <2>4. CASE ~t.whole
    <3>1. out = <<pkt>>
      BY <2>1, <2>2, <2>3, <2>4, Zenon DEF ProcessTCP
    <3> QED BY <1>1, <1>6, <2>4, <3>1, Zenon DEF Hit
  <2>5. CASE t.whole
    <3>1. FoundName(t, tcp.Payload, name)
      BY <2>3, <2>5
    <3>2. name # <<>> /\ Cut(tcp.Payload, name[1].from, name[1].to) = t.host
      BY <3>1 DEF FoundName
    <3>3. out = IF t.port \in ToSet(conf.Ports) /\ Match(list, t.host)
                THEN Rewrite(conf, pkt, tcp, name[1]) ELSE <<pkt>>
      BY <1>4, <2>1, <2>2, <3>2, Zenon DEF ProcessTCP
    <3>4. CASE ~(t.port \in ToSet(conf.Ports) /\ Match(list, t.host))
      <4>1. out = <<pkt>>
        BY <3>3, <3>4, Zenon
      <4> QED BY <1>1, <1>6, <3>4, <4>1, Zenon DEF Hit
    <3>5. CASE t.port \in ToSet(conf.Ports) /\ Match(list, t.host)
      <4>1. Len(tcp.Payload) > 1 /\ SplitOffset(conf, tcp.Payload, name[1]) \in Int
        <5>1. PICK e, l, n : e = t.end /\ l = Len(t.host) /\ n = Len(tcp.Payload)
          OBVIOUS
        <5>2. /\ e \in Nat /\ l \in Nat \ {0} /\ e > l /\ e <= n
              /\ name[1].from = e - l /\ name[1].to = e
          BY <3>1, <5>1 DEF FoundName
        <5>3. n \in Nat
          BY <1>5, <5>1, FieldsTyped, LenProperties
        <5>4. (e - l) + (e - (e - l)) \div 2 \in Int /\ n \div 2 \in Int /\ n > 1
          BY <5>2, <5>3
        <5> QED BY <5>1, <5>2, <5>4 DEF SplitOffset
      <4>2. out = Rewrite(conf, pkt, tcp, name[1])
        BY <3>3, <3>5, Zenon
      <4>3. Parted(conf, pkt, tcp, SplitOffset(conf, tcp.Payload, name[1]), out)
        BY <1>2, <1>5, <4>1, <4>2, RewriteParts
      <4>4. out # <<>> /\ out # <<pkt>>
        BY <4>3, PartedDiffers
      <4>5. HelloParted(t, tcp, out)
        BY <1>1, <1>3, <1>5, <3>1, <4>3, Zenon DEF HelloParted
      <4>6. Hit(t)
        BY <1>1, <1>8, <2>5, <3>5, Zenon DEF Hit
      <4> QED BY <1>1, <1>6, <4>4, <4>5, <4>6, Zenon
    <3> QED BY <3>4, <3>5
  <2> QED BY <2>4, <2>5
<1> QED BY <1>2, <1>7, <1>8

(* A host is on the list exactly if a line that has been read asks for it. *)
LEMMA TargetsMatched ==
  ASSUME HellosMarked, EngineInv
  PROVE  TargetsFound
<1> SUFFICES ASSUME sent # None, sent.kind = "hello"
             PROVE  Rewritten <=> /\ sent.pkt.Outbound /\ sent.port \in ToSet(conf.Ports)
                                  /\ sent.whole
                                  /\ \E d \in Wanted, h \in Meant(sent.host) :
                                       d[1] # Hash /\ Under(h, d)
  BY DEF TargetsFound
<1>1. sent.host \in Seq(Byte) /\ list \in SUBSET (Seq(Byte) \ {<<>>})
  BY TrafficAssumption DEF EngineInv, Verdict, TypeOK
<1>2. Match(list, sent.host) <=> \E d \in list, h \in Meant(sent.host) : Under(h, d)
  BY <1>1, HostMeaning
<1>3. \A d : d \in list <=> d \in Wanted /\ d[1] # Hash
  BY DEF EngineInv, ListRead
<1>4. Match(list, sent.host) <=>
        \E d \in Wanted, h \in Meant(sent.host) : d[1] # Hash /\ Under(h, d)
  BY <1>2, <1>3, Zenon
<1> QED BY <1>4, HelloVerdict, Zenon DEF Hit

(* "matches the exact host and any of its subdomains" (hostlist.go):       *)
(* whatever the list files, the ClientHello around the name and the        *)
(* segment's length, a segment is rewritten exactly if it has the whole    *)
(* name of a host that a line asks for and goes to a target port.          *)
THEOREM TargetsCorrect ==
  ASSUME HellosMarked
  PROVE  Spec => []TargetsFound
<1>1. EngineInv => TargetsFound
  BY TargetsMatched
<1> QED BY <1>1, EngineInvariant, PTL

(* Neither side of a cut inside the name has all of it.                    *)
LEMMA NameApart ==
  ASSUME HellosMarked, EngineInv
  PROVE  NameCut
<1> SUFFICES ASSUME Rewritten, sent.kind = "hello", Len(sent.host) > 1, conf.SplitPos = "sni",
                    conf.Strategy # "fake", NEW i \in DOMAIN out, NEW p, p = ParseTCP(out[i].Data)[1]
             PROVE  \/ IsDecoy(p)
                    \/ Distance(ParseTCP(sent.pkt.Data)[1].Seq, p.Seq) > sent.end - Len(sent.host)
                    \/ Distance(ParseTCP(sent.pkt.Data)[1].Seq, p.Seq) + Len(p.Payload) < sent.end
  BY Zenon DEF NameCut
<1>1. PICK t, pkt : t = sent /\ pkt = t.pkt
  OBVIOUS
<1>2. /\ conf \in Confs /\ pkt \in Captures /\ sent # None
  BY <1>1, TrafficAssumption DEF EngineInv, Verdict, Rewritten
<1>3. PICK tcp : HelloParted(t, tcp, out)
  BY <1>1, <1>2, HelloVerdict
<1>4. PICK name : /\ FoundName(t, tcp.Payload, name)
                  /\ Parted(conf, pkt, tcp, SplitOffset(conf, tcp.Payload, name[1]), out)
  BY <1>1, <1>3 DEF HelloParted
<1>5. WellFormed(tcp) /\ tcp = ParseTCP(pkt.Data)[1]
  BY <1>1, <1>3 DEF HelloParted
<1>6. PICK e, l, n : e = t.end /\ l = Len(t.host) /\ n = Len(tcp.Payload)
  OBVIOUS
<1>7. /\ e \in Nat /\ l \in Nat /\ l > 1 /\ e > l /\ e <= n /\ n \in Nat
      /\ name[1].from = e - l /\ name[1].to = e
  <2>1. n \in Nat
    BY <1>5, <1>6, FieldsTyped, LenProperties
  <2> QED BY <1>1, <1>4, <1>6, <2>1 DEF FoundName
<1>8. PICK v \in Int : /\ v = SplitOffset(conf, tcp.Payload, name[1])
                       /\ v > e - l /\ v < e /\ v \in 1..(n - 1)
  <2>1. SplitOffset(conf, tcp.Payload, name[1]) = (e - l) + (e - (e - l)) \div 2
    BY <1>7 DEF SplitOffset
  <2>2. PICK v \in Int : v = (e - l) + (e - (e - l)) \div 2
    BY <1>7
  <2>3. v > e - l /\ v < e /\ v \in 1..(n - 1)
    BY <1>7, <2>2
  <2> QED BY <2>1, <2>2, <2>3
<1>9. PICK segs :
        /\ Covers(segs, n, tcp.TTL, conf.FakeTTL)
        /\ out = [j \in DOMAIN segs |-> [pkt EXCEPT !.Data = Serialize(Render(tcp, segs[j]))]]
        /\ CutAt(segs, v)
  BY <1>4, <1>6, <1>8, Zenon DEF Parted
<1>10. PICK seg, r : seg = segs[i] /\ r = Render(tcp, seg)
  OBVIOUS
<1>11. i \in DOMAIN segs /\ out[i].Data = Serialize(r)
  BY <1>2, <1>9, <1>10 DEF Captures
<1>12. CASE Real(seg, n, tcp.TTL)
  <2>1. /\ WellFormed(r) /\ Distance(tcp.Seq, r.Seq) = seg.from
        /\ Len(r.Payload) = seg.to - seg.from
    BY <1>5, <1>6, <1>10, <1>12, RealPart
  <2>2. p = r
    BY <1>11, <2>1, RoundTrip
  <2>3. seg.from \in Nat /\ seg.to \in Nat /\ ~seg.decoy
    BY <1>12 DEF Real
  <2>4. seg.to = v \/ seg.from = v
    BY <1>9, <1>10, <1>11, <2>3 DEF CutAt
  <2>5. seg.from > e - l \/ seg.from + (seg.to - seg.from) < e
    BY <1>8, <2>3, <2>4
  <2> QED BY <1>1, <1>5, <1>6, <2>1, <2>2, <2>5
<1>13. CASE Decoy(seg, n, conf.FakeTTL)
  <2>1. DecoyOf(tcp, conf.FakeTTL, r)
    BY <1>2, <1>5, <1>6, <1>10, <1>13, ConfTyped, DecoyPart
  <2>2. p = r /\ r.TTL = conf.FakeTTL
    BY <1>11, <2>1, RoundTrip DEF DecoyOf
  <2> QED BY <2>2 DEF IsDecoy
<1> QED BY <1>9, <1>10, <1>11, <1>12, <1>13, Zenon DEF Covers

(* "so neither half contains the whole name" (engine.go): wherever in the  *)
(* payload the name is, no packet that is injected for a cutting strategy  *)
(* with split=sni has all of it, decoys aside.                             *)
THEOREM NameCutCorrect ==
  ASSUME HellosMarked
  PROVE  Spec => []NameCut
<1>1. EngineInv => NameCut
  BY NameApart
<1> QED BY <1>1, EngineInvariant, PTL

=============================================================================
