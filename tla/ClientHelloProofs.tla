-------------------------- MODULE ClientHelloProofs --------------------------
(***************************************************************************)
(* That the ClientHello parser stays within the payload, whatever lengths  *)
(* its sender wrote into it, and that it finds the name in every           *)
(* ClientHello that has one.  The walks over the extensions and over the   *)
(* names of one of them are functions defined by recursion; that there are *)
(* such functions, and what they return, is proved by induction on what is *)
(* left of the buffer.                                                     *)
(***************************************************************************)
EXTENDS ClientHello, PacketProofs

-----------------------------------------------------------------------------
(* A walk that stops at some positions and otherwise goes on to a later    *)
(* one before a fixed end: the value it returns is that of a position      *)
(* where it stops.                                                         *)
Walk(f, stop, val, next) == f = [p \in Nat |-> IF stop[p] THEN val[p] ELSE f[next[p]]]
StopsAt(f, stop, val, from) == \E q \in Nat : q >= from /\ stop[q] /\ f[from] = val[q]
Advances(stop, next, end) ==
  \A p \in Nat : ~stop[p] => next[p] \in Nat /\ next[p] > p /\ p < end

(* There is such a walk: on the position p it is defined by induction on   *)
(* what is left, end - p.                                                  *)
LEMMA WalkExists ==
  ASSUME NEW end \in Nat, NEW stop, NEW val, NEW next, Advances(stop, next, end)
  PROVE  \E f : Walk(f, stop, val, next)
<1> DEFINE Good(f, k) == \A p \in Nat : p + k >= end =>
                           f[p] = IF stop[p] THEN val[p] ELSE f[next[p]]
           S == {k \in Nat : \E f : f = [p \in Nat |-> f[p]] /\ Good(f, k)}
<1>1. 0 \in S
  <2>1. PICK f : f = [p \in Nat |-> val[p]]
    OBVIOUS
  <2>2. f = [p \in Nat |-> f[p]]
    BY <2>1
  <2>3. Good(f, 0)
    BY <2>1 DEF Advances
  <2> QED BY <2>2, <2>3
<1>2. ASSUME NEW k \in Nat, k \in S
      PROVE  k + 1 \in S
  <2>1. PICK f : f = [p \in Nat |-> f[p]] /\ Good(f, k)
    BY <1>2
  <2>2. PICK g : g = [p \in Nat |-> IF p + (k + 1) = end THEN IF stop[p] THEN val[p] ELSE f[next[p]]
                                    ELSE f[p]]
    OBVIOUS
  <2>3. g = [p \in Nat |-> g[p]]
    BY <2>2
  <2>4. ASSUME NEW p \in Nat, p + (k + 1) >= end
        PROVE  g[p] = IF stop[p] THEN val[p] ELSE g[next[p]]
    <3>1. ~stop[p] => g[next[p]] = f[next[p]]
      BY <2>2, <2>4 DEF Advances
    <3>2. CASE p + (k + 1) = end
      BY <2>2, <3>1, <3>2
    <3>3. CASE p + (k + 1) # end
      <4>1. p + k >= end
        BY <2>4, <3>3
      <4>2. f[p] = IF stop[p] THEN val[p] ELSE f[next[p]]
        BY <2>1, <4>1
      <4>3. g[p] = f[p]
        BY <2>2, <3>3
      <4> QED BY <3>1, <4>2, <4>3
    <3> QED BY <3>2, <3>3
  <2> QED BY <2>3, <2>4
<1> HIDE DEF S
<1>3. end \in S
  BY <1>1, <1>2, Induction
<1>4. PICK f : f = [p \in Nat |-> f[p]] /\ Good(f, end)
  BY <1>3 DEF S
<1>5. \A p \in Nat : f[p] = IF stop[p] THEN val[p] ELSE f[next[p]]
  BY <1>4, SMTT(30)
<1>6. f = [p \in Nat |-> IF stop[p] THEN val[p] ELSE f[next[p]]]
  BY <1>4, <1>5
<1> QED BY <1>6 DEF Walk

(* A walk ends at a position where it stops, not before it began.          *)
LEMMA WalkEnds ==
  ASSUME NEW end \in Nat, NEW stop, NEW val, NEW next, Advances(stop, next, end),
         NEW f, Walk(f, stop, val, next), NEW from \in Nat
  PROVE  StopsAt(f, stop, val, from)
<1> DEFINE S == {k \in Nat : \A p \in Nat : p + k >= end =>
                               \E q \in Nat : q >= p /\ stop[q] /\ f[p] = val[q]}
<1>0. \A p \in Nat : f[p] = IF stop[p] THEN val[p] ELSE f[next[p]]
  BY DEF Walk
<1>1. 0 \in S
  BY <1>0 DEF Advances
<1>2. ASSUME NEW k \in Nat, k \in S
      PROVE  k + 1 \in S
  <2>1. ASSUME NEW p \in Nat, p + (k + 1) >= end
        PROVE  \E q \in Nat : q >= p /\ stop[q] /\ f[p] = val[q]
    <3>1. CASE stop[p]
      BY <1>0, <3>1
    <3>2. CASE ~stop[p]
      <4>1. PICK r \in Nat : r = next[p] /\ r > p
        BY <3>2 DEF Advances
      <4>2. r + k >= end
        BY <2>1, <4>1
      <4>3. PICK q \in Nat : q >= r /\ stop[q] /\ f[r] = val[q]
        BY <1>2, <4>2
      <4>4. q >= p
        BY <4>1, <4>3
      <4> QED BY <1>0, <3>2, <4>1, <4>3, <4>4
    <3> QED BY <3>1, <3>2
  <2> QED BY <2>1
<1> HIDE DEF S
<1>3. end \in S
  BY <1>1, <1>2, Induction
<1> QED BY <1>3 DEF S, StopsAt

-----------------------------------------------------------------------------
(* A length that is read within the buffer is a number.                    *)
LEMMA LengthTyped ==
  ASSUME NEW buf \in Seq(Byte), NEW pos \in Nat, NEW end \in Nat, end <= Len(buf), pos + 2 <= end
  PROVE  U16(buf, pos) \in Nat
<1>1. pos \in 0..(Len(buf) - 2)
  BY LenProperties
<1>2. U16(buf, pos) \in Uint16
  BY <1>1, U16Typed
<1> QED BY <1>2, Size16Range DEF Uint16

(* The walk over the extensions that ends at extEnd: an extension at p     *)
(* goes on to ExtTo, and it stops if that is too far or the type is 0.     *)
ExtTo(buf, p) == p + 4 + U16(buf, p + 2)
ExtOut(buf, extEnd, p) == p + 4 > extEnd \/ ExtTo(buf, p) > extEnd
ExtStop(buf, extEnd) == [p \in Nat |-> ExtOut(buf, extEnd, p) \/ U16(buf, p) = 0]
ExtVal(buf, extEnd) ==
  [p \in Nat |-> IF ExtOut(buf, extEnd, p) THEN <<>>
                 ELSE <<[from |-> p + 4, to |-> ExtTo(buf, p)]>>]
ExtNext(buf) == [p \in Nat |-> ExtTo(buf, p)]

(* Each step of it advances,                                               *)
LEMMA ExtensionsAdvance ==
  ASSUME NEW buf \in Seq(Byte), NEW extEnd \in Nat, extEnd <= Len(buf)
  PROVE  /\ Advances(ExtStop(buf, extEnd), ExtNext(buf), extEnd)
         /\ \A p \in Nat : p + 4 <= extEnd => ExtTo(buf, p) \in Nat /\ ExtTo(buf, p) >= p + 4
<1>1. ASSUME NEW p \in Nat, p + 4 <= extEnd
      PROVE  ExtTo(buf, p) \in Nat /\ ExtTo(buf, p) >= p + 4
  <2>1. PICK l : l = U16(buf, p + 2)
    OBVIOUS
  <2>2. l \in Nat
    <3>1. p + 2 \in Nat /\ (p + 2) + 2 <= extEnd
      BY <1>1
    <3> QED BY <2>1, <3>1, LengthTyped
  <2> QED BY <2>1, <2>2 DEF ExtTo
<1>2. ASSUME NEW p \in Nat, ~ExtStop(buf, extEnd)[p]
      PROVE  ExtNext(buf)[p] \in Nat /\ ExtNext(buf)[p] > p /\ p < extEnd
  <2>1. ~ExtOut(buf, extEnd, p) /\ ExtNext(buf)[p] = ExtTo(buf, p)
    BY <1>2 DEF ExtStop, ExtNext
  <2>2. p + 4 <= extEnd
    BY <2>1 DEF ExtOut
  <2>3. PICK t : t = ExtTo(buf, p)
    OBVIOUS
  <2>4. t \in Nat /\ t >= p + 4
    BY <1>1, <2>2, <2>3
  <2> QED BY <2>1, <2>2, <2>3, <2>4
<1> QED BY <1>1, <1>2 DEF Advances

(* and it is what ServerName does.                                         *)
LEMMA ServerNameWalks ==
  ASSUME NEW buf \in Seq(Byte), NEW extEnd \in Nat, extEnd <= Len(buf)
  PROVE  \E body : /\ Walk(body, ExtStop(buf, extEnd), ExtVal(buf, extEnd), ExtNext(buf))
                   /\ \A from : ServerName(buf, from, extEnd) = body[from]
<1> DEFINE stop == ExtStop(buf, extEnd)
           val  == ExtVal(buf, extEnd)
           next == ExtNext(buf)
           body == CHOOSE body : body = [pos \in Nat |->
                     LET t == pos + 4 + U16(buf, pos + 2) IN
                     IF pos + 4 > extEnd \/ t > extEnd THEN <<>>
                     ELSE IF U16(buf, pos) = 0 THEN <<[from |-> pos + 4, to |-> t]>>
                     ELSE body[t]]
<1>1. \A from : ServerName(buf, from, extEnd) = body[from]
  BY Zenon DEF ServerName
<1>2. \A p \in Nat : /\ stop[p] = (ExtOut(buf, extEnd, p) \/ U16(buf, p) = 0)
                     /\ val[p] = IF ExtOut(buf, extEnd, p) THEN <<>>
                                 ELSE <<[from |-> p + 4, to |-> ExtTo(buf, p)]>>
                     /\ next[p] = ExtTo(buf, p)
  BY DEF ExtStop, ExtVal, ExtNext
<1> HIDE DEF stop, val, next
<1>3. \A f : Walk(f, stop, val, next) <=>
               f = [pos \in Nat |->
                      LET t == pos + 4 + U16(buf, pos + 2) IN
                      IF pos + 4 > extEnd \/ t > extEnd THEN <<>>
                      ELSE IF U16(buf, pos) = 0 THEN <<[from |-> pos + 4, to |-> t]>>
                      ELSE f[t]]
  <2>1. ASSUME NEW f, NEW pos \in Nat
        PROVE  (IF stop[pos] THEN val[pos] ELSE f[next[pos]]) =
                 (IF ExtOut(buf, extEnd, pos) THEN <<>>
                  ELSE IF U16(buf, pos) = 0 THEN <<[from |-> pos + 4, to |-> ExtTo(buf, pos)]>>
                  ELSE f[ExtTo(buf, pos)])
    BY <1>2, Zenon
  <2>2. ASSUME NEW f
        PROVE  [pos \in Nat |-> IF stop[pos] THEN val[pos] ELSE f[next[pos]]] =
                 [pos \in Nat |->
                    IF ExtOut(buf, extEnd, pos) THEN <<>>
                    ELSE IF U16(buf, pos) = 0 THEN <<[from |-> pos + 4, to |-> ExtTo(buf, pos)]>>
                    ELSE f[ExtTo(buf, pos)]]
    BY <2>1, Zenon
  <2> QED BY <2>2, Zenon DEF Walk, ExtTo, ExtOut
<1>4. \E f : Walk(f, stop, val, next)
  BY ExtensionsAdvance, WalkExists DEF stop, next
<1>5. Walk(body, stop, val, next)
  BY <1>3, <1>4, Zenon
<1> HIDE DEF body
<1> QED BY <1>1, <1>5, Zenon DEF stop, val, next

(* The server_name extension that ServerName finds.                        *)
LEMMA ServerNameWithin ==
  ASSUME NEW buf \in Seq(Byte), NEW from \in Nat, NEW extEnd \in Nat, extEnd <= Len(buf),
         ServerName(buf, from, extEnd) # <<>>
  PROVE  \E ext : /\ ServerName(buf, from, extEnd) = <<ext>>
                  /\ ext.from \in Nat /\ ext.to \in Nat
                  /\ from <= ext.from /\ ext.from <= ext.to /\ ext.to <= extEnd
<1>1. PICK body : /\ Walk(body, ExtStop(buf, extEnd), ExtVal(buf, extEnd), ExtNext(buf))
                  /\ ServerName(buf, from, extEnd) = body[from]
  BY ServerNameWalks
<1>2. PICK q \in Nat : q >= from /\ ExtStop(buf, extEnd)[q] /\ body[from] = ExtVal(buf, extEnd)[q]
  <2>1. StopsAt(body, ExtStop(buf, extEnd), ExtVal(buf, extEnd), from)
    BY <1>1, ExtensionsAdvance, WalkEnds
  <2> QED BY <2>1, Zenon DEF StopsAt
<1>3. PICK t : t = ExtTo(buf, q)
  OBVIOUS
<1>4. ~ExtOut(buf, extEnd, q) /\ body[from] = <<[from |-> q + 4, to |-> t]>>
  BY <1>1, <1>2, <1>3 DEF ExtVal
<1>5. q + 4 \in Nat /\ t \in Nat /\ from <= q + 4 /\ q + 4 <= t /\ t <= extEnd
  <2>1. q + 4 <= extEnd /\ ~(t > extEnd)
    BY <1>3, <1>4 DEF ExtOut
  <2>2. t \in Nat /\ t >= q + 4
    BY <1>3, <2>1, ExtensionsAdvance
  <2> QED BY <1>2, <2>1, <2>2
<1>6. PICK ext : ext = [from |-> q + 4, to |-> t]
  OBVIOUS
<1>7. ext.from = q + 4 /\ ext.to = t
  BY <1>6
<1> QED BY <1>1, <1>4, <1>5, <1>6, <1>7, Zenon

-----------------------------------------------------------------------------
(* The walk over the names in the body of the extension.                   *)
ListEnd(buf, ext) ==
  LET list == ext.from + 2 + U16(buf, ext.from) IN IF list > ext.to THEN ext.to ELSE list
NameTo(buf, p) == p + 3 + U16(buf, p + 1)
NameOut(buf, listEnd, p) == p + 3 > listEnd \/ NameTo(buf, p) > listEnd
NameHit(buf, p) == At(buf, p) = 0 /\ NameTo(buf, p) > p + 3
NameStop(buf, listEnd) == [p \in Nat |-> NameOut(buf, listEnd, p) \/ NameHit(buf, p)]
NameVal(buf, listEnd) ==
  [p \in Nat |-> IF NameOut(buf, listEnd, p) THEN <<>>
                 ELSE <<[from |-> p + 3, to |-> NameTo(buf, p)]>>]
NameNext(buf) == [p \in Nat |-> NameTo(buf, p)]

(* Each step of it advances,                                               *)
LEMMA NamesAdvance ==
  ASSUME NEW buf \in Seq(Byte), NEW listEnd \in Nat, listEnd <= Len(buf)
  PROVE  /\ Advances(NameStop(buf, listEnd), NameNext(buf), listEnd)
         /\ \A p \in Nat : p + 3 <= listEnd => NameTo(buf, p) \in Nat /\ NameTo(buf, p) >= p + 3
<1>1. ASSUME NEW p \in Nat, p + 3 <= listEnd
      PROVE  NameTo(buf, p) \in Nat /\ NameTo(buf, p) >= p + 3
  <2>1. PICK l : l = U16(buf, p + 1)
    OBVIOUS
  <2>2. l \in Nat
    <3>1. p + 1 \in Nat /\ (p + 1) + 2 <= listEnd
      BY <1>1
    <3> QED BY <2>1, <3>1, LengthTyped
  <2> QED BY <2>1, <2>2 DEF NameTo
<1>2. ASSUME NEW p \in Nat, ~NameStop(buf, listEnd)[p]
      PROVE  NameNext(buf)[p] \in Nat /\ NameNext(buf)[p] > p /\ p < listEnd
  <2>1. ~NameOut(buf, listEnd, p) /\ NameNext(buf)[p] = NameTo(buf, p)
    BY <1>2 DEF NameStop, NameNext
  <2>2. p + 3 <= listEnd
    BY <2>1 DEF NameOut
  <2>3. PICK t : t = NameTo(buf, p)
    OBVIOUS
  <2>4. t \in Nat /\ t >= p + 3
    BY <1>1, <2>2, <2>3
  <2> QED BY <2>1, <2>2, <2>3, <2>4
<1> QED BY <1>1, <1>2 DEF Advances

(* the list ends within the extension,                                     *)
LEMMA ListEndTyped ==
  ASSUME NEW buf \in Seq(Byte), NEW ext, ext.from \in Nat, ext.to \in Nat, ext.to <= Len(buf),
         ext.from + 2 <= ext.to
  PROVE  ListEnd(buf, ext) \in Nat /\ ListEnd(buf, ext) <= ext.to
<1>1. PICK l \in Nat : l = U16(buf, ext.from)
  BY LengthTyped
<1> QED BY <1>1 DEF ListEnd

(* and the walk is what HostName does.                                     *)
LEMMA HostNameWalks ==
  ASSUME NEW buf \in Seq(Byte), NEW ext, ext.from \in Nat, ext.to \in Nat, ext.to <= Len(buf),
         ext.from + 2 <= ext.to, NEW listEnd, listEnd = ListEnd(buf, ext)
  PROVE  \E name : /\ Walk(name, NameStop(buf, listEnd), NameVal(buf, listEnd), NameNext(buf))
                   /\ HostName(buf, ext) = name[ext.from + 2]
<1> DEFINE list == ext.from + 2 + U16(buf, ext.from)
           end  == IF list > ext.to THEN ext.to ELSE list
           name == CHOOSE name : name = [pos \in Nat |->
                     LET from == pos + 3  to == from + U16(buf, pos + 1) IN
                     IF from > end \/ to > end THEN <<>>
                     ELSE IF At(buf, pos) = 0 /\ to > from THEN <<[from |-> from, to |-> to]>>
                     ELSE name[to]]
<1>1. HostName(buf, ext) = name[ext.from + 2]
  <2>1. HostName(buf, ext) = IF ext.from + 2 > ext.to THEN <<>> ELSE name[ext.from + 2]
    BY Zenon DEF HostName
  <2> HIDE DEF name
  <2> QED BY <2>1
<1>2. end = listEnd
  BY Zenon DEF ListEnd
<1>3. listEnd \in Nat /\ listEnd <= Len(buf)
  BY ListEndTyped, LenProperties
<1> DEFINE stop == NameStop(buf, listEnd)
           val  == NameVal(buf, listEnd)
           next == NameNext(buf)
<1>4. \A p \in Nat : /\ stop[p] = (NameOut(buf, listEnd, p) \/ NameHit(buf, p))
                     /\ val[p] = IF NameOut(buf, listEnd, p) THEN <<>>
                                 ELSE <<[from |-> p + 3, to |-> NameTo(buf, p)]>>
                     /\ next[p] = NameTo(buf, p)
  BY DEF NameStop, NameVal, NameNext
<1> HIDE DEF stop, val, next, end
<1>5. \A f : Walk(f, stop, val, next) <=>
               f = [pos \in Nat |->
                      LET from == pos + 3  to == from + U16(buf, pos + 1) IN
                      IF from > listEnd \/ to > listEnd THEN <<>>
                      ELSE IF At(buf, pos) = 0 /\ to > from THEN <<[from |-> from, to |-> to]>>
                      ELSE f[to]]
  <2>1. ASSUME NEW f, NEW pos \in Nat
        PROVE  (IF stop[pos] THEN val[pos] ELSE f[next[pos]]) =
                 (IF NameOut(buf, listEnd, pos) THEN <<>>
                  ELSE IF NameHit(buf, pos) THEN <<[from |-> pos + 3, to |-> NameTo(buf, pos)]>>
                  ELSE f[NameTo(buf, pos)])
    BY <1>4, Zenon
  <2>2. ASSUME NEW f
        PROVE  [pos \in Nat |-> IF stop[pos] THEN val[pos] ELSE f[next[pos]]] =
                 [pos \in Nat |->
                    IF NameOut(buf, listEnd, pos) THEN <<>>
                    ELSE IF NameHit(buf, pos) THEN <<[from |-> pos + 3, to |-> NameTo(buf, pos)]>>
                    ELSE f[NameTo(buf, pos)]]
    BY <2>1, Zenon
  <2> QED BY <2>2, Zenon DEF Walk, NameTo, NameOut, NameHit
<1>6. PICK g : Walk(g, stop, val, next)
  BY <1>3, NamesAdvance, WalkExists DEF stop, next
<1>7. Walk(name, stop, val, next)
  <2>1. PICK f : f = name
    OBVIOUS
  <2>2. g = [pos \in Nat |->
               LET from == pos + 3  to == from + U16(buf, pos + 1) IN
               IF from > listEnd \/ to > listEnd THEN <<>>
               ELSE IF At(buf, pos) = 0 /\ to > from THEN <<[from |-> from, to |-> to]>>
               ELSE g[to]]
    BY <1>5, <1>6, Zenon
  <2>3. g = [pos \in Nat |->
               LET from == pos + 3  to == from + U16(buf, pos + 1) IN
               IF from > end \/ to > end THEN <<>>
               ELSE IF At(buf, pos) = 0 /\ to > from THEN <<[from |-> from, to |-> to]>>
               ELSE g[to]]
    BY <1>2, <2>2
  <2>4. f = [pos \in Nat |->
               LET from == pos + 3  to == from + U16(buf, pos + 1) IN
               IF from > end \/ to > end THEN <<>>
               ELSE IF At(buf, pos) = 0 /\ to > from THEN <<[from |-> from, to |-> to]>>
               ELSE f[to]]
    BY <2>1, <2>3, Zenon
  <2> HIDE DEF name
  <2>5. Walk(f, stop, val, next)
    BY <1>2, <1>5, <2>4, Zenon
  <2> QED BY <2>1, <2>5
<1> HIDE DEF name
<1> QED BY <1>1, <1>7, Zenon DEF stop, val, next

(* The host name that HostName finds in it.                                *)
LEMMA HostNameWithin ==
  ASSUME NEW buf \in Seq(Byte), NEW ext, ext.from \in Nat, ext.to \in Nat, ext.to <= Len(buf),
         HostName(buf, ext) # <<>>
  PROVE  \E name : /\ HostName(buf, ext) = <<name>>
                   /\ name.from \in Nat /\ name.to \in Nat
                   /\ ext.from < name.from /\ name.from < name.to /\ name.to <= ext.to
<1>1. ext.from + 2 <= ext.to
  <2>1. ~(ext.from + 2 > ext.to)
    BY Zenon DEF HostName
  <2> QED BY <2>1
<1>2. PICK a \in Nat, b \in Nat, e \in Nat :
        a = ext.from /\ b = ext.to /\ e = ListEnd(buf, ext) /\ e <= b /\ e <= Len(buf)
  BY <1>1, ListEndTyped, LenProperties
<1>3. PICK walk : /\ Walk(walk, NameStop(buf, e), NameVal(buf, e), NameNext(buf))
                  /\ HostName(buf, ext) = walk[a + 2]
  BY <1>1, <1>2, HostNameWalks
<1>4. PICK q \in Nat : q >= a + 2 /\ NameStop(buf, e)[q] /\ walk[a + 2] = NameVal(buf, e)[q]
  <2>1. PICK start \in Nat : start = a + 2
    OBVIOUS
  <2>2. StopsAt(walk, NameStop(buf, e), NameVal(buf, e), start)
    BY <1>2, <1>3, NamesAdvance, WalkEnds
  <2> QED BY <2>1, <2>2, Zenon DEF StopsAt
<1>5. PICK t : t = NameTo(buf, q)
  OBVIOUS
<1>6. /\ ~NameOut(buf, e, q) /\ NameHit(buf, q) /\ walk[a + 2] = <<[from |-> q + 3, to |-> t]>>
  BY <1>3, <1>4, <1>5 DEF NameVal, NameStop
<1>7. q + 3 \in Nat /\ t \in Nat /\ a < q + 3 /\ q + 3 < t /\ t <= b
  <2>1. q + 3 <= e /\ ~(t > e) /\ t > q + 3
    BY <1>5, <1>6 DEF NameOut, NameHit
  <2>2. t \in Nat
    BY <1>2, <1>5, <2>1, NamesAdvance
  <2> QED BY <1>2, <1>4, <2>1, <2>2
<1>8. PICK n : n = [from |-> q + 3, to |-> t]
  OBVIOUS
<1>9. n.from = q + 3 /\ n.to = t
  BY <1>8
<1> QED BY <1>2, <1>3, <1>6, <1>7, <1>8, <1>9, Zenon

-----------------------------------------------------------------------------
(* The cursor: an offset within the buffer, or Failed.                     *)
Cursor(buf) == {p \in Nat : p <= Len(buf)} \cup {Failed}

(* Skip moves the cursor to another place in the buffer, or fails.         *)
LEMMA SkipTyped ==
  ASSUME NEW buf \in Seq(Byte), NEW pos \in Cursor(buf), NEW n \in Nat
  PROVE  Skip(buf, pos, n) \in Cursor(buf)
BY LenProperties DEF Skip, Cursor, Failed

(* So do the two that skip a vector with its length before it.             *)
LEMMA SkipVectorTyped ==
  ASSUME NEW buf \in Seq(Byte), NEW pos \in Cursor(buf)
  PROVE  SkipVector8(buf, pos) \in Cursor(buf) /\ SkipVector16(buf, pos) \in Cursor(buf)
<1>1. Len(buf) \in Nat
  BY LenProperties
<1>2. SkipVector8(buf, pos) \in Cursor(buf)
  <2>1. CASE Skip(buf, pos, 1) = Failed
    BY <2>1 DEF SkipVector8, Cursor
  <2>2. CASE Skip(buf, pos, 1) # Failed
    <3>1. pos \in Nat /\ pos + 1 <= Len(buf)
      BY <1>1, <2>2 DEF Skip, Cursor, Failed
    <3>2. At(buf, pos) \in Byte
      <4>1. pos \in 0..(Len(buf) - 1)
        BY <1>1, <3>1
      <4> QED BY <4>1, AtTyped
    <3>3. At(buf, pos) \in Nat /\ pos + 1 \in Cursor(buf)
      <4>1. 0..255 \subseteq Nat
        OBVIOUS
      <4>2. At(buf, pos) \in Nat
        BY <3>2, <4>1, Zenon DEF Byte
      <4> QED BY <3>1, <4>2 DEF Cursor
    <3> QED BY <2>2, <3>3, SkipTyped DEF SkipVector8
  <2> QED BY <2>1, <2>2
<1>3. SkipVector16(buf, pos) \in Cursor(buf)
  <2>1. CASE Skip(buf, pos, 2) = Failed
    BY <2>1 DEF SkipVector16, Cursor
  <2>2. CASE Skip(buf, pos, 2) # Failed
    <3>1. pos \in Nat /\ pos + 2 <= Len(buf)
      BY <1>1, <2>2 DEF Skip, Cursor, Failed
    <3>2. U16(buf, pos) \in Nat
      BY <1>1, <3>1, LengthTyped
    <3>3. pos + 2 \in Cursor(buf)
      BY <3>1 DEF Cursor
    <3> QED BY <2>2, <3>2, <3>3, SkipTyped DEF SkipVector16
  <2> QED BY <2>1, <2>2
<1> QED BY <1>2, <1>3

(* ParseClientHello returns no name or one of at least one byte that lies  *)
(* in the segment it was given, so that SNIOffset and SNILength never      *)
(* point outside the payload.                                              *)
THEOREM NameWithin ==
  ASSUME NEW buf \in Seq(Byte), ParseClientHello(buf) # <<>>
  PROVE  \E name : /\ ParseClientHello(buf) = <<name>>
                   /\ name.from \in Nat /\ name.to \in Nat
                   /\ name.from < name.to /\ name.to <= Len(buf)
<1>1. PICK exts, from, end, extEnd, ext :
        /\ exts = ExtensionsAt(buf) /\ from = exts + 2
        /\ end = from + U16(buf, exts) /\ extEnd = IF end > Len(buf) THEN Len(buf) ELSE end
        /\ ext = ServerName(buf, from, extEnd)
  OBVIOUS
<1>2. /\ ~(exts = Failed \/ from > Len(buf)) /\ ext # <<>>
      /\ ParseClientHello(buf) = HostName(buf, ext[1])
  BY <1>1, Zenon DEF ParseClientHello
<1>3. exts \in Nat /\ from \in Nat /\ from <= Len(buf) /\ Len(buf) \in Nat
  <2>1. 0 \in Cursor(buf) /\ RecordHeaderLen \in Cursor(buf)
    BY <1>2, LenProperties DEF Cursor, ParseClientHello, MinRecord, RecordHeaderLen,
       HandshakeHeaderLen, RandomLen
  <2>2. ExtensionsAt(buf) \in Cursor(buf)
    <3>1. 2 + RandomLen \in Nat /\ HandshakeHeaderLen \in Nat
      BY DEF RandomLen, HandshakeHeaderLen
    <3> QED BY <2>1, <3>1, SkipTyped, SkipVectorTyped DEF ExtensionsAt
  <2>3. exts \in Nat /\ from = exts + 2 /\ ~(from > Len(buf)) /\ Len(buf) \in Nat
    BY <1>1, <1>2, <2>2, LenProperties DEF Cursor
  <2> QED BY <2>3
<1>4. extEnd \in Nat /\ extEnd <= Len(buf)
  <2>1. PICK l \in Nat : l = U16(buf, exts)
    BY <1>1, <1>3, LengthTyped
  <2>2. end = from + l /\ extEnd = IF end > Len(buf) THEN Len(buf) ELSE end
    BY <1>1, <2>1
  <2> QED BY <1>3, <2>1, <2>2
<1>5. PICK e : /\ ext = <<e>> /\ e.from \in Nat /\ e.to \in Nat /\ e.to <= extEnd
  BY <1>1, <1>2, <1>3, <1>4, ServerNameWithin
<1>6. ext[1] = e /\ e.to <= Len(buf)
  BY <1>3, <1>4, <1>5
<1>7. HostName(buf, e) # <<>> /\ ParseClientHello(buf) = HostName(buf, e)
  BY <1>2, <1>6
<1>8. PICK name : /\ HostName(buf, e) = <<name>> /\ name.from \in Nat /\ name.to \in Nat
                  /\ name.from < name.to /\ name.to <= e.to
  BY <1>5, <1>6, <1>7, HostNameWithin
<1>9. name.to <= Len(buf)
  BY <1>3, <1>5, <1>6, <1>8
<1> QED BY <1>7, <1>8, <1>9


-----------------------------------------------------------------------------
(* What is read from a slice that was put together from two.               *)
LEMMA AtConcat ==
  ASSUME NEW x, NEW y, NEW m \in Nat, NEW n \in Nat, Slice(x, m), Slice(y, n)
  PROVE  /\ Slice(x \o y, m + n)
         /\ \A i \in 0..(m - 1) : At(x \o y, i) = At(x, i)
         /\ \A i \in 0..(n - 1) : At(x \o y, m + i) = At(y, i)
<1>1. PICK xy : xy = x \o y
  OBVIOUS
<1>2. /\ x \in Seq(Byte) /\ y \in Seq(Byte) /\ Len(x) = m /\ Len(y) = n
      /\ \A i \in 1..m : xy[i] = x[i]
      /\ \A i \in 1..n : xy[m + i] = y[i]
  BY <1>1, ConcatBytes DEF Slice
<1>3. ASSUME NEW i \in 0..(m - 1)
      PROVE  At(xy, i) = At(x, i)
  <2>1. i + 1 \in 1..m
    OBVIOUS
  <2> QED BY <1>2, <2>1 DEF At
<1>4. ASSUME NEW i \in 0..(n - 1)
      PROVE  At(xy, m + i) = At(y, i)
  <2>1. i + 1 \in 1..n /\ m + (i + 1) = (m + i) + 1
    OBVIOUS
  <2>2. xy[m + (i + 1)] = y[i + 1]
    BY <1>2, <2>1
  <2> QED BY <2>1, <2>2 DEF At
<1> QED BY <1>1, <1>3, <1>4, SliceConcat

(* One byte before a slice,                                                *)
LEMMA Vector8Parts ==
  ASSUME NEW b \in Seq(Byte), Len(b) \in Byte, NEW n \in Nat, n = Len(b)
  PROVE  /\ Slice(Vector8(b), 1 + n) /\ At(Vector8(b), 0) = n
         /\ \A i \in 0..(n - 1) : At(Vector8(b), 1 + i) = At(b, i)
<1>1. PICK w : w = <<Len(b)>>
  OBVIOUS
<1>2. Slice(w, 1) /\ At(w, 0) = n
  BY <1>1 DEF Slice, At
<1>3. Slice(b, n)
  BY DEF Slice
<1>4. Vector8(b) = w \o b
  BY <1>1 DEF Vector8
<1>5. /\ Slice(w \o b, 1 + n) /\ \A i \in 0..(1 - 1) : At(w \o b, i) = At(w, i)
      /\ \A i \in 0..(n - 1) : At(w \o b, 1 + i) = At(b, i)
  BY <1>2, <1>3, AtConcat
<1>6. At(w \o b, 0) = At(w, 0)
  <2>1. 0 \in 0..(1 - 1)
    OBVIOUS
  <2> QED BY <1>5, <2>1
<1> QED BY <1>2, <1>4, <1>5, <1>6

(* or two bytes.                                                           *)
LEMMA Vector16Parts ==
  ASSUME NEW b \in Seq(Byte), NEW n \in Nat, n = Len(b)
  PROVE  /\ Slice(Vector16(b), 2 + n)
         /\ At(Vector16(b), 0) = At(Bytes16(n), 0) /\ At(Vector16(b), 1) = At(Bytes16(n), 1)
         /\ \A i \in 0..(n - 1) : At(Vector16(b), 2 + i) = At(b, i)
<1>1. PICK w : w = Bytes16(n)
  OBVIOUS
<1>2. Slice(w, 2) /\ Slice(b, n)
  BY <1>1, BytesTyped DEF Slice
<1>4. Vector16(b) = w \o b
  BY <1>1 DEF Vector16
<1>5. /\ Slice(w \o b, 2 + n) /\ \A i \in 0..(2 - 1) : At(w \o b, i) = At(w, i)
      /\ \A i \in 0..(n - 1) : At(w \o b, 2 + i) = At(b, i)
  BY <1>2, AtConcat
<1>6. At(w \o b, 0) = At(w, 0) /\ At(w \o b, 1) = At(w, 1)
  <2>1. 0 \in 0..(2 - 1) /\ 1 \in 0..(2 - 1)
    OBVIOUS
  <2> QED BY <1>5, <2>1
<1> QED BY <1>1, <1>4, <1>5, <1>6

-----------------------------------------------------------------------------
(* Where things are in a message.                                          *)
Layout(m, ls, lc, exts, n) ==
  /\ Slice(m, 50 + ls + lc + n)
  /\ At(m, 0) = 22 /\ At(m, 5) = 1
  /\ At(m, 43) = ls /\ U16(m, 44 + ls) = lc /\ At(m, 46 + ls + lc) = 1
  /\ U16(m, 48 + ls + lc) = n
  /\ \A i \in 0..(n - 1) : At(m, 50 + ls + lc + i) = At(exts, i)

(* What BuildClientHello writes is laid out so.                            *)
LEMMA MessageLayout ==
  ASSUME NEW session \in Seq(Byte), NEW suites \in Seq(Byte), NEW exts \in Seq(Byte),
         Len(session) \in Byte, Len(suites) \in Uint16, Len(exts) \in Uint16
  PROVE  Layout(Message(session, suites, exts), Len(session), Len(suites), exts, Len(exts))
<1>1. PICK ls \in Nat, lc \in Nat, n \in Nat :
        ls = Len(session) /\ lc = Len(suites) /\ n = Len(exts)
  BY LenProperties
<1>2. PICK v, z, s, c, o, e : /\ v = <<3, 3>> /\ z = Zeros(RandomLen) /\ s = Vector8(session)
                              /\ c = Vector16(suites) /\ o = Vector8(<<0>>) /\ e = Vector16(exts)
  OBVIOUS
<1>3. PICK v1, v2, v3, v4, v5 : /\ v1 = v \o z /\ v2 = v1 \o s /\ v3 = v2 \o c
                                /\ v4 = v3 \o o /\ v5 = v4 \o e
  OBVIOUS
<1>4. PICK t, b, h : t = <<1, 0>> /\ b = Vector16(v5) /\ h = t \o b
  OBVIOUS
<1>5. PICK r, g, m : r = <<22, 3, 1>> /\ g = Vector16(h) /\ m = r \o g
  OBVIOUS
<1>6. Message(session, suites, exts) = m
  BY <1>2, <1>3, <1>4, <1>5, Zenon DEF Message
<1>7. Slice(v1, 34)
  <2>1. Slice(v, 2)
    <3>1. 3 \in Byte
      BY DEF Byte
    <3> QED BY <1>2, <3>1, BytesTyped DEF Slice
  <2>2. Slice(z, 32)
    BY <1>2, BytesTyped DEF Slice, RandomLen
  <2>3. Slice(v \o z, 2 + 32)
    BY <2>1, <2>2, SliceConcat
  <2> QED BY <1>3, <2>3
<1>8. Slice(v2, 35 + ls) /\ At(v2, 34) = ls
  <2>1. Slice(s, 1 + ls) /\ At(s, 0) = ls
    BY <1>1, <1>2, Vector8Parts
  <2>2. Slice(v2, 34 + (1 + ls)) /\ \A i \in 0..((1 + ls) - 1) : At(v2, 34 + i) = At(s, i)
    BY <1>3, <1>7, <2>1, AtConcat
  <2>3. 34 + (1 + ls) = 35 + ls /\ 0 \in 0..((1 + ls) - 1) /\ 34 + 0 = 34
    OBVIOUS
  <2> QED BY <2>1, <2>2, <2>3
<1>9. /\ Slice(v3, 37 + ls + lc) /\ At(v3, 34) = ls
      /\ At(v3, 35 + ls) = At(Bytes16(lc), 0) /\ At(v3, 36 + ls) = At(Bytes16(lc), 1)
  <2>1. Slice(c, 2 + lc) /\ At(c, 0) = At(Bytes16(lc), 0) /\ At(c, 1) = At(Bytes16(lc), 1)
    BY <1>1, <1>2, Vector16Parts
  <2>2. /\ Slice(v3, (35 + ls) + (2 + lc))
        /\ \A i \in 0..((35 + ls) - 1) : At(v3, i) = At(v2, i)
        /\ \A i \in 0..((2 + lc) - 1) : At(v3, (35 + ls) + i) = At(c, i)
    <3>1. PICK k \in Nat, l \in Nat : k = 35 + ls /\ l = 2 + lc
      OBVIOUS
    <3>2. Slice(v2, k) /\ Slice(c, l) /\ v3 = v2 \o c
      BY <1>3, <1>8, <2>1, <3>1
    <3>3. /\ Slice(v2 \o c, k + l) /\ \A i \in 0..(k - 1) : At(v2 \o c, i) = At(v2, i)
          /\ \A i \in 0..(l - 1) : At(v2 \o c, k + i) = At(c, i)
      BY <3>2, AtConcat
    <3> QED BY <3>1, <3>2, <3>3
  <2>3. /\ (35 + ls) + (2 + lc) = 37 + ls + lc /\ 34 \in 0..((35 + ls) - 1)
        /\ 0 \in 0..((2 + lc) - 1) /\ 1 \in 0..((2 + lc) - 1)
        /\ (35 + ls) + 0 = 35 + ls /\ (35 + ls) + 1 = 36 + ls
    OBVIOUS
  <2> QED BY <1>8, <2>1, <2>2, <2>3
<1>10. /\ Slice(v4, 39 + ls + lc) /\ At(v4, 34) = ls
       /\ At(v4, 35 + ls) = At(Bytes16(lc), 0) /\ At(v4, 36 + ls) = At(Bytes16(lc), 1)
       /\ At(v4, 37 + ls + lc) = 1
  <2>1. Slice(o, 2) /\ At(o, 0) = 1
    <3>1. PICK w : w = <<0>>
      OBVIOUS
    <3>2. w \in Seq(Byte) /\ Len(w) = 1 /\ 1 \in Byte
      BY <3>1 DEF Byte
    <3>3. Slice(Vector8(w), 1 + 1) /\ At(Vector8(w), 0) = 1
      BY <3>2, Vector8Parts
    <3> QED BY <1>2, <3>1, <3>3
  <2>2. /\ Slice(v4, (37 + ls + lc) + 2)
        /\ \A i \in 0..((37 + ls + lc) - 1) : At(v4, i) = At(v3, i)
        /\ \A i \in 0..(2 - 1) : At(v4, (37 + ls + lc) + i) = At(o, i)
    BY <1>3, <1>9, <2>1, AtConcat, SMTT(30)
  <2>3. /\ (37 + ls + lc) + 2 = 39 + ls + lc
        /\ \A i \in {34, 35 + ls, 36 + ls} : i \in 0..((37 + ls + lc) - 1)
        /\ 0 \in 0..(2 - 1) /\ (37 + ls + lc) + 0 = 37 + ls + lc
    OBVIOUS
  <2> QED BY <1>9, <2>1, <2>2, <2>3
<1>11. /\ Slice(v5, 41 + ls + lc + n) /\ At(v5, 34) = ls
       /\ At(v5, 35 + ls) = At(Bytes16(lc), 0) /\ At(v5, 36 + ls) = At(Bytes16(lc), 1)
       /\ At(v5, 37 + ls + lc) = 1
       /\ At(v5, 39 + ls + lc) = At(Bytes16(n), 0) /\ At(v5, 40 + ls + lc) = At(Bytes16(n), 1)
       /\ \A i \in 0..(n - 1) : At(v5, 41 + ls + lc + i) = At(exts, i)
  <2>1. /\ Slice(e, 2 + n) /\ At(e, 0) = At(Bytes16(n), 0) /\ At(e, 1) = At(Bytes16(n), 1)
        /\ \A i \in 0..(n - 1) : At(e, 2 + i) = At(exts, i)
    BY <1>1, <1>2, Vector16Parts
  <2>2. PICK k \in Nat : k = 39 + ls + lc
    OBVIOUS
  <2>3. /\ Slice(v5, k + (2 + n))
        /\ \A i \in 0..(k - 1) : At(v5, i) = At(v4, i)
        /\ \A i \in 0..((2 + n) - 1) : At(v5, k + i) = At(e, i)
    <3>1. PICK l \in Nat : l = 2 + n
      OBVIOUS
    <3>2. Slice(v4, k) /\ Slice(e, l) /\ v5 = v4 \o e
      BY <1>3, <1>10, <2>1, <2>2, <3>1
    <3>3. /\ Slice(v4 \o e, k + l) /\ \A i \in 0..(k - 1) : At(v4 \o e, i) = At(v4, i)
          /\ \A i \in 0..(l - 1) : At(v4 \o e, k + i) = At(e, i)
      BY <3>2, AtConcat
    <3> QED BY <3>1, <3>2, <3>3
  <2>4. /\ k + (2 + n) = 41 + ls + lc + n
        /\ \A i \in {34, 35 + ls, 36 + ls, 37 + ls + lc} : i \in 0..(k - 1)
        /\ 0 \in 0..((2 + n) - 1) /\ 1 \in 0..((2 + n) - 1)
        /\ k + 0 = 39 + ls + lc /\ k + 1 = 40 + ls + lc
    BY <2>2
  <2>5. ASSUME NEW i \in 0..(n - 1)
        PROVE  At(v5, 41 + ls + lc + i) = At(exts, i)
    <3>1. 2 + i \in 0..((2 + n) - 1) /\ k + (2 + i) = 41 + ls + lc + i
      BY <2>2
    <3> QED BY <2>1, <2>3, <3>1
  <2> QED BY <1>10, <2>1, <2>3, <2>4, <2>5
<1>12. PICK j \in Nat : j = 41 + ls + lc + n
  OBVIOUS
<1>13. /\ Slice(h, 4 + j) /\ At(h, 0) = 1
       /\ \A i \in 0..(j - 1) : At(h, 4 + i) = At(v5, i)
  <2>1. Slice(t, 2) /\ At(t, 0) = 1
    <3>1. 1 \in Byte /\ 0 \in Byte
      BY DEF Byte
    <3> QED BY <1>4, <3>1, BytesTyped DEF Slice, At
  <2>2. Slice(b, 2 + j) /\ \A i \in 0..(j - 1) : At(b, 2 + i) = At(v5, i)
    <3>1. v5 \in Seq(Byte) /\ j = Len(v5)
      BY <1>11, <1>12 DEF Slice
    <3> QED BY <1>4, <3>1, Vector16Parts
  <2>3. /\ Slice(h, 2 + (2 + j)) /\ \A i \in 0..(2 - 1) : At(h, i) = At(t, i)
        /\ \A i \in 0..((2 + j) - 1) : At(h, 2 + i) = At(b, i)
    BY <1>4, <2>1, <2>2, AtConcat
  <2>4. 0 \in 0..(2 - 1) /\ 2 + (2 + j) = 4 + j
    OBVIOUS
  <2>5. ASSUME NEW i \in 0..(j - 1)
        PROVE  At(h, 4 + i) = At(v5, i)
    <3>1. 2 + i \in 0..((2 + j) - 1) /\ 2 + (2 + i) = 4 + i
      OBVIOUS
    <3> QED BY <2>2, <2>3, <3>1
  <2> QED BY <2>1, <2>3, <2>4, <2>5
<1>14. /\ Slice(m, 9 + j) /\ At(m, 0) = 22 /\ At(m, 5) = 1
       /\ \A i \in 0..(j - 1) : At(m, 9 + i) = At(v5, i)
  <2>1. Slice(r, 3) /\ At(r, 0) = 22
    <3>1. 22 \in Byte /\ 3 \in Byte /\ 1 \in Byte
      BY DEF Byte
    <3> QED BY <1>5, <3>1 DEF Slice, At
  <2>2. Slice(g, 2 + (4 + j)) /\ \A i \in 0..((4 + j) - 1) : At(g, 2 + i) = At(h, i)
    <3>1. h \in Seq(Byte) /\ 4 + j = Len(h) /\ 4 + j \in Nat
      BY <1>13 DEF Slice
    <3> QED BY <1>5, <3>1, Vector16Parts
  <2>3. /\ Slice(m, 3 + (2 + (4 + j))) /\ \A i \in 0..(3 - 1) : At(m, i) = At(r, i)
        /\ \A i \in 0..((2 + (4 + j)) - 1) : At(m, 3 + i) = At(g, i)
    BY <1>5, <2>1, <2>2, AtConcat
  <2>4. 0 \in 0..(3 - 1) /\ 3 + (2 + (4 + j)) = 9 + j
    OBVIOUS
  <2>5. ASSUME NEW i \in 0..((4 + j) - 1)
        PROVE  At(m, 5 + i) = At(h, i)
    <3>1. 2 + i \in 0..((2 + (4 + j)) - 1) /\ 3 + (2 + i) = 5 + i
      OBVIOUS
    <3> QED BY <2>2, <2>3, <3>1
  <2>6. At(m, 5) = At(h, 0)
    <3>1. 0 \in 0..((4 + j) - 1) /\ 5 + 0 = 5
      OBVIOUS
    <3> QED BY <2>5, <3>1
  <2>7. ASSUME NEW i \in 0..(j - 1)
        PROVE  At(m, 9 + i) = At(v5, i)
    <3>1. 4 + i \in 0..((4 + j) - 1) /\ 5 + (4 + i) = 9 + i
      OBVIOUS
    <3>2. At(m, 5 + (4 + i)) = At(h, 4 + i)
      BY <2>5, <3>1
    <3> QED BY <1>13, <3>1, <3>2
  <2> QED BY <1>13, <2>1, <2>3, <2>4, <2>6, <2>7
<1>15. /\ 9 + j = 50 + ls + lc + n
       /\ \A i \in {34, 35 + ls, 36 + ls, 37 + ls + lc, 39 + ls + lc, 40 + ls + lc} : i \in 0..(j - 1)
       /\ 9 + 34 = 43 /\ 9 + (35 + ls) = 44 + ls /\ 9 + (36 + ls) = (44 + ls) + 1
       /\ 9 + (37 + ls + lc) = 46 + ls + lc /\ 9 + (39 + ls + lc) = 48 + ls + lc
       /\ 9 + (40 + ls + lc) = (48 + ls + lc) + 1
  BY <1>12
<1>16. /\ At(m, 43) = ls /\ At(m, 46 + ls + lc) = 1
       /\ At(m, 44 + ls) = At(Bytes16(lc), 0) /\ At(m, (44 + ls) + 1) = At(Bytes16(lc), 1)
       /\ At(m, 48 + ls + lc) = At(Bytes16(n), 0) /\ At(m, (48 + ls + lc) + 1) = At(Bytes16(n), 1)
  BY <1>11, <1>14, <1>15
<1>17. U16(m, 44 + ls) = lc /\ U16(m, 48 + ls + lc) = n
  <2>1. m \in Seq(Byte) /\ 44 + ls \in Nat /\ 48 + ls + lc \in Nat /\ lc \in Uint16 /\ n \in Uint16
    BY <1>1, <1>14 DEF Slice
  <2> QED BY <1>16, <2>1, ReadWritten
<1>18. ASSUME NEW i \in 0..(n - 1)
       PROVE  At(m, 50 + ls + lc + i) = At(exts, i)
  <2>1. 41 + ls + lc + i \in 0..(j - 1) /\ 9 + (41 + ls + lc + i) = 50 + ls + lc + i
    BY <1>12
  <2>2. At(m, 9 + (41 + ls + lc + i)) = At(v5, 41 + ls + lc + i)
    BY <1>14, <2>1
  <2> QED BY <1>11, <2>1, <2>2
<1>19. Layout(m, ls, lc, exts, n)
  BY <1>14, <1>15, <1>16, <1>17, <1>18 DEF Layout
<1> QED BY <1>1, <1>6, <1>19

(* A message with other versions and other random bytes: its numbers are   *)
(* where they were.                                                        *)
Like(m, m0) ==
  /\ m \in Seq(Byte) /\ Len(m) = Len(m0)
  /\ \A i \in 0..(Len(m0) - 1) : i \notin {1, 2} \cup (9..42) => At(m, i) = At(m0, i)

(* So is a message that is like one that is laid out so.                   *)
LEMMA LikeLayout ==
  ASSUME NEW m0, NEW ls \in Nat, NEW lc \in Nat, NEW exts, NEW n \in Nat,
         Layout(m0, ls, lc, exts, n), NEW m, Like(m, m0)
  PROVE  Layout(m, ls, lc, exts, n)
<1>1. PICK k \in Nat : k = 50 + ls + lc + n
  OBVIOUS
<1>2. Len(m0) = k /\ Slice(m, k)
  BY <1>1 DEF Layout, Like, Slice
<1>3. \A i \in 0..(k - 1) : i = 0 \/ (3 <= i /\ i < 9) \/ 42 < i => At(m, i) = At(m0, i)
  <2>1. \A i \in 0..(k - 1) : i = 0 \/ (3 <= i /\ i < 9) \/ 42 < i => i \notin {1, 2} \cup (9..42)
    OBVIOUS
  <2> QED BY <1>2, <2>1 DEF Like
<1>4. \A i \in {0, 5, 43, 44 + ls, (44 + ls) + 1, 46 + ls + lc, 48 + ls + lc, (48 + ls + lc) + 1} :
        i \in 0..(k - 1) /\ (i = 0 \/ (3 <= i /\ i < 9) \/ 42 < i)
  BY <1>1
<1>5. /\ At(m, 0) = At(m0, 0) /\ At(m, 5) = At(m0, 5) /\ At(m, 43) = At(m0, 43)
      /\ At(m, 46 + ls + lc) = At(m0, 46 + ls + lc)
      /\ At(m, 44 + ls) = At(m0, 44 + ls) /\ At(m, (44 + ls) + 1) = At(m0, (44 + ls) + 1)
      /\ At(m, 48 + ls + lc) = At(m0, 48 + ls + lc)
      /\ At(m, (48 + ls + lc) + 1) = At(m0, (48 + ls + lc) + 1)
  BY <1>3, <1>4
<1>6. U16(m, 44 + ls) = U16(m0, 44 + ls) /\ U16(m, 48 + ls + lc) = U16(m0, 48 + ls + lc)
  BY <1>5, Zenon DEF U16
<1>7. ASSUME NEW i \in 0..(n - 1)
      PROVE  At(m, 50 + ls + lc + i) = At(exts, i)
  <2>1. 50 + ls + lc + i \in 0..(k - 1) /\ 42 < 50 + ls + lc + i
    BY <1>1
  <2>2. At(m, 50 + ls + lc + i) = At(m0, 50 + ls + lc + i)
    BY <1>3, <2>1
  <2> QED BY <2>2 DEF Layout
<1> QED BY <1>1, <1>2, <1>5, <1>6, <1>7 DEF Layout

-----------------------------------------------------------------------------
(* One step of the walk over the extensions.                               *)
LEMMA ServerNameStep ==
  ASSUME NEW buf \in Seq(Byte), NEW extEnd \in Nat, extEnd <= Len(buf), NEW p \in Nat
  PROVE  ServerName(buf, p, extEnd) =
           IF ExtOut(buf, extEnd, p) THEN <<>>
           ELSE IF U16(buf, p) = 0 THEN <<[from |-> p + 4, to |-> ExtTo(buf, p)]>>
           ELSE ServerName(buf, ExtTo(buf, p), extEnd)
<1>1. PICK body : /\ Walk(body, ExtStop(buf, extEnd), ExtVal(buf, extEnd), ExtNext(buf))
                  /\ \A q : ServerName(buf, q, extEnd) = body[q]
  BY ServerNameWalks
<1>2. body[p] = IF ExtStop(buf, extEnd)[p] THEN ExtVal(buf, extEnd)[p]
                ELSE body[ExtNext(buf)[p]]
  BY <1>1, Zenon DEF Walk
<1>3. /\ ExtStop(buf, extEnd)[p] = (ExtOut(buf, extEnd, p) \/ U16(buf, p) = 0)
      /\ ExtNext(buf)[p] = ExtTo(buf, p)
      /\ ExtVal(buf, extEnd)[p] = IF ExtOut(buf, extEnd, p) THEN <<>>
                                  ELSE <<[from |-> p + 4, to |-> ExtTo(buf, p)]>>
  BY DEF ExtStop, ExtVal, ExtNext
<1> QED BY <1>1, <1>2, <1>3, Zenon

(* The walk over the names ends at the first one if that is a host name    *)
(* and all there is.                                                       *)
LEMMA HostNameFirst ==
  ASSUME NEW buf \in Seq(Byte), NEW from \in Nat, NEW to \in Nat, to <= Len(buf), from + 5 < to,
         U16(buf, from) = to - (from + 2), At(buf, from + 2) = 0,
         U16(buf, from + 3) = to - (from + 5)
  PROVE  HostName(buf, [from |-> from, to |-> to]) = <<[from |-> from + 5, to |-> to]>>
<1>1. PICK ext : ext = [from |-> from, to |-> to]
  OBVIOUS
<1>2. ext.from = from /\ ext.to = to /\ from + 2 <= to
  BY <1>1
<1>3. ListEnd(buf, ext) = to
  <2>1. PICK l : l = U16(buf, from)
    OBVIOUS
  <2>2. from + 2 + l = to
    BY <2>1
  <2> QED BY <1>2, <2>1, <2>2 DEF ListEnd
<1>4. PICK walk : /\ Walk(walk, NameStop(buf, to), NameVal(buf, to), NameNext(buf))
                  /\ HostName(buf, ext) = walk[from + 2]
  BY <1>2, <1>3, HostNameWalks
<1>5. PICK p \in Nat : p = from + 2 /\ p + 1 = from + 3 /\ p + 3 = from + 5
  OBVIOUS
<1>6. NameTo(buf, p) = to
  <2>1. PICK l : l = U16(buf, from + 3)
    OBVIOUS
  <2>2. (from + 5) + l = to
    BY <2>1
  <2> QED BY <1>5, <2>1, <2>2 DEF NameTo
<1>7. ~NameOut(buf, to, p) /\ NameHit(buf, p)
  BY <1>5, <1>6 DEF NameOut, NameHit
<1>8. walk[p] = NameVal(buf, to)[p]
  <2>1. NameStop(buf, to)[p]
    BY <1>7 DEF NameStop
  <2>2. walk[p] = IF NameStop(buf, to)[p] THEN NameVal(buf, to)[p] ELSE walk[NameNext(buf)[p]]
    BY <1>4, Zenon DEF Walk
  <2> QED BY <2>1, <2>2
<1>9. NameVal(buf, to)[p] = <<[from |-> p + 3, to |-> to]>>
  BY <1>6, <1>7 DEF NameVal
<1> QED BY <1>1, <1>4, <1>5, <1>8, <1>9

-----------------------------------------------------------------------------
(* A first part of a slice.                                                *)
Prefix(buf, m) ==
  /\ buf \in Seq(Byte) /\ m \in Seq(Byte) /\ Len(buf) <= Len(m)
  /\ \A i \in 0..(Len(buf) - 1) : At(buf, i) = At(m, i)

(* A 16-bit number is read as long as it is in the part.                   *)
LEMMA PrefixRead ==
  ASSUME NEW buf, NEW m, Prefix(buf, m), NEW i \in Nat
  PROVE  /\ i < Len(buf) => At(buf, i) = At(m, i)
         /\ i + 1 < Len(buf) => U16(buf, i) = U16(m, i)
<1>1. Len(buf) \in Nat
  BY LenProperties DEF Prefix
<1>2. i < Len(buf) => At(buf, i) = At(m, i)
  <2>1. i < Len(buf) => i \in 0..(Len(buf) - 1)
    BY <1>1
  <2> QED BY <2>1 DEF Prefix
<1>3. i + 1 < Len(buf) => At(buf, i) = At(m, i) /\ At(buf, i + 1) = At(m, i + 1)
  <2>1. i + 1 < Len(buf) => i \in 0..(Len(buf) - 1) /\ i + 1 \in 0..(Len(buf) - 1)
    BY <1>1
  <2> QED BY <2>1 DEF Prefix
<1>4. i + 1 < Len(buf) => U16(buf, i) = U16(m, i)
  BY <1>3, Zenon DEF U16
<1> QED BY <1>2, <1>4

(* The walk has ended without a name, or goes on from p.                   *)
Reached(buf, extEnd, p) == IF p > extEnd THEN <<>> ELSE ServerName(buf, p, extEnd)

(* It passes an extension of another type.                                 *)
LEMMA OtherPassed ==
  ASSUME NEW buf \in Seq(Byte), NEW extEnd \in Nat, extEnd <= Len(buf), NEW from \in Nat,
         NEW b \in Seq(Byte), NEW o \in Nat, o + 4 <= Len(b), U16(b, o) # 0,
         \A i \in 0..(Len(b) - 1) : from + i < Len(buf) => At(buf, from + i) = At(b, i)
  PROVE  /\ o + 4 + U16(b, o + 2) \in Nat
         /\ Reached(buf, extEnd, from + o) = Reached(buf, extEnd, from + (o + 4 + U16(b, o + 2)))
<1>0. Len(buf) \in Nat /\ Len(b) \in Nat
  BY LenProperties
<1>1. PICK l \in Nat : l = U16(b, o + 2)
  <2>1. o + 2 \in Nat /\ (o + 2) + 2 <= Len(b)
    BY <1>0
  <2> QED BY <1>0, <2>1, LengthTyped
<1>2. PICK p \in Nat : p = from + o
  OBVIOUS
<1>3. PICK q \in Nat : q = p + 4 + l /\ q = from + (o + 4 + l) /\ o + 4 + l \in Nat
  BY <1>2
<1>4. Reached(buf, extEnd, p) = Reached(buf, extEnd, q)
  <2>1. CASE p + 4 > extEnd
    <3>1. ExtOut(buf, extEnd, p) /\ q > extEnd
      BY <1>3, <2>1 DEF ExtOut
    <3>2. ServerName(buf, p, extEnd) = <<>>
      BY <3>1, ServerNameStep
    <3> QED BY <3>1, <3>2 DEF Reached
  <2>2. CASE ~(p + 4 > extEnd)
    <3>1. U16(buf, p) = U16(b, o) /\ U16(buf, p + 2) = l
      <4>1. \A j \in 0..3 : o + j \in 0..(Len(b) - 1) /\ from + (o + j) < Len(buf)
        BY <1>0, <1>2, <2>2
      <4>2. \A j \in 0..3 : At(buf, from + (o + j)) = At(b, o + j)
        BY <4>1
      <4>3. /\ from + (o + 0) = p /\ from + (o + 1) = p + 1 /\ from + (o + 2) = p + 2
            /\ from + (o + 3) = (p + 2) + 1 /\ o + 0 = o /\ o + 3 = (o + 2) + 1
            /\ 0 \in 0..3 /\ 1 \in 0..3 /\ 2 \in 0..3 /\ 3 \in 0..3
        BY <1>2
      <4>4. /\ At(buf, p) = At(b, o) /\ At(buf, p + 1) = At(b, o + 1)
            /\ At(buf, p + 2) = At(b, o + 2) /\ At(buf, (p + 2) + 1) = At(b, (o + 2) + 1)
        BY <4>2, <4>3
      <4> QED BY <1>1, <4>4, Zenon DEF U16
    <3>2. ExtTo(buf, p) = q
      BY <1>3, <3>1 DEF ExtTo
    <3>3. CASE q > extEnd
      <4>1. ExtOut(buf, extEnd, p)
        BY <3>2, <3>3 DEF ExtOut
      <4>2. ServerName(buf, p, extEnd) = <<>>
        BY <4>1, ServerNameStep
      <4> QED BY <3>3, <4>2 DEF Reached
    <3>4. CASE ~(q > extEnd)
      <4>1. ~ExtOut(buf, extEnd, p) /\ U16(buf, p) # 0
        BY <2>2, <3>1, <3>2, <3>4 DEF ExtOut
      <4>2. ServerName(buf, p, extEnd) = ServerName(buf, q, extEnd)
        BY <3>2, <4>1, ServerNameStep
      <4>3. ~(p > extEnd)
        BY <2>2
      <4> QED BY <3>4, <4>2, <4>3 DEF Reached
    <3> QED BY <3>3, <3>4
  <2> QED BY <2>1, <2>2
<1> QED BY <1>1, <1>2, <1>3, <1>4

(* A sequence of extensions none of which is a server_name: where they     *)
(* begin and the last one ends.                                            *)
OtherExtensions(b) ==
  \E n \in Nat : \E off \in [0..n -> Nat] :
    /\ off[0] = 0 /\ off[n] = Len(b)
    /\ \A i \in 1..n : /\ off[i - 1] + 4 <= Len(b) /\ U16(b, off[i - 1]) # 0
                       /\ off[i] = off[i - 1] + 4 + U16(b, off[i - 1] + 2)

(* The walk passes them all, or ends without a name.                       *)
LEMMA OthersPassed ==
  ASSUME NEW buf \in Seq(Byte), NEW extEnd \in Nat, extEnd <= Len(buf), NEW from \in Nat,
         NEW b \in Seq(Byte), OtherExtensions(b),
         \A i \in 0..(Len(b) - 1) : from + i < Len(buf) => At(buf, from + i) = At(b, i)
  PROVE  ServerName(buf, from, extEnd) = Reached(buf, extEnd, from + Len(b))
<1>1. PICK n, off :
        /\ n \in Nat /\ off \in [0..n -> Nat] /\ off[0] = 0 /\ off[n] = Len(b)
        /\ \A i \in 1..n : /\ off[i - 1] + 4 <= Len(b) /\ U16(b, off[i - 1]) # 0
                           /\ off[i] = off[i - 1] + 4 + U16(b, off[i - 1] + 2)
  BY Zenon DEF OtherExtensions
<1> DEFINE S == {i \in Nat : i <= n => Reached(buf, extEnd, from) = Reached(buf, extEnd, from + off[i])}
<1>2. 0 \in S
  <2>1. from + off[0] = from
    BY <1>1
  <2> QED BY <2>1
<1>3. ASSUME NEW i \in Nat, i \in S
      PROVE  i + 1 \in S
  <2> SUFFICES ASSUME i + 1 <= n
               PROVE  Reached(buf, extEnd, from) = Reached(buf, extEnd, from + off[i + 1])
    OBVIOUS
  <2>1. Reached(buf, extEnd, from) = Reached(buf, extEnd, from + off[i])
    BY <1>1, <1>3
  <2>2. off[i] \in Nat /\ i + 1 \in 1..n /\ (i + 1) - 1 = i
    BY <1>1
  <2>3. /\ off[i] + 4 <= Len(b) /\ U16(b, off[i]) # 0
        /\ off[i + 1] = off[i] + 4 + U16(b, off[i] + 2)
    BY <1>1, <2>2
  <2>4. Reached(buf, extEnd, from + off[i]) = Reached(buf, extEnd, from + off[i + 1])
    <3>1. PICK o \in Nat : o = off[i]
      BY <2>2
    <3> QED BY <2>3, <3>1, OtherPassed
  <2> QED BY <2>1, <2>4
<1> HIDE DEF S
<1>4. n \in S
  BY <1>1, <1>2, <1>3, Induction
<1>5. Reached(buf, extEnd, from) = Reached(buf, extEnd, from + Len(b))
  <2>1. n <= n
    BY <1>1
  <2>2. Reached(buf, extEnd, from) = Reached(buf, extEnd, from + off[n])
    BY <1>4, <2>1 DEF S
  <2> QED BY <1>1, <2>2
<1>6. ServerName(buf, from, extEnd) = Reached(buf, extEnd, from)
  <2>1. CASE from > extEnd
    <3>1. ExtOut(buf, extEnd, from)
      BY <2>1, LenProperties DEF ExtOut
    <3>2. ServerName(buf, from, extEnd) = <<>>
      BY <3>1, ServerNameStep
    <3> QED BY <2>1, <3>2 DEF Reached
  <2>2. CASE ~(from > extEnd)
    BY <2>2 DEF Reached
  <2> QED BY <2>1, <2>2
<1> QED BY <1>5, <1>6

-----------------------------------------------------------------------------
(* How far the cursor gets over a vector whose length the sender meant.    *)
LEMMA VectorSkipped ==
  ASSUME NEW buf \in Seq(Byte), NEW p \in Nat, NEW l \in Nat
  PROVE  /\ Skip(buf, Failed, l) = Failed
         /\ SkipVector8(buf, Failed) = Failed /\ SkipVector16(buf, Failed) = Failed
         /\ (p < Len(buf) => At(buf, p) = l) =>
              SkipVector8(buf, p) = IF Len(buf) < p + 1 + l THEN Failed ELSE p + 1 + l
         /\ (p + 1 < Len(buf) => U16(buf, p) = l) =>
              SkipVector16(buf, p) = IF Len(buf) < p + 2 + l THEN Failed ELSE p + 2 + l
<1>1. Len(buf) \in Nat /\ p # Failed /\ p + 1 # Failed /\ p + 2 # Failed
  BY LenProperties DEF Failed
<1>2. \A n \in Nat : /\ Skip(buf, Failed, n) = Failed
                     /\ Skip(buf, p, n) = IF p + n > Len(buf) THEN Failed ELSE p + n
                     /\ Skip(buf, p + 1, n) = IF (p + 1) + n > Len(buf) THEN Failed ELSE (p + 1) + n
                     /\ Skip(buf, p + 2, n) = IF (p + 2) + n > Len(buf) THEN Failed ELSE (p + 2) + n
  BY <1>1 DEF Skip
<1>3. SkipVector8(buf, Failed) = Failed /\ SkipVector16(buf, Failed) = Failed
  BY <1>2 DEF SkipVector8, SkipVector16
<1>4. ASSUME p < Len(buf) => At(buf, p) = l
      PROVE  SkipVector8(buf, p) = IF Len(buf) < p + 1 + l THEN Failed ELSE p + 1 + l
  <2>1. CASE p + 1 > Len(buf)
    BY <1>1, <1>2, <2>1 DEF SkipVector8
  <2>2. CASE ~(p + 1 > Len(buf))
    <3>1. Skip(buf, p, 1) # Failed /\ p < Len(buf)
      BY <1>1, <1>2, <2>2, SMTT(30)
    <3>2. SkipVector8(buf, p) = Skip(buf, p + 1, l)
      BY <1>4, <3>1, Zenon DEF SkipVector8
    <3> QED BY <1>1, <1>2, <3>2
  <2> QED BY <2>1, <2>2
<1>5. ASSUME p + 1 < Len(buf) => U16(buf, p) = l
      PROVE  SkipVector16(buf, p) = IF Len(buf) < p + 2 + l THEN Failed ELSE p + 2 + l
  <2>1. CASE p + 2 > Len(buf)
    BY <1>1, <1>2, <2>1 DEF SkipVector16
  <2>2. CASE ~(p + 2 > Len(buf))
    <3>0. Skip(buf, p, 2) = IF p + 2 > Len(buf) THEN Failed ELSE p + 2
      BY <1>2
    <3>1. Skip(buf, p, 2) # Failed /\ p + 1 < Len(buf)
      BY <1>1, <2>2, <3>0
    <3>2. SkipVector16(buf, p) = Skip(buf, p + 2, l)
      BY <1>5, <3>1, Zenon DEF SkipVector16
    <3> QED BY <1>1, <1>2, <3>2
  <2> QED BY <2>1, <2>2
<1> QED BY <1>2, <1>3, <1>4, <1>5

(* The parser gets to the extensions if all that precedes them is there.   *)
Reaches(buf, e) == ExtensionsAt(buf) = IF Len(buf) < e THEN Failed ELSE e

(* It does so in any first part of a message that is laid out as above.    *)
LEMMA ExtensionsFound ==
  ASSUME NEW m, NEW ls \in Nat, NEW lc \in Nat, NEW exts, NEW n \in Nat, Layout(m, ls, lc, exts, n),
         NEW buf, Prefix(buf, m), NEW e \in Nat, e = 48 + ls + lc
  PROVE  Reaches(buf, e)
<1>1. PICK k \in Nat : k = Len(buf)
  BY LenProperties DEF Prefix
<1>2. buf \in Seq(Byte)
  BY DEF Prefix
<1>3. /\ 43 < k => At(buf, 43) = ls
      /\ (44 + ls) + 1 < k => U16(buf, 44 + ls) = lc
      /\ 46 + ls + lc < k => At(buf, 46 + ls + lc) = 1
  <2>1. 43 \in Nat /\ 44 + ls \in Nat /\ 46 + ls + lc \in Nat
    OBVIOUS
  <2>2. At(m, 43) = ls /\ U16(m, 44 + ls) = lc /\ At(m, 46 + ls + lc) = 1
    BY Zenon DEF Layout
  <2> QED BY <1>1, <2>1, <2>2, PrefixRead
<1>4. PICK a, b, c, d : /\ a = Skip(buf, Skip(buf, RecordHeaderLen, HandshakeHeaderLen), 2 + RandomLen)
                        /\ b = SkipVector8(buf, a) /\ c = SkipVector16(buf, b)
                        /\ d = SkipVector8(buf, c)
  OBVIOUS
<1>5. ExtensionsAt(buf) = d
  BY <1>4, Zenon DEF ExtensionsAt
<1>6. a = IF k < 43 THEN Failed ELSE 43
  BY <1>1, <1>4 DEF Skip, Failed, RecordHeaderLen, HandshakeHeaderLen, RandomLen
<1>7. b = IF k < 44 + ls THEN Failed ELSE 44 + ls
  <2>1. CASE k < 43
    BY <1>2, <1>4, <1>6, <2>1, VectorSkipped
  <2>2. CASE ~(k < 43)
    <3>1. PICK p \in Nat : p = 43
      OBVIOUS
    <3>2. SkipVector8(buf, p) = IF k < p + 1 + ls THEN Failed ELSE p + 1 + ls
      BY <1>1, <1>2, <1>3, <3>1, VectorSkipped
    <3> QED BY <1>4, <1>6, <2>2, <3>1, <3>2
  <2> QED BY <2>1, <2>2
<1>8. c = IF k < 46 + ls + lc THEN Failed ELSE 46 + ls + lc
  <2>1. CASE k < 44 + ls
    BY <1>2, <1>4, <1>7, <2>1, VectorSkipped
  <2>2. CASE ~(k < 44 + ls)
    <3>1. PICK p \in Nat : p = 44 + ls
      OBVIOUS
    <3>2. SkipVector16(buf, p) = IF k < p + 2 + lc THEN Failed ELSE p + 2 + lc
      BY <1>1, <1>2, <1>3, <3>1, VectorSkipped, SMTT(30)
    <3> QED BY <1>4, <1>7, <2>2, <3>1, <3>2
  <2> QED BY <2>1, <2>2
<1>9. d = IF k < 48 + ls + lc THEN Failed ELSE 48 + ls + lc
  <2>1. CASE k < 46 + ls + lc
    BY <1>2, <1>4, <1>8, <2>1, VectorSkipped
  <2>2. CASE ~(k < 46 + ls + lc)
    <3>1. PICK p \in Nat : p = 46 + ls + lc
      OBVIOUS
    <3>2. SkipVector8(buf, p) = IF k < p + 1 + 1 THEN Failed ELSE p + 1 + 1
      BY <1>1, <1>2, <1>3, <3>1, VectorSkipped
    <3> QED BY <1>4, <1>8, <2>2, <3>1, <3>2
  <2> QED BY <2>1, <2>2
<1> QED BY <1>1, <1>5, <1>9 DEF Reaches

-----------------------------------------------------------------------------
(* Where things are in the extension that has the name.                    *)
LEMMA NameExtensionLayout ==
  ASSUME NEW host \in Seq(Byte), host # <<>>, NEW l \in Nat, l = Len(host)
  PROVE  /\ Slice(NameExtension(host), 9 + l)
         /\ 5 + l \in Uint16 =>
              /\ U16(NameExtension(host), 0) = 0 /\ U16(NameExtension(host), 2) = 5 + l
              /\ U16(NameExtension(host), 4) = 3 + l /\ At(NameExtension(host), 6) = 0
              /\ U16(NameExtension(host), 7) = l
         /\ \A i \in 0..(l - 1) : At(NameExtension(host), 9 + i) = At(host, i)
<1>1. PICK z, h, y, x, t, v, e : /\ z = <<0>> /\ h = Vector16(host) /\ y = z \o h /\ x = Vector16(y)
                                 /\ t = Bytes16(0) /\ v = Vector16(x) /\ e = t \o v
  OBVIOUS
<1>2. NameExtension(host) = e
  BY <1>1, Zenon DEF NameExtension, Extension
<1>3. PICK a, b, c : a = Bytes16(l) /\ b = Bytes16(3 + l) /\ c = Bytes16(5 + l)
  OBVIOUS
<1>4. /\ Slice(h, 2 + l) /\ At(h, 0) = At(a, 0) /\ At(h, 1) = At(a, 1)
      /\ \A i \in 0..(l - 1) : At(h, 2 + i) = At(host, i)
  BY <1>1, <1>3, Vector16Parts
<1>5. /\ Slice(y, 3 + l) /\ At(y, 0) = 0 /\ \A i \in 0..(1 + l) : At(y, 1 + i) = At(h, i)
  <2>1. Slice(z, 1) /\ At(z, 0) = 0
    BY <1>1 DEF Slice, Byte, At
  <2>2. PICK k \in Nat : k = 2 + l
    OBVIOUS
  <2>3. /\ Slice(z \o h, 1 + k) /\ \A i \in 0..(1 - 1) : At(z \o h, i) = At(z, i)
        /\ \A i \in 0..(k - 1) : At(z \o h, 1 + i) = At(h, i)
    BY <1>4, <2>1, <2>2, AtConcat
  <2>4. 1 + k = 3 + l /\ k - 1 = 1 + l /\ 0 \in 0..(1 - 1)
    BY <2>2
  <2> QED BY <1>1, <2>1, <2>3, <2>4
<1>6. /\ Slice(x, 5 + l) /\ At(x, 0) = At(b, 0) /\ At(x, 1) = At(b, 1)
      /\ \A i \in 0..(2 + l) : At(x, 2 + i) = At(y, i)
  <2>1. PICK k \in Nat : k = 3 + l
    OBVIOUS
  <2>2. y \in Seq(Byte) /\ k = Len(y)
    BY <1>5, <2>1 DEF Slice
  <2>3. /\ Slice(x, 2 + k) /\ At(x, 0) = At(Bytes16(k), 0) /\ At(x, 1) = At(Bytes16(k), 1)
        /\ \A i \in 0..(k - 1) : At(x, 2 + i) = At(y, i)
    BY <1>1, <2>2, Vector16Parts
  <2>4. 2 + k = 5 + l /\ k - 1 = 2 + l
    BY <2>1
  <2> QED BY <1>3, <2>1, <2>3, <2>4
<1>7. /\ Slice(v, 7 + l) /\ At(v, 0) = At(c, 0) /\ At(v, 1) = At(c, 1)
      /\ \A i \in 0..(4 + l) : At(v, 2 + i) = At(x, i)
  <2>1. PICK k \in Nat : k = 5 + l
    OBVIOUS
  <2>2. x \in Seq(Byte) /\ k = Len(x)
    BY <1>6, <2>1 DEF Slice
  <2>3. /\ Slice(v, 2 + k) /\ At(v, 0) = At(Bytes16(k), 0) /\ At(v, 1) = At(Bytes16(k), 1)
        /\ \A i \in 0..(k - 1) : At(v, 2 + i) = At(x, i)
    BY <1>1, <2>2, Vector16Parts
  <2>4. 2 + k = 7 + l /\ k - 1 = 4 + l
    BY <2>1
  <2> QED BY <1>3, <2>1, <2>3, <2>4
<1>8. /\ Slice(e, 9 + l) /\ At(e, 0) = At(t, 0) /\ At(e, 1) = At(t, 1)
      /\ \A i \in 0..(6 + l) : At(e, 2 + i) = At(v, i)
  <2>1. Slice(t, 2)
    BY <1>1, BytesTyped DEF Slice
  <2>2. PICK k \in Nat : k = 7 + l
    OBVIOUS
  <2>3. /\ Slice(t \o v, 2 + k) /\ \A i \in 0..(2 - 1) : At(t \o v, i) = At(t, i)
        /\ \A i \in 0..(k - 1) : At(t \o v, 2 + i) = At(v, i)
    BY <1>7, <2>1, <2>2, AtConcat
  <2>4. 2 + k = 9 + l /\ k - 1 = 6 + l /\ 0 \in 0..(2 - 1) /\ 1 \in 0..(2 - 1)
    BY <2>2
  <2> QED BY <1>1, <2>3, <2>4
<1>9. \A i \in 0..(4 + l) : At(e, 4 + i) = At(x, i)
  <2>1. \A i \in 0..(4 + l) : 2 + i \in 0..(6 + l) /\ 2 + (2 + i) = 4 + i
    OBVIOUS
  <2> QED BY <1>7, <1>8, <2>1
<1>10. \A i \in 0..(2 + l) : At(e, 6 + i) = At(y, i)
  <2>1. \A i \in 0..(2 + l) : 2 + i \in 0..(4 + l) /\ 4 + (2 + i) = 6 + i
    OBVIOUS
  <2> QED BY <1>6, <1>9, <2>1
<1>11. \A i \in 0..(1 + l) : At(e, 7 + i) = At(h, i)
  <2>1. \A i \in 0..(1 + l) : 1 + i \in 0..(2 + l) /\ 6 + (1 + i) = 7 + i
    OBVIOUS
  <2> QED BY <1>5, <1>10, <2>1
<1>12. \A i \in 0..(l - 1) : At(e, 9 + i) = At(host, i)
  <2>1. \A i \in 0..(l - 1) : 2 + i \in 0..(1 + l) /\ 7 + (2 + i) = 9 + i
    OBVIOUS
  <2> QED BY <1>4, <1>11, <2>1
<1>13. /\ At(e, 2) = At(c, 0) /\ At(e, 3) = At(c, 1)
       /\ At(e, 4) = At(b, 0) /\ At(e, 5) = At(b, 1) /\ At(e, 6) = 0
       /\ At(e, 7) = At(a, 0) /\ At(e, 8) = At(a, 1)
  <2>1. /\ 0 \in 0..(6 + l) /\ 1 \in 0..(6 + l) /\ 0 \in 0..(4 + l) /\ 1 \in 0..(4 + l)
        /\ 0 \in 0..(2 + l) /\ 0 \in 0..(1 + l) /\ 1 \in 0..(1 + l)
        /\ 2 + 0 = 2 /\ 2 + 1 = 3 /\ 4 + 0 = 4 /\ 4 + 1 = 5 /\ 6 + 0 = 6 /\ 7 + 0 = 7 /\ 7 + 1 = 8
    OBVIOUS
  <2> QED BY <1>4, <1>5, <1>6, <1>7, <1>8, <1>9, <1>10, <1>11, <2>1
<1>14. ASSUME 5 + l \in Uint16
       PROVE  U16(e, 0) = 0 /\ U16(e, 2) = 5 + l /\ U16(e, 4) = 3 + l /\ U16(e, 7) = l
  <2>1. 0 \in Uint16 /\ l \in Uint16 /\ 3 + l \in Uint16 /\ 5 + l \in Uint16
    BY <1>14, Size16Range DEF Uint16
  <2>2. e \in Seq(Byte)
    BY <1>8 DEF Slice
  <2>3. /\ 0 + 1 = 1 /\ 2 + 1 = 3 /\ 4 + 1 = 5 /\ 7 + 1 = 8
        /\ 0 \in Nat /\ 2 \in Nat /\ 4 \in Nat /\ 7 \in Nat
    OBVIOUS
  <2>4. U16(e, 0) = 0
    <3>1. PICK o \in Nat : o = 0
      OBVIOUS
    <3>2. At(e, o) = At(Bytes16(o), 0) /\ At(e, o + 1) = At(Bytes16(o), 1) /\ o \in Uint16
      BY <1>1, <1>8, <2>1, <3>1
    <3>3. U16(e, o) = o
      BY <2>2, <3>2, ReadWritten
    <3> QED BY <3>1, <3>3
  <2>5. U16(e, 2) = 5 + l
    BY <1>3, <1>13, <2>1, <2>2, <2>3, ReadWritten
  <2>6. U16(e, 4) = 3 + l
    BY <1>3, <1>13, <2>1, <2>2, <2>3, ReadWritten
  <2>7. U16(e, 7) = l
    BY <1>3, <1>13, <2>1, <2>2, <2>3, ReadWritten
  <2> QED BY <2>4, <2>5, <2>6, <2>7
<1> QED BY <1>2, <1>8, <1>12, <1>13, <1>14

-----------------------------------------------------------------------------
(* A ClientHello with the name of a host that ends at offset end: between  *)
(* other extensions, after any versions, random bytes, session id and      *)
(* cipher suites.                                                          *)
HelloMessage(m, host, end) ==
  \E session, suites, before, after \in Seq(Byte) :
    LET exts == before \o NameExtension(host) \o after IN
    /\ Len(session) \in Byte /\ Len(suites) \in Uint16 /\ Len(exts) \in Uint16
    /\ host \in Seq(Byte) \ {<<>>} /\ OtherExtensions(before)
    /\ Like(m, Message(session, suites, exts))
    /\ end = Len(m) - Len(after)

(* Where in it the extensions begin (x), and the one with the name (p).    *)
Located(m, host, end, ls, lc, exts, n, before, x, p, l) ==
  /\ ls \in Nat /\ lc \in Nat /\ n \in Nat /\ x \in Nat /\ p \in Nat /\ l \in Nat
  /\ Layout(m, ls, lc, exts, n) /\ x = 50 + ls + lc
  /\ before \in Seq(Byte) /\ OtherExtensions(before) /\ p = x + Len(before)
  /\ host \in Seq(Byte) /\ l = Len(host) /\ l > 0 /\ end = p + 9 + l /\ end <= x + n
  /\ \A i \in 0..(Len(before) - 1) : At(m, x + i) = At(before, i)
  /\ U16(m, p) = 0 /\ U16(m, p + 2) = 5 + l
  /\ U16(m, p + 4) = 3 + l /\ At(m, p + 6) = 0
  /\ U16(m, p + 7) = l
  /\ \A i \in 0..(l - 1) : At(m, (p + 9) + i) = At(host, i)

(* They are there.                                                         *)
LEMMA HelloLocated ==
  ASSUME NEW m, NEW host, NEW end, HelloMessage(m, host, end)
  PROVE  \E ls, lc, exts, n, before, x, p, l :
           Located(m, host, end, ls, lc, exts, n, before, x, p, l)
<1>1. PICK session, suites, before, after, ne, be, exts :
        /\ session \in Seq(Byte) /\ suites \in Seq(Byte) /\ before \in Seq(Byte)
        /\ after \in Seq(Byte) /\ host \in Seq(Byte) \ {<<>>} /\ OtherExtensions(before)
        /\ ne = NameExtension(host) /\ be = before \o ne /\ exts = be \o after
        /\ Len(session) \in Byte /\ Len(suites) \in Uint16 /\ Len(exts) \in Uint16
        /\ Like(m, Message(session, suites, exts)) /\ end = Len(m) - Len(after)
  BY Zenon DEF HelloMessage
<1>2. PICK ls \in Nat, lc \in Nat, n \in Nat, b \in Nat, a \in Nat, l \in Nat :
        /\ ls = Len(session) /\ lc = Len(suites) /\ n = Len(exts)
        /\ b = Len(before) /\ a = Len(after) /\ l = Len(host)
  <2>1. /\ Len(session) \in Nat /\ Len(suites) \in Nat /\ Len(before) \in Nat
        /\ Len(after) \in Nat /\ Len(host) \in Nat
    BY <1>1, LenProperties
  <2>2. Len(exts) \in Nat
    BY <1>1, Size16Range DEF Uint16
  <2> QED BY <2>1, <2>2
<1>3. l > 0
  BY <1>1, <1>2, EmptySeq
<1>4. /\ Slice(ne, 9 + l)
      /\ 5 + l \in Uint16 =>
           /\ U16(ne, 0) = 0 /\ U16(ne, 2) = 5 + l
           /\ U16(ne, 4) = 3 + l /\ At(ne, 6) = 0
           /\ U16(ne, 7) = l
      /\ \A i \in 0..(l - 1) : At(ne, 9 + i) = At(host, i)
  BY <1>1, <1>2, SMTT(30), NameExtensionLayout
<1>5. PICK k \in Nat, bk \in Nat : k = 9 + l /\ bk = b + k
  OBVIOUS
<1>6. /\ Slice(be, bk) /\ \A i \in 0..(b - 1) : At(be, i) = At(before, i)
      /\ \A i \in 0..(k - 1) : At(be, b + i) = At(ne, i)
  <2>1. Slice(before, b) /\ Slice(ne, k)
    BY <1>1, <1>2, <1>4, <1>5 DEF Slice
  <2> QED BY <1>1, <1>5, <2>1, AtConcat
<1>7. n = bk + a /\ \A i \in 0..(bk - 1) : At(exts, i) = At(be, i)
  <2>1. Slice(after, a)
    BY <1>1, <1>2 DEF Slice
  <2>2. Slice(exts, bk + a) /\ \A i \in 0..(bk - 1) : At(exts, i) = At(be, i)
    BY <1>1, <1>6, <2>1, AtConcat
  <2> QED BY <1>2, <2>2 DEF Slice
<1>8. PICK x \in Nat, p \in Nat : x = 50 + ls + lc /\ p = x + b
  OBVIOUS
<1>9. /\ Layout(m, ls, lc, exts, n) /\ m \in Seq(Byte) /\ Len(m) = x + n
      /\ \A i \in 0..(n - 1) : At(m, x + i) = At(exts, i)
  <2>1. exts \in Seq(Byte)
    BY <1>1, <1>4, ConcatBytes DEF Slice
  <2>2. Layout(m, ls, lc, exts, n)
    BY <1>1, <1>2, <2>1, MessageLayout, LikeLayout
  <2> QED BY <1>8, <2>2 DEF Layout, Slice
<1>10. end = p + 9 + l /\ end <= x + n
  BY <1>1, <1>2, <1>5, <1>7, <1>8, <1>9
<1>11. \A i \in 0..(b - 1) : At(m, x + i) = At(before, i)
  <2>1. \A i \in 0..(b - 1) : i \in 0..(bk - 1) /\ i \in 0..(n - 1)
    BY <1>5, <1>7
  <2> QED BY <1>6, <1>7, <1>9, <2>1
<1>12. \A i \in 0..(k - 1) : At(m, p + i) = At(ne, i)
  <2>1. \A i \in 0..(k - 1) : b + i \in 0..(bk - 1) /\ b + i \in 0..(n - 1) /\ x + (b + i) = p + i
    BY <1>5, <1>7, <1>8
  <2> QED BY <1>6, <1>7, <1>9, <2>1
<1>13. /\ U16(m, p) = 0 /\ U16(m, p + 2) = 5 + l /\ U16(m, p + 4) = 3 + l
       /\ At(m, p + 6) = 0 /\ U16(m, p + 7) = l
  <2>1. 5 + l \in Uint16
    <3>1. n \in 0..(Size16 - 1)
      BY <1>1, <1>2 DEF Uint16
    <3>2. 5 + l \in Nat /\ 5 + l <= n
      BY <1>2, <1>5, <1>7
    <3> QED BY <3>1, <3>2, Size16Range DEF Uint16
  <2>2. \A i \in 0..8 : At(m, p + i) = At(ne, i)
    BY <1>5, <1>12
  <2>3. \A i \in 0..7 : U16(m, p + i) = U16(ne, i)
    <3>1. \A i \in 0..7 : i \in 0..8 /\ i + 1 \in 0..8 /\ p + (i + 1) = (p + i) + 1
      OBVIOUS
    <3>2. \A i \in 0..7 : At(m, p + i) = At(ne, i) /\ At(m, (p + i) + 1) = At(ne, i + 1)
      BY <2>2, <3>1
    <3> QED BY <3>2, Zenon DEF U16
  <2>4. p + 0 = p /\ 0 \in 0..7 /\ 2 \in 0..7 /\ 4 \in 0..7 /\ 6 \in 0..8 /\ 7 \in 0..7
    OBVIOUS
  <2>5. /\ U16(m, p) = U16(ne, 0) /\ U16(m, p + 2) = U16(ne, 2) /\ U16(m, p + 4) = U16(ne, 4)
        /\ At(m, p + 6) = At(ne, 6) /\ U16(m, p + 7) = U16(ne, 7)
    BY <2>2, <2>3, <2>4
  <2> QED BY <1>4, <2>1, <2>5
<1>14. \A i \in 0..(l - 1) : At(m, (p + 9) + i) = At(host, i)
  <2>1. \A i \in 0..(l - 1) : 9 + i \in 0..(k - 1) /\ p + (9 + i) = (p + 9) + i
    BY <1>5
  <2> QED BY <1>4, <1>12, <2>1
<1>15. Located(m, host, end, ls, lc, exts, n, before, x, p, l)
  BY <1>1, <1>2, <1>3, <1>8, <1>9, <1>10, <1>11, <1>13, <1>14 DEF Located
<1> QED BY <1>15

(* A slice that is too short for a ClientHello, or does not have all that  *)
(* precedes the extensions and their length, has no name.                  *)
LEMMA NoExtensions ==
  ASSUME NEW m, NEW ls \in Nat, NEW lc \in Nat, NEW exts, NEW n \in Nat, Layout(m, ls, lc, exts, n),
         NEW buf, Prefix(buf, m), NEW k \in Nat, k = Len(buf), NEW x \in Nat, x = 50 + ls + lc
  PROVE  ParseClientHello(buf) =
           IF k < x THEN <<>>
           ELSE LET ext == ServerName(buf, x, IF x + n > k THEN k ELSE x + n)
                IN  IF ext = <<>> THEN <<>> ELSE HostName(buf, ext[1])
<1>1. k < 43 => ParseClientHello(buf) = <<>>
  <2>1. MinRecord = 43
    BY DEF MinRecord, RecordHeaderLen, HandshakeHeaderLen, RandomLen
  <2>2. k < 43 => Len(buf) < MinRecord
    BY <2>1
  <2> QED BY <2>2, Zenon DEF ParseClientHello
<1>2. ExtensionsAt(buf) = IF k < 48 + ls + lc THEN Failed ELSE 48 + ls + lc
  <2>1. PICK e \in Nat : e = 48 + ls + lc
    OBVIOUS
  <2>2. Reaches(buf, e)
    BY <2>1, ExtensionsFound
  <2> QED BY <2>1, <2>2 DEF Reaches
<1>3. CASE k < 48 + ls + lc
  <2>1. ExtensionsAt(buf) = Failed /\ k < x
    BY <1>2, <1>3
  <2>2. ParseClientHello(buf) = <<>>
    BY <2>1, Zenon DEF ParseClientHello
  <2> QED BY <2>1, <2>2
<1>4. CASE ~(k < 48 + ls + lc)
  <2>1. PICK e \in Nat : e = 48 + ls + lc
    OBVIOUS
  <2>2. ExtensionsAt(buf) = e /\ e # Failed /\ e + 2 = x
    BY <1>2, <1>4, <2>1 DEF Failed
  <2>3. CASE k < x
    <3>1. e + 2 > Len(buf)
      BY <2>2, <2>3
    <3>2. ParseClientHello(buf) = <<>>
      BY <2>2, <3>1, Zenon DEF ParseClientHello
    <3> QED BY <2>3, <3>2
  <2>4. CASE ~(k < x)
    <3>1. IsClientHello(buf) /\ ~(Len(buf) < MinRecord)
      <4>1. 0 \in Nat /\ 5 \in Nat /\ 0 < k /\ 5 < k /\ k >= 43 /\ k >= 6
        BY <2>4
      <4>2. At(buf, 0) = 22 /\ At(buf, 5) = 1
        BY <4>1, PrefixRead DEF Layout
      <4> QED BY <4>1, <4>2 DEF IsClientHello, MinRecord, RecordHeaderLen, HandshakeHeaderLen, RandomLen
    <3>2. U16(buf, e) = n
      <4>1. e \in Nat /\ e + 1 < k
        BY <2>2, <2>4
      <4>2. U16(m, e) = n
        BY <2>1 DEF Layout
      <4> QED BY <4>1, <4>2, PrefixRead
    <3>3. PICK at, from, end, extEnd, ext :
            /\ at = ExtensionsAt(buf) /\ from = at + 2 /\ end = from + U16(buf, at)
            /\ extEnd = IF end > Len(buf) THEN Len(buf) ELSE end
            /\ ext = ServerName(buf, from, extEnd)
      OBVIOUS
    <3>4. at = e /\ from = x /\ end = x + n /\ ~(at = Failed \/ from > Len(buf))
      BY <2>2, <2>4, <3>2, <3>3
    <3>5. ParseClientHello(buf) = IF ext = <<>> THEN <<>> ELSE HostName(buf, ext[1])
      BY <3>1, <3>3, <3>4, Zenon DEF ParseClientHello
    <3>6. extEnd = IF x + n > k THEN k ELSE x + n
      BY <3>3, <3>4
    <3>7. ext = ServerName(buf, x, IF x + n > k THEN k ELSE x + n)
      BY <3>3, <3>4, <3>6, Zenon
    <3> QED BY <2>4, <3>5, <3>7
  <2> QED BY <2>3, <2>4
<1> QED BY <1>3, <1>4

(* The parser finds the name of every ClientHello, whatever random bytes,  *)
(* session id, cipher suites and extensions are before it, if the segment  *)
(* has the name to its last byte, and finds no name in one that has less   *)
(* of it ("a single TCP segment").                                         *)
THEOREM NameFound ==
  ASSUME NEW m, NEW host, NEW end, HelloMessage(m, host, end), NEW buf, Prefix(buf, m)
  PROVE  ParseClientHello(buf) =
           IF Len(buf) < end THEN <<>> ELSE <<[from |-> end - Len(host), to |-> end]>>
<1>1. PICK ls, lc, exts, n, before, x, p, l :
        Located(m, host, end, ls, lc, exts, n, before, x, p, l)
  BY HelloLocated
<1>2. /\ n \in Nat /\ x \in Nat /\ p \in Nat /\ l \in Nat /\ p = x + Len(before)
      /\ l = Len(host) /\ l > 0 /\ end = p + 9 + l /\ end <= x + n
  BY <1>1, Zenon DEF Located
<1>3. /\ before \in Seq(Byte) /\ OtherExtensions(before)
      /\ \A i \in 0..(Len(before) - 1) : At(m, x + i) = At(before, i)
  BY <1>1, Zenon DEF Located
<1>4. PICK k \in Nat : k = Len(buf)
  BY LenProperties DEF Prefix
<1>5. PICK extEnd \in Nat : extEnd = (IF x + n > k THEN k ELSE x + n) /\ extEnd <= k
  BY <1>2
<1>6. PICK ext : ext = ServerName(buf, x, extEnd)
  OBVIOUS
<1>7. ParseClientHello(buf) = IF k < x \/ ext = <<>> THEN <<>> ELSE HostName(buf, ext[1])
  <2>1. /\ ls \in Nat /\ lc \in Nat /\ n \in Nat /\ Layout(m, ls, lc, exts, n)
        /\ x \in Nat /\ x = 50 + ls + lc
    BY <1>1, Zenon DEF Located
  <2>2. ParseClientHello(buf) =
          IF k < x THEN <<>>
          ELSE LET e == ServerName(buf, x, IF x + n > k THEN k ELSE x + n)
               IN  IF e = <<>> THEN <<>> ELSE HostName(buf, e[1])
    BY <1>4, <2>1, NoExtensions
  <2> QED BY <1>5, <1>6, <2>2, Zenon
<1>8. buf \in Seq(Byte)
  BY DEF Prefix
<1>9. Len(before) \in Nat
  BY <1>3, LenProperties
<1>10. ext = Reached(buf, extEnd, p)
  <2>1. \A i \in 0..(Len(before) - 1) : x + i < Len(buf) => At(buf, x + i) = At(before, i)
    <3>1. \A i \in 0..(Len(before) - 1) : x + i \in Nat
      BY <1>2, <1>9
    <3>2. \A j \in Nat : j < Len(buf) => At(buf, j) = At(m, j)
      BY PrefixRead
    <3> QED BY <1>3, <3>1, <3>2
  <2>2. ServerName(buf, x, extEnd) = Reached(buf, extEnd, x + Len(before))
    <3>1. x \in Nat /\ before \in Seq(Byte) /\ OtherExtensions(before) /\ extEnd <= Len(buf)
      BY <1>2, <1>3, <1>4, <1>5
    <3> QED BY <1>5, <1>8, <2>1, <3>1, OthersPassed
  <2> QED BY <1>2, <1>6, <2>2
<1>11. ASSUME p + 4 <= k
       PROVE  U16(buf, p) = 0 /\ ExtTo(buf, p) = end
  <2>1. p + 1 < k /\ (p + 2) + 1 < k /\ p + 2 \in Nat
    BY <1>2, <1>11
  <2>2. U16(buf, p) = 0 /\ U16(buf, p + 2) = 5 + l
    <3>1. U16(m, p) = 0 /\ U16(m, p + 2) = 5 + l
      BY <1>1, Zenon DEF Located
    <3>2. U16(buf, p) = U16(m, p) /\ U16(buf, p + 2) = U16(m, p + 2)
      BY <1>2, <1>4, <2>1, PrefixRead
    <3> QED BY <3>1, <3>2
  <2> QED BY <1>2, <2>2 DEF ExtTo
<1>12. ServerName(buf, p, extEnd) =
         IF ExtOut(buf, extEnd, p) THEN <<>>
         ELSE IF U16(buf, p) = 0 THEN <<[from |-> p + 4, to |-> ExtTo(buf, p)]>>
         ELSE ServerName(buf, ExtTo(buf, p), extEnd)
  BY <1>2, <1>4, <1>5, <1>8, ServerNameStep
<1>13. CASE k < end
  <2>1. ext = <<>>
    <3>1. CASE p > extEnd
      BY <1>10, <3>1 DEF Reached
    <3>2. CASE ~(p > extEnd)
      <4>1. ExtOut(buf, extEnd, p)
        BY <1>2, <1>5, <1>11, <1>13 DEF ExtOut
      <4> QED BY <1>10, <1>12, <3>2, <4>1 DEF Reached
    <3> QED BY <3>1, <3>2
  <2> QED BY <1>4, <1>7, <1>13, <2>1
<1>14. CASE ~(k < end)
  <2>1. ~(k < x) /\ p + 4 <= k /\ ~(p + 4 > extEnd) /\ ~(end > extEnd) /\ ~(p > extEnd)
    BY <1>2, <1>5, <1>9, <1>14
  <2>2. ext = <<[from |-> p + 4, to |-> end]>>
    <3>1. ~ExtOut(buf, extEnd, p) /\ U16(buf, p) = 0 /\ ExtTo(buf, p) = end
      BY <1>11, <2>1 DEF ExtOut
    <3> QED BY <1>10, <1>12, <2>1, <3>1 DEF Reached
  <2>3. PICK from \in Nat, to \in Nat : from = p + 4 /\ to = end
    BY <1>2
  <2>4. HostName(buf, [from |-> from, to |-> to]) = <<[from |-> from + 5, to |-> to]>>
    <3>1. /\ p + 4 \in Nat /\ p + 6 \in Nat /\ p + 7 \in Nat
          /\ (p + 4) + 1 < k /\ p + 6 < k /\ (p + 7) + 1 < k
      BY <1>2, <1>14
    <3>2. U16(buf, p + 4) = 3 + l /\ At(buf, p + 6) = 0 /\ U16(buf, p + 7) = l
      <4>1. U16(m, p + 4) = 3 + l /\ At(m, p + 6) = 0 /\ U16(m, p + 7) = l
        BY <1>1, Zenon DEF Located
      <4>2. /\ U16(buf, p + 4) = U16(m, p + 4) /\ At(buf, p + 6) = At(m, p + 6)
            /\ U16(buf, p + 7) = U16(m, p + 7)
        BY <1>4, <3>1, PrefixRead
      <4> QED BY <4>1, <4>2
    <3>3. /\ from + 2 = p + 6 /\ from + 3 = p + 7 /\ to - (from + 2) = 3 + l /\ to - (from + 5) = l
          /\ to <= k /\ from + 5 < to
      <4>1. l \in Nat /\ p \in Nat /\ l > 0 /\ to = p + 9 + l /\ from = p + 4 /\ ~(k < to)
        BY <1>2, <1>14, <2>3
      <4> QED BY <4>1
    <3> QED BY <1>4, <1>8, <2>3, <3>2, <3>3, SMTT(30), HostNameFirst
  <2>5. from + 5 = end - Len(host)
    BY <1>2, <2>3
  <2>6. ext # <<>> /\ ext[1] = [from |-> from, to |-> to]
    BY <2>2, <2>3
  <2> QED BY <1>4, <1>7, <1>14, <2>1, <2>3, <2>4, <2>5, <2>6
<1> QED BY <1>13, <1>14

(* What it finds are the bytes of the host name, wherever the segment ends *)
(* after them.                                                             *)
LEMMA NameBytes ==
  ASSUME NEW m, NEW host, NEW end, HelloMessage(m, host, end), NEW buf, Prefix(buf, m),
         ~(Len(buf) < end)
  PROVE  /\ end \in Nat /\ end > Len(host) /\ Len(host) \in Nat \ {0}
         /\ Cut(buf, end - Len(host), end) = host
<1>1. PICK ls, lc, exts, n, before, x, p, l :
        Located(m, host, end, ls, lc, exts, n, before, x, p, l)
  BY HelloLocated
<1>2. /\ p \in Nat /\ l \in Nat /\ host \in Seq(Byte) /\ l = Len(host) /\ l > 0 /\ end = p + 9 + l
      /\ \A i \in 0..(l - 1) : At(m, (p + 9) + i) = At(host, i)
  BY <1>1, Zenon DEF Located
<1>3. PICK from \in Nat, to \in Nat : from = p + 9 /\ to = end /\ from = end - Len(host) /\ to - from = l
  <2>1. p + 9 \in Nat /\ p + 9 + l \in Nat /\ (p + 9 + l) - l = p + 9 /\ (p + 9 + l) - (p + 9) = l
    BY <1>2
  <2>2. /\ end \in Nat /\ end - Len(host) = p + 9 /\ end - (p + 9) = l
    BY <1>2, <2>1, Zenon
  <2> QED BY <2>1, <2>2
<1>4. buf \in Seq(Byte) /\ Len(buf) \in Nat
  BY LenProperties DEF Prefix
<1>5. PICK c : c = Cut(buf, from, to)
  OBVIOUS
<1>6. c \in Seq(Byte) /\ Len(c) = l /\ \A i \in 1..l : c[i] = buf[from + i]
  <2>1. from \in 0..Len(buf) /\ to \in from..Len(buf)
    BY <1>2, <1>3, <1>4
  <2> QED BY <1>3, <1>4, <1>5, <2>1, CutTyped
<1>7. ASSUME NEW i \in 1..l
      PROVE  c[i] = host[i]
  <2>1. /\ i - 1 \in 0..(l - 1) /\ from + (i - 1) \in Nat /\ from + (i - 1) < Len(buf)
        /\ (from + (i - 1)) + 1 = from + i /\ (i - 1) + 1 = i
    BY <1>2, <1>3, <1>4
  <2>2. At(buf, from + (i - 1)) = At(host, i - 1)
    <3>1. At(buf, from + (i - 1)) = At(m, from + (i - 1))
      BY <2>1, PrefixRead
    <3> QED BY <1>2, <1>3, <2>1, <3>1
  <2>3. buf[from + i] = host[i]
    BY <2>1, <2>2 DEF At
  <2> QED BY <1>6, <2>3
<1>8. c = host
  BY <1>2, <1>6, <1>7, SeqEqual
<1> QED BY <1>2, <1>3, <1>5, <1>8

(* A ClientHello in which nobody is named.                                 *)
NamelessMessage(m) ==
  \E session, suites, exts \in Seq(Byte) :
    /\ Len(session) \in Byte /\ Len(suites) \in Uint16 /\ Len(exts) \in Uint16
    /\ OtherExtensions(exts) /\ Like(m, Message(session, suites, exts))

(* The parser finds no name in it.                                         *)
THEOREM NoNameFound ==
  ASSUME NEW m, NamelessMessage(m), NEW buf, Prefix(buf, m)
  PROVE  ParseClientHello(buf) = <<>>
<1>1. PICK session, suites, exts :
        /\ session \in Seq(Byte) /\ suites \in Seq(Byte) /\ exts \in Seq(Byte)
        /\ Len(session) \in Byte /\ Len(suites) \in Uint16 /\ Len(exts) \in Uint16
        /\ OtherExtensions(exts) /\ Like(m, Message(session, suites, exts))
  BY Zenon DEF NamelessMessage
<1>2. PICK ls \in Nat, lc \in Nat, n \in Nat :
        ls = Len(session) /\ lc = Len(suites) /\ n = Len(exts)
  BY <1>1, LenProperties
<1>3. Layout(m, ls, lc, exts, n)
  BY <1>1, <1>2, MessageLayout, LikeLayout
<1>4. PICK x \in Nat : x = 50 + ls + lc
  OBVIOUS
<1>5. PICK k \in Nat : k = Len(buf)
  BY LenProperties DEF Prefix
<1>6. PICK extEnd \in Nat : extEnd = (IF x + n > k THEN k ELSE x + n) /\ extEnd <= k /\ extEnd <= x + n
  OBVIOUS
<1>7. PICK ext : ext = ServerName(buf, x, extEnd)
  OBVIOUS
<1>8. ParseClientHello(buf) = IF k < x \/ ext = <<>> THEN <<>> ELSE HostName(buf, ext[1])
  BY <1>3, <1>4, <1>5, <1>6, <1>7, NoExtensions
<1>9. buf \in Seq(Byte)
  BY DEF Prefix
<1>10. PICK q \in Nat : q = x + n
  OBVIOUS
<1>11. ext = Reached(buf, extEnd, q)
  <2>1. \A i \in 0..(n - 1) : x + i < Len(buf) => At(buf, x + i) = At(exts, i)
    <3>1. \A i \in 0..(n - 1) : x + i \in Nat
      OBVIOUS
    <3>2. \A j \in Nat : j < Len(buf) => At(buf, j) = At(m, j)
      BY PrefixRead
    <3>3. \A i \in 0..(n - 1) : At(m, x + i) = At(exts, i)
      BY <1>3, <1>4 DEF Layout
    <3> QED BY <3>1, <3>2, <3>3
  <2>2. ServerName(buf, x, extEnd) = Reached(buf, extEnd, x + Len(exts))
    BY <1>1, <1>2, <1>5, <1>6, <1>9, <2>1, OthersPassed
  <2> QED BY <1>2, <1>7, <1>10, <2>2
<1>12. ServerName(buf, q, extEnd) = <<>>
  <2>1. ExtOut(buf, extEnd, q)
    BY <1>6, <1>10 DEF ExtOut
  <2> QED BY <1>5, <1>6, <1>9, <2>1, ServerNameStep
<1>13. ext = <<>>
  BY <1>11, <1>12 DEF Reached
<1> QED BY <1>8, <1>13

(* BuildClientHello makes such a message, for every host name that fits.   *)
LEMMA BuiltHello ==
  ASSUME NEW host \in Seq(Byte) \ {<<>>}, 9 + Len(host) < Size16
  PROVE  HelloMessage(BuildClientHello(host), host, Len(BuildClientHello(host)))
<1>1. PICK l \in Nat : l = Len(host) /\ 9 + l < Size16
  BY LenProperties
<1>2. PICK nil, suites, ne : nil = <<>> /\ suites = <<19, 1>> /\ ne = NameExtension(host)
  OBVIOUS
<1>3. Slice(ne, 9 + l)
  BY <1>1, <1>2, NameExtensionLayout
<1>4. ne \in Seq(Byte) /\ Len(ne) = 9 + l
  BY <1>3 DEF Slice
<1>5. /\ nil \in Seq(Byte) /\ Len(nil) = 0 /\ nil \o ne \o nil = ne
      /\ suites \in Seq(Byte) /\ Len(suites) = 2
  <2>1. nil \in Seq(Byte) /\ Len(nil) = 0
    BY <1>2, EmptySeq
  <2>2. nil \o ne = ne /\ ne \o nil = ne
    BY <1>2, <1>4, ConcatEmptySeq
  <2>3. suites \in Seq(Byte) /\ Len(suites) = 2
    <3>1. 19 \in Byte /\ 1 \in Byte
      BY DEF Byte
    <3> QED BY <1>2, <3>1
  <2> QED BY <2>1, <2>2, <2>3
<1>6. 0 \in Byte /\ 2 \in Uint16 /\ 9 + l \in Uint16
  BY <1>1, Size16Range DEF Byte, Uint16
<1>7. OtherExtensions(nil)
  <2>1. PICK off : off = [i \in 0..0 |-> 0]
    OBVIOUS
  <2>2. off \in [0..0 -> Nat] /\ off[0] = Len(nil) /\ off[0] = 0 /\ 1..0 = {} /\ 0 \in Nat
    BY <1>5, <2>1
  <2> QED BY <2>2, Zenon DEF OtherExtensions
<1>8. PICK m : m = Message(nil, suites, ne)
  OBVIOUS
<1>9. m = BuildClientHello(host)
  BY <1>2, <1>8, Zenon DEF BuildClientHello
<1>10. m \in Seq(Byte) /\ Len(m) \in Nat
  <2>1. Layout(Message(nil, suites, ne), Len(nil), Len(suites), ne, Len(ne))
    BY <1>4, <1>5, <1>6, MessageLayout
  <2>2. m \in Seq(Byte)
    BY <1>8, <2>1 DEF Layout, Slice
  <2> QED BY <2>2, LenProperties
<1>11. Like(m, m) /\ Len(m) = Len(m) - Len(nil)
  BY <1>5, <1>10 DEF Like
<1>12. HelloMessage(m, host, Len(m))
  <2>1. Len(nil) \in Byte /\ Len(suites) \in Uint16 /\ Len(ne) \in Uint16
    BY <1>4, <1>5, <1>6
  <2>2. /\ nil \in Seq(Byte) /\ suites \in Seq(Byte) /\ Len(nil \o ne \o nil) \in Uint16
        /\ Like(m, Message(nil, suites, nil \o ne \o nil))
    BY <1>5, <1>8, <1>11, <2>1
  <2> QED BY <1>2, <1>7, <1>11, <2>1, <2>2, ZenonT(40) DEF HelloMessage
<1> QED BY <1>9, <1>12

(* The parser is the inverse of BuildClientHello: what it finds in a hello *)
(* that was built for a host is that host.                                 *)
THEOREM BuiltParsed ==
  ASSUME NEW host \in Seq(Byte) \ {<<>>}, 9 + Len(host) < Size16
  PROVE  LET buf  == BuildClientHello(host)
             name == ParseClientHello(buf)
         IN  name # <<>> /\ Cut(buf, name[1].from, name[1].to) = host
<1>1. PICK buf : buf = BuildClientHello(host)
  OBVIOUS
<1>2. HelloMessage(buf, host, Len(buf))
  BY <1>1, BuiltHello
<1>3. PICK end : end = Len(buf)
  OBVIOUS
<1>4. Prefix(buf, buf) /\ end \in Nat
  <2>1. \E ls, lc, exts, n, before, x, p, l :
          Located(buf, host, end, ls, lc, exts, n, before, x, p, l)
    BY <1>2, <1>3, HelloLocated
  <2>2. buf \in Seq(Byte)
    BY <2>1 DEF Located, Layout, Slice
  <2> QED BY <1>3, <2>2, LenProperties DEF Prefix
<1>5. ~(Len(buf) < end)
  BY <1>3, <1>4
<1>6. ParseClientHello(buf) = <<[from |-> end - Len(host), to |-> end]>>
  BY <1>2, <1>3, <1>4, <1>5, NameFound
<1>7. Cut(buf, end - Len(host), end) = host
  BY <1>2, <1>3, <1>4, <1>5, NameBytes
<1>8. PICK name : name = ParseClientHello(buf)
  OBVIOUS
<1>9. name # <<>> /\ Cut(buf, name[1].from, name[1].to) = host
  BY <1>6, <1>7, <1>8
<1> QED BY <1>1, <1>8, <1>9
=============================================================================
