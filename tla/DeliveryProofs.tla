--------------------------- MODULE DeliveryProofs ---------------------------
(***************************************************************************)
(* Proofs about module Delivery, for a stream, a name, a path and a set of *)
(* configurations of any size, any number of restarts and an initial       *)
(* sequence number anywhere in the sequence space.                         *)
(***************************************************************************)
EXTENDS Delivery, SequenceTheorems, TLAPS

(* Decoys die before the server.                                           *)
DecoysDie == \A c \in Confs :
  c.Strategy \in {"fake", "fakedsplit"} =>
    (IF c.FakeTTL = 0 THEN DefaultFakeTTL ELSE c.FakeTTL) < Hops

(* The header of a segment places its payload where the client put it, the *)
(* payload is among the first n bytes of the stream, and a decoy does not  *)
(* reach the server.                                                       *)
Sound(n) == {seg \in Segments : /\ seg.from < seg.to /\ seg.to <= n
                                /\ seg.seq = Plus(Isn, seg.from)
                                /\ seg.decoy => seg.ttl < Hops}

SoundInv ==
  /\ una \in 0..N
  /\ nxt \in 0..N
  /\ conf \in Confs \cup {None}
  /\ starts \in Nat
  /\ shown \subseteq Segments
  /\ missed \in BOOLEAN
  /\ queue \in Seq(Sound(nxt))
  /\ pkt \in Sound(nxt) \cup {None}
  /\ out \in Seq(Sound(nxt))
  /\ net \subseteq {seg \in Sound(nxt) : ~seg.decoy}
  /\ rcvd \in [Offsets -> Offsets \cup {Missing}]
  /\ \A i \in Offsets : rcvd[i] \in {Missing, i}

-----------------------------------------------------------------------------
(* Sequence numbers, modulo 2^32, are associative and reversible.          *)
LEMMA PlusPlus ==
  ASSUME NEW a \in 0..N, NEW b \in Nat, a + b \in 0..N
  PROVE  /\ Plus(Isn, a) \in 0..(SeqSpace - 1)
         /\ Plus(Plus(Isn, a), b) = Plus(Isn, a + b)
         /\ Minus(Plus(Isn, a), Isn) = a
BY StreamAssumption, PathAssumption DEF Plus, Minus

(* A cut of a sound segment inside its payload gives two sound ones.       *)
LEMMA HalvesSound ==
  ASSUME NEW n \in 0..N, NEW seg \in Sound(n), NEW pos \in 1..(Length(seg) - 1)
  PROVE  First(seg, pos) \in Sound(n) /\ Second(seg, pos) \in Sound(n)
<1>1. seg \in Segments /\ seg.from \in 0..N /\ seg.to \in 0..N /\ seg.from < seg.to /\ seg.to <= n
  BY DEF Sound, Segments
<1>2. pos \in Nat /\ pos >= 1 /\ seg.from + pos < seg.to
  BY <1>1 DEF Length
<1>3. seg.from + pos \in 0..N /\ seg.from + pos > seg.from /\ seg.from + pos <= n
  BY <1>1, <1>2, StreamAssumption
<1>4. First(seg, pos) \in Sound(n)
  BY <1>1, <1>3 DEF First, Sound, Segments
<1>5. /\ Plus(seg.seq, pos) = Plus(Isn, seg.from + pos)
      /\ Plus(seg.seq, pos) \in 0..(SeqSpace - 1)
  BY <1>1, <1>2, <1>3, PlusPlus DEF Sound
<1>6. Second(seg, pos) \in Sound(n)
  BY <1>1, <1>2, <1>3, <1>5 DEF Second, Sound, Segments
<1> QED BY <1>4, <1>6

(* Clamp keeps the cut inside the payload.                                 *)
LEMMA ClampInside ==
  ASSUME NEW v \in Int, NEW hi \in Int, hi >= 1
  PROVE  Clamp(v, 1, hi) \in 1..hi
BY DEF Clamp

(* Whatever Process returns is sound.                                      *)
LEMMA ProcessSound ==
  ASSUME DecoysDie, NEW c \in Confs, NEW n \in 0..N, NEW seg \in Sound(n)
  PROVE  Process(c, seg) \in Seq(Sound(n))
<1> DEFINE off == SplitOffset(seg)
           pos == Clamp(off, 1, Length(seg) - 1)
           fake == [seg EXCEPT !.ttl = IF c.FakeTTL = 0 THEN DefaultFakeTTL ELSE c.FakeTTL,
                               !.decoy = TRUE]
<1>1. seg \in Segments /\ seg.from \in 0..N /\ seg.to \in 0..N /\ seg.from < seg.to
  BY DEF Sound, Segments
<1>2. Length(seg) \in Nat /\ Length(seg) >= 1
  BY <1>1 DEF Length
<1>3. off \in Int
  BY <1>2, StreamAssumption DEF SplitOffset
<1>4. ASSUME Length(seg) >= 2
      PROVE  First(seg, pos) \in Sound(n) /\ Second(seg, pos) \in Sound(n)
  <2>1. Length(seg) - 1 \in Int /\ Length(seg) - 1 >= 1
    BY <1>2, <1>4
  <2>2. pos \in 1..(Length(seg) - 1)
    BY <1>3, <2>1, ClampInside
  <2> QED BY <2>2, HalvesSound
<1>5. ASSUME c.Strategy \in {"fake", "fakedsplit"}
      PROVE  fake \in Sound(n)
  <2>1. c.FakeTTL \in 0..255
    BY PathAssumption
  <2>2. fake.ttl \in 0..255 /\ fake.ttl < Hops
    BY <1>1, <1>5, <2>1 DEF DecoysDie, DefaultFakeTTL, Segments
  <2> QED BY <1>1, <2>2, ZenonT(40) DEF Sound, Segments
<1>6. Apply(c.Strategy, seg, off, c.FakeTTL) \in Seq(Sound(n))
  <2> DEFINE real == CASE Length(seg) < 2 \/ c.Strategy = "fake" -> <<seg>>
                       [] Length(seg) >= 2 /\ c.Strategy = "disorder" ->
                            <<Second(seg, pos), First(seg, pos)>>
                       [] OTHER -> <<First(seg, pos), Second(seg, pos)>>
  <2>1. real \in Seq(Sound(n))
    <3>1. CASE Length(seg) < 2 \/ c.Strategy = "fake"
      <4>1. real = <<seg>>
        BY <3>1, <1>2
      <4> QED BY <4>1
    <3>2. CASE Length(seg) >= 2 /\ c.Strategy = "disorder"
      <4>1. real = <<Second(seg, pos), First(seg, pos)>>
        BY <3>2, <1>2
      <4> QED BY <4>1, <1>4, <3>2
    <3>3. CASE Length(seg) >= 2 /\ c.Strategy \notin {"disorder", "fake"}
      <4>1. real = <<First(seg, pos), Second(seg, pos)>>
        BY <3>3, <1>2
      <4> QED BY <4>1, <1>4, <3>3
    <3> QED BY <3>1, <3>2, <3>3, <1>2
  <2>2. Apply(c.Strategy, seg, off, c.FakeTTL) = Fakes(c.Strategy, seg, c.FakeTTL, real)
    BY DEF Apply
  <2> HIDE DEF real
  <2>3. CASE c.Strategy \in {"fake", "fakedsplit"}
    <3>1. Fakes(c.Strategy, seg, c.FakeTTL, real) = <<fake>> \o real
      BY <2>3 DEF Fakes
    <3> HIDE DEF fake
    <3>2. <<fake>> \in Seq(Sound(n))
      BY <1>5, <2>3
    <3> QED BY <2>1, <2>2, <3>1, <3>2
  <2>4. CASE c.Strategy \notin {"fake", "fakedsplit"}
    BY <2>1, <2>2, <2>4 DEF Fakes
  <2> QED BY <2>3, <2>4
<1> QED BY <1>6 DEF Process, Pass

(* A sound segment is placed where its payload belongs.                    *)
LEMMA SoundPlaces ==
  ASSUME NEW n \in 0..N, NEW seg \in Sound(n), ~seg.decoy, NEW i \in Places(seg)
  PROVE  Byte(seg, i) = i
<1>1. seg.from \in 0..N /\ seg.seq = Plus(Isn, seg.from) /\ seg.from + 0 \in 0..N
  BY StreamAssumption DEF Sound, Segments
<1>2. Offset(seg) = seg.from
  BY <1>1, PlusPlus DEF Offset
<1>3. i \in Int
  BY StreamAssumption DEF Places, Offsets
<1> QED BY <1>1, <1>2, <1>3 DEF Byte

(* What sets out leaves the network sound.                                 *)
LEMMA TravelSound ==
  ASSUME NEW n \in 0..N, Sound(nxt) \subseteq Sound(n), NEW seg \in Sound(n), SoundInv,
         Travel(seg) \/ Vanish
  PROVE  net' \subseteq {s \in Sound(n) : ~s.decoy}
<1>1. seg.ttl >= Hops => ~seg.decoy
  BY PathAssumption DEF Sound, Segments
<1> QED BY <1>1 DEF Travel, Vanish, SoundInv

(* More of the stream has been sent.                                       *)
LEMMA SoundMonotone ==
  ASSUME NEW m \in 0..N, NEW n \in 0..N, m <= n
  PROVE  Sound(m) \subseteq Sound(n)
BY StreamAssumption DEF Sound, Segments

(* The client's segments are sound.                                        *)
LEMMA SegmentSound ==
  ASSUME NEW n \in 0..N, NEW from \in 0..N, NEW to \in 0..N, from < to, to <= n
  PROVE  Segment(from, to) \in Sound(n)
<1>1. from + 0 \in 0..N
  BY StreamAssumption
<1>2. Plus(Isn, from) \in 0..(SeqSpace - 1)
  BY <1>1, PlusPlus
<1> QED BY <1>2, PathAssumption DEF Segment, Sound, Segments

(* A segment is not empty and ends within the stream.                      *)
LEMMA UntilRange ==
  ASSUME NEW from \in 0..N, NEW limit \in 0..N, from < limit
  PROVE  /\ Until(from, limit) \in 0..N
         /\ from < Until(from, limit) /\ Until(from, limit) <= limit
BY PathAssumption, StreamAssumption DEF Until

(* A segment the client sends, to the engine or past it, leaves all sound. *)
LEMMA EmitSound ==
  ASSUME NEW n \in 0..N, Sound(nxt) \subseteq Sound(n), NEW seg \in Sound(n), SoundInv, Emit(seg)
  PROVE  queue' \in Seq(Sound(n)) /\ net' \subseteq {s \in Sound(n) : ~s.decoy}
<1>1. queue \in Seq(Sound(n)) /\ net \subseteq {s \in Sound(n) : ~s.decoy}
  BY DEF SoundInv
<1>2. CASE queue' = Append(queue, seg) /\ UNCHANGED net
  BY <1>1, <1>2
<1>3. CASE (Travel(seg) \/ Vanish) /\ UNCHANGED queue
  BY <1>1, <1>3, TravelSound
<1> QED BY <1>2, <1>3 DEF Emit

(* A packet that arrives leaves the server's bytes right.                  *)
LEMMA StoreSound ==
  ASSUME NEW seg \in net, SoundInv, Store(seg)
  PROVE  /\ rcvd' \in [Offsets -> Offsets \cup {Missing}]
         /\ \A i \in Offsets : rcvd'[i] \in {Missing, i}
<1>1. seg \in Sound(nxt) /\ ~seg.decoy /\ nxt \in 0..N
  BY DEF SoundInv
<1>2. \A i \in Places(seg) : Byte(seg, i) = i
  BY <1>1, SoundPlaces
<1> QED BY <1>2 DEF Store, SoundInv

-----------------------------------------------------------------------------
(* An empty network is sound.                                              *)
LEMMA SoundInit == Init => SoundInv
<1> SUFFICES ASSUME Init
             PROVE  SoundInv
  OBVIOUS
<1>1. una \in 0..N /\ nxt \in 0..N /\ starts \in Nat
  BY StreamAssumption DEF Init
<1>2. queue \in Seq(Sound(nxt)) /\ out \in Seq(Sound(nxt))
  BY DEF Init
<1>3. /\ rcvd \in [Offsets -> Offsets \cup {Missing}]
      /\ \A i \in Offsets : rcvd[i] \in {Missing, i}
  BY DEF Init
<1>4. /\ conf \in Confs \cup {None} /\ pkt \in Sound(nxt) \cup {None} /\ missed \in BOOLEAN
      /\ shown \subseteq Segments /\ net \subseteq {seg \in Sound(nxt) : ~seg.decoy}
  BY DEF Init
<1> QED BY <1>1, <1>2, <1>3, <1>4 DEF SoundInv

(* If decoys die, each step of client, engine, path and server keeps it so. *)
LEMMA SoundStep ==
  ASSUME DecoysDie, SoundInv, [Next]_vars
  PROVE  SoundInv'
<1> USE DEF SoundInv
<1>1. CASE Transmit
  <2>1. nxt \in 0..N /\ N \in 0..N /\ nxt < N
    BY <1>1, StreamAssumption DEF Transmit
  <2>2. PICK n : n = Until(nxt, N)
    OBVIOUS
  <2>3. n \in 0..N /\ nxt < n /\ n <= n /\ nxt' = n
    BY <1>1, <2>1, <2>2, UntilRange DEF Transmit
  <2>4. Segment(nxt, n) \in Sound(n)
    BY <2>1, <2>3, SegmentSound
  <2>5. Sound(nxt) \subseteq Sound(n)
    BY <2>1, <2>3, SoundMonotone
  <2>6. Emit(Segment(nxt, n))
    BY <1>1, <2>2 DEF Transmit
  <2>7. queue' \in Seq(Sound(n)) /\ net' \subseteq {s \in Sound(n) : ~s.decoy}
    BY <2>3, <2>4, <2>5, <2>6, EmitSound
  <2>8. out' \in Seq(Sound(n)) /\ pkt' \in Sound(n) \cup {None}
    BY <1>1, <2>5 DEF Transmit
  <2> QED BY <1>1, <2>3, <2>7, <2>8 DEF Transmit
<1>2. CASE Retransmit
  <2>1. una \in 0..N /\ nxt \in 0..N /\ una < nxt
    BY <1>2 DEF Retransmit
  <2>2. PICK to : to = Until(una, nxt)
    OBVIOUS
  <2>3. to \in 0..N /\ una < to /\ to <= nxt
    BY <2>1, <2>2, UntilRange
  <2>4. PICK n : n = nxt
    OBVIOUS
  <2>5. Segment(una, to) \in Sound(n)
    BY <2>1, <2>3, <2>4, SegmentSound
  <2>6. Emit(Segment(una, to))
    BY <1>2, <2>2 DEF Retransmit
  <2>7. queue' \in Seq(Sound(n)) /\ net' \subseteq {s \in Sound(n) : ~s.decoy}
    BY <2>1, <2>4, <2>5, <2>6, EmitSound
  <2> QED BY <1>2, <2>4, <2>7 DEF Retransmit
<1>3. CASE Acknowledge
  <2>1. una' \in 0..N
    BY <1>3, StreamAssumption DEF Acknowledge
  <2> QED BY <1>3, <2>1 DEF Acknowledge, engineVars
<1>4. CASE Recv
  <2>1. Head(queue) \in Sound(nxt) /\ Tail(queue) \in Seq(Sound(nxt))
    BY <1>4 DEF Recv
  <2>2. conf \in Confs
    BY <1>4 DEF Recv
  <2>3. Process(conf, Head(queue)) \in Seq(Sound(nxt))
    BY <2>1, <2>2, ProcessSound
  <2> QED BY <1>4, <2>1, <2>3 DEF Recv, clientVars
<1>5. CASE Send \/ SendLost
  <2>1. out # <<>> /\ out' = Tail(out) /\ pkt' = (IF Len(out) > 1 THEN pkt ELSE None)
        /\ missed' \in BOOLEAN /\ UNCHANGED <<clientVars, conf, starts, queue, rcvd>>
    BY <1>5 DEF Send, SendLost, Sent
  <2>2. Head(out) \in Sound(nxt) /\ out' \in Seq(Sound(nxt))
    BY <2>1
  <2>3. net' \subseteq {s \in Sound(nxt) : ~s.decoy}
    BY <1>5, <2>2, TravelSound DEF Send, SendLost
  <2>4. shown' \subseteq Segments
    <3>1. shown' \subseteq shown \cup {Head(out)}
      BY <1>5 DEF Send, SendLost, Sent
    <3> QED BY <2>2, <3>1 DEF Sound
  <2> QED BY <2>1, <2>2, <2>3, <2>4 DEF clientVars
<1>6. CASE Start
  BY <1>6 DEF Start, clientVars
<1>7. CASE Close
  <2>1. <<>> \in Seq(Sound(nxt))
    OBVIOUS
  <2> QED BY <1>7, <2>1 DEF Close, clientVars
<1>8. CASE Path
  <2>1. PICK seg \in net : Deliver(seg) \/ Duplicate(seg) \/ Lose(seg)
    BY <1>8 DEF Path
  <2>2. CASE Store(seg)
    <3>1. /\ rcvd' \in [Offsets -> Offsets \cup {Missing}]
          /\ \A i \in Offsets : rcvd'[i] \in {Missing, i}
      BY <2>2, StoreSound
    <3> QED BY <2>1, <3>1 DEF Deliver, Duplicate, Lose, clientVars, engineVars
  <2>3. CASE UNCHANGED rcvd
    BY <2>1, <2>3 DEF Deliver, Duplicate, Lose, clientVars, engineVars
  <2> QED BY <2>1, <2>2, <2>3 DEF Deliver, Duplicate, Lose
<1>9. CASE UNCHANGED vars
  BY <1>9 DEF vars, clientVars, engineVars
<1> QED BY <1>1, <1>2, <1>3, <1>4, <1>5, <1>6, <1>7, <1>8, <1>9 DEF Next, Client, Engine

(* The network is sound in every reachable state if decoys die.            *)
LEMMA SoundInvariant == DecoysDie /\ Spec => []SoundInv
<1>1. DecoysDie /\ SoundInv /\ [Next]_vars => SoundInv'
  BY SoundStep
<1>2. SUFFICES ASSUME DecoysDie
               PROVE  Spec => []SoundInv
  OBVIOUS
<1>3. SoundInv /\ [Next]_vars => SoundInv'
  BY <1>1, <1>2
<1> QED BY SoundInit, <1>3, PTL DEF Spec

-----------------------------------------------------------------------------
(* Every variable stays within its type.                                   *)
THEOREM DeliveryTypeCorrect == DecoysDie /\ Spec => []TypeOK
<1>1. SoundInv => TypeOK
  <2>1. Sound(nxt) \subseteq Segments
    BY DEF Sound
  <2>2. Seq(Sound(nxt)) \subseteq Seq(Segments)
    BY <2>1
  <2> QED BY <2>1, <2>2 DEF SoundInv, TypeOK
<1> QED BY <1>1, SoundInvariant, PTL

(* If decoys die before the server, each byte the server has is the        *)
(* client's, whatever strategy cuts, swaps or precedes the segments (the   *)
(* strategies of desync.go), whatever is lost, duplicated and reordered,   *)
(* however often the engine is closed and started, and wherever the        *)
(* sequence numbers wrap.                                                  *)
THEOREM StreamCorrect == DecoysDie /\ Spec => []StreamIntact
<1>1. SoundInv => StreamIntact
  BY DEF SoundInv, StreamIntact
<1> QED BY <1>1, SoundInvariant, PTL

-----------------------------------------------------------------------------
(* Where a sound segment puts its payload has been sent.                   *)
LEMMA PlacesSent ==
  ASSUME NEW n \in 0..N, NEW seg \in Sound(n)
  PROVE  Places(seg) \in SUBSET (0..(n - 1))
<1>1. /\ seg.from \in 0..N /\ seg.to \in 0..N /\ seg.to <= n /\ seg.from + 0 \in 0..N
      /\ seg.seq = Plus(Isn, seg.from)
  BY StreamAssumption DEF Sound, Segments
<1>2. Offset(seg) = seg.from
  BY <1>1, PlusPlus DEF Offset
<1> QED BY <1>1, <1>2, StreamAssumption DEF Places, Offsets, Length

(* A packet that reaches the server brings bytes that have been sent.      *)
LEMMA StoreArrives ==
  ASSUME NEW seg \in net, SoundInv, Store(seg), UNCHANGED <<una, nxt>>
  PROVE  Stream!Next
<1> DEFINE new == {i \in Places(seg) : rcvd[i] = Missing}
<1>1. seg \in Sound(nxt) /\ ~seg.decoy /\ nxt \in 0..N
  BY DEF SoundInv
<1>2. new \in SUBSET (0..(nxt - 1))
  BY <1>1, PlacesSent
<1>3. \A i \in Places(seg) : Byte(seg, i) = i
  BY <1>1, SoundPlaces
<1>4. rcvd' = [i \in 0..(N - 1) |-> IF i \in new THEN i ELSE rcvd[i]]
  BY <1>3 DEF Store, Offsets
<1>5. Stream!Arrive(new)
  BY <1>4 DEF Stream!Arrive
<1> QED BY <1>2, <1>5 DEF Stream!Next

(* Each step of the connection is one of the byte stream, or none.         *)
LEMMA StreamStep ==
  ASSUME DecoysDie, SoundInv, [Next]_vars
  PROVE  [Stream!Next]_(Stream!vars)
<1>1. CASE Transmit
  <2>1. nxt \in 0..N /\ N \in 0..N /\ nxt < N
    BY <1>1, StreamAssumption DEF Transmit, SoundInv
  <2>2. nxt' \in (nxt + 1)..N
    BY <1>1, <2>1, UntilRange DEF Transmit
  <2> QED BY <1>1, <2>2 DEF Transmit, Stream!Next, Stream!Write
<1>2. CASE Acknowledge
  BY <1>2 DEF Acknowledge, Stream!Next, Stream!Acknowledge
<1>3. CASE Path
  <2>1. PICK seg \in net : Deliver(seg) \/ Duplicate(seg) \/ Lose(seg)
    BY <1>3 DEF Path
  <2>2. CASE Store(seg)
    <3>1. UNCHANGED <<una, nxt>>
      BY <2>1 DEF Deliver, Duplicate, Lose, clientVars
    <3> QED BY <2>2, <3>1, StoreArrives
  <2> QED BY <2>1, <2>2 DEF Deliver, Duplicate, Lose, clientVars, Stream!vars
<1>4. CASE Retransmit \/ Recv \/ Send \/ SendLost \/ Start \/ Close
  BY <1>4 DEF Retransmit, Recv, Send, SendLost, Sent, Start, Close, clientVars, Stream!vars
<1>5. CASE UNCHANGED vars
  BY <1>5 DEF vars, clientVars, Stream!vars
<1> QED BY <1>1, <1>2, <1>3, <1>4, <1>5 DEF Next, Client, Engine

(* If decoys die before the server, the client, the engine that cuts,      *)
(* fakes and reorders its segments, and the path together implement a byte *)
(* stream: what the server has was sent, is the client's, stays, and is    *)
(* there when it is acknowledged.                                          *)
THEOREM StreamImplemented == DecoysDie /\ Spec => ImplementsStream
<1>1. SUFFICES ASSUME DecoysDie
               PROVE  Spec => ImplementsStream
  OBVIOUS
<1>2. Init => Stream!Init
  BY DEF Init, Stream!Init, Offsets
<1>3. SoundInv /\ [Next]_vars => [Stream!Next]_(Stream!vars)
  BY <1>1, StreamStep
<1>4. Spec => []SoundInv
  BY <1>1, SoundInvariant
<1> QED BY <1>2, <1>3, <1>4, PTL DEF Spec, ImplementsStream, Stream!Spec

-----------------------------------------------------------------------------
(* The name is listed, is cut in the middle, has one, and is wholly in the *)
(* first segment.                                                          *)
NameInFirst == Listed /\ SplitPos = "sni" /\ NameTo - NameFrom >= 2 /\ NameTo <= Mss

(* What the client sends begins with the stream and holds the name, or     *)
(* begins behind the place where the name begins; what is sent on begins   *)
(* with the stream and holds the beginning of the name, or begins behind.  *)
Whole == {seg \in Segments : seg.from > NameFrom \/ (seg.from = 0 /\ seg.to >= NameTo)}
Parts == {seg \in Segments : seg.from > NameFrom \/ (seg.from = 0 /\ seg.to > NameFrom)}
Hidden == {seg \in Segments : ~HasName(seg)}

NameInv ==
  /\ una = 0 \/ una > NameFrom
  /\ nxt = 0 \/ nxt >= NameTo
  /\ conf = None => out = <<>>
  /\ queue \in Seq(Whole)
  /\ out \in Seq(Parts)
  /\ net \subseteq Parts
  /\ conf # None /\ conf.Strategy # "fake" => out \in Seq(Hidden)
  /\ (\A i \in 0..NameFrom : rcvd[i] = Missing) \/ (\A i \in 0..NameFrom : rcvd[i] # Missing)

(* Whatever Process returns begins in the right place, and the strategies  *)
(* that cut leave the name in no packet.                                   *)
LEMMA ProcessHides ==
  ASSUME NameInFirst, NEW c \in Confs, NEW seg \in Whole
  PROVE  /\ Process(c, seg) \in Seq(Parts)
         /\ c.Strategy # "fake" => Process(c, seg) \in Seq(Hidden)
<1> DEFINE cut == SplitOffset(seg)
           pos == Clamp(cut, 1, Length(seg) - 1)
           fake == [seg EXCEPT !.ttl = IF c.FakeTTL = 0 THEN DefaultFakeTTL ELSE c.FakeTTL,
                               !.decoy = TRUE]
<1>1. /\ seg \in Segments /\ seg.from \in 0..N /\ seg.to \in 0..N
      /\ NameFrom \in Nat /\ NameTo \in Nat /\ N \in Nat
  BY StreamAssumption DEF Whole, Segments
<1>2. CASE ~Desynced(seg)
  <2>1. seg.from > NameFrom
    BY <1>1, <1>2 DEF Desynced, HasSNI, Whole, NameInFirst
  <2>2. seg \in Parts /\ seg \in Hidden
    BY <1>1, <2>1 DEF Parts, Hidden, HasName
  <2> QED BY <1>2, <2>2 DEF Process, Pass
<1>3. CASE Desynced(seg)
  <2>1. seg.from = 0 /\ seg.to >= NameTo /\ Length(seg) = seg.to
    BY <1>1, <1>3 DEF Desynced, HasSNI, Length
  <2>2. /\ cut = NameFrom + (NameTo - NameFrom) \div 2
        /\ cut \in Nat /\ NameFrom < cut /\ cut < NameTo
    BY <1>1, StreamAssumption DEF SplitOffset, NameInFirst
  <2>3. pos = cut /\ Length(seg) >= 2
    BY <1>1, <2>1, <2>2, StreamAssumption DEF Clamp
  <2>4. First(seg, cut) \in Parts /\ First(seg, cut) \in Hidden
    <3>1. First(seg, cut) \in Segments /\ First(seg, cut).from = 0 /\ First(seg, cut).to = cut
      BY <1>1, <2>1, <2>2 DEF First, Segments
    <3> QED BY <1>1, <2>2, <3>1 DEF Parts, Hidden, HasName
  <2>5. Second(seg, cut) \in Parts /\ Second(seg, cut) \in Hidden
    <3>1. Plus(seg.seq, cut) \in 0..(SeqSpace - 1)
      BY <1>1, <2>2, StreamAssumption DEF Plus, Segments
    <3> HIDE DEF cut
    <3>2. seg.from + cut = cut /\ cut \in 0..N
      BY <1>1, <2>1, <2>2, StreamAssumption
    <3>3. Second(seg, cut) \in Segments /\ Second(seg, cut).from = cut
      BY <1>1, <3>1, <3>2 DEF Second, Segments
    <3>4. Second(seg, cut).from > NameFrom /\ ~(Second(seg, cut).from <= NameFrom)
      BY <1>1, <2>2, <3>3
    <3> QED BY <3>3, <3>4 DEF Parts, Hidden, HasName
  <2>6. fake \in Parts /\ fake \in Hidden
    <3>1. (IF c.FakeTTL = 0 THEN DefaultFakeTTL ELSE c.FakeTTL) \in 0..255
      BY PathAssumption DEF DefaultFakeTTL
    <3>2. fake \in Segments
      BY <1>1, <3>1, ZenonT(40) DEF Segments
    <3>3. fake.from = 0 /\ fake.to = seg.to
      BY <1>1, <2>1 DEF Segments
    <3>4. fake.decoy
      BY <1>1, Zenon DEF Segments
    <3> HIDE DEF fake
    <3>5. fake.to > NameFrom
      BY <1>1, <2>1, <3>3, StreamAssumption
    <3> QED BY <3>2, <3>3, <3>4, <3>5 DEF Parts, Hidden, HasName
  <2>7. seg \in Parts
    BY <1>1, <2>1, StreamAssumption DEF Parts
  <2> DEFINE real == CASE Length(seg) < 2 \/ c.Strategy = "fake" -> <<seg>>
                       [] Length(seg) >= 2 /\ c.Strategy = "disorder" ->
                            <<Second(seg, pos), First(seg, pos)>>
                       [] OTHER -> <<First(seg, pos), Second(seg, pos)>>
  <2>8. real \in Seq(Parts) /\ (c.Strategy # "fake" => real \in Seq(Hidden))
    <3>1. Length(seg) \in Int /\ ~(Length(seg) < 2)
      BY <1>1, <2>1, <2>3
    <3>2. CASE c.Strategy = "fake"
      <4>1. real = <<seg>>
        BY <3>2
      <4> QED BY <2>7, <3>2, <4>1
    <3>3. CASE c.Strategy = "disorder"
      <4>1. real = <<Second(seg, cut), First(seg, cut)>>
        BY <2>3, <3>1, <3>3
      <4> QED BY <2>4, <2>5, <4>1
    <3>4. CASE c.Strategy \notin {"fake", "disorder"}
      <4>1. real = <<First(seg, cut), Second(seg, cut)>>
        BY <2>3, <3>1, <3>4
      <4> QED BY <2>4, <2>5, <4>1
    <3> QED BY <3>2, <3>3, <3>4
  <2>9. Process(c, seg) = Fakes(c.Strategy, seg, c.FakeTTL, real)
    BY <1>3 DEF Process, Apply
  <2> HIDE DEF real
  <2>10. CASE c.Strategy \in {"fake", "fakedsplit"}
    <3>1. Process(c, seg) = <<fake>> \o real
      BY <2>9, <2>10 DEF Fakes
    <3> HIDE DEF fake
    <3>2. <<fake>> \in Seq(Parts) /\ <<fake>> \in Seq(Hidden)
      BY <2>6
    <3> QED BY <2>8, <3>1, <3>2
  <2>11. CASE c.Strategy \notin {"fake", "fakedsplit"}
    BY <2>8, <2>9, <2>11 DEF Fakes
  <2> QED BY <2>10, <2>11
<1> QED BY <1>2, <1>3

(* What sets out leaves on the path what begins in the right place.        *)
LEMMA TravelParts ==
  ASSUME NEW seg \in Parts, net \subseteq Parts, Travel(seg) \/ Vanish
  PROVE  net' \subseteq Parts
BY DEF Travel, Vanish

(* What the client sends, to the engine or past it, does so too.           *)
LEMMA EmitParts ==
  ASSUME NEW seg \in Whole, NameInv, Emit(seg)
  PROVE  queue' \in Seq(Whole) /\ net' \subseteq Parts
<1>1. seg \in Parts
  BY StreamAssumption DEF Whole, Parts, Segments
<1>2. queue \in Seq(Whole) /\ net \subseteq Parts
  BY DEF NameInv
<1>3. CASE queue' = Append(queue, seg) /\ UNCHANGED net
  BY <1>2, <1>3
<1>4. CASE (Travel(seg) \/ Vanish) /\ UNCHANGED queue
  BY <1>1, <1>2, <1>4, TravelParts
<1> QED BY <1>3, <1>4 DEF Emit

(* The server has the beginning of the name and all before it, or none of  *)
(* it, since a packet brings all of that or nothing.                       *)
LEMMA StoreAllOrNothing ==
  ASSUME NEW seg \in net, SoundInv, NameInv, Store(seg)
  PROVE  (\A i \in 0..NameFrom : rcvd'[i] = Missing) \/ (\A i \in 0..NameFrom : rcvd'[i] # Missing)
<1>1. /\ seg \in Sound(nxt) /\ ~seg.decoy /\ nxt \in 0..N /\ seg \in Parts
      /\ seg.from \in 0..N /\ seg.to \in 0..N /\ seg.from + 0 \in 0..N
  BY StreamAssumption DEF SoundInv, NameInv, Sound, Segments
<1>2. Offset(seg) = seg.from
  BY <1>1, PlusPlus DEF Offset, Sound
<1>3. 0..NameFrom \subseteq Offsets /\ NameFrom \in Nat
  BY StreamAssumption DEF Offsets
<1>4. rcvd' = [i \in Offsets |-> IF i \in Places(seg) /\ rcvd[i] = Missing THEN Byte(seg, i) ELSE rcvd[i]]
  BY DEF Store
<1>5. CASE seg.from > NameFrom
  <2>1. \A i \in 0..NameFrom : i \notin Places(seg)
    BY <1>1, <1>2, <1>3, <1>5 DEF Places
  <2>2. \A i \in 0..NameFrom : rcvd'[i] = rcvd[i]
    BY <1>3, <1>4, <2>1
  <2> QED BY <2>2 DEF NameInv
<1>6. CASE seg.from = 0 /\ seg.to > NameFrom
  <2>1. \A i \in 0..NameFrom : i \in Places(seg)
    BY <1>1, <1>2, <1>3, <1>6 DEF Places, Length
  <2>2. \A i \in 0..NameFrom : Byte(seg, i) = i /\ i # Missing
    BY <1>1, <2>1, SoundPlaces, PathAssumption, StreamAssumption
  <2>3. \A i \in 0..NameFrom : rcvd'[i] # Missing
    BY <1>3, <1>4, <2>1, <2>2
  <2> QED BY <2>3
<1> QED BY <1>1, <1>5, <1>6 DEF Parts

(* Before anything is sent the name is nowhere.                            *)
LEMMA NameInit == Init => NameInv
<1> SUFFICES ASSUME Init
             PROVE  NameInv
  OBVIOUS
<1>1. queue \in Seq(Whole) /\ out \in Seq(Parts) /\ out \in Seq(Hidden)
  BY DEF Init
<1>2. \A i \in 0..NameFrom : rcvd[i] = Missing
  BY StreamAssumption DEF Init, Offsets
<1> QED BY <1>1, <1>2 DEF Init, NameInv

(* Each step keeps it so.                                                  *)
LEMMA NameStep ==
  ASSUME NameInFirst, SoundInv, NameInv, [Next]_vars
  PROVE  NameInv'
<1> USE DEF NameInv
<1>0. /\ una \in 0..N /\ nxt \in 0..N /\ N \in Nat /\ Mss \in Nat \ {0}
      /\ NameFrom \in Nat \ {0} /\ NameTo \in Nat /\ NameFrom < NameTo /\ NameTo <= N /\ NameTo <= Mss
  BY StreamAssumption, PathAssumption DEF SoundInv, NameInFirst
<1>1. CASE Transmit
  <2>1. PICK to : to = Until(nxt, N)
    OBVIOUS
  <2>2. to \in 0..N /\ nxt < to /\ to >= NameTo /\ nxt' = to
    BY <1>0, <1>1, <2>1 DEF Transmit, Until
  <2>3. Segment(nxt, to) \in Segments /\ Segment(nxt, to).from = nxt /\ Segment(nxt, to).to = to
    <3>1. to <= to /\ nxt \in 0..N /\ to \in 0..N
      BY <1>0, <2>2
    <3>2. Segment(nxt, to) \in Sound(to)
      BY <2>2, <3>1, SegmentSound
    <3> QED BY <3>2 DEF Sound, Segment
  <2>4. Segment(nxt, to) \in Whole
    BY <1>0, <2>2, <2>3 DEF Whole
  <2>5. Emit(Segment(nxt, to))
    BY <1>1, <2>1 DEF Transmit
  <2>6. queue' \in Seq(Whole) /\ net' \subseteq Parts
    BY <2>4, <2>5, EmitParts
  <2> QED BY <1>1, <2>2, <2>6 DEF Transmit
<1>2. CASE Retransmit
  <2>1. PICK to : to = Until(una, nxt)
    OBVIOUS
  <2>2. to \in 0..N /\ una < to /\ (una = 0 => to >= NameTo)
    BY <1>0, <1>2, <2>1 DEF Retransmit, Until
  <2>3. Segment(una, to) \in Segments /\ Segment(una, to).from = una /\ Segment(una, to).to = to
    <3>1. to <= to /\ una \in 0..N
      BY <1>0, <2>2
    <3>2. Segment(una, to) \in Sound(to)
      BY <2>2, <3>1, SegmentSound
    <3> QED BY <3>2 DEF Sound, Segment
  <2>4. Segment(una, to) \in Whole
    BY <1>0, <2>2, <2>3 DEF Whole
  <2>5. Emit(Segment(una, to))
    BY <1>2, <2>1 DEF Retransmit
  <2>6. queue' \in Seq(Whole) /\ net' \subseteq Parts
    BY <2>4, <2>5, EmitParts
  <2> QED BY <1>2, <2>6 DEF Retransmit
<1>3. CASE Acknowledge
  <2>1. PICK a \in (una + 1)..nxt : /\ \A i \in 0..(a - 1) : rcvd[i] # Missing
                                    /\ a < N => rcvd[a] = Missing
                                    /\ una' = a
    BY <1>3 DEF Acknowledge
  <2>2. a \in Nat /\ a >= 1 /\ a <= N
    BY <1>0, <2>1
  <2>3. rcvd[0] # Missing
    BY <2>1, <2>2
  <2>4. \A i \in 0..NameFrom : rcvd[i] # Missing
    BY <1>0, <2>3
  <2>5. a > NameFrom
    BY <1>0, <2>1, <2>2, <2>4
  <2> QED BY <1>3, <2>1, <2>5 DEF Acknowledge, engineVars
<1>4. CASE Recv
  <2>1. conf \in Confs /\ conf # None
    BY <1>4 DEF Recv, SoundInv
  <2>2. Head(queue) \in Whole /\ Tail(queue) \in Seq(Whole)
    BY <1>4 DEF Recv
  <2>3. /\ Process(conf, Head(queue)) \in Seq(Parts)
        /\ conf.Strategy # "fake" => Process(conf, Head(queue)) \in Seq(Hidden)
    BY <2>1, <2>2, ProcessHides
  <2> QED BY <1>4, <2>1, <2>2, <2>3 DEF Recv, clientVars
<1>5. CASE Send \/ SendLost
  <2>1. out # <<>> /\ out' = Tail(out) /\ UNCHANGED <<clientVars, conf, starts, queue, rcvd>>
    BY <1>5 DEF Send, SendLost, Sent
  <2>2. Head(out) \in Parts /\ out' \in Seq(Parts)
    BY <2>1
  <2>3. net' \subseteq Parts
    BY <1>5, <2>2, TravelParts DEF Send, SendLost
  <2>4. conf # None /\ conf.Strategy # "fake" => out' \in Seq(Hidden)
    BY <2>1
  <2>5. conf # None
    BY <2>1
  <2> QED BY <2>1, <2>2, <2>3, <2>4, <2>5 DEF clientVars
<1>6. CASE Start
  <2>1. out = <<>> /\ UNCHANGED <<una, nxt, queue, out, net, rcvd>>
    BY <1>6 DEF Start, clientVars
  <2>2. <<>> \in Seq(Hidden)
    OBVIOUS
  <2> QED BY <2>1, <2>2
<1>7. CASE Close
  <2>1. <<>> \in Seq(Whole) /\ <<>> \in Seq(Parts)
    OBVIOUS
  <2> QED BY <1>7, <2>1 DEF Close, clientVars
<1>8. CASE Path
  <2>1. PICK seg \in net : Deliver(seg) \/ Duplicate(seg) \/ Lose(seg)
    BY <1>8 DEF Path
  <2>2. net' \subseteq Parts /\ UNCHANGED <<una, nxt, conf, queue, out>>
    BY <2>1 DEF Deliver, Duplicate, Lose, clientVars, engineVars
  <2>3. (\A i \in 0..NameFrom : rcvd'[i] = Missing) \/ (\A i \in 0..NameFrom : rcvd'[i] # Missing)
    <3>1. CASE Store(seg)
      BY <3>1, StoreAllOrNothing
    <3>2. CASE UNCHANGED rcvd
      BY <3>2
    <3> QED BY <2>1, <3>1, <3>2 DEF Deliver, Duplicate, Lose
  <2> QED BY <2>2, <2>3
<1>9. CASE UNCHANGED vars
  BY <1>9 DEF vars, clientVars, engineVars
<1> QED BY <1>1, <1>2, <1>3, <1>4, <1>5, <1>6, <1>7, <1>8, <1>9 DEF Next, Client, Engine

(* "cut the segment in two ... so DPI cannot reassemble the host name": if *)
(* the first segment can hold the whole name and the name has two bytes,   *)
(* then under a cutting strategy no packet carries it, in a retransmission *)
(* either, whatever has been lost or acknowledged and whichever strategies *)
(* were in force before.                                                   *)
THEOREM NameStaysHidden == DecoysDie /\ NameInFirst /\ Spec => []NameHidden
<1>1. SUFFICES ASSUME DecoysDie, NameInFirst
               PROVE  Spec => []NameHidden
  OBVIOUS
<1>2. NameInv => NameHidden
  BY DEF NameInv, NameHidden, Hidden
<1>3. SoundInv /\ NameInv /\ [Next]_vars => NameInv'
  BY <1>1, NameStep
<1>4. Spec => []SoundInv
  BY <1>1, SoundInvariant
<1> QED BY <1>2, <1>3, <1>4, NameInit, PTL DEF Spec

-----------------------------------------------------------------------------
(* A segment as the client sends it.                                       *)
ClientSegments == {seg \in Segments : /\ seg.from < seg.to
                                      /\ seg.seq = Plus(Isn, seg.from)
                                      /\ seg.ttl = ClientTTL /\ ~seg.decoy}

(* The decoys of every configuration come as far as the DPI box.           *)
FakesReachBox == \A c \in Confs :
  c.Strategy \in {"fake", "fakedsplit"} =>
    (IF c.FakeTTL = 0 THEN DefaultFakeTTL ELSE c.FakeTTL) >= DpiHop

(* A decoy covers the whole packet and comes as far as the DPI box; once   *)
(* none leads what is left to send, the box has been shown it.             *)
DecoyLed ==
  /\ \A k \in 1..Len(out) :
       /\ Places(out[k]) \subseteq Places(pkt)
       /\ out[k].decoy => Places(out[k]) = Places(pkt) /\ out[k].ttl >= DpiHop
  /\ ~missed => out[1].decoy \/ \E d \in shown : d.decoy /\ Places(d) = Places(pkt)

(* What is left to send ends where the packet does, or follows a part that *)
(* does, comes as far as the DPI box and begins where it ends itself.      *)
EndLed ==
  \/ \A k \in 1..Len(out) : out[k].to = pkt.to
  \/ /\ Len(out) = 2
     /\ out[1].to = pkt.to /\ out[1].ttl >= DpiHop /\ ~out[1].decoy
     /\ out[2].to = out[1].from
  \/ /\ Len(out) = 1
     /\ ~missed => \E s \in shown : ~s.decoy /\ s.from = out[1].to /\ s.to = pkt.to

Leading == pkt # None /\ Desynced(pkt) /\ out # <<>> =>
  /\ conf # None /\ conf.Strategy \in {"fake", "fakedsplit"} => DecoyLed
  /\ conf # None /\ conf.Strategy = "disorder" => EndLed

LeadInv ==
  /\ una \in 0..N
  /\ nxt \in 0..N
  /\ conf \in Confs \cup {None}
  /\ queue \in Seq(ClientSegments)
  /\ pkt \in ClientSegments \cup {None}
  /\ out \in Seq(Segments)
  /\ conf = None => pkt = None
  /\ Leading

(* Where a segment of the client puts its payload.                         *)
LEMMA ClientPlaces ==
  ASSUME NEW seg \in ClientSegments
  PROVE  Places(seg) = {i \in Offsets : seg.from <= i /\ i < seg.to}
<1>1. /\ seg.from \in 0..N /\ seg.to \in 0..N /\ seg.from + 0 \in 0..N
      /\ seg.seq = Plus(Isn, seg.from)
  BY StreamAssumption DEF ClientSegments, Segments
<1>2. Offset(seg) = seg.from
  BY <1>1, PlusPlus DEF Offset
<1> QED BY <1>1, <1>2, StreamAssumption DEF Places, Length, Offsets

(* The two halves partition the places of the segment, and the first ends  *)
(* where the second begins.                                                *)
LEMMA HalvesPartition ==
  ASSUME NEW seg \in ClientSegments, NEW pos \in 1..(Length(seg) - 1)
  PROVE  /\ First(seg, pos) \in ClientSegments /\ Second(seg, pos) \in ClientSegments
         /\ Second(seg, pos).to = seg.to
         /\ First(seg, pos).to = Second(seg, pos).from
         /\ Places(First(seg, pos)) \cup Places(Second(seg, pos)) = Places(seg)
         /\ Places(First(seg, pos)) \cap Places(Second(seg, pos)) = {}
<1>1. /\ seg \in Segments /\ seg.from \in 0..N /\ seg.to \in 0..N /\ seg.from < seg.to
      /\ seg.ttl = ClientTTL /\ ~seg.decoy /\ seg.seq = Plus(Isn, seg.from)
  BY DEF ClientSegments, Segments
<1>2. PICK cut : cut = seg.from + pos
  OBVIOUS
<1>3. /\ pos \in Nat /\ pos >= 1 /\ cut \in 0..N /\ cut \in Offsets
      /\ cut > seg.from /\ cut < seg.to
  BY <1>1, <1>2, StreamAssumption DEF Length, Offsets
<1>4. First(seg, pos) = [seg EXCEPT !.to = cut]
  BY <1>2 DEF First
<1>5. First(seg, pos) \in ClientSegments
  BY <1>1, <1>3, <1>4 DEF ClientSegments, Segments
<1>6. Plus(seg.seq, pos) = Plus(Isn, cut) /\ Plus(Isn, cut) \in 0..(SeqSpace - 1)
  <2>1. seg.from + pos \in 0..N /\ cut + 0 \in 0..N
    BY <1>2, <1>3
  <2>2. Plus(seg.seq, pos) = Plus(Isn, seg.from + pos)
    BY <1>1, <1>3, <2>1, PlusPlus
  <2>3. Plus(Isn, cut) \in 0..(SeqSpace - 1)
    BY <1>3, <2>1, PlusPlus
  <2> QED BY <1>2, <2>2, <2>3
<1>7. Second(seg, pos) = [seg EXCEPT !.from = cut, !.seq = Plus(Isn, cut)]
  BY <1>1, <1>2, <1>6 DEF Second
<1>8. Second(seg, pos) \in ClientSegments
  <2>1. Second(seg, pos) \in Segments
    <3>1. PICK q : q = Plus(Isn, cut)
      OBVIOUS
    <3>2. q \in 0..(SeqSpace - 1) /\ Second(seg, pos) = [seg EXCEPT !.from = cut, !.seq = q]
      BY <1>6, <1>7, <3>1
    <3>3. Second(seg, pos) =
            [from |-> cut, to |-> seg.to, seq |-> q, ttl |-> seg.ttl, decoy |-> seg.decoy]
      BY <1>1, <3>2 DEF Segments
    <3> QED BY <1>1, <1>3, <3>2, <3>3 DEF Segments
  <2>2. /\ Second(seg, pos).from = cut /\ Second(seg, pos).seq = Plus(Isn, cut)
        /\ Second(seg, pos).to = seg.to /\ Second(seg, pos).ttl = ClientTTL
    BY <1>1, <1>7 DEF Segments
  <2>3. Second(seg, pos).decoy = seg.decoy
    BY <1>1, <1>7 DEF Segments
  <2> QED BY <1>1, <1>3, <2>1, <2>2, <2>3 DEF ClientSegments
<1>9. /\ First(seg, pos).from = seg.from /\ First(seg, pos).to = cut
      /\ Second(seg, pos).from = cut /\ Second(seg, pos).to = seg.to
  BY <1>1, <1>4, <1>7 DEF Segments
<1>10. /\ Places(seg) = {i \in Offsets : seg.from <= i /\ i < seg.to}
       /\ Places(First(seg, pos)) = {i \in Offsets : seg.from <= i /\ i < cut}
       /\ Places(Second(seg, pos)) = {i \in Offsets : cut <= i /\ i < seg.to}
  BY <1>5, <1>8, <1>9, ClientPlaces
<1>11. \A i \in Offsets : i \in Int
  BY StreamAssumption DEF Offsets
<1>12. /\ Places(First(seg, pos)) \cup Places(Second(seg, pos)) = Places(seg)
       /\ Places(First(seg, pos)) \cap Places(Second(seg, pos)) = {}
  <2>1. \A i \in Offsets : (seg.from <= i /\ i < cut) \/ (cut <= i /\ i < seg.to)
                             <=> (seg.from <= i /\ i < seg.to)
    BY <1>1, <1>3, <1>11
  <2>2. \A i \in Offsets : ~(i < cut /\ cut <= i)
    BY <1>3, <1>11
  <2> QED BY <1>10, <2>1, <2>2, Zenon
<1> QED BY <1>5, <1>8, <1>9, <1>12

Decoy(c, seg) ==
  [seg EXCEPT !.ttl = IF c.FakeTTL = 0 THEN DefaultFakeTTL ELSE c.FakeTTL, !.decoy = TRUE]

(* What a decoy before one segment or two is.                              *)
LEMMA InFront ==
  ASSUME NEW d, NEW a, NEW b
  PROVE  <<d>> \o <<a>> = <<d, a>> /\ <<d>> \o <<a, b>> = <<d, a, b>>
<1> PICK S : S = {d, a, b}
  OBVIOUS
<1>1. /\ <<d>> \in Seq(S) /\ <<a>> \in Seq(S) /\ <<a, b>> \in Seq(S)
      /\ <<d, a>> \in Seq(S) /\ <<d, a, b>> \in Seq(S)
  <2>1. d \in S /\ a \in S /\ b \in S
    OBVIOUS
  <2> QED BY <2>1
<1> DEFINE one == <<d>> \o <<a>>
           two == <<d>> \o <<a, b>>
<1>2. one \in Seq(S) /\ Len(one) = 2 /\ one[1] = d /\ one[2] = a
  BY <1>1, ConcatProperties
<1>3. two \in Seq(S) /\ Len(two) = 3 /\ two[1] = d /\ two[2] = a /\ two[3] = b
  BY <1>1, ConcatProperties
<1> HIDE DEF one, two
<1>4. one = <<d, a>>
  BY <1>1, <1>2, SeqEqual
<1>5. two = <<d, a, b>>
  <2>1. \A i \in 1..3 : two[i] = <<d, a, b>>[i]
    BY <1>3
  <2> QED BY <1>1, <1>3, <2>1, SeqEqual
<1> QED BY <1>4, <1>5 DEF one, two

(* What Apply makes of a segment, strategy by strategy.                    *)
LEMMA ProcessShape ==
  ASSUME NEW c \in Confs, NEW seg \in ClientSegments, Desynced(seg)
  PROVE  /\ c.Strategy \in {"fake", "fakedsplit"} =>
              \/ Process(c, seg) = <<Decoy(c, seg), seg>>
              \/ \E pos \in 1..(Length(seg) - 1) :
                   Process(c, seg) = <<Decoy(c, seg), First(seg, pos), Second(seg, pos)>>
         /\ c.Strategy = "disorder" =>
              \/ Process(c, seg) = <<seg>>
              \/ \E pos \in 1..(Length(seg) - 1) :
                   Process(c, seg) = <<Second(seg, pos), First(seg, pos)>>
         /\ c.Strategy = "split" =>
              \/ Process(c, seg) = <<seg>>
              \/ \E pos \in 1..(Length(seg) - 1) :
                   Process(c, seg) = <<First(seg, pos), Second(seg, pos)>>
<1> DEFINE off == SplitOffset(seg)
           pos == Clamp(off, 1, Length(seg) - 1)
           real == CASE Length(seg) < 2 \/ c.Strategy = "fake" -> <<seg>>
                     [] Length(seg) >= 2 /\ c.Strategy = "disorder" ->
                          <<Second(seg, pos), First(seg, pos)>>
                     [] OTHER -> <<First(seg, pos), Second(seg, pos)>>
<1>1. seg.from \in Nat /\ seg.to \in Nat /\ seg.from < seg.to /\ Length(seg) \in Nat
  BY StreamAssumption DEF ClientSegments, Segments, Length
<1>2. off \in Int
  BY <1>1, StreamAssumption DEF SplitOffset
<1>3. ASSUME Length(seg) >= 2
      PROVE  pos \in 1..(Length(seg) - 1)
  <2>1. Length(seg) - 1 \in Int /\ Length(seg) - 1 >= 1
    BY <1>1, <1>3
  <2> QED BY <1>2, <2>1, ClampInside
<1>4. Process(c, seg) = Fakes(c.Strategy, seg, c.FakeTTL, real)
  BY DEF Process, Apply
<1> HIDE DEF pos
<1>5. \/ real = <<seg>>
      \/ pos \in 1..(Length(seg) - 1) /\ c.Strategy # "disorder"
           /\ real = <<First(seg, pos), Second(seg, pos)>>
      \/ pos \in 1..(Length(seg) - 1) /\ c.Strategy = "disorder"
           /\ real = <<Second(seg, pos), First(seg, pos)>>
  <2>1. CASE Length(seg) < 2 \/ c.Strategy = "fake"
    <3>1. real = <<seg>>
      BY <1>1, <2>1
    <3> QED BY <3>1
  <2>2. CASE Length(seg) >= 2 /\ c.Strategy = "disorder"
    BY <1>1, <1>3, <2>2
  <2>3. CASE Length(seg) >= 2 /\ c.Strategy \notin {"disorder", "fake"}
    BY <1>1, <1>3, <2>3
  <2> QED BY <1>1, <2>1, <2>2, <2>3
<1> HIDE DEF real
<1>6. CASE c.Strategy \in {"fake", "fakedsplit"}
  <2>1. Process(c, seg) = <<Decoy(c, seg)>> \o real
    BY <1>4, <1>6 DEF Fakes, Decoy
  <2>2. CASE real = <<seg>>
    <3>1. Process(c, seg) = <<Decoy(c, seg), seg>>
      BY <2>1, <2>2, InFront
    <3> QED BY <1>6, <3>1
  <2>3. CASE pos \in 1..(Length(seg) - 1) /\ real = <<First(seg, pos), Second(seg, pos)>>
    <3>1. Process(c, seg) = <<Decoy(c, seg), First(seg, pos), Second(seg, pos)>>
      BY <2>1, <2>3, InFront
    <3> QED BY <1>6, <2>3, <3>1
  <2> QED BY <1>5, <1>6, <2>2, <2>3
<1>7. CASE c.Strategy \notin {"fake", "fakedsplit"}
  <2>1. Process(c, seg) = real
    BY <1>4, <1>7 DEF Fakes
  <2> QED BY <1>5, <1>7, <2>1
<1> QED BY <1>6, <1>7

(* A decoy is placed where the packet is and comes as far as the DPI box.  *)
LEMMA DecoyCovers ==
  ASSUME FakesReachBox, NEW c \in Confs, c.Strategy \in {"fake", "fakedsplit"},
         NEW seg \in ClientSegments
  PROVE  /\ Decoy(c, seg) \in Segments /\ Decoy(c, seg).decoy
         /\ Places(Decoy(c, seg)) = Places(seg)
         /\ Decoy(c, seg).ttl >= DpiHop
<1>1. seg \in Segments /\ c.FakeTTL \in 0..255 /\ DpiHop \in Nat
  BY PathAssumption DEF ClientSegments
<1>2. PICK t : t = IF c.FakeTTL = 0 THEN DefaultFakeTTL ELSE c.FakeTTL
  OBVIOUS
<1>3. t \in 0..255 /\ t >= DpiHop
  BY <1>1, <1>2 DEF DefaultFakeTTL, FakesReachBox
<1>4. Decoy(c, seg) = [seg EXCEPT !.ttl = t, !.decoy = TRUE]
  BY <1>2 DEF Decoy
<1>5. Decoy(c, seg) \in Segments
  <2>1. t \in 0..255 /\ TRUE \in BOOLEAN
    BY <1>3
  <2>2. Decoy(c, seg) = [from |-> seg.from, to |-> seg.to, seq |-> seg.seq, ttl |-> t, decoy |-> TRUE]
    BY <1>1, <1>4 DEF Segments
  <2> QED BY <1>1, <2>1, <2>2 DEF Segments
<1>6. /\ Decoy(c, seg).ttl = t /\ Decoy(c, seg).from = seg.from
      /\ Decoy(c, seg).to = seg.to /\ Decoy(c, seg).seq = seg.seq
  BY <1>1, <1>4 DEF Segments
<1>7. Decoy(c, seg).decoy
  BY <1>1, <1>4, Zenon DEF Segments
<1>8. Places(Decoy(c, seg)) = Places(seg)
  BY <1>6 DEF Places, Offset, Length
<1> QED BY <1>3, <1>5, <1>6, <1>7, <1>8

(* So it is with what is to be sent when a packet has been processed.      *)
LEMMA ProcessLeads ==
  ASSUME FakesReachBox, NEW c \in Confs, NEW seg \in ClientSegments, Desynced(seg),
         NEW P, P = Process(c, seg)
  PROVE  /\ P \in Seq(Segments)
         /\ c.Strategy \in {"fake", "fakedsplit"} =>
              /\ P[1].decoy
              /\ \A k \in 1..Len(P) :
                   /\ Places(P[k]) \subseteq Places(seg)
                   /\ P[k].decoy => Places(P[k]) = Places(seg) /\ P[k].ttl >= DpiHop
         /\ c.Strategy = "disorder" =>
              \/ \A k \in 1..Len(P) : P[k].to = seg.to
              \/ /\ Len(P) = 2
                 /\ P[1].to = seg.to /\ P[1].ttl >= DpiHop /\ ~P[1].decoy
                 /\ P[2].to = P[1].from
<1>1. seg \in Segments /\ ClientSegments \subseteq Segments /\ ~seg.decoy
  BY DEF ClientSegments
<1>2. \A s \in ClientSegments : s.ttl >= DpiHop /\ ~s.decoy
  BY PathAssumption DEF ClientSegments
<1>3. CASE c.Strategy \in {"fake", "fakedsplit"}
  <2> PICK d : d = Decoy(c, seg)
    OBVIOUS
  <2>1. d \in Segments /\ d.decoy /\ Places(d) = Places(seg) /\ d.ttl >= DpiHop
    BY <1>3, DecoyCovers
  <2>2. CASE P = <<d, seg>>
    <3>1. P \in Seq(Segments) /\ Len(P) = 2 /\ P[1] = d /\ P[2] = seg
      BY <1>1, <2>1, <2>2
    <3>2. \A k \in 1..Len(P) : P[k] = d \/ P[k] = seg
      BY <3>1
    <3> QED BY <1>1, <1>3, <2>1, <3>1, <3>2
  <2>3. ASSUME NEW pos \in 1..(Length(seg) - 1), P = <<d, First(seg, pos), Second(seg, pos)>>
        PROVE  /\ P \in Seq(Segments) /\ P[1].decoy
               /\ \A k \in 1..Len(P) :
                   /\ Places(P[k]) \subseteq Places(seg)
                   /\ P[k].decoy => Places(P[k]) = Places(seg) /\ P[k].ttl >= DpiHop
    <3> PICK a, b : a = First(seg, pos) /\ b = Second(seg, pos)
      OBVIOUS
    <3>1. /\ a \in ClientSegments /\ b \in ClientSegments
          /\ Places(a) \subseteq Places(seg) /\ Places(b) \subseteq Places(seg)
      BY HalvesPartition
    <3>2. P \in Seq(Segments) /\ Len(P) = 3 /\ P[1] = d /\ P[2] = a /\ P[3] = b
      BY <1>1, <2>1, <2>3, <3>1
    <3>3. \A k \in 1..Len(P) : P[k] = d \/ P[k] = a \/ P[k] = b
      BY <3>2
    <3> QED BY <1>2, <2>1, <3>1, <3>2, <3>3
  <2> QED BY <1>3, <2>2, <2>3, ProcessShape
<1>4. CASE c.Strategy = "disorder"
  <2>1. CASE P = <<seg>>
    BY <1>1, <1>4, <2>1
  <2>2. ASSUME NEW pos \in 1..(Length(seg) - 1), P = <<Second(seg, pos), First(seg, pos)>>
        PROVE  /\ P \in Seq(Segments)
               /\ Len(P) = 2 /\ P[1].to = seg.to /\ P[1].ttl >= DpiHop /\ ~P[1].decoy
               /\ P[2].to = P[1].from
    <3> PICK a, b : a = First(seg, pos) /\ b = Second(seg, pos)
      OBVIOUS
    <3>1. /\ a \in ClientSegments /\ b \in ClientSegments
          /\ b.to = seg.to /\ a.to = b.from
      BY HalvesPartition
    <3> QED BY <1>1, <1>2, <2>2, <3>1
  <2> QED BY <1>4, <2>1, <2>2, ProcessShape
<1>5. CASE c.Strategy = "split"
  <2>1. CASE P = <<seg>>
    BY <1>1, <1>5, <2>1
  <2>2. ASSUME NEW pos \in 1..(Length(seg) - 1), P = <<First(seg, pos), Second(seg, pos)>>
        PROVE  P \in Seq(Segments)
    <3>1. First(seg, pos) \in Segments /\ Second(seg, pos) \in Segments
      BY <1>1, HalvesPartition
    <3> QED BY <2>2, <3>1
  <2> QED BY <1>5, <2>1, <2>2, ProcessShape
<1> QED BY <1>3, <1>4, <1>5, PathAssumption DEF Strategies

(* The client's segments.                                                  *)
LEMMA SegmentOfClient ==
  ASSUME NEW from \in 0..N, NEW to \in 0..N, from < to
  PROVE  Segment(from, to) \in ClientSegments
<1>1. from + 0 \in 0..N
  BY StreamAssumption
<1>2. Plus(Isn, from) \in 0..(SeqSpace - 1)
  BY <1>1, PlusPlus
<1> QED BY <1>2, PathAssumption DEF Segment, ClientSegments, Segments

(* What is left to send goes on leading when its first packet is sent.     *)
LEMMA SentLeads ==
  ASSUME LeadInv, NEW lost \in BOOLEAN, Sent(lost)
  PROVE  Leading'
<1>1. /\ out # <<>> /\ out' = Tail(out) /\ conf' = conf /\ out \in Seq(Segments)
      /\ pkt' = (IF Len(out) > 1 THEN pkt ELSE None)
      /\ missed' = (Len(out) > 1 /\ (missed \/ lost))
  BY DEF Sent, LeadInv
<1> SUFFICES ASSUME pkt' # None, Desynced(pkt'), out' # <<>>, conf' # None
             PROVE  /\ conf'.Strategy \in {"fake", "fakedsplit"} => DecoyLed'
                    /\ conf'.Strategy = "disorder" => EndLed'
  BY DEF Leading
<1>2. /\ Len(out) > 1 /\ pkt' = pkt /\ pkt # None /\ missed' = (missed \/ lost)
      /\ Len(out') = Len(out) - 1 /\ \A k \in 1..Len(out') : out'[k] = out[k + 1]
  BY <1>1
<1>3. Leading /\ Desynced(pkt)
  BY <1>2 DEF LeadInv
<1>4. Head(out) = out[1] /\ out[1] \in Segments /\ Len(out) \in Nat
  BY <1>1
<1>5. ~missed' => shown \subseteq shown' /\ (out[1].ttl >= DpiHop => out[1] \in shown')
  <2>1. shown' = IF lost \/ out[1].ttl < DpiHop THEN shown ELSE shown \cup {out[1]}
    BY <1>2, <1>4 DEF Sent
  <2>2. out[1].ttl >= DpiHop => ~(out[1].ttl < DpiHop)
    <3>1. PICK t \in 0..255 : t = out[1].ttl
      BY <1>4 DEF Segments
    <3>2. t >= DpiHop => ~(t < DpiHop)
      BY PathAssumption
    <3> QED BY <3>1, <3>2, Zenon
  <2> QED BY <1>2, <2>1, <2>2
<1>6. ASSUME conf.Strategy \in {"fake", "fakedsplit"}
      PROVE  DecoyLed'
  <2>1. DecoyLed
    BY <1>1, <1>3, <1>6, <1>2 DEF Leading
  <2>2. \A k \in 1..Len(out') : k + 1 \in 1..Len(out)
    BY <1>2, <1>4
  <2>3. ASSUME NEW k \in 1..Len(out')
        PROVE  /\ Places(out'[k]) \subseteq Places(pkt)
               /\ out'[k].decoy => Places(out'[k]) = Places(pkt) /\ out'[k].ttl >= DpiHop
    BY <1>2, <2>1, <2>2 DEF DecoyLed
  <2>4. ASSUME ~missed'
        PROVE  \E d \in shown' : d.decoy /\ Places(d) = Places(pkt)
    <3>1. out[1].decoy \/ \E d \in shown : d.decoy /\ Places(d) = Places(pkt)
      BY <1>2, <2>1, <2>4 DEF DecoyLed
    <3>2. out[1].decoy => Places(out[1]) = Places(pkt) /\ out[1].ttl >= DpiHop
      BY <1>2, <1>4, <2>1 DEF DecoyLed
    <3> QED BY <1>5, <2>4, <3>1, <3>2
  <2> QED BY <1>1, <1>2, <2>3, <2>4 DEF DecoyLed, Places, Offset, Length
<1>7. ASSUME conf.Strategy = "disorder"
      PROVE  EndLed'
  <2>1. EndLed
    BY <1>1, <1>3, <1>7, <1>2 DEF Leading
  <2>2. CASE \A k \in 1..Len(out) : out[k].to = pkt.to
    <3>1. \A k \in 1..Len(out') : out'[k].to = pkt.to
      BY <1>2, <1>4, <2>2
    <3> QED BY <1>2, <3>1 DEF EndLed
  <2>3. CASE /\ Len(out) = 2 /\ out[1].to = pkt.to /\ out[1].ttl >= DpiHop /\ ~out[1].decoy
             /\ out[2].to = out[1].from
    <3>1. Len(out') = 1 /\ out'[1] = out[2]
      BY <1>2, <2>3
    <3>2. ~missed' => out[1] \in shown'
      BY <1>5, <2>3
    <3> QED BY <1>2, <2>3, <3>1, <3>2 DEF EndLed
  <2> QED BY <1>2, <2>1, <2>2, <2>3 DEF EndLed
<1> QED BY <1>1, <1>6, <1>7

(* Before anything is captured nothing is led.                             *)
LEMMA LeadInit == Init => LeadInv
<1> SUFFICES ASSUME Init
             PROVE  LeadInv
  OBVIOUS
<1>1. queue \in Seq(ClientSegments) /\ out \in Seq(Segments)
  BY DEF Init
<1> QED BY <1>1, StreamAssumption DEF Init, LeadInv, Leading

(* Each step keeps the lead.                                               *)
LEMMA LeadStep ==
  ASSUME FakesReachBox, LeadInv, [Next]_vars
  PROVE  LeadInv'
<1>0. /\ una \in 0..N /\ nxt \in 0..N /\ N \in Nat /\ Mss \in Nat \ {0}
      /\ queue \in Seq(ClientSegments) /\ out \in Seq(Segments)
      /\ conf \in Confs \cup {None} /\ pkt \in ClientSegments \cup {None}
      /\ conf = None => pkt = None
      /\ None \notin ClientSegments /\ None \notin Confs
  BY StreamAssumption, PathAssumption DEF LeadInv, ClientSegments
<1>1. ASSUME NEW seg \in ClientSegments, Emit(seg), una' \in 0..N, nxt' \in 0..N,
             UNCHANGED <<conf, starts, pkt, out, shown, missed>>
      PROVE  LeadInv'
  <2>1. queue' \in Seq(ClientSegments)
    BY <1>0, <1>1, SMTT(30) DEF Emit
  <2>2. Leading'
    <3>1. Leading
      BY DEF LeadInv
    <3> QED BY <1>1, <3>1 DEF Leading, DecoyLed, EndLed
  <2> QED BY <1>0, <1>1, <2>1, <2>2 DEF LeadInv
<1>2. CASE Transmit
  <2>1. PICK to : to = Until(nxt, N)
    OBVIOUS
  <2>2. N \in 0..N /\ nxt < N
    BY <1>0, <1>2 DEF Transmit
  <2>3. to \in 0..N /\ nxt < to
    BY <1>0, <2>1, <2>2, UntilRange
  <2>4. Segment(nxt, to) \in ClientSegments
    BY <1>0, <2>3, SegmentOfClient
  <2> QED BY <1>0, <1>1, <1>2, <2>1, <2>3, <2>4 DEF Transmit
<1>3. CASE Retransmit
  <2>1. PICK to : to = Until(una, nxt)
    OBVIOUS
  <2>2. una < nxt
    BY <1>3 DEF Retransmit
  <2>3. to \in 0..N /\ una < to
    BY <1>0, <2>1, <2>2, UntilRange
  <2>4. Segment(una, to) \in ClientSegments
    BY <1>0, <2>3, SegmentOfClient
  <2> QED BY <1>0, <1>1, <1>3, <2>1, <2>3, <2>4 DEF Retransmit
<1>4. ASSUME UNCHANGED <<conf, queue, pkt, out, shown, missed>>, una' \in 0..N, nxt' \in 0..N
      PROVE  LeadInv'
  <2>1. Leading'
    <3>1. Leading
      BY DEF LeadInv
    <3> QED BY <1>4, <3>1 DEF Leading, DecoyLed, EndLed
  <2> QED BY <1>0, <1>4, <2>1 DEF LeadInv
<1>5. CASE Acknowledge
  <2>1. una' \in 0..N
    BY <1>0, <1>5 DEF Acknowledge
  <2> QED BY <1>0, <1>4, <1>5, <2>1 DEF Acknowledge, engineVars
<1>6. CASE Recv
  <2>1. PICK seg : seg = Head(queue)
    OBVIOUS
  <2>2. seg \in ClientSegments /\ queue' \in Seq(ClientSegments) /\ seg # None
    BY <1>0, <1>6, <2>1 DEF Recv
  <2>3. /\ conf \in Confs /\ conf' = conf /\ pkt' = seg /\ out' = Process(conf, seg)
        /\ UNCHANGED <<una, nxt, shown, missed>>
    BY <1>0, <1>6, <2>1 DEF Recv, clientVars
  <2>4. CASE Desynced(seg)
    <3>1. PICK P : P = Process(conf, seg)
      OBVIOUS
    <3>2. /\ P \in Seq(Segments)
          /\ conf.Strategy \in {"fake", "fakedsplit"} =>
               /\ P[1].decoy
               /\ \A k \in 1..Len(P) :
                    /\ Places(P[k]) \subseteq Places(seg)
                    /\ P[k].decoy => Places(P[k]) = Places(seg) /\ P[k].ttl >= DpiHop
          /\ conf.Strategy = "disorder" =>
               \/ \A k \in 1..Len(P) : P[k].to = seg.to
               \/ /\ Len(P) = 2
                  /\ P[1].to = seg.to /\ P[1].ttl >= DpiHop /\ ~P[1].decoy
                  /\ P[2].to = P[1].from
      BY <2>2, <2>3, <2>4, <3>1, ProcessLeads
    <3>3. out' = P
      BY <2>3, <3>1
    <3>4. conf.Strategy \in {"fake", "fakedsplit"} => DecoyLed'
      BY <2>3, <3>2, <3>3 DEF DecoyLed, Places, Offset, Length
    <3>5. conf.Strategy = "disorder" => EndLed'
      BY <2>3, <3>2, <3>3 DEF EndLed, Places, Offset, Length
    <3>6. Leading'
      BY <2>3, <3>4, <3>5 DEF Leading
    <3> QED BY <1>0, <2>2, <2>3, <3>2, <3>3, <3>6 DEF LeadInv
  <2>5. CASE ~Desynced(seg)
    <3>1. out' = <<seg>> /\ seg \in Segments
      BY <2>2, <2>3, <2>5 DEF Process, Pass, ClientSegments
    <3>2. Leading'
      BY <2>3, <2>5 DEF Leading, Desynced, HasSNI
    <3> QED BY <1>0, <2>2, <2>3, <3>1, <3>2 DEF LeadInv
  <2> QED BY <2>4, <2>5
<1>7. CASE Send \/ SendLost
  <2>1. PICK lost \in BOOLEAN : Sent(lost)
    BY <1>7 DEF Send, SendLost
  <2>2. Leading'
    BY <2>1, SentLeads
  <2>3. /\ out' \in Seq(Segments) /\ pkt' \in {pkt, None}
        /\ UNCHANGED <<una, nxt, conf, queue>>
    BY <1>0, <2>1 DEF Sent, clientVars
  <2> QED BY <1>0, <2>2, <2>3 DEF LeadInv
<1>8. CASE Start
  <2>1. /\ pkt = None /\ pkt' = None /\ conf' \in Confs
        /\ UNCHANGED <<una, nxt, queue, out>>
    BY <1>0, <1>8 DEF Start, clientVars
  <2>2. Leading'
    BY <2>1 DEF Leading
  <2> QED BY <1>0, <2>1, <2>2 DEF LeadInv
<1>9. CASE Close
  <2>1. <<>> \in Seq(ClientSegments) /\ <<>> \in Seq(Segments)
    OBVIOUS
  <2>2. /\ pkt' = None /\ conf' = None /\ queue' = <<>> /\ out' = <<>>
        /\ UNCHANGED <<una, nxt>>
    BY <1>9 DEF Close, clientVars
  <2>3. Leading'
    BY <2>2 DEF Leading
  <2> QED BY <1>0, <2>1, <2>2, <2>3 DEF LeadInv
<1>10. CASE Path
  BY <1>0, <1>4, <1>10 DEF Path, Deliver, Duplicate, Lose, clientVars, engineVars
<1>11. CASE UNCHANGED vars
  BY <1>0, <1>4, <1>11 DEF vars, clientVars, engineVars
<1> QED BY <1>2, <1>3, <1>5, <1>6, <1>7, <1>8, <1>9, <1>10, <1>11 DEF Next, Client, Engine

(* "decoy first", "second half first" (desync.go): if the TTLs of decoys   *)
(* reach the DPI box, then whenever real data of a ClientHello is about to *)
(* be sent, for the first time or again, the box has just been shown a     *)
(* decoy for it, or what comes after it, unless a packet was lost before   *)
(* the box; for every stream, path, strategy and cut, and whatever is      *)
(* restarted or closed in between.  That decoys die before the server is   *)
(* not needed.                                                             *)
THEOREM BoxMisled == FakesReachBox /\ Spec => []Misled
<1>1. LeadInv => Misled
  <2> SUFFICES ASSUME LeadInv, pkt # None, Desynced(pkt), out # <<>>, ~missed
               PROVE  /\ conf.Strategy \in {"fake", "fakedsplit"} /\ ~Head(out).decoy =>
                           \E d \in shown : d.decoy /\ Places(Head(out)) \subseteq Places(d)
                      /\ conf.Strategy = "disorder" /\ Head(out).to < pkt.to =>
                           \E s \in shown : ~s.decoy /\ s.from = Head(out).to /\ s.to = pkt.to
    BY DEF Misled
  <2>1. out \in Seq(Segments) /\ conf # None /\ Leading /\ pkt.to \in 0..N
    BY DEF LeadInv, ClientSegments, Segments
  <2>2. 1 \in 1..Len(out) /\ Head(out) = out[1] /\ ~(pkt.to < pkt.to)
    BY <2>1, StreamAssumption
  <2>3. conf.Strategy \in {"fake", "fakedsplit"} => DecoyLed
    BY <2>1 DEF Leading
  <2>4. conf.Strategy = "disorder" => EndLed
    BY <2>1 DEF Leading
  <2>5. DecoyLed /\ ~Head(out).decoy =>
          \E d \in shown : d.decoy /\ Places(Head(out)) \subseteq Places(d)
    BY <2>2 DEF DecoyLed
  <2>6. EndLed /\ Head(out).to < pkt.to =>
          \E s \in shown : ~s.decoy /\ s.from = Head(out).to /\ s.to = pkt.to
    BY <2>2 DEF EndLed
  <2> QED BY <2>3, <2>4, <2>5, <2>6
<1>2. FakesReachBox /\ LeadInv /\ [Next]_vars => LeadInv'
  BY LeadStep
<1>3. SUFFICES ASSUME FakesReachBox
               PROVE  Spec => []Misled
  OBVIOUS
<1>4. LeadInv /\ [Next]_vars => LeadInv'
  BY <1>2, <1>3
<1> QED BY <1>1, <1>4, LeadInit, PTL DEF Spec
=============================================================================
