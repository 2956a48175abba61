------------------------------ MODULE Delivery ------------------------------
(***************************************************************************)
(* One TCP connection through the engine: a client whose segments are      *)
(* captured and desynced (module Desync), a path on which they are lost,   *)
(* duplicated and reordered, the DPI box near the beginning of it and the  *)
(* server at the end.  Meanwhile the engine is stopped, and started with   *)
(* another strategy, as the tray application does while it looks for one   *)
(* that works.                                                             *)
(***************************************************************************)
EXTENDS Desync, FiniteSets

CONSTANTS
  Confs,       \* the [Strategy, FakeTTL] the engine is started with
  Isn,         \* sequence number of the first byte of the stream
  Mss,         \* the longest payload the client puts in a segment
  ClientTTL,   \* TTL of the client's segments
  DpiHop,      \* TTL it takes to reach the DPI box
  Hops,        \* TTL it takes to reach the server
  MaxQueue,    \* bounds the packets captured and not yet received
  MaxNet,      \* the client sends only while fewer packets than this are
               \* between the DPI box and the server
  MaxStarts,   \* bounds how often the engine is started
  Missing,     \* stands for a byte the server does not have
  Zero,        \* the byte of a decoy
  None

ASSUME PathAssumption ==
  /\ Confs \subseteq [Strategy : Strategies, FakeTTL : 0..255]
  /\ Isn \in 0..(SeqSpace - 1)
  /\ Mss \in Nat \ {0}
  /\ ClientTTL \in 0..255 /\ DpiHop \in Nat /\ Hops \in Nat
  /\ DpiHop <= Hops /\ Hops <= ClientTTL
  /\ MaxQueue \in Nat /\ MaxNet \in Nat /\ MaxStarts \in Nat
  /\ Missing \notin 0..N /\ Zero \notin 0..N /\ Missing # Zero
  /\ None \notin Segments \cup Confs

VARIABLES
  una,         \* client: everything before una is acknowledged
  nxt,         \* client: everything before nxt has been sent
  conf,        \* engine: its configuration; None when it is not running
  starts,      \* how often it has been started
  queue,       \* engine: the packets captured and not yet received
  pkt,         \* engine: the packet it is processing
  out,         \* engine: what it has yet to Send of Process(pkt)
  shown,       \* history: those of Process(pkt) that the DPI box has seen
  missed,      \* history: one of them was lost on its way there
  net,         \* packets between the DPI box and the server
  rcvd         \* server: the byte it has at every offset

clientVars == <<una, nxt>>
engineVars == <<conf, starts, queue, pkt, out, shown, missed>>
vars == <<clientVars, engineVars, net, rcvd>>

Offsets == 0..(N - 1)

TypeOK ==
  /\ una \in 0..N
  /\ nxt \in 0..N
  /\ conf \in Confs \cup {None}
  /\ starts \in Nat
  /\ queue \in Seq(Segments)
  /\ pkt \in Segments \cup {None}
  /\ out \in Seq(Segments)
  /\ shown \subseteq Segments
  /\ missed \in BOOLEAN
  /\ net \subseteq Segments
  /\ rcvd \in [Offsets -> Offsets \cup {Missing, Zero}]

Init ==
  /\ una = 0
  /\ nxt = 0
  /\ conf = None
  /\ starts = 0
  /\ queue = <<>>
  /\ pkt = None
  /\ out = <<>>
  /\ shown = {}
  /\ missed = FALSE
  /\ net = {}
  /\ rcvd = [i \in Offsets |-> Missing]

-----------------------------------------------------------------------------
(* The offset a receiver computes from the sequence number of a segment,   *)
(* and where it puts its payload.                                          *)
Offset(seg) == Minus(seg.seq, Isn)
Places(seg) == {i \in Offsets : Offset(seg) <= i /\ i < Offset(seg) + Length(seg)}
Byte(seg, i) == IF seg.decoy THEN Zero ELSE seg.from + (i - Offset(seg))

(* A packet sets out: its TTL decides how far it comes.                    *)
Travel(seg) == net' = IF seg.ttl >= Hops THEN net \cup {seg} ELSE net

(* Its first hops lose it.                                                 *)
Vanish == UNCHANGED net

-----------------------------------------------------------------------------
(* The client: TCP of the operating system.                                *)
Segment(from, to) ==
  [from |-> from, to |-> to, seq |-> Plus(Isn, from), ttl |-> ClientTTL, decoy |-> FALSE]

(* A segment is captured, or goes its way if no engine is running.         *)
Emit(seg) ==
  /\ Cardinality(net) < MaxNet
  /\ \/ /\ conf # None
        /\ Len(queue) < MaxQueue
        /\ queue' = Append(queue, seg)
        /\ UNCHANGED net
     \/ /\ conf = None
        /\ Travel(seg) \/ Vanish
        /\ UNCHANGED queue

Until(from, limit) == IF from + Mss < limit THEN from + Mss ELSE limit

Transmit ==
  /\ nxt < N
  /\ nxt' = Until(nxt, N)
  /\ Emit(Segment(nxt, Until(nxt, N)))
  /\ UNCHANGED <<una, conf, starts, pkt, out, shown, missed, rcvd>>

(* The retransmission timer, or duplicate acknowledgements.                *)
Retransmit ==
  /\ una < nxt
  /\ Emit(Segment(una, Until(una, nxt)))
  /\ UNCHANGED <<una, nxt, conf, starts, pkt, out, shown, missed, rcvd>>

(* The server acknowledges what it has in one piece.  An acknowledgement   *)
(* that is lost or late is one that is not sent until there is more.       *)
Acknowledge ==
  /\ \E a \in (una + 1)..nxt :
       /\ \A i \in 0..(a - 1) : rcvd[i] # Missing
       /\ a < N => rcvd[a] = Missing
       /\ una' = a
  /\ UNCHANGED <<nxt, engineVars, net, rcvd>>

-----------------------------------------------------------------------------
(* The engine: the loop of Engine.Run.                                     *)
Recv ==
  /\ conf # None
  /\ out = <<>>
  /\ queue # <<>>
  /\ pkt' = Head(queue)
  /\ queue' = Tail(queue)
  /\ out' = Process(conf, Head(queue))
  /\ UNCHANGED <<clientVars, conf, starts, shown, missed, net, rcvd>>

Sent(lost) ==
  /\ out # <<>>
  /\ out' = Tail(out)
  /\ pkt' = IF Len(out) > 1 THEN pkt ELSE None
  /\ shown' = IF Len(out) = 1 THEN {}
              ELSE IF lost \/ Head(out).ttl < DpiHop THEN shown ELSE shown \cup {Head(out)}
  /\ missed' = (Len(out) > 1 /\ (missed \/ lost))
  /\ UNCHANGED <<clientVars, conf, starts, queue, rcvd>>

Send == Sent(FALSE) /\ Travel(Head(out))

(* Send returns an error, which is logged, or the first hops lose it.      *)
SendLost == Sent(TRUE) /\ Vanish

(* The manager starts the engine, or closes its handle: what is captured   *)
(* and not yet injected is lost.                                           *)
Start ==
  /\ conf = None
  /\ starts < MaxStarts
  /\ starts' = starts + 1
  /\ conf' \in Confs
  /\ UNCHANGED <<clientVars, queue, pkt, out, shown, missed, net, rcvd>>

Close ==
  /\ conf # None
  /\ conf' = None
  /\ queue' = <<>>
  /\ out' = <<>>
  /\ pkt' = None
  /\ shown' = {}
  /\ missed' = FALSE
  /\ UNCHANGED <<clientVars, starts, net, rcvd>>

-----------------------------------------------------------------------------
(* The path and the server.  A byte the server has is not overwritten.     *)
Store(seg) ==
  rcvd' = [i \in Offsets |-> IF i \in Places(seg) /\ rcvd[i] = Missing THEN Byte(seg, i) ELSE rcvd[i]]

Deliver(seg) ==
  /\ Store(seg)
  /\ net' = net \ {seg}
  /\ UNCHANGED <<clientVars, engineVars>>

Duplicate(seg) ==
  /\ Store(seg)
  /\ UNCHANGED <<clientVars, engineVars, net>>

Lose(seg) ==
  /\ net' = net \ {seg}
  /\ UNCHANGED <<clientVars, engineVars, rcvd>>

Client == Transmit \/ Retransmit \/ Acknowledge
Engine == Recv \/ Send \/ SendLost \/ Start \/ Close
Path == \E seg \in net : Deliver(seg) \/ Duplicate(seg) \/ Lose(seg)

Next == Client \/ Engine \/ Path

(* The packet has the first byte that the server lacks.                    *)
Needed(seg) == ~seg.decoy /\ \E i \in Places(seg) :
  rcvd[i] = Missing /\ \A j \in 0..(i - 1) : rcvd[j] # Missing

(* The client sends for as long as it takes; the engine's goroutine runs;  *)
(* packets leave the path; of those needed and sent again and again, some  *)
(* arrive.  Starting and closing the engine is nobody's duty.              *)
Fairness ==
  /\ SF_vars(Transmit) /\ SF_vars(Retransmit) /\ SF_vars(Acknowledge)
  /\ SF_vars(conf = None /\ Retransmit /\ Travel(Segment(una, Until(una, nxt))))
  /\ WF_vars(Recv) /\ WF_vars(Send \/ SendLost) /\ SF_vars(Send /\ Needed(Head(out)))
  /\ WF_vars(\E seg \in net : Deliver(seg) \/ Lose(seg))
  /\ SF_vars(\E seg \in net : Needed(seg) /\ Deliver(seg))

Spec == Init /\ [][Next]_vars
FairSpec == Spec /\ Fairness

-----------------------------------------------------------------------------
(* Properties.                                                             *)

(* "the real server assembles everything correctly": whatever is lost,     *)
(* duplicated, reordered, cut or faked, every byte the server has is the   *)
(* client's byte at that offset.                                           *)
StreamIntact == \A i \in Offsets : rcvd[i] \in {Missing, i}

(* "cut the segment in two ... so DPI cannot reassemble the host name":    *)
(* while a cutting strategy is in force no packet carries the whole name,  *)
(* not for a retransmission either, of which a part may be acknowledged.   *)
HasName(seg) == ~seg.decoy /\ seg.from <= NameFrom /\ NameTo <= seg.to
NameHidden == conf # None /\ conf.Strategy # "fake" =>
  \A k \in 1..Len(out) : ~HasName(out[k])

(* "decoy first", "second half first": when real data of a ClientHello is  *)
(* about to be sent, this time or again, the DPI box has just been shown a *)
(* decoy for all of it, or what comes after it up to the end, unless a     *)
(* packet was lost before it got there.  This takes TTLs that reach the    *)
(* box.                                                                    *)
Misled == pkt # None /\ Desynced(pkt) /\ out # <<>> /\ ~missed =>
  LET next == Head(out) IN
  /\ conf.Strategy \in {"fake", "fakedsplit"} /\ ~next.decoy =>
       \E d \in shown : d.decoy /\ Places(next) \subseteq Places(d)
  /\ conf.Strategy = "disorder" /\ next.to < pkt.to =>
       \E s \in shown : ~s.decoy /\ s.from = next.to /\ s.to = pkt.to

(* The connection gets through: a lost half, a handle closed between two   *)
(* halves or another strategy for the retransmission do not stop it.       *)
Delivered == <>(una = N)

-----------------------------------------------------------------------------
(* Refinement: the engine, the DPI box and the path are not seen.          *)
Stream == INSTANCE ByteStream WITH sent <- nxt, acked <- una, got <- rcvd

(* The connection implements a byte stream: no byte reaches the server     *)
(* that is not the client's, is in another place, or was not sent yet, and *)
(* none is replaced later or acknowledged before it is there.              *)
ImplementsStream == Stream!Spec
=============================================================================
