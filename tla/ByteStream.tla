----------------------------- MODULE ByteStream -----------------------------
(***************************************************************************)
(* What a connection owes its two ends, whatever the desync strategies do  *)
(* to its packets ("the real server assembles everything correctly",       *)
(* internal/desync/desync.go): the server gets the client's own bytes,     *)
(* each at its place, never before they are sent, and keeps them; what is  *)
(* acknowledged has arrived.  Module Delivery is shown to implement it.    *)
(***************************************************************************)
EXTENDS Integers

CONSTANTS
  N,         \* the length of the stream, whose byte at offset i is i
  Missing    \* stands for a byte the server does not have

VARIABLES
  sent,      \* how many bytes the client has sent
  acked,     \* how many of them are acknowledged
  got        \* the byte the server has at each offset

vars == <<sent, acked, got>>

Init ==
  /\ sent = 0
  /\ acked = 0
  /\ got = [i \in 0..(N - 1) |-> Missing]

Write ==
  /\ sent' \in (sent + 1)..N
  /\ UNCHANGED <<acked, got>>

Arrive(offsets) ==
  /\ \A i \in offsets : got[i] = Missing
  /\ got' = [i \in 0..(N - 1) |-> IF i \in offsets THEN i ELSE got[i]]
  /\ UNCHANGED <<sent, acked>>

Acknowledge ==
  /\ acked' \in (acked + 1)..sent
  /\ \A i \in 0..(acked' - 1) : got[i] # Missing
  /\ UNCHANGED <<sent, got>>

Next == Write \/ Acknowledge \/ \E offsets \in SUBSET (0..(sent - 1)) : Arrive(offsets)

Spec == Init /\ [][Next]_vars
=============================================================================
