----------------------------- MODULE MCDelivery -----------------------------
EXTENDS Delivery

\* The strategies of autopick.Candidates, without the second TTL of "fake".
Candidates == {[Strategy |-> "fakedsplit", FakeTTL |-> 8], [Strategy |-> "fake", FakeTTL |-> 6],
               [Strategy |-> "split", FakeTTL |-> 0], [Strategy |-> "disorder", FakeTTL |-> 0]}
Default == {[Strategy |-> "fakedsplit", FakeTTL |-> 8]}
=============================================================================
