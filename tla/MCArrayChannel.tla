--------------------------- MODULE MCArrayChannel ---------------------------
EXTENDS ArrayChannel, TLC

CONSTANTS s1, s2, r1, r2

Channel(c, handed) == [cap |-> c, calls |-> handed]

\* n calls of any patience.
Calls(n) == [i \in 1..n |-> "any"]

\* Two receivers that block at once for a single slot, one of them with a deadline,
\* while the sender stays; senders that fill two slots, and receivers that compete for
\* what is in them; and one of each that go around the ring.
MCGroups == {Channel(1, s1 :> <<"block", "block">> @@ r1 :> <<"block">> @@ r2 :> <<"timed">>),
             Channel(2, s1 :> Calls(2) @@ s2 :> Calls(1) @@ r1 :> Calls(1)),
             Channel(2, s1 :> Calls(2) @@ r1 :> Calls(1) @@ r2 :> <<"block">>),
             Channel(2, s1 :> Calls(3) @@ r1 :> Calls(3))}
=============================================================================
