------------------------------ MODULE MCChannel ------------------------------
(* Small instances of Channel for TLC: an unbuffered and a buffered channel. *)
EXTENDS Channel, TLC

CONSTANTS unbuf, buf, BufCapacity

CapacityOf == [c \in Channels |-> IF c = unbuf THEN 0 ELSE BufCapacity]

\* Two channels, both directions of one channel, one channel twice, and a case
\* whose channel is NULL.
TwoChannels == <<Case(unbuf, "recv"), Case(buf, "send")>>
BothWays == <<Case(unbuf, "send"), Case(unbuf, "recv")>>
SameTwice == <<Case(buf, "recv"), Case(buf, "recv")>>
WithNull == <<Case(NoChannel, "recv"), Case(buf, "recv")>>

Symmetry == Permutations(Tasks)

AllCalls == {TwoChannels, BothWays, SameTwice, WithNull}
=============================================================================
