--------------------------- MODULE MCSessionActor ---------------------------
(* Small instances of SessionActor for TLC.                                 *)
EXTENDS SessionActor, TLC

\* The participants are interchangeable.
Symmetry == Permutations(Accounts)

\* Bound: the mixes of messages, stops and failing appends that are explored.
Mixes == {<<3, 0, 1>>, <<2, 2, 0>>, <<2, 1, 1>>}

BoundedNext ==
    Next /\ \E m \in Mixes : accepted' <= m[1] /\ stops' <= m[2] /\ faults' <= m[3]
BoundedSpec == Init /\ [][BoundedNext]_vars
=============================================================================
