----------------------------- MODULE Timetable -----------------------------
(***************************************************************************)
(* What a release queue promises: it knows the instant of the next release *)
(* of every node, lets no instant pass by, and when one has come gives all *)
(* the nodes that are due and only those.                                  *)
(***************************************************************************)
EXTENDS Integers

CONSTANTS
  Node,
  Horizon   \* the longest time to a release

VARIABLE
  due       \* time from now to the release of each node

Init == due \in [Node -> 1 .. Horizon]

\* Time passes, up to the earliest release.
Pass ==
  \E t \in 1 .. Horizon :
    /\ \A n \in Node : t <= due[n]
    /\ due' = [n \in Node |-> due[n] - t]

\* The nodes whose time has come are released and planned again.
Release ==
  /\ \E n \in Node : due[n] = 0
  /\ \E period \in [Node -> 1 .. Horizon] :
       due' = [n \in Node |-> IF due[n] = 0 THEN period[n] ELSE due[n]]

Next == Pass \/ Release

Spec == Init /\ [][Next]_due
=============================================================================
