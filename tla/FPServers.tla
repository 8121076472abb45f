----------------------------- MODULE FPServers -----------------------------
(***************************************************************************)
(* What the servers of a core promise: periodic servers under preemptive   *)
(* fixed-priority scheduling.  At every jiffy the server of highest        *)
(* priority with budget left runs; a server gets its whole budget back     *)
(* every period, and all the servers are released together at the start.   *)
(* Nothing is promised for servers with more demand than the core has.     *)
(***************************************************************************)
EXTENDS Integers

CONSTANTS
  Server,
  ServerParams,
  Feasible    \* the configurations that the core has the time for

VARIABLES
  SERVERS,   \* period, budget and priority of each server
  left,      \* the budget a server has left
  until      \* jiffies to its next release

vars == <<SERVERS, left, until>>

\* The servers with budget left, and the one that runs.
Ready == {s \in Server : left[s] > 0}
Runs(s) == s \in Ready /\ \A t \in Ready : SERVERS[s].priority
                                             <= SERVERS[t].priority

Init ==
  /\ SERVERS \in ServerParams
  /\ left  = [s \in Server |-> 0]
  /\ until = [s \in Server |-> 0]

\* One jiffy of service.  Time does not pass before what is due is released.
Serve ==
  /\ \A s \in Server : until[s] > 0
  /\ until' = [s \in Server |-> until[s] - 1]
  /\ left'  = [s \in Server |-> IF Runs(s) THEN left[s] - 1 ELSE left[s]]
  /\ UNCHANGED SERVERS

\* The servers that are due are released at once.
Release ==
  LET due == {s \in Server : until[s] = 0}
  IN  /\ due # {}
      /\ left'  = [s \in Server |-> IF s \in due THEN SERVERS[s].budget
                                                 ELSE left[s]]
      /\ until' = [s \in Server |-> IF s \in due THEN SERVERS[s].period
                                                 ELSE until[s]]
      /\ UNCHANGED SERVERS

Overload ==
  /\ SERVERS \notin Feasible
  /\ UNCHANGED SERVERS

Next == Serve \/ Release \/ Overload

Spec == Init /\ [][Next]_vars

Fairness ==
  /\ WF_vars(SERVERS \in Feasible /\ Serve)
  /\ WF_vars(SERVERS \in Feasible /\ Release)

FairSpec == Spec /\ Fairness
=============================================================================
