------------------------------ MODULE Servers ------------------------------
(***************************************************************************)
(* What the server scheduler of a core (ServerSched) does to the tasks of  *)
(* its servers, without time: the highest ready server runs and no other,  *)
(* from the first release on.                                              *)
(***************************************************************************)
EXTENDS Integers

CONSTANTS Server, None

VARIABLES
  priority,  \* of each server; the smaller, the higher; never changes
  ready,     \* SERVER_READY_QUEUE
  running    \* the servers whose flag `running' is set

vars == <<priority, ready, running>>

\* bitmap_get
Highest(queue) ==
  IF queue = {} THEN None
  ELSE CHOOSE s \in queue : \A t \in queue : priority[s] <= priority[t]

Top(queue) == {s \in queue : s = Highest(queue)}

\* Every server is ready but the one of highest priority.
Init ==
  /\ priority \in [Server -> Nat]
  /\ \A s, t \in Server : priority[s] = priority[t] => s = t
  /\ ready = Server \ {Highest(Server)}
  /\ running = {}

\* The first release is that of the server memsched_init left out.
Starting == ready # {} /\ running = {}

\* A batch of servers is released together.
Release(batch) ==
  /\ batch # {}
  /\ Starting => batch = Server \ ready
  /\ ready' = ready \cup batch
  /\ running' = Top(ready')
  /\ UNCHANGED priority

\* The running server has used a budget; a batch is released with that.
Complete(batch) ==
  /\ running # {}
  /\ ready' = (ready \ running) \cup batch
  /\ running' = Top(ready')
  /\ UNCHANGED priority

Next == \E batch \in SUBSET Server : Release(batch) \/ Complete(batch)

Spec == Init /\ [][Next]_vars
=============================================================================
