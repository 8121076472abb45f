---------------------------- MODULE ReleaseQueue ----------------------------
(***************************************************************************)
(* The release queue (release-queue.c) and the ready queue (ready-queue.c) *)
(* of a core, with one client that uses them as the handlers of memsched.c *)
(* do, for any periods and priorities: it waits for the next event,        *)
(* releases what is due, which makes it ready, and plans it again; it may  *)
(* look at the next event in between, and the highest ready server may     *)
(* come to the end of its budget.                                          *)
(***************************************************************************)
EXTENDS RelPq, Lists

CONSTANTS
  NoServer,    \* NULL in the ready queue
  Period,      \* the periods of the nodes
  Priorities   \* the assignments of priorities to explore

INSTANCE ReadyQueue

VARIABLES
  period,      \* of each server; never changes
  priority,    \* of each server; never changes
  queue,       \* SERVER_RELEASE_QUEUE
  wait,        \* time to the next event
  ready_queue, \* SERVER_READY_QUEUE
  ready        \* history: the servers that are ready, as they became so

vars == <<period, priority, queue, wait, ready_queue, ready>>

ASSUME PeriodAssumption ==
  /\ Period \subseteq Nat \ {0} /\ IsFiniteSet(Period)
  /\ Priorities \subseteq [Server -> 0 .. INT_SIZE_BIT - 1]
  /\ NoServer \notin Server

Largest == CHOOSE p \in Period : \A r \in Period : r <= p

\* All servers of a set, in any order.
Orders(S) == {f \in [1 .. Cardinality(S) -> S] : Elements(f) = S}

\* Server s is inserted into the ready queue; if it was not ready, it becomes so.
InsertReady(q, s) ==
  [ queue |-> bitmap_insert(q.queue, s, priority[s]),
    ready |-> IF s \in Elements(q.ready) THEN q.ready ELSE Append(q.ready, s) ]

\* The servers of a sequence are, one after the other.
InsertAllReady(q, list) ==
  LET upto[n \in 0 .. Len(list)] ==
        IF n = 0 THEN q ELSE InsertReady(upto[n - 1], list[n])
  IN  upto[Len(list)]

\* relPq_init, the inserts and the first look of memsched.c's first run.  All
\* servers are ready but the first one of the highest priority.
Init ==
  /\ period \in [Server -> Period]
  /\ priority \in Priorities
  /\ \E order \in Orders(Server) :
       LET position == [s \in Server |-> CHOOSE i \in DOMAIN order : order[i] = s]
           next == FetchNext(InsertAll(
                     [RelPqInit(Largest) EXCEPT !.since = position], period))
           all  == InsertAllReady([queue |-> init_pq, ready |-> <<>>], order)
       IN  /\ queue = next.queue
           /\ wait = next.event
           /\ ready_queue = bitmap_retrieve(all.queue)
           /\ ready = Without(all.ready, bitmap_get(all.queue))

\* The virtual time moves towards the next event.
Wait ==
  \E t \in 1 .. wait :
    /\ queue' = [queue EXCEPT !.virtual_time = @ + t]
    /\ wait' = wait - t
    /\ UNCHANGED <<period, priority, ready_queue, ready>>

\* Server s is ready and may be in a list with others.
Shares(s) ==
  s \in Elements(ready) /\ \E t \in Server \ {s} : priority[t] = priority[s]

\* What is due is released and inserted again, each one period later, and put
\* into the ready queue, whether it is there already or not; only servers that
\* share their priority are assumed to end their budget in time.
Release ==
  /\ wait = 0
  /\ \E step \in {ReleaseDue(queue, period)} :
       /\ \A s \in step.nodes : ~Shares(s)
       /\ queue' = step.queue
       /\ wait' = step.relative
       /\ \E order \in Orders(step.nodes) :
            LET all == InsertAllReady([queue |-> ready_queue, ready |-> ready], order)
            IN  ready_queue' = all.queue /\ ready' = all.ready
  /\ UNCHANGED <<period, priority>>

\* The next event is looked at before its time, as at the end of a budget.
Look ==
  /\ wait > 0
  /\ \E next \in {FetchNext(queue)} :
       /\ queue' = next.queue
       /\ wait' = next.event - next.queue.virtual_time
  /\ UNCHANGED <<period, priority, ready_queue, ready>>

\* The highest ready server has used its budget.
Complete ==
  /\ bitmap_get(ready_queue) # NoServer
  /\ ready_queue' = bitmap_retrieve(ready_queue)
  /\ ready' = Without(ready, bitmap_get(ready_queue))
  /\ UNCHANGED <<period, priority, queue, wait>>

Next == Wait \/ Release \/ Look \/ Complete

Spec == Init /\ [][Next]_vars

----------------------------------------------------------------------------
(* Properties.                                                             *)

\* The time from now to the release of each node, read off the queue.
Due == [n \in Server |->
          (CHOOSE i \in Instants(queue, n) : TRUE) - queue.virtual_time]

\* The types, and: each node has one place and each bit agrees with its list.
WellFormed ==
  /\ IsRelPq(queue)
  /\ wait \in Nat
  /\ queue.nr_of_elements = Cardinality(Server)
  /\ BitmapMatchesLists(queue)
  /\ \A n \in Server : Cardinality(Places(queue, n)) = 1

\* The highest priority among the ready servers.
HighestReady ==
  {s \in Elements(ready) : \A t \in Elements(ready) : priority[s] <= priority[t]}

\* The lists hold exactly the ready servers, a bit is set exactly when its list
\* has one, and bitmap_get finds the first one of the highest priority: also when
\* a server that is alone with its priority is released while it is ready, which
\* inserts it again.
ReadyExact ==
  /\ \A p \in 0 .. INT_SIZE_BIT :
       /\ Linked(ready_queue, ready_queue.bitmap_extension[p])
            = {s \in Elements(ready) : priority[s] = p}
       /\ p \in ready_queue.bitmap <=> ready_queue.bitmap_extension[p] # NoServer
  /\ bitmap_get(ready_queue) =
       (IF ready = <<>> THEN NoServer
        ELSE ready[FirstOf({i \in 1 .. Len(ready) : ready[i] \in HighestReady})])

\* Both queues are intact and agree with what was released, waits and completed.
QueuesExact == WellFormed /\ ReadyExact

\* The queue is a timetable: whatever the periods and however often the bitmaps
\* wrap, what is retrieved is due and nothing that is due is passed by.
TT == INSTANCE Timetable WITH Node <- Server, due <- Due, Horizon <- Largest
ImplementsTimetable == TT!Spec
=============================================================================
