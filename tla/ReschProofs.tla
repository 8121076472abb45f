---------------------------- MODULE ReschProofs ----------------------------
(***************************************************************************)
(* Proofs about the real-time tasks of a core, for any number of tasks and *)
(* priorities: the types, the contents of the active queue (JobsQueued)    *)
(* and the order of the global list (GlobalListSorted) however the tasks   *)
(* are used; and, as the properties say, for the tasks that are used as in *)
(* the samples or nearly so, the first entry of the queue                  *)
(* (HighestHasCore), the chain of preempted jobs (ChainExact), the jiffies *)
(* that they are charged (NoJiffyLost) and the searches through the queue  *)
(* (SearchesExact).                                                        *)
(***************************************************************************)
EXTENDS Resch, Facts

Queue == [queue : [Prio -> Seq(Task)], bitmap : SUBSET (0 .. MaxPrio - 1),
          nr_tasks : Nat]
Chain == [current : Task \cup {None}, since : Nat,
          preempter : [Task -> Task \cup {None}],
          preemptee : [Task -> Task \cup {None}],
          exec_time : [Task -> Nat]]
Phase == {"exited", "init", "waiting", "released", "started"}

----------------------------------------------------------------------------
(* The operations on the active queue.                                     *)

\* The indices of priorities.
LEMMA Indices ==
  /\ \A p \in Prio : /\ reverse_prio(p) \in 0 .. MaxPrio - 1
                     /\ reverse_prio(reverse_prio(p)) = p
  /\ \A i \in 0 .. MaxPrio - 1 : reverse_prio(i) \in Prio
  /\ \A p, q \in Prio : reverse_prio(p) <= reverse_prio(q) <=> q <= p
  /\ \A p \in Prio : p \in Nat \ {0}
BY ReschAssumption DEF reverse_prio, Prio, RESCH_MIN_PRIO

LEMMA Enqueued ==
  ASSUME NEW a \in Queue, NEW t \in Task, NEW p \in Prio,
         NEW b, b = __enqueue_task(a, t, p)
  PROVE  /\ b \in Queue
         /\ b.queue[p] = Append(a.queue[p], t)
         /\ \A q \in Prio \ {p} : b.queue[q] = a.queue[q]
         /\ b.bitmap = a.bitmap \cup {reverse_prio(p)}
         /\ b.nr_tasks = a.nr_tasks + 1
<1>1. b = [ queue    |-> [a.queue EXCEPT ![p] = Append(@, t)],
            bitmap   |-> a.bitmap \cup {reverse_prio(p)},
            nr_tasks |-> a.nr_tasks + 1 ]
  BY DEF __enqueue_task
<1>2. /\ a.queue \in [Prio -> Seq(Task)] /\ a.bitmap \subseteq 0 .. MaxPrio - 1
      /\ a.nr_tasks \in Nat
  BY DEF Queue
<1>3. Append(a.queue[p], t) \in Seq(Task)
  BY <1>2, AppendProperties
<1>4. [a.queue EXCEPT ![p] = Append(@, t)] \in [Prio -> Seq(Task)]
  BY <1>2, <1>3
<1>5. reverse_prio(p) \in 0 .. MaxPrio - 1
  BY Indices
<1>6. b \in Queue
  BY <1>1, <1>2, <1>4, <1>5 DEF Queue
<1> QED
  BY <1>1, <1>2, <1>6

LEMMA Dequeued ==
  ASSUME NEW a \in Queue, a.nr_tasks > 0, NEW t \in Task, NEW p \in Prio,
         NEW b, b = __dequeue_task(a, t, p)
  PROVE  /\ b \in Queue
         /\ \A q \in Prio : b.queue[q] = Without(a.queue[q], t)
         /\ b.queue[p] = <<>> => b.bitmap = a.bitmap \ {reverse_prio(p)}
         /\ b.queue[p] # <<>> => b.bitmap = a.bitmap
         /\ b.nr_tasks = a.nr_tasks - 1
<1> DEFINE queue == [q \in Prio |-> Without(a.queue[q], t)]
<1>1. b = [ queue    |-> queue,
            bitmap   |-> IF queue[p] = <<>>
                         THEN a.bitmap \ {reverse_prio(p)} ELSE a.bitmap,
            nr_tasks |-> a.nr_tasks - 1 ]
  BY DEF __dequeue_task
<1>2. /\ a.queue \in [Prio -> Seq(Task)] /\ a.bitmap \subseteq 0 .. MaxPrio - 1
      /\ a.nr_tasks - 1 \in Nat
  BY DEF Queue
<1>3. queue \in [Prio -> Seq(Task)]
  BY <1>2, WithoutType
<1>4. b \in Queue
  BY <1>1, <1>2, <1>3 DEF Queue
<1> QED
  BY <1>1, <1>4

----------------------------------------------------------------------------
(* The operations on the chain.                                            *)

LEMMA Charged ==
  ASSUME NEW c \in Chain, NEW t \in Task, NEW d, d = Charge(c, t)
  PROVE  /\ d \in Chain
         /\ d.current = c.current /\ d.since = 0
         /\ d.preempter = c.preempter /\ d.preemptee = c.preemptee
         /\ d.exec_time[t] = c.exec_time[t] + c.since
         /\ \A u \in Task \ {t} : d.exec_time[u] = c.exec_time[u]
<1> DEFINE time == [c.exec_time EXCEPT ![t] = @ + c.since]
<1>0. /\ c.current \in Task \cup {None} /\ c.since \in Nat
      /\ c.preempter \in [Task -> Task \cup {None}]
      /\ c.preemptee \in [Task -> Task \cup {None}]
      /\ c.exec_time \in [Task -> Nat]
  BY DEF Chain
<1>1. time \in [Task -> Nat] /\ time[t] = c.exec_time[t] + c.since
      /\ \A u \in Task \ {t} : time[u] = c.exec_time[u]
  BY <1>0
<1>2. d = [c EXCEPT !.exec_time = time, !.since = 0]
  BY <1>0 DEF Charge
<1> HIDE DEF time
<1>3. d = [current |-> c.current, since |-> 0, preempter |-> c.preempter,
           preemptee |-> c.preemptee, exec_time |-> time]
  BY <1>2 DEF Chain
<1> QED
  BY <1>0, <1>1, <1>3 DEF Chain

LEMMA Ticked ==
  ASSUME NEW c \in Chain, NEW d, d = update_tick(c)
  PROVE  /\ d \in Chain
         /\ d.current = c.current /\ d.since = 0
         /\ d.preempter = c.preempter /\ d.preemptee = c.preemptee
         /\ c.current # None =>
              d.exec_time[c.current] = c.exec_time[c.current] + c.since
         /\ \A u \in Task \ {c.current} : d.exec_time[u] = c.exec_time[u]
<1>1. CASE c.current = None
  <2>1. d = [c EXCEPT !.since = 0]
    BY <1>1 DEF update_tick
  <2>2. d = [current |-> c.current, since |-> 0, preempter |-> c.preempter,
             preemptee |-> c.preemptee, exec_time |-> c.exec_time]
    BY <2>1 DEF Chain
  <2> QED
    BY <1>1, <2>2 DEF Chain
<1>2. CASE c.current # None
  <2>1. c.current \in Task
    BY <1>2 DEF Chain
  <2>2. d = Charge(c, c.current)
    BY <1>2 DEF update_tick
  <2> QED
    BY <1>2, <2>1, <2>2, Charged
<1> QED
  BY <1>1, <1>2

\* What chain d is when job t starts in chain c, on top of it or not.
StartOf(c, t, pr, d) ==
  /\ d \in Chain
  /\ d.since = 0
  /\ c.current # None => d.exec_time[c.current] = c.exec_time[c.current] + c.since
  /\ \A u \in Task \ {c.current} : d.exec_time[u] = c.exec_time[u]
  /\ c.current = None =>
       /\ d.current = t
       /\ d.preempter = c.preempter
       /\ d.preemptee = [c.preemptee EXCEPT ![t] = None]
  /\ c.current # None /\ pr[c.current] < pr[t] =>
       /\ d.current = t
       /\ d.preempter = [c.preempter EXCEPT ![c.current] = t]
       /\ d.preemptee = [c.preemptee EXCEPT ![t] = c.current]

LEMMA Started ==
  ASSUME NEW c \in Chain, NEW t \in Task, NEW pr, NEW d, d = preempt_curr(c, t, pr)
  PROVE  StartOf(c, t, pr, d)
<1> DEFINE e == update_tick(c)
<1>1. /\ e \in Chain
      /\ e.current = c.current /\ e.since = 0
      /\ e.preempter = c.preempter /\ e.preemptee = c.preemptee
      /\ c.current # None =>
           e.exec_time[c.current] = c.exec_time[c.current] + c.since
      /\ \A u \in Task \ {c.current} : e.exec_time[u] = c.exec_time[u]
  BY Ticked
<1>2. d = IF c.current = None
          THEN [e EXCEPT !.preemptee = [@ EXCEPT ![t] = None], !.current = t]
          ELSE IF pr[c.current] < pr[t]
          THEN [e EXCEPT !.preemptee = [@ EXCEPT ![t] = c.current],
                         !.preempter = [@ EXCEPT ![c.current] = t],
                         !.current = t]
          ELSE e
  BY DEF preempt_curr
<1> HIDE DEF e
<1>3. /\ c.current \in Task \cup {None}
      /\ e.preempter \in [Task -> Task \cup {None}]
      /\ e.preemptee \in [Task -> Task \cup {None}]
      /\ e.exec_time \in [Task -> Nat]
  BY <1>1 DEF Chain
<1>4. CASE c.current = None
  <2>1. d = [e EXCEPT !.preemptee = [@ EXCEPT ![t] = None], !.current = t]
    BY <1>2, <1>4
  <2>2. d = [current |-> t, since |-> e.since, preempter |-> e.preempter,
             preemptee |-> [e.preemptee EXCEPT ![t] = None], exec_time |-> e.exec_time]
    BY <1>1, <2>1 DEF Chain
  <2>3. [e.preemptee EXCEPT ![t] = None] \in [Task -> Task \cup {None}]
    BY <1>3
  <2>4. d \in Chain
    BY <1>1, <1>3, <2>2, <2>3 DEF Chain
  <2> QED
    BY <1>1, <1>4, <2>2, <2>4 DEF StartOf
<1>5. CASE c.current # None /\ pr[c.current] < pr[t]
  <2>1. d = [e EXCEPT !.preemptee = [@ EXCEPT ![t] = c.current],
                      !.preempter = [@ EXCEPT ![c.current] = t],
                      !.current = t]
    BY <1>2, <1>5
  <2>2. d = [current |-> t, since |-> e.since,
             preempter |-> [e.preempter EXCEPT ![c.current] = t],
             preemptee |-> [e.preemptee EXCEPT ![t] = c.current],
             exec_time |-> e.exec_time]
    BY <1>1, <2>1 DEF Chain
  <2>3. /\ [e.preemptee EXCEPT ![t] = c.current] \in [Task -> Task \cup {None}]
        /\ [e.preempter EXCEPT ![c.current] = t] \in [Task -> Task \cup {None}]
    BY <1>3, <1>5
  <2>4. d \in Chain
    BY <1>1, <1>3, <2>2, <2>3 DEF Chain
  <2> QED
    BY <1>1, <1>5, <2>2, <2>4 DEF StartOf
<1>6. CASE c.current # None /\ ~(pr[c.current] < pr[t])
  <2>1. d = e
    BY <1>2, <1>6
  <2> QED
    BY <1>1, <1>6, <2>1 DEF StartOf
<1> QED
  BY <1>4, <1>5, <1>6

\* What chain d is when job t ends in chain c.
SwitchOf(c, t, d) ==
  /\ d \in Chain
  /\ d.since = 0
  /\ d.exec_time[t] = c.exec_time[t] + c.since
  /\ \A u \in Task \ {t} : d.exec_time[u] = c.exec_time[u]
  /\ d.current = c.preemptee[t]
  /\ d.preemptee = [c.preemptee EXCEPT ![t] = None]
  /\ \A u \in Task :
       d.preempter[u] = IF u = c.preemptee[t] THEN None ELSE c.preempter[u]

LEMMA Switched ==
  ASSUME NEW c \in Chain, NEW t \in Task, NEW d, d = preempt_switch(c, t)
  PROVE  SwitchOf(c, t, d)
<1> DEFINE e == Charge(c, t)
           up == [u \in Task |-> IF u = c.preemptee[t] THEN None ELSE c.preempter[u]]
<1>1. /\ e \in Chain
      /\ e.since = 0
      /\ e.preempter = c.preempter /\ e.preemptee = c.preemptee
      /\ e.exec_time[t] = c.exec_time[t] + c.since
      /\ \A u \in Task \ {t} : e.exec_time[u] = c.exec_time[u]
  BY Charged
<1>2. d = [e EXCEPT
             !.current = c.preemptee[t],
             !.preemptee = [@ EXCEPT ![t] = None],
             !.preempter = [u \in Task |->
                              IF u = c.preemptee[t] THEN None ELSE @[u]]]
  BY DEF preempt_switch
<1> HIDE DEF e
<1>3. d = [current |-> c.preemptee[t], since |-> e.since, preempter |-> up,
           preemptee |-> [c.preemptee EXCEPT ![t] = None], exec_time |-> e.exec_time]
  <2>1. d = [e EXCEPT !.current = c.preemptee[t],
                      !.preemptee = [c.preemptee EXCEPT ![t] = None],
                      !.preempter = up]
    BY <1>1, <1>2
  <2> HIDE DEF up
  <2> QED
    BY <1>1, <2>1 DEF Chain
<1>4. /\ c.preempter \in [Task -> Task \cup {None}]
      /\ c.preemptee \in [Task -> Task \cup {None}]
      /\ e.exec_time \in [Task -> Nat]
  BY <1>1 DEF Chain
<1>5. /\ up \in [Task -> Task \cup {None}]
      /\ [c.preemptee EXCEPT ![t] = None] \in [Task -> Task \cup {None}]
      /\ c.preemptee[t] \in Task \cup {None}
      /\ \A u \in Task : up[u] = IF u = c.preemptee[t] THEN None ELSE c.preempter[u]
  BY <1>4
<1> HIDE DEF up
<1>6. d \in Chain
  BY <1>1, <1>3, <1>4, <1>5 DEF Chain
<1> QED
  BY <1>1, <1>3, <1>5, <1>6 DEF SwitchOf

\* Task t is taken out of the chain, or put into it.
LEMMA Out ==
  ASSUME NEW c \in Chain, NEW t \in Task
  PROVE  preempt_out(c, t) \in Chain
<1> DEFINE d == IF c.current = t
                THEN [update_tick(c) EXCEPT !.current = c.preemptee[t]] ELSE c
           down == [u \in Task |->
             IF u = t THEN None
             ELSE IF u = c.preempter[t] THEN c.preemptee[t] ELSE d.preemptee[u]]
           up == [u \in Task |->
             IF u = t THEN None
             ELSE IF u = c.preemptee[t] THEN c.preempter[t] ELSE d.preempter[u]]
<1>0. /\ c.preempter \in [Task -> Task \cup {None}]
      /\ c.preemptee \in [Task -> Task \cup {None}]
  BY DEF Chain
<1>1. d \in Chain
  <2>1. CASE c.current = t
    <3> DEFINE e == update_tick(c)
    <3>1. e \in Chain
      BY Ticked
    <3>2. d = [e EXCEPT !.current = c.preemptee[t]]
      BY <2>1
    <3> HIDE DEF e, d
    <3>3. d = [current |-> c.preemptee[t], since |-> e.since, preempter |-> e.preempter,
               preemptee |-> e.preemptee, exec_time |-> e.exec_time]
      BY <3>1, <3>2 DEF Chain
    <3> QED
      BY <1>0, <3>1, <3>3 DEF Chain
  <2>2. CASE c.current # t
    BY <2>2
  <2> QED
    BY <2>1, <2>2
<1>2. preempt_out(c, t) = [d EXCEPT
         !.preemptee = [u \in Task |->
           IF u = t THEN None
           ELSE IF u = c.preempter[t] THEN c.preemptee[t] ELSE @[u]],
         !.preempter = [u \in Task |->
           IF u = t THEN None
           ELSE IF u = c.preemptee[t] THEN c.preempter[t] ELSE @[u]]]
  BY DEF preempt_out
<1> HIDE DEF d
<1>3. preempt_out(c, t) =
        [current |-> d.current, since |-> d.since, preempter |-> up,
         preemptee |-> down, exec_time |-> d.exec_time]
  BY <1>1, <1>2 DEF Chain
<1>4. /\ d.preempter \in [Task -> Task \cup {None}]
      /\ d.preemptee \in [Task -> Task \cup {None}]
  BY <1>1 DEF Chain
<1>5. up \in [Task -> Task \cup {None}] /\ down \in [Task -> Task \cup {None}]
  BY <1>0, <1>4
<1> HIDE DEF up, down
<1> QED
  BY <1>1, <1>3, <1>5 DEF Chain

LEMMA In ==
  ASSUME NEW c \in Chain, NEW a \in Queue, NEW t \in Task, NEW pr \in [Task -> Prio],
         NEW d \in PreemptIn(c, a, t, pr)
  PROVE  d \in Chain
<1>1. CASE c.current = None \/ pr[c.current] < pr[t]
  <2>1. d = preempt_curr(c, t, pr)
    BY <1>1 DEF PreemptIn
  <2>2. StartOf(c, t, pr, d)
    BY <2>1, Started
  <2> QED
    BY <2>2 DEF StartOf
<1>2. CASE ~(c.current = None \/ pr[c.current] < pr[t])
  <2> DEFINE p == pr[t]
             q == a.queue[p]
             idx == resch_fps(a.bitmap, reverse_prio(p) - 1, RESCH_PRIO_LONG)
             list == a.queue[reverse_prio(idx)]
  <2>0. /\ a.queue \in [Prio -> Seq(Task)] /\ a.bitmap \subseteq 0 .. MaxPrio - 1
        /\ p \in Prio
    BY DEF Queue
  <2>1. active_prev_prio_task(a, t, p) \subseteq Task
    <3>1. \A i \in 1 .. Len(q) - 1 : q[i] \in Task
      <4>1. q \in Seq(Task)
        BY <2>0
      <4>2. \A i \in 1 .. Len(q) - 1 : i \in 1 .. Len(q)
        BY <4>1, LenProperties
      <4> QED
        BY <4>1, <4>2, ElementOfSeq
    <3>2. ASSUME ~(idx < 0), list # <<>> PROVE list[Len(list)] \in Task
      <4>1. idx = -1 \/ idx \in a.bitmap
        <5> DEFINE found == {x \in a.bitmap : LooksTo(x, reverse_prio(p) - 1)
                                              /\ LeavesTo(x, reverse_prio(p) - 1)}
        <5>1. idx = -1 \/ idx = LastBit(found)
          BY DEF resch_fps
        <5>2. LastBit(found) = -1 \/ LastBit(found) \in found
          <6> HIDE DEF found
          <6>1. found \subseteq 0 .. MaxPrio - 1
            BY <2>0 DEF found
          <6>2. CASE found = {}
            BY <6>2 DEF LastBit
          <6>3. CASE found # {}
            <7>1. \E x \in found : \A y \in found : y <= x
              <8> DEFINE neg == {MaxPrio - x : x \in found}
              <8>1. neg \in SUBSET Nat /\ neg # {}
                BY <6>1, <6>3, ReschAssumption
              <8>2. PICK m \in neg : \A y \in neg : m <= y
                <9> HIDE DEF neg
                <9> QED
                  BY <8>1, NatMin
              <8>3. PICK x \in found : m = MaxPrio - x
                BY <8>2
              <8>4. \A y \in found : MaxPrio - x <= MaxPrio - y
                BY <8>2, <8>3
              <8>5. \A y \in found : y <= x
                BY <6>1, <8>3, <8>4, ReschAssumption
              <8> QED
                BY <8>5
            <7> QED
              BY <6>3, <7>1 DEF LastBit
          <6> QED
            BY <6>2, <6>3
        <5> QED
          BY <5>1, <5>2
      <4>2. idx \in 0 .. MaxPrio - 1
        BY <2>0, <3>2, <4>1
      <4>3. list \in Seq(Task)
        <5>1. reverse_prio(idx) \in Prio
          BY <4>2, Indices
        <5> QED
          BY <2>0, <5>1
      <4> QED
        BY <3>2, <4>3, EmptySeq, LenProperties, ElementOfSeq
    <3> HIDE DEF idx, list, p, q
    <3>3. active_prev_prio_task(a, t, p) =
            IF Head(q) # t
            THEN {q[i] : i \in {j \in 1 .. Len(q) - 1 : q[j + 1] = t}}
            ELSE IF idx < 0 THEN {}
            ELSE IF list = <<>> THEN Task ELSE {list[Len(list)]}
      BY DEF active_prev_prio_task, q, idx, list
    <3> QED
      BY <3>1, <3>2, <3>3
  <2>2. PICK prev \in Task :
          d = [c EXCEPT
                !.preemptee = [@ EXCEPT ![t] = c.preemptee[prev], ![prev] = t],
                !.preempter = [u \in Task |->
                  IF u = t THEN prev
                  ELSE IF u = c.preemptee[prev] THEN t ELSE @[u]]]
    BY <1>2, <2>1 DEF PreemptIn
  <2> DEFINE down == [c.preemptee EXCEPT ![t] = c.preemptee[prev], ![prev] = t]
             up == [u \in Task |-> IF u = t THEN prev
                                   ELSE IF u = c.preemptee[prev] THEN t
                                   ELSE c.preempter[u]]
  <2>3. d = [current |-> c.current, since |-> c.since, preempter |-> up,
             preemptee |-> down, exec_time |-> c.exec_time]
    BY <2>2 DEF Chain
  <2>4. /\ c.preempter \in [Task -> Task \cup {None}]
        /\ c.preemptee \in [Task -> Task \cup {None}]
    BY DEF Chain
  <2>5. up \in [Task -> Task \cup {None}] /\ down \in [Task -> Task \cup {None}]
    BY <2>4
  <2> HIDE DEF up, down
  <2> QED
    BY <2>3, <2>5 DEF Chain
<1> QED
  BY <1>1, <1>2

\* The counter of jiffies of a task is cleared, as at its release.
LEMMA Reset ==
  ASSUME NEW c \in Chain, NEW t \in Task, NEW d, d = ResetExecTime(c, t)
  PROVE  /\ d \in Chain
         /\ d.current = c.current /\ d.since = c.since
         /\ d.preempter = c.preempter /\ d.preemptee = c.preemptee
         /\ d.exec_time = [c.exec_time EXCEPT ![t] = 0]
<1>1. d = [current |-> c.current, since |-> c.since, preempter |-> c.preempter,
           preemptee |-> c.preemptee, exec_time |-> [c.exec_time EXCEPT ![t] = 0]]
  BY DEF ResetExecTime, Chain
<1>2. [c.exec_time EXCEPT ![t] = 0] \in [Task -> Nat]
  BY DEF Chain
<1> QED
  BY <1>1, <1>2 DEF Chain

\* The pointers and the counter of a task are cleared, as in rt_init.
LEMMA Cleared ==
  ASSUME NEW c \in Chain, NEW t \in Task,
         NEW d, d = [c EXCEPT !.preempter = [@ EXCEPT ![t] = None],
                              !.preemptee = [@ EXCEPT ![t] = None],
                              !.exec_time = [@ EXCEPT ![t] = 0]]
  PROVE  /\ d \in Chain
         /\ d.current = c.current /\ d.since = c.since
         /\ d.preempter = [c.preempter EXCEPT ![t] = None]
         /\ d.preemptee = [c.preemptee EXCEPT ![t] = None]
         /\ d.exec_time = [c.exec_time EXCEPT ![t] = 0]
<1>1. d = [current |-> c.current, since |-> c.since,
           preempter |-> [c.preempter EXCEPT ![t] = None],
           preemptee |-> [c.preemptee EXCEPT ![t] = None],
           exec_time |-> [c.exec_time EXCEPT ![t] = 0]]
  BY DEF Chain
<1>2. /\ [c.preempter EXCEPT ![t] = None] \in [Task -> Task \cup {None}]
      /\ [c.preemptee EXCEPT ![t] = None] \in [Task -> Task \cup {None}]
      /\ [c.exec_time EXCEPT ![t] = 0] \in [Task -> Nat]
  BY DEF Chain
<1> QED
  BY <1>1, <1>2 DEF Chain

\* A jiffy passes.
LEMMA Passed ==
  ASSUME NEW c \in Chain, NEW d, d = [c EXCEPT !.since = @ + 1]
  PROVE  /\ d \in Chain
         /\ d.current = c.current /\ d.since = c.since + 1
         /\ d.preempter = c.preempter /\ d.preemptee = c.preemptee
         /\ d.exec_time = c.exec_time
<1>1. d = [current |-> c.current, since |-> c.since + 1, preempter |-> c.preempter,
           preemptee |-> c.preemptee, exec_time |-> c.exec_time]
  BY DEF Chain
<1> QED
  BY <1>1 DEF Chain

----------------------------------------------------------------------------
(* What the active queue holds.                                            *)

\* The tasks with a released job.
Jobs == {t \in Task : phase[t] \in {"released", "started"}}

\* The lists of queue a hold exactly the tasks of J, each once in the list of
\* its priority, and they are counted.
Holds(a, J, pr) ==
  /\ \A p \in Prio : /\ Elements(a.queue[p]) = {t \in J : pr[t] = p}
                     /\ Distinct(a.queue[p])
  /\ a.nr_tasks = Cardinality(J)

\* A bit is set exactly when its list has a task.
BitsOf(a) == a.bitmap = {reverse_prio(p) : p \in {q \in Prio : a.queue[q] # <<>>}}

LEMMA EmptyElements ==
  ASSUME NEW S, NEW list \in Seq(S)
  PROVE  list = <<>> <=> Elements(list) = {}
BY EmptySeq, LenProperties DEF Elements

LEMMA EnqueuedHolds ==
  ASSUME NEW a \in Queue, NEW J \in SUBSET Task, NEW pr \in [Task -> Prio],
         Holds(a, J, pr), NEW t \in Task \ J,
         NEW b, b = __enqueue_task(a, t, pr[t])
  PROVE  /\ b \in Queue
         /\ Holds(b, J \cup {t}, pr)
         /\ BitsOf(a) => BitsOf(b)
<1> DEFINE p == pr[t]
<1>0. /\ p \in Prio /\ t \in Task /\ b = __enqueue_task(a, t, p)
      /\ a.queue \in [Prio -> Seq(Task)]
  BY DEF Queue
<1> HIDE DEF p
<1>1. /\ b \in Queue
      /\ b.queue[p] = Append(a.queue[p], t)
      /\ \A q \in Prio \ {p} : b.queue[q] = a.queue[q]
      /\ b.bitmap = a.bitmap \cup {reverse_prio(p)}
      /\ b.nr_tasks = a.nr_tasks + 1
  <2>1. b \in Queue
    BY <1>0, Enqueued
  <2>2. b.queue[p] = Append(a.queue[p], t)
    BY <1>0 DEF __enqueue_task
  <2>3. \A q \in Prio \ {p} : b.queue[q] = a.queue[q]
    BY <1>0, Enqueued
  <2>4. b.bitmap = a.bitmap \cup {reverse_prio(p)}
    BY <1>0, Enqueued
  <2>5. b.nr_tasks = a.nr_tasks + 1
    BY <1>0, Enqueued
  <2> QED
    BY <2>1, <2>2, <2>3, <2>4, <2>5
<1>2. /\ Elements(b.queue[p]) = Elements(a.queue[p]) \cup {t}
      /\ t \notin Elements(a.queue[p])
      /\ Distinct(b.queue[p])
  BY <1>0, <1>1, Appended DEF Holds
<1>3. ASSUME NEW q \in Prio
      PROVE  /\ Elements(b.queue[q]) = {u \in J \cup {t} : pr[u] = q}
             /\ Distinct(b.queue[q])
  <2>1. CASE q = p
    BY <1>2, <2>1 DEF Holds, p
  <2>2. CASE q # p
    BY <1>1, <2>2 DEF Holds, p
  <2> QED
    BY <2>1, <2>2
<1>4. Cardinality(J \cup {t}) = Cardinality(J) + 1
  BY ReschAssumption, FS_Subset, FS_AddElement
<1>5. Holds(b, J \cup {t}, pr)
  BY <1>1, <1>3, <1>4 DEF Holds
<1>6. ASSUME BitsOf(a) PROVE BitsOf(b)
  <2>1. b.queue[p] # <<>>
    BY <1>0, <1>1, AppendProperties
  <2>2. {q \in Prio : b.queue[q] # <<>>} = {q \in Prio : a.queue[q] # <<>>} \cup {p}
    BY <1>0, <1>1, <2>1
  <2> QED
    BY <1>1, <1>6, <2>2 DEF BitsOf
<1> QED
  BY <1>1, <1>5, <1>6

LEMMA DequeuedHolds ==
  ASSUME NEW a \in Queue, NEW J \in SUBSET Task, NEW pr \in [Task -> Prio],
         Holds(a, J, pr), NEW t \in J, NEW p \in Prio,
         NEW b, b = __dequeue_task(a, t, p)
  PROVE  /\ b \in Queue
         /\ Holds(b, J \ {t}, pr)
         /\ BitsOf(a) /\ p = pr[t] => BitsOf(b)
<1>0. a.queue \in [Prio -> Seq(Task)] /\ a.nr_tasks \in Nat /\ t \in Task
  BY DEF Queue
<1>1. IsFiniteSet(J)
  BY ReschAssumption, FS_Subset
<1>2. /\ Cardinality(J) \in Nat
      /\ Cardinality(J \ {t}) = Cardinality(J) - 1
      /\ Cardinality(J \ {t}) \in Nat
  BY <1>1, FS_RemoveElement, FS_CardinalityType
<1>3. a.nr_tasks > 0
  BY <1>0, <1>2 DEF Holds
<1>4. /\ b \in Queue
      /\ \A q \in Prio : b.queue[q] = Without(a.queue[q], t)
      /\ b.queue[p] = <<>> => b.bitmap = a.bitmap \ {reverse_prio(p)}
      /\ b.queue[p] # <<>> => b.bitmap = a.bitmap
      /\ b.nr_tasks = a.nr_tasks - 1
  BY <1>0, <1>3, Dequeued
<1>5. ASSUME NEW q \in Prio
      PROVE  /\ Elements(b.queue[q]) = Elements(a.queue[q]) \ {t}
             /\ Distinct(b.queue[q])
  <2>1. a.queue[q] \in Seq(Task) /\ Distinct(a.queue[q])
    BY <1>0 DEF Holds
  <2>2. b.queue[q] = Without(a.queue[q], t)
    BY <1>4
  <2> QED
    BY <2>1, <2>2, WithoutProperties
<1>6. Holds(b, J \ {t}, pr)
  <2>1. \A q \in Prio : Elements(b.queue[q]) = {u \in J \ {t} : pr[u] = q}
    BY <1>5 DEF Holds
  <2> QED
    BY <1>2, <1>4, <1>5, <2>1 DEF Holds
<1>7. ASSUME BitsOf(a), p = pr[t] PROVE BitsOf(b)
  <2>0. b.queue \in [Prio -> Seq(Task)]
    BY <1>4 DEF Queue
  <2>1. \A q \in Prio \ {p} : b.queue[q] = <<>> <=> a.queue[q] = <<>>
    <3>1. \A q \in Prio \ {p} : Elements(b.queue[q]) = Elements(a.queue[q])
      BY <1>5, <1>7, SMTT(40) DEF Holds
    <3> QED
      BY <1>0, <2>0, <3>1, EmptyElements
  <2>2. a.queue[p] # <<>>
    <3>1. t \in Elements(a.queue[p])
      BY <1>7 DEF Holds
    <3> QED
      BY <1>0, <3>1, EmptyElements
  <2>3. reverse_prio(p) \in a.bitmap
    BY <1>7, <2>2 DEF BitsOf
  <2>4. \A q \in Prio : reverse_prio(q) = reverse_prio(p) => q = p
    BY Indices
  <2>5. CASE b.queue[p] = <<>>
    <3>1. b.bitmap = a.bitmap \ {reverse_prio(p)}
      BY <1>4, <2>5
    <3>2. {q \in Prio : b.queue[q] # <<>>} = {q \in Prio : a.queue[q] # <<>>} \ {p}
      BY <2>1, <2>5
    <3> QED
      BY <1>7, <2>4, <3>1, <3>2 DEF BitsOf
  <2>6. CASE b.queue[p] # <<>>
    <3>1. b.bitmap = a.bitmap
      BY <1>4, <2>6
    <3>2. {q \in Prio : b.queue[q] # <<>>} = {q \in Prio : a.queue[q] # <<>>}
      BY <2>1, <2>2, <2>6
    <3> QED
      BY <1>7, <3>1, <3>2 DEF BitsOf
  <2> QED
    BY <2>5, <2>6
<1> QED
  BY <1>4, <1>6, <1>7

\* The bit of a priority is cleared exactly when it has to be, if the priority
\* is that of the list that the task is in.
LEMMA DequeuedBits ==
  ASSUME NEW a \in Queue, NEW J \in SUBSET Task, NEW pr \in [Task -> Prio],
         Holds(a, J, pr), NEW t \in J, BitsOf(a)
  PROVE  BitsOf(__dequeue_task(a, t, pr[t]))
<1>1. PICK p \in Prio : p = pr[t]
  OBVIOUS
<1>2. PICK b : b = __dequeue_task(a, t, p)
  OBVIOUS
<1>3. BitsOf(a) /\ p = pr[t] => BitsOf(b)
  BY <1>2, DequeuedHolds
<1> QED
  BY <1>1, <1>2, <1>3

\* What a task out of the queue changes about itself does not matter.
LEMMA HoldsOthers ==
  ASSUME NEW a \in Queue, NEW J \in SUBSET Task, NEW pr, NEW new, NEW t \in Task \ J,
         \A u \in Task \ {t} : new[u] = pr[u], Holds(a, J, pr)
  PROVE  Holds(a, J, new)
BY DEF Holds

\* The tasks that a queue counts are those that are linked into it.
LEMMA ActiveHolds ==
  ASSUME NEW a \in Queue, NEW J \in SUBSET Task, NEW pr \in [Task -> Prio],
         Holds(a, J, pr), NEW t \in Task
  PROVE  task_is_active(a, t) <=> t \in J
<1>1. task_is_active(a, t) <=> \E p \in Prio : t \in J /\ pr[t] = p
  BY DEF task_is_active, Holds
<1> QED
  BY <1>1

----------------------------------------------------------------------------
(* The types and the contents of the active queue, in every state.  The    *)
(* counter of a queue would leave the naturals if a task were taken out    *)
(* that is not linked, so the types need the contents.                     *)

Queued == Holds(active, Jobs, prio)

BitsExact == AllUse(Uses \ {"prio_in_job"}) => BitsOf(active)

QueueInv == TypeOK /\ Queued /\ BitsExact

LEMMA Types ==
  TypeOK <=>
    /\ uses \in [Task -> Use]
    /\ phase \in [Task -> Phase]
    /\ prio \in [Task -> Prio]
    /\ fifo \subseteq Task
    /\ runq \in Seq(Task)
    /\ global \in Seq(Task)
    /\ active \in Queue
    /\ chain \in Chain
    /\ ran \in [Task -> Nat]
BY DEF TypeOK, Phase, Queue, Chain

LEMMA QueueInit == Init => QueueInv
<1> SUFFICES ASSUME Init PROVE QueueInv
  OBVIOUS
<1>1. active \in Queue
  BY EmptySeq DEF Init, Queue
<1>2. chain \in Chain
  BY DEF Init, Chain
<1>3. prio \in [Task -> Prio]
  BY ReschAssumption DEF Init, Prio, RESCH_MIN_PRIO
<1>4. /\ uses \in [Task -> Use] /\ phase \in [Task -> Phase] /\ fifo \subseteq Task
      /\ runq \in Seq(Task) /\ global \in Seq(Task) /\ ran \in [Task -> Nat]
  BY UsesAssumption, EmptySeq DEF Init, Phase
<1>5. TypeOK
  BY <1>1, <1>2, <1>3, <1>4, Types
<1>6. Jobs = {}
  BY DEF Init, Jobs
<1>7. \A p \in Prio : active.queue[p] = <<>>
  BY DEF Init
<1>8. Queued
  <2>1. \A p \in Prio : Elements(active.queue[p]) = {} /\ Distinct(active.queue[p])
    BY <1>7, EmptySeq DEF Elements, Distinct
  <2>2. active.nr_tasks = 0
    BY DEF Init
  <2> QED
    BY <1>6, <2>1, <2>2, FS_EmptySet DEF Queued, Holds
<1>9. BitsExact
  <2>1. active.bitmap = {}
    BY DEF Init
  <2> QED
    BY <1>7, <2>1 DEF BitsExact, BitsOf
<1> QED
  BY <1>5, <1>8, <1>9 DEF QueueInv

\* The task waits for its release, or starts its next job, with a queue that
\* it has left.
LEMMA Waits ==
  ASSUME QueueInv, NEW t \in Task, NEW a \in Queue, NEW c \in Chain,
         Holds(a, Jobs \ {t}, prio), BitsOf(active) => BitsOf(a),
         Sleep(t, a, c) \/ StartLate(t, a, c),
         global' \in Seq(Task), UNCHANGED <<uses, prio, fifo>>
  PROVE  QueueInv'
<1>0. /\ uses \in [Task -> Use] /\ phase \in [Task -> Phase]
      /\ prio \in [Task -> Prio] /\ fifo \subseteq Task /\ runq \in Seq(Task)
      /\ ran \in [Task -> Nat] /\ prio[t] \in Prio
  BY Types DEF QueueInv
<1>1. CASE Sleep(t, a, c)
  <2>1. runq' \in Seq(Task)
    BY <1>0, <1>1, WithoutType DEF Sleep
  <2>2. /\ active' = a /\ chain' = c /\ ran' = ran
        /\ phase' = [phase EXCEPT ![t] = "waiting"]
    BY <1>1 DEF Sleep
  <2>3. phase' \in [Task -> Phase]
    BY <1>0, <2>2 DEF Phase
  <2>4. Jobs' = Jobs \ {t}
    BY <1>0, <2>2 DEF Jobs
  <2>5. TypeOK'
    BY <1>0, <2>1, <2>2, <2>3 DEF TypeOK, Phase, Queue, Chain
  <2>6. Queued'
    BY <2>2, <2>4 DEF Queued
  <2>7. BitsExact'
    BY <2>2 DEF QueueInv, BitsExact, AllUse
  <2> QED
    BY <2>5, <2>6, <2>7 DEF QueueInv
<1>2. CASE StartLate(t, a, c)
  <2>2. /\ active' = __enqueue_task(a, t, prio[t]) /\ runq' = runq
        /\ phase' = [phase EXCEPT ![t] = "started"]
        /\ ran' = [ran EXCEPT ![t] = 0]
        /\ chain' = preempt_curr(ResetExecTime(c, t), t, prio)
    BY <1>2 DEF StartLate, job_release
  <2>3. phase' \in [Task -> Phase] /\ ran' \in [Task -> Nat]
    BY <1>0, <2>2 DEF Phase
  <2>4. Jobs' = (Jobs \ {t}) \cup {t}
    BY <1>0, <2>2 DEF Jobs
  <2>5. chain' \in Chain
    <3>1. ResetExecTime(c, t) \in Chain
      BY Reset
    <3>2. StartOf(ResetExecTime(c, t), t, prio, chain')
      BY <2>2, <3>1, Started
    <3> QED
      BY <3>2 DEF StartOf
  <2>6. /\ active' \in Queue
        /\ Holds(active', (Jobs \ {t}) \cup {t}, prio)
        /\ BitsOf(a) => BitsOf(active')
    <3>1. (Jobs \ {t}) \in SUBSET Task /\ t \in Task \ (Jobs \ {t})
      BY DEF Jobs
    <3> QED
      BY <1>0, <2>2, <3>1, EnqueuedHolds
  <2>7. TypeOK'
    BY <1>0, <2>2, <2>3, <2>5, <2>6 DEF TypeOK, Phase, Queue, Chain
  <2>8. Queued'
    BY <2>4, <2>6 DEF Queued
  <2>9. BitsExact'
    BY <2>6 DEF QueueInv, BitsExact, AllUse, BitsOf
  <2> QED
    BY <2>7, <2>8, <2>9 DEF QueueInv
<1> QED
  BY <1>1, <1>2

LEMMA QueueStep ==
  ASSUME QueueInv, [Next]_vars
  PROVE  QueueInv'
<1>0. /\ uses \in [Task -> Use] /\ phase \in [Task -> Phase]
      /\ prio \in [Task -> Prio] /\ fifo \subseteq Task /\ runq \in Seq(Task)
      /\ global \in Seq(Task) /\ active \in Queue /\ chain \in Chain
      /\ ran \in [Task -> Nat]
  BY Types DEF QueueInv
<1>1. /\ Jobs \in SUBSET Task
      /\ Holds(active, Jobs, prio)
      /\ \A t \in Task : task_is_active(active, t) <=> t \in Jobs
  <2>1. Holds(active, Jobs, prio) /\ Jobs \in SUBSET Task
    BY DEF QueueInv, Queued, Jobs
  <2> QED
    BY <1>0, <2>1, ActiveHolds
<1>2. ASSUME NEW t \in Task, api_init(t) PROVE QueueInv'
  <2>1. /\ uses' = uses /\ fifo' = fifo /\ global' = global /\ active' = active
        /\ phase[t] = "exited"
        /\ phase' = [phase EXCEPT ![t] = "init"]
        /\ prio' = [prio EXCEPT ![t] = RESCH_MIN_PRIO]
        /\ runq' = Append(runq, t)
        /\ ran' = [ran EXCEPT ![t] = 0]
    BY <1>2 DEF api_init
  <2>2. chain' \in Chain
    BY <1>0, <1>2, Cleared DEF api_init
  <2>3. /\ phase' \in [Task -> Phase] /\ prio' \in [Task -> Prio]
        /\ ran' \in [Task -> Nat]
    BY <1>0, <2>1, ReschAssumption DEF Phase, Prio, RESCH_MIN_PRIO
  <2>4. runq' \in Seq(Task)
    BY <1>0, <2>1, AppendProperties
  <2>5. TypeOK'
    BY <1>0, <2>1, <2>2, <2>3, <2>4 DEF TypeOK, Phase, Queue, Chain
  <2>6. Jobs' = Jobs /\ t \in Task \ Jobs
    BY <1>0, <2>1 DEF Jobs
  <2>7. Queued'
    <3>1. \A u \in Task \ {t} : prio'[u] = prio[u]
      BY <1>0, <2>1
    <3> QED
      BY <1>0, <1>1, <2>1, <2>6, <3>1, HoldsOthers DEF Queued
  <2>8. BitsExact'
    BY <2>1 DEF QueueInv, BitsExact, AllUse
  <2> QED
    BY <2>5, <2>7, <2>8 DEF QueueInv
<1>3. ASSUME NEW t \in Task, NEW p \in Prio, api_set_priority(t, p) PROVE QueueInv'
  <2>1. /\ uses' = uses /\ phase' = phase /\ ran' = ran
        /\ fifo' = fifo \cup {t}
        /\ prio' = [prio EXCEPT ![t] = p]
        /\ runq' = Append(Without(runq, t), t)
        /\ global' = IF task_is_submitted(t)
                     THEN __global_list_insert(Without(global, t), t, prio')
                     ELSE global
        /\ IF task_is_active(active, t) THEN Requeue(t, prio')
                                        ELSE UNCHANGED <<active, chain>>
        /\ phase[t] = "init" \/ "prio_in_job" \in uses[t].does
    BY <1>3 DEF api_set_priority
  <2>2. prio' \in [Task -> Prio] /\ fifo' \subseteq Task
    BY <1>0, <2>1
  <2>3. runq' \in Seq(Task)
    <3>1. Without(runq, t) \in Seq(Task)
      BY <1>0, WithoutType
    <3> QED
      BY <2>1, <3>1, AppendProperties
  <2>4. global' \in Seq(Task)
    <3>1. Without(global, t) \in Seq(Task)
      BY <1>0, WithoutType
    <3>2. prio' \in [Task -> Int]
      BY <2>2, Indices
    <3>3. __global_list_insert(Without(global, t), t, prio') \in Seq(Task)
      BY <3>1, <3>2, Inserted
    <3> QED
      BY <1>0, <2>1, <3>3
  <2>5. Jobs' = Jobs
    BY <2>1 DEF Jobs
  <2>6. CASE t \in Jobs
    <3> DEFINE a == __dequeue_task(active, t, prio'[t])
               out == preempt_out(chain, t)
    <3>1. /\ active' = __enqueue_task(a, t, prio'[t])
          /\ chain' = out \/ chain' \in PreemptIn(out, active', t, prio')
      BY <1>1, <2>1, <2>6 DEF Requeue
    <3>2. a \in Queue /\ Holds(a, Jobs \ {t}, prio)
      BY <1>0, <1>1, <2>2, <2>6, DequeuedHolds
    <3>3. out \in Chain
      BY <1>0, Out
    <3> HIDE DEF a, out
    <3>4. Holds(a, Jobs \ {t}, prio')
      <4>1. \A u \in Task \ {t} : prio'[u] = prio[u]
        BY <1>0, <2>1
      <4>2. (Jobs \ {t}) \in SUBSET Task /\ t \in Task \ (Jobs \ {t})
        BY <1>1
      <4> QED
        BY <3>2, <4>1, <4>2, HoldsOthers
    <3>5. active' \in Queue /\ Holds(active', (Jobs \ {t}) \cup {t}, prio')
      <4>1. (Jobs \ {t}) \in SUBSET Task /\ t \in Task \ (Jobs \ {t})
        BY <1>1
      <4> QED
        BY <2>2, <3>1, <3>2, <3>4, <4>1, EnqueuedHolds
    <3>6. chain' \in Chain
      BY <2>2, <3>1, <3>3, <3>5, In
    <3>7. TypeOK'
      BY <1>0, <2>1, <2>2, <2>3, <2>4, <3>5, <3>6 DEF TypeOK, Phase, Queue, Chain
    <3>8. Queued'
      <4>1. (Jobs \ {t}) \cup {t} = Jobs
        BY <2>6
      <4> QED
        BY <2>5, <3>5, <4>1 DEF Queued
    <3>9. BitsExact'
      <4>1. phase[t] # "init"
        BY <2>6 DEF Jobs
      <4>2. ~AllUse(Uses \ {"prio_in_job"})
        BY <2>1, <4>1 DEF AllUse
      <4> QED
        BY <2>1, <4>2 DEF BitsExact, AllUse
    <3> QED
      BY <3>7, <3>8, <3>9 DEF QueueInv
  <2>7. CASE t \notin Jobs
    <3>1. active' = active /\ chain' = chain
      BY <1>1, <2>1, <2>7
    <3>2. TypeOK'
      BY <1>0, <2>1, <2>2, <2>3, <2>4, <3>1 DEF TypeOK, Phase, Queue, Chain
    <3>3. Queued'
      <4>1. \A u \in Task \ {t} : prio'[u] = prio[u]
        BY <1>0, <2>1
      <4> QED
        BY <1>0, <1>1, <2>5, <2>7, <3>1, <4>1, HoldsOthers DEF Queued
    <3>4. BitsExact'
      BY <2>1, <3>1 DEF QueueInv, BitsExact, AllUse
    <3> QED
      BY <3>2, <3>3, <3>4 DEF QueueInv
  <2> QED
    BY <2>6, <2>7
<1>4. ASSUME NEW t \in Task, api_run(t) PROVE QueueInv'
  <2>1. /\ phase[t] = "init"
        /\ global' = __global_list_insert(global, t, prio)
        /\ Sleep(t, active, chain) \/ StartLate(t, active, chain)
        /\ UNCHANGED <<uses, prio, fifo>>
    BY <1>4 DEF api_run
  <2>2. global' \in Seq(Task)
    <3>1. prio \in [Task -> Int]
      BY <1>0, Indices
    <3> QED
      BY <1>0, <2>1, <3>1, Inserted
  <2>3. Jobs \ {t} = Jobs
    BY <2>1 DEF Jobs
  <2>4. Holds(active, Jobs \ {t}, prio)
    BY <1>1, <2>3
  <2> QED
    BY <1>0, <2>1, <2>2, <2>4, Waits
<1>5. ASSUME NEW t \in Task, job_release_handler(t) PROVE QueueInv'
  <2>1. /\ uses' = uses /\ prio' = prio /\ fifo' = fifo /\ global' = global
        /\ phase[t] = "waiting"
        /\ phase' = [phase EXCEPT ![t] = "released"]
        /\ runq' = Append(runq, t)
        /\ ran' = [ran EXCEPT ![t] = 0]
        /\ active' = __enqueue_task(active, t, prio[t])
        /\ chain' = ResetExecTime(chain, t)
    BY <1>5 DEF job_release_handler, job_release
  <2>2. /\ phase' \in [Task -> Phase] /\ ran' \in [Task -> Nat]
    BY <1>0, <2>1 DEF Phase
  <2>3. runq' \in Seq(Task)
    BY <1>0, <2>1, AppendProperties
  <2>4. chain' \in Chain
    BY <1>0, <2>1, Reset
  <2>5. t \in Task \ Jobs /\ Jobs' = Jobs \cup {t}
    BY <1>0, <2>1 DEF Jobs
  <2>6. /\ active' \in Queue
        /\ Holds(active', Jobs \cup {t}, prio)
        /\ BitsOf(active) => BitsOf(active')
    BY <1>0, <1>1, <2>1, <2>5, EnqueuedHolds
  <2>7. TypeOK'
    BY <1>0, <2>1, <2>2, <2>3, <2>4, <2>6 DEF TypeOK, Phase, Queue, Chain
  <2>8. Queued'
    BY <2>1, <2>5, <2>6 DEF Queued
  <2>9. BitsExact'
    BY <2>1, <2>6 DEF QueueInv, BitsExact, AllUse, BitsOf
  <2> QED
    BY <2>7, <2>8, <2>9 DEF QueueInv
<1>6. ASSUME NEW t \in Task, job_start(t) PROVE QueueInv'
  <2>1. /\ UNCHANGED <<uses, prio, fifo, runq, global, active, ran>>
        /\ phase[t] = "released"
        /\ phase' = [phase EXCEPT ![t] = "started"]
        /\ chain' = preempt_curr(chain, t, prio)
    BY <1>6 DEF job_start
  <2>2. phase' \in [Task -> Phase]
    BY <1>0, <2>1 DEF Phase
  <2>3. chain' \in Chain
    <3>1. StartOf(chain, t, prio, chain')
      BY <1>0, <2>1, Started
    <3> QED
      BY <3>1 DEF StartOf
  <2>4. TypeOK'
    BY <1>0, <2>1, <2>2, <2>3 DEF TypeOK, Phase, Queue, Chain
  <2>5. Jobs' = Jobs
    BY <1>0, <2>1 DEF Jobs
  <2>6. Queued' /\ BitsExact'
    BY <1>1, <2>1, <2>5 DEF QueueInv, Queued, BitsExact, AllUse
  <2> QED
    BY <2>4, <2>6 DEF QueueInv
<1>7. ASSUME NEW t \in Task, api_wait_for_period(t) PROVE QueueInv'
  <2> DEFINE a == __dequeue_task(active, t, prio[t])
             c == preempt_switch(chain, t)
  <2>1. /\ phase[t] = "started"
        /\ Sleep(t, a, c) \/ StartLate(t, a, c)
        /\ UNCHANGED <<uses, prio, fifo, global>>
    BY <1>7 DEF api_wait_for_period
  <2>2. t \in Jobs /\ prio[t] \in Prio
    BY <1>0, <2>1 DEF Jobs
  <2>3. a \in Queue /\ Holds(a, Jobs \ {t}, prio) /\ (BitsOf(active) => BitsOf(a))
    <3>1. a \in Queue /\ Holds(a, Jobs \ {t}, prio)
      BY <1>0, <1>1, <2>2, DequeuedHolds
    <3>2. BitsOf(active) => BitsOf(a)
      BY <1>0, <1>1, <2>2, DequeuedBits
    <3> QED
      BY <3>1, <3>2
  <2>4. c \in Chain
    BY <1>0, Switched DEF SwitchOf
  <2> HIDE DEF a, c
  <2> QED
    BY <1>0, <2>1, <2>3, <2>4, Waits
<1>8. ASSUME NEW t \in Task, api_exit(t) PROVE QueueInv'
  <2>1. /\ uses' = uses /\ prio' = prio /\ ran' = ran
        /\ chain' = preempt_switch(chain, t)
        /\ active' = IF task_is_active(active, t)
                     THEN __dequeue_task(active, t, prio[t]) ELSE active
        /\ global' = IF task_is_submitted(t) THEN Without(global, t) ELSE global
        /\ fifo' = fifo \ {t}
        /\ phase' = [phase EXCEPT ![t] = "exited"]
        /\ runq' = Without(runq, t)
    BY <1>8 DEF api_exit
  <2>2. /\ phase' \in [Task -> Phase] /\ fifo' \subseteq Task /\ prio[t] \in Prio
    BY <1>0, <2>1 DEF Phase
  <2>3. runq' \in Seq(Task) /\ global' \in Seq(Task)
    BY <1>0, <2>1, WithoutType
  <2>4. chain' \in Chain
    <3>1. SwitchOf(chain, t, chain')
      BY <1>0, <2>1, Switched
    <3> QED
      BY <3>1 DEF SwitchOf
  <2>5. Jobs' = Jobs \ {t}
    BY <1>0, <2>1 DEF Jobs
  <2>6. /\ active' \in Queue
        /\ Holds(active', Jobs \ {t}, prio)
        /\ BitsOf(active) => BitsOf(active')
    <3>1. CASE t \in Jobs
      <4>1. active' = __dequeue_task(active, t, prio[t])
        BY <1>1, <2>1, <3>1
      <4>2. active' \in Queue /\ Holds(active', Jobs \ {t}, prio)
        BY <1>0, <1>1, <2>2, <3>1, <4>1, DequeuedHolds
      <4>3. BitsOf(active) => BitsOf(active')
        BY <1>0, <1>1, <2>2, <3>1, <4>1, DequeuedBits
      <4> QED
        BY <4>2, <4>3
    <3>2. CASE t \notin Jobs
      <4>1. active' = active /\ Jobs \ {t} = Jobs
        BY <1>1, <2>1, <3>2
      <4> QED
        BY <1>0, <1>1, <4>1 DEF BitsOf
    <3> QED
      BY <3>1, <3>2
  <2>7. TypeOK'
    BY <1>0, <2>1, <2>2, <2>3, <2>4, <2>6 DEF TypeOK, Phase, Queue, Chain
  <2>8. Queued'
    BY <2>1, <2>5, <2>6 DEF Queued
  <2>9. BitsExact'
    BY <2>1, <2>6 DEF QueueInv, BitsExact, AllUse, BitsOf
  <2> QED
    BY <2>7, <2>8, <2>9 DEF QueueInv
<1>9. ASSUME NEW t \in Task, Block(t) \/ Event(t) PROVE QueueInv'
  <2>1. /\ UNCHANGED <<uses, phase, prio, fifo, global, active, chain, ran>>
        /\ runq' = Without(runq, t) \/ runq' = Append(runq, t)
    BY <1>9 DEF Block, Event
  <2>2. runq' \in Seq(Task)
    <3>1. Without(runq, t) \in Seq(Task) /\ Append(runq, t) \in Seq(Task)
      BY <1>0, WithoutType, AppendProperties
    <3> QED
      BY <2>1, <3>1
  <2>3. TypeOK'
    BY <1>0, <2>1, <2>2 DEF TypeOK, Phase, Queue, Chain
  <2>4. Queued' /\ BitsExact'
    BY <2>1 DEF QueueInv, Queued, Jobs, BitsExact, AllUse
  <2> QED
    BY <2>3, <2>4 DEF QueueInv
<1>10. ASSUME Tick PROVE QueueInv'
  <2>1. /\ UNCHANGED <<uses, phase, prio, fifo, runq, global, active>>
        /\ chain' = [chain EXCEPT !.since = @ + 1]
        /\ \/ ran' = ran
           \/ \E t \in Task : ran' = [ran EXCEPT ![t] = IF phase[t] = "started"
                                                       THEN @ + 1 ELSE @]
    <3>1. Runnable \subseteq Task
      BY <1>0, ElementOfSeq DEF Runnable, Elements
    <3> QED
      BY <1>10, <3>1 DEF Tick
  <2>2. ran' \in [Task -> Nat]
    <3>1. ASSUME NEW t \in Task
          PROVE  [ran EXCEPT ![t] = IF phase[t] = "started" THEN @ + 1 ELSE @]
                   \in [Task -> Nat]
      BY <1>0
    <3> QED
      BY <1>0, <2>1, <3>1
  <2>3. chain' \in Chain
    BY <1>0, <2>1, Passed
  <2>4. TypeOK'
    BY <1>0, <2>1, <2>2, <2>3 DEF TypeOK, Phase, Queue, Chain
  <2>5. Queued' /\ BitsExact'
    BY <2>1 DEF QueueInv, Queued, Jobs, BitsExact, AllUse
  <2> QED
    BY <2>4, <2>5 DEF QueueInv
<1>11. ASSUME UNCHANGED vars PROVE QueueInv'
  <2>1. UNCHANGED <<uses, phase, prio, fifo, runq, global, active, chain, ran>>
    BY <1>11 DEF vars
  <2>2. TypeOK'
    BY <1>0, <2>1 DEF TypeOK, Phase, Queue, Chain
  <2>3. Queued' /\ BitsExact'
    BY <2>1 DEF QueueInv, Queued, Jobs, BitsExact, AllUse
  <2> QED
    BY <2>2, <2>3 DEF QueueInv
<1> QED
  BY <1>2, <1>3, <1>4, <1>5, <1>6, <1>7, <1>8, <1>9, <1>10, <1>11 DEF Next

\* The variables have their types in every state: no counter wraps, no pointer
\* of the chain leaves the tasks and no bit is set beyond the priorities.
THEOREM TypeCorrect == Spec => []TypeOK
<1>1. Init => QueueInv
  BY QueueInit
<1>2. QueueInv /\ [Next]_vars => QueueInv'
  BY QueueStep
<1>3. QueueInv => TypeOK
  BY DEF QueueInv
<1> QED
  BY <1>1, <1>2, <1>3, PTL DEF Spec

\* The lists of the active queue hold exactly the released jobs, each once and
\* in the list of its task's priority, and they are counted.
THEOREM QueueExact == Spec => []JobsQueued
<1>1. Init => QueueInv
  BY QueueInit
<1>2. QueueInv /\ [Next]_vars => QueueInv'
  BY QueueStep
<1>3. QueueInv => JobsQueued
  <2> SUFFICES ASSUME QueueInv PROVE JobsQueued
    OBVIOUS
  <2>1. /\ active.queue \in [Prio -> Seq(Task)]
        /\ Holds(active, Jobs, prio)
    BY Types DEF QueueInv, Queued, Queue
  <2>2. ASSUME NEW p \in Prio
        PROVE  /\ Elements(active.queue[p]) = {t \in Jobs : prio[t] = p}
               /\ Len(active.queue[p]) = Cardinality({t \in Jobs : prio[t] = p})
    <3>1. /\ Elements(active.queue[p]) = {t \in Jobs : prio[t] = p}
          /\ Distinct(active.queue[p])
      BY <2>1 DEF Holds
    <3>2. Cardinality(Elements(active.queue[p])) = Len(active.queue[p])
      BY <2>1, <3>1, DistinctLen
    <3> QED
      BY <3>1, <3>2
  <2>3. active.nr_tasks = Cardinality(Jobs)
    BY <2>1 DEF Holds
  <2> QED
    BY <2>2, <2>3 DEF JobsQueued, Jobs
<1> QED
  BY <1>1, <1>2, <1>3, PTL DEF Spec

----------------------------------------------------------------------------
(* The global list.                                                        *)

Submitted == {t \in Task : task_is_submitted(t)}

Listed ==
  /\ Distinct(global)
  /\ Elements(global) = Submitted
  /\ Sorted(global, prio)

GlobalInv == TypeOK /\ Queued /\ BitsExact /\ Listed

LEMMA GlobalInit == Init => GlobalInv
<1> SUFFICES ASSUME Init PROVE GlobalInv
  OBVIOUS
<1>1. global = <<>> /\ Len(global) = 0
  BY EmptySeq DEF Init
<1>2. Submitted = {}
  BY DEF Init, Submitted, task_is_submitted
<1>3. Listed
  BY <1>1, <1>2 DEF Listed, Distinct, Elements, Sorted
<1> QED
  BY <1>3, QueueInit DEF QueueInv, GlobalInv

LEMMA ListedStep ==
  ASSUME TypeOK, Listed, TypeOK', [Next]_vars
  PROVE  Listed'
<1>0. /\ phase \in [Task -> Phase] /\ prio \in [Task -> Prio]
      /\ global \in Seq(Task)
      /\ prio \in [Task -> Int]
  BY Types, Indices
<1>1. prio' \in [Task -> Int]
  <2>1. prio' \in [Task -> Prio]
    BY DEF TypeOK
  <2> QED
    BY <2>1, Indices
<1>2. Distinct(global) /\ Elements(global) = Submitted /\ Sorted(global, prio)
  BY DEF Listed
<1>3. ASSUME NEW t \in Task \ Submitted, global' = global, Submitted' = Submitted,
             \A u \in Task \ {t} : prio'[u] = prio[u]
      PROVE  Listed'
  <2>1. \A i \in 1 .. Len(global) : global[i] \in Task \ {t}
    BY <1>0, <1>2, <1>3, ElementOfSeq DEF Elements
  <2>2. Sorted(global, prio')
    BY <1>2, <1>3, <2>1 DEF Sorted
  <2> QED
    BY <1>2, <1>3, <2>2 DEF Listed
<1>4. ASSUME UNCHANGED <<global, prio>>, Submitted' = Submitted PROVE Listed'
  BY <1>2, <1>4 DEF Listed
<1>5. ASSUME NEW t \in Task, api_init(t) PROVE Listed'
  <2>1. /\ global' = global
        /\ phase[t] = "exited" /\ phase' = [phase EXCEPT ![t] = "init"]
        /\ \A u \in Task \ {t} : prio'[u] = prio[u]
    BY <1>0, <1>5 DEF api_init
  <2>2. Submitted' = Submitted /\ t \in Task \ Submitted
    BY <1>0, <2>1 DEF Submitted, task_is_submitted
  <2> QED
    BY <1>3, <2>1, <2>2
<1>6. ASSUME NEW t \in Task, NEW p \in Prio, api_set_priority(t, p) PROVE Listed'
  <2>1. /\ phase' = phase
        /\ \A u \in Task \ {t} : prio'[u] = prio[u]
        /\ global' = IF task_is_submitted(t)
                     THEN __global_list_insert(Without(global, t), t, prio')
                     ELSE global
    BY <1>0, <1>6 DEF api_set_priority
  <2>2. Submitted' = Submitted
    BY <2>1 DEF Submitted, task_is_submitted
  <2>3. CASE t \in Submitted
    <3>1. global' = __global_list_insert(Without(global, t), t, prio')
      BY <2>1, <2>3 DEF Submitted
    <3>2. /\ Without(global, t) \in Seq(Task)
          /\ Elements(Without(global, t)) = Submitted \ {t}
          /\ Distinct(Without(global, t))
      BY <1>0, <1>2, WithoutProperties
    <3>3. Sorted(Without(global, t), prio')
      BY <1>0, <1>2, <2>1, WithoutSorted
    <3>4. /\ Elements(global') = (Submitted \ {t}) \cup {t}
          /\ Distinct(global')
      BY <1>1, <3>1, <3>2, Inserted
    <3>5. Sorted(global', prio')
      BY <1>1, <3>1, <3>2, <3>3, InsertedSorted
    <3> QED
      BY <2>2, <2>3, <3>4, <3>5 DEF Listed
  <2>4. CASE t \notin Submitted
    BY <1>3, <2>1, <2>2, <2>4 DEF Submitted
  <2> QED
    BY <2>3, <2>4
<1>7. ASSUME NEW t \in Task, api_run(t) PROVE Listed'
  <2>1. /\ phase[t] = "init"
        /\ global' = __global_list_insert(global, t, prio)
        /\ prio' = prio
        /\ phase' \in {[phase EXCEPT ![t] = "waiting"], [phase EXCEPT ![t] = "started"]}
    BY <1>7 DEF api_run, Sleep, StartLate
  <2>2. Submitted' = Submitted \cup {t} /\ t \notin Submitted
    BY <1>0, <2>1 DEF Submitted, task_is_submitted
  <2>3. /\ Elements(global') = Submitted \cup {t}
        /\ Distinct(global')
    BY <1>0, <1>2, <2>1, <2>2, Inserted
  <2>4. Sorted(global', prio)
    BY <1>0, <1>2, <2>1, InsertedSorted
  <2> QED
    BY <2>1, <2>2, <2>3, <2>4 DEF Listed
<1>8. ASSUME NEW t \in Task, job_release_handler(t) \/ job_start(t) PROVE Listed'
  <2>1. /\ global' = global /\ prio' = prio
        /\ phase[t] \in {"waiting", "released"}
        /\ phase' \in {[phase EXCEPT ![t] = "released"], [phase EXCEPT ![t] = "started"]}
    BY <1>8 DEF job_release_handler, job_start
  <2>2. Submitted' = Submitted
    BY <1>0, <2>1 DEF Submitted, task_is_submitted
  <2> QED
    BY <1>4, <2>1, <2>2
<1>9. ASSUME NEW t \in Task, api_wait_for_period(t) PROVE Listed'
  <2>1. /\ global' = global /\ prio' = prio
        /\ phase[t] = "started"
        /\ phase' \in {[phase EXCEPT ![t] = "waiting"], [phase EXCEPT ![t] = "started"]}
    BY <1>9 DEF api_wait_for_period, Sleep, StartLate
  <2>2. Submitted' = Submitted
    BY <1>0, <2>1 DEF Submitted, task_is_submitted
  <2> QED
    BY <1>4, <2>1, <2>2
<1>10. ASSUME NEW t \in Task, api_exit(t) PROVE Listed'
  <2>1. /\ global' = IF task_is_submitted(t) THEN Without(global, t) ELSE global
        /\ phase' = [phase EXCEPT ![t] = "exited"]
        /\ prio' = prio
    BY <1>10 DEF api_exit
  <2>2. Submitted' = Submitted \ {t}
    BY <1>0, <2>1 DEF Submitted, task_is_submitted
  <2>3. CASE t \in Submitted
    <3>1. global' = Without(global, t)
      BY <2>1, <2>3 DEF Submitted
    <3>2. /\ Elements(Without(global, t)) = Submitted \ {t}
          /\ Distinct(Without(global, t))
      BY <1>0, <1>2, WithoutProperties
    <3>3. Sorted(Without(global, t), prio)
      BY <1>0, <1>2, WithoutSorted
    <3> QED
      BY <2>1, <2>2, <3>1, <3>2, <3>3 DEF Listed
  <2>4. CASE t \notin Submitted
    BY <1>4, <2>1, <2>2, <2>4 DEF Submitted
  <2> QED
    BY <2>3, <2>4
<1>11. ASSUME \/ \E t \in Task : Block(t) \/ Event(t)
              \/ Tick
              \/ UNCHANGED vars
       PROVE Listed'
  <2>1. UNCHANGED <<global, prio, phase>>
    BY <1>11 DEF Block, Event, Tick, vars
  <2> QED
    BY <1>4, <2>1 DEF Submitted, task_is_submitted
<1> QED
  BY <1>5, <1>6, <1>7, <1>8, <1>9, <1>10, <1>11 DEF Next

\* The global list holds exactly the submitted tasks, the higher priority
\* first, though a task changes its priority while it is linked.
THEOREM GlobalExact == Spec => []GlobalListSorted
<1>1. Init => GlobalInv
  BY GlobalInit
<1>2. GlobalInv /\ [Next]_vars => GlobalInv'
  <2> SUFFICES ASSUME GlobalInv, [Next]_vars PROVE GlobalInv'
    OBVIOUS
  <2>1. QueueInv'
    BY QueueStep DEF GlobalInv, QueueInv
  <2>2. Listed'
    BY <2>1, ListedStep DEF GlobalInv, QueueInv
  <2> QED
    BY <2>1, <2>2 DEF GlobalInv, QueueInv
<1>3. GlobalInv => GlobalListSorted
  BY DEF GlobalInv, Listed, Submitted, Sorted, Distinct, GlobalListSorted
<1> QED
  BY <1>1, <1>2, <1>3, PTL DEF Spec

----------------------------------------------------------------------------
(* The kernel's run queue and the task that has the core.                  *)

\* A task is in the run queue once at most, and not while it waits or when it
\* has left.
RunqOnce ==
  /\ Distinct(runq)
  /\ \A t \in Task : phase[t] \in {"exited", "waiting"} => t \notin Runnable

\* The task that enters the real-time mode with a priority, and does not sleep
\* in its jobs, competes for the core with that priority from its release on.
Ready ==
  AllUse({"exit_early"}) =>
    \A t \in Task : /\ t \in Submitted => t \in fifo
                    /\ t \in Jobs => t \in Runnable

LEMMA OnCpuRunnable ==
  ASSUME NEW t \in Task, OnCpu(t)
  PROVE  t \in Runnable
BY DEF OnCpu, Runnable, Elements

LEMMA ReadyStep ==
  ASSUME TypeOK, RunqOnce, Ready, [Next]_vars
  PROVE  RunqOnce' /\ Ready'
<1> DEFINE Done == RunqOnce' /\ Ready'
           Fine == AllUse({"exit_early"})
<1> SUFFICES Done
  OBVIOUS
<1>0. /\ phase \in [Task -> Phase] /\ runq \in Seq(Task) /\ uses' = uses
  BY Types DEF Next, vars, api_init, api_set_priority, api_run, job_release_handler,
    job_start, api_wait_for_period, api_exit, Block, Event, Tick
<1>1. /\ Distinct(runq)
      /\ \A t \in Task : phase[t] \in {"exited", "waiting"} => t \notin Runnable
  BY DEF RunqOnce
<1>2. /\ Fine => \A t \in Task : /\ t \in Submitted => t \in fifo
                                 /\ t \in Jobs => t \in Runnable
      /\ Fine' <=> Fine
  BY <1>0 DEF Ready, AllUse
<1>3. ASSUME NEW t \in Task, t \notin Runnable, runq' = Append(runq, t)
      PROVE  Distinct(runq') /\ Runnable' = Runnable \cup {t}
  BY <1>0, <1>1, <1>3, Appended DEF Runnable
<1>4. ASSUME NEW t \in Task, runq' = Without(runq, t)
      PROVE  Distinct(runq') /\ Runnable' = Runnable \ {t}
  BY <1>0, <1>1, <1>4, WithoutProperties DEF Runnable
<1>5. ASSUME NEW t \in Task, runq' = Append(Without(runq, t), t)
      PROVE  Distinct(runq') /\ Runnable' = Runnable \cup {t}
  <2> DEFINE rest == Without(runq, t)
  <2>1. /\ rest \in Seq(Task) /\ Distinct(rest)
        /\ Elements(rest) = Elements(runq) \ {t}
    BY <1>0, <1>1, WithoutProperties
  <2> HIDE DEF rest
  <2>2. Distinct(Append(rest, t)) /\ Elements(Append(rest, t)) = Elements(rest) \cup {t}
    BY <2>1, Appended
  <2>3. runq' = Append(rest, t)
    BY <1>5 DEF rest
  <2> QED
    BY <2>1, <2>2, <2>3 DEF Runnable
\* What is left of each action: who is runnable, and the classes of t.
<1>6. ASSUME Distinct(runq'),
             \A t \in Task : phase'[t] \in {"exited", "waiting"} => t \notin Runnable',
             Fine => \A t \in Task : /\ t \in Submitted' => t \in fifo'
                                     /\ t \in Jobs' => t \in Runnable'
      PROVE  Done
  BY <1>2, <1>6 DEF RunqOnce, Ready
<1> HIDE DEF Done
<1>7. ASSUME NEW t \in Task, api_init(t) PROVE Done
  <2>1. /\ phase[t] = "exited" /\ phase' = [phase EXCEPT ![t] = "init"]
        /\ runq' = Append(runq, t) /\ fifo' = fifo
    BY <1>7 DEF api_init
  <2>2. Distinct(runq') /\ Runnable' = Runnable \cup {t}
    BY <1>1, <1>3, <2>1
  <2>3. Submitted' = Submitted /\ Jobs' = Jobs
    BY <1>0, <2>1 DEF Submitted, task_is_submitted, Jobs
  <2> QED
    BY <1>0, <1>1, <1>2, <1>6, <2>1, <2>2, <2>3
<1>8. ASSUME NEW t \in Task, NEW p \in Prio, api_set_priority(t, p) PROVE Done
  <2>1. /\ phase' = phase /\ fifo' = fifo \cup {t} /\ t \in Runnable
        /\ runq' = Append(Without(runq, t), t)
        /\ phase[t] \in {"init", "started"}
    BY <1>8, OnCpuRunnable DEF api_set_priority
  <2>2. Distinct(runq') /\ Runnable' = Runnable
    BY <1>5, <2>1
  <2>3. Submitted' = Submitted /\ Jobs' = Jobs
    BY <1>0, <2>1 DEF Submitted, task_is_submitted, Jobs
  <2> QED
    BY <1>1, <1>2, <1>6, <2>1, <2>2, <2>3
<1>9. ASSUME NEW t \in Task, OnCpu(t), phase[t] \in {"init", "started"},
             Fine => t \in fifo, fifo' = fifo,
             \/ phase' = [phase EXCEPT ![t] = "waiting"] /\ runq' = Without(runq, t)
             \/ phase' = [phase EXCEPT ![t] = "started"] /\ runq' = runq
      PROVE  Done
  <2>1. t \in Runnable
    BY <1>9, OnCpuRunnable
  <2>2. CASE phase' = [phase EXCEPT ![t] = "waiting"] /\ runq' = Without(runq, t)
    <3>1. Distinct(runq') /\ Runnable' = Runnable \ {t}
      BY <1>4, <2>2
    <3>2. Submitted' = Submitted \cup {t} /\ Jobs' = Jobs \ {t}
      BY <1>0, <2>2 DEF Submitted, task_is_submitted, Jobs
    <3> QED
      BY <1>0, <1>1, <1>2, <1>6, <1>9, <2>2, <3>1, <3>2
  <2>3. CASE phase' = [phase EXCEPT ![t] = "started"] /\ runq' = runq
    <3>1. Distinct(runq') /\ Runnable' = Runnable
      BY <1>1, <2>3 DEF Runnable
    <3>2. Submitted' = Submitted \cup {t} /\ Jobs' = Jobs \cup {t}
      BY <1>0, <2>3 DEF Submitted, task_is_submitted, Jobs
    <3> QED
      BY <1>0, <1>1, <1>2, <1>6, <1>9, <2>1, <2>3, <3>1, <3>2
  <2> QED
    BY <1>9, <2>2, <2>3
<1>10. ASSUME NEW t \in Task, api_run(t) PROVE Done
  <2>1. /\ OnCpu(t) /\ phase[t] = "init" /\ fifo' = fifo
        /\ t \in fifo \/ "normal" \in uses[t].does
        /\ \/ phase' = [phase EXCEPT ![t] = "waiting"] /\ runq' = Without(runq, t)
           \/ phase' = [phase EXCEPT ![t] = "started"] /\ runq' = runq
    BY <1>10 DEF api_run, Sleep, StartLate
  <2>2. Fine => t \in fifo
    BY <2>1 DEF AllUse
  <2> QED
    BY <1>9, <2>1, <2>2
<1>11. ASSUME NEW t \in Task, job_release_handler(t) PROVE Done
  <2>1. /\ phase[t] = "waiting" /\ phase' = [phase EXCEPT ![t] = "released"]
        /\ runq' = Append(runq, t) /\ fifo' = fifo
    BY <1>11 DEF job_release_handler
  <2>2. Distinct(runq') /\ Runnable' = Runnable \cup {t}
    BY <1>1, <1>3, <2>1
  <2>3. Submitted' = Submitted /\ Jobs' = Jobs \cup {t}
    BY <1>0, <2>1 DEF Submitted, task_is_submitted, Jobs
  <2> QED
    BY <1>0, <1>1, <1>2, <1>6, <2>1, <2>2, <2>3
<1>12. ASSUME NEW t \in Task, job_start(t) PROVE Done
  <2>1. /\ phase[t] = "released" /\ phase' = [phase EXCEPT ![t] = "started"]
        /\ runq' = runq /\ fifo' = fifo
    BY <1>12 DEF job_start
  <2>2. Distinct(runq') /\ Runnable' = Runnable
    BY <1>1, <2>1 DEF Runnable
  <2>3. Submitted' = Submitted /\ Jobs' = Jobs
    BY <1>0, <2>1 DEF Submitted, task_is_submitted, Jobs
  <2> QED
    BY <1>0, <1>1, <1>2, <1>6, <2>1, <2>2, <2>3
<1>13. ASSUME NEW t \in Task, api_wait_for_period(t) PROVE Done
  <2>1. /\ OnCpu(t) /\ phase[t] = "started" /\ fifo' = fifo
        /\ \/ phase' = [phase EXCEPT ![t] = "waiting"] /\ runq' = Without(runq, t)
           \/ phase' = [phase EXCEPT ![t] = "started"] /\ runq' = runq
    BY <1>13 DEF api_wait_for_period, Sleep, StartLate
  <2>2. Fine => t \in fifo
    BY <1>2, <2>1 DEF Submitted, task_is_submitted
  <2> QED
    BY <1>9, <2>1, <2>2
<1>14. ASSUME NEW t \in Task, api_exit(t) PROVE Done
  <2>1. /\ phase' = [phase EXCEPT ![t] = "exited"]
        /\ runq' = Without(runq, t) /\ fifo' = fifo \ {t}
    BY <1>14 DEF api_exit
  <2>2. Distinct(runq') /\ Runnable' = Runnable \ {t}
    BY <1>4, <2>1
  <2>3. Submitted' = Submitted \ {t} /\ Jobs' = Jobs \ {t}
    BY <1>0, <2>1 DEF Submitted, task_is_submitted, Jobs
  <2> QED
    BY <1>0, <1>1, <1>2, <1>6, <2>1, <2>2, <2>3
<1>15. ASSUME NEW t \in Task, Block(t) PROVE Done
  <2>1. /\ phase' = phase /\ fifo' = fifo /\ runq' = Without(runq, t)
        /\ phase[t] = "init" \/ "block" \in uses[t].does
    BY <1>15 DEF Block
  <2>2. Distinct(runq') /\ Runnable' = Runnable \ {t}
    BY <1>4, <2>1
  <2>3. Submitted' = Submitted /\ Jobs' = Jobs /\ (Fine => t \notin Jobs)
    BY <1>0, <2>1 DEF Submitted, task_is_submitted, Jobs, AllUse
  <2> QED
    BY <1>0, <1>1, <1>2, <1>6, <2>1, <2>2, <2>3
<1>16. ASSUME NEW t \in Task, Event(t) PROVE Done
  <2>1. /\ phase' = phase /\ fifo' = fifo /\ t \notin Runnable
        /\ runq' = Append(runq, t) /\ phase[t] \in {"init", "started"}
    BY <1>16 DEF Event
  <2>2. Distinct(runq') /\ Runnable' = Runnable \cup {t}
    BY <1>3, <2>1
  <2>3. Submitted' = Submitted /\ Jobs' = Jobs
    BY <2>1 DEF Submitted, task_is_submitted, Jobs
  <2> QED
    BY <1>0, <1>1, <1>2, <1>6, <2>1, <2>2, <2>3
<1>17. ASSUME Tick \/ UNCHANGED vars PROVE Done
  <2>1. phase' = phase /\ fifo' = fifo /\ runq' = runq
    BY <1>17 DEF Tick, vars
  <2>2. Submitted' = Submitted /\ Jobs' = Jobs /\ Runnable' = Runnable
    BY <2>1 DEF Submitted, task_is_submitted, Jobs, Runnable
  <2> QED
    BY <1>1, <1>2, <1>6, <2>1, <2>2
<1> QED
  BY <1>7, <1>8, <1>10, <1>11, <1>12, <1>13, <1>14, <1>15, <1>16, <1>17 DEF Next

ReadyInv == QueueInv /\ RunqOnce /\ Ready

LEMMA ReadyInit == Init => ReadyInv
<1> SUFFICES ASSUME Init PROVE ReadyInv
  OBVIOUS
<1>1. Runnable = {} /\ Distinct(runq)
  <2>1. runq = <<>> /\ Len(runq) = 0
    BY EmptySeq DEF Init
  <2> QED
    BY <2>1 DEF Runnable, Elements, Distinct
<1>2. Submitted = {} /\ Jobs = {}
  BY DEF Init, Submitted, task_is_submitted, Jobs
<1> QED
  BY <1>1, <1>2, QueueInit DEF ReadyInv, RunqOnce, Ready

LEMMA ReadyInvStep ==
  ASSUME ReadyInv, [Next]_vars
  PROVE  ReadyInv'
<1>1. QueueInv'
  BY QueueStep DEF ReadyInv
<1>2. RunqOnce' /\ Ready'
  BY ReadyStep DEF ReadyInv, QueueInv
<1> QED
  BY <1>1, <1>2 DEF ReadyInv

\* The task on the core has the highest priority of the released jobs.
LEMMA OnCpuHighest ==
  ASSUME TypeOK, Ready, AllUse({"exit_early"}), NEW t \in Task, OnCpu(t),
         NEW u \in Jobs
  PROVE  prio[u] <= rt_priority(t)
<1>1. u \in Runnable /\ u \in fifo
  BY DEF Ready, Jobs, Submitted, task_is_submitted
<1>2. rt_priority(u) = prio[u] /\ prio[u] \in Nat
  <2>1. prio[u] \in Prio
    BY Types DEF Jobs
  <2> QED
    BY <1>1, <2>1, Indices DEF rt_priority
<1>3. rt_priority(u) < rt_priority(t) \/ rt_priority(u) = rt_priority(t)
  BY <1>1 DEF OnCpu, Runnable, Elements
<1>4. rt_priority(t) \in Nat
  <2>1. prio[t] \in Prio
    BY Types
  <2> QED
    BY <2>1, Indices DEF rt_priority
<1> QED
  BY <1>2, <1>3, <1>4

\* As long as no task changes its priority in a job, a bit is set exactly when
\* its list has a task; and if moreover no task sleeps in a job or stays an
\* ordinary one, the first task of the highest bit has the priority of the task
\* that the kernel runs.
THEOREM HighestRuns == Spec => []HighestHasCore
<1>1. Init => ReadyInv
  BY ReadyInit
<1>2. ReadyInv /\ [Next]_vars => ReadyInv'
  BY ReadyInvStep
<1>3. ReadyInv => HighestHasCore
  <2> SUFFICES ASSUME ReadyInv PROVE HighestHasCore
    OBVIOUS
  <2>0. /\ TypeOK /\ Ready /\ prio \in [Task -> Prio]
        /\ active.queue \in [Prio -> Seq(Task)]
        /\ active.bitmap \subseteq 0 .. MaxPrio - 1
        /\ Holds(active, Jobs, prio)
    BY Types DEF ReadyInv, QueueInv, Queued, Queue
  <2>1. AllUse(Uses \ {"prio_in_job"}) =>
          active.bitmap = {reverse_prio(p) : p \in {q \in Prio : active.queue[q] # <<>>}}
    BY DEF ReadyInv, QueueInv, BitsExact, BitsOf
  <2>2. ASSUME AllUse({"exit_early"}), NEW t \in Task, OnCpu(t), t \in Jobs
        PROVE  \E u \in active_highest_prio_task(active) : prio[u] = prio[t]
    <3> DEFINE bits == active.bitmap
               least == FirstBit(bits)
    <3>1. AllUse(Uses \ {"prio_in_job"})
      BY <2>2 DEF AllUse, Uses
    <3>2. prio[t] \in Prio /\ rt_priority(t) = prio[t] /\ prio[t] \in Nat
      BY <2>0, <2>2, Indices DEF Ready, Jobs, Submitted, task_is_submitted, rt_priority
    <3>3. reverse_prio(prio[t]) \in bits
      <4>1. t \in Elements(active.queue[prio[t]])
        BY <2>0, <2>2, <3>2 DEF Holds
      <4>2. active.queue[prio[t]] # <<>>
        BY <2>0, <3>2, <4>1, EmptyElements
      <4> QED
        BY <2>1, <3>1, <3>2, <4>2
    <3>4. least \in bits /\ \A x \in bits : least <= x
      <4>1. bits \in SUBSET Nat /\ bits # {}
        BY <2>0, <3>3
      <4> HIDE DEF bits
      <4>2. \E x \in bits : \A y \in bits : x <= y
        BY <4>1, NatMin
      <4> QED
        BY <4>1, <4>2 DEF FirstBit
    <3>5. PICK p \in Prio : least = reverse_prio(p) /\ active.queue[p] # <<>>
      BY <2>1, <3>1, <3>4
    <3> HIDE DEF least, bits
    <3>6. reverse_prio(least) = p /\ least \in Nat /\ ~(least < 0)
      BY <3>5, Indices
    <3>7. PICK u : u = Head(active.queue[p])
      OBVIOUS
    <3>8. u \in Jobs /\ prio[u] = p
      <4>1. active.queue[p] \in Seq(Task)
        BY <2>0
      <4>2. u = active.queue[p][1] /\ 1 \in 1 .. Len(active.queue[p])
        BY <3>5, <3>7, <4>1, HeadTailProperties, EmptySeq, LenProperties
      <4>3. u \in Elements(active.queue[p])
        BY <4>2 DEF Elements
      <4> QED
        BY <2>0, <4>3 DEF Holds
    <3>9. active_highest_prio_task(active) = {u}
      <4>1. active_highest_prio_task(active) = FirstEntries(active, least)
        BY DEF active_highest_prio_task, resch_ffs, least, bits
      <4>2. FirstEntries(active, least) =
              LET q == active.queue[p] IN IF q = <<>> THEN Task ELSE {Head(q)}
        BY <3>6 DEF FirstEntries
      <4> QED
        BY <3>5, <3>7, <4>1, <4>2
    <3>10. prio[t] <= p
      BY <3>2, <3>3, <3>4, <3>5, Indices
    <3>11. p <= prio[t]
      <4>1. prio[u] <= rt_priority(t)
        BY <2>0, <2>2, <3>8, OnCpuHighest
      <4> QED
        BY <3>2, <3>8, <4>1
    <3>12. p = prio[t]
      BY <3>2, <3>5, <3>10, <3>11, Indices
    <3> QED
      BY <3>8, <3>9, <3>12
  <2> QED
    BY <2>1, <2>2 DEF HighestHasCore, Jobs
<1> QED
  BY <1>1, <1>2, <1>3, PTL DEF Spec

----------------------------------------------------------------------------
(* The chain of preempted jobs, for tasks that are used as in the samples. *)

\* Job u is the next one below job t.
Adjacent(u, t, S, pr) ==
  /\ u \in S /\ t \in S /\ pr[u] < pr[t]
  /\ \A v \in S : pr[v] <= pr[u] \/ pr[t] <= pr[v]

\* The chain links exactly the jobs of S, by priority, from the current one.
Linked(c, S, pr) ==
  /\ \A t, u \in S : pr[t] = pr[u] => t = u
  /\ S = {} => c.current = None
  /\ S # {} => c.current \in S /\ \A u \in S : pr[u] <= pr[c.current]
  /\ \A t \in S : \/ Adjacent(c.preemptee[t], t, S, pr)
                  \/ c.preemptee[t] = None /\ \A u \in S : pr[t] <= pr[u]
  /\ \A t \in S : \/ Adjacent(t, c.preempter[t], S, pr)
                  \/ c.preempter[t] = None /\ \A u \in S : pr[u] <= pr[t]
  /\ \A t \in Task \ S : c.preempter[t] = None

\* A job of S is charged what it ran; the current one, since the last tick.
Paid(c, S, r) ==
  \A t \in S : /\ c.current = t => c.exec_time[t] + c.since >= r[t]
               /\ c.current # t => c.exec_time[t] >= r[t]

\* A job of a priority above the others starts.
LEMMA Pushed ==
  ASSUME NEW c \in Chain, NEW S \in SUBSET Task, NEW pr \in [Task -> Int],
         NEW t \in Task \ S, \A u \in S : pr[u] < pr[t],
         Linked(c, S, pr), NEW d, d = preempt_curr(c, t, pr)
  PROVE  Linked(d, S \cup {t}, pr)
<1>0. /\ c.preempter \in [Task -> Task \cup {None}]
      /\ c.preemptee \in [Task -> Task \cup {None}]
      /\ None \notin Task
      /\ c.preempter[t] = None
  BY ReschAssumption DEF Chain, Linked
<1>1. CASE S = {}
  <2>1. c.current = None
    BY <1>1 DEF Linked
  <2>2. /\ d.current = t /\ d.preempter = c.preempter
        /\ d.preemptee = [c.preemptee EXCEPT ![t] = None]
    <3>1. StartOf(c, t, pr, d)
      BY Started
    <3> QED
      BY <2>1, <3>1 DEF StartOf
  <2>3. d.preemptee[t] = None /\ d.preempter[t] = None
    BY <1>0, <2>2
  <2> QED
    BY <1>1, <2>2, <2>3 DEF Linked
<1>2. CASE S # {}
  <2> DEFINE cur == c.current
  <2>1. /\ cur \in S /\ cur # None /\ cur # t
        /\ \A u \in S : pr[u] <= pr[cur]
    BY <1>0, <1>2 DEF Linked
  <2>2. /\ d.current = t
        /\ d.preempter = [c.preempter EXCEPT ![cur] = t]
        /\ d.preemptee = [c.preemptee EXCEPT ![t] = cur]
    <3>1. StartOf(c, t, pr, d)
      BY Started
    <3>2. c.current # None /\ pr[c.current] < pr[t]
      BY <2>1
    <3> QED
      BY <3>1, <3>2 DEF StartOf
  <2> HIDE DEF cur
  <2>3. /\ d.preempter[cur] = t /\ d.preemptee[t] = cur
        /\ \A u \in Task \ {cur} : d.preempter[u] = c.preempter[u]
        /\ \A u \in Task \ {t} : d.preemptee[u] = c.preemptee[u]
    BY <1>0, <2>1, <2>2
  <2>4. Adjacent(cur, t, S \cup {t}, pr)
    BY <2>1 DEF Adjacent
  <2>5. ASSUME NEW u, NEW v, Adjacent(u, v, S, pr) PROVE Adjacent(u, v, S \cup {t}, pr)
    BY <2>5 DEF Adjacent
  <2>6. \A u, v \in S \cup {t} : pr[u] = pr[v] => u = v
    BY DEF Linked
  <2>7. \A u \in S \cup {t} : pr[u] <= pr[t]
    OBVIOUS
  <2>8. ASSUME NEW s \in S \cup {t}
        PROVE  \/ Adjacent(d.preemptee[s], s, S \cup {t}, pr)
               \/ d.preemptee[s] = None /\ \A u \in S \cup {t} : pr[s] <= pr[u]
    <3>1. CASE s = t
      BY <2>3, <2>4, <3>1
    <3>2. CASE s # t
      <4>1. d.preemptee[s] = c.preemptee[s] /\ s \in S
        BY <2>3, <3>2
      <4>2. \/ Adjacent(c.preemptee[s], s, S, pr)
            \/ c.preemptee[s] = None /\ \A u \in S : pr[s] <= pr[u]
        BY <4>1 DEF Linked
      <4> QED
        BY <2>5, <4>1, <4>2
    <3> QED
      BY <3>1, <3>2
  <2>9. ASSUME NEW s \in S \cup {t}
        PROVE  \/ Adjacent(s, d.preempter[s], S \cup {t}, pr)
               \/ d.preempter[s] = None /\ \A u \in S \cup {t} : pr[u] <= pr[s]
    <3>1. CASE s = t
      BY <1>0, <2>1, <2>3, <2>7, <3>1
    <3>2. CASE s = cur
      BY <2>3, <2>4, <3>2
    <3>3. CASE s # t /\ s # cur
      <4>1. d.preempter[s] = c.preempter[s] /\ s \in S
        BY <2>3, <3>3
      <4>2. \/ Adjacent(s, c.preempter[s], S, pr)
            \/ c.preempter[s] = None /\ \A u \in S : pr[u] <= pr[s]
        BY <4>1 DEF Linked
      <4>3. pr[s] < pr[cur]
        <5>1. pr[s] <= pr[cur] /\ pr[s] # pr[cur]
          BY <2>1, <3>3, <4>1 DEF Linked
        <5> QED
          BY <2>1, <4>1, <5>1
      <4>4. ~(\A u \in S : pr[u] <= pr[s])
        BY <2>1, <4>1, <4>3
      <4> QED
        BY <2>5, <4>1, <4>2, <4>4
    <3> QED
      BY <3>1, <3>2, <3>3
  <2>10. \A u \in Task \ (S \cup {t}) : d.preempter[u] = None
    BY <2>1, <2>3 DEF Linked
  <2> QED
    BY <2>2, <2>6, <2>7, <2>8, <2>9, <2>10 DEF Linked
<1> QED
  BY <1>1, <1>2

\* The job of the highest priority ends.
LEMMA Popped ==
  ASSUME NEW c \in Chain, NEW S \in SUBSET Task, NEW pr \in [Task -> Int],
         NEW t \in S, \A u \in S : pr[u] <= pr[t],
         Linked(c, S, pr), NEW d, d = preempt_switch(c, t)
  PROVE  Linked(d, S \ {t}, pr)
<1> DEFINE rest == S \ {t}
           pt == c.preemptee[t]
<1>0. /\ c.preempter \in [Task -> Task \cup {None}]
      /\ c.preemptee \in [Task -> Task \cup {None}]
      /\ None \notin Task /\ t \in Task
      /\ \A u \in S : pr[u] \in Int
  BY ReschAssumption DEF Chain
<1>1. /\ d.current = pt
      /\ d.preemptee = [c.preemptee EXCEPT ![t] = None]
      /\ \A u \in Task : d.preempter[u] = IF u = pt THEN None ELSE c.preempter[u]
  <2>1. SwitchOf(c, t, d)
    BY <1>0, Switched
  <2> QED
    BY <2>1 DEF SwitchOf
<1>2. /\ \A u \in rest : d.preemptee[u] = c.preemptee[u]
      /\ \A u \in Task \ {pt} : d.preempter[u] = c.preempter[u]
      /\ pt \in Task => d.preempter[pt] = None
  BY <1>0, <1>1
<1>3. \A u \in rest : pr[u] < pr[t]
  BY <1>0 DEF Linked
<1>4. \A u, v \in rest : pr[u] = pr[v] => u = v
  BY DEF Linked
<1>5. \/ /\ pt \in rest /\ \A u \in rest : pr[u] <= pr[pt]
      \/ pt = None /\ rest = {}
  <2>1. \/ Adjacent(pt, t, S, pr)
        \/ pt = None /\ \A u \in S : pr[t] <= pr[u]
    BY DEF Linked
  <2>2. CASE Adjacent(pt, t, S, pr)
    <3>1. pt \in S /\ pr[pt] < pr[t] /\ \A v \in S : pr[v] <= pr[pt] \/ pr[t] <= pr[v]
      BY <2>2 DEF Adjacent
    <3> HIDE DEF pt
    <3>2. pt # t
      BY <1>0, <3>1
    <3> QED
      BY <1>0, <1>3, <3>1, <3>2
  <2>3. CASE pt = None /\ \A u \in S : pr[t] <= pr[u]
    BY <1>0, <1>3, <2>3
  <2> QED
    BY <2>1, <2>2, <2>3
<1> HIDE DEF pt
<1>6. ASSUME NEW u, NEW v, v # t, Adjacent(u, v, S, pr) PROVE Adjacent(u, v, rest, pr)
  <2>1. u \in S /\ v \in S /\ pr[u] < pr[v]
    BY <1>6 DEF Adjacent
  <2>2. pr[v] <= pr[t]
    BY <2>1
  <2>3. u # t
    BY <1>0, <2>1, <2>2
  <2> QED
    BY <1>6, <2>3 DEF Adjacent
<1>7. ASSUME NEW s \in rest
      PROVE  \/ Adjacent(d.preemptee[s], s, rest, pr)
             \/ d.preemptee[s] = None /\ \A u \in rest : pr[s] <= pr[u]
  <2>1. \/ Adjacent(c.preemptee[s], s, S, pr)
        \/ c.preemptee[s] = None /\ \A u \in S : pr[s] <= pr[u]
    BY DEF Linked
  <2> QED
    BY <1>2, <1>6, <2>1
<1>8. ASSUME NEW s \in rest
      PROVE  \/ Adjacent(s, d.preempter[s], rest, pr)
             \/ d.preempter[s] = None /\ \A u \in rest : pr[u] <= pr[s]
  <2>0. pt \in rest /\ \A u \in rest : pr[u] <= pr[pt]
    BY <1>5
  <2>1. CASE s = pt
    BY <1>2, <2>0, <2>1
  <2>2. CASE s # pt
    <3>1. d.preempter[s] = c.preempter[s]
      BY <1>2, <2>2
    <3>2. \/ Adjacent(s, c.preempter[s], S, pr)
          \/ c.preempter[s] = None /\ \A u \in S : pr[u] <= pr[s]
      BY DEF Linked
    <3>3. Adjacent(s, c.preempter[s], S, pr)
      BY <1>0, <1>3, <3>2
    <3>4. c.preempter[s] # t
      <4> SUFFICES ASSUME Adjacent(s, t, S, pr) PROVE FALSE
        BY <3>3
      <4>1. pr[pt] <= pr[s] \/ pr[t] <= pr[pt]
        BY <2>0 DEF Adjacent
      <4>2. pr[s] <= pr[pt] /\ pr[pt] < pr[t] /\ pr[pt] # pr[s]
        BY <1>3, <1>4, <2>0, <2>2
      <4>3. pr[s] \in Int /\ pr[pt] \in Int /\ pr[t] \in Int
        BY <1>0, <2>0
      <4> QED
        BY <4>1, <4>2, <4>3
    <3> QED
      BY <1>6, <3>1, <3>3, <3>4
  <2> QED
    BY <2>1, <2>2
<1>9. \A u \in Task \ rest : d.preempter[u] = None
  <2>1. c.preempter[t] = None
    <3>1. \/ Adjacent(t, c.preempter[t], S, pr)
          \/ c.preempter[t] = None
      BY DEF Linked
    <3>2. ~Adjacent(t, c.preempter[t], S, pr)
      BY <1>0 DEF Adjacent
    <3> QED
      BY <3>1, <3>2
  <2>2. \A u \in Task \ rest : c.preempter[u] = None
    BY <2>1 DEF Linked
  <2> QED
    BY <1>0, <1>2, <2>2
<1>10. /\ rest = {} => d.current = None
       /\ rest # {} => d.current \in rest /\ \A u \in rest : pr[u] <= pr[d.current]
  BY <1>1, <1>5, <1>0
<1> QED
  BY <1>4, <1>7, <1>8, <1>9, <1>10 DEF Linked

\* What is not about the jobs of the chain does not matter to it.
LEMMA LinkedOthers ==
  ASSUME NEW c, NEW d, NEW S \in SUBSET Task, NEW pr, NEW new,
         \A u \in S : new[u] = pr[u],
         d.current = c.current,
         \A u \in S : d.preemptee[u] = c.preemptee[u],
         \A u \in S : d.preempter[u] = c.preempter[u],
         \A u \in Task \ S : d.preempter[u] \in {c.preempter[u], None},
         Linked(c, S, pr)
  PROVE  Linked(d, S, new)
<1>1. /\ \A t, u \in S : new[t] = new[u] => t = u
      /\ S = {} => d.current = None
      /\ S # {} => d.current \in S /\ \A u \in S : new[u] <= new[d.current]
      /\ \A t \in Task \ S : d.preempter[t] = None
  BY DEF Linked
<1>2. \A u, v : Adjacent(u, v, S, pr) => Adjacent(u, v, S, new)
  BY DEF Adjacent
<1>3. \A t \in S : \/ Adjacent(d.preemptee[t], t, S, new)
                   \/ d.preemptee[t] = None /\ \A u \in S : new[t] <= new[u]
  BY <1>2 DEF Linked
<1>4. \A t \in S : \/ Adjacent(t, d.preempter[t], S, new)
                   \/ d.preempter[t] = None /\ \A u \in S : new[u] <= new[t]
  BY <1>2 DEF Linked
<1> QED
  BY <1>1, <1>3, <1>4 DEF Linked

\* The start of a job charges the job that it preempts.
LEMMA PushedPaid ==
  ASSUME NEW c \in Chain, NEW S \in SUBSET Task, NEW pr,
         NEW t \in Task \ S, \A u \in S : pr[u] < pr[t],
         Linked(c, S, pr), NEW r \in [Task -> Nat], r[t] = 0,
         Paid(c, S, r), NEW d, d = preempt_curr(c, t, pr)
  PROVE  Paid(d, S \cup {t}, r)
<1>1. /\ d \in Chain /\ d.since = 0
      /\ c.current # None => d.exec_time[c.current] = c.exec_time[c.current] + c.since
      /\ \A u \in Task \ {c.current} : d.exec_time[u] = c.exec_time[u]
  <2>1. StartOf(c, t, pr, d)
    BY Started
  <2> QED
    BY <2>1 DEF StartOf
<1>2. d.exec_time \in [Task -> Nat] /\ c.exec_time \in [Task -> Nat] /\ c.since \in Nat
  BY <1>1 DEF Chain
<1>3. ASSUME NEW u \in S \cup {t}
      PROVE  d.exec_time[u] >= r[u] /\ d.exec_time[u] + d.since >= r[u]
  <2>1. d.exec_time[u] \in Nat /\ d.exec_time[u] + d.since = d.exec_time[u]
    BY <1>1, <1>2
  <2>2. CASE u = t
    BY <2>1, <2>2
  <2>3. CASE u # t /\ u = c.current
    <3>1. u \in S /\ c.current # None
      BY <2>3, ReschAssumption
    <3>2. c.exec_time[u] + c.since >= r[u]
      BY <2>3, <3>1 DEF Paid
    <3> QED
      BY <1>1, <2>1, <2>3, <3>1, <3>2
  <2>4. CASE u # t /\ u # c.current
    <3>1. c.exec_time[u] >= r[u]
      BY <2>4 DEF Paid
    <3> QED
      BY <1>1, <2>1, <2>4, <3>1
  <2> QED
    BY <2>2, <2>3, <2>4
<1> QED
  BY <1>3 DEF Paid

\* The end of the current job charges no other one.
LEMMA PoppedPaid ==
  ASSUME NEW c \in Chain, NEW S \in SUBSET Task, NEW t \in S, c.current = t,
         NEW r \in [Task -> Nat], Paid(c, S, r), NEW d, d = preempt_switch(c, t)
  PROVE  Paid(d, S \ {t}, r)
<1>1. /\ d \in Chain /\ d.since = 0
      /\ \A u \in Task \ {t} : d.exec_time[u] = c.exec_time[u]
  <2>1. SwitchOf(c, t, d)
    BY Switched
  <2> QED
    BY <2>1 DEF SwitchOf
<1>2. d.exec_time \in [Task -> Nat]
  BY <1>1 DEF Chain
<1>3. \A u \in S \ {t} : d.exec_time[u] >= r[u]
  BY <1>1 DEF Paid
<1> QED
  BY <1>1, <1>2, <1>3 DEF Paid

StartedJobs == {t \in Task : phase[t] = "started"}

\* A started job is in the run queue before the tasks of its priority.
Ordered(list, S, rank, pr) ==
  \A i, j \in 1 .. Len(list) :
    i < j /\ list[j] \in S => rank[list[i]] # pr[list[j]]

Rank == [t \in Task |-> rt_priority(t)]

\* A task leaves the run queue, and a task that has no started job enters it.
LEMMA OrderedWithout ==
  ASSUME NEW list \in Seq(Task), Distinct(list), NEW t \in Task,
         NEW S, NEW rank, NEW pr, Ordered(list, S, rank, pr),
         NEW S2, NEW rank2, NEW pr2,
         \A u \in Task \ {t} : /\ u \in S2 => u \in S
                               /\ rank2[u] = rank[u] /\ pr2[u] = pr[u]
  PROVE  Ordered(Without(list, t), S2, rank2, pr2)
<1> DEFINE rest == Without(list, t)
<1>1. rest \in Seq(Task) /\ Elements(rest) = Elements(list) \ {t}
  BY WithoutProperties
<1>2. \A i, j \in 1 .. Len(rest) :
        i < j => \E k, l \in 1 .. Len(list) :
                   k < l /\ rest[i] = list[k] /\ rest[j] = list[l]
  BY WithoutProperties
<1> HIDE DEF rest
<1>3. \A i \in 1 .. Len(rest) : rest[i] \in Task \ {t}
  <2> TAKE i \in 1 .. Len(rest)
  <2>1. rest[i] \in Elements(rest)
    BY DEF Elements
  <2>2. rest[i] \in Task
    BY <1>1, ElementOfSeq
  <2> QED
    BY <1>1, <2>1, <2>2
<1> SUFFICES ASSUME NEW i \in 1 .. Len(rest), NEW j \in 1 .. Len(rest), i < j,
                    rest[j] \in S2
             PROVE  rank2[rest[i]] # pr2[rest[j]]
  BY DEF Ordered, rest
<1>4. PICK k \in 1 .. Len(list), l \in 1 .. Len(list) :
        k < l /\ rest[i] = list[k] /\ rest[j] = list[l]
  BY <1>2
<1>5. rest[j] \in S
  BY <1>3
<1>6. rank[list[k]] # pr[list[l]]
  BY <1>4, <1>5 DEF Ordered
<1>7. rank2[rest[i]] = rank[rest[i]] /\ pr2[rest[j]] = pr[rest[j]]
  BY <1>3
<1> QED
  BY <1>4, <1>6, <1>7

LEMMA OrderedAppend ==
  ASSUME NEW list \in Seq(Task), NEW t \in Task, t \notin Elements(list),
         NEW S, NEW rank, NEW pr, Ordered(list, S, rank, pr),
         NEW S2, NEW rank2, NEW pr2, t \notin S2,
         \A u \in Task \ {t} : /\ u \in S2 => u \in S
                               /\ rank2[u] = rank[u] /\ pr2[u] = pr[u]
  PROVE  Ordered(Append(list, t), S2, rank2, pr2)
<1> DEFINE all == Append(list, t)
<1>1. /\ Len(all) = Len(list) + 1 /\ Len(list) \in Nat
      /\ \A i \in 1 .. Len(list) : all[i] = list[i]
      /\ all[Len(list) + 1] = t
  BY AppendProperties, LenProperties
<1>2. \A i \in 1 .. Len(list) : list[i] \in Task \ {t}
  BY ElementOfSeq DEF Elements
<1> HIDE DEF all
<1> SUFFICES ASSUME NEW i \in 1 .. Len(all), NEW j \in 1 .. Len(all), i < j,
                    all[j] \in S2
             PROVE  rank2[all[i]] # pr2[all[j]]
  BY DEF Ordered, all
<1>3. j \in 1 .. Len(list) /\ i \in 1 .. Len(list)
  <2>1. j # Len(list) + 1
    BY <1>1
  <2> QED
    BY <1>1, <2>1
<1>4. all[i] = list[i] /\ all[j] = list[j] /\ list[j] \in S
  BY <1>1, <1>2, <1>3
<1>5. rank[list[i]] # pr[list[j]]
  BY <1>3, <1>4 DEF Ordered
<1>6. rank2[list[i]] = rank[list[i]] /\ pr2[list[j]] = pr[list[j]]
  BY <1>2, <1>3
<1> QED
  BY <1>4, <1>5, <1>6

\* The task that starts a job is the first one of its priority.
LEMMA OrderedStart ==
  ASSUME TypeOK, RunqOnce, NEW t \in Task, OnCpu(t), t \in fifo,
         NEW S, S \subseteq fifo, Ordered(runq, S, Rank, prio)
  PROVE  /\ Ordered(runq, S \cup {t}, Rank, prio)
         /\ \A u \in S \cap Runnable : prio[u] = prio[t] => u = t
<1>0. /\ runq \in Seq(Task) /\ prio \in [Task -> Prio]
      /\ \A i \in 1 .. Len(runq) : runq[i] \in Task
      /\ Len(runq) \in Nat
  BY Types, ElementOfSeq, LenProperties
<1>1. \A u \in Task : Rank[u] \in Nat
  BY <1>0, Indices DEF Rank, rt_priority
<1>2. \A u \in Task : Rank[u] = rt_priority(u)
  BY DEF Rank
<1>3. rt_priority(t) = prio[t]
  BY DEF rt_priority
<1>4. PICK k \in 1 .. Len(runq) :
        /\ runq[k] = t
        /\ \A j \in 1 .. Len(runq) :
             \/ rt_priority(runq[j]) < rt_priority(t)
             \/ rt_priority(runq[j]) = rt_priority(t) /\ k <= j
  BY DEF OnCpu
<1>5. \A j \in 1 .. Len(runq) : \/ Rank[runq[j]] < prio[t]
                                \/ Rank[runq[j]] = prio[t] /\ k <= j
  BY <1>0, <1>2, <1>3, <1>4
<1>6. ASSUME NEW i \in 1 .. Len(runq), NEW j \in 1 .. Len(runq), i < j,
             runq[j] \in S \cup {t}
      PROVE  Rank[runq[i]] # prio[runq[j]]
  <2>1. CASE runq[j] \in S
    BY <1>6, <2>1 DEF Ordered
  <2>2. CASE runq[j] = t
    <3>1. j = k
      BY <1>4, <2>2 DEF RunqOnce, Distinct
    <3>2. ~(k <= i)
      BY <1>0, <1>6, <3>1
    <3>3. Rank[runq[i]] < prio[t] /\ Rank[runq[i]] \in Nat /\ prio[t] \in Nat
      BY <1>0, <1>1, <1>5, <3>2, Indices
    <3> QED
      BY <2>2, <3>3
  <2> QED
    BY <1>6, <2>1, <2>2
<1>7. ASSUME NEW u \in S \cap Runnable, prio[u] = prio[t] PROVE u = t
  <2>1. PICK j \in 1 .. Len(runq) : runq[j] = u
    BY DEF Runnable, Elements
  <2>2. ~(k < j)
    <3>1. Rank[runq[k]] = prio[t]
      BY <1>2, <1>3, <1>4
    <3> QED
      BY <1>4, <1>7, <2>1, <3>1 DEF Ordered
  <2>3. Rank[u] = prio[t]
    BY <1>0, <1>7, <2>1 DEF Rank, rt_priority
  <2>4. k <= j
    BY <1>0, <1>1, <1>5, <2>1, <2>3, Indices
  <2>5. j = k
    BY <1>0, <2>2, <2>4
  <2> QED
    BY <1>4, <2>1, <2>5
<1> QED
  BY <1>6, <1>7 DEF Ordered

\* The counter of a task that has no started job is cleared.
LEMMA ResetOthers ==
  ASSUME NEW c \in Chain, NEW S \in SUBSET Task, NEW t \in Task \ S, NEW pr,
         NEW r \in [Task -> Nat], Linked(c, S, pr), Paid(c, S, r)
  PROVE  /\ Linked(ResetExecTime(c, t), S, pr)
         /\ Paid(ResetExecTime(c, t), S, [r EXCEPT ![t] = 0])
<1> DEFINE d == ResetExecTime(c, t)
<1>0. d = [current |-> c.current, since |-> c.since, preempter |-> c.preempter,
           preemptee |-> c.preemptee, exec_time |-> [c.exec_time EXCEPT ![t] = 0]]
  BY DEF ResetExecTime, Chain
<1> HIDE DEF d
<1>1. d.current = c.current /\ d.since = c.since
  BY <1>0
<1>2. d.preempter = c.preempter /\ d.preemptee = c.preemptee
  BY <1>0
<1>3. d.exec_time = [c.exec_time EXCEPT ![t] = 0]
  BY <1>0
<1>4. c.exec_time \in [Task -> Nat]
  BY DEF Chain
<1>5. Linked(d, S, pr)
  BY <1>1, <1>2, LinkedOthers
<1>6. \A u \in S : d.exec_time[u] = c.exec_time[u] /\ [r EXCEPT ![t] = 0][u] = r[u]
  BY <1>3, <1>4
<1>7. Paid(d, S, [r EXCEPT ![t] = 0])
  BY <1>1, <1>6 DEF Paid
<1> QED
  BY <1>5, <1>7 DEF d

\* What holds as long as every task is used as in the samples: the chain links
\* the started jobs and they are charged.  That a new job has a priority above
\* the started ones follows from the order of the kernel's run queue.
ChainOk ==
  AllUse({}) =>
    /\ Ordered(runq, StartedJobs, Rank, prio)
    /\ Linked(chain, StartedJobs, prio)
    /\ Paid(chain, StartedJobs, ran)
    /\ \A t \in Task : phase[t] = "released" => ran[t] = 0

ChainInv == ReadyInv /\ ChainOk

LEMMA ChainOkStep ==
  ASSUME ChainInv, AllUse({}), [Next]_vars
  PROVE  /\ Ordered(runq', StartedJobs', Rank', prio')
         /\ Linked(chain', StartedJobs', prio')
         /\ Paid(chain', StartedJobs', ran')
         /\ \A t \in Task : phase'[t] = "released" => ran'[t] = 0
<1> DEFINE S == StartedJobs
           Fresh(ph, r) == \A t \in Task : ph[t] = "released" => r[t] = 0
           Done == /\ Ordered(runq', StartedJobs', Rank', prio')
                   /\ Linked(chain', StartedJobs', prio')
                   /\ Paid(chain', StartedJobs', ran')
                   /\ Fresh(phase', ran')
<1> SUFFICES Done
  OBVIOUS
<1>0. /\ phase \in [Task -> Phase] /\ prio \in [Task -> Prio]
      /\ prio \in [Task -> Int]
      /\ runq \in Seq(Task) /\ chain \in Chain /\ ran \in [Task -> Nat]
      /\ S \in SUBSET Task
      /\ TypeOK /\ RunqOnce /\ Distinct(runq)
      /\ \A t \in Task : phase[t] \in {"exited", "waiting"} => t \notin Runnable
      /\ \A t \in Task : task_is_active(active, t) <=> t \in Jobs
  <2>1. TypeOK /\ RunqOnce /\ Queued
    BY DEF ChainInv, ReadyInv, QueueInv
  <2>2. /\ phase \in [Task -> Phase] /\ prio \in [Task -> Prio]
        /\ runq \in Seq(Task) /\ chain \in Chain /\ ran \in [Task -> Nat]
        /\ active \in Queue
    BY <2>1, Types
  <2>3. prio \in [Task -> Int]
    BY <2>2, Indices
  <2>4. S \in SUBSET Task /\ Jobs \in SUBSET Task
    BY DEF StartedJobs, Jobs
  <2>5. \A t \in Task : task_is_active(active, t) <=> t \in Jobs
    BY <2>1, <2>2, <2>4, ActiveHolds DEF Queued
  <2> QED
    BY <2>1, <2>2, <2>3, <2>4, <2>5 DEF RunqOnce
<1>1. /\ Ordered(runq, S, Rank, prio) /\ Linked(chain, S, prio)
      /\ Paid(chain, S, ran) /\ Fresh(phase, ran)
  BY DEF ChainInv, ChainOk
<1>2. /\ \A t \in Submitted : t \in fifo
      /\ \A t \in Jobs : t \in Runnable
      /\ S \subseteq fifo /\ S \subseteq Runnable /\ S \subseteq Jobs
      /\ AllUse({"exit_early"}) /\ Ready
  <2>1. AllUse({"exit_early"})
    BY DEF AllUse
  <2>2. Ready
    BY DEF ChainInv, ReadyInv
  <2> QED
    BY <2>1, <2>2 DEF Ready, StartedJobs, Jobs, Submitted, task_is_submitted
\* A task that starts a job has a priority above the started ones, and the one
\* that ends a job is the current one.
<1>3. ASSUME NEW t \in Task \ S, OnCpu(t), t \in fifo
      PROVE  /\ \A u \in S : prio[u] < prio[t]
             /\ Ordered(runq, S \cup {t}, Rank, prio)
  <2>1. t \in Task
    OBVIOUS
  <2>2. Ordered(runq, S \cup {t}, Rank, prio)
    BY <1>0, <1>1, <1>2, <1>3, <2>1, OrderedStart
  <2>3. \A u \in S \cap Runnable : prio[u] = prio[t] => u = t
    BY <1>0, <1>1, <1>2, <1>3, <2>1, OrderedStart
  <2>4. \A u \in S : prio[u] <= rt_priority(t)
    BY <1>0, <1>2, <1>3, <2>1, OnCpuHighest
  <2>5. rt_priority(t) = prio[t]
    BY <1>3 DEF rt_priority
  <2>6. ASSUME NEW u \in S PROVE prio[u] < prio[t]
    <3>1. prio[u] <= prio[t] /\ prio[u] # prio[t]
      BY <1>2, <1>3, <2>3, <2>4, <2>5
    <3>2. prio[u] \in Int /\ prio[t] \in Int
      BY <1>0
    <3> QED
      BY <3>1, <3>2
  <2> QED
    BY <2>2, <2>6
<1>4. ASSUME NEW t \in S, OnCpu(t)
      PROVE  chain.current = t /\ \A u \in S : prio[u] <= prio[t]
  <2>1. t \in Task /\ rt_priority(t) = prio[t]
    BY <1>0, <1>2 DEF rt_priority
  <2>2. \A u \in S : prio[u] <= prio[t]
    BY <1>0, <1>2, <1>4, <2>1, OnCpuHighest
  <2>3. chain.current \in S /\ prio[t] <= prio[chain.current]
    BY <1>1 DEF Linked
  <2>4. prio[chain.current] = prio[t]
    BY <1>0, <2>2, <2>3
  <2> QED
    BY <1>1, <2>2, <2>3, <2>4 DEF Linked
<1>5. \A u \in Task : /\ u \in fifo => Rank[u] = prio[u]
                      /\ u \notin fifo => Rank[u] = 0
                      /\ u \in fifo' => Rank'[u] = prio'[u]
                      /\ u \notin fifo' => Rank'[u] = 0
  BY DEF Rank, rt_priority
<1> HIDE DEF S
\* The ways in which the run queue changes.
<1>6. ASSUME NEW t \in Task, runq' = Without(runq, t), StartedJobs' \subseteq S,
             \A u \in Task \ {t} : prio'[u] = prio[u] /\ (u \in fifo' <=> u \in fifo)
      PROVE  Ordered(runq', StartedJobs', Rank', prio')
  <2>1. \A u \in Task \ {t} : /\ u \in StartedJobs' => u \in S
                              /\ Rank'[u] = Rank[u] /\ prio'[u] = prio[u]
    BY <1>5, <1>6
  <2>2. Ordered(Without(runq, t), StartedJobs', Rank', prio')
    BY <1>0, <1>1, <2>1, OrderedWithout, SMTT(40)
  <2> QED
    BY <1>6, <2>2
<1>7. ASSUME NEW t \in Task, t \notin Runnable, runq' = Append(runq, t),
             t \notin S, StartedJobs' = S,
             \A u \in Task \ {t} : prio'[u] = prio[u] /\ (u \in fifo' <=> u \in fifo)
      PROVE  Ordered(runq', StartedJobs', Rank', prio')
  <2>1. \A u \in Task \ {t} : /\ u \in StartedJobs' => u \in S
                              /\ Rank'[u] = Rank[u] /\ prio'[u] = prio[u]
    BY <1>5, <1>7
  <2>2. t \notin Elements(runq)
    BY <1>7 DEF Runnable
  <2> QED
    BY <1>0, <1>1, <1>7, <2>1, <2>2, OrderedAppend
\* The starts of a job, with chain c without the task.
<1>8. ASSUME NEW t \in Task, OnCpu(t), t \in fifo,
             NEW R \in SUBSET S, t \notin R, StartedJobs' = R \cup {t},
             t \in S => R = S \ {t}, t \notin S => R = S,
             NEW c \in Chain, NEW r \in [Task -> Nat], r[t] = 0,
             Linked(c, R, prio), Paid(c, R, r),
             chain' = preempt_curr(c, t, prio), ran' = r, Fresh(phase', r),
             UNCHANGED <<prio, fifo, runq>>
      PROVE  Done
  <2>1. R \in SUBSET Task /\ t \in Task \ R
    BY <1>0, <1>8
  <2>2. \A u \in R : prio[u] < prio[t]
    <3>1. CASE t \notin S
      BY <1>3, <1>8, <3>1
    <3>2. CASE t \in S
      <4> SUFFICES ASSUME NEW u \in R PROVE prio[u] < prio[t]
        OBVIOUS
      <4>1. prio[u] <= prio[t] /\ u \in S /\ u # t
        BY <1>4, <1>8, <3>2
      <4>2. prio[u] # prio[t]
        BY <1>1, <3>2, <4>1 DEF Linked
      <4>3. prio[u] \in Int /\ prio[t] \in Int
        BY <1>0, <4>1
      <4> QED
        BY <4>1, <4>2, <4>3
    <3> QED
      BY <3>1, <3>2
  <2>3. Linked(chain', R \cup {t}, prio)
    BY <1>0, <1>8, <2>1, <2>2, Pushed
  <2>4. Paid(chain', R \cup {t}, r)
    BY <1>0, <1>8, <2>1, <2>2, PushedPaid
  <2>5. Ordered(runq, R \cup {t}, Rank, prio)
    <3>1. CASE t \notin S
      BY <1>3, <1>8, <3>1
    <3>2. CASE t \in S
      <4>1. R \cup {t} = S
        BY <1>8, <3>2
      <4> QED
        BY <1>1, <4>1
    <3> QED
      BY <3>1, <3>2
  <2>6. Rank' = Rank
    BY <1>8 DEF Rank, rt_priority
  <2> QED
    BY <1>8, <2>3, <2>4, <2>5, <2>6
<1> HIDE DEF Done
<1>9. ASSUME NEW t \in Task, api_init(t) PROVE Done
  <2>1. /\ phase[t] = "exited" /\ phase' = [phase EXCEPT ![t] = "init"]
        /\ runq' = Append(runq, t) /\ fifo' = fifo
        /\ \A u \in Task \ {t} : prio'[u] = prio[u] /\ ran'[u] = ran[u]
    BY <1>0, <1>9 DEF api_init
  <2>2. StartedJobs' = S /\ t \notin S
    BY <1>0, <2>1 DEF StartedJobs, S
  <2>3. Ordered(runq', StartedJobs', Rank', prio')
    BY <1>0, <1>7, <2>1, <2>2
  <2>4. chain' = [chain EXCEPT !.preempter = [@ EXCEPT ![t] = None],
                               !.preemptee = [@ EXCEPT ![t] = None],
                               !.exec_time = [@ EXCEPT ![t] = 0]]
    BY <1>9 DEF api_init
  <2>5. /\ chain'.current = chain.current /\ chain'.since = chain.since
        /\ \A u \in Task \ {t} : /\ chain'.preemptee[u] = chain.preemptee[u]
                                 /\ chain'.preempter[u] = chain.preempter[u]
                                 /\ chain'.exec_time[u] = chain.exec_time[u]
        /\ chain'.preempter[t] = None
    <3>1. /\ chain.preempter \in [Task -> Task \cup {None}]
          /\ chain.preemptee \in [Task -> Task \cup {None}]
          /\ chain.exec_time \in [Task -> Nat]
      BY <1>0 DEF Chain
    <3>0. chain \in Chain /\ t \in Task
      BY <1>0
    <3>2. chain' = [current |-> chain.current, since |-> chain.since,
                    preempter |-> [chain.preempter EXCEPT ![t] = None],
                    preemptee |-> [chain.preemptee EXCEPT ![t] = None],
                    exec_time |-> [chain.exec_time EXCEPT ![t] = 0]]
      BY <2>4, <3>0 DEF Chain
    <3> QED
      BY <3>1, <3>2
  <2>6. Linked(chain', S, prio')
    <3>1. /\ \A u \in S : prio'[u] = prio[u]
          /\ \A u \in S : chain'.preemptee[u] = chain.preemptee[u]
          /\ \A u \in S : chain'.preempter[u] = chain.preempter[u]
          /\ \A u \in Task \ S : chain'.preempter[u] \in {chain.preempter[u], None}
          /\ chain'.current = chain.current
      BY <1>0, <2>1, <2>2, <2>5
    <3>2. S \in SUBSET Task /\ Linked(chain, S, prio)
      BY <1>0, <1>1
    <3> QED
      BY <3>1, <3>2, LinkedOthers
  <2>7. Paid(chain', S, ran')
    <3>1. \A u \in S : chain'.exec_time[u] = chain.exec_time[u] /\ ran'[u] = ran[u]
      BY <1>0, <2>1, <2>2, <2>5
    <3> QED
      BY <1>1, <2>5, <3>1 DEF Paid
  <2>8. Fresh(phase', ran')
    BY <1>0, <1>1, <2>1
  <2> QED
    BY <2>2, <2>3, <2>6, <2>7, <2>8 DEF Done
<1>10. ASSUME NEW t \in Task, NEW p \in Prio, api_set_priority(t, p) PROVE Done
  <2>1. /\ phase' = phase /\ ran' = ran
        /\ fifo' = fifo \cup {t}
        /\ \A u \in Task \ {t} : prio'[u] = prio[u]
        /\ runq' = Append(Without(runq, t), t)
        /\ phase[t] = "init" \/ "prio_in_job" \in uses[t].does
        /\ ~task_is_active(active, t) => chain' = chain
    BY <1>0, <1>10 DEF api_set_priority
  <2>2. phase[t] = "init"
    BY <2>1 DEF AllUse
  <2>3. StartedJobs' = S /\ t \notin S /\ t \notin Jobs
    BY <2>1, <2>2 DEF StartedJobs, S, Jobs
  <2>4. chain' = chain
    BY <1>0, <2>1, <2>3
  <2>5. Ordered(runq', StartedJobs', Rank', prio')
    <3> DEFINE rest == Without(runq, t)
    <3>1. \A u \in Task \ {t} : Rank'[u] = Rank[u] /\ prio'[u] = prio[u]
      BY <1>5, <2>1
    <3>2. Ordered(rest, S, Rank', prio')
      BY <1>0, <1>1, <3>1, OrderedWithout, Z3
    <3>3. rest \in Seq(Task) /\ t \notin Elements(rest)
      BY <1>0, WithoutProperties
    <3> HIDE DEF rest
    <3>4. Ordered(Append(rest, t), S, Rank', prio')
      BY <2>3, <3>2, <3>3, OrderedAppend
    <3> QED
      BY <2>1, <2>3, <3>4 DEF rest
  <2>6. Linked(chain', S, prio')
    <3>1. \A u \in S : prio'[u] = prio[u]
      BY <1>0, <2>1, <2>3
    <3> QED
      BY <1>0, <1>1, <2>4, <3>1, LinkedOthers
  <2> QED
    BY <1>1, <2>1, <2>3, <2>4, <2>5, <2>6 DEF Done
<1>11. ASSUME NEW t \in Task, api_run(t) PROVE Done
  <2>1. /\ OnCpu(t) /\ phase[t] = "init" /\ UNCHANGED <<prio, fifo>>
        /\ t \in fifo \/ "normal" \in uses[t].does
        /\ Sleep(t, active, chain) \/ StartLate(t, active, chain)
    BY <1>11 DEF api_run
  <2>2. t \in fifo /\ t \notin S
    BY <2>1 DEF AllUse, S, StartedJobs
  <2>3. CASE Sleep(t, active, chain)
    <3>1. /\ phase' = [phase EXCEPT ![t] = "waiting"] /\ runq' = Without(runq, t)
          /\ chain' = chain /\ ran' = ran
      BY <2>3 DEF Sleep
    <3>2. StartedJobs' = S
      BY <1>0, <2>1, <3>1 DEF StartedJobs, S
    <3>3. Fresh(phase', ran')
      BY <1>0, <1>1, <3>1
    <3> QED
      BY <1>1, <1>6, <2>1, <3>1, <3>2, <3>3 DEF Done
  <2>4. CASE StartLate(t, active, chain)
    <3> DEFINE c == ResetExecTime(chain, t)
               r == [ran EXCEPT ![t] = 0]
    <3>1. /\ phase' = [phase EXCEPT ![t] = "started"] /\ runq' = runq
          /\ chain' = preempt_curr(c, t, prio) /\ ran' = r
      BY <2>4 DEF StartLate
    <3>2. StartedJobs' = S \cup {t}
      BY <1>0, <3>1 DEF StartedJobs, S
    <3>3. c \in Chain
      BY <1>0, Reset
    <3>4. Linked(c, S, prio) /\ Paid(c, S, r)
      BY <1>0, <1>1, <2>2, ResetOthers
    <3>5. r \in [Task -> Nat] /\ r[t] = 0 /\ Fresh(phase', r)
      BY <1>0, <1>1, <3>1
    <3> HIDE DEF c, r
    <3> QED
      BY <1>8, <2>1, <2>2, <3>1, <3>2, <3>3, <3>4, <3>5
  <2> QED
    BY <2>1, <2>3, <2>4
<1>12. ASSUME NEW t \in Task, job_release_handler(t) PROVE Done
  <2>1. /\ phase[t] = "waiting" /\ phase' = [phase EXCEPT ![t] = "released"]
        /\ runq' = Append(runq, t) /\ fifo' = fifo /\ prio' = prio
        /\ chain' = ResetExecTime(chain, t)
        /\ ran' = [ran EXCEPT ![t] = 0]
    BY <1>12 DEF job_release_handler
  <2>2. StartedJobs' = S /\ t \notin S
    BY <1>0, <2>1 DEF StartedJobs, S
  <2>3. Ordered(runq', StartedJobs', Rank', prio')
    BY <1>0, <1>7, <2>1, <2>2
  <2>4. Linked(chain', S, prio) /\ Paid(chain', S, ran')
    BY <1>0, <1>1, <2>1, <2>2, ResetOthers
  <2>5. Fresh(phase', ran')
    BY <1>0, <1>1, <2>1
  <2> QED
    BY <2>1, <2>2, <2>3, <2>4, <2>5 DEF Done
<1>13. ASSUME NEW t \in Task, job_start(t) PROVE Done
  <2>1. /\ OnCpu(t) /\ phase[t] = "released"
        /\ phase' = [phase EXCEPT ![t] = "started"]
        /\ chain' = preempt_curr(chain, t, prio)
        /\ UNCHANGED <<prio, fifo, runq, ran>>
    BY <1>13 DEF job_start
  <2>2. StartedJobs' = S \cup {t} /\ t \notin S
    BY <1>0, <2>1 DEF StartedJobs, S
  <2>3. t \in fifo
    BY <1>2, <2>1 DEF Submitted, task_is_submitted
  <2>4. ran[t] = 0 /\ Fresh(phase', ran)
    BY <1>0, <1>1, <2>1
  <2> QED
    BY <1>0, <1>1, <1>8, <2>1, <2>2, <2>3, <2>4
<1>14. ASSUME NEW t \in S, OnCpu(t),
              NEW c, c = preempt_switch(chain, t)
       PROVE  c \in Chain /\ Linked(c, S \ {t}, prio) /\ Paid(c, S \ {t}, ran)
  <2>1. t \in Task /\ chain.current = t /\ \A u \in S : prio[u] <= prio[t]
    BY <1>0, <1>4, <1>14
  <2>2. c \in Chain
    BY <1>0, <1>14, <2>1, Switched DEF SwitchOf
  <2>3. Linked(c, S \ {t}, prio)
    BY <1>0, <1>1, <1>14, <2>1, Popped
  <2>4. Paid(c, S \ {t}, ran)
    BY <1>0, <1>1, <1>14, <2>1, PoppedPaid
  <2> QED
    BY <2>2, <2>3, <2>4
<1>15. ASSUME NEW t \in Task, api_wait_for_period(t) PROVE Done
  <2> DEFINE a == __dequeue_task(active, t, prio[t])
             d == preempt_switch(chain, t)
  <2>1. /\ OnCpu(t) /\ phase[t] = "started" /\ UNCHANGED <<prio, fifo>>
        /\ Sleep(t, a, d) \/ StartLate(t, a, d)
    BY <1>15 DEF api_wait_for_period
  <2>2. t \in S /\ t \in fifo
    BY <1>2, <2>1 DEF S, StartedJobs
  <2>3. d \in Chain /\ Linked(d, S \ {t}, prio) /\ Paid(d, S \ {t}, ran)
    BY <1>14, <2>1, <2>2
  <2> HIDE DEF a, d
  <2>4. CASE Sleep(t, a, d)
    <3>1. /\ phase' = [phase EXCEPT ![t] = "waiting"] /\ runq' = Without(runq, t)
          /\ chain' = d /\ ran' = ran
      BY <2>4 DEF Sleep
    <3>2. StartedJobs' = S \ {t}
      BY <1>0, <3>1 DEF StartedJobs, S
    <3>3. Fresh(phase', ran')
      BY <1>0, <1>1, <3>1
    <3>4. Ordered(runq', StartedJobs', Rank', prio')
      BY <1>6, <2>1, <3>1, <3>2
    <3> QED
      BY <2>1, <2>3, <3>1, <3>2, <3>3, <3>4 DEF Done
  <2>5. CASE StartLate(t, a, d)
    <3> DEFINE c == ResetExecTime(d, t)
               r == [ran EXCEPT ![t] = 0]
               R == S \ {t}
    <3>1. /\ phase' = [phase EXCEPT ![t] = "started"] /\ runq' = runq
          /\ chain' = preempt_curr(c, t, prio) /\ ran' = r
      BY <2>5 DEF StartLate
    <3>2. /\ StartedJobs' = R \cup {t} /\ R \in SUBSET S /\ t \notin R
          /\ R \in SUBSET Task /\ t \in Task \ R
      BY <1>0, <3>1 DEF StartedJobs, S
    <3>3. c \in Chain
      BY <2>3, Reset
    <3>4. Linked(c, R, prio) /\ Paid(c, R, r)
      BY <1>0, <2>3, <3>2, ResetOthers
    <3>5. r \in [Task -> Nat] /\ r[t] = 0 /\ Fresh(phase', r)
      BY <1>0, <1>1, <3>1
    <3>6. t \in S => R = S \ {t}
      OBVIOUS
    <3> HIDE DEF c, r, R
    <3> QED
      BY <1>8, <2>1, <2>2, <3>1, <3>2, <3>3, <3>4, <3>5, <3>6
  <2> QED
    BY <2>1, <2>4, <2>5
<1>16. ASSUME NEW t \in Task, api_exit(t) PROVE Done
  <2>1. /\ OnCpu(t)
        /\ phase[t] = "started" \/ "exit_early" \in uses[t].does
        /\ prio' = prio /\ ran' = ran /\ fifo' = fifo \ {t}
        /\ chain' = preempt_switch(chain, t)
        /\ phase' = [phase EXCEPT ![t] = "exited"]
        /\ runq' = Without(runq, t)
    BY <1>16 DEF api_exit
  <2>2. t \in S
    BY <2>1 DEF AllUse, S, StartedJobs
  <2>3. StartedJobs' = S \ {t}
    BY <1>0, <2>1 DEF StartedJobs, S
  <2>4. Linked(chain', S \ {t}, prio) /\ Paid(chain', S \ {t}, ran)
    BY <1>14, <2>1, <2>2
  <2>5. Ordered(runq', StartedJobs', Rank', prio')
    BY <1>6, <2>1, <2>3
  <2>6. Fresh(phase', ran')
    BY <1>0, <1>1, <2>1
  <2> QED
    BY <2>1, <2>3, <2>4, <2>5, <2>6 DEF Done
<1>17. ASSUME NEW t \in Task, Block(t) PROVE Done
  <2>1. /\ runq' = Without(runq, t)
        /\ UNCHANGED <<phase, prio, fifo, chain, ran>>
    BY <1>17 DEF Block
  <2>2. StartedJobs' = S
    BY <2>1 DEF StartedJobs, S
  <2>3. Ordered(runq', StartedJobs', Rank', prio')
    BY <1>6, <2>1, <2>2
  <2> QED
    BY <1>1, <2>1, <2>2, <2>3 DEF Done
<1>18. ASSUME NEW t \in Task, Event(t) PROVE Done
  <2>1. /\ t \notin Runnable /\ runq' = Append(runq, t)
        /\ UNCHANGED <<phase, prio, fifo, chain, ran>>
    BY <1>18 DEF Event
  <2>2. StartedJobs' = S /\ t \notin S
    BY <1>2, <2>1 DEF StartedJobs, S
  <2>3. Ordered(runq', StartedJobs', Rank', prio')
    BY <1>7, <2>1, <2>2
  <2> QED
    BY <1>1, <2>1, <2>2, <2>3 DEF Done
<1>19. ASSUME UNCHANGED <<phase, prio, fifo, runq>>, Linked(chain', S, prio),
              Paid(chain', S, ran'), Fresh(phase, ran')
       PROVE  Done
  <2>1. StartedJobs' = S /\ Rank' = Rank
    BY <1>19 DEF StartedJobs, S, Rank, rt_priority
  <2> QED
    BY <1>1, <1>19, <2>1 DEF Done
<1>20. ASSUME Tick PROVE Done
  <2>1. /\ UNCHANGED <<phase, prio, fifo, runq>>
        /\ chain' = [chain EXCEPT !.since = @ + 1]
        /\ \/ ran' = ran
           \/ \E t \in Runnable :
                OnCpu(t) /\ ran' = [ran EXCEPT ![t] = IF phase[t] = "started"
                                                      THEN @ + 1 ELSE @]
    BY <1>20 DEF Tick
  <2>2. /\ chain'.current = chain.current /\ chain'.since = chain.since + 1
        /\ chain'.exec_time = chain.exec_time
    BY <1>0, <2>1, Passed
  <2>3. chain'.preempter = chain.preempter /\ chain'.preemptee = chain.preemptee
    BY <1>0, <2>1, Passed
  <2>4. Linked(chain', S, prio)
    BY <1>0, <1>1, <2>2, <2>3, LinkedOthers
  <2>5. \A u \in Task : /\ ran'[u] # ran[u] => /\ u \in S /\ OnCpu(u)
                                              /\ ran'[u] = ran[u] + 1
    BY <1>0, <2>1 DEF S, StartedJobs
  <2>6. Fresh(phase, ran')
    BY <1>1, <2>5 DEF S, StartedJobs
  <2>7. Paid(chain', S, ran')
    <3>1. /\ chain.since \in Nat /\ chain.exec_time \in [Task -> Nat]
          /\ ran \in [Task -> Nat]
      BY <1>0 DEF Chain
    <3>2. ASSUME NEW u \in S
          PROVE  /\ chain.current = u => chain.exec_time[u] + (chain.since + 1) >= ran'[u]
                 /\ chain.current # u => chain.exec_time[u] >= ran'[u]
      <4>1. u \in Task /\ (chain.current # u => ran'[u] = ran[u])
        BY <1>0, <1>4, <2>5
      <4>2. /\ chain.current = u => chain.exec_time[u] + chain.since >= ran[u]
            /\ chain.current # u => chain.exec_time[u] >= ran[u]
        BY <1>1 DEF Paid
      <4>3. ran'[u] = ran[u] \/ ran'[u] = ran[u] + 1
        BY <2>5, <4>1
      <4>4. ran[u] \in Nat /\ chain.exec_time[u] \in Nat
        BY <3>1, <4>1
      <4> QED
        BY <3>1, <4>1, <4>2, <4>3, <4>4
    <3> QED
      BY <2>2, <3>2 DEF Paid
  <2> QED
    BY <1>19, <2>1, <2>4, <2>6, <2>7
<1>21. ASSUME UNCHANGED vars PROVE Done
  BY <1>1, <1>19, <1>21 DEF vars
<1> QED
  BY <1>9, <1>10, <1>11, <1>12, <1>13, <1>15, <1>16, <1>17, <1>18, <1>20, <1>21
    DEF Next

LEMMA ChainInit == Init => ChainInv
<1> SUFFICES ASSUME Init PROVE ChainInv
  OBVIOUS
<1>1. StartedJobs = {}
  BY DEF Init, StartedJobs
<1>2. Ordered(runq, StartedJobs, Rank, prio) /\ Paid(chain, StartedJobs, ran)
  BY <1>1 DEF Ordered, Paid
<1>3. Linked(chain, StartedJobs, prio)
  BY <1>1 DEF Init, Linked
<1>4. \A t \in Task : phase[t] # "released"
  BY DEF Init
<1> QED
  BY <1>2, <1>3, <1>4, ReadyInit DEF ChainInv, ChainOk

LEMMA ChainInvStep ==
  ASSUME ChainInv, [Next]_vars
  PROVE  ChainInv'
<1>1. ReadyInv'
  BY ReadyInvStep DEF ChainInv
<1>2. uses' = uses
  BY DEF Next, vars, api_init, api_set_priority, api_run, job_release_handler,
    job_start, api_wait_for_period, api_exit, Block, Event, Tick
<1>3. ASSUME AllUse({})
      PROVE  /\ Ordered(runq', StartedJobs', Rank', prio')
             /\ Linked(chain', StartedJobs', prio')
             /\ Paid(chain', StartedJobs', ran')
             /\ \A t \in Task : phase'[t] = "released" => ran'[t] = 0
  BY <1>3, ChainOkStep
<1>4. ChainOk'
  BY <1>2, <1>3 DEF ChainOk, AllUse
<1> QED
  BY <1>1, <1>4 DEF ChainInv

\* For tasks used as in the samples, the chain from current_task along preemptee
\* is exactly the started jobs, from the highest priority to the lowest, and
\* preempter is its inverse.
THEOREM ChainFollowsPriorities == Spec => []ChainExact
<1>1. Init => ChainInv
  BY ChainInit
<1>2. ChainInv /\ [Next]_vars => ChainInv'
  BY ChainInvStep
<1>3. ChainInv => ChainExact
  <2> SUFFICES ASSUME ChainInv PROVE ChainExact
    OBVIOUS
  <2> DEFINE started == StartedJobs
             above(t) == {u \in started : prio[u] > prio[t]}
             below(t) == {u \in started : prio[u] < prio[t]}
             adjacent(t, u) == u \in below(t) /\ below(t) \cap above(u) = {}
  <2>1. prio \in [Task -> Int] /\ None \notin Task /\ started \subseteq Task
    <3>1. prio \in [Task -> Prio]
      BY Types DEF ChainInv, ReadyInv, QueueInv
    <3> QED
      BY <3>1, Indices, ReschAssumption DEF StartedJobs
  <2>2. ASSUME AllUse({})
        PROVE  /\ \A t, u \in started : prio[t] = prio[u] => t = u
               /\ IF started = {} THEN chain.current = None
                  ELSE chain.current \in started /\ above(chain.current) = {}
               /\ \A t \in started :
                    /\ IF below(t) = {} THEN chain.preemptee[t] = None
                       ELSE adjacent(t, chain.preemptee[t])
                    /\ IF above(t) = {} THEN chain.preempter[t] = None
                       ELSE adjacent(chain.preempter[t], t)
    <3>0. Linked(chain, started, prio)
      BY <2>2 DEF ChainInv, ChainOk
    <3> HIDE DEF started
    <3>1. /\ \A t, u \in started : prio[t] = prio[u] => t = u
          /\ started = {} => chain.current = None
          /\ started # {} => /\ chain.current \in started
                             /\ \A u \in started : prio[u] <= prio[chain.current]
      BY <3>0 DEF Linked
    <3>2. \A u \in started : prio[u] \in Int
      BY <2>1
    <3>3. started # {} => above(chain.current) = {}
      BY <3>1, <3>2
    <3>4. ASSUME NEW t, NEW u, Adjacent(u, t, started, prio)
          PROVE  adjacent(t, u) /\ t \in above(u) /\ t \in started
      <4>1. /\ u \in started /\ t \in started /\ prio[u] < prio[t]
            /\ \A v \in started : prio[v] <= prio[u] \/ prio[t] <= prio[v]
        BY <3>4 DEF Adjacent
      <4>2. \A v \in started : ~(prio[v] < prio[t] /\ prio[v] > prio[u])
        BY <3>2, <4>1
      <4> QED
        BY <3>2, <4>1, <4>2
    <3>5. ASSUME NEW t \in started
          PROVE  IF below(t) = {} THEN chain.preemptee[t] = None
                 ELSE adjacent(t, chain.preemptee[t])
      <4>1. \/ Adjacent(chain.preemptee[t], t, started, prio)
            \/ chain.preemptee[t] = None /\ \A u \in started : prio[t] <= prio[u]
        BY <3>0 DEF Linked
      <4>2. CASE Adjacent(chain.preemptee[t], t, started, prio)
        <5>1. adjacent(t, chain.preemptee[t])
          BY <3>4, <4>2
        <5> QED
          BY <5>1
      <4>3. CASE chain.preemptee[t] = None /\ \A u \in started : prio[t] <= prio[u]
        <5>1. below(t) = {}
          BY <3>2, <4>3
        <5> QED
          BY <4>3, <5>1
      <4> QED
        BY <4>1, <4>2, <4>3
    <3>6. ASSUME NEW t \in started
          PROVE  IF above(t) = {} THEN chain.preempter[t] = None
                 ELSE adjacent(chain.preempter[t], t)
      <4>1. \/ Adjacent(t, chain.preempter[t], started, prio)
            \/ chain.preempter[t] = None /\ \A u \in started : prio[u] <= prio[t]
        BY <3>0 DEF Linked
      <4>2. CASE Adjacent(t, chain.preempter[t], started, prio)
        <5>1. adjacent(chain.preempter[t], t) /\ chain.preempter[t] \in above(t)
          BY <3>4, <4>2
        <5> QED
          BY <5>1
      <4>3. CASE chain.preempter[t] = None /\ \A u \in started : prio[u] <= prio[t]
        <5>1. above(t) = {}
          BY <3>2, <4>3
        <5> QED
          BY <4>3, <5>1
      <4> QED
        BY <4>1, <4>2, <4>3
    <3> QED
      BY <3>1, <3>3, <3>5, <3>6
  <2> QED
    BY <2>2 DEF ChainExact, StartedJobs
<1> QED
  BY <1>1, <1>2, <1>3, PTL DEF Spec

\* For tasks used as in the samples, a job is charged at least every jiffy that
\* it ran, though only starts, ends and preemptions of jobs look at the clock.
THEOREM JiffiesCharged == Spec => []NoJiffyLost
<1>1. Init => ChainInv
  BY ChainInit
<1>2. ChainInv /\ [Next]_vars => ChainInv'
  BY ChainInvStep
<1>3. ChainInv => NoJiffyLost
  <2> SUFFICES ASSUME ChainInv, AllUse({}), NEW t \in Task, phase[t] = "started"
               PROVE  chain.exec_time[t] + (IF chain.current = t THEN chain.since ELSE 0)
                        >= ran[t]
    BY DEF NoJiffyLost
  <2>1. Paid(chain, StartedJobs, ran)
    BY DEF ChainInv, ChainOk
  <2>2. /\ chain.current = t => chain.exec_time[t] + chain.since >= ran[t]
        /\ chain.current # t => chain.exec_time[t] >= ran[t]
    BY <2>1 DEF Paid, StartedJobs
  <2>3. chain.exec_time[t] \in Nat
    BY Types DEF ChainInv, ReadyInv, QueueInv, Chain
  <2> QED
    BY <2>2, <2>3
<1> QED
  BY <1>1, <1>2, <1>3, PTL DEF Spec

----------------------------------------------------------------------------
(* The searches through the active queue.  Its lists, put one after the    *)
(* other, lie in InOrder(a) from the places s[0] = 0, s[1], ... on; a      *)
(* search from bit o that finds bit x shows that the lists between them    *)
(* are empty, so that s[x] = s[o].                                         *)

LEMMA Widths ==
  /\ Half \in Nat \ {0} /\ BITS_PER_LONG \in Nat \ {0}
  /\ BITS_PER_LONG = 2 * Half
  /\ INT_BITS \in {Half, BITS_PER_LONG}
<1>1. BITS_PER_LONG \in Nat /\ BITS_PER_LONG % 2 = 0
      /\ INT_BITS \in {BITS_PER_LONG \div 2, BITS_PER_LONG} \ {0}
  BY BitopsAssumption
<1>2. Half \in Nat /\ BITS_PER_LONG = 2 * Half
  BY <1>1 DEF Half
<1>3. INT_BITS \in {Half, BITS_PER_LONG} /\ INT_BITS # 0
  BY <1>1 DEF Half
<1> QED
  BY <1>1, <1>2, <1>3

\* The first and the last bit of a set.
LEMMA FirstBitIs ==
  ASSUME NEW b \in SUBSET Nat
  PROVE  IF b = {} THEN FirstBit(b) = -1
         ELSE FirstBit(b) \in b /\ \A x \in b : FirstBit(b) <= x
BY NatMin DEF FirstBit

LEMMA LastBitIs ==
  ASSUME NEW n \in Nat, NEW b \in SUBSET (0 .. n)
  PROVE  IF b = {} THEN LastBit(b) = -1
         ELSE LastBit(b) \in b /\ \A x \in b : x <= LastBit(b)
<1>1. CASE b = {}
  BY <1>1 DEF LastBit
<1>2. CASE b # {}
  <2>1. IsFiniteSet(b)
    <3>1. IsFiniteSet(0 .. n)
      BY FS_Interval
    <3> QED
      BY <3>1, FS_Subset
  <2>2. PICK f : f = [x \in b |-> x]
    OBVIOUS
  <2>3. f \in [b -> Nat] /\ \A x \in b : f[x] = x
    BY <2>2
  <2>4. \E m \in b : \A x \in b : f[x] <= f[m]
    BY <1>2, <2>1, <2>3, FiniteMax
  <2>5. \E m \in b : \A x \in b : x <= m
    BY <2>3, <2>4
  <2> QED
    BY <1>2, <2>5 DEF LastBit
<1> QED
  BY <1>1, <1>2

\* An offset in the first word is not beyond the bitmap.
LEMMA InBitmap ==
  ASSUME NEW o \in 0 .. BITS_PER_LONG
  PROVE  ~(BITS_TO_LONGS(o) > RESCH_PRIO_LONG \/ o < 0)
<1>1. PICK w \in Nat \ {0} : w = BITS_PER_LONG
  BY Widths
<1>2. /\ (o + w - 1) \div w \in Int
      /\ (o + w - 1) \div w <= 1
  <2>1. o + w - 1 \in Nat /\ o + w - 1 < 2 * w
    BY <1>1
  <2>2. PICK d, m : d = (o + w - 1) \div w /\ m = (o + w - 1) % w
    OBVIOUS
  <2>3. d \in Nat /\ m \in 0 .. w - 1 /\ o + w - 1 = w * d + m
    BY <1>1, <2>1, <2>2, DivMod
  <2>4. d <= 1
    <3>1. ASSUME d >= 2
          PROVE  FALSE
      <4>1. w * 2 <= w * d
        BY <1>1, <2>3, <3>1, Product
      <4>2. PICK p : p = w * d
        OBVIOUS
      <4>3. p \in Int
        BY <1>1, <2>3, <4>2
      <4> QED
        BY <1>1, <2>1, <2>3, <4>1, <4>2, <4>3
    <3> QED
      BY <2>3, <3>1
  <2> QED
    BY <2>2, <2>3, <2>4
<1>3. /\ (MaxPrio + 1 + w - 1) \div w \in Int
      /\ 1 <= (MaxPrio + 1 + w - 1) \div w
  <2>1. PICK n \in Nat : n = MaxPrio + 1 + w - 1 /\ n >= w
    BY <1>1, ReschAssumption
  <2>2. PICK d, m : d = n \div w /\ m = n % w
    OBVIOUS
  <2>3. d \in Nat /\ m \in 0 .. w - 1 /\ n = w * d + m
    BY <1>1, <2>1, <2>2, DivMod
  <2>4. d # 0
    BY <1>1, <2>1, <2>3
  <2> QED
    BY <2>1, <2>2, <2>3, <2>4
<1>4. BITS_TO_LONGS(o) = (o + w - 1) \div w
      /\ RESCH_PRIO_LONG = (MaxPrio + 1 + w - 1) \div w
  BY <1>1 DEF BITS_TO_LONGS, RESCH_PRIO_LONG
<1> QED
  BY <1>2, <1>3, <1>4

\* Bits in the lower half of the first word lie behind each offset there.
LEMMA LowerHalf ==
  ASSUME NEW x \in 0 .. Half - 1, NEW o \in 0 .. Half - 1
  PROVE  /\ Behind(x, o) = o /\ x % BITS_PER_LONG = x
         /\ o % INT_BITS = o
         /\ INT_BITS = Half => (BITS_PER_LONG - 1 - o) % INT_BITS = Half - 1 - o
<1>1. x % BITS_PER_LONG = x
  <2>1. PICK w \in Nat \ {0} : w = BITS_PER_LONG
    BY Widths
  <2>2. x \in 0 .. w - 1
    BY <2>1, Widths
  <2> QED
    BY <2>1, <2>2
<1>2. Behind(x, o) = o
  BY <1>1 DEF Behind
<1>3. o % INT_BITS = o
  <2>1. PICK w \in Nat \ {0} : w = INT_BITS
    BY Widths
  <2>2. o \in 0 .. w - 1
    BY <2>1, Widths
  <2> QED
    BY <2>1, <2>2
<1>4. ASSUME INT_BITS = Half
      PROVE  (BITS_PER_LONG - 1 - o) % INT_BITS = Half - 1 - o
  <2>1. PICK w \in Nat \ {0} : w = Half
    BY Widths
  <2>2. BITS_PER_LONG - 1 - o = w + (w - 1 - o) /\ w - 1 - o \in 0 .. w - 1
    BY <2>1, Widths
  <2>3. (w + (w - 1 - o)) % w = w - 1 - o
    BY <2>1, <2>2
  <2> QED
    BY <1>4, <2>1, <2>2, <2>3
<1> QED
  BY <1>1, <1>2, <1>3, <1>4

\* A search upwards in the lower half finds the first bit from the offset on.
LEMMA SearchUp ==
  ASSUME NEW b \in SUBSET (0 .. Half - 1), NEW o \in 0 .. Half - 1
  PROVE  resch_fns(b, o, RESCH_PRIO_LONG) = FirstBit({x \in b : x >= o})
<1>1. ASSUME NEW x \in b
      PROVE  LooksFrom(x, o) /\ LeavesFrom(x, o) <=> x >= o
  <2>1. /\ x \in 0 .. Half - 1 /\ Behind(x, o) = o /\ x % BITS_PER_LONG = x
        /\ o % INT_BITS = o
    BY LowerHalf
  <2>2. LooksFrom(x, o)
    BY <2>1, Widths DEF LooksFrom
  <2>3. x \in ShiftLeft(o) <=> x >= o
    BY <2>1, Widths DEF ShiftLeft
  <2>4. LeavesFrom(x, o) <=> (o > 0 => x \in ShiftLeft(o))
    BY <2>1 DEF LeavesFrom
  <2> QED
    BY <2>1, <2>2, <2>3, <2>4, Widths
<1>2. {x \in b : LooksFrom(x, o) /\ LeavesFrom(x, o)} = {x \in b : x >= o}
  BY <1>1
<1>3. o \in 0 .. BITS_PER_LONG
  BY Widths
<1> QED
  BY <1>2, <1>3, InBitmap DEF resch_fns

\* One downwards finds the last bit to the offset, in a word of 64 bits.
LEMMA SearchDown ==
  ASSUME INT_BITS = Half, NEW b \in SUBSET (0 .. Half - 1), NEW o \in -1 .. Half - 1
  PROVE  resch_fps(b, o, RESCH_PRIO_LONG) = LastBit({x \in b : x <= o})
<1>1. CASE o = -1
  <2>1. {x \in b : x <= o} = {}
    <3>1. \A x \in b : x \in Nat
      BY Widths
    <3>2. \A x \in b : ~(x <= o)
      BY <1>1, <3>1
    <3> QED
      BY <3>2
  <2>2. resch_fps(b, o, RESCH_PRIO_LONG) = -1
    BY <1>1 DEF resch_fps
  <2> QED
    BY <2>1, <2>2 DEF LastBit
<1>2. CASE o \in 0 .. Half - 1
  <2>1. ASSUME NEW x \in b
        PROVE  LooksTo(x, o) /\ LeavesTo(x, o) <=> x <= o
    <3>1. /\ x \in 0 .. Half - 1 /\ Behind(x, o) = o /\ x % BITS_PER_LONG = x
          /\ (BITS_PER_LONG - 1 - o) % INT_BITS = Half - 1 - o
      BY <1>2, LowerHalf
    <3>2. LooksTo(x, o)
      BY <1>2, <3>1 DEF LooksTo
    <3>3. x \in ShiftRight(BITS_PER_LONG - 1 - o) <=> x <= o
      BY <1>2, <3>1, Widths DEF ShiftRight, Bits
    <3>4. LeavesTo(x, o) <=> x \in ShiftRight(BITS_PER_LONG - 1 - o)
      BY <1>2, <3>1, Widths DEF LeavesTo
    <3> QED
      BY <3>2, <3>3, <3>4
  <2>2. {x \in b : LooksTo(x, o) /\ LeavesTo(x, o)} = {x \in b : x <= o}
    BY <2>1
  <2>3. o \in 0 .. BITS_PER_LONG
    BY <1>2, Widths
  <2> QED
    BY <2>2, <2>3, InBitmap DEF resch_fps
<1> QED
  BY <1>1, <1>2

\* A search upwards finds a bit that is set, if any.
LEMMA SearchFinds ==
  ASSUME NEW b \in SUBSET Nat, NEW o, NEW len
  PROVE  resch_fns(b, o, len) = -1 \/ resch_fns(b, o, len) \in b
<1>1. PICK c : c = {x \in b : LooksFrom(x, o) /\ LeavesFrom(x, o)}
  OBVIOUS
<1>2. c \in SUBSET Nat /\ c \subseteq b
  BY <1>1
<1>3. FirstBit(c) = -1 \/ FirstBit(c) \in c
  BY <1>2, FirstBitIs
<1> QED
  BY <1>1, <1>2, <1>3 DEF resch_fns

\* The list of a bit.
Row(a, i) == a.queue[reverse_prio(i)]

\* The lists come one after the other in a sequence, that of bit i after entry
\* number s[i].
Laid(s, order, a) ==
  /\ order \in Seq(Task)
  /\ s \in [0 .. MaxPrio -> Nat]
  /\ s[0] = 0 /\ s[MaxPrio] = Len(order)
  /\ \A i \in 0 .. MaxPrio - 1 :
       /\ s[i + 1] = s[i] + Len(Row(a, i))
       /\ \A h \in 1 .. Len(Row(a, i)) : order[s[i] + h] = Row(a, i)[h]

LEMMA RowPrio ==
  ASSUME NEW i \in 0 .. MaxPrio - 1
  PROVE  \E p \in Prio : p = reverse_prio(i) /\ reverse_prio(p) = i
BY ReschAssumption DEF reverse_prio, Prio, RESCH_MIN_PRIO

LEMMA RowType ==
  ASSUME NEW a, a.queue \in [Prio -> Seq(Task)], NEW i \in 0 .. MaxPrio - 1
  PROVE  /\ Row(a, i) \in Seq(Task) /\ Len(Row(a, i)) \in Nat
         /\ Row(a, i) # <<>> <=> Len(Row(a, i)) >= 1
<1>1. Row(a, i) \in Seq(Task)
  BY Indices DEF Row
<1>2. Len(Row(a, i)) \in Nat
  BY <1>1, LenProperties
<1>3. Row(a, i) = <<>> <=> Len(Row(a, i)) = 0
  BY <1>1, EmptySeq
<1> QED
  BY <1>1, <1>2, <1>3

\* What the joined lists are made of.
Joins(u, n, a) ==
  /\ u \in [0 .. n -> Seq(Task)]
  /\ u[0] = <<>>
  /\ \A k \in 1 .. n : u[k] = u[k - 1] \o Row(a, k - 1)

LEMMA JoinSteps ==
  ASSUME NEW a, a.queue \in [Prio -> Seq(Task)], NEW n \in Nat, n = MaxPrio
  PROVE  \E u : Joins(u, n, a) /\ InOrder(a) = u[n]
<1> DEFINE step == [k \in 1 .. n |-> [y \in Seq(Task) |-> y \o Row(a, k - 1)]]
           Eq(u) == u = [k \in 0 .. n |->
                           IF k = 0 THEN <<>> ELSE u[k - 1] \o a.queue[reverse_prio(k - 1)]]
<1>0. \A k \in 1 .. n : \A y \in Seq(Task) : y \o Row(a, k - 1) \in Seq(Task)
  <2>1. \A k \in 1 .. n : k - 1 \in 0 .. MaxPrio - 1
    OBVIOUS
  <2>2. \A k \in 1 .. n : Row(a, k - 1) \in Seq(Task)
    BY <2>1, RowType
  <2> QED
    BY <2>2, ConcatProperties
<1>1. PICK g \in [0 .. n -> Seq(Task)] :
        g[0] = <<>> /\ \A k \in 1 .. n : g[k] = step[k][g[k - 1]]
  <2>1. PICK st, X, x : st = step /\ X = Seq(Task) /\ x = <<>>
    OBVIOUS
  <2>2. x \in X
    BY <2>1
  <2>3. StepsOn(st, n, X)
    BY <1>0, <2>1 DEF StepsOn
  <2> HIDE DEF step
  <2>4. PICK g : IteratesTo(g, st, n, X, x)
    BY <2>2, <2>3, Iterated
  <2> QED
    BY <2>1, <2>4 DEF IteratesTo
<1>2. \A k \in 1 .. n : k - 1 \in 0 .. n /\ g[k] = g[k - 1] \o Row(a, k - 1)
  <2> SUFFICES ASSUME NEW k \in 1 .. n
               PROVE  k - 1 \in 0 .. n /\ g[k] = g[k - 1] \o Row(a, k - 1)
    OBVIOUS
  <2>1. k - 1 \in 0 .. n /\ g[k - 1] \in Seq(Task)
    OBVIOUS
  <2>2. step[k][g[k - 1]] = g[k - 1] \o Row(a, k - 1)
    BY <2>1
  <2> QED
    BY <1>1, <2>1, <2>2
<1>3. Eq(g)
  <2> HIDE DEF step
  <2>1. \A k \in 1 .. n : g[k] = g[k - 1] \o a.queue[reverse_prio(k - 1)]
    BY <1>2 DEF Row
  <2>2. PICK h : h = [k \in 0 .. n |->
                        IF k = 0 THEN <<>> ELSE g[k - 1] \o a.queue[reverse_prio(k - 1)]]
    OBVIOUS
  <2>3. \A k \in 0 .. n : h[k] = g[k]
    <3>1. h[0] = g[0]
      <4>1. 0 \in 0 .. n
        OBVIOUS
      <4> QED
        BY <1>1, <2>2, <4>1, Zenon
    <3>2. \A k \in 1 .. n : k \in 0 .. n /\ k # 0
      OBVIOUS
    <3>3. \A k \in 1 .. n : h[k] = g[k]
      BY <2>1, <2>2, <3>2, Zenon
    <3>4. \A k \in 0 .. n : k = 0 \/ k \in 1 .. n
      OBVIOUS
    <3> QED
      BY <3>1, <3>3, <3>4
  <2>4. h = [k \in 0 .. n |-> h[k]]
    BY <2>2, Zenon
  <2>5. g = [k \in 0 .. n |-> g[k]]
    BY <1>1
  <2>6. h = g
    BY <2>3, <2>4, <2>5
  <2> QED
    BY <2>2, <2>6
<1>4. PICK u : u = CHOOSE h : Eq(h)
  OBVIOUS
<1>5. Eq(u)
  BY <1>3, <1>4
<1>6. InOrder(a) = u[n]
  BY <1>4 DEF InOrder
<1>7. u[0] = <<>> /\ \A k \in 1 .. n : u[k] = u[k - 1] \o Row(a, k - 1)
  <2>1. 0 \in 0 .. n /\ \A k \in 1 .. n : k \in 0 .. n /\ k # 0
    OBVIOUS
  <2> QED
    BY <1>5, <2>1, Zenon DEF Row
<1>8. ASSUME NEW k \in 0 .. n
      PROVE  u[k] = g[k]
  <2> HIDE DEF step, Eq
  <2> DEFINE S == {i \in 0 .. n : u[i] = g[i]}
  <2>1. 0 \in S
    <3>1. u[0] = g[0]
      BY <1>1, <1>7, Zenon
    <3>2. 0 \in 0 .. n
      OBVIOUS
    <3> QED
      BY <3>1, <3>2
  <2>2. ASSUME NEW i \in 1 .. n, i - 1 \in S
        PROVE  i \in S
    <3>1. /\ u[i] = u[i - 1] \o Row(a, i - 1)
          /\ g[i] = g[i - 1] \o Row(a, i - 1)
          /\ u[i - 1] = g[i - 1]
      BY <1>2, <1>7, <2>2
    <3>2. u[i] = g[i]
      BY <3>1
    <3> QED
      BY <3>2
  <2> HIDE DEF S
  <2>3. 0 .. n \subseteq S
    BY <2>1, <2>2, UpTo
  <2> QED
    BY <2>3 DEF S
<1>9. u = g
  BY <1>1, <1>5, <1>8
<1> QED
  BY <1>6, <1>7, <1>9 DEF Joins

\* The first entries of a sequence.
Begins(s, t) == Len(s) <= Len(t) /\ \A i \in 1 .. Len(s) : t[i] = s[i]

LEMMA LaidOut ==
  ASSUME NEW a, a.queue \in [Prio -> Seq(Task)]
  PROVE  \E s : Laid(s, InOrder(a), a)
<1>1. PICK n \in Nat : n = MaxPrio
  BY ReschAssumption
<1>2. PICK u : Joins(u, n, a) /\ InOrder(a) = u[n]
  BY <1>1, JoinSteps
<1>3. /\ u \in [0 .. n -> Seq(Task)]
      /\ u[0] = <<>>
      /\ \A k \in 1 .. n : u[k] = u[k - 1] \o Row(a, k - 1)
  BY <1>2 DEF Joins
<1>4. ASSUME NEW k \in 1 .. n
      PROVE  /\ Len(u[k]) = Len(u[k - 1]) + Len(Row(a, k - 1))
             /\ Begins(u[k - 1], u[k])
             /\ \A h \in 1 .. Len(Row(a, k - 1)) :
                  u[k][Len(u[k - 1]) + h] = Row(a, k - 1)[h]
  <2>1. PICK x, y, z : x = u[k - 1] /\ y = Row(a, k - 1) /\ z = u[k]
    OBVIOUS
  <2>2. x \in Seq(Task) /\ y \in Seq(Task) /\ z = x \o y
    <3>1. k - 1 \in 0 .. MaxPrio - 1 /\ k - 1 \in 0 .. n
      BY <1>1
    <3> QED
      BY <1>3, <2>1, <3>1, RowType
  <2>3. /\ Len(x) \in Nat /\ Len(y) \in Nat /\ Len(z) = Len(x) + Len(y)
        /\ \A i \in 1 .. Len(x) + Len(y) :
             z[i] = IF i <= Len(x) THEN x[i] ELSE y[i - Len(x)]
    BY <2>2, LenProperties, ConcatProperties
  <2>4. Begins(x, z)
    BY <2>3 DEF Begins
  <2>5. \A h \in 1 .. Len(y) : z[Len(x) + h] = y[h]
    BY <2>3
  <2> QED
    BY <2>1, <2>3, <2>4, <2>5
<1>5. ASSUME NEW k \in 0 .. n
      PROVE  \A m \in k .. n : Begins(u[k], u[m])
  <2> DEFINE S == {m \in 0 .. n : m >= k => Begins(u[k], u[m])}
  <2>0. \A m \in 0 .. n : Len(u[m]) \in Nat
    BY <1>3, LenProperties
  <2>1. Begins(u[k], u[k])
    BY <2>0 DEF Begins
  <2>2. 0 \in S
    BY <2>1
  <2>3. ASSUME NEW m \in 1 .. n, m - 1 \in S
        PROVE  m \in S
    <3>1. CASE m - 1 >= k
      <4>1. Begins(u[k], u[m - 1]) /\ Begins(u[m - 1], u[m]) /\ m - 1 \in 0 .. n
        BY <1>4, <2>3, <3>1
      <4>2. PICK x, y, z : x = u[k] /\ y = u[m - 1] /\ z = u[m]
        OBVIOUS
      <4>3. /\ Len(x) \in Nat /\ Len(y) \in Nat /\ Len(z) \in Nat
            /\ Begins(x, y) /\ Begins(y, z)
        BY <2>0, <4>1, <4>2
      <4>4. Begins(x, z)
        BY <4>3 DEF Begins
      <4> QED
        BY <4>2, <4>4
    <3>2. CASE m = k
      BY <2>1, <3>2
    <3>3. CASE m < k
      BY <3>3
    <3> QED
      BY <3>1, <3>2, <3>3
  <2> HIDE DEF S
  <2>4. 0 .. n \subseteq S
    BY <2>2, <2>3, UpTo
  <2> QED
    BY <2>4 DEF S
<1>6. PICK s : s = [k \in 0 .. n |-> Len(u[k])]
  OBVIOUS
<1>7. PICK order : order = u[n]
  OBVIOUS
<1>8. s \in [0 .. n -> Nat] /\ s[0] = 0 /\ s[n] = Len(order) /\ order \in Seq(Task)
  BY <1>3, <1>6, <1>7, LenProperties
<1>9. ASSUME NEW i \in 0 .. MaxPrio - 1
      PROVE  /\ s[i + 1] = s[i] + Len(Row(a, i))
             /\ \A h \in 1 .. Len(Row(a, i)) : order[s[i] + h] = Row(a, i)[h]
  <2>1. PICK k \in 1 .. n : k = i + 1 /\ k - 1 = i /\ i \in 0 .. n
    BY <1>1
  <2>2. s[k] = Len(u[k]) /\ s[i] = Len(u[i])
    BY <1>6, <2>1
  <2>3. /\ Len(u[k]) = Len(u[i]) + Len(Row(a, i))
        /\ \A h \in 1 .. Len(Row(a, i)) : u[k][Len(u[i]) + h] = Row(a, i)[h]
    BY <1>4, <2>1
  <2>4. Begins(u[k], order)
    <3>1. k \in 0 .. n /\ n \in k .. n
      BY <2>1
    <3> QED
      BY <1>5, <1>7, <3>1
  <2>5. ASSUME NEW h \in 1 .. Len(Row(a, i))
        PROVE  order[s[i] + h] = Row(a, i)[h]
    <3>1. Len(u[i]) \in Nat /\ Len(Row(a, i)) \in Nat
      BY <1>3, <2>1, RowType, LenProperties
    <3>2. Len(u[i]) + h \in 1 .. Len(u[k])
      BY <2>3, <3>1
    <3>3. order[Len(u[i]) + h] = u[k][Len(u[i]) + h]
      BY <2>4, <3>2 DEF Begins
    <3> QED
      BY <2>2, <2>3, <3>3
  <2> QED
    BY <2>1, <2>2, <2>3, <2>5
<1>10. Laid(s, order, a)
  BY <1>1, <1>8, <1>9 DEF Laid
<1> QED
  BY <1>2, <1>7, <1>10

\* No list ends before it starts, and empty lists take no room.
LEMMA Stacked ==
  ASSUME NEW a, a.queue \in [Prio -> Seq(Task)], NEW order, NEW s,
         Laid(s, order, a), NEW j \in 0 .. MaxPrio, NEW k \in j .. MaxPrio
  PROVE  /\ s[j] \in Nat /\ s[k] \in Nat /\ s[j] <= s[k]
         /\ (\A i \in j .. k - 1 : Row(a, i) = <<>>) => s[k] = s[j]
<1>1. PICK n \in Nat : n = MaxPrio
  BY ReschAssumption
<1>2. /\ s \in [0 .. n -> Nat]
      /\ \A i \in 0 .. n - 1 : s[i + 1] = s[i] + Len(Row(a, i))
  BY <1>1 DEF Laid
<1>3. \A i \in 0 .. n - 1 : /\ Len(Row(a, i)) \in Nat
                            /\ Row(a, i) = <<>> => Len(Row(a, i)) = 0
  BY <1>1, RowType
<1> DEFINE Above(m) == /\ s[j] <= s[m]
                       /\ (\A i \in j .. m - 1 : Row(a, i) = <<>>) => s[m] = s[j]
           S == {m \in 0 .. n : m >= j => Above(m)}
<1>4. j \in 0 .. n /\ Above(j)
  BY <1>1, <1>2
<1>5. 0 \in S
  BY <1>4
<1>6. ASSUME NEW m \in 1 .. n, m - 1 \in S
      PROVE  m \in S
  <2>1. CASE m - 1 >= j
    <3>1. m - 1 \in 0 .. n - 1 /\ m - 1 \in 0 .. n /\ Above(m - 1)
      BY <1>6, <2>1
    <3>2. /\ s[m] = s[m - 1] + Len(Row(a, m - 1))
          /\ s[m] \in Nat /\ s[m - 1] \in Nat /\ s[j] \in Nat
          /\ Len(Row(a, m - 1)) \in Nat
          /\ Row(a, m - 1) = <<>> => Len(Row(a, m - 1)) = 0
      BY <1>2, <1>3, <1>4, <3>1
    <3>3. (m - 1) - 1 = m - 2 /\ m - 1 \in j .. m - 1 /\ j .. m - 2 \subseteq j .. m - 1
      BY <1>4, <2>1
    <3>4. s[j] <= s[m]
      BY <3>1, <3>2
    <3>5. ASSUME \A i \in j .. m - 1 : Row(a, i) = <<>>
          PROVE  s[m] = s[j]
      <4>1. s[m - 1] = s[j]
        BY <3>1, <3>3, <3>5
      <4> QED
        BY <3>2, <3>3, <3>5, <4>1
    <3> QED
      BY <3>4, <3>5
  <2>2. CASE m = j
    BY <1>4, <2>2
  <2>3. CASE m < j
    BY <2>3
  <2> QED
    BY <1>4, <2>1, <2>2, <2>3
<1> HIDE DEF S
<1>7. 0 .. n \subseteq S
  BY <1>5, <1>6, UpTo
<1>8. k \in 0 .. n /\ k >= j
  BY <1>1
<1> QED
  BY <1>2, <1>4, <1>7, <1>8 DEF S

\* Each entry is one of a list.
LEMMA Places ==
  ASSUME NEW a, a.queue \in [Prio -> Seq(Task)], NEW order, NEW s,
         Laid(s, order, a), NEW m \in 1 .. Len(order)
  PROVE  \E i \in 0 .. MaxPrio - 1 : \E h \in 1 .. Len(Row(a, i)) : m = s[i] + h
<1>1. PICK n \in Nat : n = MaxPrio
  BY ReschAssumption
<1>2. /\ s \in [0 .. n -> Nat] /\ s[0] = 0 /\ s[n] = Len(order)
      /\ \A i \in 0 .. n - 1 : s[i + 1] = s[i] + Len(Row(a, i))
  BY <1>1 DEF Laid
<1>3. \A i \in 0 .. n - 1 : Len(Row(a, i)) \in Nat
  BY <1>1, RowType
<1> DEFINE Placed == \E i \in 0 .. n - 1 : \E h \in 1 .. Len(Row(a, i)) : m = s[i] + h
           S == {k \in 0 .. n : m <= s[k] => Placed}
<1>4. 0 \in S
  BY <1>2
<1>5. ASSUME NEW k \in 1 .. n, k - 1 \in S
      PROVE  k \in S
  <2>1. /\ k - 1 \in 0 .. n - 1 /\ k - 1 \in 0 .. n /\ (k - 1) + 1 = k
    OBVIOUS
  <2>2. s[k] = s[k - 1] + Len(Row(a, k - 1)) /\ s[k] \in Nat /\ s[k - 1] \in Nat
        /\ Len(Row(a, k - 1)) \in Nat
    BY <1>2, <1>3, <2>1
  <2>3. CASE m <= s[k - 1]
    BY <1>5, <2>3
  <2>4. CASE ~(m <= s[k - 1])
    <3>1. ASSUME m <= s[k]
          PROVE  Placed
      <4>1. PICK h : h = m - s[k - 1]
        OBVIOUS
      <4>2. h \in 1 .. Len(Row(a, k - 1)) /\ m = s[k - 1] + h
        BY <2>2, <2>4, <3>1, <4>1
      <4> QED
        BY <2>1, <4>2
    <3> QED
      BY <3>1
  <2> QED
    BY <2>3, <2>4
<1> HIDE DEF S
<1>6. 0 .. n \subseteq S
  BY <1>4, <1>5, UpTo
<1>7. n \in S
  BY <1>6
<1>8. Placed
  <2>1. m <= s[n]
    BY <1>2
  <2> QED
    BY <1>7, <2>1 DEF S
<1> QED
  BY <1>1, <1>8

\* A queue that the searches walk: a bit is set, in the lower half of the first
\* word, exactly when its list is not empty.
Searchable(a, s, order) ==
  /\ a.queue \in [Prio -> Seq(Task)]
  /\ a.bitmap \subseteq 0 .. Half - 1
  /\ a.bitmap \subseteq 0 .. MaxPrio - 1
  /\ \A i \in 0 .. MaxPrio - 1 : i \in a.bitmap <=> Row(a, i) # <<>>
  /\ Laid(s, order, a)

\* The entries between offset o and the list of bit x, if any, are none.
NextBit(x, o, s, a) ==
  \/ x = -1 /\ s[MaxPrio] = s[o]
  \/ x \in a.bitmap /\ x >= o /\ s[x] = s[o]

PreviousBit(x, o, s, a) ==
  \/ x = -1 /\ s[o + 1] = 0
  \/ x \in a.bitmap /\ x <= o /\ s[x + 1] = s[o + 1]

LEMMA NextFound ==
  ASSUME NEW a, NEW s, NEW order, Searchable(a, s, order),
         NEW o \in 0 .. Half - 1, o <= MaxPrio
  PROVE  NextBit(resch_fns(a.bitmap, o, RESCH_PRIO_LONG), o, s, a)
<1>1. PICK n \in Nat : n = MaxPrio
  BY ReschAssumption
<1>2. /\ a.queue \in [Prio -> Seq(Task)] /\ Laid(s, order, a)
      /\ a.bitmap \in SUBSET (0 .. Half - 1) /\ a.bitmap \in SUBSET Nat
      /\ a.bitmap \subseteq 0 .. n - 1
      /\ \A i \in 0 .. n - 1 : i \notin a.bitmap => Row(a, i) = <<>>
  BY <1>1 DEF Searchable
<1>3. PICK x : x = resch_fns(a.bitmap, o, RESCH_PRIO_LONG)
  OBVIOUS
<1>4. PICK c : c = {y \in a.bitmap : y >= o}
  OBVIOUS
<1>5. x = FirstBit(c)
  BY <1>2, <1>3, <1>4, SearchUp
<1>6. c \in SUBSET Nat
  BY <1>2, <1>4
<1>7. CASE c = {}
  <2>1. x = -1
    BY <1>5, <1>6, <1>7, FirstBitIs
  <2>2. \A i \in o .. n - 1 : i \in 0 .. n - 1 /\ i \notin a.bitmap
    BY <1>4, <1>7
  <2>3. \A i \in o .. n - 1 : Row(a, i) = <<>>
    BY <1>2, <2>2
  <2>4. o \in 0 .. MaxPrio /\ n \in o .. MaxPrio
    BY <1>1
  <2>5. s[n] = s[o]
    BY <1>2, <2>3, <2>4, Stacked
  <2> QED
    BY <1>1, <1>3, <2>1, <2>5 DEF NextBit
<1>8. CASE c # {}
  <2>1. x \in a.bitmap /\ x >= o /\ \A y \in c : x <= y
    BY <1>4, <1>5, <1>6, <1>8, FirstBitIs
  <2>2. x \in 0 .. n - 1
    BY <1>2, <2>1
  <2>3. \A i \in o .. x - 1 : i \in 0 .. n - 1 /\ i >= o /\ ~(x <= i)
    BY <2>1, <2>2
  <2>4. \A i \in o .. x - 1 : Row(a, i) = <<>>
    BY <1>2, <1>4, <2>1, <2>3
  <2>5. o \in 0 .. MaxPrio /\ x \in o .. MaxPrio
    BY <1>1, <2>1, <2>2
  <2>6. s[x] = s[o]
    BY <1>2, <2>4, <2>5, Stacked
  <2> QED
    BY <1>3, <2>1, <2>6 DEF NextBit
<1> QED
  BY <1>7, <1>8

LEMMA PreviousFound ==
  ASSUME INT_BITS = Half, NEW a, NEW s, NEW order, Searchable(a, s, order),
         NEW o \in -1 .. Half - 1, o < MaxPrio
  PROVE  PreviousBit(resch_fps(a.bitmap, o, RESCH_PRIO_LONG), o, s, a)
<1>1. PICK n \in Nat : n = MaxPrio
  BY ReschAssumption
<1>2. /\ a.queue \in [Prio -> Seq(Task)] /\ Laid(s, order, a)
      /\ a.bitmap \in SUBSET (0 .. Half - 1)
      /\ a.bitmap \subseteq 0 .. n - 1
      /\ \A i \in 0 .. n - 1 : i \notin a.bitmap => Row(a, i) = <<>>
  BY <1>1 DEF Searchable
<1>3. PICK x : x = resch_fps(a.bitmap, o, RESCH_PRIO_LONG)
  OBVIOUS
<1>4. PICK c : c = {y \in a.bitmap : y <= o}
  OBVIOUS
<1>5. x = LastBit(c)
  BY <1>2, <1>3, <1>4, SearchDown
<1>6. c \in SUBSET (0 .. n)
  BY <1>2, <1>4
<1>7. CASE c = {}
  <2>1. x = -1
    BY <1>5, <1>6, <1>7, LastBitIs
  <2>2. \A i \in 0 .. (o + 1) - 1 : i \in 0 .. n - 1 /\ i \notin a.bitmap
    BY <1>1, <1>4, <1>7
  <2>3. \A i \in 0 .. (o + 1) - 1 : Row(a, i) = <<>>
    BY <1>2, <2>2
  <2>4. 0 \in 0 .. MaxPrio /\ o + 1 \in 0 .. MaxPrio
    BY <1>1
  <2>5. s[o + 1] = s[0]
    BY <1>2, <2>3, <2>4, Stacked
  <2>6. s[0] = 0
    BY <1>2 DEF Laid
  <2> QED
    BY <1>3, <2>1, <2>5, <2>6 DEF PreviousBit
<1>8. CASE c # {}
  <2>1. x \in a.bitmap /\ x <= o /\ \A y \in c : y <= x
    BY <1>4, <1>5, <1>6, <1>8, LastBitIs
  <2>2. x \in 0 .. n - 1
    BY <1>2, <2>1
  <2>3. \A i \in x + 1 .. (o + 1) - 1 : i \in 0 .. n - 1 /\ i <= o /\ ~(i <= x)
    BY <1>1, <2>1, <2>2
  <2>4. \A i \in x + 1 .. (o + 1) - 1 : Row(a, i) = <<>>
    BY <1>2, <1>4, <2>1, <2>3
  <2>5. x + 1 \in 0 .. MaxPrio /\ o + 1 \in x + 1 .. MaxPrio
    BY <1>1, <2>1, <2>2
  <2>6. s[o + 1] = s[x + 1]
    BY <1>2, <2>4, <2>5, Stacked
  <2> QED
    BY <1>3, <2>1, <2>6 DEF PreviousBit
<1> QED
  BY <1>7, <1>8

\* Entry number m of a sequence, if any.
At(order, m) == IF m \in 1 .. Len(order) THEN {order[m]} ELSE {}

\* The entries of a list are in the sequence.
LEMMA RowFits ==
  ASSUME NEW a, NEW s, NEW order, Searchable(a, s, order),
         NEW i \in 0 .. MaxPrio - 1
  PROVE  /\ s[i] \in Nat /\ s[i + 1] = s[i] + Len(Row(a, i))
         /\ Len(Row(a, i)) \in Nat /\ Len(order) \in Nat
         /\ s[i + 1] <= Len(order)
         /\ \A h \in 1 .. Len(Row(a, i)) :
              s[i] + h \in 1 .. Len(order) /\ order[s[i] + h] = Row(a, i)[h]
<1>1. PICK n \in Nat : n = MaxPrio
  BY ReschAssumption
<1>2. /\ a.queue \in [Prio -> Seq(Task)] /\ Laid(s, order, a)
  BY DEF Searchable
<1>3. /\ s[n] = Len(order) /\ order \in Seq(Task)
      /\ s[i + 1] = s[i] + Len(Row(a, i))
      /\ \A h \in 1 .. Len(Row(a, i)) : order[s[i] + h] = Row(a, i)[h]
  BY <1>1, <1>2 DEF Laid
<1>4. i \in 0 .. MaxPrio /\ i + 1 \in 0 .. MaxPrio /\ i + 1 \in i .. MaxPrio
      /\ n \in i + 1 .. MaxPrio
  BY <1>1
<1>5. s[i] \in Nat /\ s[i + 1] \in Nat /\ s[n] \in Nat /\ s[i + 1] <= s[n]
  BY <1>2, <1>4, Stacked
<1>6. Len(Row(a, i)) \in Nat
  BY <1>2, RowType
<1>7. ASSUME NEW h \in 1 .. Len(Row(a, i))
      PROVE  s[i] + h \in 1 .. Len(order)
  <2>1. PICK y, z, l, k : y = s[i] /\ z = s[i + 1] /\ l = Len(order) /\ k = Len(Row(a, i))
    OBVIOUS
  <2>2. y \in Nat /\ k \in Nat /\ l \in Nat /\ z = y + k /\ z <= l /\ h \in 1 .. k
    BY <1>3, <1>5, <1>6, <2>1
  <2>3. y + h \in 1 .. l
    BY <2>2
  <2> QED
    BY <2>1, <2>3
<1>8. Len(order) \in Nat /\ s[i + 1] <= Len(order)
  BY <1>3, <1>5
<1> QED
  BY <1>3, <1>5, <1>6, <1>7, <1>8

\* The first entry of the list of the next bit, and the last one of the list of
\* the previous bit.
LEMMA FirstAt ==
  ASSUME NEW a, NEW s, NEW order, Searchable(a, s, order),
         NEW o \in 0 .. Half - 1, o <= MaxPrio
  PROVE  FirstEntries(a, resch_fns(a.bitmap, o, RESCH_PRIO_LONG))
           = At(order, s[o] + 1)
<1>1. PICK x : x = resch_fns(a.bitmap, o, RESCH_PRIO_LONG)
  OBVIOUS
<1>2. NextBit(x, o, s, a)
  BY <1>1, NextFound
<1>3. s[MaxPrio] = Len(order) /\ order \in Seq(Task)
  BY DEF Searchable, Laid
<1>4. CASE x = -1 /\ s[MaxPrio] = s[o]
  <2>1. Len(order) \in Nat
    BY <1>3, LenProperties
  <2>2. s[o] + 1 \notin 1 .. Len(order)
    BY <1>3, <1>4, <2>1
  <2>3. FirstEntries(a, x) = {}
    BY <1>4 DEF FirstEntries
  <2> QED
    BY <1>1, <2>2, <2>3 DEF At
<1>5. CASE x \in a.bitmap /\ x >= o /\ s[x] = s[o]
  <2>1. x \in 0 .. MaxPrio - 1 /\ Row(a, x) # <<>>
    BY <1>5 DEF Searchable
  <2>2. a.queue \in [Prio -> Seq(Task)]
    BY DEF Searchable
  <2>3. Row(a, x) \in Seq(Task) /\ 1 \in 1 .. Len(Row(a, x))
    BY <2>1, <2>2, RowType
  <2>4. s[x] + 1 \in 1 .. Len(order) /\ order[s[x] + 1] = Row(a, x)[1]
    BY <2>1, <2>3, RowFits
  <2>5. Head(Row(a, x)) = Row(a, x)[1]
    BY <2>1, <2>3, HeadTailProperties
  <2>6. ~(x < 0)
    BY <2>1
  <2>7. FirstEntries(a, x) = {Head(Row(a, x))}
    BY <2>1, <2>6 DEF FirstEntries, Row
  <2> QED
    BY <1>1, <1>5, <2>4, <2>5, <2>7 DEF At
<1> QED
  BY <1>2, <1>4, <1>5 DEF NextBit

LastEntries(a, x) ==
  IF x < 0 THEN {}
  ELSE IF Row(a, x) = <<>> THEN Task ELSE {Row(a, x)[Len(Row(a, x))]}

LEMMA LastAt ==
  ASSUME INT_BITS = Half, NEW a, NEW s, NEW order, Searchable(a, s, order),
         NEW o \in -1 .. Half - 1, o < MaxPrio
  PROVE  LastEntries(a, resch_fps(a.bitmap, o, RESCH_PRIO_LONG)) = At(order, s[o + 1])
<1>0. PICK x : x = resch_fps(a.bitmap, o, RESCH_PRIO_LONG)
  OBVIOUS
<1>1. PreviousBit(x, o, s, a)
  BY <1>0, PreviousFound
<1>2. CASE x = -1 /\ s[o + 1] = 0
  <2>1. s[o + 1] \notin 1 .. Len(order)
    BY <1>2
  <2>2. x < 0
    BY <1>2
  <2> QED
    BY <1>0, <2>1, <2>2 DEF At, LastEntries
<1>3. CASE x \in a.bitmap /\ x <= o /\ s[x + 1] = s[o + 1]
  <2>1. x \in 0 .. MaxPrio - 1 /\ Row(a, x) # <<>>
    BY <1>3 DEF Searchable
  <2>2. a.queue \in [Prio -> Seq(Task)]
    BY DEF Searchable
  <2>3. Len(Row(a, x)) \in 1 .. Len(Row(a, x))
    BY <2>1, <2>2, RowType
  <2>4. /\ s[x + 1] = s[x] + Len(Row(a, x))
        /\ s[x] + Len(Row(a, x)) \in 1 .. Len(order)
        /\ order[s[x] + Len(Row(a, x))] = Row(a, x)[Len(Row(a, x))]
    BY <2>1, <2>3, RowFits
  <2>5. ~(x < 0)
    BY <2>1
  <2> QED
    BY <1>0, <1>3, <2>1, <2>4, <2>5 DEF At, LastEntries
<1> QED
  BY <1>1, <1>2, <1>3 DEF PreviousBit

\* The task after an entry of the queue, and the one before it.
LEMMA Neighbours ==
  ASSUME NEW a, NEW s, NEW order, Searchable(a, s, order),
         NEW p \in Prio, Distinct(a.queue[p]), NEW h \in 1 .. Len(a.queue[p]),
         NEW i, i = reverse_prio(p), NEW t, t = a.queue[p][h]
  PROVE  /\ i + 1 < Half => active_next_prio_task(a, t, p) = At(order, s[i] + h + 1)
         /\ INT_BITS = Half =>
              active_prev_prio_task(a, t, p) = At(order, s[i] + h - 1)
<1>1. i \in 0 .. MaxPrio - 1 /\ reverse_prio(i) = p
  BY Indices
<1>2. PICK q : q = a.queue[p]
  OBVIOUS
<1>3. Row(a, i) = q
  BY <1>1, <1>2 DEF Row
<1>4. /\ s[i] \in Nat /\ s[i + 1] = s[i] + Len(q) /\ Len(q) \in Nat
      /\ Len(order) \in Nat
      /\ \A k \in 1 .. Len(q) : s[i] + k \in 1 .. Len(order) /\ order[s[i] + k] = q[k]
  BY <1>1, <1>3, RowFits
<1>5. q \in Seq(Task) /\ a.queue \in [Prio -> Seq(Task)]
  BY <1>2 DEF Searchable
<1>6. h \in 1 .. Len(q) /\ t = q[h] /\ \A k \in 1 .. Len(q) : q[k] = t => k = h
  BY <1>2 DEF Distinct
<1>7. i \in a.bitmap /\ i \in 0 .. Half - 1
  <2>1. q # <<>>
    BY <1>4, <1>5, <1>6, EmptySeq
  <2> QED
    BY <1>1, <1>3, <2>1 DEF Searchable
<1>8. ASSUME i + 1 < Half
      PROVE  active_next_prio_task(a, t, p) = At(order, s[i] + h + 1)
  <2>1. CASE h < Len(q)
    <3>1. q[Len(q)] # t /\ h + 1 \in 1 .. Len(q) /\ h \in 1 .. Len(q) - 1
      <4>1. PICK n \in Nat : n = Len(q)
        BY <1>4
      <4>2. h \in 1 .. n /\ h < n
        BY <1>6, <2>1, <4>1
      <4>3. n \in 1 .. n /\ n # h /\ h + 1 \in 1 .. n /\ h \in 1 .. n - 1
        BY <4>2
      <4>4. q[n] # t
        BY <1>6, <4>1, <4>3
      <4> QED
        BY <4>1, <4>3, <4>4
    <3>2. {j \in 1 .. Len(q) - 1 : q[j] = t} = {h}
      <4>1. \A j \in 1 .. Len(q) - 1 : j \in 1 .. Len(q)
        BY <1>4
      <4> QED
        BY <1>6, <3>1, <4>1
    <3>3. {q[k + 1] : k \in {j \in 1 .. Len(q) - 1 : q[j] = t}} = {q[h + 1]}
      BY <3>2
    <3>4. active_next_prio_task(a, t, p) = {q[h + 1]}
      BY <1>2, <3>1, <3>3 DEF active_next_prio_task
    <3>5. /\ s[i] + (h + 1) = s[i] + h + 1
          /\ s[i] + (h + 1) \in 1 .. Len(order) /\ order[s[i] + (h + 1)] = q[h + 1]
      <4>1. PICK k, y : k = h + 1 /\ y = s[i]
        OBVIOUS
      <4>2. k \in 1 .. Len(q) /\ h \in Int /\ y \in Int
        BY <1>4, <1>6, <3>1, <4>1
      <4>3. y + k \in 1 .. Len(order) /\ order[y + k] = q[k]
        BY <1>4, <4>1, <4>2
      <4>4. y + k = y + h + 1
        BY <4>1, <4>2
      <4> QED
        BY <4>1, <4>3, <4>4
    <3> QED
      BY <3>4, <3>5 DEF At
  <2>2. CASE h = Len(q)
    <3>1. active_next_prio_task(a, t, p)
            = FirstEntries(a, resch_fns(a.bitmap, i + 1, RESCH_PRIO_LONG))
      BY <1>2, <1>6, <2>2 DEF active_next_prio_task
    <3>2. i + 1 \in 0 .. Half - 1 /\ i + 1 <= MaxPrio
      BY <1>1, <1>7, <1>8, Widths, ReschAssumption
    <3>3. active_next_prio_task(a, t, p) = At(order, s[i + 1] + 1)
      BY <3>1, <3>2, FirstAt
    <3> QED
      BY <1>4, <2>2, <3>3
  <2> QED
    BY <1>4, <1>6, <2>1, <2>2
<1>9. ASSUME INT_BITS = Half
      PROVE  active_prev_prio_task(a, t, p) = At(order, s[i] + h - 1)
  <2>1. Head(q) = q[1] /\ 1 \in 1 .. Len(q)
    <3>1. q # <<>> /\ 1 \in 1 .. Len(q)
      BY <1>4, <1>5, <1>6, EmptySeq
    <3> QED
      BY <1>5, <3>1, HeadTailProperties
  <2>2. CASE h > 1
    <3>1. Head(q) # t /\ h - 1 \in 1 .. Len(q) /\ h - 1 \in 1 .. Len(q) - 1
          /\ (h - 1) + 1 = h
      BY <1>4, <1>6, <2>1, <2>2
    <3>2. {j \in 1 .. Len(q) - 1 : q[j + 1] = t} = {h - 1}
      <4>1. \A j \in 1 .. Len(q) - 1 : j + 1 \in 1 .. Len(q) /\ (j + 1 = h <=> j = h - 1)
        BY <1>4, <1>6
      <4> QED
        BY <1>6, <3>1, <4>1
    <3>3. {q[k] : k \in {j \in 1 .. Len(q) - 1 : q[j + 1] = t}} = {q[h - 1]}
      BY <3>2
    <3>4. active_prev_prio_task(a, t, p) = {q[h - 1]}
      BY <1>2, <3>1, <3>3 DEF active_prev_prio_task
    <3>5. /\ s[i] + (h - 1) = s[i] + h - 1
          /\ s[i] + (h - 1) \in 1 .. Len(order) /\ order[s[i] + (h - 1)] = q[h - 1]
      BY <1>4, <3>1
    <3> QED
      BY <3>4, <3>5 DEF At
  <2>3. CASE h = 1
    <3>2. active_prev_prio_task(a, t, p)
            = LastEntries(a, resch_fps(a.bitmap, i - 1, RESCH_PRIO_LONG))
      BY <1>2, <1>6, <2>1, <2>3 DEF active_prev_prio_task, LastEntries, Row
    <3>3. PICK o \in -1 .. Half - 1 : o = i - 1 /\ o < MaxPrio /\ o + 1 = i
      BY <1>1, <1>7, Widths, ReschAssumption
    <3>4. active_prev_prio_task(a, t, p) = At(order, s[o + 1])
      <4>1. LastEntries(a, resch_fps(a.bitmap, o, RESCH_PRIO_LONG))
              = At(order, s[o + 1])
        BY <1>9, <3>3, LastAt
      <4> QED
        BY <3>2, <3>3, <4>1
    <3>5. s[o + 1] = s[i] + h - 1
      BY <1>4, <2>3, <3>3
    <3> QED
      BY <3>4, <3>5
  <2> QED
    BY <1>4, <1>6, <2>2, <2>3
<1> QED
  BY <1>8, <1>9

\* The walk that counts the tasks.
Walk == [counted : Seq(Task), idx : Nat]

LEMMA CountType ==
  ASSUME NEW a, a.queue \in [Prio -> Seq(Task)], a.bitmap \subseteq 0 .. MaxPrio - 1,
         NEW w \in Walk,
         NEW x, x = resch_fns(a.bitmap, w.idx, RESCH_PRIO_LONG)
  PROVE  /\ CountList(a, w) \in Walk
         /\ x = -1 => CountList(a, w) = w
         /\ x # -1 => /\ x \in a.bitmap
                      /\ CountList(a, w).counted = w.counted \o Row(a, x)
                      /\ CountList(a, w).idx = x + 1
<1>1. x = -1 \/ x \in a.bitmap
  <2>1. a.bitmap \in SUBSET Nat
    OBVIOUS
  <2> QED
    BY <2>1, SearchFinds
<1>2. w.counted \in Seq(Task) /\ w.idx \in Nat
  BY DEF Walk
<1>3. CASE x = -1
  <2>1. CountList(a, w) = w
    BY <1>3 DEF CountList
  <2> QED
    BY <1>3, <2>1
<1>4. CASE x # -1 /\ x \in a.bitmap
  <2>1. x \in 0 .. MaxPrio - 1 /\ ~(x < 0) /\ x + 1 \in Nat
    BY <1>4
  <2>2. Row(a, x) \in Seq(Task)
    BY <2>1, RowType
  <2>3. CountList(a, w) = [counted |-> w.counted \o Row(a, x), idx |-> x + 1]
    BY <2>1 DEF CountList, Row
  <2>4. w.counted \o Row(a, x) \in Seq(Task)
    BY <1>2, <2>2, ConcatProperties
  <2> QED
    BY <1>4, <2>1, <2>3, <2>4 DEF Walk
<1> QED
  BY <1>1, <1>3, <1>4

\* What the walk goes through.
Walks(w, n, a) ==
  /\ w \in [0 .. n -> Walk]
  /\ w[0] = [counted |-> <<>>, idx |-> 0]
  /\ \A k \in 1 .. n : w[k] = CountList(a, w[k - 1])

LEMMA CountSteps ==
  ASSUME NEW a, a.queue \in [Prio -> Seq(Task)], a.bitmap \subseteq 0 .. MaxPrio - 1,
         NEW n \in Nat
  PROVE  \E w : Walks(w, n, a) /\ Counted(a, n) = w[n].counted
<1> DEFINE step == [k \in 1 .. n |-> [y \in Walk |-> CountList(a, y)]]
           first == [counted |-> <<>>, idx |-> 0]
           Eq(u) == u = [k \in 0 .. n |->
                           IF k = 0 THEN [counted |-> <<>>, idx |-> 0]
                           ELSE CountList(a, u[k - 1])]
<1>0. first \in Walk /\ \A y \in Walk : CountList(a, y) \in Walk
  BY CountType, EmptySeq DEF Walk
<1>1. PICK g \in [0 .. n -> Walk] :
        g[0] = first /\ \A k \in 1 .. n : g[k] = step[k][g[k - 1]]
  <2>1. PICK st, X, x : st = step /\ X = Walk /\ x = first
    OBVIOUS
  <2>2. x \in X
    BY <1>0, <2>1
  <2>3. StepsOn(st, n, X)
    BY <1>0, <2>1 DEF StepsOn
  <2> HIDE DEF step, first
  <2>4. PICK g : IteratesTo(g, st, n, X, x)
    BY <2>2, <2>3, Iterated
  <2> QED
    BY <2>1, <2>4 DEF IteratesTo
<1>2. \A k \in 1 .. n : k - 1 \in 0 .. n /\ g[k] = CountList(a, g[k - 1])
  <2> SUFFICES ASSUME NEW k \in 1 .. n
               PROVE  k - 1 \in 0 .. n /\ g[k] = CountList(a, g[k - 1])
    OBVIOUS
  <2>1. k - 1 \in 0 .. n /\ g[k - 1] \in Walk
    OBVIOUS
  <2>2. step[k][g[k - 1]] = CountList(a, g[k - 1])
    BY <2>1
  <2> QED
    BY <1>1, <2>1, <2>2
<1>3. Eq(g)
  <2> HIDE DEF step
  <2>1. \A k \in 0 .. n : k = 0 \/ k \in 1 .. n
    OBVIOUS
  <2>2. \A k \in 0 .. n :
          g[k] = IF k = 0 THEN [counted |-> <<>>, idx |-> 0] ELSE CountList(a, g[k - 1])
    BY <1>1, <1>2, <2>1
  <2>3. g = [k \in 0 .. n |-> g[k]]
    BY <1>1
  <2> QED
    BY <2>2, <2>3
<1>4. PICK u : u = CHOOSE h : Eq(h)
  OBVIOUS
<1>5. Eq(u)
  BY <1>3, <1>4
<1>6. Counted(a, n) = u[n].counted
  BY <1>4 DEF Counted
<1>7. u[0] = first /\ \A k \in 1 .. n : u[k] = CountList(a, u[k - 1])
  <2>1. 0 \in 0 .. n /\ \A k \in 1 .. n : k \in 0 .. n /\ k # 0
    OBVIOUS
  <2> QED
    BY <1>5, <2>1, Zenon
<1>8. ASSUME NEW k \in 0 .. n
      PROVE  u[k] = g[k]
  <2> HIDE DEF step, Eq, first
  <2> DEFINE S == {i \in 0 .. n : u[i] = g[i]}
  <2>1. 0 \in S
    <3>1. u[0] = g[0]
      BY <1>1, <1>7, Zenon
    <3>2. 0 \in 0 .. n
      OBVIOUS
    <3> QED
      BY <3>1, <3>2
  <2>2. ASSUME NEW i \in 1 .. n, i - 1 \in S
        PROVE  i \in S
    <3>1. /\ u[i] = CountList(a, u[i - 1])
          /\ g[i] = CountList(a, g[i - 1])
          /\ u[i - 1] = g[i - 1]
      BY <1>2, <1>7, <2>2
    <3>2. u[i] = g[i]
      BY <3>1
    <3> QED
      BY <3>2
  <2> HIDE DEF S
  <2>3. 0 .. n \subseteq S
    BY <2>1, <2>2, UpTo
  <2> QED
    BY <2>3 DEF S
<1>9. u = g
  BY <1>1, <1>5, <1>8
<1> QED
  BY <1>1, <1>6, <1>7, <1>9 DEF Walks

\* After k lists the walk has all tasks, or the first ones up to the list whose
\* bit it searches next, k of them at least.
Counts(w, k, s, order) ==
  \/ Begins(order, w.counted)
  \/ /\ w.idx \in 0 .. Half - 1 /\ w.idx <= MaxPrio
     /\ Len(w.counted) = s[w.idx] /\ Len(w.counted) >= k
     /\ Begins(w.counted, order)

\* A list is put behind the tasks that have been counted.
LEMMA JoinedBehind ==
  ASSUME NEW S, NEW x \in Seq(S), NEW y \in Seq(S)
  PROVE  /\ Len(x \o y) = Len(x) + Len(y) /\ Len(x) \in Nat /\ Len(y) \in Nat
         /\ Begins(x, x \o y)
         /\ \A h \in 1 .. Len(y) : (x \o y)[Len(x) + h] = y[h]
         /\ \A i \in 1 .. Len(x) + Len(y) : i <= Len(x) \/
              \E h \in 1 .. Len(y) : i = Len(x) + h
<1>1. PICK z : z = x \o y
  OBVIOUS
<1>2. /\ Len(x) \in Nat /\ Len(y) \in Nat /\ Len(z) = Len(x) + Len(y)
      /\ \A i \in 1 .. Len(x) + Len(y) :
           z[i] = IF i <= Len(x) THEN x[i] ELSE y[i - Len(x)]
  BY <1>1, LenProperties, ConcatProperties
<1>3. Begins(x, z)
  BY <1>2 DEF Begins
<1>4. \A h \in 1 .. Len(y) : z[Len(x) + h] = y[h]
  BY <1>2
<1>5. ASSUME NEW i \in 1 .. Len(x) + Len(y), ~(i <= Len(x))
      PROVE  \E h \in 1 .. Len(y) : i = Len(x) + h
  <2>1. PICK h : h = i - Len(x)
    OBVIOUS
  <2>2. h \in 1 .. Len(y) /\ i = Len(x) + h
    BY <1>2, <1>5, <2>1
  <2> QED
    BY <2>2
<1> QED
  BY <1>1, <1>2, <1>3, <1>4, <1>5

LEMMA CountStep ==
  ASSUME NEW a, NEW s, NEW order, Searchable(a, s, order), NEW w \in Walk,
         NEW k \in Nat, Counts(w, k, s, order)
  PROVE  Counts(CountList(a, w), k + 1, s, order)
<1>0. /\ a.queue \in [Prio -> Seq(Task)] /\ a.bitmap \subseteq 0 .. MaxPrio - 1
      /\ a.bitmap \subseteq 0 .. Half - 1 /\ Laid(s, order, a)
      /\ \A i \in 0 .. MaxPrio - 1 : i \notin a.bitmap => Row(a, i) = <<>>
      /\ order \in Seq(Task) /\ s[MaxPrio] = Len(order)
  BY DEF Searchable, Laid
<1>1. PICK x : x = resch_fns(a.bitmap, w.idx, RESCH_PRIO_LONG)
  OBVIOUS
<1>2. PICK v : v = CountList(a, w)
  OBVIOUS
<1>3. PICK y : y = w.counted
  OBVIOUS
<1>4. /\ v \in Walk
      /\ x = -1 => v = w
      /\ x # -1 => /\ x \in a.bitmap
                   /\ v.counted = y \o Row(a, x)
                   /\ v.idx = x + 1
  BY <1>0, <1>1, <1>2, <1>3, CountType
<1>5. y \in Seq(Task) /\ Len(y) \in Nat /\ Len(order) \in Nat
  BY <1>0, <1>3, LenProperties DEF Walk
<1>6. ASSUME x # -1
      PROVE  /\ x \in 0 .. MaxPrio - 1 /\ x \in 0 .. Half - 1
             /\ Row(a, x) \in Seq(Task) /\ Len(Row(a, x)) >= 1
             /\ Len(v.counted) = Len(y) + Len(Row(a, x)) /\ Len(Row(a, x)) \in Nat
             /\ Begins(y, v.counted)
             /\ \A h \in 1 .. Len(Row(a, x)) : v.counted[Len(y) + h] = Row(a, x)[h]
             /\ \A i \in 1 .. Len(y) + Len(Row(a, x)) : i <= Len(y) \/
                  \E h \in 1 .. Len(Row(a, x)) : i = Len(y) + h
  <2>1. x \in 0 .. MaxPrio - 1 /\ x \in 0 .. Half - 1 /\ Row(a, x) # <<>>
    BY <1>0, <1>4, <1>6 DEF Searchable
  <2>2. Row(a, x) \in Seq(Task) /\ Len(Row(a, x)) >= 1
    BY <1>0, <2>1, RowType
  <2>3. PICK z : z = Row(a, x)
    OBVIOUS
  <2>4. v.counted = y \o z /\ z \in Seq(Task)
    BY <1>4, <1>6, <2>2, <2>3
  <2>5. /\ Len(y \o z) = Len(y) + Len(z) /\ Len(z) \in Nat
        /\ Begins(y, y \o z)
        /\ \A h \in 1 .. Len(z) : (y \o z)[Len(y) + h] = z[h]
        /\ \A i \in 1 .. Len(y) + Len(z) : i <= Len(y) \/
             \E h \in 1 .. Len(z) : i = Len(y) + h
    BY <1>5, <2>4, JoinedBehind
  <2> QED
    BY <2>1, <2>2, <2>3, <2>4, <2>5
<1>7. CASE Begins(order, y)
  <2>1. Begins(order, v.counted)
    <3>1. CASE x = -1
      BY <1>3, <1>4, <1>7, <3>1
    <3>2. CASE x # -1
      <4>1. PICK z : z = v.counted
        OBVIOUS
      <4>2. Begins(y, z) /\ Len(z) \in Nat
        BY <1>5, <1>6, <3>2, <4>1
      <4>3. Begins(order, z)
        BY <1>5, <1>7, <4>2 DEF Begins
      <4> QED
        BY <4>1, <4>3
    <3> QED
      BY <3>1, <3>2
  <2> QED
    BY <1>2, <2>1 DEF Counts
<1>8. CASE /\ w.idx \in 0 .. Half - 1 /\ w.idx <= MaxPrio
           /\ Len(y) = s[w.idx] /\ Len(y) >= k
           /\ Begins(y, order)
  <2>1. NextBit(x, w.idx, s, a)
    <3>1. PICK o \in 0 .. Half - 1 : o = w.idx /\ o <= MaxPrio
      BY <1>8
    <3>2. NextBit(resch_fns(a.bitmap, o, RESCH_PRIO_LONG), o, s, a)
      BY <3>1, NextFound
    <3> QED
      BY <1>1, <3>1, <3>2
  <2>2. CASE x = -1
    <3>1. s[MaxPrio] = s[w.idx]
      BY <1>0, <2>1, <2>2 DEF NextBit
    <3>2. Len(y) = Len(order)
      BY <1>0, <1>8, <3>1
    <3>3. Begins(order, y)
      BY <1>5, <1>8, <3>2 DEF Begins
    <3> QED
      BY <1>2, <1>3, <1>4, <2>2, <3>3 DEF Counts
  <2>3. CASE x # -1
    <3>1. s[x] = s[w.idx]
      BY <2>1, <2>3 DEF NextBit
    <3>2. /\ x \in 0 .. MaxPrio - 1 /\ x \in 0 .. Half - 1 /\ v.idx = x + 1
          /\ s[x + 1] = s[x] + Len(Row(a, x)) /\ s[x + 1] <= Len(order)
          /\ \A h \in 1 .. Len(Row(a, x)) : order[s[x] + h] = Row(a, x)[h]
      <4>1. x \in 0 .. MaxPrio - 1 /\ x \in 0 .. Half - 1 /\ v.idx = x + 1
        BY <1>4, <1>6, <2>3
      <4>2. /\ s[x + 1] = s[x] + Len(Row(a, x)) /\ s[x + 1] <= Len(order)
            /\ \A h \in 1 .. Len(Row(a, x)) : order[s[x] + h] = Row(a, x)[h]
        BY <4>1, RowFits
      <4> QED
        BY <4>1, <4>2
    <3>3. PICK z, r : z = v.counted /\ r = Row(a, x)
      OBVIOUS
    <3>4. /\ Len(z) = Len(y) + Len(r) /\ Len(r) \in Nat /\ Len(r) >= 1
          /\ Begins(y, z)
          /\ \A h \in 1 .. Len(r) : z[Len(y) + h] = r[h]
          /\ \A i \in 1 .. Len(y) + Len(r) : i <= Len(y) \/
               \E h \in 1 .. Len(r) : i = Len(y) + h
      BY <1>6, <2>3, <3>3
    <3>5. Len(y) = s[x] /\ Len(z) = s[x + 1] /\ Len(z) >= k + 1 /\ Len(z) <= Len(order)
      BY <1>5, <1>8, <3>1, <3>2, <3>3, <3>4
    <3>6. Begins(z, order)
      <4>1. ASSUME NEW i \in 1 .. Len(z)
            PROVE  order[i] = z[i]
        <5>1. CASE i <= Len(y)
          <6>1. i \in 1 .. Len(y)
            BY <1>5, <3>4, <5>1
          <6> QED
            BY <1>8, <3>4, <6>1 DEF Begins
        <5>2. CASE \E h \in 1 .. Len(r) : i = Len(y) + h
          BY <3>2, <3>3, <3>4, <3>5, <5>2
        <5> QED
          BY <3>4, <5>1, <5>2
      <4> QED
        BY <3>5, <4>1 DEF Begins
    <3>7. CASE x + 1 < Half
      <4>1. v.idx \in 0 .. Half - 1 /\ v.idx <= MaxPrio
        BY <3>2, <3>7, ReschAssumption, Widths
      <4> QED
        BY <1>2, <3>2, <3>3, <3>5, <3>6, <4>1 DEF Counts
    <3>8. CASE x + 1 = Half
      <4>1. \A i \in x + 1 .. MaxPrio - 1 : i \in 0 .. MaxPrio - 1 /\ i \notin 0 .. Half - 1
        BY <3>2, <3>8, ReschAssumption, Widths
      <4>2. \A i \in x + 1 .. MaxPrio - 1 : Row(a, i) = <<>>
        BY <1>0, <4>1
      <4>3. x + 1 \in 0 .. MaxPrio /\ MaxPrio \in x + 1 .. MaxPrio
        BY <3>2, ReschAssumption
      <4>4. s[MaxPrio] = s[x + 1]
        BY <1>0, <4>2, <4>3, Stacked
      <4>5. Len(z) = Len(order)
        BY <1>0, <3>5, <4>4
      <4>6. Begins(order, z)
        BY <1>5, <3>6, <4>5 DEF Begins
      <4> QED
        BY <1>2, <3>3, <4>6 DEF Counts
    <3> QED
      BY <3>2, <3>7, <3>8, Widths
  <2> QED
    BY <2>2, <2>3
<1> QED
  BY <1>3, <1>7, <1>8 DEF Counts

\* The n-th task of the walk is that of the queue.
LEMMA NumberIs ==
  ASSUME NEW a, NEW s, NEW order, Searchable(a, s, order),
         NEW n \in 1 .. Len(order)
  PROVE  active_number_task(a, n) = At(order, n)
<1>0. /\ a.queue \in [Prio -> Seq(Task)] /\ a.bitmap \subseteq 0 .. MaxPrio - 1
      /\ order \in Seq(Task) /\ s[0] = 0
  BY DEF Searchable, Laid
<1>1. Len(order) \in Nat /\ n \in Nat /\ n >= 1
  BY <1>0, LenProperties
<1>2. PICK w : Walks(w, n, a) /\ Counted(a, n) = w[n].counted
  BY <1>0, <1>1, CountSteps
<1>3. /\ w \in [0 .. n -> Walk]
      /\ w[0] = [counted |-> <<>>, idx |-> 0]
      /\ \A k \in 1 .. n : w[k] = CountList(a, w[k - 1])
  BY <1>2 DEF Walks
<1> DEFINE S == {k \in 0 .. n : Counts(w[k], k, s, order)}
<1>4. 0 \in S
  <2>1. w[0].counted = <<>> /\ w[0].idx = 0 /\ Len(<<>>) = 0
    BY <1>3
  <2>2. 0 \in 0 .. Half - 1 /\ 0 <= MaxPrio
    BY Widths, ReschAssumption
  <2>3. Begins(<<>>, order)
    BY <1>1 DEF Begins
  <2>4. Counts(w[0], 0, s, order)
    BY <1>0, <2>1, <2>2, <2>3 DEF Counts
  <2> QED
    BY <1>1, <2>4
<1>5. ASSUME NEW k \in 1 .. n, k - 1 \in S
      PROVE  k \in S
  <2>1. PICK m \in Nat : m = k - 1 /\ m + 1 = k
    BY <1>1
  <2>2. m \in 0 .. n /\ Counts(w[m], m, s, order) /\ w[k] = CountList(a, w[m])
    BY <1>3, <1>5, <2>1
  <2>3. w[m] \in Walk
    BY <1>3, <2>2
  <2>4. Counts(CountList(a, w[m]), m + 1, s, order)
    BY <2>2, <2>3, CountStep
  <2> QED
    BY <2>1, <2>2, <2>4
<1> HIDE DEF S
<1>6. n \in S
  <2>1. 0 .. n \subseteq S
    BY <1>1, <1>4, <1>5, UpTo
  <2> QED
    BY <1>1, <2>1
<1>7. PICK y : y = Counted(a, n)
  OBVIOUS
<1>8. y \in Seq(Task) /\ Len(y) \in Nat
  <2>1. w[n] \in Walk
    BY <1>1, <1>3
  <2> QED
    BY <1>2, <1>7, <2>1, LenProperties DEF Walk
<1>9. Begins(order, y) \/ (Len(y) >= n /\ Begins(y, order))
  BY <1>2, <1>6, <1>7 DEF S, Counts
<1>10. Len(y) >= n /\ y[n] = order[n]
  <2>1. CASE Begins(order, y)
    BY <1>1, <1>8, <2>1 DEF Begins
  <2>2. CASE Len(y) >= n /\ Begins(y, order)
    BY <1>1, <1>8, <2>2 DEF Begins
  <2> QED
    BY <1>9, <2>1, <2>2
<1> QED
  BY <1>7, <1>10 DEF active_number_task, At

\* What orders the priorities of the entries by their lists.
InLists(a, pr) ==
  \A p \in Prio : \A h \in 1 .. Len(a.queue[p]) : pr[a.queue[p][h]] = p

\* The first entry from a priority on.
LEMMA PrioIs ==
  ASSUME NEW a, NEW s, NEW order, Searchable(a, s, order),
         NEW pr, InLists(a, pr), NEW p \in Prio, reverse_prio(p) < Half
  PROVE  active_prio_task(a, p)
           = At(order, FirstBit({m \in 1 .. Len(order) : pr[order[m]] <= p}))
<1>0. /\ a.queue \in [Prio -> Seq(Task)] /\ Laid(s, order, a)
      /\ order \in Seq(Task) /\ s \in [0 .. MaxPrio -> Nat]
  BY DEF Searchable, Laid
<1>1. PICK o : o = reverse_prio(p)
  OBVIOUS
<1>2. o \in 0 .. MaxPrio - 1 /\ o \in 0 .. Half - 1 /\ o <= MaxPrio /\ o \in 0 .. MaxPrio
  <2>1. o \in 0 .. MaxPrio - 1 /\ o < Half
    BY <1>1, Indices
  <2> QED
    BY <2>1, Widths, ReschAssumption
<1>3. s[o] \in Nat /\ Len(order) \in Nat
  BY <1>0, <1>2, LenProperties
<1>4. active_prio_task(a, p) = At(order, s[o] + 1)
  BY <1>1, <1>2, FirstAt DEF active_prio_task
<1>5. ASSUME NEW m \in 1 .. Len(order)
      PROVE  pr[order[m]] <= p <=> m > s[o]
  <2>0. a.queue \in [Prio -> Seq(Task)] /\ Laid(s, order, a)
    BY <1>0
  <2>1. PICK i \in 0 .. MaxPrio - 1 : \E h \in 1 .. Len(Row(a, i)) : m = s[i] + h
    BY <2>0, Places
  <2>2. PICK h \in 1 .. Len(Row(a, i)) : m = s[i] + h
    BY <2>1
  <2>3. /\ order[m] = Row(a, i)[h] /\ s[i] \in Nat /\ Len(Row(a, i)) \in Nat
        /\ s[i + 1] = s[i] + Len(Row(a, i))
    BY <2>2, RowFits
  <2>4. PICK q \in Prio : q = reverse_prio(i) /\ reverse_prio(q) = i
    BY RowPrio
  <2>5. pr[order[m]] = q
    BY <2>2, <2>3, <2>4 DEF InLists, Row
  <2>6. q <= p <=> o <= i
    BY <1>1, <2>4, Indices
  <2>7. CASE o <= i
    <3>1. o \in 0 .. MaxPrio /\ i \in o .. MaxPrio
      BY <1>2, <2>7, ReschAssumption
    <3>2. s[o] <= s[i]
      BY <1>0, <3>1, Stacked
    <3>3. m > s[o]
      BY <1>3, <2>2, <2>3, <3>2
    <3> QED
      BY <2>5, <2>6, <2>7, <3>3
  <2>8. CASE ~(o <= i)
    <3>1. i + 1 \in 0 .. MaxPrio /\ o \in i + 1 .. MaxPrio
      BY <1>2, <2>8, ReschAssumption
    <3>2. s[i + 1] <= s[o]
      BY <1>0, <3>1, Stacked
    <3>3. ~(m > s[o])
      BY <1>3, <2>2, <2>3, <3>2
    <3> QED
      BY <2>5, <2>6, <2>8, <3>3
  <2> QED
    BY <2>7, <2>8
<1>6. PICK c : c = {m \in 1 .. Len(order) : pr[order[m]] <= p}
  OBVIOUS
<1>7. c = {m \in 1 .. Len(order) : m > s[o]} /\ c \in SUBSET Nat
  BY <1>3, <1>5, <1>6
<1>8. PICK f : f = FirstBit(c)
  OBVIOUS
<1>9. IF c = {} THEN f = -1 ELSE f \in c /\ \A m \in c : f <= m
  BY <1>7, <1>8, FirstBitIs
<1>10. At(order, f) = At(order, s[o] + 1)
  <2>1. CASE c = {}
    <3>1. s[o] + 1 \notin 1 .. Len(order)
      BY <1>3, <1>7, <2>1
    <3>2. f \notin 1 .. Len(order)
      BY <1>9, <2>1
    <3> QED
      BY <3>1, <3>2 DEF At
  <2>2. CASE c # {}
    <3>1. f \in 1 .. Len(order) /\ f > s[o]
      BY <1>7, <1>9, <2>2
    <3>2. s[o] + 1 \in c
      BY <1>3, <1>7, <3>1
    <3>3. f = s[o] + 1
      BY <1>3, <1>9, <2>2, <3>1, <3>2
    <3> QED
      BY <3>3
  <2> QED
    BY <2>1, <2>2
<1> QED
  BY <1>4, <1>6, <1>8, <1>10

\* What the searches through a queue find; SearchesExact says this of the active
\* queue.
Found(a, order, pr) ==
  /\ \A m \in 1 .. Len(order) :
       /\ reverse_prio(pr[order[m]]) + 1 < Half =>
            active_next_prio_task(a, order[m], pr[order[m]]) = At(order, m + 1)
       /\ active_prev_prio_task(a, order[m], pr[order[m]]) = At(order, m - 1)
       /\ active_number_task(a, m) = At(order, m)
  /\ \A p \in Prio :
       reverse_prio(p) < Half =>
         active_prio_task(a, p)
           = At(order, FirstBit({m \in 1 .. Len(order) : pr[order[m]] <= p}))

LEMMA AllFound ==
  ASSUME INT_BITS = Half, NEW a, NEW s, NEW order, Searchable(a, s, order),
         NEW pr, InLists(a, pr), \A p \in Prio : Distinct(a.queue[p])
  PROVE  Found(a, order, pr)
<1>1. ASSUME NEW m \in 1 .. Len(order)
      PROVE  /\ reverse_prio(pr[order[m]]) + 1 < Half =>
                  active_next_prio_task(a, order[m], pr[order[m]]) = At(order, m + 1)
             /\ active_prev_prio_task(a, order[m], pr[order[m]]) = At(order, m - 1)
  <2>0. a.queue \in [Prio -> Seq(Task)] /\ Laid(s, order, a)
    BY DEF Searchable
  <2>1. PICK i \in 0 .. MaxPrio - 1 : \E h \in 1 .. Len(Row(a, i)) : m = s[i] + h
    BY <2>0, Places
  <2>2. PICK h \in 1 .. Len(Row(a, i)) : m = s[i] + h
    BY <2>1
  <2>3. order[m] = Row(a, i)[h] /\ s[i] \in Nat /\ Len(Row(a, i)) \in Nat
    BY <2>2, RowFits
  <2>4. PICK p \in Prio : p = reverse_prio(i) /\ reverse_prio(p) = i
    BY RowPrio
  <2>5. PICK t : t = order[m]
    OBVIOUS
  <2>6. h \in 1 .. Len(a.queue[p]) /\ t = a.queue[p][h] /\ pr[t] = p
    BY <2>2, <2>3, <2>4, <2>5 DEF InLists, Row
  <2>7. /\ i + 1 < Half => active_next_prio_task(a, t, p) = At(order, s[i] + h + 1)
        /\ active_prev_prio_task(a, t, p) = At(order, s[i] + h - 1)
    BY <2>4, <2>6, Neighbours
  <2>8. s[i] + h = m /\ pr[order[m]] = p /\ order[m] = t /\ reverse_prio(p) = i
    BY <2>2, <2>4, <2>5, <2>6
  <2>9. /\ i + 1 < Half => active_next_prio_task(a, t, p) = At(order, m + 1)
        /\ active_prev_prio_task(a, t, p) = At(order, m - 1)
    <3>1. PICK y : y = s[i]
      OBVIOUS
    <3>2. y \in Int /\ h \in Int /\ m = y + h
      BY <2>2, <2>3, <3>1
    <3>3. y + h + 1 = m + 1 /\ y + h - 1 = m - 1
      BY <3>2
    <3> QED
      BY <2>7, <3>1, <3>3
  <2>10. reverse_prio(pr[order[m]]) + 1 = i + 1
    BY <2>8
  <2> QED
    BY <2>8, <2>9, <2>10
<1>2. \A m \in 1 .. Len(order) : active_number_task(a, m) = At(order, m)
  BY NumberIs
<1>3. \A p \in Prio :
        reverse_prio(p) < Half =>
          active_prio_task(a, p)
            = At(order, FirstBit({m \in 1 .. Len(order) : pr[order[m]] <= p}))
  BY PrioIs
<1> QED
  BY <1>1, <1>2, <1>3 DEF Found

\* The active queue can be searched when its tasks have priorities in the lower
\* half of the first word and no bit is stale.
LEMMA ActiveSearchable ==
  ASSUME QueueInv, BitsOf(active), NEW order, order = InOrder(active),
         \A t \in Elements(order) : reverse_prio(prio[t]) < Half
  PROVE  (\E s : Searchable(active, s, order)) /\ InLists(active, prio)
<1>1. /\ active.queue \in [Prio -> Seq(Task)] /\ active.bitmap \subseteq 0 .. MaxPrio - 1
      /\ Holds(active, Jobs, prio)
  BY Types DEF QueueInv, Queued, Queue
<1>2. PICK s : Laid(s, order, active)
  BY <1>1, LaidOut
<1>3. \A i \in 0 .. MaxPrio - 1 : i \in active.bitmap <=> Row(active, i) # <<>>
  <2> SUFFICES ASSUME NEW i \in 0 .. MaxPrio - 1
               PROVE  i \in active.bitmap <=> Row(active, i) # <<>>
    OBVIOUS
  <2>1. PICK p \in Prio : p = reverse_prio(i) /\ reverse_prio(p) = i
    BY RowPrio
  <2>2. \A q \in Prio : reverse_prio(q) = i => q = p
    BY <2>1, Indices
  <2> QED
    BY <2>1, <2>2 DEF BitsOf, Row
<1>4. InLists(active, prio)
  <2> SUFFICES ASSUME NEW p \in Prio, NEW h \in 1 .. Len(active.queue[p])
               PROVE  prio[active.queue[p][h]] = p
    BY DEF InLists
  <2>1. Elements(active.queue[p]) = {t \in Jobs : prio[t] = p}
    BY <1>1 DEF Holds
  <2>2. active.queue[p][h] \in Elements(active.queue[p])
    BY DEF Elements
  <2> QED
    BY <2>1, <2>2
<1>5. active.bitmap \subseteq 0 .. Half - 1
  <2> SUFFICES ASSUME NEW i \in active.bitmap
               PROVE  i \in 0 .. Half - 1
    OBVIOUS
  <2>1. i \in 0 .. MaxPrio - 1 /\ Row(active, i) # <<>>
    BY <1>1, <1>3
  <2>2. PICK p \in Prio : p = reverse_prio(i) /\ reverse_prio(p) = i
    BY <2>1, RowPrio
  <2>3. 1 \in 1 .. Len(Row(active, i))
    BY <1>1, <2>1, RowType
  <2>4. PICK s0, r, n : s0 = s[i] /\ r = Row(active, i) /\ n = Len(order)
    OBVIOUS
  <2>5. order[s0 + 1] = r[1]
    BY <1>2, <2>1, <2>3, <2>4 DEF Laid
  <2>6. s0 + 1 \in 1 .. n
    <3>1. i \in 0 .. MaxPrio /\ i + 1 \in 0 .. MaxPrio /\ MaxPrio \in i + 1 .. MaxPrio
      BY <2>1, ReschAssumption
    <3>2. s[i] \in Nat /\ s[i + 1] \in Nat /\ s[MaxPrio] \in Nat /\ s[i + 1] <= s[MaxPrio]
      BY <1>1, <1>2, <3>1, Stacked
    <3>3. s[MaxPrio] = n /\ s[i + 1] = s0 + Len(r)
      BY <1>2, <2>1, <2>4 DEF Laid
    <3>4. Len(r) \in Nat /\ Len(r) >= 1
      BY <1>1, <2>1, <2>4, RowType
    <3> QED
      BY <2>4, <3>2, <3>3, <3>4
  <2>7. order[s0 + 1] \in Elements(order)
    BY <2>4, <2>6 DEF Elements
  <2>8. prio[r[1]] = p
    BY <1>4, <2>2, <2>3, <2>4 DEF InLists, Row
  <2>9. reverse_prio(p) < Half
    BY <2>5, <2>7, <2>8
  <2> QED
    BY <2>1, <2>2, <2>9, Widths
<1>6. Searchable(active, s, order)
  BY <1>1, <1>2, <1>3, <1>5 DEF Searchable
<1> QED
  BY <1>4, <1>6

\* With words of 64 bits: as long as the tasks of the queue have priorities in
\* the lower half of the first word of the bitmap and set them before their jobs
\* only, what active_next_prio_task, active_prev_prio_task, active_number_task and
\* active_prio_task find is what the lists, put one after the other, have there:
\* no task is passed over or found twice, and no empty list is dereferenced.
THEOREM SearchesFollowOrder ==
  ASSUME INT_BITS = Half
  PROVE  Spec => []SearchesExact
<1>1. Init => QueueInv
  BY QueueInit
<1>2. QueueInv /\ [Next]_vars => QueueInv'
  BY QueueStep
<1>3. QueueInv => SearchesExact
  <2> SUFFICES ASSUME QueueInv, AllUse(Uses \ {"prio_in_job"}),
                      \A t \in Elements(InOrder(active)) : reverse_prio(prio[t]) < Half
               PROVE  Found(active, InOrder(active), prio)
    BY DEF SearchesExact, Found, At
  <2>1. PICK order : order = InOrder(active)
    OBVIOUS
  <2>2. BitsOf(active) /\ Holds(active, Jobs, prio)
    BY DEF QueueInv, BitsExact, Queued
  <2>3. (\E s : Searchable(active, s, order)) /\ InLists(active, prio)
    BY <2>1, <2>2, ActiveSearchable
  <2>4. PICK a, pr : a = active /\ pr = prio
    OBVIOUS
  <2>5. PICK s : Searchable(a, s, order)
    BY <2>3, <2>4
  <2>6. InLists(a, pr) /\ \A p \in Prio : Distinct(a.queue[p])
    BY <2>2, <2>3, <2>4 DEF Holds
  <2>7. Found(a, order, pr)
    BY <2>5, <2>6, AllFound
  <2> QED
    BY <2>1, <2>4, <2>7
<1> QED
  BY <1>1, <1>2, <1>3, PTL DEF Spec
=============================================================================
