---------------------------- MODULE CoresProofs ----------------------------
(***************************************************************************)
(* Proofs about the tasks on the cores: for any number of tasks and cores  *)
(* the types are right, a request for another priority is in one place     *)
(* until the thread is through with it (RequestExact), whether or not the  *)
(* kernel preempts, and as long as it wakes a task on the core where it    *)
(* fell asleep, the active queues hold the tasks with a released job, each *)
(* once and on its core (QueueOfCpu).                                      *)
(*                                                                         *)
(* The second half is about the admission of the tasks that run there: the *)
(* analyses of the response time (AnalysisSound, AnalysesAgree) and the    *)
(* cost of a context switch (CostIsLongest), for any number of tasks and   *)
(* all times that they pass.                                               *)
(***************************************************************************)
EXTENDS Cores, Admission, Facts

----------------------------------------------------------------------------
(* The inductive invariant.                                                *)

Types ==
  /\ TypeOK
  /\ global \in Seq(Task)
  /\ {active, list} \subseteq [Cpu -> Seq(Task)]

\* The global list has the tasks from api_run to api_exit; a request can be
\* made before and in between.
Submitted ==
  \A t \in Task :
    /\ task_is_submitted(t) => pc[t] \notin {"none", "init"}
    /\ pc[t] \notin {"none", "init"} \cup InRequest => task_is_submitted(t)

\* The request of t is in the list of the thread of core c, or served by it.
Listed(t, c) == t \in Elements(list[c])
Pending(t, c) == Listed(t, c) \/ req[c] = t

\* A request with a thread belongs to a task that has not slept yet or sleeps.
InCall(t) == pc[t] = "requested" \/ (pc[t] = "changing" /\ t \notin awake)

Requests ==
  /\ \A c \in Cpu : /\ kpc[c] \in {"check", "asleep"} <=> req[c] = None
                    /\ Distinct(list[c])
  /\ \A t \in Task, c \in Cpu :
       Pending(t, c) =>
         /\ InCall(t)
         /\ \A d \in Cpu : Pending(t, d) => d = c
         /\ ~(Listed(t, c) /\ req[c] = t)
  /\ \A t \in Task :
       pc[t] \in InRequest =>
         \/ prio[t] = want[t]
         \/ \E c \in Cpu : Listed(t, c) \/ (req[c] = t /\ kpc[c] = "change")

\* The handler of a release runs where its task sleeps.
Handlers ==
  \A c \in Cpu : \A t \in Task :
    interrupt[c] = t => pc[t] = "waiting" /\ t \in awake /\ cpu[t] = c

Queued ==
  /\ \A c \in Cpu : Distinct(active[c])
  /\ \A t \in Task, c \in Cpu :
       t \in Elements(active[c]) <=> Released(t) /\ c = cpu_id[t]

\* From its start to its end a job cannot leave the core of its queue.
Pinned ==
  \A t \in Task :
    /\ pc[t] = "start_locked" => allowed[t] = {cpu[t]}
    /\ (\/ pc[t] \in {"job", "migrate_locked"}
        \/ pc[t] \in InRequest /\ task_is_submitted(t))
         => cpu[t] = cpu_id[t] /\ allowed[t] = {cpu[t]}

----------------------------------------------------------------------------
(* The lists of the cores.                                                 *)

\* The elements of a list of tasks are tasks.
LEMMA ElementsOfSeq ==
  ASSUME NEW S, NEW seq \in Seq(S)
  PROVE  Elements(seq) \subseteq S
BY ElementOfSeq DEF Elements

\* A task is appended to the queue of core c.
LEMMA EnqueuedQueue ==
  ASSUME NEW q \in [Cpu -> Seq(Task)], NEW t \in Task, NEW c \in Cpu
  PROVE  /\ Enqueued(q, t, c) \in [Cpu -> Seq(Task)]
         /\ \A u \in Task, d \in Cpu :
              u \in Elements(Enqueued(q, t, c)[d]) <=>
                u \in Elements(q[d]) \/ (u = t /\ d = c)
         /\ (\A d \in Cpu : Distinct(q[d])) /\ t \notin Elements(q[c]) =>
              \A d \in Cpu : Distinct(Enqueued(q, t, c)[d])
<1> DEFINE new == Append(q[c], t)
<1>1. /\ new \in Seq(Task)
      /\ Elements(new) = Elements(q[c]) \cup {t}
      /\ Distinct(q[c]) /\ t \notin Elements(q[c]) => Distinct(new)
  BY Appended
<1>2. Enqueued(q, t, c) = [q EXCEPT ![c] = new]
  BY DEF Enqueued
<1> HIDE DEF new
<1>3. Enqueued(q, t, c)[c] = new /\ \A d \in Cpu \ {c} : Enqueued(q, t, c)[d] = q[d]
  BY <1>2
<1> QED
  BY <1>1, <1>2, <1>3

\* A task is deleted from the queue of its core.
LEMMA DequeuedQueue ==
  ASSUME NEW q \in [Cpu -> Seq(Task)], NEW t \in Task, cpu_id \in [Task -> Cpu],
         \A d \in Cpu : Distinct(q[d]),
         \A d \in Cpu : t \in Elements(q[d]) => d = cpu_id[t]
  PROVE  /\ Dequeued(q, t) \in [Cpu -> Seq(Task)]
         /\ \A u \in Task, d \in Cpu :
              u \in Elements(Dequeued(q, t)[d]) <=> u \in Elements(q[d]) /\ u # t
         /\ \A d \in Cpu : Distinct(Dequeued(q, t)[d])
<1> DEFINE c == cpu_id[t]
           new == Without(q[c], t)
<1>1. /\ new \in Seq(Task)
      /\ Elements(new) = Elements(q[c]) \ {t}
      /\ Distinct(new)
  BY WithoutProperties
<1>2. Dequeued(q, t) = [q EXCEPT ![c] = new]
  BY DEF Dequeued
<1> HIDE DEF new
<1>3. Dequeued(q, t)[c] = new /\ \A d \in Cpu \ {c} : Dequeued(q, t)[d] = q[d]
  BY <1>2
<1> QED
  BY <1>1, <1>2, <1>3

\* A task is moved from the queue of its core to that of core c.
LEMMA MovedQueue ==
  ASSUME Types, NEW t \in Task, NEW c \in Cpu,
         \A d \in Cpu : Distinct(active[d]),
         \A d \in Cpu : t \in Elements(active[d]) => d = cpu_id[t]
  PROVE  /\ Moved(t, c) \in [Cpu -> Seq(Task)]
         /\ \A u \in Task, d \in Cpu :
              u \in Elements(Moved(t, c)[d]) <=>
                (u # t /\ u \in Elements(active[d])) \/ (u = t /\ d = c)
         /\ \A d \in Cpu : Distinct(Moved(t, c)[d])
<1> DEFINE q == Dequeued(active, t)
<1>1. active \in [Cpu -> Seq(Task)] /\ cpu_id \in [Task -> Cpu]
  BY DEF Types, TypeOK
<1>2. /\ q \in [Cpu -> Seq(Task)]
      /\ \A u \in Task, d \in Cpu :
           u \in Elements(q[d]) <=> u \in Elements(active[d]) /\ u # t
      /\ \A d \in Cpu : Distinct(q[d])
  BY <1>1, DequeuedQueue
<1>3. Moved(t, c) = Enqueued(q, t, c)
  BY DEF Moved
<1> HIDE DEF q
<1>4. /\ Enqueued(q, t, c) \in [Cpu -> Seq(Task)]
      /\ \A u \in Task, d \in Cpu :
           u \in Elements(Enqueued(q, t, c)[d]) <=>
             u \in Elements(q[d]) \/ (u = t /\ d = c)
      /\ \A d \in Cpu : Distinct(Enqueued(q, t, c)[d])
  <2>1. t \notin Elements(q[c])
    BY <1>2
  <2> QED
    BY <1>2, <2>1, EnqueuedQueue
<1> QED
  BY <1>2, <1>3, <1>4

\* Whatever the queues hold, they stay queues of tasks.
LEMMA QueueTypes ==
  ASSUME Types, NEW t \in Task, NEW c \in Cpu
  PROVE  /\ Dequeued(active, t) \in [Cpu -> Seq(Task)]
         /\ Moved(t, c) \in [Cpu -> Seq(Task)]
<1>1. active \in [Cpu -> Seq(Task)] /\ cpu_id \in [Task -> Cpu]
  BY DEF Types, TypeOK
<1> DEFINE new == Without(active[cpu_id[t]], t)
<1>2. new \in Seq(Task)
  BY <1>1, WithoutType
<1>3. Dequeued(active, t) = [active EXCEPT ![cpu_id[t]] = new]
  BY DEF Dequeued
<1> HIDE DEF new
<1>4. Dequeued(active, t) \in [Cpu -> Seq(Task)]
  BY <1>1, <1>2, <1>3
<1>5. Moved(t, c) = Enqueued(Dequeued(active, t), t, c)
  BY DEF Moved
<1>6. Moved(t, c) \in [Cpu -> Seq(Task)]
  BY <1>4, <1>5, EnqueuedQueue
<1> QED
  BY <1>4, <1>6

\* Priorities are numbers.
LEMMA PriorityType == Types => prio \in [Task -> Int]
<1> SUFFICES ASSUME Types
             PROVE  prio \in [Task -> Int]
  OBVIOUS
<1>1. prio \in [Task -> Prios \cup {RESCH_MIN_PRIO}]
  BY DEF Types, TypeOK
<1>2. Prios \cup {RESCH_MIN_PRIO} \subseteq Int
  BY CoresAssumption DEF RESCH_MIN_PRIO
<1> QED
  BY <1>1, <1>2

\* A task is added to the global list.
LEMMA InsertedList ==
  ASSUME Types, NEW t \in Task, NEW new,
         new = __global_list_insert(global, t, prio)
  PROVE  /\ new \in Seq(Task)
         /\ Elements(new) = Elements(global) \cup {t}
         /\ t \notin Elements(global) => Distinct(new)
<1>1. global \in Seq(Task) /\ Distinct(global)
  BY DEF Types, TypeOK
<1> QED
  BY <1>1, PriorityType, Inserted

\* A task that stays in the global list is inserted anew.
LEMMA ReinsertedList ==
  ASSUME Types, NEW t \in Task
  PROVE  /\ Reinserted(t) \in Seq(Task)
         /\ Elements(Reinserted(t)) = Elements(global) \cup {t}
         /\ Distinct(Reinserted(t))
<1> DEFINE left == Without(global, t)
           new == __global_list_insert(left, t, prio)
<1>1. left \in Seq(Task) /\ Elements(left) = Elements(global) \ {t} /\ Distinct(left)
  BY WithoutProperties DEF Types, TypeOK
<1>2. prio \in [Task -> Int]
  BY PriorityType
<1>3. new = Reinserted(t)
  BY DEF Reinserted
<1> HIDE DEF left
<1>4. t \notin Elements(left)
  BY <1>1
<1>5. new \in Seq(Task) /\ Elements(new) = Elements(left) \cup {t} /\ Distinct(new)
  BY <1>1, <1>2, <1>4, Inserted
<1> HIDE DEF new
<1> QED
  BY <1>1, <1>3, <1>5

\* The first request leaves the list of a thread.
LEMMA ShortenedList ==
  ASSUME Types, NEW c \in Cpu, list[c] # <<>>
  PROVE  /\ deleted(c) \in [Cpu -> Seq(Task)]
         /\ Head(list[c]) \in Elements(list[c]) /\ Head(list[c]) \in Task
         /\ \A d \in Cpu \ {c} : deleted(c)[d] = list[d]
         /\ Elements(deleted(c)[c]) \subseteq Elements(list[c])
         /\ Distinct(list[c]) =>
              /\ Distinct(deleted(c)[c])
              /\ Elements(deleted(c)[c]) = Elements(list[c]) \ {Head(list[c])}
<1> DEFINE l == list[c]
           new == Tail(l)
<1>1. l \in Seq(Task) /\ list \in [Cpu -> Seq(Task)]
  BY DEF Types
<1>2. /\ Len(l) \in Nat /\ Len(l) # 0 /\ new \in Seq(Task)
      /\ Len(new) = Len(l) - 1
      /\ \A i \in 1 .. Len(l) - 1 : new[i] = l[i + 1]
      /\ Head(l) = l[1]
  BY <1>1, HeadTailProperties, EmptySeq, LenProperties
<1>3. deleted(c) = [list EXCEPT ![c] = new]
  BY DEF deleted
<1> HIDE DEF l, new
<1>4. 1 \in 1 .. Len(l) /\ \A i \in 1 .. Len(new) : i + 1 \in 1 .. Len(l)
  BY <1>2
<1>5. Head(l) \in Elements(l)
  BY <1>2, <1>4 DEF Elements
<1>6. Elements(new) \subseteq Elements(l)
  BY <1>2, <1>4 DEF Elements
<1>7. ASSUME Distinct(l)
      PROVE  Distinct(new) /\ Elements(new) = Elements(l) \ {Head(l)}
  <2>1. Distinct(new)
    BY <1>2, <1>4, <1>7 DEF Distinct
  <2>2. ASSUME NEW i \in 1 .. Len(new)
        PROVE  new[i] # l[1]
    BY <1>2, <1>4, <1>7 DEF Distinct
  <2>3. ASSUME NEW i \in 1 .. Len(l), l[i] # l[1]
        PROVE  l[i] \in Elements(new)
    <3>1. i - 1 \in 1 .. Len(new) /\ (i - 1) + 1 = i
      BY <1>2, <2>3
    <3>2. new[i - 1] = l[i]
      BY <1>2, <3>1
    <3> QED
      BY <3>1, <3>2 DEF Elements
  <2>4. \A x \in Elements(new) : x # l[1]
    BY <2>2 DEF Elements
  <2>5. \A x \in Elements(l) : x # l[1] => x \in Elements(new)
    BY <2>3 DEF Elements
  <2> QED
    BY <1>2, <1>6, <2>1, <2>4, <2>5
<1>8. Head(l) \in Task
  BY <1>1, <1>5, ElementsOfSeq
<1>9. deleted(c)[c] = new /\ \A d \in Cpu \ {c} : deleted(c)[d] = list[d]
  BY <1>1, <1>3
<1>10. deleted(c) \in [Cpu -> Seq(Task)]
  BY <1>1, <1>2, <1>3
<1> QED
  BY <1>5, <1>6, <1>7, <1>8, <1>9, <1>10 DEF l

----------------------------------------------------------------------------
(* The types.                                                              *)

LEMMA InitTypes == Init => Types
<1> SUFFICES ASSUME Init
             PROVE  Types
  OBVIOUS
<1>1. global = <<>> /\ \A i \in 1 .. 0 : FALSE
  BY DEF Init
<1>2. Distinct(global) /\ Elements(global) \subseteq Task
  BY <1>1 DEF Distinct, Elements
<1>3. {active, list} \subseteq [Cpu -> Seq(Task)] /\ global \in Seq(Task)
  BY DEF Init
<1>4. \A t \in Task : Cpu # {}
  BY DEF Init
<1> QED
  BY <1>2, <1>3, <1>4 DEF Init, Types, TypeOK, Places, UserMode, InRequest

\* What the handlers change keeps its type.
LEMMA NextTypes ==
  ASSUME Types, Submitted, Requests, [Next]_vars
  PROVE  Types'
<1> USE DEF Types, TypeOK
<1>1. ASSUME NEW t \in Task, api_init(t)
      PROVE  Types'
  <2>1. pc' \in [Task -> Places] /\ cpu_id' \in [Task -> Cpu]
    BY <1>1 DEF api_init, Goto, Places, UserMode
  <2>2. /\ allowed' \in [Task -> (SUBSET Cpu) \ {{}}]
        /\ cpumask' \in [Task -> (SUBSET Cpu) \ {{}}]
    BY <1>1 DEF api_init
  <2>3. prio' \in [Task -> Prios \cup {RESCH_MIN_PRIO}]
    BY <1>1 DEF api_init
  <2>4. UNCHANGED <<curr, interrupt, cpu, global, active, lock, list, kpc, req,
                    awake, want>>
    BY <1>1 DEF api_init, thread
  <2> QED
    BY <2>1, <2>2, <2>3, <2>4
<1>2. ASSUME NEW t \in Task, api_run(t)
      PROVE  Types'
  <2>1. t \notin Elements(global)
    BY <1>2 DEF api_run, Submitted, task_is_submitted
  <2>2. global' = __global_list_insert(global, t, prio)
    BY <1>2 DEF api_run
  <2>3. /\ global' \in Seq(Task)
        /\ Elements(global') = Elements(global) \cup {t}
        /\ Distinct(global')
    BY <2>1, <2>2, InsertedList
  <2>4. global' \in Seq(Task) /\ Elements(global') \subseteq Task /\ Distinct(global')
    BY <2>3
  <2> QED
    BY <1>2, <2>4 DEF api_run, Goto, place, thread, Places
<1>3. ASSUME NEW t \in Task, wait_next_period(t)
      PROVE  Types'
  BY <1>3 DEF wait_next_period, Goto, place, queues, thread, Places
<1>4. ASSUME NEW t \in Task, job_release(t)
      PROVE  Types'
  <2>1. Enqueued(active, t, cpu_id[t]) \in [Cpu -> Seq(Task)]
    BY EnqueuedQueue
  <2> QED
    BY <1>4, <2>1 DEF job_release, Goto, place, thread, Places
<1>5. ASSUME NEW t \in Task, job_release_handler(t)
      PROVE  Types'
  <2>1. cpu' \in [Task -> Cpu]
    BY <1>5 DEF job_release_handler
  <2> QED
    BY <1>5, <2>1 DEF job_release_handler, queues, thread
<1>6. ASSUME NEW c \in Cpu, job_release_handler_end(c)
      PROVE  Types'
  <2>1. interrupt[c] \in Task
    BY <1>6 DEF job_release_handler_end
  <2>2. Enqueued(active, interrupt[c], cpu_id[interrupt[c]]) \in [Cpu -> Seq(Task)]
    BY <2>1, EnqueuedQueue
  <2> QED
    BY <1>6, <2>2 DEF job_release_handler_end, thread
<1>7. ASSUME NEW t \in Task, Woken(t)
      PROVE  Types'
  BY <1>7 DEF Woken, Goto, place, queues, thread, Places
<1>8. ASSUME NEW t \in Task, job_start(t)
      PROVE  Types'
  <2>1. /\ allowed' \in [Task -> (SUBSET Cpu) \ {{}}]
        /\ cpumask' \in [Task -> (SUBSET Cpu) \ {{}}]
    BY <1>8, SMTT(40) DEF job_start, disable_load_balance
  <2>2. pc' \in [Task -> Places] /\ lock' \in [Cpu -> Task \cup {None}]
    BY <1>8 DEF job_start, Goto, Places, UserMode
  <2> QED
    BY <1>8, <2>1, <2>2 DEF job_start, thread
<1>9. ASSUME NEW t \in Task, job_start_move(t)
      PROVE  Types'
  <2>1. Moved(t, cpu[t]) \in [Cpu -> Seq(Task)]
    BY QueueTypes
  <2>2. pc' \in [Task -> Places] /\ lock' \in [Cpu -> Task \cup {None}]
    BY <1>9 DEF job_start_move, Goto, Places, UserMode
  <2>3. cpu_id' \in [Task -> Cpu]
    BY <1>9 DEF job_start_move
  <2> QED
    BY <1>9, <2>1, <2>2, <2>3, ZenonT(40) DEF job_start_move, place, thread
<1>10. ASSUME NEW t \in Task, api_wait_for_period(t)
       PROVE  Types'
  <2>1. Dequeued(active, t) \in [Cpu -> Seq(Task)]
    BY QueueTypes
  <2>2. allowed' \in [Task -> (SUBSET Cpu) \ {{}}] /\ pc' \in [Task -> Places]
    BY <1>10 DEF api_wait_for_period, Goto, Places
  <2> QED
    BY <1>10, <2>1, <2>2, ZenonT(40) DEF api_wait_for_period, thread
<1>11. ASSUME NEW t \in Task, api_exit(t)
       PROVE  Types'
  <2>1. Dequeued(active, t) \in [Cpu -> Seq(Task)]
    BY QueueTypes
  <2>2. /\ global' \in Seq(Task) /\ Distinct(global')
        /\ Elements(global') = Elements(global) \ {t}
    BY <1>11, WithoutProperties, SMTT(40) DEF api_exit
  <2> QED
    BY <1>11, <2>1, <2>2 DEF api_exit, Goto, place, thread, Places, UserMode
<1>12. ASSUME NEW t \in Task, test_migration(t)
       PROVE  Types'
  BY <1>12 DEF test_migration, Goto, place, thread, Places
<1>13. ASSUME NEW t \in Task, migrate_task(t)
       PROVE  Types'
  <2>1. PICK c \in Cpu : active' = Moved(t, c) /\ cpu_id' = [cpu_id EXCEPT ![t] = c]
    BY <1>13 DEF migrate_task
  <2>2. Moved(t, c) \in [Cpu -> Seq(Task)]
    BY QueueTypes
  <2>3. pc' \in [Task -> Places] /\ cpu_id' \in [Task -> Cpu]
    BY <1>13, <2>1 DEF migrate_task, Goto, Places
  <2>4. active' \in [Cpu -> Seq(Task)] /\ lock' \in [Cpu -> Task \cup {None}]
    BY <1>13, <2>1, <2>2 DEF migrate_task
  <2> QED
    BY <1>13, <2>3, <2>4, ZenonT(40) DEF migrate_task, place, thread
<1>14. ASSUME NEW t \in Task, set_cpus_allowed(t)
       PROVE  Types'
  BY <1>14, SMTT(40) DEF set_cpus_allowed, Goto, queues, thread, Places, UserMode
<1>15. ASSUME NEW t \in Task, NEW p \in Prios, request_change_prio(t, p)
       PROVE  Types'
  <2>1. Enqueued(list, t, cpu[t]) \in [Cpu -> Seq(Task)]
    BY EnqueuedQueue
  <2>2. list' = Enqueued(list, t, cpu[t])
    BY <1>15 DEF request_change_prio, Enqueued
  <2>3. kpc' \in [Cpu -> {"asleep", "check", "change", "global", "requeue", "wake"}]
    BY <1>15 DEF request_change_prio, wake_thread
  <2>4. pc' \in [Task -> Places] /\ want' \in [Task -> Prios \cup {RESCH_MIN_PRIO}]
    BY <1>15 DEF request_change_prio, Goto, Places, InRequest
  <2> QED
    BY <1>15, <2>1, <2>2, <2>3, <2>4, ZenonT(40) DEF request_change_prio, place, queues
<1>16. ASSUME NEW t \in Task, request_sleep(t)
       PROVE  Types'
  BY <1>16 DEF request_sleep, Goto, place, queues, thread, Places, InRequest
<1>17. ASSUME NEW t \in Task, request_return(t)
       PROVE  Types'
  BY <1>17 DEF request_return, Goto, place, queues, thread, Places, UserMode
<1>18. ASSUME NEW t \in Task, LoadBalance(t)
       PROVE  Types'
  <2>1. allowed[t] \subseteq Cpu
    OBVIOUS
  <2>2. cpu' \in [Task -> Cpu]
    BY <1>18, <2>1 DEF LoadBalance
  <2> QED
    BY <1>18, <2>2, ZenonT(40) DEF LoadBalance, queues, thread
<1>19. ASSUME NEW c \in Cpu, schedule(c)
       PROVE  Types'
  BY <1>19 DEF schedule, queues, thread, Ready
<1>20. ASSUME NEW c \in Cpu, setscheduler(c)
       PROVE  Types'
  <2>1. CASE list[c] = <<>>
    BY <1>20, <2>1 DEF setscheduler, place, queues
  <2>2. CASE list[c] # <<>>
    <3>1. deleted(c) \in [Cpu -> Seq(Task)] /\ Head(list[c]) \in Task
      BY <2>2, ShortenedList
    <3> QED
      BY <1>20, <2>2, <3>1 DEF setscheduler, place, queues
  <2> QED
    BY <2>1, <2>2
<1>21. ASSUME NEW c \in Cpu, change_prio(c)
       PROVE  Types'
  <2>1. req[c] \in Task
    BY <1>21, CoresAssumption DEF change_prio, ThreadRuns, Requests
  <2>2. prio' \in [Task -> Prios \cup {RESCH_MIN_PRIO}]
    BY <1>21, <2>1 DEF change_prio, changed
  <2> QED
    BY <1>21, <2>2 DEF change_prio, place, queues
<1>22. ASSUME NEW c \in Cpu, global_list_reinsert(c)
       PROVE  Types'
  <2>1. CASE task_is_submitted(req[c])
    <3>1. req[c] \in Task
      BY <2>1 DEF task_is_submitted
    <3>2. /\ global' \in Seq(Task) /\ Distinct(global')
          /\ Elements(global') = Elements(global) \cup {req[c]}
      BY <1>22, <2>1, <3>1, ReinsertedList DEF global_list_reinsert
    <3>3. Elements(global') \subseteq Task
      BY <3>1, <3>2
    <3> QED
      BY <1>22, <3>2, <3>3 DEF global_list_reinsert, place
  <2>2. CASE ~task_is_submitted(req[c])
    BY <1>22, <2>2 DEF global_list_reinsert, place
  <2> QED
    BY <2>1, <2>2
<1>23. ASSUME NEW c \in Cpu, requeue_task(c)
       PROVE  Types'
  <2>1. req[c] \in Task
    BY <1>23, CoresAssumption DEF requeue_task, ThreadRuns, Requests
  <2>2. Moved(req[c], cpu_id[req[c]]) \in [Cpu -> Seq(Task)]
    BY <2>1, QueueTypes
  <2>3. active' \in [Cpu -> Seq(Task)]
    BY <1>23, <2>2 DEF requeue_task
  <2> QED
    BY <1>23, <2>3 DEF requeue_task, place
<1>24. ASSUME NEW c \in Cpu, wake_up_task(c)
       PROVE  Types'
  <2>1. req[c] \in Task
    BY <1>24, CoresAssumption DEF wake_up_task, ThreadRuns, Requests
  <2> QED
    BY <1>24, <2>1 DEF wake_up_task, place, queues
<1>25. CASE UNCHANGED vars
  BY <1>25 DEF vars, place, queues, thread
<1> QED
  BY <1>1, <1>2, <1>3, <1>4, <1>5, <1>6, <1>7, <1>8, <1>9, <1>10, <1>11, <1>12,
     <1>13, <1>14, <1>15, <1>16, <1>17, <1>18, <1>19, <1>20, <1>21, <1>22, <1>23,
     <1>24, <1>25 DEF Next, SystemCall, InKernel, Thread

----------------------------------------------------------------------------
(* The global list and the calls that tasks are in.                        *)

LEMMA InitSubmitted == Init => Submitted
BY DEF Init, Submitted, task_is_submitted, Elements, InRequest

\* Only api_run and api_exit change what the global list holds.
LEMMA NextSubmitted ==
  ASSUME Types, Submitted, Requests, [Next]_vars
  PROVE  Submitted'
<1> USE DEF Submitted, task_is_submitted, InRequest
<1>0. pc \in [Task -> Places]
  BY DEF Types, TypeOK
<1>1. ASSUME NEW t \in Task, api_run(t)
      PROVE  Submitted'
  <2>1. global' = __global_list_insert(global, t, prio)
    BY <1>1 DEF api_run
  <2>2. Elements(global') = Elements(global) \cup {t}
    BY <2>1, InsertedList
  <2> QED
    BY <1>0, <1>1, <2>2 DEF api_run, Goto
<1>2. ASSUME NEW t \in Task, api_exit(t)
      PROVE  Submitted'
  <2>1. Elements(global') = Elements(global) \ {t}
    BY <1>2, WithoutProperties DEF Types, TypeOK, api_exit
  <2> QED
    BY <1>0, <1>2, <2>1 DEF api_exit, Goto
<1>3. ASSUME NEW c \in Cpu, global_list_reinsert(c)
      PROVE  Submitted'
  <2>1. CASE task_is_submitted(req[c])
    <3>1. req[c] \in Task
      BY <2>1 DEF Types, TypeOK
    <3>2. Elements(Reinserted(req[c])) = Elements(global) \cup {req[c]}
      BY <3>1, ReinsertedList
    <3>3. Elements(global') = Elements(global)
      BY <1>3, <2>1, <3>2 DEF global_list_reinsert
    <3> QED
      BY <1>3, <3>3 DEF global_list_reinsert
  <2>2. CASE ~task_is_submitted(req[c])
    BY <1>3, <2>2 DEF global_list_reinsert
  <2> QED
    BY <2>1, <2>2
<1>4. ASSUME NEW t \in Task, UNCHANGED global,
             \/ api_init(t) \/ wait_next_period(t) \/ job_release(t) \/ Woken(t)
             \/ job_start(t) \/ job_start_move(t) \/ api_wait_for_period(t)
             \/ test_migration(t) \/ migrate_task(t) \/ set_cpus_allowed(t)
             \/ \E p \in Prios : request_change_prio(t, p)
             \/ request_sleep(t) \/ request_return(t)
      PROVE  Submitted'
  BY <1>0, <1>4 DEF api_init, wait_next_period, job_release, Woken, job_start,
     job_start_move, api_wait_for_period, test_migration, migrate_task,
     set_cpus_allowed, request_change_prio, request_sleep, request_return, Goto
<1>5. CASE UNCHANGED <<global, pc>>
  BY <1>5
<1>6. ASSUME NEW t \in Task, SystemCall(t)
      PROVE  api_run(t) \/ api_exit(t) \/ UNCHANGED global
  BY <1>6 DEF SystemCall, api_init, api_wait_for_period, test_migration,
     request_change_prio, queues
<1>7. ASSUME NEW t \in Task, InKernel(t)
      PROVE  UNCHANGED global
  BY <1>7 DEF InKernel, wait_next_period, job_release, Woken, job_start,
     job_start_move, migrate_task, set_cpus_allowed, request_sleep,
     request_return, queues
<1>8. ASSUME NEW t \in Task, LoadBalance(t) \/ job_release_handler(t)
      PROVE  UNCHANGED <<global, pc>>
  BY <1>8 DEF LoadBalance, job_release_handler, queues
<1>9. ASSUME NEW c \in Cpu, schedule(c) \/ Thread(c) \/ job_release_handler_end(c)
      PROVE  global_list_reinsert(c) \/ UNCHANGED <<global, pc>>
  BY <1>9 DEF schedule, Thread, setscheduler, change_prio, requeue_task,
     wake_up_task, job_release_handler_end, queues
<1>10. CASE UNCHANGED vars
  BY <1>10 DEF vars, queues
<1>11. ASSUME NEW t \in Task, SystemCall(t)
       PROVE  Submitted'
  BY <1>1, <1>2, <1>4, <1>6, <1>11 DEF SystemCall
<1>12. ASSUME NEW t \in Task, InKernel(t)
       PROVE  Submitted'
  BY <1>4, <1>7, <1>12 DEF InKernel
<1> QED
  BY <1>3, <1>5, <1>8, <1>9, <1>10, <1>11, <1>12 DEF Next

----------------------------------------------------------------------------
(* The requests for another priority.                                      *)

LEMMA InitRequests == Init => Requests
<1> SUFFICES ASSUME Init
             PROVE  Requests
  OBVIOUS
<1>1. \A c \in Cpu : list[c] = <<>> /\ req[c] = None /\ kpc[c] = "check"
  BY DEF Init
<1>2. Elements(<<>>) = {} /\ Distinct(<<>>)
  BY DEF Elements, Distinct
<1>3. \A t \in Task : t # None
  BY CoresAssumption
<1>4. \A t \in Task : pc[t] = "none"
  BY DEF Init
<1> QED
  BY <1>1, <1>2, <1>3, <1>4 DEF Requests, Pending, Listed, InRequest

\* A step of a task that makes no request, or of the kernel.
LEMMA RequestsKept ==
  ASSUME Requests, UNCHANGED thread,
         \A t \in Task : InCall(t) => InCall(t)',
         \A t \in Task : pc'[t] \in InRequest =>
           pc[t] \in InRequest /\ prio'[t] = prio[t] /\ want'[t] = want[t]
  PROVE  Requests'
<1>1. \A t \in Task, c \in Cpu : /\ Pending(t, c)' <=> Pending(t, c)
                                 /\ Listed(t, c)' <=> Listed(t, c)
  BY DEF thread, Pending, Listed
<1>2. kpc' = kpc /\ req' = req /\ list' = list
  BY DEF thread
<1>3. \A t \in Task, c \in Cpu : Pending(t, c)' =>
        /\ InCall(t)'
        /\ \A d \in Cpu : Pending(t, d)' => d = c
        /\ ~(Listed(t, c)' /\ req'[c] = t)
  BY <1>1, <1>2 DEF Requests
<1>4. \A t \in Task : pc'[t] \in InRequest =>
        \/ prio'[t] = want'[t]
        \/ \E c \in Cpu : Listed(t, c)' \/ (req'[c] = t /\ kpc'[c] = "change")
  BY <1>1, <1>2 DEF Requests
<1>5. \A c \in Cpu : /\ kpc'[c] \in {"check", "asleep"} <=> req'[c] = None
                     /\ Distinct(list'[c])
  BY <1>2 DEF Requests
<1> QED
  BY <1>3, <1>4, <1>5 DEF Requests

\* A new request, its way through the thread, and the return from it.
LEMMA NextRequests ==
  ASSUME Types, Submitted, Requests, [Next]_vars
  PROVE  Requests'
<1>0. /\ pc \in [Task -> Places] /\ awake \subseteq Task
      /\ {prio, want} \subseteq [Task -> Prios \cup {RESCH_MIN_PRIO}]
      /\ list \in [Cpu -> Seq(Task)]
      /\ req \in [Cpu -> Task \cup {None}]
      /\ kpc \in [Cpu -> {"asleep", "check", "change", "global", "requeue", "wake"}]
      /\ cpu \in [Task -> Cpu]
  BY DEF Types, TypeOK
<1>1. ASSUME NEW t \in Task,
             \/ api_init(t) \/ api_run(t) \/ wait_next_period(t) \/ job_release(t)
             \/ Woken(t) \/ job_start(t) \/ job_start_move(t)
             \/ api_wait_for_period(t) \/ api_exit(t) \/ test_migration(t)
             \/ migrate_task(t) \/ set_cpus_allowed(t)
      PROVE  Requests'
  <2>1. UNCHANGED thread
    BY <1>1 DEF api_init, api_run, wait_next_period, job_release, Woken, job_start,
       job_start_move, api_wait_for_period, api_exit, test_migration, migrate_task,
       set_cpus_allowed
  <2>2. /\ pc[t] \notin InRequest
        /\ \E p \in Places \ InRequest : pc' = [pc EXCEPT ![t] = p]
    BY <1>1 DEF api_init, api_run, wait_next_period, job_release, Woken, job_start,
       job_start_move, api_wait_for_period, api_exit, test_migration, migrate_task,
       set_cpus_allowed, Goto, InRequest, Places, UserMode
  <2>3. want' = want /\ \A u \in Task \ {t} : prio'[u] = prio[u]
    BY <1>0, <1>1 DEF api_init, api_run, wait_next_period, job_release, Woken,
       job_start, job_start_move, api_wait_for_period, api_exit, test_migration,
       migrate_task, set_cpus_allowed
  <2>4. awake' \subseteq awake
    BY <1>1 DEF api_init, api_run, wait_next_period, job_release, Woken, job_start,
       job_start_move, api_wait_for_period, api_exit, test_migration, migrate_task,
       set_cpus_allowed
  <2>5. \A u \in Task \ {t} : pc'[u] = pc[u]
    BY <1>0, <2>2
  <2>6. pc'[t] \notin InRequest
    BY <1>0, <2>2
  <2>7. \A u \in Task : InCall(u) => InCall(u)'
    BY <2>2, <2>4, <2>5 DEF InCall, InRequest
  <2>8. \A u \in Task : pc'[u] \in InRequest =>
          pc[u] \in InRequest /\ prio'[u] = prio[u] /\ want'[u] = want[u]
    BY <2>3, <2>5, <2>6
  <2> QED
    BY <2>1, <2>7, <2>8, RequestsKept
<1>2. ASSUME NEW t \in Task, LoadBalance(t)
      PROVE  Requests'
  BY <1>2, RequestsKept DEF LoadBalance, InCall
<1>3. ASSUME NEW t \in Task, job_release_handler(t)
      PROVE  Requests'
  BY <1>3, RequestsKept DEF job_release_handler, InCall
<1>4. ASSUME NEW c \in Cpu, schedule(c) \/ job_release_handler_end(c)
      PROVE  Requests'
  BY <1>4, RequestsKept DEF schedule, job_release_handler_end, InCall
<1>5. ASSUME NEW t \in Task, request_sleep(t)
      PROVE  Requests'
  <2>1. pc' = [pc EXCEPT ![t] = "changing"] /\ awake' = awake \ {t}
    BY <1>5 DEF request_sleep, Goto
  <2>2. UNCHANGED <<thread, prio, want>> /\ pc[t] = "requested"
    BY <1>5 DEF request_sleep
  <2> QED
    BY <1>0, <2>1, <2>2, RequestsKept DEF InCall, InRequest
<1>6. ASSUME NEW t \in Task, request_return(t)
      PROVE  Requests'
  <2>1. \E p \in UserMode : pc' = [pc EXCEPT ![t] = p]
    BY <1>6 DEF request_return, Goto, UserMode
  <2>2. UNCHANGED <<thread, prio, want, awake>> /\ ~InCall(t)
    BY <1>6 DEF request_return, Runs, InCall
  <2> QED
    BY <1>0, <2>1, <2>2, RequestsKept DEF InCall, InRequest, UserMode
<1>7. CASE UNCHANGED vars
  BY <1>7, RequestsKept DEF vars, thread, InCall
<1>8. ASSUME NEW t \in Task, NEW p \in Prios, request_change_prio(t, p)
      PROVE  Requests'
  <2> DEFINE e == cpu[t]
  <2>1. /\ pc[t] \in {"init", "job"} /\ pc' = [pc EXCEPT ![t] = "requested"]
        /\ list' = Enqueued(list, t, e)
        /\ kpc' = wake_thread(e)
        /\ UNCHANGED <<req, awake, prio>>
        /\ \A u \in Task \ {t} : want'[u] = want[u]
    BY <1>0, <1>8 DEF request_change_prio, Goto, Enqueued
  <2>2. \A c \in Cpu : ~Pending(t, c)
    BY <2>1 DEF Requests, InCall
  <2>3. /\ \A u \in Task, c \in Cpu :
             u \in Elements(list'[c]) <=>
               u \in Elements(list[c]) \/ (u = t /\ c = e)
        /\ \A c \in Cpu : Distinct(list'[c])
    <3>1. e \in Cpu /\ t \notin Elements(list[e]) /\ \A c \in Cpu : Distinct(list[c])
      BY <1>0, <2>2 DEF Requests, Pending, Listed
    <3> HIDE DEF e
    <3> QED
      BY <1>0, <2>1, <3>1, EnqueuedQueue, ZenonT(40)
  <2>4. \A c \in Cpu : /\ kpc'[c] \in {"check", "asleep"} <=> kpc[c] \in {"check", "asleep"}
                       /\ kpc'[c] = "change" <=> kpc[c] = "change"
    BY <1>0, <2>1 DEF wake_thread
  <2>5. e \in Cpu /\ pc'[t] = "requested" /\ \A u \in Task \ {t} : pc'[u] = pc[u]
    BY <1>0, <2>1
  <2> HIDE DEF e
  <2>6. \A c \in Cpu : kpc'[c] \in {"check", "asleep"} <=> req'[c] = None
    BY <2>1, <2>4 DEF Requests
  <2>7. \A u \in Task \ {t}, c \in Cpu :
          /\ Listed(u, c)' <=> Listed(u, c)
          /\ Pending(u, c)' <=> Pending(u, c)
          /\ InCall(u)' <=> InCall(u)
    BY <2>1, <2>3, <2>5 DEF Pending, Listed, InCall
  <2>8. \A c \in Cpu : (Listed(t, c)' <=> c = e) /\ req'[c] # t
    BY <2>1, <2>2, <2>3 DEF Pending, Listed
  <2>9. InCall(t)'
    BY <2>5 DEF InCall
  <2>10. ASSUME NEW u \in Task, NEW c \in Cpu, Pending(u, c)'
         PROVE  /\ InCall(u)'
                /\ \A d \in Cpu : Pending(u, d)' => d = c
                /\ ~(Listed(u, c)' /\ req'[c] = u)
    <3>1. CASE u = t
      BY <2>8, <2>9, <2>10, <3>1 DEF Pending
    <3>2. CASE u # t
      BY <2>1, <2>7, <2>10, <3>2 DEF Requests
    <3> QED
      BY <3>1, <3>2
  <2>11. ASSUME NEW u \in Task, pc'[u] \in InRequest
         PROVE  \/ prio'[u] = want'[u]
                \/ \E c \in Cpu : Listed(u, c)' \/ (req'[c] = u /\ kpc'[c] = "change")
    <3>1. CASE u = t
      BY <2>5, <2>8, <3>1
    <3>2. CASE u # t
      BY <2>1, <2>4, <2>5, <2>7, <2>11, <3>2 DEF Requests
    <3> QED
      BY <3>1, <3>2
  <2> QED
    BY <2>3, <2>6, <2>10, <2>11 DEF Requests
<1>9. ASSUME NEW c \in Cpu, setscheduler(c)
      PROVE  Requests'
  <2>0. kpc[c] = "check" /\ req[c] = None /\ UNCHANGED <<pc, awake, prio, want>>
    BY <1>9 DEF setscheduler, ThreadRuns, Requests
  <2>1. CASE list[c] = <<>>
    <3>1. UNCHANGED <<list, req>> /\ kpc' = [kpc EXCEPT ![c] = "asleep"]
      BY <1>9, <2>1 DEF setscheduler
    <3> QED
      BY <1>0, <2>0, <3>1 DEF Requests, Pending, Listed, InCall
  <2>2. CASE list[c] # <<>>
    <3> DEFINE h == Head(list[c])
    <3>1. /\ req' = [req EXCEPT ![c] = h] /\ list' = deleted(c)
          /\ kpc' = [kpc EXCEPT ![c] = "change"]
      BY <1>9, <2>2 DEF setscheduler
    <3>2. /\ h \in Elements(list[c]) /\ h \in Task
          /\ \A d \in Cpu \ {c} : list'[d] = list[d]
          /\ Elements(list'[c]) = Elements(list[c]) \ {h}
          /\ \A d \in Cpu : Distinct(list'[d])
      <4>1. \A d \in Cpu : Distinct(list[d])
        BY DEF Requests
      <4>2. /\ h \in Elements(list[c]) /\ h \in Task
            /\ \A d \in Cpu \ {c} : list'[d] = list[d]
            /\ Elements(list'[c]) = Elements(list[c]) \ {h}
            /\ Distinct(list'[c])
        BY <2>2, <3>1, <4>1, ShortenedList
      <4> QED
        BY <4>1, <4>2
    <3>3. h # None /\ h \in Task /\ \A d \in Cpu \ {c} : req'[d] = req[d] /\ kpc'[d] = kpc[d]
      BY <1>0, <3>1, <3>2, CoresAssumption
    <3>4. req'[c] = h /\ kpc'[c] = "change"
      BY <1>0, <3>1
    <3> HIDE DEF h
    <3>5. \A d \in Cpu : kpc'[d] \in {"check", "asleep"} <=> req'[d] = None
      BY <3>3, <3>4 DEF Requests
    <3>6. \A u \in Task, d \in Cpu : Pending(u, d)' <=> Pending(u, d)
      BY <2>0, <3>2, <3>3, <3>4, CoresAssumption DEF Pending, Listed
    <3>7. \A u \in Task, d \in Cpu : ~(Listed(u, d)' /\ req'[d] = u)
      BY <3>2, <3>3, <3>4 DEF Requests, Pending, Listed
    <3>8. \A u \in Task, d \in Cpu :
            Listed(u, d) \/ (req[d] = u /\ kpc[d] = "change") =>
              Listed(u, d)' \/ (req'[d] = u /\ kpc'[d] = "change")
      BY <2>0, <3>2, <3>3, <3>4 DEF Listed
    <3>9. \A u \in Task : InCall(u)' <=> InCall(u)
      BY <2>0 DEF InCall
    <3>10. \A u \in Task, d \in Cpu : Pending(u, d)' =>
             /\ InCall(u)'
             /\ \A f \in Cpu : Pending(u, f)' => f = d
      BY <3>6, <3>9 DEF Requests
    <3>11. \A u \in Task : pc'[u] \in InRequest =>
             \/ prio'[u] = want'[u]
             \/ \E d \in Cpu : Listed(u, d)' \/ (req'[d] = u /\ kpc'[d] = "change")
      BY <2>0, <3>8 DEF Requests
    <3> QED
      BY <3>2, <3>5, <3>7, <3>10, <3>11 DEF Requests
  <2> QED
    BY <2>1, <2>2
<1>10. ASSUME NEW c \in Cpu, change_prio(c)
       PROVE  Requests'
  <2>1. /\ kpc[c] = "change" /\ kpc' = [kpc EXCEPT ![c] = "global"]
        /\ prio' = [prio EXCEPT ![req[c]] = want[req[c]]]
        /\ UNCHANGED <<list, req, pc, awake, want>>
    BY <1>10 DEF change_prio, ThreadRuns, changed
  <2>2. \A u \in Task : prio'[u] = IF u = req[c] THEN want[u] ELSE prio[u]
    BY <1>0, <2>1
  <2>3. /\ kpc'[c] = "global" /\ \A d \in Cpu \ {c} : kpc'[d] = kpc[d]
    BY <1>0, <2>1
  <2> QED
    BY <2>1, <2>2, <2>3 DEF Requests, Pending, Listed, InCall
<1>11. ASSUME NEW c \in Cpu, global_list_reinsert(c) \/ requeue_task(c)
       PROVE  Requests'
  <2>1. /\ kpc[c] \in {"global", "requeue"}
        /\ \E p \in {"requeue", "wake"} : kpc' = [kpc EXCEPT ![c] = p]
        /\ UNCHANGED <<list, req, pc, awake, prio, want>>
    BY <1>11 DEF global_list_reinsert, requeue_task, ThreadRuns
  <2>2. /\ kpc'[c] \in {"requeue", "wake"} /\ \A d \in Cpu \ {c} : kpc'[d] = kpc[d]
    BY <1>0, <2>1
  <2> QED
    BY <2>1, <2>2 DEF Requests, Pending, Listed, InCall
<1>12. ASSUME NEW c \in Cpu, wake_up_task(c)
       PROVE  Requests'
  <2>1. /\ kpc[c] = "wake" /\ kpc' = [kpc EXCEPT ![c] = "check"]
        /\ req' = [req EXCEPT ![c] = None]
        /\ awake' = awake \cup {req[c]}
        /\ UNCHANGED <<list, pc, prio, want>>
    BY <1>12 DEF wake_up_task, ThreadRuns
  <2>2. /\ kpc'[c] = "check" /\ req'[c] = None
        /\ \A d \in Cpu \ {c} : kpc'[d] = kpc[d] /\ req'[d] = req[d]
    BY <1>0, <2>1
  <2>3. \A d \in Cpu : kpc'[d] \in {"check", "asleep"} <=> req'[d] = None
    BY <2>2 DEF Requests
  <2>4. \A u \in Task, d \in Cpu :
          /\ Listed(u, d)' <=> Listed(u, d)
          /\ Pending(u, d)' => Pending(u, d) /\ u # req[c]
    <3>1. req[c] # None
      BY <2>1 DEF Requests
    <3> QED
      BY <2>1, <2>2, CoresAssumption DEF Requests, Pending, Listed
  <2>5. \A u \in Task, d \in Cpu : Pending(u, d)' =>
          /\ InCall(u)'
          /\ \A f \in Cpu : Pending(u, f)' => f = d
          /\ ~(Listed(u, d)' /\ req'[d] = u)
    <3>1. \A u \in Task, d \in Cpu : req'[d] = u => req[d] = u
      BY <2>2, CoresAssumption
    <3>2. \A u \in Task : InCall(u) /\ u # req[c] => InCall(u)'
      BY <2>1 DEF InCall
    <3> QED
      BY <2>4, <3>1, <3>2 DEF Requests
  <2>6. \A u \in Task : pc'[u] \in InRequest =>
          \/ prio'[u] = want'[u]
          \/ \E d \in Cpu : Listed(u, d)' \/ (req'[d] = u /\ kpc'[d] = "change")
    BY <2>1, <2>2, <2>4 DEF Requests
  <2> QED
    BY <2>1, <2>3, <2>5, <2>6 DEF Requests
<1> QED
  BY <1>1, <1>2, <1>3, <1>4, <1>5, <1>6, <1>7, <1>8, <1>9, <1>10, <1>11, <1>12
     DEF Next, SystemCall, InKernel, Thread

----------------------------------------------------------------------------
(* The handlers of releases.                                               *)

LEMMA InitHandlers == Init => Handlers
BY CoresAssumption DEF Init, Handlers

\* As long as the kernel wakes a task where it fell asleep.
LEMMA NextHandlers ==
  ASSUME ~WakeAnywhere, Types, Requests, Handlers, Pinned, [Next]_vars
  PROVE  Handlers'
<1> USE DEF Handlers
<1>0. /\ pc \in [Task -> Places] /\ awake \subseteq Task
      /\ interrupt \in [Cpu -> Task \cup {None}] /\ cpu \in [Task -> Cpu]
  BY DEF Types, TypeOK
<1>1. ASSUME NEW t \in Task, job_release_handler(t)
      PROVE  Handlers'
  <2>1. /\ interrupt' = [interrupt EXCEPT ![cpu[t]] = t]
        /\ pc[t] = "waiting" /\ pc' = pc
        /\ awake' = awake \cup {t}
        /\ interrupt[cpu[t]] = None
    BY <1>1 DEF job_release_handler, IrqEnabled
  <2>2. cpu' = cpu
    BY <1>0, <1>1 DEF job_release_handler
  <2> QED
    BY <1>0, <2>1, <2>2
<1>2. ASSUME NEW c \in Cpu, job_release_handler_end(c)
      PROVE  Handlers'
  BY <1>0, <1>2, CoresAssumption DEF job_release_handler_end
\* What a task does in the kernel it does outside of its handler.
<1>3. ASSUME NEW t \in Task, pc[t] # "waiting" \/ interrupt[cpu[t]] = None,
             UNCHANGED interrupt, awake \ {t} \subseteq awake',
             \A u \in Task \ {t} : pc'[u] = pc[u] /\ cpu'[u] = cpu[u]
      PROVE  Handlers'
  <2>1. \A c \in Cpu : interrupt[c] # t
    BY <1>3, CoresAssumption
  <2> QED
    BY <1>3, <2>1
<1>4. ASSUME NEW t \in Task, SystemCall(t)
      PROVE  Handlers'
  <2>1. /\ pc[t] # "waiting" /\ UNCHANGED <<interrupt, awake, cpu>>
        /\ \E p \in Places : pc' = [pc EXCEPT ![t] = p]
    BY <1>4 DEF SystemCall, api_init, api_run, api_wait_for_period, api_exit,
       test_migration, request_change_prio, Goto, place, queues, thread, Places,
       UserMode, InRequest
  <2> QED
    BY <1>0, <1>3, <2>1
<1>5. ASSUME NEW t \in Task, InKernel(t)
      PROVE  Handlers'
  <2>1. /\ interrupt[cpu[t]] = None /\ UNCHANGED interrupt
        /\ \E p \in Places : pc' = [pc EXCEPT ![t] = p]
    BY <1>5 DEF InKernel, wait_next_period, job_release, Woken, job_start,
       job_start_move, migrate_task, set_cpus_allowed, request_sleep,
       request_return, Runs, Goto, place, Places, UserMode, InRequest
  <2>2. awake \ {t} \subseteq awake'
    BY <1>5 DEF InKernel, wait_next_period, job_release, Woken, job_start,
       job_start_move, migrate_task, set_cpus_allowed, request_sleep,
       request_return
  <2>3. \A u \in Task \ {t} : cpu'[u] = cpu[u]
    BY <1>0, <1>5 DEF InKernel, wait_next_period, job_release, Woken, job_start,
       job_start_move, migrate_task, set_cpus_allowed, request_sleep,
       request_return, place
  <2> QED
    BY <1>0, <1>3, <2>1, <2>2, <2>3
<1>6. ASSUME NEW t \in Task, LoadBalance(t)
      PROVE  Handlers'
  <2>1. /\ pc[t] # "waiting" /\ UNCHANGED <<interrupt, awake, pc>>
        /\ \A u \in Task \ {t} : cpu'[u] = cpu[u]
    BY <1>0, <1>6 DEF LoadBalance, UserMode
  <2> QED
    BY <1>3, <2>1
<1>7. ASSUME NEW c \in Cpu, schedule(c) \/ Thread(c)
      PROVE  Handlers'
  <2>1. UNCHANGED <<interrupt, pc, cpu>> /\ awake \subseteq awake'
    BY <1>7 DEF schedule, Thread, setscheduler, change_prio, global_list_reinsert,
       requeue_task, wake_up_task, place
  <2> QED
    BY <2>1
<1>8. CASE UNCHANGED vars
  BY <1>8 DEF vars, place
<1> QED
  BY <1>1, <1>2, <1>4, <1>5, <1>6, <1>7, <1>8 DEF Next

----------------------------------------------------------------------------
(* The active queues.                                                      *)

\* A step that leaves a task where it is neither releases nor completes a job.
LEMMA ReleasedSame ==
  ASSUME NEW u \in Task, pc'[u] = pc[u],
         pc[u] = "waiting" => (u \in awake' <=> u \in awake),
         u \in Elements(global') <=> u \in Elements(global),
         \A c \in Cpu : interrupt'[c] = u <=> interrupt[c] = u
  PROVE  Released(u)' <=> Released(u)
BY DEF Released, task_is_submitted

LEMMA QueuedKept ==
  ASSUME Queued, UNCHANGED <<active, cpu_id>>,
         \A u \in Task : Released(u)' <=> Released(u)
  PROVE  Queued'
BY DEF Queued

\* A job is released.
LEMMA QueuedMore ==
  ASSUME Types, Queued, NEW t \in Task, active' = Enqueued(active, t, cpu_id[t]),
         cpu_id' = cpu_id, ~Released(t), Released(t)',
         \A u \in Task \ {t} : Released(u)' <=> Released(u)
  PROVE  Queued'
<1>1. /\ active \in [Cpu -> Seq(Task)] /\ cpu_id[t] \in Cpu
      /\ t \notin Elements(active[cpu_id[t]])
      /\ \A d \in Cpu : Distinct(active[d])
  BY DEF Types, TypeOK, Queued
<1>2. /\ \A u \in Task, d \in Cpu :
           u \in Elements(active'[d]) <=>
             u \in Elements(active[d]) \/ (u = t /\ d = cpu_id[t])
      /\ \A d \in Cpu : Distinct(active'[d])
  BY <1>1, EnqueuedQueue
<1> QED
  BY <1>2 DEF Queued

\* A job is completed, or its task leaves.
LEMMA QueuedLess ==
  ASSUME Types, Queued, NEW t \in Task, active' = Dequeued(active, t),
         cpu_id' = cpu_id, ~Released(t)',
         \A u \in Task \ {t} : Released(u)' <=> Released(u)
  PROVE  Queued'
<1>1. /\ active \in [Cpu -> Seq(Task)] /\ cpu_id \in [Task -> Cpu]
      /\ \A d \in Cpu : Distinct(active[d])
      /\ \A d \in Cpu : t \in Elements(active[d]) => d = cpu_id[t]
  BY DEF Types, TypeOK, Queued
<1>2. /\ \A u \in Task, d \in Cpu :
           u \in Elements(active'[d]) <=> u \in Elements(active[d]) /\ u # t
      /\ \A d \in Cpu : Distinct(active'[d])
  BY <1>1, DequeuedQueue
<1> QED
  BY <1>2 DEF Queued

\* A task with a released job moves to core c.
LEMMA QueuedMoved ==
  ASSUME Types, Queued, NEW t \in Task, NEW c \in Cpu, active' = Moved(t, c),
         cpu_id' = [cpu_id EXCEPT ![t] = c], Released(t)',
         \A u \in Task \ {t} : Released(u)' <=> Released(u)
  PROVE  Queued'
<1>1. /\ cpu_id \in [Task -> Cpu]
      /\ \A d \in Cpu : Distinct(active[d])
      /\ \A d \in Cpu : t \in Elements(active[d]) => d = cpu_id[t]
  BY DEF Types, TypeOK, Queued
<1>2. /\ \A u \in Task, d \in Cpu :
           u \in Elements(active'[d]) <=>
             (u # t /\ u \in Elements(active[d])) \/ (u = t /\ d = c)
      /\ \A d \in Cpu : Distinct(active'[d])
  BY <1>1, MovedQueue
<1>3. \A u \in Task : cpu_id'[u] = IF u = t THEN c ELSE cpu_id[u]
  BY <1>1
<1> QED
  BY <1>2, <1>3 DEF Queued

LEMMA InitQueued == Init => Queued
<1> SUFFICES ASSUME Init
             PROVE  Queued
  OBVIOUS
<1>1. \A c \in Cpu : active[c] = <<>>
  BY DEF Init
<1>2. Elements(<<>>) = {} /\ Distinct(<<>>)
  BY DEF Elements, Distinct
<1>3. \A t \in Task : ~Released(t)
  BY DEF Init, Released
<1> QED
  BY <1>1, <1>2, <1>3 DEF Queued

LEMMA NextQueued ==
  ASSUME ~WakeAnywhere, Types, Submitted, Requests, Handlers, Queued, Pinned,
         [Next]_vars
  PROVE  Queued'
<1>0. /\ pc \in [Task -> Places] /\ awake \subseteq Task
      /\ interrupt \in [Cpu -> Task \cup {None}] /\ cpu \in [Task -> Cpu]
      /\ cpu_id \in [Task -> Cpu]
  BY DEF Types, TypeOK
\* The task of a step is not in its handler, and other tasks are as before.
<1>1. ASSUME NEW t \in Task,
             pc[t] # "waiting" \/ (interrupt[cpu[t]] = None /\ t \in awake),
             UNCHANGED interrupt,
             \A u \in Task \ {t} :
               /\ pc'[u] = pc[u] /\ (u \in awake' <=> u \in awake)
               /\ u \in Elements(global') <=> u \in Elements(global)
      PROVE  /\ \A c \in Cpu : interrupt[c] # t /\ interrupt'[c] # t
             /\ \A u \in Task \ {t} : Released(u)' <=> Released(u)
  <2>1. \A c \in Cpu : interrupt[c] # t
    BY <1>1, CoresAssumption DEF Handlers
  <2> QED
    BY <1>1, <2>1, ReleasedSame
<1>2. ASSUME NEW t \in Task, api_init(t)
      PROVE  Queued'
  <2>1. /\ pc[t] = "none" /\ pc' = [pc EXCEPT ![t] = "init"]
        /\ cpu_id' = [cpu_id EXCEPT ![t] = cpu[t]]
        /\ UNCHANGED <<interrupt, global, active, awake>>
    BY <1>2 DEF api_init, Goto
  <2>2. ~Released(t) /\ ~Released(t)'
    BY <1>0, <2>1 DEF Released
  <2>3. \A u \in Task \ {t} : (Released(u)' <=> Released(u)) /\ cpu_id'[u] = cpu_id[u]
    BY <1>0, <1>1, <2>1
  <2>4. \A u \in Task, c \in Cpu :
          u \in Elements(active'[c]) <=> Released(u)' /\ c = cpu_id'[u]
    <3>1. \A c \in Cpu : t \notin Elements(active'[c])
      BY <2>1, <2>2 DEF Queued
    <3> QED
      BY <2>1, <2>2, <2>3, <3>1 DEF Queued
  <2> QED
    BY <2>1, <2>4 DEF Queued
<1>3. ASSUME NEW t \in Task, api_run(t)
      PROVE  Queued'
  <2>1. /\ pc[t] = "init" /\ pc' = [pc EXCEPT ![t] = "submitted"]
        /\ global' = __global_list_insert(global, t, prio)
        /\ UNCHANGED <<interrupt, active, cpu_id, awake>>
    BY <1>3 DEF api_run, Goto, place
  <2>2. Elements(global') = Elements(global) \cup {t}
    BY <2>1, InsertedList
  <2>3. \A u \in Task \ {t} : Released(u)' <=> Released(u)
    BY <1>0, <1>1, <2>1, <2>2
  <2>4. ~Released(t) /\ ~Released(t)'
    BY <1>0, <2>1 DEF Released
  <2> QED
    BY <2>1, <2>3, <2>4, QueuedKept
<1>4. ASSUME NEW t \in Task, wait_next_period(t)
      PROVE  Queued'
  <2>1. /\ pc[t] = "submitted" /\ pc' = [pc EXCEPT ![t] = "waiting"]
        /\ awake' = awake \ {t}
        /\ UNCHANGED <<interrupt, global, active, cpu_id>>
    BY <1>4 DEF wait_next_period, Goto, place, queues
  <2>2. \A u \in Task \ {t} : Released(u)' <=> Released(u)
    BY <1>0, <1>1, <2>1
  <2>3. ~Released(t) /\ ~Released(t)'
    BY <1>0, <2>1 DEF Released
  <2> QED
    BY <2>1, <2>2, <2>3, QueuedKept
<1>5. ASSUME NEW t \in Task, job_release(t)
      PROVE  Queued'
  <2>1. /\ pc[t] = "submitted" /\ pc' = [pc EXCEPT ![t] = "start"]
        /\ active' = Enqueued(active, t, cpu_id[t])
        /\ UNCHANGED <<interrupt, global, cpu_id, awake>>
    BY <1>5 DEF job_release, Goto, place
  <2>2. /\ \A u \in Task \ {t} : Released(u)' <=> Released(u)
        /\ \A c \in Cpu : interrupt'[c] # t
    BY <1>0, <1>1, <2>1
  <2>3. ~Released(t) /\ Released(t)'
    BY <1>0, <2>1, <2>2 DEF Released, InRequest
  <2> QED
    BY <2>1, <2>2, <2>3, QueuedMore
<1>6. ASSUME NEW t \in Task, job_release_handler(t)
      PROVE  Queued'
  <2>1. /\ pc[t] = "waiting" /\ t \notin awake /\ pc' = pc
        /\ interrupt' = [interrupt EXCEPT ![cpu[t]] = t]
        /\ interrupt[cpu[t]] = None
        /\ awake' = awake \cup {t}
        /\ UNCHANGED <<global, active, cpu_id>>
    BY <1>6 DEF job_release_handler, IrqEnabled, queues
  <2>2. \A u \in Task \ {t}, c \in Cpu : interrupt'[c] = u <=> interrupt[c] = u
    BY <1>0, <2>1, CoresAssumption
  <2>3. \A u \in Task \ {t} : Released(u)' <=> Released(u)
    BY <2>1, <2>2, ReleasedSame
  <2>4. cpu[t] \in Cpu /\ interrupt'[cpu[t]] = t
    BY <1>0, <2>1
  <2>5. ~Released(t) /\ ~Released(t)'
    BY <2>1, <2>4 DEF Released
  <2> QED
    BY <2>1, <2>3, <2>5, QueuedKept
<1>7. ASSUME NEW c \in Cpu, job_release_handler_end(c)
      PROVE  Queued'
  <2>0. PICK t \in Task : t = interrupt[c]
    BY <1>0, <1>7 DEF job_release_handler_end
  <2>1. /\ t \in Task
        /\ active' = Enqueued(active, t, cpu_id[t])
        /\ interrupt' = [interrupt EXCEPT ![c] = None]
        /\ UNCHANGED <<pc, global, cpu_id, awake>>
    BY <1>7, <2>0 DEF job_release_handler_end
  <2>2. pc[t] = "waiting" /\ t \in awake /\ cpu[t] = c
    BY <2>0 DEF Handlers
  <2>3. \A d \in Cpu : interrupt'[d] # t
    BY <1>0, <2>1, <2>2, CoresAssumption DEF Handlers
  <2>4. ~Released(t)
    BY <2>0 DEF Released
  <2>5. \A u \in Task \ {t}, d \in Cpu : interrupt'[d] = u <=> interrupt[d] = u
    BY <1>0, <2>0, <2>1, CoresAssumption
  <2>6. Released(t)'
    BY <2>1, <2>2, <2>3 DEF Released, InRequest
  <2>7. \A u \in Task \ {t} : Released(u)' <=> Released(u)
    BY <2>1, <2>5, ReleasedSame
  <2> QED
    BY <2>1, <2>4, <2>6, <2>7, QueuedMore
<1>8. ASSUME NEW t \in Task, Woken(t) \/ job_start(t) \/ test_migration(t) \/ set_cpus_allowed(t)
      PROVE  Queued'
  <2>1. /\ pc[t] \in {"waiting", "start", "job", "moved"}
        /\ pc[t] = "waiting" => interrupt[cpu[t]] = None /\ t \in awake
        /\ \E p \in {"start", "job", "start_locked", "migrate_locked"} :
             pc' = [pc EXCEPT ![t] = p]
        /\ UNCHANGED <<interrupt, global, active, cpu_id, awake>>
    BY <1>8 DEF Woken, job_start, test_migration, set_cpus_allowed, Runs, Goto,
       place, queues
  <2>2. pc'[t] \in {"start", "job", "start_locked", "migrate_locked"}
    BY <1>0, <2>1
  <2>3. /\ \A u \in Task \ {t} : Released(u)' <=> Released(u)
        /\ \A c \in Cpu : interrupt[c] # t /\ interrupt'[c] # t
    BY <1>0, <1>1, <2>1
  <2>4. Released(t) /\ Released(t)'
    BY <2>1, <2>2, <2>3 DEF Released, InRequest
  <2> QED
    BY <2>1, <2>3, <2>4, QueuedKept
<1>9. ASSUME NEW t \in Task, job_start_move(t) \/ migrate_task(t)
      PROVE  Queued'
  <2>1. PICK c \in Cpu : active' = Moved(t, c) /\ cpu_id' = [cpu_id EXCEPT ![t] = c]
    BY <1>0, <1>9 DEF job_start_move, migrate_task
  <2>2. /\ pc[t] \in {"start_locked", "migrate_locked"}
        /\ \E p \in {"job", "moved"} : pc' = [pc EXCEPT ![t] = p]
        /\ UNCHANGED <<interrupt, global, awake>>
    BY <1>9 DEF job_start_move, migrate_task, Goto, place
  <2>3. /\ \A u \in Task \ {t} : Released(u)' <=> Released(u)
        /\ \A d \in Cpu : interrupt'[d] # t
    BY <1>0, <1>1, <2>2
  <2>4. pc'[t] \in {"job", "moved"}
    BY <1>0, <2>2
  <2>5. Released(t)'
    BY <2>3, <2>4 DEF Released, InRequest
  <2> QED
    BY <2>1, <2>3, <2>5, QueuedMoved
<1>10. ASSUME NEW t \in Task, api_wait_for_period(t) \/ api_exit(t)
       PROVE  Queued'
  <2>1. /\ pc[t] = "job" /\ active' = Dequeued(active, t)
        /\ \E p \in {"submitted", "none"} : pc' = [pc EXCEPT ![t] = p]
        /\ global' = global \/ global' = Without(global, t)
        /\ UNCHANGED <<interrupt, cpu_id, awake>>
    BY <1>10 DEF api_wait_for_period, api_exit, Goto, place
  <2>2. \A u \in Task \ {t} : u \in Elements(global') <=> u \in Elements(global)
    <3>1. Elements(Without(global, t)) = Elements(global) \ {t}
      BY WithoutProperties DEF Types, TypeOK
    <3> QED
      BY <2>1, <3>1
  <2>3. \A u \in Task \ {t} : Released(u)' <=> Released(u)
    BY <1>0, <1>1, <2>1, <2>2
  <2>4. pc'[t] \in {"submitted", "none"}
    BY <1>0, <2>1
  <2>5. ~Released(t)'
    BY <2>4 DEF Released
  <2> QED
    BY <2>1, <2>3, <2>5, QueuedLess
<1>11. ASSUME NEW t \in Task, NEW p \in Prios, request_change_prio(t, p)
       PROVE  Queued'
  <2>1. /\ pc[t] \in {"init", "job"} /\ pc' = [pc EXCEPT ![t] = "requested"]
        /\ UNCHANGED <<interrupt, global, active, cpu_id, awake>>
    BY <1>11 DEF request_change_prio, Goto, place, queues
  <2>2. /\ \A u \in Task \ {t} : Released(u)' <=> Released(u)
        /\ \A c \in Cpu : interrupt[c] # t /\ interrupt'[c] # t
    BY <1>0, <1>1, <2>1
  <2>3. pc[t] = "job" <=> task_is_submitted(t)
    BY <2>1 DEF Submitted, InRequest
  <2>4. Released(t)' <=> Released(t)
    BY <1>0, <2>1, <2>2, <2>3 DEF Released, InRequest, task_is_submitted
  <2> QED
    BY <2>1, <2>2, <2>4, QueuedKept
<1>12. ASSUME NEW t \in Task, request_sleep(t)
       PROVE  Queued'
  <2>1. /\ pc[t] = "requested" /\ pc' = [pc EXCEPT ![t] = "changing"]
        /\ awake' = awake \ {t}
        /\ UNCHANGED <<interrupt, global, active, cpu_id>>
    BY <1>12 DEF request_sleep, Goto, place, queues
  <2>2. \A u \in Task \ {t} : Released(u)' <=> Released(u)
    BY <1>0, <1>1, <2>1
  <2>3. Released(t)' <=> Released(t)
    BY <1>0, <2>1 DEF Released, InRequest, task_is_submitted
  <2> QED
    BY <2>1, <2>2, <2>3, QueuedKept
<1>13. ASSUME NEW t \in Task, request_return(t)
       PROVE  Queued'
  <2>1. /\ pc[t] = "changing"
        /\ pc' = [pc EXCEPT ![t] = IF task_is_submitted(t) THEN "job" ELSE "init"]
        /\ UNCHANGED <<interrupt, global, active, cpu_id, awake>>
    BY <1>13 DEF request_return, Goto, place, queues
  <2>2. \A u \in Task \ {t} : Released(u)' <=> Released(u)
    BY <1>0, <1>1, <2>1
  <2>3. Released(t)' <=> Released(t)
    BY <1>0, <2>1 DEF Released, InRequest, task_is_submitted
  <2> QED
    BY <2>1, <2>2, <2>3, QueuedKept
<1>14. ASSUME NEW c \in Cpu, requeue_task(c)
       PROVE  Queued'
  <2>0. PICK t \in Task : t = req[c]
    BY <1>14, CoresAssumption DEF requeue_task, ThreadRuns, Requests, Types, TypeOK
  <2>1. /\ active' = IF task_is_active(t) THEN Moved(t, cpu_id[t]) ELSE active
        /\ UNCHANGED <<pc, interrupt, global, cpu_id, awake>>
    BY <1>14, <2>0 DEF requeue_task, place
  <2>2. \A u \in Task : Released(u)' <=> Released(u)
    BY <2>1, ReleasedSame
  <2>3. CASE task_is_active(t)
    <3>1. Released(t)
      BY <2>1, <2>3 DEF task_is_active, Queued
    <3>2. cpu_id' = [cpu_id EXCEPT ![t] = cpu_id[t]] /\ cpu_id[t] \in Cpu
      BY <1>0, <2>1
    <3>3. active' = Moved(t, cpu_id[t])
      BY <2>1, <2>3
    <3> QED
      BY <2>1, <2>2, <3>1, <3>2, <3>3, QueuedMoved
  <2>4. CASE ~task_is_active(t)
    BY <2>1, <2>2, <2>4, QueuedKept
  <2> QED
    BY <2>3, <2>4
<1>15. ASSUME NEW c \in Cpu, global_list_reinsert(c)
       PROVE  Queued'
  <2>1. UNCHANGED <<pc, interrupt, active, cpu_id, awake>>
    BY <1>15 DEF global_list_reinsert, place
  <2>2. Elements(global') = Elements(global)
    <3>1. CASE task_is_submitted(req[c])
      <4>1. req[c] \in Task /\ req[c] \in Elements(global)
        BY <3>1 DEF task_is_submitted, Types, TypeOK
      <4>2. Elements(Reinserted(req[c])) = Elements(global) \cup {req[c]}
        BY <4>1, ReinsertedList
      <4> QED
        BY <1>15, <3>1, <4>1, <4>2 DEF global_list_reinsert
    <3>2. CASE ~task_is_submitted(req[c])
      BY <1>15, <3>2 DEF global_list_reinsert
    <3> QED
      BY <3>1, <3>2
  <2> QED
    BY <2>1, <2>2, ReleasedSame, QueuedKept
<1>16. ASSUME NEW c \in Cpu, wake_up_task(c)
       PROVE  Queued'
  <2>1. /\ UNCHANGED <<pc, interrupt, global, active, cpu_id>>
        /\ awake' = awake \cup {req[c]}
    BY <1>16 DEF wake_up_task, place, queues
  <2>2. \A u \in Task : req[c] = u => pc[u] # "waiting"
    BY DEF Requests, Pending, InCall
  <2>3. \A u \in Task : pc[u] = "waiting" => (u \in awake' <=> u \in awake)
    BY <2>1, <2>2
  <2> QED
    BY <2>1, <2>3, ReleasedSame, QueuedKept
<1>17. ASSUME \/ \E t \in Task : LoadBalance(t)
              \/ \E c \in Cpu : schedule(c) \/ setscheduler(c) \/ change_prio(c)
              \/ UNCHANGED vars
       PROVE  Queued'
  <2>1. UNCHANGED <<pc, interrupt, global, active, cpu_id, awake>>
    BY <1>17 DEF LoadBalance, schedule, setscheduler, change_prio, vars, place, queues
  <2> QED
    BY <2>1, ReleasedSame, QueuedKept
<1> QED
  BY <1>2, <1>3, <1>4, <1>5, <1>6, <1>7, <1>8, <1>9, <1>10, <1>11, <1>12, <1>13,
     <1>14, <1>15, <1>16, <1>17 DEF Next, SystemCall, InKernel, Thread

----------------------------------------------------------------------------
(* Jobs stay on the core of their queue.                                   *)

LEMMA InitPinned == Init => Pinned
BY DEF Init, Pinned, InRequest

LEMMA NextPinned ==
  ASSUME Types, Submitted, Requests, Pinned, [Next]_vars
  PROVE  Pinned'
<1> USE DEF Pinned, InRequest
<1>0. /\ pc \in [Task -> Places] /\ {cpu, cpu_id} \subseteq [Task -> Cpu]
      /\ allowed \in [Task -> (SUBSET Cpu) \ {{}}]
  BY DEF Types, TypeOK
\* Other tasks than the one of a step.
<1>1. ASSUME NEW t \in Task,
             \A u \in Task \ {t} :
               /\ pc'[u] = pc[u] /\ cpu'[u] = cpu[u] /\ cpu_id'[u] = cpu_id[u]
               /\ allowed'[u] = allowed[u]
               /\ u \in Elements(global') <=> u \in Elements(global),
             pc'[t] = "start_locked" => allowed'[t] = {cpu'[t]},
             \/ pc'[t] \in {"job", "migrate_locked"}
             \/ pc'[t] \in InRequest /\ t \in Elements(global')
             => cpu'[t] = cpu_id'[t] /\ allowed'[t] = {cpu'[t]}
      PROVE  Pinned'
  BY <1>1 DEF task_is_submitted
\* The task goes where it may be moved.
<1>2. ASSUME NEW t \in Task,
             \/ api_init(t) \/ wait_next_period(t) \/ job_release(t) \/ Woken(t)
             \/ api_wait_for_period(t) \/ migrate_task(t) \/ job_release_handler(t)
      PROVE  Pinned'
  <2>1. /\ \E p \in {"init", "waiting", "start", "submitted", "moved"} :
             pc' = [pc EXCEPT ![t] = p]
        /\ UNCHANGED global
    BY <1>0, <1>2 DEF api_init, wait_next_period, job_release, Woken,
       api_wait_for_period, migrate_task, job_release_handler, Goto, queues
  <2>2. \A u \in Task \ {t} : /\ cpu'[u] = cpu[u] /\ cpu_id'[u] = cpu_id[u]
                              /\ allowed'[u] = allowed[u]
    BY <1>0, <1>2 DEF api_init, wait_next_period, job_release, Woken,
       api_wait_for_period, migrate_task, job_release_handler, place, queues
  <2>3. /\ \A u \in Task \ {t} : pc'[u] = pc[u]
        /\ pc'[t] \in {"init", "waiting", "start", "submitted", "moved"}
    BY <1>0, <2>1
  <2> QED
    BY <1>1, <2>1, <2>2, <2>3
<1>3. ASSUME NEW t \in Task, api_run(t)
      PROVE  Pinned'
  <2>1. /\ pc' = [pc EXCEPT ![t] = "submitted"]
        /\ global' = __global_list_insert(global, t, prio)
        /\ UNCHANGED <<cpu, cpu_id, allowed>>
    BY <1>3 DEF api_run, Goto, place
  <2>2. Elements(global') = Elements(global) \cup {t}
    BY <2>1, InsertedList
  <2>3. pc'[t] = "submitted" /\ \A u \in Task \ {t} : pc'[u] = pc[u]
    BY <1>0, <2>1
  <2> QED
    BY <1>1, <2>1, <2>2, <2>3
<1>4. ASSUME NEW t \in Task, api_exit(t)
      PROVE  Pinned'
  <2>1. /\ pc' = [pc EXCEPT ![t] = "none"] /\ global' = Without(global, t)
        /\ UNCHANGED <<cpu, cpu_id, allowed>>
    BY <1>4 DEF api_exit, Goto, place
  <2>0. global \in Seq(Task) /\ Distinct(global)
    BY DEF Types, TypeOK
  <2>2. Elements(global') = Elements(global) \ {t}
    BY <2>1, <2>0, WithoutProperties
  <2>3. pc'[t] = "none" /\ \A u \in Task \ {t} : pc'[u] = pc[u]
    BY <1>0, <2>1
  <2> QED
    BY <1>1, <2>1, <2>2, <2>3
<1>5. ASSUME NEW t \in Task, job_start(t)
      PROVE  Pinned'
  <2>1. /\ allowed' = [allowed EXCEPT ![t] = {cpu[t]}]
        /\ \/ cpu[t] = cpu_id[t] /\ pc' = [pc EXCEPT ![t] = "job"]
           \/ pc' = [pc EXCEPT ![t] = "start_locked"]
        /\ UNCHANGED <<global, cpu, cpu_id>>
    BY <1>5 DEF job_start, disable_load_balance, Goto
  <2>2. \A u \in Task \ {t} : pc'[u] = pc[u] /\ allowed'[u] = allowed[u]
    BY <1>0, <2>1
  <2>3. /\ allowed'[t] = {cpu[t]}
        /\ pc'[t] = "start_locked" \/ (pc'[t] = "job" /\ cpu[t] = cpu_id[t])
    BY <1>0, <2>1
  <2> QED
    BY <1>1, <2>1, <2>2, <2>3
<1>6. ASSUME NEW t \in Task, job_start_move(t)
      PROVE  Pinned'
  <2>1. /\ pc[t] = "start_locked" /\ pc' = [pc EXCEPT ![t] = "job"]
        /\ cpu_id' = [cpu_id EXCEPT ![t] = cpu[t]]
        /\ UNCHANGED <<global, cpu, allowed>>
    BY <1>6 DEF job_start_move, Goto, place
  <2>2. /\ \A u \in Task \ {t} : pc'[u] = pc[u] /\ cpu_id'[u] = cpu_id[u]
        /\ pc'[t] = "job" /\ cpu_id'[t] = cpu[t]
    BY <1>0, <2>1
  <2> QED
    BY <1>1, <2>1, <2>2
<1>7. ASSUME NEW t \in Task, test_migration(t)
      PROVE  Pinned'
  <2>1. /\ pc[t] = "job" /\ pc' = [pc EXCEPT ![t] = "migrate_locked"]
        /\ UNCHANGED <<global, cpu, cpu_id, allowed>>
    BY <1>7 DEF test_migration, Goto, place
  <2>2. pc'[t] = "migrate_locked" /\ \A u \in Task \ {t} : pc'[u] = pc[u]
    BY <1>0, <2>1
  <2> QED
    BY <1>1, <2>1, <2>2
<1>8. ASSUME NEW t \in Task, set_cpus_allowed(t)
      PROVE  Pinned'
  <2>1. /\ pc' = [pc EXCEPT ![t] = "job"]
        /\ cpu' = [cpu EXCEPT ![t] = cpu_id[t]]
        /\ allowed' = [allowed EXCEPT ![t] = {cpu_id[t]}]
        /\ UNCHANGED <<global, cpu_id>>
    BY <1>8 DEF set_cpus_allowed, Goto, queues
  <2>2. /\ \A u \in Task \ {t} :
             pc'[u] = pc[u] /\ cpu'[u] = cpu[u] /\ allowed'[u] = allowed[u]
        /\ cpu'[t] = cpu_id[t] /\ allowed'[t] = {cpu_id[t]} /\ pc'[t] = "job"
    BY <1>0, <2>1
  <2> QED
    BY <1>1, <2>1, <2>2
<1>9. ASSUME NEW t \in Task, NEW p \in Prios, request_change_prio(t, p)
      PROVE  Pinned'
  <2>1. /\ pc[t] \in {"init", "job"} /\ pc' = [pc EXCEPT ![t] = "requested"]
        /\ UNCHANGED <<global, cpu, cpu_id, allowed>>
    BY <1>9 DEF request_change_prio, Goto, place, queues
  <2>2. t \in Elements(global) => pc[t] = "job"
    BY <2>1 DEF Submitted, task_is_submitted
  <2>3. pc'[t] = "requested" /\ \A u \in Task \ {t} : pc'[u] = pc[u]
    BY <1>0, <2>1
  <2> QED
    BY <1>1, <2>1, <2>2, <2>3
<1>10. ASSUME NEW t \in Task, request_sleep(t) \/ request_return(t)
       PROVE  Pinned'
  <2>1. /\ pc[t] \in InRequest
        /\ \/ pc' = [pc EXCEPT ![t] = "changing"]
           \/ pc' = [pc EXCEPT ![t] = "job"] /\ t \in Elements(global)
           \/ pc' = [pc EXCEPT ![t] = "init"]
        /\ UNCHANGED <<global, cpu, cpu_id, allowed>>
    BY <1>10 DEF request_sleep, request_return, Goto, place, queues, task_is_submitted
  <2>2. /\ \/ pc'[t] = "changing"
           \/ pc'[t] = "job" /\ t \in Elements(global)
           \/ pc'[t] = "init"
        /\ \A u \in Task \ {t} : pc'[u] = pc[u]
    BY <1>0, <2>1
  <2> QED
    BY <1>1, <2>1, <2>2 DEF task_is_submitted
<1>11. ASSUME NEW t \in Task, LoadBalance(t)
       PROVE  Pinned'
  <2>1. PICK c \in allowed[t] \ {cpu[t]} : cpu' = [cpu EXCEPT ![t] = c]
    BY <1>11 DEF LoadBalance
  <2>2. pc[t] \in {"none", "init"} /\ UNCHANGED <<pc, global, cpu_id, allowed>>
    BY <1>11, <2>1 DEF LoadBalance, UserMode, queues
  <2>3. \A u \in Task \ {t} : cpu'[u] = cpu[u]
    BY <1>0, <2>1
  <2> QED
    BY <1>1, <2>2, <2>3
<1>12. ASSUME NEW c \in Cpu, global_list_reinsert(c)
       PROVE  Pinned'
  <2>1. UNCHANGED <<pc, cpu, cpu_id, allowed>>
    BY <1>12 DEF global_list_reinsert, place
  <2>2. Elements(global') = Elements(global)
    <3>1. CASE task_is_submitted(req[c])
      <4>1. req[c] \in Task /\ req[c] \in Elements(global)
        BY <3>1 DEF task_is_submitted, Types, TypeOK
      <4>2. Elements(Reinserted(req[c])) = Elements(global) \cup {req[c]}
        BY <4>1, ReinsertedList
      <4> QED
        BY <1>12, <3>1, <4>1, <4>2 DEF global_list_reinsert
    <3>2. CASE ~task_is_submitted(req[c])
      BY <1>12, <3>2 DEF global_list_reinsert
    <3> QED
      BY <3>1, <3>2
  <2> QED
    BY <2>1, <2>2 DEF task_is_submitted
<1>13. ASSUME \/ \E c \in Cpu : \/ schedule(c) \/ setscheduler(c) \/ change_prio(c)
                                \/ requeue_task(c) \/ wake_up_task(c)
                                \/ job_release_handler_end(c)
              \/ UNCHANGED vars
       PROVE  Pinned'
  <2>1. UNCHANGED <<pc, global, cpu, cpu_id, allowed>>
    BY <1>13 DEF schedule, setscheduler, change_prio, requeue_task, wake_up_task,
       job_release_handler_end, vars, place, queues
  <2> QED
    BY <2>1 DEF task_is_submitted
<1> QED
  BY <1>2, <1>3, <1>4, <1>5, <1>6, <1>7, <1>8, <1>9, <1>10, <1>11, <1>12, <1>13
     DEF Next, SystemCall, InKernel, Thread

----------------------------------------------------------------------------
(* The theorems.                                                           *)

Inv == Types /\ Submitted /\ Requests

LEMMA Invariant == Spec => []Inv
<1>1. Init => Inv
  BY InitTypes, InitSubmitted, InitRequests DEF Inv
<1>2. Inv /\ [Next]_vars => Inv'
  BY NextTypes, NextSubmitted, NextRequests DEF Inv
<1> QED
  BY <1>1, <1>2, PTL DEF Spec

\* The types, for any tasks and cores.
THEOREM TypeCorrect == Spec => []TypeOK
<1>1. Inv => TypeOK
  BY DEF Inv, Types
<1> QED
  BY <1>1, Invariant, PTL

\* A request for another priority is in one list or with one thread, and its
\* task sleeps until the priority is changed, preemption in the kernel or not.
THEOREM RequestsExact == Spec => []RequestExact
<1>1. Inv => RequestExact
  <2> SUFFICES ASSUME Inv
               PROVE  RequestExact
    OBVIOUS
  <2>1. ASSUME NEW c \in Cpu, NEW t \in Elements(list[c]) \cup ({req[c]} \ {None})
        PROVE  /\ pc[t] \in InRequest
               /\ \A d \in Cpu : t \in Elements(list[d]) => d = c /\ req[d] # t
    <3>1. list[c] \in Seq(Task) /\ req[c] \in Task \cup {None}
      BY DEF Inv, Types, TypeOK
    <3>2. Elements(list[c]) \subseteq Task
      BY <3>1, ElementsOfSeq
    <3>3. t \in Task /\ Pending(t, c)
      BY <3>1, <3>2 DEF Pending, Listed
    <3>4. InCall(t) /\ \A d \in Cpu : Pending(t, d) => d = c
      BY <3>3 DEF Inv, Requests
    <3>5. \A d \in Cpu : Listed(t, d) => Pending(t, d) /\ req[d] # t
      BY <3>3 DEF Inv, Requests, Pending
    <3> QED
      BY <3>4, <3>5 DEF InCall, InRequest, Listed
  <2>2. ASSUME NEW t \in Task, pc[t] = "changing", t \in awake
        PROVE  prio[t] = want[t]
    <3>1. \A c \in Cpu : ~Pending(t, c)
      BY <2>2 DEF Inv, Requests, InCall
    <3> QED
      BY <2>2, <3>1 DEF Inv, Requests, Pending, InRequest
  <2>3. \A c \in Cpu : Distinct(list[c])
    BY DEF Inv, Requests
  <2> QED
    BY <2>1, <2>2, <2>3 DEF RequestExact
<1> QED
  BY <1>1, Invariant, PTL

\* The active queues hold the released jobs, each once and on the core that
\* executes it, as long as the kernel wakes tasks where they fell asleep.
THEOREM QueuesOfCpus ==
  ASSUME ~WakeAnywhere
  PROVE  Spec => []QueueOfCpu
<1> DEFINE QInv == Inv /\ Handlers /\ Queued /\ Pinned
<1>1. Init => QInv
  BY InitTypes, InitSubmitted, InitRequests, InitHandlers, InitQueued, InitPinned
     DEF Inv
<1>2. QInv /\ [Next]_vars => QInv'
  BY NextTypes, NextSubmitted, NextRequests, NextHandlers, NextQueued, NextPinned
     DEF Inv
<1>3. QInv => QueueOfCpu
  <2> SUFFICES ASSUME QInv, NEW t \in Task
               PROVE  /\ IF Released(t)
                         THEN \E i \in DOMAIN active[cpu_id[t]] :
                                Entries(t) = {<<cpu_id[t], i>>}
                         ELSE Entries(t) = {}
                      /\ pc[t] = "job" => cpu[t] = cpu_id[t] /\ allowed[t] = {cpu[t]}
    BY DEF QueueOfCpu
  <2>1. \A c \in Cpu : DOMAIN active[c] = 1 .. Len(active[c])
    BY LenProperties DEF Inv, Types
  <2>2. \A e : e \in Entries(t) <=>
          \E c \in Cpu : \E i \in 1 .. Len(active[c]) :
            e = <<c, i>> /\ active[c][i] = t
    BY <2>1 DEF Entries
  <2>3. cpu_id[t] \in Cpu
    BY DEF Inv, Types, TypeOK
  <2>4. CASE Released(t)
    <3>1. PICK i \in 1 .. Len(active[cpu_id[t]]) : active[cpu_id[t]][i] = t
      BY <2>3, <2>4 DEF Queued, Elements
    <3>2. \A c \in Cpu : \A j \in 1 .. Len(active[c]) :
            active[c][j] = t => c = cpu_id[t] /\ j = i
      BY <3>1 DEF Queued, Elements, Distinct
    <3>3. Entries(t) = {<<cpu_id[t], i>>}
      BY <2>2, <2>3, <3>1, <3>2
    <3> QED
      BY <2>1, <2>3, <2>4, <3>1, <3>3 DEF Pinned
  <2>5. CASE ~Released(t)
    <3>1. \A c \in Cpu : \A j \in 1 .. Len(active[c]) : active[c][j] # t
      BY <2>5 DEF Queued, Elements
    <3>2. Entries(t) = {}
      BY <2>2, <3>1
    <3> QED
      BY <2>5, <3>2 DEF Pinned
  <2> QED
    BY <2>4, <2>5
<1> QED
  BY <1>1, <1>2, <1>3, PTL DEF Spec

----------------------------------------------------------------------------
(* The admission of tasks.                                                 *)

\* What the assumptions say.
LEMMA Units ==
  /\ priority \in [RtTask -> Nat]
  /\ USEC_1MSEC \in Nat \ {0} /\ MSEC_1SEC \in Nat \ {0}
  /\ HZ \in Nat \ {0} /\ ULONG_MOD \in Nat \ {0}
  /\ USEC_1SEC = USEC_1MSEC * MSEC_1SEC
  /\ USEC_1SEC \in Nat \ {0}
  /\ \A x \in PeriodArgs \cup DeadlineArgs \cup WcetArgs \cup ClockArgs :
       x.tv_sec \in Nat /\ x.tv_usec \in 0 .. USEC_1SEC - 1
<1>1. /\ USEC_1MSEC \in Nat \ {0} /\ MSEC_1SEC \in Nat \ {0}
      /\ HZ \in Nat \ {0} /\ ULONG_MOD \in Nat \ {0}
      /\ priority \in [RtTask -> Nat]
  BY AdmissionAssumption, TvOpsAssumption
<1>2. USEC_1SEC = USEC_1MSEC * MSEC_1SEC
  BY DEF USEC_1SEC
<1>3. USEC_1SEC \in Nat \ {0}
  <2>1. MSEC_1SEC >= 1 /\ USEC_1MSEC * 1 = USEC_1MSEC
    BY <1>1
  <2>2. USEC_1MSEC * 1 <= USEC_1MSEC * MSEC_1SEC /\ USEC_1MSEC * MSEC_1SEC \in Nat
    BY <1>1, <2>1, Product
  <2> QED
    BY <1>1, <1>2, <2>1, <2>2
<1>4. \A x \in PeriodArgs \cup DeadlineArgs \cup WcetArgs \cup ClockArgs :
        x.tv_sec \in Nat /\ x.tv_usec \in 0 .. USEC_1SEC - 1
  BY AdmissionAssumption DEF Normal
<1> QED
  BY <1>1, <1>2, <1>3, <1>4

----------------------------------------------------------------------------
(* The arguments.                                                          *)

Arg == PeriodArgs \cup DeadlineArgs \cup WcetArgs

\* A time in jiffies, and in microseconds.
Jiffies(x) == msecs_to_jiffies(to_msecs(x))

LEMMA ArgTypes ==
  ASSUME NEW x \in Arg
  PROVE  /\ to_usecs(x) \in Nat /\ Jiffies(x) \in Nat
         /\ HZ = MSEC_1SEC => /\ Jiffies(x) = to_msecs(x)
                              /\ Jiffies(x) * USEC_1MSEC <= to_usecs(x)
<1>1. PICK m, M, U, s, us :
        /\ m = USEC_1MSEC /\ M = MSEC_1SEC /\ U = USEC_1SEC
        /\ s = x.tv_sec /\ us = x.tv_usec
  OBVIOUS
<1>2. /\ m \in Nat \ {0} /\ M \in Nat \ {0} /\ U \in Nat /\ U = m * M
      /\ s \in Nat /\ us \in Nat /\ HZ \in Nat
  BY <1>1, Units DEF Arg
<1>3. PICK q, r : q = us \div m /\ r = us % m
  OBVIOUS
<1>4. q \in Nat /\ r \in Nat /\ us = m * q + r
  BY <1>2, <1>3, DivMod
<1>5. to_usecs(x) = s * U + us /\ to_msecs(x) = s * M + q
  BY <1>1, <1>3 DEF to_usecs, to_msecs
<1>6. s * U \in Nat /\ s * M \in Nat /\ m * q \in Nat
  BY <1>2, <1>4, Product
<1>7. PICK ms : ms = to_msecs(x) /\ ms \in Nat
  BY <1>4, <1>5, <1>6
<1>8. Jiffies(x) = (ms * HZ + M - 1) \div M
  BY <1>1, <1>7 DEF Jiffies, msecs_to_jiffies, DivUp
<1>9. Jiffies(x) \in Nat
  <2>1. ms * HZ \in Nat
    BY <1>2, <1>7, Product
  <2>2. Ceiling((ms * HZ + M - 1) \div M, ms * HZ, M)
    BY <1>2, <2>1, RoundedUp
  <2> QED
    BY <1>8, <2>2 DEF Ceiling
<1>10. ASSUME HZ = MSEC_1SEC
       PROVE  Jiffies(x) = ms /\ Jiffies(x) * m <= s * U + us
  <2>1. ms * HZ + M - 1 = M * ms + (M - 1) /\ M - 1 \in 0 .. M - 1
    BY <1>1, <1>2, <1>7, <1>10
  <2>2. (M * ms + (M - 1)) \div M = ms
    BY <1>2, <1>7, <2>1, DivOf
  <2>3. Jiffies(x) = ms
    BY <1>8, <2>1, <2>2
  <2>4. (s * M + q) * m = s * (m * M) + m * q
    BY <1>2, <1>4
  <2>5. (s * M + q) * m = s * U + m * q
    BY <1>2, <2>4
  <2> QED
    BY <1>2, <1>4, <1>5, <1>6, <1>7, <2>3, <2>5
<1>11. s * U + us \in Nat
  BY <1>2, <1>6
<1> QED
  BY <1>1, <1>5, <1>7, <1>9, <1>10, <1>11

----------------------------------------------------------------------------
(* The invariant.                                                          *)

Listing ==
  /\ submitted \subseteq RtTask /\ task_list \in Seq(RtTask)
  /\ Elements(task_list) = submitted /\ Distinct(task_list)
  /\ Sorted(task_list, priority)

Kept ==
  /\ {period, deadline, wcet} \subseteq [RtTask -> Nat]
  /\ asked \in [RtTask -> [period : Nat, deadline : Nat]]

Measured ==
  /\ switch_begin \in ClockArgs \cup {tvclear}
  /\ switch_cost = measured /\ switch_cost \in 0 .. USEC_1SEC - 1

\* What is kept is not more than what was asked for.
NotMore ==
  \A t \in RtTask : /\ period[t] * USEC_1MSEC <= asked[t].period
                    /\ deadline[t] * USEC_1MSEC <= asked[t].deadline

\* No deadline is longer than d jiffies and no execution time than c.
Within(d, c) == \A t \in RtTask : deadline[t] <= d /\ wcet[t] <= c
ArgsWithin(d, c) ==
  /\ \A x \in PeriodArgs \cup DeadlineArgs : Jiffies(x) <= d
  /\ \A x \in WcetArgs : to_usecs(x) <= c

AdmInv == Listing /\ Kept /\ Measured

LEMMA AdmInit ==
  ASSUME AdmissionInit
  PROVE  /\ AdmInv /\ NotMore
         /\ \A d, c \in Nat : Within(d, c)
<1>1. /\ submitted = {} /\ task_list = <<>>
      /\ period = [t \in RtTask |-> 0] /\ deadline = [t \in RtTask |-> 0]
      /\ wcet = [t \in RtTask |-> 0]
      /\ asked = [t \in RtTask |-> [period |-> 0, deadline |-> 0]]
      /\ switch_begin = tvclear /\ switch_cost = 0 /\ measured = 0
  BY DEF AdmissionInit
<1>2. Listing
  <2>1. task_list \in Seq(RtTask) /\ Len(task_list) = 0
    BY <1>1
  <2> QED
    BY <1>1, <2>1 DEF Listing, Elements, Distinct, Sorted
<1>3. Kept
  BY <1>1 DEF Kept
<1>4. Measured
  BY <1>1, Units DEF Measured
<1>5. NotMore
  BY <1>1, Units DEF NotMore
<1>6. \A d, c \in Nat : Within(d, c)
  BY <1>1 DEF Within
<1> QED
  BY <1>2, <1>3, <1>4, <1>5, <1>6 DEF AdmInv

\* The calls that set a parameter, and the end of a task, which clears all.
LEMMA AdmKept ==
  ASSUME Kept, NEW t \in RtTask,
         \/ \E x \in PeriodArgs : rt_set_period(t, x)
         \/ \E x \in DeadlineArgs : rt_set_deadline(t, x)
         \/ \E x \in WcetArgs : rt_set_wcet(t, x)
         \/ rt_exit(t)
  PROVE  /\ Kept'
         /\ HZ = MSEC_1SEC /\ NotMore => NotMore'
         /\ \A d, c \in Nat : ArgsWithin(d, c) /\ Within(d, c) => Within(d, c)'
<1>0. /\ period \in [RtTask -> Nat] /\ deadline \in [RtTask -> Nat]
      /\ wcet \in [RtTask -> Nat] /\ asked \in [RtTask -> [period : Nat, deadline : Nat]]
  BY DEF Kept
<1>1. CASE \E x \in PeriodArgs : rt_set_period(t, x)
  <2>1. PICK x \in PeriodArgs : rt_set_period(t, x)
    BY <1>1
  <2>2. PICK j, us : j = Jiffies(x) /\ us = to_usecs(x)
    OBVIOUS
  <2>3. /\ j \in Nat /\ us \in Nat
        /\ HZ = MSEC_1SEC => j * USEC_1MSEC <= us
    BY <2>2, ArgTypes DEF Arg
  <2>4. /\ period' = [period EXCEPT ![t] = j]
        /\ deadline' = [deadline EXCEPT ![t] = IF deadline[t] = 0 THEN j ELSE deadline[t]]
        /\ asked' = [asked EXCEPT
             ![t] = [period |-> us,
                     deadline |-> IF deadline[t] = 0 THEN us ELSE asked[t].deadline]]
        /\ wcet' = wcet
    BY <1>0, <2>1, <2>2 DEF rt_set_period, Jiffies
  <2>5. Kept'
    BY <1>0, <2>3, <2>4 DEF Kept
  <2>6. ASSUME HZ = MSEC_1SEC, NotMore
        PROVE  NotMore'
    BY <1>0, <2>3, <2>4, <2>6 DEF NotMore
  <2>7. ASSUME NEW d \in Nat, NEW c \in Nat, ArgsWithin(d, c), Within(d, c)
        PROVE  Within(d, c)'
    <3>1. j <= d
      BY <2>2, <2>7 DEF ArgsWithin
    <3> QED
      BY <1>0, <2>4, <2>7, <3>1 DEF Within
  <2> QED
    BY <2>5, <2>6, <2>7
<1>2. CASE \E x \in DeadlineArgs : rt_set_deadline(t, x)
  <2>1. PICK x \in DeadlineArgs : rt_set_deadline(t, x)
    BY <1>2
  <2>2. PICK j, us : j = Jiffies(x) /\ us = to_usecs(x)
    OBVIOUS
  <2>3. /\ j \in Nat /\ us \in Nat
        /\ HZ = MSEC_1SEC => j * USEC_1MSEC <= us
    BY <2>2, ArgTypes DEF Arg
  <2>4. /\ deadline' = [deadline EXCEPT ![t] = j]
        /\ asked' = [asked EXCEPT ![t].deadline = us]
        /\ period' = period /\ wcet' = wcet
    BY <2>1, <2>2 DEF rt_set_deadline, Jiffies
  <2>5. Kept'
    BY <1>0, <2>3, <2>4 DEF Kept
  <2>6. ASSUME HZ = MSEC_1SEC, NotMore
        PROVE  NotMore'
    BY <1>0, <2>3, <2>4, <2>6 DEF NotMore
  <2>7. ASSUME NEW d \in Nat, NEW c \in Nat, ArgsWithin(d, c), Within(d, c)
        PROVE  Within(d, c)'
    <3>1. j <= d
      BY <2>2, <2>7 DEF ArgsWithin
    <3> QED
      BY <1>0, <2>4, <2>7, <3>1 DEF Within
  <2> QED
    BY <2>5, <2>6, <2>7
<1>3. CASE \E x \in WcetArgs : rt_set_wcet(t, x)
  <2>1. PICK x \in WcetArgs : rt_set_wcet(t, x)
    BY <1>3
  <2>2. PICK us : us = to_usecs(x)
    OBVIOUS
  <2>3. us \in Nat
    BY <2>2, ArgTypes DEF Arg
  <2>4. /\ wcet' = [wcet EXCEPT ![t] = us]
        /\ asked' = asked /\ period' = period /\ deadline' = deadline
    BY <2>1, <2>2 DEF rt_set_wcet
  <2>5. Kept'
    BY <1>0, <2>3, <2>4 DEF Kept
  <2>6. NotMore => NotMore'
    BY <2>4 DEF NotMore
  <2>7. ASSUME NEW d \in Nat, NEW c \in Nat, ArgsWithin(d, c), Within(d, c)
        PROVE  Within(d, c)'
    <3>1. us <= c
      BY <2>2, <2>7 DEF ArgsWithin
    <3> QED
      BY <1>0, <2>4, <2>7, <3>1 DEF Within
  <2> QED
    BY <2>5, <2>6, <2>7
<1>4. CASE rt_exit(t)
  <2>1. /\ period' = [period EXCEPT ![t] = 0] /\ deadline' = [deadline EXCEPT ![t] = 0]
        /\ wcet' = [wcet EXCEPT ![t] = 0]
        /\ asked' = [asked EXCEPT ![t] = [period |-> 0, deadline |-> 0]]
    BY <1>4 DEF rt_exit
  <2>2. Kept'
    BY <1>0, <2>1 DEF Kept
  <2>3. NotMore => NotMore'
    BY <1>0, <2>1, Units DEF NotMore
  <2>4. \A d, c \in Nat : Within(d, c) => Within(d, c)'
    BY <1>0, <2>1 DEF Within
  <2> QED
    BY <2>2, <2>3, <2>4
<1> QED
  BY <1>1, <1>2, <1>3, <1>4

\* The microseconds of a difference of less than a second.
LEMMA SecondBorrowed ==
  ASSUME NEW U \in Nat \ {0}, NEW d \in Int, NEW u \in -(U - 1) .. U - 1,
         d * U + u \in 0 .. U - 1
  PROVE  d * U + u = IF u < 0 THEN u + U ELSE u
<1>1. CASE d >= 2
  <2>1. U * 2 <= U * d /\ U * d \in Nat
    BY <1>1, Product
  <2> QED
    BY <1>1, <2>1
<1>2. CASE d < 0
  <2>1. 0 - d \in Nat /\ 1 <= 0 - d
    BY <1>2
  <2>2. U * 1 <= U * (0 - d)
    BY <2>1, Product
  <2>3. U * (0 - d) = 0 - d * U
    OBVIOUS
  <2> QED
    BY <2>2, <2>3
<1>3. CASE d = 0
  BY <1>3
<1>4. CASE d = 1
  BY <1>4
<1> QED
  BY <1>1, <1>2, <1>3, <1>4

LEMMA AdmMeasured ==
  ASSUME Measured, NEW now \in ClockArgs,
         test_switch_begin(now) \/ test_switch_end(now)
  PROVE  Measured'
<1>1. CASE test_switch_begin(now)
  BY <1>1 DEF test_switch_begin, Measured
<1>2. CASE test_switch_end(now)
  <2>1. PICK U, b, p, r :
          /\ U = USEC_1SEC /\ b = switch_begin
          /\ p = Usecs(now) - Usecs(b) /\ r = tvsub(now, b).tv_usec
    OBVIOUS
  <2>2. /\ p \in 0 .. U - 1
        /\ switch_cost' = IF switch_cost < r THEN r ELSE switch_cost
        /\ measured' = IF measured < p THEN p ELSE measured
        /\ switch_begin' = switch_begin
    BY <1>2, <2>1 DEF test_switch_end
  <2>3. /\ U \in Nat \ {0}
        /\ now.tv_sec \in Nat /\ now.tv_usec \in 0 .. U - 1
    BY <2>1, Units
  <2>4. b.tv_sec \in Nat /\ b.tv_usec \in 0 .. U - 1
    <3>1. CASE b \in ClockArgs
      BY <2>1, <3>1, Units
    <3>2. CASE b = tvclear
      BY <2>3, <3>2 DEF tvclear, tv
    <3> QED
      BY <2>1, <3>1, <3>2 DEF Measured
  <2>5. PICK d, u, v, w : /\ d = now.tv_sec - b.tv_sec /\ u = now.tv_usec - b.tv_usec
                          /\ v = now.tv_sec * U /\ w = b.tv_sec * U
    OBVIOUS
  <2>6. d \in Int /\ u \in -(U - 1) .. U - 1
    BY <2>3, <2>4, <2>5
  <2>7. d * U = v - w /\ v \in Nat /\ w \in Nat
    <3>1. v \in Nat /\ w \in Nat
      BY <2>3, <2>4, <2>5, Product
    <3>2. d * U = v - w
      BY <2>3, <2>4, <2>5
    <3> QED
      BY <3>1, <3>2
  <2>8. p = (v - w) + u
    <3>1. p = (v + now.tv_usec) - (w + b.tv_usec)
      BY <2>1, <2>5 DEF Usecs
    <3>2. u = now.tv_usec - b.tv_usec
      BY <2>5
    <3>3. v \in Nat /\ w \in Nat
      BY <2>7
    <3> QED
      BY <2>3, <2>4, <3>1, <3>2, <3>3
  <2>9. p = IF u < 0 THEN u + U ELSE u
    BY <2>2, <2>3, <2>6, <2>7, <2>8, SecondBorrowed
  <2>10. r = IF u < 0 THEN u + U ELSE u
    BY <2>1, <2>5 DEF tvsub, tv
  <2> QED
    BY <2>1, <2>2, <2>9, <2>10 DEF Measured
<1> QED
  BY <1>1, <1>2

LEMMA AdmListed ==
  ASSUME Listing, NEW t \in RtTask, rt_run(t) \/ rt_exit(t)
  PROVE  Listing'
<1>0. /\ submitted \subseteq RtTask /\ task_list \in Seq(RtTask)
      /\ Elements(task_list) = submitted /\ Distinct(task_list)
      /\ Sorted(task_list, priority)
      /\ priority \in [RtTask -> Int]
  BY Units DEF Listing
<1>1. CASE rt_run(t)
  <2>1. /\ t \notin submitted /\ submitted' = submitted \cup {t}
        /\ task_list' = __global_list_insert(task_list, t, priority)
    BY <1>1 DEF rt_run
  <2>2. PICK new : new = __global_list_insert(task_list, t, priority)
    OBVIOUS
  <2>3. /\ new \in Seq(RtTask)
        /\ Elements(new) = Elements(task_list) \cup {t}
        /\ Distinct(new)
    BY <1>0, <2>1, <2>2, Inserted
  <2>4. Sorted(new, priority)
    BY <1>0, <2>2, InsertedSorted
  <2> QED
    BY <1>0, <2>1, <2>2, <2>3, <2>4 DEF Listing, Sorted
<1>2. CASE rt_exit(t)
  <2>1. /\ submitted' = submitted \ {t}
        /\ task_list' = Without(task_list, t)
    BY <1>2 DEF rt_exit, __global_list_remove
  <2>2. PICK new : new = Without(task_list, t)
    OBVIOUS
  <2>3. /\ new \in Seq(RtTask)
        /\ Elements(new) = Elements(task_list) \ {t}
        /\ Distinct(new)
    BY <1>0, <2>2, WithoutProperties
  <2>4. Sorted(new, priority)
    BY <1>0, <2>2, WithoutSorted
  <2> QED
    BY <1>0, <2>1, <2>2, <2>3, <2>4 DEF Listing, Sorted
<1> QED
  BY <1>1, <1>2

LEMMA AdmNext ==
  ASSUME AdmInv, [AdmissionNext]_admission_vars
  PROVE  /\ AdmInv'
         /\ HZ = MSEC_1SEC /\ NotMore => NotMore'
         /\ \A d, c \in Nat : ArgsWithin(d, c) /\ Within(d, c) => Within(d, c)'
<1>0. Listing /\ Kept /\ Measured
  BY DEF AdmInv
<1>1. CASE TestCall
  <2>1. PICK now \in ClockArgs : test_switch_begin(now) \/ test_switch_end(now)
    BY <1>1 DEF TestCall
  <2>2. Measured'
    BY <1>0, <2>1, AdmMeasured
  <2>3. UNCHANGED <<submitted, task_list, period, deadline, wcet, asked>>
    BY <2>1 DEF test_switch_begin, test_switch_end, params
  <2> QED
    BY <1>0, <2>2, <2>3 DEF AdmInv, Listing, Kept, NotMore, Within, Sorted
<1>2. ASSUME NEW t \in RtTask, TaskCall(t)
      PROVE  /\ AdmInv'
             /\ HZ = MSEC_1SEC /\ NotMore => NotMore'
             /\ \A d, c \in Nat : ArgsWithin(d, c) /\ Within(d, c) => Within(d, c)'
  <2>1. UNCHANGED <<switch_begin, switch_cost, measured>>
    BY <1>2 DEF TaskCall, rt_run, rt_exit, rt_set_period,
                rt_set_deadline, rt_set_wcet, costs
  <2>2. Measured'
    BY <1>0, <2>1 DEF Measured
  <2>3. CASE rt_run(t)
    <3>1. Listing'
      BY <1>0, <2>3, AdmListed
    <3>2. UNCHANGED <<period, deadline, wcet, asked>>
      BY <2>3 DEF rt_run, params
    <3> QED
      BY <1>0, <2>2, <3>1, <3>2 DEF AdmInv, Kept, NotMore, Within
  <2>4. CASE rt_exit(t)
    <3>1. Listing'
      BY <1>0, <2>4, AdmListed
    <3>2. /\ Kept'
          /\ HZ = MSEC_1SEC /\ NotMore => NotMore'
          /\ \A d, c \in Nat : ArgsWithin(d, c) /\ Within(d, c) => Within(d, c)'
      BY <1>0, <2>4, AdmKept
    <3> QED
      BY <2>2, <3>1, <3>2 DEF AdmInv
  <2>5. CASE \/ \E x \in PeriodArgs : rt_set_period(t, x)
             \/ \E x \in DeadlineArgs : rt_set_deadline(t, x)
             \/ \E x \in WcetArgs : rt_set_wcet(t, x)
    <3>1. UNCHANGED <<submitted, task_list>>
      BY <2>5 DEF rt_set_period, rt_set_deadline, rt_set_wcet
    <3>2. /\ Kept'
          /\ HZ = MSEC_1SEC /\ NotMore => NotMore'
          /\ \A d, c \in Nat : ArgsWithin(d, c) /\ Within(d, c) => Within(d, c)'
      BY <1>0, <2>5, AdmKept
    <3> QED
      BY <1>0, <2>2, <3>1, <3>2 DEF AdmInv, Listing, Sorted
  <2> QED
    BY <1>2, <2>3, <2>4, <2>5 DEF TaskCall
<1>3. CASE UNCHANGED admission_vars
  BY <1>0, <1>3 DEF admission_vars, params, costs, AdmInv, Listing, Kept,
                    Measured, NotMore, Within, Sorted
<1> QED
  BY <1>1, <1>2, <1>3 DEF AdmissionNext

\* Whatever times the tasks pass, the parameters stay natural numbers, the cost
\* of a context switch stays below a second, and the global list has exactly the
\* submitted tasks, each once: rt_exit takes the entry out that rt_run put in.
THEOREM AdmissionTypeCorrect ==
  AdmissionSpec => []AdmissionTypeOK
<1>1. AdmissionInit => AdmInv
  BY AdmInit
<1>2. AdmInv /\ [AdmissionNext]_admission_vars => AdmInv'
  BY AdmNext
<1>3. AdmInv => AdmissionTypeOK
  BY DEF AdmInv, Listing, Kept, Measured, AdmissionTypeOK
<1> QED
  BY <1>1, <1>2, <1>3, PTL DEF AdmissionSpec

\* The cost of a context switch is the longest one that the test of the overhead
\* measured: test_switch_end, which looks at the microseconds of the difference
\* only, is right when the second changes between the two readings.
THEOREM LongestSwitchKept ==
  AdmissionSpec => []CostIsLongest
<1>1. AdmissionInit => AdmInv
  BY AdmInit
<1>2. AdmInv /\ [AdmissionNext]_admission_vars => AdmInv'
  BY AdmNext
<1>3. AdmInv => CostIsLongest
  BY DEF AdmInv, Measured, CostIsLongest
<1> QED
  BY <1>1, <1>2, <1>3, PTL DEF AdmissionSpec

----------------------------------------------------------------------------
(* The analysis.                                                           *)

\* A jiffy is a millisecond.
LEMMA JiffyIs ==
  ASSUME HZ = MSEC_1SEC, NEW j \in Nat
  PROVE  jiffies_to_usecs(j) = j * USEC_1MSEC /\ j * USEC_1MSEC \in Nat
<1>1. PICK m, M : m = USEC_1MSEC /\ M = MSEC_1SEC
  OBVIOUS
<1>2. m \in Nat \ {0} /\ M \in Nat \ {0} /\ USEC_1SEC = m * M
  BY <1>1, Units
<1>3. m * M = M * m + 0 /\ 0 \in 0 .. M - 1
  BY <1>2
<1>4. (M * m + 0) \div M = m
  BY <1>2, <1>3, DivOf
<1>5. USEC_1SEC \div HZ = m
  BY <1>1, <1>2, <1>3, <1>4
<1>6. j * m \in Nat
  BY <1>2, Product
<1> QED
  BY <1>1, <1>5, <1>6 DEF jiffies_to_usecs

\* The period of h in microseconds, how often it fits into the deadline of t,
\* and what then remains of the deadline.
PeriodOf(h) == jiffies_to_usecs(period[h])
Whole(t, h) == deadline[t] \div period[h]
Rest(t, h) == (deadline[t] % period[h]) * USEC_1MSEC

LEMMA Windows ==
  ASSUME Kept, NotMore, HZ = MSEC_1SEC,
         NEW t \in RtTask, NEW h \in RtTask, period[h] > 0
  PROVE  /\ PeriodOf(h) \in Nat \ {0} /\ Whole(t, h) \in Nat
         /\ Rest(t, h) \in 0 .. PeriodOf(h) - 1
         /\ Window(t) \in Nat
         /\ Splits(Window(t), PeriodOf(h), Whole(t, h), Rest(t, h))
         /\ asked[h].period \in Nat \ {0} /\ PeriodOf(h) <= asked[h].period
         /\ asked[t].deadline \in Nat /\ Window(t) <= asked[t].deadline
<1>1. PICK p, d, m : p = period[h] /\ d = deadline[t] /\ m = USEC_1MSEC
  OBVIOUS
<1>2. /\ p \in Nat \ {0} /\ d \in Nat /\ m \in Nat \ {0}
      /\ asked[h].period \in Nat /\ asked[t].deadline \in Nat
  BY <1>1, Units DEF Kept
<1>3. PICK q, r : q = d \div p /\ r = d % p
  OBVIOUS
<1>4. q \in Nat /\ r \in 0 .. p - 1 /\ d = p * q + r
  BY <1>2, <1>3, DivMod
<1>5. /\ PeriodOf(h) = p * m /\ p * m \in Nat
      /\ Window(t) = d * m /\ d * m \in Nat
  BY <1>1, <1>2, JiffyIs DEF PeriodOf, Window
<1>6. Whole(t, h) = q /\ Rest(t, h) = r * m
  BY <1>1, <1>3 DEF Whole, Rest
<1>7. r * m \in 0 .. p * m - 1 /\ p * m # 0
  <2>1. m * r <= m * (p - 1) /\ m * r \in Nat
    BY <1>2, <1>4, Product
  <2>2. m * (p - 1) = p * m - m /\ m * r = r * m
    BY <1>2, <1>4
  <2> QED
    BY <1>2, <1>5, <2>1, <2>2
<1>8. d * m = p * m * q + r * m
  <2>1. (p * q + r) * m = p * m * q + r * m
    BY <1>2, <1>4
  <2> QED
    BY <1>4, <2>1
<1>9. p * m <= asked[h].period /\ d * m <= asked[t].deadline
  BY <1>1 DEF NotMore
<1>10. Splits(Window(t), PeriodOf(h), Whole(t, h), Rest(t, h))
  BY <1>5, <1>6, <1>8 DEF Splits
<1> QED
  BY <1>2, <1>4, <1>5, <1>6, <1>7, <1>9, <1>10

JobsIn(t, h) == div_round_up(Window(t), PeriodOf(h))
CostOf(h, w, o) == DivUp(w, asked[h].period) * (wcet[h] + o)

\* What a task asks for in a shorter window.
LEMMA CostIsLess ==
  ASSUME Kept, NotMore, HZ = MSEC_1SEC,
         NEW t \in RtTask, NEW h \in RtTask, period[h] > 0,
         NEW w \in 0 .. Window(t),
         Rest(t, h) < wcet[h] => w <= PeriodOf(h) * Whole(t, h),
         NEW o \in Nat
  PROVE  /\ CostOf(h, w, o) \in Nat /\ DemandIn(t, h) \in Nat
         /\ CostOf(h, w, o) <= DemandIn(t, h) + o * JobsIn(t, h)
         /\ Rest(t, h) < wcet[h] =>
              CostOf(h, w, o) + Rest(t, h) <= DemandIn(t, h) + o * JobsIn(t, h)
<1>1. PICK P, F, r, L, a, C, c, J :
        /\ P = PeriodOf(h) /\ F = Whole(t, h) /\ r = Rest(t, h)
        /\ L = Window(t) /\ a = asked[h].period /\ C = wcet[h]
        /\ c = DivUp(w, a) /\ J = JobsIn(t, h)
  OBVIOUS
<1>2. /\ P \in Nat \ {0} /\ F \in Nat /\ r \in 0 .. P - 1 /\ L \in Nat
      /\ Splits(L, P, F, r) /\ a \in Nat \ {0} /\ a >= P
  BY <1>1, Windows
<1>3. C \in Nat
  BY <1>1 DEF Kept
<1>4. w \in 0 .. L /\ w \in Nat /\ (r < C => w <= P * F)
  BY <1>1, <1>2
<1>5. Ceiling(c, w, a)
  <2>1. Ceiling((w + a - 1) \div a, w, a)
    BY <1>2, <1>4, RoundedUp
  <2> QED
    BY <1>1, <2>1 DEF DivUp
<1>6. Ceiling(J, L, P)
  <2>1. Ceiling(IF L % P = 0 THEN L \div P ELSE L \div P + 1, L, P)
    BY <1>2, RoundedUp
  <2> QED
    BY <1>1, <2>1 DEF div_round_up, JobsIn
<1>7. /\ c * (C + o) \in Nat /\ AsksFor(L, F, P, C) \in Nat
      /\ c * (C + o) <= AsksFor(L, F, P, C) + o * J
      /\ r < C => c * (C + o) + r <= AsksFor(L, F, P, C) + o * J
  BY <1>2, <1>3, <1>4, <1>5, <1>6, AsksForLess
<1>8. DemandIn(t, h) = AsksFor(L, F, P, C)
  BY <1>1 DEF DemandIn, Demand_hp, AsksFor, PeriodOf, Whole
<1>9. CostOf(h, w, o) = c * (C + o)
  BY <1>1 DEF CostOf
<1> QED
  BY <1>1, <1>7, <1>8, <1>9

\* A task asks for one job at least.
LEMMA JobInWindow ==
  ASSUME Kept, NotMore, HZ = MSEC_1SEC,
         NEW t \in RtTask, NEW h \in RtTask, period[h] > 0
  PROVE  /\ JobsIn(t, h) \in Nat
         /\ deadline[t] > 0 => JobsIn(t, h) >= 1
<1>1. PICK P, L, J : P = PeriodOf(h) /\ L = Window(t) /\ J = JobsIn(t, h)
  OBVIOUS
<1>2. P \in Nat \ {0} /\ L \in Nat
  BY <1>1, Windows
<1>3. Ceiling(J, L, P)
  <2>1. Ceiling(IF L % P = 0 THEN L \div P ELSE L \div P + 1, L, P)
    BY <1>2, RoundedUp
  <2> QED
    BY <1>1, <2>1 DEF div_round_up, JobsIn
<1>4. J \in Nat /\ L <= P * J
  BY <1>3 DEF Ceiling
<1>5. ASSUME deadline[t] > 0
      PROVE  L >= 1
  <2>1. PICK d, m : d = deadline[t] /\ m = USEC_1MSEC
    OBVIOUS
  <2>2. d \in Nat /\ 1 <= d /\ m \in Nat \ {0}
    BY <2>1, <1>5, Units DEF Kept
  <2>3. L = d * m
    BY <1>1, <2>1, <2>2, JiffyIs DEF Window
  <2>4. m * 1 <= m * d
    BY <2>2, Product
  <2> QED
    BY <2>2, <2>3, <2>4
<1>6. J = 0 => P * J = 0
  BY <1>2
<1> QED
  BY <1>1, <1>2, <1>4, <1>5, <1>6

\* The loops over the list take the tasks of the priority of t and above.
LEMMA TakesHigher ==
  ASSUME Listing, NEW t \in RtTask
  PROVE  /\ HigherOrEqual(t) \in 0 .. Len(task_list)
         /\ \A i \in 1 .. HigherOrEqual(t) :
              priority[task_list[i]] >= priority[t]
         /\ \A i \in HigherOrEqual(t) + 1 .. Len(task_list) :
              priority[task_list[i]] < priority[t]
<1> DEFINE lower == {i \in 1 .. Len(task_list) : priority[task_list[i]] < priority[t]}
<1>0. /\ Len(task_list) \in Nat
      /\ \A i \in 1 .. Len(task_list) : priority[task_list[i]] \in Nat
      /\ priority[t] \in Nat
      /\ \A i, j \in 1 .. Len(task_list) :
           i < j => priority[task_list[i]] >= priority[task_list[j]]
  BY Units, LenProperties, ElementOfSeq DEF Listing, Sorted
<1>1. PICK n : n = HigherOrEqual(t)
  OBVIOUS
<1>2. n = IF lower = {} THEN Len(task_list) ELSE FirstOf(lower) - 1
  BY <1>1 DEF HigherOrEqual
<1>3. CASE lower = {}
  <2>1. \A i \in 1 .. Len(task_list) : priority[task_list[i]] >= priority[t]
    BY <1>0, <1>3
  <2> QED
    BY <1>0, <1>1, <1>2, <1>3, <2>1
<1>4. CASE lower # {}
  <2>1. PICK f : f = FirstOf(lower)
    OBVIOUS
  <2>2. f \in lower /\ \A x \in lower : f <= x
    <3>1. lower \in SUBSET Nat
      OBVIOUS
    <3> HIDE DEF lower
    <3> QED
      BY <1>4, <2>1, <3>1, FirstOfProperty
  <2>3. n = f - 1 /\ f \in 1 .. Len(task_list) /\ priority[task_list[f]] < priority[t]
    BY <1>2, <1>4, <2>1, <2>2
  <2>4. ASSUME NEW i \in 1 .. n
        PROVE  priority[task_list[i]] >= priority[t]
    <3>1. i \in 1 .. Len(task_list) /\ ~(f <= i)
      BY <1>0, <2>3
    <3>2. i \notin lower
      BY <2>2, <3>1
    <3> QED
      BY <1>0, <3>1, <3>2
  <2>5. ASSUME NEW i \in n + 1 .. Len(task_list)
        PROVE  priority[task_list[i]] < priority[t]
    <3>1. i \in 1 .. Len(task_list) /\ (i = f \/ f < i)
      BY <1>0, <2>3
    <3>2. priority[task_list[i]] <= priority[task_list[f]]
      BY <1>0, <2>3, <3>1
    <3> QED
      BY <1>0, <2>3, <3>1, <3>2
  <2> QED
    BY <1>0, <1>1, <2>3, <2>4, <2>5
<1> QED
  BY <1>3, <1>4

\* The overhead of the ticks is less than half the range.
AddsTo(t, demands, jobs) ==
  \E ticks \in Nat :
    /\ 2 * ticks < ULONG_MOD
    /\ ResponseTime(t) = demands + wcet[t] + 2 * switch_cost * jobs
                                + switch_cost * JobsIn(t, t) + ticks

\* What the analysis adds up: the demands, the task's own and the overheads.
LEMMA AddsUp ==
  ASSUME AdmInv, NotMore, HZ = MSEC_1SEC, Analysable,
         NEW t \in submitted,
         NEW n \in Nat, n = Len(task_list),
         NEW D, D = [i \in 1 .. n |-> IF task_list[i] \in Delaying(t)
                                      THEN DemandIn(t, task_list[i]) ELSE 0],
         NEW J, J = [i \in 1 .. n |-> JobsIn(t, task_list[i])],
         D \in [1 .. n -> Nat], J \in [1 .. n -> Nat]
  PROVE  /\ ResponseTime(t) \in Nat
         /\ SumTo(D, n) + wcet[t] + 2 * switch_cost * SumTo(J, n)
              <= ResponseTime(t)
         /\ AddsTo(t, SumTo(D, n), SumTo(J, n))
<1>0. /\ Listing /\ Kept /\ t \in RtTask /\ switch_cost \in Nat /\ ULONG_MOD \in Nat \ {0}
      /\ task_list \in Seq(RtTask) /\ Elements(task_list) = submitted /\ Distinct(task_list)
      /\ wcet[t] \in Nat
  <2>1. Listing /\ Kept /\ Measured /\ submitted \subseteq RtTask
    BY DEF AdmInv, Listing
  <2>2. switch_cost \in Nat
    BY <2>1, Units DEF Measured
  <2>3. wcet[t] \in Nat
    BY <2>1 DEF Kept
  <2> QED
    BY <2>1, <2>2, <2>3, Units DEF Listing
<1>1. PICK m : m = HigherOrEqual(t)
  OBVIOUS
<1>2. /\ m \in 0 .. n /\ m \in Nat
      /\ \A i \in 1 .. m : priority[task_list[i]] >= priority[t]
      /\ \A i \in m + 1 .. n : priority[task_list[i]] < priority[t]
  BY <1>0, <1>1, TakesHigher
<1>3. \A i \in 1 .. n : task_list[i] \in submitted /\ task_list[i] \in RtTask
  BY <1>0, ElementOfSeq DEF Elements
<1>4. PICK G : G = [i \in 1 .. m |-> IF task_list[i] = t THEN 0
                                     ELSE DemandIn(t, task_list[i])]
  OBVIOUS
<1>5. \A i \in 1 .. m : D[i] = G[i]
  <2> SUFFICES ASSUME NEW i \in 1 .. m
               PROVE  D[i] = G[i]
    OBVIOUS
  <2>1. i \in 1 .. n /\ priority[task_list[i]] >= priority[t]
    BY <1>2
  <2>2. task_list[i] \in Delaying(t) <=> task_list[i] # t
    BY <1>3, <2>1 DEF Delaying
  <2> QED
    BY <1>4, <2>1, <2>2
<1>6. \A i \in m + 1 .. n : D[i] = 0
  <2> SUFFICES ASSUME NEW i \in m + 1 .. n
               PROVE  D[i] = 0
    OBVIOUS
  <2>1. /\ i \in 1 .. n /\ priority[task_list[i]] < priority[t]
        /\ priority[task_list[i]] \in Nat /\ priority[t] \in Nat
    BY <1>0, <1>2, <1>3, Units
  <2>2. task_list[i] \notin Delaying(t)
    BY <2>1 DEF Delaying
  <2> QED
    BY <2>1, <2>2
<1>7. G \in [1 .. m -> Int]
  <2>1. \A i \in 1 .. m : i \in 1 .. n /\ D[i] \in Int
    BY <1>2
  <2>2. \A i \in 1 .. m : G[i] \in Int
    BY <1>5, <2>1
  <2> QED
    BY <1>4, <2>2
<1>8. SumTo(D, n) = Demands(t)
  <2>1. SumTo(D, n) = SumTo(G, m)
    <3>0. PICK X : X = D
      OBVIOUS
    <3>1. X \in [1 .. n -> Int]
      BY <3>0
    <3>2. EndsAt(X, n, G, m)
      BY <1>5, <1>6, <3>0 DEF EndsAt
    <3>3. m \in 0 .. n
      BY <1>2
    <3>4. n \in Nat /\ G \in [1 .. m -> Int]
      BY <1>7
    <3> QED
      <4>1. SumTo(X, n) = SumTo(G, m)
        BY <3>1, <3>2, <3>3, <3>4, SumPart
      <4> QED
        BY <3>0, <4>1
  <2>2. Demands(t) = SumTo(G, m)
    BY <1>1, <1>4 DEF Demands
  <2> QED
    BY <2>1, <2>2
<1>9. Jobs(Window(t)) = J
  BY DEF Jobs, JobsIn, PeriodOf
<1>10. PICK nr, nd : nr = SumTo(J, n) /\ nd = SumTo(D, n)
  OBVIOUS
<1>11. nr \in Nat /\ nd \in Nat
  <2>1. PICK Z : Z = [i \in 1 .. n |-> 0]
    OBVIOUS
  <2>2. /\ Z \in [1 .. n -> Int] /\ J \in [1 .. n -> Int] /\ D \in [1 .. n -> Int]
        /\ \A i \in 1 .. n : Z[i] <= J[i] /\ Z[i] <= D[i]
    <3>1. Z \in [1 .. n -> Int] /\ \A i \in 1 .. n : Z[i] = 0
      BY <2>1
    <3>2. J \in [1 .. n -> Int] /\ D \in [1 .. n -> Int]
      OBVIOUS
    <3>3. \A i \in 1 .. n : J[i] \in Nat /\ D[i] \in Nat
      OBVIOUS
    <3> QED
      BY <3>1, <3>2, <3>3
  <2>3. SumTo(Z, n) + 0 <= nr /\ SumTo(Z, n) + 0 <= nd
    BY <1>10, <2>2, SumLess
  <2>4. nr \in Int /\ nd \in Int
    BY <1>10, <2>2, SumType
  <2>5. SumTo(Z, n) = 0
    <3>1. Z \in [1 .. n -> 0 .. 0] /\ 0 \in Nat
      BY <2>1
    <3>2. SumTo(Z, n) \in 0 .. n * 0
      BY <3>1, SumBound
    <3> QED
      BY <3>2
  <2> QED
    BY <2>3, <2>4, <2>5
<1>12. PICK T : T = (((usecs_to_jiffies(Window(t)) - nr) % ULONG_MOD)
                       * switch_cost) % ULONG_MOD
  OBVIOUS
<1>13. T \div 2 \in Nat /\ 2 * (T \div 2) < ULONG_MOD
  <2>1. PICK v : v = usecs_to_jiffies(Window(t)) - nr
    OBVIOUS
  <2>2. usecs_to_jiffies(Window(t)) \in Nat
    <3>1. PICK L : L = Window(t)
      OBVIOUS
    <3>2. L \in Nat
      <4>1. deadline[t] \in Nat
        BY <1>0 DEF Kept
      <4> QED
        BY <3>1, <4>1, JiffyIs DEF Window
    <3>3. L * HZ \in Nat /\ USEC_1SEC \in Nat \ {0}
      BY <3>2, Units, Product
    <3>4. Ceiling((L * HZ + USEC_1SEC - 1) \div USEC_1SEC, L * HZ, USEC_1SEC)
      BY <3>3, RoundedUp
    <3> QED
      BY <3>1, <3>4 DEF usecs_to_jiffies, DivUp, Ceiling
  <2>3. v % ULONG_MOD \in Nat
    BY <1>0, <1>11, <2>1, <2>2
  <2>4. (v % ULONG_MOD) * switch_cost \in Nat
    BY <1>0, <2>3, Product
  <2>5. PICK z : z = (v % ULONG_MOD) * switch_cost
    OBVIOUS
  <2>6. T = z % ULONG_MOD /\ z \in Nat
    BY <1>12, <2>1, <2>4, <2>5
  <2>7. T \in Nat /\ T < ULONG_MOD
    BY <1>0, <2>6
  <2>8. T \div 2 \in Nat /\ 2 * (T \div 2) <= T
    BY <2>7
  <2> QED
    BY <1>0, <2>7, <2>8
<1>14. sched_overhead_cpu(Window(t)) = 2 * nr * switch_cost + T \div 2
  BY <1>9, <1>10, <1>12 DEF sched_overhead_cpu, context_switch_cost
<1>15. PICK own : own = sched_overhead_task(t, Window(t))
  OBVIOUS
<1>16. own \in Nat /\ own = switch_cost * JobsIn(t, t)
  <2>1. period[t] > 0
    BY DEF Analysable
  <2>2. JobsIn(t, t) \in Nat
    BY <1>0, <2>1, JobInWindow DEF AdmInv
  <2>3. own = JobsIn(t, t) * switch_cost
    BY <1>15 DEF sched_overhead_task, context_switch_cost, JobsIn, PeriodOf
  <2> QED
    BY <1>0, <2>2, <2>3
<1>17. PICK s, T2 : s = nr * switch_cost /\ T2 = T \div 2
  OBVIOUS
<1>18. /\ s \in Nat
       /\ 2 * nr * switch_cost = 2 * s /\ 2 * switch_cost * nr = 2 * s
  BY <1>0, <1>11, <1>17, Product
<1>19. ResponseTime(t) = nd + wcet[t] + (2 * s + T2) + own
  BY <1>8, <1>10, <1>14, <1>15, <1>17, <1>18 DEF ResponseTime
<1>20. PICK R, c : R = ResponseTime(t) /\ c = wcet[t]
  OBVIOUS
<1>21. /\ R = nd + c + (2 * s + T2) + own
       /\ T2 \in Nat /\ 2 * T2 < ULONG_MOD /\ c \in Nat
  BY <1>0, <1>13, <1>17, <1>19, <1>20
<1>22. R \in Nat /\ nd + c + 2 * s <= R /\ R = nd + c + 2 * s + own + T2
  BY <1>11, <1>16, <1>18, <1>21
<1>23. /\ ResponseTime(t) \in Nat
       /\ SumTo(D, n) + wcet[t] + 2 * switch_cost * SumTo(J, n)
            <= ResponseTime(t)
  BY <1>10, <1>18, <1>20, <1>22
<1>24. ResponseTime(t) =
         SumTo(D, n) + wcet[t] + 2 * switch_cost * SumTo(J, n)
           + switch_cost * JobsIn(t, t) + T2
  BY <1>10, <1>16, <1>18, <1>20, <1>22
<1> QED
  BY <1>21, <1>23, <1>24 DEF AddsTo

\* The window in which the analysis, if it succeeds, shows the deadline kept:
\* where the last whole period of a task ends whose next job does not fit.
LEMMA Witnessed ==
  ASSUME Kept, NotMore, HZ = MSEC_1SEC, NEW t \in RtTask,
         NEW D, D \subseteq RtTask, \A h \in D : period[h] > 0
  PROVE  \E w \in Nat :
           /\ w <= Window(t)
           /\ \A h \in D : Rest(t, h) < wcet[h] => w <= PeriodOf(h) * Whole(t, h)
           /\ \/ w = Window(t)
              \/ \E h \in D : /\ Rest(t, h) < wcet[h]
                              /\ w + Rest(t, h) = Window(t)
<1> DEFINE late == {h \in D : Rest(t, h) < wcet[h]}
           ends == {PeriodOf(h) * Whole(t, h) : h \in late}
           all == ends \cup {Window(t)}
<1>1. ASSUME NEW h \in D
      PROVE  /\ PeriodOf(h) * Whole(t, h) \in Nat /\ Rest(t, h) \in Nat
             /\ PeriodOf(h) * Whole(t, h) + Rest(t, h) = Window(t)
  <2>1. /\ PeriodOf(h) \in Nat /\ Whole(t, h) \in Nat /\ Rest(t, h) \in Nat
        /\ Splits(Window(t), PeriodOf(h), Whole(t, h), Rest(t, h))
    BY Windows
  <2> QED
    BY <2>1, Product DEF Splits
<1>2. Window(t) \in Nat
  BY JiffyIs DEF Kept, Window
<1>3. all \in SUBSET Nat /\ all # {}
  BY <1>1, <1>2
<1>4. PICK w \in all : \A x \in all : w <= x
  <2> HIDE DEF all
  <2> QED
    BY <1>3, NatMin
<1>5. /\ w \in Nat /\ w <= Window(t)
      /\ \A h \in D : Rest(t, h) < wcet[h] => w <= PeriodOf(h) * Whole(t, h)
  BY <1>3, <1>4
<1>6. \/ w = Window(t)
      \/ \E h \in D : Rest(t, h) < wcet[h] /\ w + Rest(t, h) = Window(t)
  BY <1>1, <1>4
<1> QED
  BY <1>5, <1>6

\* A response time within the window is one that the exact test accepts.
LEMMA AnalysisIsSafe ==
  ASSUME AdmInv, NotMore, HZ = MSEC_1SEC, Analysable,
         NEW t \in submitted, deadline[t] > 0, wcet[t] > 0,
         ResponseTime(t) <= Window(t)
  PROVE  MeetsDeadline(t)
<1>0. /\ Listing /\ Kept /\ t \in RtTask /\ submitted \subseteq RtTask
      /\ task_list \in Seq(RtTask) /\ Elements(task_list) = submitted
      /\ Distinct(task_list) /\ wcet \in [RtTask -> Nat] /\ switch_cost \in Nat
  <2>1. Listing /\ Kept /\ Measured
    BY DEF AdmInv
  <2>2. switch_cost \in Nat
    BY <2>1, Units DEF Measured
  <2>3. wcet \in [RtTask -> Nat]
    BY <2>1 DEF Kept
  <2> QED
    BY <2>1, <2>2, <2>3 DEF Listing
<1>1. PICK n, L, o, C : /\ n = Len(task_list) /\ L = Window(t)
                        /\ o = 2 * switch_cost /\ C = wcet[t]
  OBVIOUS
<1>2. /\ n \in Nat /\ o \in Nat /\ C \in Nat /\ C > 0
      /\ \A h \in submitted : h \in RtTask /\ period[h] > 0
  BY <1>0, <1>1, LenProperties DEF Analysable
<1>3. /\ \A i \in 1 .. n : task_list[i] \in submitted
      /\ \A h \in submitted : \E i \in 1 .. n : h = task_list[i]
  BY <1>0, <1>1 DEF Elements
<1>4. L \in Nat /\ asked[t].deadline \in Nat /\ L <= asked[t].deadline
  BY <1>0, <1>1, <1>2, Windows
<1>5. PICK late : late = Delaying(t)
  OBVIOUS
<1>6. late \subseteq submitted \ {t}
  BY <1>5 DEF Delaying
<1>7. PICK w \in Nat :
        /\ w <= L
        /\ \A h \in late : Rest(t, h) < wcet[h] => w <= PeriodOf(h) * Whole(t, h)
        /\ \/ w = L
           \/ \E h \in late : Rest(t, h) < wcet[h] /\ w + Rest(t, h) = L
  <2>1. late \subseteq RtTask /\ \A h \in late : period[h] > 0
    BY <1>0, <1>2, <1>6
  <2> QED
    BY <1>0, <1>1, <2>1, Witnessed
<1>8. ASSUME NEW h \in late
      PROVE  /\ CostOf(h, w, o) \in Nat /\ DemandIn(t, h) \in Nat
             /\ CostOf(h, w, o) <= DemandIn(t, h) + o * JobsIn(t, h)
             /\ Rest(t, h) < wcet[h] =>
                  CostOf(h, w, o) + Rest(t, h) <= DemandIn(t, h) + o * JobsIn(t, h)
  <2>1. /\ h \in RtTask /\ period[h] > 0 /\ w \in 0 .. Window(t)
        /\ Rest(t, h) < wcet[h] => w <= PeriodOf(h) * Whole(t, h)
    BY <1>1, <1>2, <1>4, <1>6, <1>7
  <2> QED
    BY <1>0, <1>2, <2>1, CostIsLess
\* The costs in the window, the demands and the jobs of the analysis, by place.
<1>9. PICK f, D, J :
        /\ f = [i \in 1 .. n |-> IF task_list[i] \in late
                                 THEN CostOf(task_list[i], w, o) ELSE 0]
        /\ D = [i \in 1 .. n |-> IF task_list[i] \in late
                                 THEN DemandIn(t, task_list[i]) ELSE 0]
        /\ J = [i \in 1 .. n |-> JobsIn(t, task_list[i])]
  OBVIOUS
<1>10. /\ f \in [1 .. n -> Nat] /\ D \in [1 .. n -> Nat] /\ J \in [1 .. n -> Nat]
       /\ \A i \in 1 .. n : task_list[i] = t => J[i] >= 1
  <2>1. \A h \in submitted : JobsIn(t, h) \in Nat /\ (deadline[t] > 0 => JobsIn(t, h) >= 1)
    BY <1>0, <1>2, JobInWindow
  <2> QED
    BY <1>3, <1>8, <1>9, <2>1
<1>11. SumTo(D, n) + C + o * SumTo(J, n) <= L
  <2>1. D = [i \in 1 .. n |-> IF task_list[i] \in Delaying(t)
                              THEN DemandIn(t, task_list[i]) ELSE 0]
    BY <1>5, <1>9
  <2>2. J = [i \in 1 .. n |-> JobsIn(t, task_list[i])]
    BY <1>9
  <2>3. /\ ResponseTime(t) \in Nat
        /\ SumTo(D, n) + wcet[t] + 2 * switch_cost * SumTo(J, n)
             <= ResponseTime(t)
    BY <1>1, <1>2, <1>10, <2>1, <2>2, AddsUp
  <2>4. SumTo(D, n) \in Int /\ SumTo(J, n) \in Int
    <3>1. D \in [1 .. n -> Int] /\ J \in [1 .. n -> Int]
      BY <1>10
    <3> QED
      BY <1>2, <3>1, SumType
  <2>5. PICK R, p : R = ResponseTime(t) /\ p = o * SumTo(J, n)
    OBVIOUS
  <2>6. R \in Nat /\ R <= L /\ p \in Int /\ SumTo(D, n) + C + p <= R
    BY <1>1, <1>2, <2>3, <2>4, <2>5
  <2> QED
    BY <1>2, <1>4, <2>4, <2>5, <2>6
\* The cost of the task itself is o, and the demands with o for each job.
<1>12. PICK g, h : /\ g = [i \in 1 .. n |-> IF task_list[i] = t THEN f[i] + o ELSE f[i]]
                   /\ h = [i \in 1 .. n |-> D[i] + o * J[i]]
  OBVIOUS
<1>13. /\ g \in [1 .. n -> Int] /\ h \in [1 .. n -> Int]
       /\ f \in [1 .. n -> Int] /\ D \in [1 .. n -> Int] /\ J \in [1 .. n -> Int]
  <2>1. f \in [1 .. n -> Int] /\ D \in [1 .. n -> Int] /\ J \in [1 .. n -> Int]
    BY <1>10
  <2>2. \A i \in 1 .. n : /\ D[i] + o * J[i] \in Int
                         /\ (IF task_list[i] = t THEN f[i] + o ELSE f[i]) \in Int
    <3> SUFFICES ASSUME NEW i \in 1 .. n
                 PROVE  /\ D[i] + o * J[i] \in Int
                        /\ (IF task_list[i] = t THEN f[i] + o ELSE f[i]) \in Int
      OBVIOUS
    <3>1. D[i] \in Int /\ J[i] \in Int /\ f[i] \in Int /\ o \in Int
      BY <1>2, <2>1
    <3> QED
      BY <3>1
  <2>3. g \in [1 .. n -> Int] /\ h \in [1 .. n -> Int]
    BY <1>12, <2>2
  <2> QED
    BY <2>1, <2>3
<1>14. ASSUME NEW i \in 1 .. n
       PROVE  /\ f[i] <= g[i] /\ g[i] <= h[i]
              /\ \A x \in late :
                   task_list[i] = x /\ Rest(t, x) < wcet[x] => g[i] + Rest(t, x) <= h[i]
  <2>1. PICK j, p : j = J[i] /\ p = o * j
    OBVIOUS
  <2>2. j \in Nat /\ p \in Nat /\ h[i] = D[i] + p /\ f[i] \in Nat /\ D[i] \in Nat
    BY <1>2, <1>10, <1>12, <2>1, Product
  <2>3. CASE task_list[i] \in late
    <3>1. PICK x \in late : task_list[i] = x
      BY <2>3
    <3>2. f[i] = CostOf(x, w, o) /\ D[i] = DemandIn(t, x) /\ j = JobsIn(t, x)
      BY <1>9, <2>1, <3>1
    <3>3. g[i] = f[i]
      BY <1>6, <1>12, <3>1
    <3> QED
      BY <1>8, <2>1, <2>2, <3>1, <3>2, <3>3
  <2>4. CASE task_list[i] = t
    <3>1. f[i] = 0 /\ D[i] = 0 /\ j >= 1
      BY <1>6, <1>9, <1>10, <2>1, <2>4
    <3>2. o * 1 <= o * j
      BY <1>2, <2>2, <3>1, Product
    <3>3. g[i] = o /\ o <= p
      BY <1>2, <1>12, <2>1, <2>4, <3>1, <3>2
    <3> QED
      BY <1>2, <1>6, <2>2, <2>4, <3>1, <3>3
  <2>5. CASE task_list[i] \notin late /\ task_list[i] # t
    <3>1. f[i] = 0 /\ g[i] = 0
      BY <1>9, <1>12, <2>5
    <3> QED
      BY <2>2, <2>5, <3>1
  <2> QED
    BY <2>3, <2>4, <2>5
<1>15. SumTo(f, n) + o <= SumTo(g, n)
  <2>1. PICK k \in 1 .. n : task_list[k] = t
    BY <1>3
  <2>2. f[k] \in Nat /\ g[k] = f[k] + o
    BY <1>10, <1>12, <2>1
  <2>3. f[k] + o <= g[k]
    BY <1>2, <2>2
  <2> QED
    BY <1>2, <1>13, <1>14, <2>3, SumLess
<1>16. SumTo(g, n) + (L - w) <= SumTo(h, n)
  <2>1. L - w \in Nat
    BY <1>4, <1>7
  <2>2. L - w = 0 \/ \E k \in 1 .. n : g[k] + (L - w) <= h[k]
    <3>1. CASE w = L
      BY <1>4, <3>1
    <3>2. CASE \E x \in late : Rest(t, x) < wcet[x] /\ w + Rest(t, x) = L
      <4>1. PICK x \in late : Rest(t, x) < wcet[x] /\ w + Rest(t, x) = L
        BY <3>2
      <4>2. PICK k \in 1 .. n : task_list[k] = x
        BY <1>3, <1>6, <4>1
      <4>3. g[k] + Rest(t, x) <= h[k]
        BY <1>14, <4>1, <4>2
      <4>4. Rest(t, x) \in Nat
        <5>1. x \in RtTask /\ period[x] > 0
          BY <1>2, <1>6
        <5>2. Rest(t, x) \in 0 .. PeriodOf(x) - 1
          BY <1>0, <5>1, Windows
        <5> QED
          BY <5>2
      <4>5. Rest(t, x) = L - w
        BY <1>4, <4>1, <4>4
      <4> QED
        BY <4>3, <4>5
    <3> QED
      BY <1>7, <3>1, <3>2
  <2>3. PICK d : d = L - w
    OBVIOUS
  <2>4. d \in Nat /\ (d = 0 \/ \E k \in 1 .. n : g[k] + d <= h[k])
    BY <2>1, <2>2, <2>3
  <2>5. SumTo(g, n) + d <= SumTo(h, n)
    BY <1>2, <1>13, <1>14, <2>4, SumLess
  <2> QED
    BY <2>3, <2>5
<1>17. SumTo(h, n) = SumTo(D, n) + o * SumTo(J, n)
  <2>1. Combines(h, D, o, J, n)
    BY <1>12 DEF Combines
  <2>2. n \in Nat /\ o \in Int
    BY <1>2
  <2>3. D \in [1 .. n -> Int] /\ J \in [1 .. n -> Int] /\ h \in [1 .. n -> Int]
    BY <1>13
  <2> QED
    BY <2>1, <2>2, <2>3, SumPlus
<1>18. PICK F, G, H, nd, p : /\ F = SumTo(f, n) /\ G = SumTo(g, n) /\ H = SumTo(h, n)
                             /\ nd = SumTo(D, n) /\ p = o * SumTo(J, n)
  OBVIOUS
<1>19. F \in Nat /\ G \in Int /\ H \in Int /\ nd \in Int /\ p \in Int
  <2>1. F \in Int /\ G \in Int /\ H \in Int /\ nd \in Int /\ SumTo(J, n) \in Int
    BY <1>2, <1>13, <1>18, SumType
  <2>2. PICK Z : Z = [i \in 1 .. n |-> 0]
    OBVIOUS
  <2>3. Z \in [1 .. n -> Int] /\ (\A i \in 1 .. n : Z[i] <= f[i]) /\ Z \in [1 .. n -> 0 .. 0]
    BY <1>10, <2>2
  <2>4. SumTo(Z, n) \in 0 .. n * 0
    <3>1. 0 \in Nat
      OBVIOUS
    <3> QED
      BY <1>2, <2>3, <3>1, SumBound
  <2>5. SumTo(Z, n) + 0 <= F
    <3>1. 0 \in Nat /\ 0 = 0
      OBVIOUS
    <3> QED
      BY <1>2, <1>13, <1>18, <2>3, <3>1, SumLess
  <2>6. SumTo(Z, n) = 0
    BY <1>2, <2>4
  <2> QED
    BY <1>2, <1>18, <2>1, <2>5, <2>6
<1>20. /\ nd + C + p <= L /\ F + o <= G /\ G + (L - w) <= H /\ H = nd + p
  BY <1>11, <1>15, <1>16, <1>17, <1>18
<1>21. C + o + F <= w /\ w >= 1
  BY <1>2, <1>4, <1>7, <1>19, <1>20
<1>22. DemandUntil(t, w) = C + o + F
  <2>1. f = [i \in 1 .. Len(task_list) |->
               IF task_list[i] \in Delaying(t)
               THEN DivUp(w, asked[task_list[i]].period)
                      * JobCost(task_list[i])
               ELSE 0]
    BY <1>1, <1>5, <1>9 DEF CostOf, JobCost
  <2>2. JobCost(t) = C + o
    BY <1>1 DEF JobCost
  <2> QED
    BY <1>1, <1>18, <2>1, <2>2 DEF DemandUntil
<1>23. w \in 1 .. asked[t].deadline
  BY <1>4, <1>7, <1>21
<1> QED
  BY <1>21, <1>22, <1>23 DEF MeetsDeadline

\* The largest demand and number of jobs in a deadline of d jiffies.
LEMMA TaskBounds ==
  ASSUME Kept, NotMore, HZ = MSEC_1SEC,
         NEW d \in Nat, NEW c \in Nat, Within(d, c),
         NEW t \in RtTask, NEW h \in RtTask, period[h] > 0
  PROVE  /\ DemandIn(t, h) \in 0 .. (d + 1) * c
         /\ JobsIn(t, h) \in 0 .. d
<1>1. PICK P, F, r, L, C, J, p, q, m :
        /\ P = PeriodOf(h) /\ F = Whole(t, h) /\ r = Rest(t, h)
        /\ L = Window(t) /\ C = wcet[h] /\ J = JobsIn(t, h)
        /\ p = period[h] /\ q = deadline[t] /\ m = USEC_1MSEC
  OBVIOUS
<1>2. /\ P \in Nat \ {0} /\ F \in Nat /\ r \in 0 .. P - 1 /\ L \in Nat
      /\ Splits(L, P, F, r)
  BY <1>1, Windows
<1>3. /\ C \in 0 .. c /\ C \in Nat /\ p \in Nat \ {0} /\ q \in Nat /\ q <= d
      /\ m \in Nat \ {0}
  BY <1>1, Units DEF Kept, Within
<1>4. /\ P = p * m /\ L = q * m
  BY <1>1, <1>3, JiffyIs DEF PeriodOf, Window
<1>5. F <= q
  <2>1. PICK k, s : k = q \div p /\ s = q % p
    OBVIOUS
  <2>2. k \in Nat /\ s \in Nat /\ q = p * k + s
    <3>1. q \in Nat /\ p \in Nat \ {0}
      BY <1>3
    <3>2. k \in Nat /\ s \in 0 .. p - 1 /\ q = p * k + s
      BY <2>1, <3>1, DivMod
    <3> QED
      BY <3>1, <3>2
  <2>3. k * 1 <= k * p /\ k * p \in Nat
    BY <1>3, <2>2, Product
  <2>4. k <= q
    BY <1>3, <2>2, <2>3
  <2> QED
    BY <1>1, <2>1, <2>4 DEF Whole
<1>6. AsksFor(L, F, P, C) = F * C + (IF r >= C THEN C ELSE r)
  BY <1>2, <1>3, AskedWhole
<1>7. DemandIn(t, h) = AsksFor(L, F, P, C)
  BY <1>1 DEF DemandIn, Demand_hp, AsksFor, PeriodOf, Whole
<1>8. F * C + C <= (d + 1) * c /\ F * C \in Nat /\ (d + 1) * c \in Nat
  <2>1. C * (F + 1) <= C * (d + 1) /\ C * F \in Nat
    BY <1>2, <1>3, <1>5, Product
  <2>2. (d + 1) * C <= (d + 1) * c /\ (d + 1) * c \in Nat /\ (d + 1) * C \in Nat
    BY <1>3, Product
  <2>3. C * (F + 1) = F * C + C /\ C * F = F * C
    BY <1>2, <1>3
  <2>4. C * (d + 1) = (d + 1) * C
    BY <1>3
  <2> QED
    BY <1>3, <2>1, <2>2, <2>3, <2>4
<1>9. DemandIn(t, h) \in 0 .. (d + 1) * c
  <2>1. PICK fc, b : fc = F * C /\ b = (d + 1) * c
    OBVIOUS
  <2>2. fc \in Nat /\ b \in Nat /\ fc + C <= b
    BY <1>8, <2>1
  <2>3. (IF r >= C THEN C ELSE r) \in 0 .. C
    BY <1>2, <1>3
  <2> QED
    BY <1>3, <1>6, <1>7, <2>1, <2>2, <2>3
<1>10. Ceiling(J, L, P)
  <2>1. Ceiling(IF L % P = 0 THEN L \div P ELSE L \div P + 1, L, P)
    BY <1>2, RoundedUp
  <2> QED
    BY <1>1, <2>1 DEF div_round_up, JobsIn
<1>11. L <= P * q
  <2>1. q * m <= q * P /\ q * P \in Nat
    <3>1. m * 1 <= m * p /\ m * p = P
      BY <1>3, <1>4, Product
    <3>2. m <= P
      BY <1>2, <1>3, <3>1
    <3> QED
      BY <1>2, <1>3, <3>2, Product
  <2>2. q * P = P * q
    BY <1>2, <1>3
  <2> QED
    BY <1>4, <2>1, <2>2
<1>12. J \in 0 .. d
  BY <1>3, <1>10, <1>11 DEF Ceiling
<1> QED
  BY <1>1, <1>9, <1>12

\* The range of an unsigned long is enough for n tasks with deadlines of d
\* jiffies and execution times of c, and context switches of less than a second.
Fits(n, d, c) == 2 * (((n + 1) * (d + 1)) * (c + 2 * USEC_1SEC)) <= ULONG_MOD

\* The terms of the analysis and the bound.
LEMMA TermsFit ==
  ASSUME NEW n \in Nat, NEW d \in Nat, NEW c \in Nat, NEW U \in Nat,
         NEW nd \in 0 .. n * ((d + 1) * c), NEW C \in 0 .. c,
         NEW nr \in 0 .. n * d, NEW s \in 0 .. U, NEW own \in 0 .. d
  PROVE  /\ nd + C + 2 * s * nr + s * own <= ((n + 1) * (d + 1)) * (c + 2 * U)
         /\ nd + C + 2 * s * nr + s * own \in Nat
         /\ ((n + 1) * (d + 1)) * (c + 2 * U) \in Nat
<1>1. PICK e, K : e = n * d /\ K = (n + 1) * (d + 1)
  OBVIOUS
<1>2. e \in Nat /\ K \in Nat /\ K = e + n + d + 1
  <2>1. e \in Nat
    BY <1>1, Product
  <2>2. (n + 1) * (d + 1) = n * d + n + d + 1
    OBVIOUS
  <2> QED
    BY <1>1, <2>1, <2>2
<1>3. nd + C <= c * K /\ nd + C \in Nat /\ c * K \in Nat
  <2>1. c * (e + n + 1) <= c * K /\ c * K \in Nat
    BY <1>2, Product
  <2>2. n * ((d + 1) * c) + c = c * (n * d + n + 1)
    OBVIOUS
  <2>3. n * ((d + 1) * c) \in Nat
    <3>1. (d + 1) * c \in Nat
      BY Product
    <3> QED
      BY <3>1, Product
  <2>4. PICK x : x = n * ((d + 1) * c)
    OBVIOUS
  <2>5. x \in Nat /\ nd \in 0 .. x /\ x + c <= c * K
    BY <1>1, <2>1, <2>2, <2>3, <2>4
  <2> QED
    BY <2>1, <2>5
<1>4. s * nr <= U * e /\ s * nr \in Nat /\ U * e \in Nat
  <2>1. s * nr <= s * e /\ s * nr \in Nat /\ s * e \in Nat
    BY <1>1, <1>2, Product
  <2>2. e * s <= e * U /\ e * U \in Nat
    BY <1>2, Product
  <2>3. e * s = s * e /\ e * U = U * e
    BY <1>2
  <2> QED
    BY <2>1, <2>2, <2>3
<1>5. s * own <= U * d /\ s * own \in Nat /\ U * d \in Nat
  <2>1. s * own <= s * d /\ s * own \in Nat /\ s * d \in Nat
    BY Product
  <2>2. d * s <= d * U /\ d * U \in Nat
    BY Product
  <2>3. d * s = s * d /\ d * U = U * d
    OBVIOUS
  <2> QED
    BY <2>1, <2>2, <2>3
<1>6. U * e + U * d <= U * K /\ U * K \in Nat
  <2>1. U * (e + d) <= U * K /\ U * K \in Nat
    BY <1>2, Product
  <2>2. U * (e + d) = U * e + U * d
    BY <1>2
  <2> QED
    BY <2>1, <2>2
<1>7. K * (c + 2 * U) = c * K + 2 * (U * K)
  BY <1>2
<1>8. 2 * s * nr = 2 * (s * nr)
  OBVIOUS
<1>9. PICK w, x, y, z, v, k : /\ w = s * nr /\ x = s * own /\ y = U * e /\ z = U * d
                              /\ v = U * K /\ k = c * K
  OBVIOUS
<1>10. /\ w \in Nat /\ x \in Nat /\ y \in Nat /\ z \in Nat /\ v \in Nat /\ k \in Nat
       /\ w <= y /\ x <= z /\ y + z <= v /\ nd + C <= k /\ nd + C \in Nat
  BY <1>3, <1>4, <1>5, <1>6, <1>9
<1>11. nd + C + 2 * w + x <= k + 2 * v /\ nd + C + 2 * w + x \in Nat
  BY <1>10
<1> QED
  BY <1>1, <1>7, <1>8, <1>9, <1>10, <1>11

LEMMA ResponseFits ==
  ASSUME AdmInv, NotMore, HZ = MSEC_1SEC, Analysable,
         IsFiniteSet(RtTask),
         NEW d \in Nat, NEW c \in Nat, Within(d, c), Fits(Cardinality(RtTask), d, c),
         NEW t \in submitted
  PROVE  ResponseTime(t) \in 0 .. ULONG_MOD - 1
<1>0. /\ Listing /\ Kept /\ t \in RtTask /\ submitted \subseteq RtTask
      /\ task_list \in Seq(RtTask) /\ Elements(task_list) = submitted
      /\ Distinct(task_list) /\ switch_cost \in 0 .. USEC_1SEC
      /\ USEC_1SEC \in Nat /\ ULONG_MOD \in Nat
  <2>1. Listing /\ Kept /\ Measured
    BY DEF AdmInv
  <2>2. USEC_1SEC \in Nat /\ ULONG_MOD \in Nat
    BY Units
  <2>3. switch_cost \in 0 .. USEC_1SEC
    BY <2>1, <2>2 DEF Measured
  <2> QED
    BY <2>1, <2>2, <2>3 DEF Listing
<1>1. PICK n, N, U, s, C : /\ n = Len(task_list) /\ N = Cardinality(RtTask)
                           /\ U = USEC_1SEC /\ s = switch_cost /\ C = wcet[t]
  OBVIOUS
<1>2. n \in Nat /\ N \in Nat /\ n <= N
  <2>1. Cardinality(submitted) = Len(task_list)
    BY <1>0, DistinctLen
  <2> QED
    BY <1>0, <1>1, <2>1, FS_Subset, FS_CardinalityType
<1>3. \A i \in 1 .. n : task_list[i] \in submitted
  BY <1>0, <1>1 DEF Elements
<1>4. PICK D, J :
        /\ D = [i \in 1 .. n |-> IF task_list[i] \in Delaying(t)
                                 THEN DemandIn(t, task_list[i]) ELSE 0]
        /\ J = [i \in 1 .. n |-> JobsIn(t, task_list[i])]
  OBVIOUS
<1>5. ASSUME NEW h \in submitted
      PROVE  DemandIn(t, h) \in 0 .. (d + 1) * c /\ JobsIn(t, h) \in 0 .. d
  <2>1. h \in RtTask /\ period[h] > 0
    BY <1>0 DEF Analysable
  <2> QED
    BY <1>0, <2>1, TaskBounds
<1>6. (d + 1) * c \in Nat
  BY Product
<1>7. D \in [1 .. n -> 0 .. (d + 1) * c] /\ J \in [1 .. n -> 0 .. d]
  BY <1>3, <1>4, <1>5, <1>6
<1>8. SumTo(D, n) \in 0 .. n * ((d + 1) * c) /\ SumTo(J, n) \in 0 .. n * d
  BY <1>2, <1>6, <1>7, SumBound
<1>9. PICK ticks \in Nat :
        /\ 2 * ticks < ULONG_MOD
        /\ ResponseTime(t) =
             SumTo(D, n) + C + 2 * s * SumTo(J, n) + s * JobsIn(t, t) + ticks
  <2>1. D \in [1 .. n -> Nat] /\ J \in [1 .. n -> Nat]
    BY <1>7
  <2>2. /\ D = [i \in 1 .. n |-> IF task_list[i] \in Delaying(t)
                                 THEN DemandIn(t, task_list[i]) ELSE 0]
        /\ J = [i \in 1 .. n |-> JobsIn(t, task_list[i])]
        /\ n = Len(task_list) /\ n \in Nat
    BY <1>1, <1>2, <1>4
  <2>3. AddsTo(t, SumTo(D, n), SumTo(J, n))
    BY <2>1, <2>2, AddsUp
  <2> QED
    BY <1>1, <2>3 DEF AddsTo
<1>10. JobsIn(t, t) \in 0 .. d /\ C \in 0 .. c /\ s \in 0 .. U /\ U \in Nat
  BY <1>0, <1>1, <1>5 DEF Within, Kept
<1>11. PICK X, B, b : /\ X = SumTo(D, n) + C + 2 * s * SumTo(J, n) + s * JobsIn(t, t)
                      /\ B = ((n + 1) * (d + 1)) * (c + 2 * U)
                      /\ b = ((N + 1) * (d + 1)) * (c + 2 * U)
  OBVIOUS
<1>12. X <= B /\ X \in Nat /\ B \in Nat
  BY <1>2, <1>8, <1>10, <1>11, TermsFit
<1>13. B <= b /\ b \in Nat
  <2>1. PICK k, K, e : /\ k = (d + 1) * (n + 1) /\ K = (d + 1) * (N + 1)
                       /\ e = c + 2 * U
    OBVIOUS
  <2>2. k <= K /\ k \in Nat /\ K \in Nat
    BY <1>2, <2>1, Product
  <2>3. e * k <= e * K /\ e * K \in Nat
    BY <1>10, <2>1, <2>2, Product
  <2>4. B = e * k /\ b = e * K
    BY <1>2, <1>10, <1>11, <2>1
  <2> QED
    BY <2>3, <2>4
<1>14. 2 * b <= ULONG_MOD
  BY <1>1, <1>11 DEF Fits
<1>15. PICK R : R = ResponseTime(t)
  OBVIOUS
<1>16. R = X + ticks
  BY <1>9, <1>11, <1>15
<1>17. R \in 0 .. ULONG_MOD - 1
  BY <1>0, <1>9, <1>12, <1>13, <1>14, <1>16
<1> QED
  BY <1>15, <1>17

\* A task whose response time response_time_analysis finds to be within its
\* deadline meets the deadline that it asked for, with two context switches for
\* each job: for all periods, deadlines and execution times that the tasks pass,
\* on a kernel with a tick of 1 ms, as README.txt asks for.  The response time of
\* so many tasks with such deadlines and execution times has to fit an unsigned
\* long (Fits); the comment at response_time_analysis leaves the others undefined.
THEOREM AnalysisTrusted ==
  ASSUME HZ = MSEC_1SEC, IsFiniteSet(RtTask),
         NEW d \in Nat, NEW c \in Nat, ArgsWithin(d, c), Fits(Cardinality(RtTask), d, c)
  PROVE  AdmissionSpec => []AnalysisSound
<1> DEFINE AInv == AdmInv /\ NotMore /\ Within(d, c)
<1>1. AdmissionInit => AInv
  BY AdmInit
<1>2. AInv /\ [AdmissionNext]_admission_vars => AInv'
  BY AdmNext
<1>3. AInv => AnalysisSound
  <2> SUFFICES ASSUME AInv, Analysable, NEW t \in submitted,
                      deadline[t] \in 1 .. period[t], wcet[t] > 0,
                      response_time_analysis(t) <= Window(t)
               PROVE  MeetsDeadline(t)
    BY DEF AnalysisSound
  <2>1. ResponseTime(t) \in 0 .. ULONG_MOD - 1
    BY ResponseFits
  <2>2. response_time_analysis(t) = ResponseTime(t)
    <3>1. ULONG_MOD \in Nat \ {0}
      BY Units
    <3> QED
      BY <2>1, <3>1 DEF response_time_analysis
  <2>3. deadline[t] > 0
    OBVIOUS
  <2> QED
    BY <2>2, <2>3, AnalysisIsSafe
<1> QED
  BY <1>1, <1>2, <1>3, PTL DEF AdmissionSpec

----------------------------------------------------------------------------
(* The analysis on timevals.                                               *)

Timeval == [tv_sec : Int, tv_usec : Int]

\* A timeval as a number of microseconds, carried or not.
LEMMA UsecsOf ==
  /\ \A x \in Timeval : Usecs(x) \in Int
  /\ \A s, us \in Int : /\ tv(s, us) \in Timeval
                        /\ Usecs(tv(s, us)) = s * USEC_1SEC + us
<1>1. USEC_1SEC \in Int
  BY Units
<1>2. ASSUME NEW x \in Timeval
      PROVE  Usecs(x) \in Int
  BY <1>1 DEF Timeval, Usecs
<1>3. ASSUME NEW s \in Int, NEW us \in Int
      PROVE  /\ tv(s, us) \in Timeval
             /\ Usecs(tv(s, us)) = s * USEC_1SEC + us
  BY <1>3 DEF Timeval, Usecs, tv
<1> QED
  BY <1>2, <1>3

\* The operations carry and borrow right, whether their operands do or not.
LEMMA TvSums ==
  ASSUME NEW x \in Timeval, NEW y \in Timeval
  PROVE  /\ tvadd(x, y) \in Timeval /\ tvsub(x, y) \in Timeval
         /\ Usecs(tvadd(x, y)) = Usecs(x) + Usecs(y)
         /\ Usecs(tvsub(x, y)) = Usecs(x) - Usecs(y)
<1>1. PICK U, a, b, c, d : /\ U = USEC_1SEC /\ a = x.tv_sec /\ b = y.tv_sec
                           /\ c = x.tv_usec /\ d = y.tv_usec
  OBVIOUS
<1>2. U \in Nat /\ a \in Int /\ b \in Int /\ c \in Int /\ d \in Int
  BY <1>1, Units DEF Timeval
<1>3. Usecs(x) = a * U + c /\ Usecs(y) = b * U + d
  BY <1>1 DEF Usecs
<1>4. tvadd(x, y) = IF c + d >= U THEN tv(a + b + 1, c + d - U)
                                      ELSE tv(a + b, c + d)
  <2>1. CASE c + d >= U
    BY <1>1, <1>2, <2>1 DEF tvadd
  <2>2. CASE ~(c + d >= U)
    BY <1>1, <1>2, <2>2 DEF tvadd
  <2> QED
    BY <2>1, <2>2
<1>5. tvsub(x, y) = IF c - d < 0 THEN tv(a - b - 1, c - d + U)
                                     ELSE tv(a - b, c - d)
  BY <1>1 DEF tvsub
<1>6. /\ (a + b + 1) * U + (c + d - U) = (a * U + c) + (b * U + d)
      /\ (a + b) * U + (c + d) = (a * U + c) + (b * U + d)
      /\ (a - b - 1) * U + (c - d + U) = (a * U + c) - (b * U + d)
      /\ (a - b) * U + (c - d) = (a * U + c) - (b * U + d)
  BY <1>2
<1>7. /\ a + b + 1 \in Int /\ a + b \in Int /\ a - b - 1 \in Int /\ a - b \in Int
      /\ c + d - U \in Int /\ c + d \in Int /\ c - d + U \in Int /\ c - d \in Int
  BY <1>2
<1>8. tvadd(x, y) \in Timeval /\ Usecs(tvadd(x, y)) = (a * U + c) + (b * U + d)
  <2>1. CASE c + d >= U
    BY <1>1, <1>4, <1>6, <1>7, <2>1, UsecsOf
  <2>2. CASE ~(c + d >= U)
    BY <1>1, <1>4, <1>6, <1>7, <2>2, UsecsOf
  <2> QED
    BY <2>1, <2>2
<1>9. tvsub(x, y) \in Timeval /\ Usecs(tvsub(x, y)) = (a * U + c) - (b * U + d)
  <2>1. CASE c - d < 0
    BY <1>1, <1>5, <1>6, <1>7, <2>1, UsecsOf
  <2>2. CASE ~(c - d < 0)
    BY <1>1, <1>5, <1>6, <1>7, <2>2, UsecsOf
  <2> QED
    BY <2>1, <2>2
<1> QED
  BY <1>3, <1>8, <1>9

\* Less than a second in the microseconds.
Carried(x) == x.tv_usec < USEC_1SEC

LEMMA TvProducts ==
  ASSUME NEW x \in Timeval, NEW n \in Nat
  PROVE  /\ tvmul(x, n) \in Timeval
         /\ Usecs(tvmul(x, n)) = Usecs(x) * n
         /\ Carried(tvmul(x, n))
         /\ x.tv_usec >= 0 => tvmul(x, n).tv_usec >= 0
<1>1. PICK U, a, c, p : U = USEC_1SEC /\ a = x.tv_sec /\ c = x.tv_usec /\ p = c * n
  OBVIOUS
<1>2. U \in Nat \ {0} /\ a \in Int /\ c \in Int /\ p \in Int
  BY <1>1, Units DEF Timeval
<1>3. tvmul(x, n) = IF p >= U THEN tv(a * n + p \div U, p % U)
                                  ELSE tv(a * n, p)
  BY <1>1 DEF tvmul
<1>4. Usecs(x) * n = a * n * U + p
  <2>1. Usecs(x) = a * U + c
    BY <1>1 DEF Usecs
  <2>2. (a * U + c) * n = a * n * U + c * n
    BY <1>2
  <2> QED
    BY <1>1, <2>1, <2>2
<1>5. a * n \in Int
  BY <1>2
<1>6. CASE p >= U
  <2>1. PICK q, r : q = p \div U /\ r = p % U
    OBVIOUS
  <2>2. q \in Nat /\ r \in 0 .. U - 1 /\ p = U * q + r
    <3>1. p \in Nat
      BY <1>2, <1>6
    <3> QED
      BY <1>2, <2>1, <3>1, DivMod
  <2>3. tvmul(x, n) = tv(a * n + q, r)
    BY <1>3, <1>6, <2>1
  <2>4. (a * n + q) * U + r = a * n * U + (U * q + r)
    BY <1>2, <1>5, <2>2
  <2>5. a * n + q \in Int /\ r \in Int
    BY <1>2, <1>5, <2>2
  <2>6. /\ tvmul(x, n) \in Timeval
        /\ Usecs(tvmul(x, n)) = (a * n + q) * U + r
    BY <1>1, <2>3, <2>5, UsecsOf
  <2>7. tvmul(x, n).tv_usec = r /\ r < U /\ r >= 0
    BY <1>2, <2>2, <2>3 DEF tv
  <2> QED
    BY <1>1, <1>4, <2>2, <2>4, <2>6, <2>7 DEF Carried
<1>7. CASE ~(p >= U)
  <2>1. tvmul(x, n) = tv(a * n, p)
    BY <1>3, <1>7
  <2>2. /\ tvmul(x, n) \in Timeval
        /\ Usecs(tvmul(x, n)) = a * n * U + p
    <3>1. a * n \in Int /\ p \in Int
      BY <1>2, <1>5
    <3> QED
      BY <1>1, <2>1, <3>1, UsecsOf
  <2>3. tvmul(x, n).tv_usec = p /\ p < U
    BY <1>2, <1>7, <2>1 DEF tv
  <2>4. c >= 0 => p >= 0
    <3>1. ASSUME c >= 0
          PROVE  c * n \in Nat
      <4>1. c \in Nat
        BY <1>2, <3>1
      <4> QED
        BY <4>1, Product
    <3> QED
      BY <1>1, <3>1
  <2> QED
    BY <1>1, <1>4, <2>2, <2>3, <2>4 DEF Carried
<1> QED
  BY <1>6, <1>7

\* A jiffy is taken for a millisecond.
LEMMA TvJiffies ==
  ASSUME NEW j \in Nat
  PROVE  /\ tvjiffies(j) \in Timeval
         /\ Usecs(tvjiffies(j)) = j * USEC_1MSEC
         /\ Carried(tvjiffies(j)) /\ tvjiffies(j).tv_usec >= 0
<1>1. PICK m, M, q, r : m = USEC_1MSEC /\ M = MSEC_1SEC /\ q = j \div M /\ r = j % M
  OBVIOUS
<1>2. m \in Nat \ {0} /\ M \in Nat \ {0} /\ USEC_1SEC = m * M
  BY <1>1, Units
<1>3. q \in Nat /\ r \in 0 .. M - 1 /\ j = M * q + r
  BY <1>1, <1>2, DivMod
<1>4. tvjiffies(j) = tv(q, r * m)
  BY <1>1 DEF tvjiffies, tvms
<1>5. r * m \in Nat /\ r * m < m * M
  <2>1. m * (r + 1) <= m * M /\ m * M \in Nat
    BY <1>2, <1>3, Product
  <2>2. m * r \in Nat
    BY <1>2, <1>3, Product
  <2>3. m * (r + 1) = m * r + m /\ r * m = m * r
    BY <1>2, <1>3
  <2> QED
    BY <1>2, <2>1, <2>2, <2>3
<1>6. q * (m * M) + r * m = j * m
  <2>1. (M * q + r) * m = q * (m * M) + r * m
    BY <1>2, <1>3
  <2> QED
    BY <1>3, <2>1
<1>7. /\ tvjiffies(j) \in Timeval
      /\ Usecs(tvjiffies(j)) = q * USEC_1SEC + r * m
  <2>1. q \in Int /\ r * m \in Int
    BY <1>3, <1>5
  <2> QED
    BY <1>4, <2>1, UsecsOf
<1>8. tvjiffies(j).tv_usec = r * m
  BY <1>4 DEF tv
<1> QED
  BY <1>1, <1>2, <1>5, <1>6, <1>7, <1>8 DEF Carried

\* The comparison is right if no operand has a second in its microseconds; if
\* the second one has, it may only be taken for less than it is.
LEMMA TvCompared ==
  ASSUME NEW x \in Timeval, NEW y \in Timeval,
         Carried(x), x.tv_usec >= 0, y.tv_usec >= 0
  PROVE  /\ ~tvge(x, y) => Usecs(x) < Usecs(y)
         /\ Carried(y) /\ tvge(x, y) => Usecs(x) >= Usecs(y)
<1>1. PICK U, a, b, c, d : /\ U = USEC_1SEC /\ a = x.tv_sec /\ b = y.tv_sec
                           /\ c = x.tv_usec /\ d = y.tv_usec
  OBVIOUS
<1>2. /\ U \in Nat \ {0} /\ a \in Int /\ b \in Int /\ c \in Nat /\ d \in Nat /\ c < U
      /\ Carried(y) => d < U
  BY <1>1, Units DEF Timeval, Carried
<1>3. Usecs(x) = a * U + c /\ Usecs(y) = b * U + d
  BY <1>1 DEF Usecs
<1>4. tvge(x, y) <=> IF a = b THEN c >= d ELSE a >= b
  BY <1>1 DEF tvge
<1>5. PICK p, q, e : p = a * U /\ q = b * U /\ e = a - b
  OBVIOUS
<1>6. p \in Int /\ q \in Int /\ e \in Int /\ p - q = U * e
  BY <1>2, <1>5
<1>7. CASE e >= 1
  <2>1. U * 1 <= U * e /\ U * e \in Nat
    BY <1>2, <1>6, <1>7, Product
  <2>2. p >= q + U /\ a > b
    BY <1>2, <1>5, <1>6, <1>7, <2>1
  <2> QED
    BY <1>2, <1>3, <1>4, <1>5, <1>6, <2>2
<1>8. CASE e = 0
  <2>1. p = q /\ a = b
    BY <1>2, <1>5, <1>8
  <2> QED
    BY <1>2, <1>3, <1>4, <1>5, <1>6, <2>1
<1>9. CASE e < 0
  <2>1. 0 - e \in Nat /\ 1 <= 0 - e
    BY <1>6, <1>9
  <2>2. U * 1 <= U * (0 - e) /\ U * (0 - e) = 0 - U * e
    BY <1>2, <1>6, <2>1, Product
  <2>3. q >= p + U /\ a < b
    BY <1>2, <1>5, <1>6, <1>9, <2>2
  <2> QED
    BY <1>2, <1>3, <1>4, <1>5, <1>6, <2>3
<1> QED
  BY <1>6, <1>7, <1>8, <1>9

\* The demand of a task is found, or more if its execution time is a second or
\* more: then its job may be taken for one that fits into the window.
LEMMA TvDemand ==
  ASSUME Kept, NotMore, HZ = MSEC_1SEC,
         NEW t \in RtTask, NEW h \in RtTask, period[h] > 0
  PROVE  /\ tv_demand_in(t, h) \in Timeval /\ DemandIn(t, h) \in Int
         /\ Usecs(tv_demand_in(t, h)) >= DemandIn(t, h)
         /\ wcet[h] < USEC_1SEC =>
              Usecs(tv_demand_in(t, h)) = DemandIn(t, h)
<1>1. PICK P, F, r, L, C : /\ P = PeriodOf(h) /\ F = Whole(t, h) /\ r = Rest(t, h)
                           /\ L = Window(t) /\ C = wcet[h]
  OBVIOUS
<1>2. /\ P \in Nat \ {0} /\ F \in Nat /\ r \in 0 .. P - 1 /\ L \in Nat
      /\ Splits(L, P, F, r)
  BY <1>1, Windows
<1>3. /\ C \in Nat /\ period[h] \in Nat /\ deadline[t] \in Nat
      /\ USEC_1SEC \in Nat \ {0}
  BY <1>1, Units DEF Kept
\* The window, the period and the execution time as timevals.
<1>4. PICK x, y, z : /\ x = tvjiffies(deadline[t]) /\ y = tvjiffies(period[h])
                     /\ z = tvus(C)
  OBVIOUS
<1>5. /\ x \in Timeval /\ Usecs(x) = L /\ Carried(x) /\ x.tv_usec >= 0
      /\ y \in Timeval /\ Usecs(y) = P /\ Carried(y) /\ y.tv_usec >= 0
  BY <1>1, <1>3, <1>4, JiffyIs, TvJiffies DEF Window, PeriodOf
<1>6. z \in Timeval /\ Usecs(z) = C /\ z.tv_usec = C
  <2>1. 0 * USEC_1SEC + C = C
    BY <1>3
  <2>2. z = tv(0, C)
    BY <1>4 DEF tvus
  <2>3. z \in Timeval /\ Usecs(z) = 0 * USEC_1SEC + C
    BY <1>3, <2>2, UsecsOf
  <2>4. z.tv_usec = C
    BY <2>2 DEF tv
  <2> QED
    BY <2>1, <2>3, <2>4
\* Where the job after the last whole period ends.
<1>7. PICK m, e : m = tvmul(y, F) /\ e = tvadd(m, z)
  OBVIOUS
<1>8. /\ m \in Timeval /\ Usecs(m) = P * F /\ Carried(m) /\ m.tv_usec >= 0
      /\ m.tv_usec \in Int
  <2>1. m \in Timeval /\ Usecs(m) = P * F /\ Carried(m) /\ m.tv_usec >= 0
    BY <1>2, <1>5, <1>7, TvProducts
  <2> QED
    BY <2>1 DEF Timeval
<1>9. e \in Timeval /\ Usecs(e) = P * F + C
  BY <1>6, <1>7, <1>8, TvSums
<1>10. e.tv_usec >= 0 /\ (C < USEC_1SEC => Carried(e))
  <2>1. PICK U, us : U = USEC_1SEC /\ us = m.tv_usec
    OBVIOUS
  <2>2. U \in Nat \ {0} /\ us \in Nat /\ us < U
    BY <1>3, <1>8, <2>1 DEF Carried
  <2>3. e.tv_usec = IF us + C >= U THEN us + C - U ELSE us + C
    <3>1. CASE us + C >= U
      <4>1. e = tv(m.tv_sec + z.tv_sec + 1, us + C - U)
        BY <1>3, <1>6, <1>7, <2>1, <2>2, <3>1 DEF tvadd
      <4> QED
        BY <3>1, <4>1 DEF tv
    <3>2. CASE ~(us + C >= U)
      <4>1. e = tv(m.tv_sec + z.tv_sec, us + C)
        BY <1>3, <1>6, <1>7, <2>1, <2>2, <3>2 DEF tvadd
      <4> QED
        BY <3>2, <4>1 DEF tv
    <3> QED
      BY <3>1, <3>2
  <2> QED
    BY <1>3, <2>1, <2>2, <2>3 DEF Carried
<1>11. /\ ~tvge(x, e) => L < P * F + C
       /\ C < USEC_1SEC /\ tvge(x, e) => L >= P * F + C
  BY <1>5, <1>9, <1>10, TvCompared
<1>12. PICK g : g = tv_demand_in(t, h)
  OBVIOUS
<1>13. g = IF tvge(x, e) THEN tvmul(z, F + 1)
           ELSE tvsub(x, tvmul(tvsub(y, z), F))
  BY <1>1, <1>4, <1>7, <1>12 DEF tv_demand_in, tv_demand, Whole
<1>14. tvmul(z, F + 1) \in Timeval /\ Usecs(tvmul(z, F + 1)) = C * (F + 1)
  <2>1. F + 1 \in Nat
    BY <1>2
  <2> QED
    BY <1>6, <2>1, TvProducts
<1>15. PICK k, b : k = tvmul(tvsub(y, z), F) /\ b = tvsub(x, k)
  OBVIOUS
<1>16. b \in Timeval /\ Usecs(b) = L - (P - C) * F
  <2>1. tvsub(y, z) \in Timeval /\ Usecs(tvsub(y, z)) = P - C
    BY <1>5, <1>6, TvSums
  <2>2. k \in Timeval /\ Usecs(k) = (P - C) * F
    BY <1>2, <1>15, <2>1, TvProducts
  <2> QED
    BY <1>5, <1>15, <2>2, TvSums
<1>17. DemandIn(t, h) = AsksFor(L, F, P, C)
  BY <1>1 DEF DemandIn, Demand_hp, AsksFor, PeriodOf, Whole
<1>18. (P - C) * F = F * (P - C)
  BY <1>2, <1>3
<1>19. AsksFor(L, F, P, C) <= C * (F + 1) /\ AsksFor(L, F, P, C) \in Int /\ C * (F + 1) \in Int
  <2>0. /\ P \in Nat \ {0} /\ F \in Nat /\ C \in Nat /\ r \in 0 .. P - 1
        /\ Splits(L, P, F, r)
    BY <1>2, <1>3
  <2>1. AsksFor(L, F, P, C) = F * C + (IF r >= C THEN C ELSE r)
    BY <2>0, AskedWhole
  <2>2. PICK fc : fc = F * C
    OBVIOUS
  <2>3. fc \in Nat
    BY <1>2, <1>3, <2>2, Product
  <2>4. C * (F + 1) = fc + C
    BY <1>2, <1>3, <2>2
  <2> QED
    BY <1>2, <1>3, <2>1, <2>2, <2>3, <2>4
<1>20. CASE ~tvge(x, e)
  <2>1. g = b
    BY <1>13, <1>15, <1>20
  <2>2. P * F \in Nat
    BY <1>2, Product
  <2>3. ~(L >= P * F + C)
    BY <1>2, <1>3, <1>11, <1>20, <2>2
  <2>4. AsksFor(L, F, P, C) = L - F * (P - C)
    BY <2>3 DEF AsksFor
  <2>5. g \in Timeval /\ Usecs(g) = AsksFor(L, F, P, C)
    BY <1>16, <1>18, <2>1, <2>4
  <2> QED
    BY <1>12, <1>17, <1>19, <2>5
<1>21. CASE tvge(x, e)
  <2>1. g \in Timeval /\ Usecs(g) = C * (F + 1)
    BY <1>13, <1>14, <1>21
  <2>2. C < USEC_1SEC => AsksFor(L, F, P, C) = C * (F + 1)
    BY <1>11, <1>21 DEF AsksFor
  <2> QED
    BY <1>1, <1>12, <1>17, <1>19, <2>1, <2>2
<1> QED
  BY <1>20, <1>21

\* The loop adds the demands up.
LEMMA TvResponse ==
  ASSUME AdmInv, NotMore, HZ = MSEC_1SEC, Analysable,
         NEW t \in submitted
  PROVE  LET found == Usecs(response_time_analysis_timeval(t))
             exact == Demands(t) + wcet[t]
         IN  /\ found >= exact
             /\ (\A h \in submitted : wcet[h] < USEC_1SEC) => found = exact
<1>0. /\ Listing /\ Kept /\ t \in RtTask /\ submitted \subseteq RtTask
      /\ task_list \in Seq(RtTask) /\ Elements(task_list) = submitted
      /\ wcet[t] \in Nat
  <2>1. Listing /\ Kept
    BY DEF AdmInv
  <2> QED
    BY <2>1 DEF Listing, Kept
<1>1. PICK n : n = HigherOrEqual(t)
  OBVIOUS
<1>2. n \in Nat /\ n <= Len(task_list) /\ \A i \in 1 .. n : task_list[i] \in submitted
  <2>1. n \in 0 .. Len(task_list) /\ Len(task_list) \in Nat
    BY <1>0, <1>1, TakesHigher, LenProperties
  <2> QED
    BY <1>0, <2>1 DEF Elements
<1>3. ASSUME NEW h \in submitted
      PROVE  /\ tv_demand_in(t, h) \in Timeval /\ DemandIn(t, h) \in Int
             /\ Usecs(tv_demand_in(t, h)) >= DemandIn(t, h)
             /\ wcet[h] < USEC_1SEC =>
                  Usecs(tv_demand_in(t, h)) = DemandIn(t, h)
  <2>1. h \in RtTask /\ period[h] > 0
    BY <1>0 DEF Analysable
  <2> QED
    BY <1>0, <2>1, TvDemand
<1> DEFINE next(i, v) == IF task_list[i] = t THEN v
                         ELSE tvadd(v, tv_demand_in(t, task_list[i]))
           Eq(s) == s = [k \in 0 .. n |-> IF k = 0 THEN tvclear
                                          ELSE IF task_list[k] = t THEN s[k - 1]
                                          ELSE tvadd(s[k - 1],
                                                 tv_demand_in(t, task_list[k]))]
<1>4. ASSUME NEW i \in 1 .. n, NEW v \in Timeval
      PROVE  next(i, v) \in Timeval
  BY <1>2, <1>3, TvSums
<1>5. tvclear \in Timeval /\ Usecs(tvclear) = 0
  <2>1. 0 * USEC_1SEC + 0 = 0
    BY Units
  <2>2. 0 \in Int
    OBVIOUS
  <2> QED
    BY <2>1, <2>2, UsecsOf DEF tvclear
<1>6. PICK f : /\ f \in [0 .. n -> Timeval] /\ f[0] = tvclear
               /\ \A k \in 1 .. n : f[k] = next(k, f[k - 1])
  <2>1. PICK step : step = [i \in 1 .. n |-> [v \in Timeval |-> next(i, v)]]
    OBVIOUS
  <2>2. StepsOn(step, n, Timeval)
    <3> HIDE DEF next
    <3> QED
      BY <1>4, <2>1 DEF StepsOn
  <2>3. PICK f : IteratesTo(f, step, n, Timeval, tvclear)
    BY <1>2, <1>5, <2>2, Iterated
  <2>4. ASSUME NEW k \in 1 .. n
        PROVE  f[k] = next(k, f[k - 1])
    <3>1. k - 1 \in 0 .. n
      BY <1>2
    <3>2. f[k - 1] \in Timeval /\ f[k] = step[k][f[k - 1]]
      BY <2>3, <3>1 DEF IteratesTo
    <3> HIDE DEF next
    <3> QED
      BY <2>1, <3>2
  <2> QED
    BY <2>3, <2>4 DEF IteratesTo
<1>7. Eq(f)
  <2>1. \A k \in 0 .. n : k = 0 \/ k \in 1 .. n
    BY <1>2
  <2>2. \A k \in 0 .. n : f[k] = IF k = 0 THEN tvclear ELSE next(k, f[k - 1])
    <3> HIDE DEF next
    <3> QED
      BY <1>6, <2>1
  <2> QED
    BY <1>6, <2>2
<1>8. PICK ret : ret = CHOOSE s : Eq(s)
  OBVIOUS
<1>9. Eq(ret)
  BY <1>7, <1>8
<1>10. response_time_analysis_timeval(t)
         = tvadd(ret[n], tvus(wcet[t]))
  BY <1>1, <1>8 DEF response_time_analysis_timeval
<1>11. ret[0] = tvclear /\ \A k \in 1 .. n : ret[k] = next(k, ret[k - 1])
  BY <1>2, <1>9
\* The sum of the other analysis.
<1>12. PICK G : G = [i \in 1 .. n |-> IF task_list[i] = t THEN 0
                                      ELSE DemandIn(t, task_list[i])]
  OBVIOUS
<1>13. G \in [1 .. n -> Int]
  BY <1>2, <1>3, <1>12
<1>14. PICK s \in [0 .. n -> Int] :
         /\ s[0] = 0
         /\ \A k \in 1 .. n : s[k] = s[k - 1] + G[k]
         /\ SumTo(G, n) = s[n]
  BY <1>2, <1>13, SumSteps
<1>15. Demands(t) = s[n]
  BY <1>1, <1>12, <1>14 DEF Demands
<1> DEFINE short == \A h \in submitted : wcet[h] < USEC_1SEC
           Good(k) == /\ ret[k] \in Timeval
                      /\ Usecs(ret[k]) >= s[k]
                      /\ short => Usecs(ret[k]) = s[k]
           S == {k \in 0 .. n : Good(k)}
<1>16. 0 \in S
  BY <1>2, <1>5, <1>11, <1>14
<1>17. ASSUME NEW k \in 1 .. n, k - 1 \in S
       PROVE  k \in S
  <2>1. PICK v, a, d, h : v = ret[k - 1] /\ a = s[k - 1] /\ d = G[k] /\ h = task_list[k]
    OBVIOUS
  <2>2. /\ v \in Timeval /\ Usecs(v) >= a /\ (short => Usecs(v) = a)
        /\ h \in submitted /\ a \in Int /\ d \in Int
        /\ s[k] = a + d /\ k \in 0 .. n /\ ret[k] = next(k, v)
    <3>1. k - 1 \in 0 .. n /\ k \in 0 .. n
      BY <1>2
    <3> HIDE DEF next
    <3> QED
      BY <1>2, <1>11, <1>13, <1>14, <1>17, <2>1, <3>1
  <2>3. Usecs(v) \in Int
    BY <2>2, UsecsOf
  <2>4. CASE h = t
    <3>1. ret[k] = v /\ d = 0
      BY <1>12, <2>1, <2>2, <2>4
    <3>2. s[k] = a
      BY <2>2, <3>1
    <3>3. Good(k)
      BY <2>2, <3>1, <3>2
    <3> HIDE DEF Good
    <3> QED
      BY <2>2, <3>3
  <2>5. CASE h # t
    <3>1. PICK g : g = tv_demand_in(t, h)
      OBVIOUS
    <3>2. ret[k] = tvadd(v, g) /\ d = DemandIn(t, h)
      BY <1>12, <2>1, <2>2, <2>5, <3>1
    <3>3. g \in Timeval /\ Usecs(g) >= d /\ (short => Usecs(g) = d)
      BY <1>3, <2>2, <3>1, <3>2
    <3>4. Usecs(g) \in Int
      BY <3>3, UsecsOf
    <3>5. ret[k] \in Timeval /\ Usecs(ret[k]) = Usecs(v) + Usecs(g)
      BY <2>2, <3>2, <3>3, TvSums
    <3> HIDE DEF short
    <3>6. Good(k)
      BY <2>2, <2>3, <3>3, <3>4, <3>5
    <3> HIDE DEF Good
    <3> QED
      BY <2>2, <3>6
  <2> QED
    BY <2>4, <2>5
<1>18. Good(n)
  <2> HIDE DEF S
  <2>1. 0 .. n \subseteq S
    BY <1>2, <1>16, <1>17, UpTo
  <2>2. n \in S
    BY <1>2, <2>1
  <2> QED
    BY <2>2 DEF S
<1>19. /\ tvus(wcet[t]) \in Timeval
       /\ Usecs(tvus(wcet[t])) = wcet[t]
  <2>1. 0 * USEC_1SEC + wcet[t] = wcet[t]
    BY <1>0, Units
  <2>2. 0 \in Int /\ wcet[t] \in Int
    BY <1>0
  <2> QED
    BY <2>1, <2>2, UsecsOf DEF tvus
<1>20. PICK R, c, u : /\ R = Usecs(response_time_analysis_timeval(t))
                      /\ c = wcet[t] /\ u = Usecs(ret[n])
  OBVIOUS
<1>21. R = u + c
  BY <1>10, <1>18, <1>19, <1>20, TvSums
<1>22. u \in Int /\ s[n] \in Int /\ c \in Int /\ u >= s[n] /\ (short => u = s[n])
  <2>1. n \in 0 .. n
    BY <1>2
  <2>2. s[n] \in Int /\ c \in Int
    BY <1>0, <1>20, <2>1
  <2>3. u \in Int /\ u >= s[n]
    BY <1>18, <1>20, UsecsOf
  <2> QED
    BY <1>18, <1>20, <2>2, <2>3
<1>23. R >= s[n] + c /\ (short => R = s[n] + c)
  <2> HIDE DEF short
  <2> QED
    BY <1>21, <1>22
<1> QED
  BY <1>15, <1>20, <1>23

\* With a tick of 1 ms, response_time_analysis_timeval never finds a shorter
\* response time than the sum of the demands, and finds exactly this sum when the
\* execution times are below a second: the carries and borrows of the operations
\* on timevals are right in every combination that the analysis makes.
THEOREM AnalysesAgreeAlways ==
  ASSUME HZ = MSEC_1SEC
  PROVE  AdmissionSpec => []AnalysesAgree
<1> DEFINE AInv == AdmInv /\ NotMore
<1>1. AdmissionInit => AInv
  BY AdmInit
<1>2. AInv /\ [AdmissionNext]_admission_vars => AInv'
  BY AdmNext
<1>3. AInv => AnalysesAgree
  BY TvResponse DEF AnalysesAgree
<1> QED
  BY <1>1, <1>2, <1>3, PTL DEF AdmissionSpec
=============================================================================
