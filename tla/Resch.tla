------------------------------- MODULE Resch -------------------------------
(***************************************************************************)
(* The real-time tasks of one core under core/resch.c without a plugin:    *)
(* the global list of the submitted tasks, the active queue of the tasks   *)
(* with a released job, the chain of preempted jobs, and the accounting of *)
(* execution time in jiffies.                                              *)
(*                                                                         *)
(* A task is a resch_task_t.  A system call of a task is one step: the     *)
(* kernel is not preempted by other tasks, and the timer handlers that may *)
(* interrupt the call only wake tasks and append them to the active queue, *)
(* which commutes with its parts.  Left out are resource reservation,      *)
(* tasks without a period, and the jiffy that may pass between the two     *)
(* comparisons with release_time (HSF.tla has it).                         *)
(***************************************************************************)
EXTENDS Bitops, Lists, FiniteSets

CONSTANTS
  Task,
  None,       \* NULL
  MaxPrio,    \* RESCH_MAX_PRIO
  UsesSets,   \* the uses of the tasks to explore
  MaxExec     \* bound: jiffies that a job is charged

\* What a task may do besides rt_init, rt_set_priority, rt_run,
\* rt_wait_for_period and rt_exit in this order, as the samples do:
\*   "prio_in_job"  change the priority in a job
\*   "exit_early"   exit before the first job
\*   "block"        sleep in a job
\*   "normal"       run without having set a priority
Uses == {"prio_in_job", "exit_early", "block", "normal"}

ASSUME ReschAssumption ==
  /\ IsFiniteSet(Task) /\ None \notin Task
  /\ MaxPrio \in Nat \ {0}
  /\ MaxExec \in Nat

RESCH_MIN_PRIO == 1
Prio == RESCH_MIN_PRIO .. MaxPrio

\* The index of a priority in the bitmap, which has RESCH_PRIO_LONG words.
reverse_prio(p) == MaxPrio - p
RESCH_PRIO_LONG == BITS_TO_LONGS(MaxPrio + 1)

\* The priorities that a task may set, and what it does.
Use == [prios : SUBSET Prio, does : SUBSET Uses]

ASSUME UsesAssumption == UsesSets \subseteq [Task -> Use]

VARIABLES
  uses,       \* what each task may do; never changes
  phase,      \* "exited", "init", "waiting" for a release, "released", "started"
  prio,       \* resch_task_t.prio
  fifo,       \* the set of the tasks that sched_setscheduler made real-time
  runq,       \* the kernel's run queue: the runnable tasks as they came
  global,     \* go.task_list
  active,     \* lo[cpu].active: queue, bitmap and nr_tasks
  chain,      \* lo[cpu].current_task, jiffies since lo[cpu].tick.last_tick, and
              \* preempter, preemptee and exec_time of each task
  ran         \* history: jiffies that the job of a task ran

vars == <<uses, phase, prio, fifo, runq, global, active, chain, ran>>

----------------------------------------------------------------------------
(* The active queue and the global list.                                   *)

__enqueue_task(a, t, p) ==
  [ queue    |-> [a.queue EXCEPT ![p] = Append(@, t)],
    bitmap   |-> a.bitmap \cup {reverse_prio(p)},
    nr_tasks |-> a.nr_tasks + 1 ]

\* Mutant: the bit is left alone.
__dequeue_keep_bit(a, t, p) ==
  [ queue    |-> [q \in Prio |-> Without(a.queue[q], t)],
    bitmap   |-> a.bitmap,
    nr_tasks |-> a.nr_tasks - 1 ]

\* Mutant: the entry is looked for in the list of its priority only.
__dequeue_by_prio(a, t, p) ==
  [ queue    |-> [a.queue EXCEPT ![p] = Without(@, t)],
    bitmap   |-> IF Without(a.queue[p], t) = <<>>
                 THEN a.bitmap \ {reverse_prio(p)} ELSE a.bitmap,
    nr_tasks |-> a.nr_tasks - 1 ]

\* The entry is taken out of the list that it is in; p is the task's priority,
\* whose bit is cleared when its list is empty.
__dequeue_task(a, t, p) ==
  LET queue == [q \in Prio |-> Without(a.queue[q], t)]
  IN  [ queue    |-> queue,
        bitmap   |-> IF queue[p] = <<>>
                     THEN a.bitmap \ {reverse_prio(p)} ELSE a.bitmap,
        nr_tasks |-> a.nr_tasks - 1 ]

\* Mutant: nobody asks whether the task is linked.
always_active(a, t) == TRUE

task_is_active(a, t) == \E p \in Prio : t \in Elements(a.queue[p])

\* The first entry of the list of bit idx.  An empty list has no entry: the
\* pointer is wild, and any task stands for it.  No bit (-1) is NULL, the empty
\* set.
FirstEntries(a, idx) ==
  IF idx < 0 THEN {}
  ELSE LET q == a.queue[reverse_prio(idx)]
       IN  IF q = <<>> THEN Task ELSE {Head(q)}

active_highest_prio_task(a) ==
  FirstEntries(a, resch_ffs(a.bitmap, RESCH_PRIO_LONG))

\* Mutant: the search starts at the bit of the list that has been walked.
next_from_own_prio(a, t, p) ==
  LET q == a.queue[p]
  IN  IF q[Len(q)] # t
      THEN {q[i + 1] : i \in {j \in 1 .. Len(q) - 1 : q[j] = t}}
      ELSE FirstEntries(a, resch_fns(a.bitmap, reverse_prio(p), RESCH_PRIO_LONG))

active_next_prio_task(a, t, p) ==
  LET q == a.queue[p]
  IN  IF q[Len(q)] # t
      THEN {q[i + 1] : i \in {j \in 1 .. Len(q) - 1 : q[j] = t}}
      ELSE FirstEntries(a, resch_fns(a.bitmap, reverse_prio(p) + 1,
                                     RESCH_PRIO_LONG))

active_prio_task(a, p) ==
  FirstEntries(a, resch_fns(a.bitmap, reverse_prio(p), RESCH_PRIO_LONG))

\* The tasks of the next list are counted; idx is where its bit is searched from.
CountList(a, walk) ==
  LET i == resch_fns(a.bitmap, walk.idx, RESCH_PRIO_LONG)
  IN  IF i < 0 THEN walk
      ELSE [counted |-> walk.counted \o a.queue[reverse_prio(i)], idx |-> i + 1]

\* The tasks of the first n lists, none of which should be empty.
Counted(a, n) ==
  LET walk[k \in 0 .. n] ==
        IF k = 0 THEN [counted |-> <<>>, idx |-> 0] ELSE CountList(a, walk[k - 1])
  IN  walk[n].counted

active_number_task(a, n) ==
  LET s == Counted(a, n) IN IF Len(s) >= n THEN {s[n]} ELSE {}

----------------------------------------------------------------------------
(* The chain of preempted jobs and the execution times.                    *)

Charge(c, t) ==
  [c EXCEPT !.exec_time[t] = @ + c.since, !.since = 0]

\* Mutant: the time is charged to nobody.
tick_uncharged(c) == [c EXCEPT !.since = 0]

update_tick(c) ==
  IF c.current = None THEN [c EXCEPT !.since = 0] ELSE Charge(c, c.current)

\* Job t starts.  A job of a lower priority is preempted by it; while one of a
\* higher priority sleeps, t is left out of the chain.
preempt_curr(c, t, pr) ==
  LET d == update_tick(c)
  IN  IF c.current = None
      THEN [d EXCEPT !.preemptee = [@ EXCEPT ![t] = None], !.current = t]
      ELSE IF pr[c.current] < pr[t]
      THEN [d EXCEPT !.preemptee = [@ EXCEPT ![t] = c.current],
                     !.preempter = [@ EXCEPT ![c.current] = t],
                     !.current = t]
      ELSE d

\* Mutant: the job that goes on keeps its preempter.
switch_keep_preempter(c, t) ==
  [Charge(c, t) EXCEPT !.current = c.preemptee[t],
                       !.preemptee = [@ EXCEPT ![t] = None]]

\* Job t ends, and the one it preempted goes on.
preempt_switch(c, t) ==
  [Charge(c, t) EXCEPT
     !.current = c.preemptee[t],
     !.preemptee = [@ EXCEPT ![t] = None],
     !.preempter = [u \in Task |->
                      IF u = c.preemptee[t] THEN None ELSE @[u]]]

\* Task t is taken out of the chain.
preempt_out(c, t) ==
  LET d == IF c.current = t
           THEN [update_tick(c) EXCEPT !.current = c.preemptee[t]] ELSE c
  IN  [d EXCEPT
         !.preemptee = [u \in Task |->
           IF u = t THEN None
           ELSE IF u = c.preempter[t] THEN c.preemptee[t] ELSE @[u]],
         !.preempter = [u \in Task |->
           IF u = t THEN None
           ELSE IF u = c.preemptee[t] THEN c.preempter[t] ELSE @[u]]]

\* The task before t in its list, or the last one of the list of the next set
\* bit.
active_prev_prio_task(a, t, p) ==
  LET q    == a.queue[p]
      idx  == resch_fps(a.bitmap, reverse_prio(p) - 1, RESCH_PRIO_LONG)
      list == a.queue[reverse_prio(idx)]
  IN  IF Head(q) # t
      THEN {q[i] : i \in {j \in 1 .. Len(q) - 1 : q[j + 1] = t}}
      ELSE IF idx < 0 THEN {}
      ELSE IF list = <<>> THEN Task ELSE {list[Len(list)]}

\* Task t is put into the chain, right after the task before it in the queue.
\* preempt_in dereferences that task: when there is none (NULL), the step has no
\* successor.
PreemptIn(c, a, t, pr) ==
  IF c.current = None \/ pr[c.current] < pr[t]
  THEN {preempt_curr(c, t, pr)}
  ELSE { [c EXCEPT
            !.preemptee = [@ EXCEPT ![t] = c.preemptee[prev], ![prev] = t],
            !.preempter = [u \in Task |->
              IF u = t THEN prev
              ELSE IF u = c.preemptee[prev] THEN t ELSE @[u]]]
         : prev \in active_prev_prio_task(a, t, pr[t]) }

----------------------------------------------------------------------------
(* The kernel's scheduler, SCHED_FIFO above the others.                    *)

rt_priority(t) == IF t \in fifo THEN prio[t] ELSE 0

Runnable == Elements(runq)

\* The task that has the core: the first one of the highest priority; the tasks
\* that are not real-time share it.
OnCpu(t) ==
  \E i \in 1 .. Len(runq) :
    /\ runq[i] = t
    /\ \A j \in 1 .. Len(runq) :
         \/ rt_priority(runq[j]) < rt_priority(t)
         \/ /\ rt_priority(runq[j]) = rt_priority(t)
            /\ t \in fifo => i <= j

----------------------------------------------------------------------------
(* The system calls and the timer handler.                                 *)

Init ==
  /\ uses \in UsesSets
  /\ phase = [t \in Task |-> "exited"]
  /\ prio = [t \in Task |-> RESCH_MIN_PRIO]
  /\ fifo = {}
  /\ runq = <<>>
  /\ global = <<>>
  /\ active = [ queue |-> [p \in Prio |-> <<>>], bitmap |-> {}, nr_tasks |-> 0 ]
  /\ chain = [ current |-> None, since |-> 0,
               preempter |-> [t \in Task |-> None],
               preemptee |-> [t \in Task |-> None],
               exec_time |-> [t \in Task |-> 0] ]
  /\ ran = [t \in Task |-> 0]

\* A process, which has the core, enters the real-time mode.
api_init(t) ==
  /\ phase[t] = "exited"
  /\ \A u \in Runnable : u \notin fifo
  /\ phase' = [phase EXCEPT ![t] = "init"]
  /\ prio' = [prio EXCEPT ![t] = RESCH_MIN_PRIO]
  /\ runq' = Append(runq, t)
  /\ chain' = [chain EXCEPT !.preempter = [@ EXCEPT ![t] = None],
                            !.preemptee = [@ EXCEPT ![t] = None],
                            !.exec_time = [@ EXCEPT ![t] = 0]]
  /\ ran' = [ran EXCEPT ![t] = 0]
  /\ UNCHANGED <<uses, fifo, global, active>>

\* Set since api_run, as release_time is.
task_is_submitted(t) == phase[t] \in {"waiting", "released", "started"}

\* requeue_task, once the priority and its index are changed.
Requeue(t, pr) ==
  LET out == preempt_out(chain, t)
  IN  /\ active' = __enqueue_task(__dequeue_task(active, t, pr[t]), t, pr[t])
      /\ IF out.exec_time[t] > 0
         THEN chain' \in PreemptIn(out, active', t, pr)
         ELSE chain' = out

\* set_priority of a task that may change it: change_prio.
api_set_priority(t, p) ==
  /\ OnCpu(t)
  /\ p \in uses[t].prios
  /\ \/ phase[t] = "init"
     \/ phase[t] = "started" /\ "prio_in_job" \in uses[t].does
  /\ fifo' = fifo \cup {t}
  /\ runq' = Append(Without(runq, t), t)
  /\ prio' = [prio EXCEPT ![t] = p]
  /\ global' = IF task_is_submitted(t)
               THEN __global_list_insert(Without(global, t), t, prio')
               ELSE global
  /\ IF task_is_active(active, t) THEN Requeue(t, prio')
                                  ELSE UNCHANGED <<active, chain>>
  /\ UNCHANGED <<uses, phase, ran>>

\* Wait for the release: the task sleeps until its timer fires.
Sleep(t, a, c) ==
  /\ phase' = [phase EXCEPT ![t] = "waiting"]
  /\ runq' = Without(runq, t)
  /\ active' = a
  /\ chain' = c
  /\ UNCHANGED ran

job_release(a, t) == __enqueue_task(a, t, prio[t])

ResetExecTime(c, t) == [c EXCEPT !.exec_time = [@ EXCEPT ![t] = 0]]

\* The release time has passed: job_release and job_start at once.
StartLate(t, a, c) ==
  /\ phase' = [phase EXCEPT ![t] = "started"]
  /\ active' = job_release(a, t)
  /\ chain' = preempt_curr(ResetExecTime(c, t), t, prio)
  /\ ran' = [ran EXCEPT ![t] = 0]
  /\ UNCHANGED runq

api_run(t) ==
  /\ OnCpu(t)
  /\ phase[t] = "init"
  /\ t \in fifo \/ "normal" \in uses[t].does
  /\ global' = __global_list_insert(global, t, prio)
  /\ Sleep(t, active, chain) \/ StartLate(t, active, chain)
  /\ UNCHANGED <<uses, prio, fifo>>

\* The timer of the task fires.
job_release_handler(t) ==
  /\ phase[t] = "waiting"
  /\ phase' = [phase EXCEPT ![t] = "released"]
  /\ runq' = Append(runq, t)
  /\ active' = job_release(active, t)
  /\ chain' = ResetExecTime(chain, t)
  /\ ran' = [ran EXCEPT ![t] = 0]
  /\ UNCHANGED <<uses, prio, fifo, global>>

\* The released task gets the core and starts its job.
job_start(t) ==
  /\ OnCpu(t)
  /\ phase[t] = "released"
  /\ phase' = [phase EXCEPT ![t] = "started"]
  /\ chain' = preempt_curr(chain, t, prio)
  /\ UNCHANGED <<uses, prio, fifo, runq, global, active, ran>>

\* The job ends: job_complete.
api_wait_for_period(t) ==
  LET a == __dequeue_task(active, t, prio[t])
      c == preempt_switch(chain, t)
  IN  /\ OnCpu(t)
      /\ phase[t] = "started"
      /\ Sleep(t, a, c) \/ StartLate(t, a, c)
      /\ UNCHANGED <<uses, prio, fifo, global>>

api_exit(t) ==
  /\ OnCpu(t)
  /\ \/ phase[t] = "started"
     \/ phase[t] = "init" /\ "exit_early" \in uses[t].does
  /\ chain' = preempt_switch(chain, t)
  /\ active' = IF task_is_active(active, t)
               THEN __dequeue_task(active, t, prio[t]) ELSE active
  /\ global' = IF task_is_submitted(t) THEN Without(global, t) ELSE global
  /\ fifo' = fifo \ {t}
  /\ phase' = [phase EXCEPT ![t] = "exited"]
  /\ runq' = Without(runq, t)
  /\ UNCHANGED <<uses, prio, ran>>

\* A task sleeps for an event before its first job or in a job, and the event
\* comes.
Block(t) ==
  /\ OnCpu(t)
  /\ \/ phase[t] = "init"
     \/ phase[t] = "started" /\ "block" \in uses[t].does
  /\ runq' = Without(runq, t)
  /\ UNCHANGED <<uses, phase, prio, fifo, global, active, chain, ran>>

Event(t) ==
  /\ phase[t] \in {"init", "started"}
  /\ t \notin Runnable
  /\ runq' = Append(runq, t)
  /\ UNCHANGED <<uses, phase, prio, fifo, global, active, chain, ran>>

\* A jiffy passes while a task has the core, or none.
Tick ==
  /\ chain.since < MaxExec
  /\ chain.current # None =>
       chain.exec_time[chain.current] + chain.since < MaxExec
  /\ chain' = [chain EXCEPT !.since = @ + 1]
  /\ \/ runq = <<>> /\ UNCHANGED ran
     \/ \E t \in Runnable :
          /\ OnCpu(t)
          /\ ran[t] < MaxExec
          /\ ran' = [ran EXCEPT ![t] = IF phase[t] = "started" THEN @ + 1 ELSE @]
  /\ UNCHANGED <<uses, phase, prio, fifo, runq, global, active>>

Next ==
  \/ \E t \in Task : api_init(t)
  \/ \E t \in Task, p \in Prio : api_set_priority(t, p)
  \/ \E t \in Task : api_run(t)
  \/ \E t \in Task : job_release_handler(t)
  \/ \E t \in Task : job_start(t)
  \/ \E t \in Task : api_wait_for_period(t)
  \/ \E t \in Task : api_exit(t)
  \/ \E t \in Task : Block(t)
  \/ \E t \in Task : Event(t)
  \/ Tick

Spec == Init /\ [][Next]_vars

----------------------------------------------------------------------------
(* Properties.                                                             *)

\* The types of the variables.
TypeOK ==
  /\ uses \in [Task -> Use]
  /\ phase \in [Task -> {"exited", "init", "waiting", "released", "started"}]
  /\ prio \in [Task -> Prio]
  /\ fifo \subseteq Task
  /\ runq \in Seq(Task)
  /\ global \in Seq(Task)
  /\ active \in [queue : [Prio -> Seq(Task)], bitmap : SUBSET (0 .. MaxPrio - 1),
                 nr_tasks : Nat]
  /\ chain \in [current : Task \cup {None}, since : Nat,
                preempter : [Task -> Task \cup {None}],
                preemptee : [Task -> Task \cup {None}],
                exec_time : [Task -> Nat]]
  /\ ran \in [Task -> Nat]

\* No task does anything unusual but what is in U.
AllUse(U) == \A t \in Task : uses[t].does \subseteq U

\* The released jobs are those of the active queue, each once in the list of
\* its task's priority, and counted.  The handler, the system calls and every
\* change of priority move entries between the lists.
JobsQueued ==
  LET jobs == {t \in Task : phase[t] \in {"released", "started"}}
  IN  /\ \A p \in Prio :
           /\ Elements(active.queue[p]) = {t \in jobs : prio[t] = p}
           /\ Len(active.queue[p]) = Cardinality({t \in jobs : prio[t] = p})
      /\ active.nr_tasks = Cardinality(jobs)

\* As long as no task changes its priority in a job, a bit is set exactly when
\* its list has a task, and the first one of the highest bit has the priority
\* of the task that has the core: RESCH's queue, ordered by its own lists, and
\* the kernel's run queue do not drift apart.
HighestHasCore ==
  /\ AllUse(Uses \ {"prio_in_job"}) =>
       active.bitmap = {reverse_prio(p) : p \in {q \in Prio : active.queue[q] # <<>>}}
  /\ AllUse({"exit_early"}) =>
       \A t \in Task :
         OnCpu(t) /\ phase[t] \in {"released", "started"} =>
           \E u \in active_highest_prio_task(active) : prio[u] = prio[t]

\* The lists of the queue one after the other.
InOrder(a) ==
  LET above[i \in 0 .. MaxPrio] ==
        IF i = 0 THEN <<>> ELSE above[i - 1] \o a.queue[reverse_prio(i - 1)]
  IN  above[MaxPrio]

\* As long as the tasks of the queue have priorities in the lower half of the
\* first word, and no bit is stale, the searches walk the queue in its order:
\* the next, the previous, the n-th task and the first one from a priority on.
\* The masks of the bit searches cover half a word, and a next search from the
\* last index of that half starts at the first bit again.
SearchesExact ==
  LET order == InOrder(active)
      index(t) == reverse_prio(prio[t])
      at(i) == IF i \in 1 .. Len(order) THEN {order[i]} ELSE {}
  IN  AllUse(Uses \ {"prio_in_job"}) /\
     (\A t \in Elements(order) : index(t) < Half) =>
        /\ \A i \in 1 .. Len(order) :
             /\ index(order[i]) + 1 < Half =>
                  active_next_prio_task(active, order[i], prio[order[i]]) = at(i + 1)
             /\ active_prev_prio_task(active, order[i], prio[order[i]]) = at(i - 1)
             /\ active_number_task(active, i) = at(i)
        /\ \A p \in Prio :
             reverse_prio(p) < Half =>
               active_prio_task(active, p) =
                 at(FirstBit({i \in 1 .. Len(order) : prio[order[i]] <= p}))

\* For tasks used as in the samples: the chain from current_task along
\* preemptee is exactly the started jobs by priority, and preempter is its
\* inverse.  Each start, end and exit of a job rewrites two or three pointers.
ChainExact ==
  LET started  == {t \in Task : phase[t] = "started"}
      above(t) == {u \in started : prio[u] > prio[t]}
      below(t) == {u \in started : prio[u] < prio[t]}
      next(t, u) == u \in below(t) /\ below(t) \cap above(u) = {}
  IN  AllUse({}) =>
        /\ \A t, u \in started : prio[t] = prio[u] => t = u
        /\ IF started = {} THEN chain.current = None
           ELSE chain.current \in started /\ above(chain.current) = {}
        /\ \A t \in started :
             /\ IF below(t) = {} THEN chain.preemptee[t] = None
                ELSE next(t, chain.preemptee[t])
             /\ IF above(t) = {} THEN chain.preempter[t] = None
                ELSE next(chain.preempter[t], t)

\* For tasks used as in the samples: a job is charged every jiffy that it ran,
\* though only starts, ends and preemptions of jobs look at the clock.
NoJiffyLost ==
  AllUse({}) =>
    \A t \in Task : phase[t] = "started" =>
      chain.exec_time[t] + (IF chain.current = t THEN chain.since ELSE 0)
        >= ran[t]

\* The global list holds exactly the submitted tasks, the higher priority first,
\* whenever tasks come, leave and change their priority.
GlobalListSorted ==
  /\ Elements(global) = {t \in Task : task_is_submitted(t)}
  /\ \A i, j \in 1 .. Len(global) :
       i < j => global[i] # global[j] /\ prio[global[i]] >= prio[global[j]]
=============================================================================
