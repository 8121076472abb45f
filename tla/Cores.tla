------------------------------- MODULE Cores -------------------------------
(***************************************************************************)
(* Real-time tasks on the cores of a RESCH with NR_RT_CPUS cores: who runs *)
(* on a core, the active queue of each core with its lock, the moves of    *)
(* tasks between cores, and the kernel thread of each core that changes    *)
(* priorities for the tasks that may not do it themselves.                 *)
(*                                                                         *)
(* A step is what a processor does between two points at which the other   *)
(* processors, its own interrupts or its scheduler can come in between.    *)
(* A section under one lock is one step; only the double lock is two.  The *)
(* order in an active queue, the chain of preemptions and direct changes   *)
(* of priority are those of Resch.tla.                                     *)
(***************************************************************************)
EXTENDS Lists

CONSTANTS
  Task,
  Cpu,
  None,         \* NULL, no task
  Kthread,      \* the setscheduler thread of a core
  Prios,        \* the priorities that tasks ask for, RESCH_BG_PRIO among them
  Movers,       \* the tasks that change the core
  PREEMPT,      \* TRUE when the kernel preempts tasks in kernel mode
  WakeAnywhere  \* TRUE when the kernel may wake a task on another core

ASSUME CoresAssumption ==
  /\ {None, Kthread} \cap Task = {} /\ None # Kthread
  /\ Prios \subseteq Nat \ {0}
  /\ Movers \subseteq Task
  /\ {PREEMPT, WakeAnywhere} \subseteq BOOLEAN

RESCH_MIN_PRIO == 1

VARIABLES
  curr,         \* what runs on each core
  interrupt,    \* the task whose job_release_handler runs on each core
  pc,           \* where each task is
  awake,        \* the tasks in the state TASK_RUNNING
  cpu,          \* the core of a task in the kernel
  allowed,      \* task_struct.cpus_allowed
  cpumask, cpu_id, prio,    \* resch_task_t
  want,         \* the priority in the request of a task
  global,       \* go.task_list
  active,       \* lo[cpu].active
  lock,         \* the holder of lo[cpu].active.lock between two steps
  list,         \* lo[cpu].setscheduler_thread.list
  kpc,          \* where the thread of each core is
  req           \* the request that it serves

place == <<curr, interrupt, cpu, allowed, cpumask>>
queues == <<global, active, lock, cpu_id>>
thread == <<list, kpc, req>>
vars == <<place, queues, thread, pc, awake, prio, want>>

UserMode == {"none", "init", "job"}
InRequest == {"requested", "changing"}
Places == UserMode \cup InRequest \cup
          {"submitted", "waiting", "start", "start_locked", "migrate",
           "migrate_locked", "moved"}

Init ==
  /\ curr = [c \in Cpu |-> None]
  /\ interrupt = [c \in Cpu |-> None]
  /\ pc = [t \in Task |-> "none"]
  /\ awake = Task
  /\ cpu \in [Task -> Cpu]
  /\ allowed = [t \in Task |-> Cpu]
  /\ cpumask = [t \in Task |-> Cpu]
  /\ cpu_id = cpu
  /\ prio = [t \in Task |-> RESCH_MIN_PRIO]
  /\ want = [t \in Task |-> RESCH_MIN_PRIO]
  /\ global = <<>>
  /\ active = [c \in Cpu |-> <<>>]
  /\ lock = [c \in Cpu |-> None]
  /\ list = [c \in Cpu |-> <<>>]
  /\ kpc = [c \in Cpu |-> "check"]
  /\ req = [c \in Cpu |-> None]

----------------------------------------------------------------------------
(* The kernel's scheduler.  The thread has the highest priority; the order *)
(* of the tasks is left open.                                              *)

KthreadReady(c) == kpc[c] # "asleep"

\* Who may run on core c.
Ready(c) == IF KthreadReady(c) THEN {Kthread}
            ELSE {t \in awake : cpu[t] = c}

\* What runs on core c may be switched out: it sleeps or has gone, it is in
\* user mode, or the kernel preempts it; the locks disable that.
MayLeave(c) ==
  CASE curr[c] = None    -> TRUE
    [] curr[c] = Kthread -> kpc[c] = "asleep"
    [] OTHER -> \/ curr[c] \notin awake
                \/ pc[curr[c]] \in UserMode
                \/ PREEMPT /\ pc[curr[c]] \notin {"start_locked", "migrate_locked"}

schedule(c) ==
  /\ interrupt[c] = None
  /\ MayLeave(c)
  /\ \E x \in Ready(c) \ {curr[c]} : curr' = [curr EXCEPT ![c] = x]
  /\ UNCHANGED <<interrupt, cpu, allowed, cpumask, queues, thread, pc, awake,
                 prio, want>>

\* Task t executes in the kernel.
Runs(t) ==
  /\ curr[cpu[t]] = t
  /\ interrupt[cpu[t]] = None
  /\ t \in awake

\* It executes in user mode: it does not while the thread is ready.
Calls(t) ==
  /\ Runs(t)
  /\ pc[t] \in UserMode
  /\ ~KthreadReady(cpu[t])

Goto(t, p) == pc' = [pc EXCEPT ![t] = p]

\* The kernel moves a task that it may move and that is in no system call.
LoadBalance(t) ==
  /\ t \in Movers
  /\ pc[t] \in UserMode
  /\ curr[cpu[t]] # t
  /\ \E c \in allowed[t] \ {cpu[t]} : cpu' = [cpu EXCEPT ![t] = c]
  /\ UNCHANGED <<curr, interrupt, allowed, cpumask, queues, thread, pc, awake,
                 prio, want>>

----------------------------------------------------------------------------
(* The lists.                                                              *)

FreeLock(c) == lock[c] = None

Enqueued(q, t, c) == [q EXCEPT ![c] = Append(@, t)]
Dequeued(q, t) == [q EXCEPT ![cpu_id[t]] = Without(@, t)]

task_is_active(t) == \E c \in Cpu : t \in Elements(active[c])
task_is_submitted(t) == t \in Elements(global)

\* Mutant: the old entry stays.
Again(t) == __global_list_insert(global, t, prio)

Reinserted(t) == __global_list_insert(Without(global, t), t, prio)

----------------------------------------------------------------------------
(* The life of a task.                                                     *)

api_init(t) ==
  /\ Calls(t) /\ pc[t] = "none"
  /\ Goto(t, "init")
  /\ cpu_id' = [cpu_id EXCEPT ![t] = cpu[t]]
  /\ prio' = [prio EXCEPT ![t] = RESCH_MIN_PRIO]
  /\ cpumask' = [cpumask EXCEPT ![t] = Cpu]
  /\ allowed' = [allowed EXCEPT ![t] = Cpu]
  /\ UNCHANGED <<curr, interrupt, cpu, global, active, lock, thread, awake, want>>

api_run(t) ==
  /\ Calls(t) /\ pc[t] = "init"
  /\ Goto(t, "submitted")
  /\ global' = __global_list_insert(global, t, prio)
  /\ UNCHANGED <<place, active, lock, cpu_id, thread, awake, prio, want>>

\* The release time has not come: the timer is armed on this core.
wait_next_period(t) ==
  /\ Runs(t) /\ pc[t] = "submitted"
  /\ Goto(t, "waiting")
  /\ awake' = awake \ {t}
  /\ UNCHANGED <<place, queues, thread, prio, want>>

\* It has come.
job_release(t) ==
  /\ Runs(t) /\ pc[t] = "submitted"
  /\ FreeLock(cpu_id[t])
  /\ Goto(t, "start")
  /\ active' = Enqueued(active, t, cpu_id[t])
  /\ UNCHANGED <<place, global, lock, cpu_id, thread, awake, prio, want>>

\* Interrupts are enabled on core c.
IrqEnabled(c) ==
  /\ interrupt[c] = None
  /\ curr[c] = Kthread => kpc[c] \in {"check", "asleep"}
  /\ curr[c] \in Task => pc[curr[c]] \notin {"start_locked", "migrate_locked"}

\* job_release_handler wakes the task, maybe on another core, ...
job_release_handler(t) ==
  /\ pc[t] = "waiting" /\ t \notin awake
  /\ IrqEnabled(cpu[t])
  /\ interrupt' = [interrupt EXCEPT ![cpu[t]] = t]
  /\ awake' = awake \cup {t}
  /\ \E c \in IF WakeAnywhere THEN allowed[t] ELSE {cpu[t]} :
       cpu' = [cpu EXCEPT ![t] = c]
  /\ UNCHANGED <<curr, allowed, cpumask, queues, thread, pc, prio, want>>

\* ... and enqueues it after that.
job_release_handler_end(c) ==
  LET t == interrupt[c]
  IN  /\ t # None
      /\ FreeLock(cpu_id[t])
      /\ active' = Enqueued(active, t, cpu_id[t])
      /\ interrupt' = [interrupt EXCEPT ![c] = None]
      /\ UNCHANGED <<curr, cpu, allowed, cpumask, global, lock, cpu_id, thread,
                     pc, awake, prio, want>>

\* The end of wait_next_period.
Woken(t) ==
  /\ Runs(t) /\ pc[t] = "waiting"
  /\ Goto(t, "start")
  /\ UNCHANGED <<place, queues, thread, awake, prio, want>>

disable_load_balance(t) ==
  /\ cpumask' = [cpumask EXCEPT ![t] = allowed[t]]
  /\ allowed' = [allowed EXCEPT ![t] = {cpu[t]}]

\* A task that runs on another core than that of its queue takes the lock of
\* this core first.
job_start(t) ==
  /\ Runs(t) /\ pc[t] = "start"
  /\ disable_load_balance(t)
  /\ IF cpu[t] = cpu_id[t]
     THEN /\ Goto(t, "job")
          /\ UNCHANGED lock
     ELSE /\ FreeLock(cpu[t])
          /\ lock' = [lock EXCEPT ![cpu[t]] = t]
          /\ Goto(t, "start_locked")
  /\ UNCHANGED <<curr, interrupt, cpu, global, active, cpu_id, thread, awake,
                 prio, want>>

\* Mutant: the queues are not touched.
unmoved(t, c) == active

\* The entry of t taken out of the queue of its core and put in that of c.
Moved(t, c) == Enqueued(Dequeued(active, t), t, c)

\* With the lock of the core of the queue too, the task moves to this core.
job_start_move(t) ==
  /\ Runs(t) /\ pc[t] = "start_locked"
  /\ FreeLock(cpu_id[t])
  /\ active' = Moved(t, cpu[t])
  /\ cpu_id' = [cpu_id EXCEPT ![t] = cpu[t]]
  /\ lock' = [lock EXCEPT ![cpu[t]] = None]
  /\ Goto(t, "job")
  /\ UNCHANGED <<place, global, thread, awake, prio, want>>

\* job_complete up to the choice of waiting or of starting at once.
api_wait_for_period(t) ==
  /\ Calls(t) /\ pc[t] = "job"
  /\ FreeLock(cpu_id[t])
  /\ active' = Dequeued(active, t)
  /\ allowed' = [allowed EXCEPT ![t] = cpumask[t]]
  /\ Goto(t, "submitted")
  /\ UNCHANGED <<curr, interrupt, cpu, cpumask, global, lock, cpu_id, thread,
                 awake, prio, want>>

\* A task that leaves in a job stays on its core.
api_exit(t) ==
  /\ Calls(t) /\ pc[t] = "job"
  /\ FreeLock(cpu_id[t])
  /\ active' = Dequeued(active, t)
  /\ global' = Without(global, t)
  /\ Goto(t, "none")
  /\ UNCHANGED <<place, lock, cpu_id, thread, awake, prio, want>>

----------------------------------------------------------------------------
(* migrate_task of the task that runs, as test_migration calls it.         *)

test_migration(t) ==
  /\ Calls(t) /\ pc[t] = "job"
  /\ t \in Movers
  /\ FreeLock(cpu_id[t])
  /\ lock' = [lock EXCEPT ![cpu_id[t]] = t]
  /\ Goto(t, "migrate_locked")
  /\ UNCHANGED <<place, global, active, cpu_id, thread, awake, prio, want>>

migrate_task(t) ==
  /\ Runs(t) /\ pc[t] = "migrate_locked"
  /\ \E c \in Cpu \ {cpu_id[t]} :
       /\ FreeLock(c)
       /\ active' = Moved(t, c)
       /\ cpu_id' = [cpu_id EXCEPT ![t] = c]
  /\ lock' = [lock EXCEPT ![cpu_id[t]] = None]
  /\ Goto(t, "moved")
  /\ UNCHANGED <<place, global, thread, awake, prio, want>>

\* set_cpus_allowed_ptr: the task leaves this core.
set_cpus_allowed(t) ==
  /\ Runs(t) /\ pc[t] = "moved"
  /\ allowed' = [allowed EXCEPT ![t] = {cpu_id[t]}]
  /\ cpumask' = [cpumask EXCEPT ![t] = {cpu_id[t]}]
  /\ cpu' = [cpu EXCEPT ![t] = cpu_id[t]]
  /\ curr' = [curr EXCEPT ![cpu[t]] = None]
  /\ Goto(t, "job")
  /\ UNCHANGED <<interrupt, queues, thread, awake, prio, want>>

----------------------------------------------------------------------------
(* Changes of priority by the thread of the core: api_background, and      *)
(* api_set_priority of a task without CAP_SYS_NICE.                        *)

\* Mutant: the thread is not woken.
not_woken(c) == kpc

\* wake_up_process of the thread.
wake_thread(c) == IF kpc[c] = "asleep" THEN [kpc EXCEPT ![c] = "check"] ELSE kpc

\* The request is on the stack of the task.
request_change_prio(t, p) ==
  /\ Calls(t) /\ pc[t] \in {"init", "job"}
  /\ want' = [want EXCEPT ![t] = p]
  /\ list' = [list EXCEPT ![cpu[t]] = Append(@, t)]
  /\ kpc' = wake_thread(cpu[t])
  /\ Goto(t, "requested")
  /\ UNCHANGED <<place, queues, req, awake, prio>>

\* task->state = TASK_UNINTERRUPTIBLE; schedule().
request_sleep(t) ==
  /\ Runs(t) /\ pc[t] = "requested"
  /\ awake' = awake \ {t}
  /\ Goto(t, "changing")
  /\ UNCHANGED <<place, queues, thread, prio, want>>

request_return(t) ==
  /\ Runs(t) /\ pc[t] = "changing"
  /\ Goto(t, IF task_is_submitted(t) THEN "job" ELSE "init")
  /\ UNCHANGED <<place, queues, thread, awake, prio, want>>

ThreadRuns(c, p) ==
  /\ curr[c] = Kthread
  /\ interrupt[c] = None
  /\ kpc[c] = p

\* Mutant: the request stays in the list.
not_deleted(c) == list

\* list_del_init of the first request.
deleted(c) == [list EXCEPT ![c] = Tail(@)]

setscheduler(c) ==
  /\ ThreadRuns(c, "check")
  /\ IF list[c] = <<>>
     THEN /\ kpc' = [kpc EXCEPT ![c] = "asleep"]
          /\ UNCHANGED <<list, req>>
     ELSE /\ req' = [req EXCEPT ![c] = Head(list[c])]
          /\ list' = deleted(c)
          /\ kpc' = [kpc EXCEPT ![c] = "change"]
  /\ UNCHANGED <<place, queues, pc, awake, prio, want>>

\* The new priority in the kernel and in resch_task_t.
changed(c) == [prio EXCEPT ![req[c]] = want[req[c]]]

change_prio(c) ==
  /\ ThreadRuns(c, "change")
  /\ prio' = changed(c)
  /\ kpc' = [kpc EXCEPT ![c] = "global"]
  /\ UNCHANGED <<place, queues, list, req, pc, awake, want>>

global_list_reinsert(c) ==
  /\ ThreadRuns(c, "global")
  /\ global' = IF task_is_submitted(req[c])
               THEN Reinserted(req[c]) ELSE global
  /\ kpc' = [kpc EXCEPT ![c] = "requeue"]
  /\ UNCHANGED <<place, active, lock, cpu_id, list, req, pc, awake, prio, want>>

requeue_task(c) ==
  LET t == req[c]
  IN  /\ ThreadRuns(c, "requeue")
      /\ FreeLock(cpu_id[t])
      /\ active' = IF task_is_active(t) THEN Moved(t, cpu_id[t]) ELSE active
      /\ kpc' = [kpc EXCEPT ![c] = "wake"]
      /\ UNCHANGED <<place, global, lock, cpu_id, list, req, pc, awake, prio,
                     want>>

wake_up_task(c) ==
  /\ ThreadRuns(c, "wake")
  /\ awake' = awake \cup {req[c]}
  /\ req' = [req EXCEPT ![c] = None]
  /\ kpc' = [kpc EXCEPT ![c] = "check"]
  /\ UNCHANGED <<place, queues, list, pc, prio, want>>

----------------------------------------------------------------------------
SystemCall(t) ==
  \/ api_init(t) \/ api_run(t) \/ api_wait_for_period(t) \/ api_exit(t)
  \/ test_migration(t)
  \/ \E p \in Prios : request_change_prio(t, p)

\* What a task does in the kernel without a choice of its own.
InKernel(t) ==
  \/ wait_next_period(t) \/ job_release(t) \/ Woken(t)
  \/ job_start(t) \/ job_start_move(t)
  \/ migrate_task(t) \/ set_cpus_allowed(t)
  \/ request_sleep(t) \/ request_return(t)

Thread(c) ==
  \/ setscheduler(c) \/ change_prio(c) \/ global_list_reinsert(c)
  \/ requeue_task(c) \/ wake_up_task(c)

Next ==
  \/ \E t \in Task : SystemCall(t) \/ InKernel(t) \/ LoadBalance(t)
                       \/ job_release_handler(t)
  \/ \E c \in Cpu : schedule(c) \/ Thread(c) \/ job_release_handler_end(c)

\* Processors execute the kernel, interrupts come and end, and the scheduler
\* runs what is ready; tasks need not make system calls.
Fairness ==
  /\ \A t \in Task : WF_vars(InKernel(t)) /\ WF_vars(job_release_handler(t))
  /\ \A c \in Cpu : /\ WF_vars(schedule(c)) /\ WF_vars(Thread(c))
                    /\ WF_vars(job_release_handler_end(c))

Spec == Init /\ [][Next]_vars
FairSpec == Spec /\ Fairness

----------------------------------------------------------------------------
(* Properties.                                                             *)

TypeOK ==
  /\ curr \in [Cpu -> Task \cup {None, Kthread}]
  /\ interrupt \in [Cpu -> Task \cup {None}]
  /\ pc \in [Task -> Places]
  /\ awake \subseteq Task
  /\ {cpu, cpu_id} \subseteq [Task -> Cpu]
  /\ {allowed, cpumask} \subseteq [Task -> (SUBSET Cpu) \ {{}}]
  /\ {prio, want} \subseteq [Task -> Prios \cup {RESCH_MIN_PRIO}]
  /\ Distinct(global) /\ Elements(global) \subseteq Task
  /\ lock \in [Cpu -> Task \cup {None}]
  /\ kpc \in [Cpu -> {"asleep", "check", "change", "global", "requeue", "wake"}]
  /\ req \in [Cpu -> Task \cup {None}]

\* The cores in whose queues t is, with repetitions.
Entries(t) == {e \in UNION {{c} \X DOMAIN active[c] : c \in Cpu} :
                 active[e[1]][e[2]] = t}

Released(t) ==
  /\ pc[t] \notin {"none", "init", "submitted"}
  /\ pc[t] = "waiting" => t \in awake
  /\ pc[t] \in InRequest => task_is_submitted(t)
  /\ \A c \in Cpu : interrupt[c] # t

\* A task with a released job is in the active queue of its core, once, and in
\* no other queue, and a task without is in none, whatever moves, changes of
\* priority and releases go on on both cores; between its wake-up and its
\* enqueuing by the handler the task is where it was.  A job is executed on the
\* core whose queue and tick account for it, from its start to its end, and the
\* kernel cannot move it (resch.c:941-947).
QueueOfCpu ==
  \A t \in Task :
    /\ IF Released(t)
       THEN \E i \in DOMAIN active[cpu_id[t]] : Entries(t) = {<<cpu_id[t], i>>}
       ELSE Entries(t) = {}
    /\ pc[t] = "job" => cpu[t] = cpu_id[t] /\ allowed[t] = {cpu[t]}

\* A request is on the stack of the task that made it: as long as it is in a
\* list or in the hands of a thread, the task has not returned, and it is in
\* one place only.  The task sleeps until the priority is changed
\* (resch.c:353): when it is awake again, it has the one it asked for.
RequestExact ==
  /\ \A c \in Cpu :
       /\ Distinct(list[c])
       /\ \A t \in Elements(list[c]) \cup ({req[c]} \ {None}) :
            /\ pc[t] \in InRequest
            /\ \A d \in Cpu : t \in Elements(list[d]) => d = c /\ req[d] # t
  /\ \A t \in Task : pc[t] = "changing" /\ t \in awake => prio[t] = want[t]

\* A task that asked for another priority and sleeps is woken in the end: the
\* wake-up neither is lost nor comes before the task sleeps.
RequestServed ==
  \A t \in Task : pc[t] = "requested" ~> pc[t] = "changing" /\ t \in awake
=============================================================================
