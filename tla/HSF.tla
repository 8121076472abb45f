-------------------------------- MODULE HSF --------------------------------
(***************************************************************************)
(* The tasks of the servers of one core: the periodic jobs of core/resch.c *)
(* with the hooks of plugin/memsched/memsched.c that keep a task from      *)
(* running while its server does not.  The servers are those of Servers;   *)
(* the handlers that switch servers stop and start their tasks.            *)
(*                                                                         *)
(* Time is abstracted to what the code compares: due[t] says that the      *)
(* release time of t is not in the future (release_time <= jiffies).       *)
(*                                                                         *)
(* A task in the kernel (api_run, api_wait_for_period) is at a point pc[t] *)
(* between two of its effects.  Handlers run in softirq context: they may  *)
(* interrupt the kernel code of a task, and run as one step.  The kernel   *)
(* is not preemptible by other tasks, and a system call sleeps in          *)
(* schedule() only.  Which of the runnable tasks of a server runs is left  *)
(* open.                                                                   *)
(***************************************************************************)
EXTENDS Integers, FiniteSets

CONSTANTS
  None,
  Server,
  Task,
  Priorities,       \* the priority assignments to explore
  server_id,        \* the server of each task, set by api_set_server
  InterruptAt,      \* the points of a system call of each task where handlers
                    \* may run; all of KernelCode in the program
  LateTask,         \* tasks that may complete a job at its next release
  EarlyTask,        \* tasks whose first release may have come when api_run
                    \* looks: no time to wait, or firstime just cleared
  BlockingTask,     \* tasks that may sleep in a job, waiting for an event
  ExitingTask,      \* tasks that may leave by api_exit
  USE_MEMSCHEDx,    \* TRUE when the macro of that name is defined
  MaxLinks          \* bound: how often a task is linked in the active queue

\* The kernel code of a task, between two of its effects.
KernelCode == {"listed", "run", "enqueue", "complete", "dequeue", "release",
               "wait", "sleep"}

ASSUME HSFAssumption ==
  /\ \A p \in Priorities : /\ p \in [Server -> Nat]
                           /\ \A r, s \in Server : p[r] = p[s] => r = s
  /\ InterruptAt \in [Task -> SUBSET KernelCode]
  /\ None \notin Server
  /\ server_id \in [Task -> Server]
  /\ LateTask \cup EarlyTask \cup BlockingTask \cup ExitingTask \subseteq Task
  /\ USE_MEMSCHEDx \in BOOLEAN
  /\ MaxLinks \in Nat

VARIABLES
  priority, ready, running,  \* of the servers
  firstime,    \* TRUE until server_release_handler runs
  pc,          \* where each task is
  state,       \* task->state
  hsf_flags,   \* the set of the flags that are set
  linked,      \* how often a task is linked in the active queue
  timer,       \* TRUE when the timer on the task's stack is armed
  due,         \* TRUE when release_time <= jiffies
  blocked,     \* TRUE while the task waits for an event
  released     \* history: TRUE when the release of its next job was handled

servers == <<priority, ready, running, firstime>>
vars == <<servers, pc, state, hsf_flags, linked, timer, due, blocked,
          released>>

Core == INSTANCE Servers

InKernel == {t \in Task : pc[t] \in KernelCode}

\* A handler may run now.
Interruptible == \A t \in InKernel : pc[t] \in InterruptAt[t]

\* The task may run in user mode.
OnCpu(t) ==
  /\ pc[t] = "user"
  /\ state[t] = "TASK_RUNNING"
  /\ InKernel = {}

\* The tasks in the list of a server: a task is never taken out of it.
TasksOf(s) == {t \in Task : server_id[t] = s /\ pc[t] # "new"}

Toggle(flags, flag) == IF flag \in flags THEN flags \ {flag}
                                         ELSE flags \cup {flag}

Init ==
  /\ priority \in Priorities
  /\ ready = Server \ {Core!Highest(Server)}
  /\ running = {}
  /\ firstime = TRUE
  /\ pc = [t \in Task |-> "new"]
  /\ state = [t \in Task |-> "TASK_RUNNING"]
  /\ hsf_flags = [t \in Task |-> {}]
  /\ linked = [t \in Task |-> 0]
  /\ timer = [t \in Task |-> FALSE]
  /\ due = [t \in Task |-> FALSE]
  /\ blocked = [t \in Task |-> FALSE]
  /\ released = [t \in Task |-> FALSE]

----------------------------------------------------------------------------
(* The active queue: enqueue_task links a task though it may be linked     *)
(* already, dequeue_task unlinks it though it may not be.                  *)

enqueue_task(t) == linked' = [linked EXCEPT ![t] = @ + 1]

\* Mutant: unlinking counts down.
dequeue_down(t) == linked' = [linked EXCEPT ![t] = @ - 1]

\* Mutant: the task stays linked.
dequeue_nothing(t) == UNCHANGED linked

dequeue_task(t) == linked' = [linked EXCEPT ![t] = 0]

----------------------------------------------------------------------------
(* The system calls of a task.                                             *)

\* api_run calls task_run, the plugin's hook, which puts the task into the list
\* of its server, creates its counter (see Registry) and resets the flags.  The
\* two stores that reset them are one in the build.
task_run(t) ==
  /\ pc[t] = "new"
  /\ InKernel = {}
  /\ pc' = [pc EXCEPT ![t] = "listed"]
  /\ UNCHANGED <<servers, state, hsf_flags, linked, timer, due, blocked,
                 released>>

ResetFlags(t) ==
  /\ pc[t] = "listed"
  /\ hsf_flags' = [hsf_flags EXCEPT ![t] = {"PREVENT_RELEASE_AT_INIT"}]
  /\ pc' = [pc EXCEPT ![t] = "run"]
  /\ UNCHANGED <<servers, state, linked, timer, due, blocked, released>>

\* The rest of api_run: the release time is set and compared with the time.  A
\* handler in between is one before, as it finds the same, but for the time.
api_run(t) ==
  /\ pc[t] = "run"
  /\ \E now \in BOOLEAN :
       /\ now => t \in EarlyTask
       /\ due' = [due EXCEPT ![t] = now]
       /\ pc' = [pc EXCEPT ![t] = IF now THEN "enqueue" ELSE "wait"]
  /\ released' = [released EXCEPT ![t] = FALSE]
  /\ UNCHANGED <<servers, state, hsf_flags, linked, timer, blocked>>

\* job_release, then job_start: the release time has passed, the job starts.
job_release(t) ==
  /\ pc[t] = "enqueue"
  /\ enqueue_task(t)
  /\ pc' = [pc EXCEPT ![t] = "user"]
  /\ UNCHANGED <<servers, state, hsf_flags, timer, due, blocked, released>>

\* The job ends: api_wait_for_period calls job_complete.
api_wait_for_period(t) ==
  /\ OnCpu(t)
  /\ ~blocked[t]
  /\ pc' = [pc EXCEPT ![t] = "complete"]
  /\ UNCHANGED <<servers, state, hsf_flags, linked, timer, due, blocked,
                 released>>

\* Mutant: the task stays marked as ready.
KeepActivate(flags) == flags

\* What task_complete, the plugin's hook, does to the flags.
task_complete(flags) == Toggle(flags, "ACTIVATE")

CallPlugin(t) ==
  /\ pc[t] = "complete"
  /\ hsf_flags' = [hsf_flags EXCEPT ![t] = task_complete(@)]
  /\ pc' = [pc EXCEPT ![t] = "dequeue"]
  /\ UNCHANGED <<servers, state, linked, timer, due, blocked, released>>

Dequeue(t) ==
  /\ pc[t] = "dequeue"
  /\ dequeue_task(t)
  /\ pc' = [pc EXCEPT ![t] = "release"]
  /\ UNCHANGED <<servers, state, hsf_flags, timer, due, blocked, released>>

\* release_time += period.  If that has passed too, the next job is released
\* at once, with the flags as they are.
NextRelease(t) ==
  /\ pc[t] = "release"
  /\ \E late \in BOOLEAN :
       /\ late => due[t] /\ t \in LateTask
       /\ due' = [due EXCEPT ![t] = late]
       /\ pc' = [pc EXCEPT ![t] = IF late THEN "enqueue" ELSE "wait"]
  /\ released' = [released EXCEPT ![t] = FALSE]
  /\ UNCHANGED <<servers, state, hsf_flags, linked, timer, blocked>>

\* wait_next_period compares again, and arms the timer if the release is ahead.
\* No handler tells whether it runs before or after the timer is armed.
wait_next_period(t) ==
  /\ pc[t] = "wait"
  /\ IF due[t] THEN UNCHANGED <<state, timer>>
               ELSE /\ state' = [state EXCEPT ![t] = "TASK_UNINTERRUPTIBLE"]
                    /\ timer' = [timer EXCEPT ![t] = TRUE]
  /\ pc' = [pc EXCEPT ![t] = "sleep"]
  /\ UNCHANGED <<servers, hsf_flags, linked, due, blocked, released>>

\* schedule(): the task runs on when its state is TASK_RUNNING.
schedule(t) ==
  /\ pc[t] = "sleep"
  /\ pc' = [pc EXCEPT ![t] = "asleep"]
  /\ UNCHANGED <<servers, state, hsf_flags, linked, timer, due, blocked,
                 released>>

\* schedule() returns: the timer is deleted and job_start starts a job.
job_start(t) ==
  /\ pc[t] = "asleep"
  /\ state[t] = "TASK_RUNNING"
  /\ InKernel = {}
  /\ timer' = [timer EXCEPT ![t] = FALSE]
  /\ pc' = [pc EXCEPT ![t] = "user"]
  /\ released' = [released EXCEPT ![t] = FALSE]
  /\ UNCHANGED <<servers, state, hsf_flags, linked, due, blocked>>

\* api_exit: the task stays in the list of its server.
api_exit(t) ==
  /\ t \in ExitingTask
  /\ OnCpu(t)
  /\ ~blocked[t]
  /\ IF linked[t] > 0 THEN dequeue_task(t) ELSE UNCHANGED linked
  /\ pc' = [pc EXCEPT ![t] = "exited"]
  /\ UNCHANGED <<servers, state, hsf_flags, timer, due, blocked, released>>

----------------------------------------------------------------------------
(* Sleeping in a job, the kernel's part.                                   *)

\* The task waits for an event, also after it was woken for another reason.
Block(t) ==
  /\ t \in BlockingTask
  /\ OnCpu(t)
  /\ blocked' = [blocked EXCEPT ![t] = TRUE]
  /\ state' = [state EXCEPT ![t] = "TASK_INTERRUPTIBLE"]
  /\ UNCHANGED <<servers, pc, hsf_flags, linked, timer, due, released>>

\* The event comes and wakes the task, whatever its server does.
Event(t) ==
  /\ blocked[t]
  /\ Interruptible
  /\ blocked' = [blocked EXCEPT ![t] = FALSE]
  /\ state' = [state EXCEPT ![t] = "TASK_RUNNING"]
  /\ UNCHANGED <<servers, pc, hsf_flags, linked, timer, due, released>>

----------------------------------------------------------------------------
(* The release of a job.                                                   *)

\* The release time comes.
ReleaseTime(t) ==
  /\ ~due[t]
  /\ pc[t] \notin {"new", "listed", "run", "exited"}
  /\ Interruptible
  /\ due' = [due EXCEPT ![t] = TRUE]
  /\ UNCHANGED <<servers, pc, state, hsf_flags, linked, timer, blocked,
                 released>>

\* Mutant: the task's server is not looked at.
IgnoreServer(t, flags) == flags

\* What task_release, the plugin's hook, does to the flags.
task_release(t, flags) ==
  IF "PREVENT_RELEASE_AT_INIT" \in flags
  THEN (flags \ {"PREVENT_RELEASE_AT_INIT"}) \cup {"RESCH_PREVENT_RELEASE"}
  ELSE IF Core!Highest(ready) # server_id[t]
  THEN flags \cup {"RESCH_PREVENT_RELEASE"}
  ELSE flags

\* Mutant: the task is not marked as ready.
NotMarked(flags) == flags \ {"RESCH_PREVENT_RELEASE"}

\* The flags that job_release_handler itself sets and clears.
Ready(flags) == (flags \cup {"ACTIVATE"}) \ {"RESCH_PREVENT_RELEASE"}

\* job_release_handler, run by the timer of the task.
job_release_handler(t) ==
  LET flags == task_release(t, Ready(hsf_flags[t]))
      wake  == /\ "RESCH_PREVENT_RELEASE" \notin flags
               /\ state[t] # "TASK_RUNNING"
  IN  /\ timer[t]
      /\ due[t]
      /\ Interruptible
      /\ timer' = [timer EXCEPT ![t] = FALSE]
      /\ released' = [released EXCEPT ![t] = TRUE]
      /\ hsf_flags' = [hsf_flags EXCEPT ![t] = flags]
      /\ IF wake THEN /\ state' = [state EXCEPT ![t] = "TASK_RUNNING"]
                      /\ enqueue_task(t)
                 ELSE UNCHANGED <<state, linked>>
      /\ UNCHANGED <<servers, pc, due, blocked>>

----------------------------------------------------------------------------
(* The loops over tasks in the handlers that switch servers.  A task that  *)
(* was stopped is marked and started again with its server.                *)

\* The tasks that server_complete_handler and server_release_handler stop.
StopsRunning(s) == {t \in TasksOf(s) : state[t] = "TASK_RUNNING"}

\* Those that deferred_memory_work stops.
StopsAwake(s) == {t \in TasksOf(s) : state[t] # "TASK_UNINTERRUPTIBLE"}

\* Mutant: a released task is not started with its server.
MarkedStopped(s, stopped) == TasksOf(s) \cap stopped

Marked(s, stopped) ==
  {t \in TasksOf(s) : "ACTIVATE" \in hsf_flags[t] \/ t \in stopped}

\* server_release_handler starts a task that wake_up_process wakes, the others
\* start every marked one.
StartsAsleep(s, stopped) == {t \in Marked(s, stopped) :
                               state[t] # "TASK_RUNNING" \/ t \in stopped}

Switch(stopped, started) ==
  /\ Interruptible
  /\ state' = [t \in Task |->
       IF t \in started THEN "TASK_RUNNING"
       ELSE IF t \in stopped THEN "TASK_UNINTERRUPTIBLE" ELSE state[t]]
  /\ hsf_flags' = [t \in Task |->
       IF t \in stopped THEN hsf_flags[t] \cup {"ACTIVATE"} ELSE hsf_flags[t]]
  /\ linked' = [t \in Task |-> (IF t \in stopped THEN 0 ELSE linked[t])
                               + (IF t \in started THEN 1 ELSE 0)]
  /\ UNCHANGED <<pc, timer, blocked, released>>

\* server_release_handler: the server that was highest is stopped and the
\* released one started when it is higher.  When it runs for the first time, it
\* makes the release times of all listed tasks the current time; a timer that is
\* armed goes off later, here at any time from then on.
ServerRelease(batch) ==
  LET old     == Core!Highest(ready)
      new     == Core!Highest(ready \cup batch)
      stopped == IF new = old THEN {} ELSE StopsRunning(old)
      started == IF new = old THEN {} ELSE StartsAsleep(new, stopped)
  IN  /\ Core!Release(batch)
      /\ Switch(stopped, started)
      /\ due' = [t \in Task |-> due[t] \/ (firstime /\ pc[t] # "new")]
      /\ firstime' = FALSE

\* server_complete_handler: the completed server is stopped and the highest one
\* started, which is the same one when it was released again.
ServerComplete(batch) ==
  \E stopped \in {UNION {StopsRunning(s) : s \in running}} :
    /\ Core!Complete(batch)
    /\ Switch(stopped, UNION {Marked(s, stopped) : s \in running'})
    /\ UNCHANGED <<due, firstime>>

\* deferred_memory_work, when the memory budget depletes.
ServerDepleted(batch) ==
  /\ USE_MEMSCHEDx
  /\ \E stopped \in {UNION {StopsAwake(s) : s \in running}} :
       /\ Core!Complete(batch)
       /\ Switch(stopped, UNION {Marked(s, stopped) : s \in running'})
       /\ UNCHANGED <<due, firstime>>

----------------------------------------------------------------------------
TaskStep(t) ==
  \/ ResetFlags(t) \/ api_run(t) \/ job_release(t)
  \/ api_wait_for_period(t) \/ CallPlugin(t) \/ Dequeue(t) \/ NextRelease(t)
  \/ wait_next_period(t) \/ schedule(t) \/ job_start(t)

Next ==
  /\ \/ \E t \in Task :
          \/ task_run(t) \/ TaskStep(t) \/ api_exit(t)
          \/ Block(t) \/ Event(t)
          \/ ReleaseTime(t) \/ job_release_handler(t)
     \/ \E batch \in SUBSET Server :
          ServerRelease(batch) \/ ServerComplete(batch) \/ ServerDepleted(batch)
  /\ \A t \in Task : linked'[t] <= MaxLinks

Spec == Init /\ [][Next]_vars

\* A task that can go on does in the end, and so does a handler that is due.
\* Of the servers it is assumed that each one is stopped again and again, and
\* runs again and again long enough to leave the kernel.
Fairness ==
  /\ \A t \in Task : /\ SF_vars(TaskStep(t))
                      /\ SF_vars(ReleaseTime(t))
                      /\ SF_vars(job_release_handler(t))
  /\ \A s \in Server : /\ []<>(s \in running /\ InKernel = {})
                        /\ []<>(s \notin running)

FairSpec == Spec /\ Fairness

----------------------------------------------------------------------------
(* Properties.                                                             *)

PCs == KernelCode \cup {"new", "user", "asleep", "exited"}

Flags == {"ACTIVATE", "RESCH_PREVENT_RELEASE", "PREVENT_RELEASE_AT_INIT"}

\* The types of the variables.
TypeOK ==
  /\ priority \in Priorities
  /\ ready \subseteq Server
  /\ running \subseteq Server
  /\ firstime \in BOOLEAN
  /\ pc \in [Task -> PCs]
  /\ state \in [Task -> {"TASK_RUNNING", "TASK_INTERRUPTIBLE",
                         "TASK_UNINTERRUPTIBLE"}]
  /\ hsf_flags \in [Task -> SUBSET Flags]
  /\ linked \in [Task -> Nat]
  /\ timer \in [Task -> BOOLEAN]
  /\ due \in [Task -> BOOLEAN]
  /\ blocked \in [Task -> BOOLEAN]
  /\ released \in [Task -> BOOLEAN]

\* Tasks that are not ready before the servers (README.txt:15) and do not sleep
\* in a job: one that does runs when its event comes, in its server or not.
Orderly == Task \ (EarlyTask \cup BlockingTask)

\* A task runs its jobs only while its server runs: stopped, it is marked and
\* started again with its server (memsched.c:278-282).  The flags of the task
\* change in its own system call, in its timer and in the servers' handlers.
TaskRunsInServer ==
  \A t \in Orderly :
    pc[t] = "user" /\ state[t] = "TASK_RUNNING" => server_id[t] \in running

\* The active queue holds exactly the tasks that run a job, each linked once:
\* linked twice, the list is corrupt.  A task is linked and unlinked by its own
\* system call, by its timer and by the handlers of its server.
ActiveQueueExact ==
  \A t \in Task :
    linked[t] = IF /\ pc[t] \in {"user", "complete", "dequeue", "sleep", "asleep"}
                   /\ state[t] # "TASK_UNINTERRUPTIBLE"
                THEN 1 ELSE 0

\* A task that sleeps is woken again: its timer is armed, or it is marked for
\* the next start of its server, or it waits for an event.  A late job may end
\* with neither (a server stopped before the hook, resch.c:1304, then 1346), and
\* so may api_run of a task that starts early, if its server is stopped between
\* memsched.c:1385 and 1399, which clears the mark (then resch.c:2251).
NoTaskLost ==
  \A t \in Task \ LateTask :
    pc[t] \in {"user", "asleep"} /\ state[t] = "TASK_UNINTERRUPTIBLE" =>
      \/ pc[t] = "asleep" /\ timer[t]
      \/ "ACTIVATE" \in hsf_flags[t]
      \/ blocked[t]

\* No job starts before its release: the task sleeps until its next period,
\* and job_release_handler has been executed before the new job starts
\* (resch.c:1197 and 1261).
ReleasedBeforeStart ==
  [][\A t \in Task :
       pc[t] = "asleep" /\ pc'[t] = "user" => released[t]]_vars

\* Every released job starts in the end.
JobServed ==
  \A t \in Task : pc[t] = "asleep" ~> pc[t] = "user"
=============================================================================
