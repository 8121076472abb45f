----------------------------- MODULE HSFProofs -----------------------------
(***************************************************************************)
(* What holds of the tasks of the servers of a core for every number of    *)
(* tasks and servers.                                                      *)
(***************************************************************************)
EXTENDS HSF, Facts

----------------------------------------------------------------------------
(* Types.                                                                  *)

\* The highest server of a queue is in the queue.
LEMMA HighestProperty ==
  ASSUME priority \in Priorities, NEW queue \in SUBSET Server, queue # {}
  PROVE  Core!Highest(queue) \in queue
<1> DEFINE T == {priority[s] : s \in queue}
<1>1. T \in SUBSET Nat /\ T # {}
  BY HSFAssumption
<1>2. \E x \in T : \A y \in T : x <= y
  <2> HIDE DEF T
  <2> QED
    BY <1>1, NatMin
<1>3. \E s \in queue : \A t \in queue : priority[s] <= priority[t]
  BY <1>2
<1> QED
  BY <1>3 DEF Core!Highest

\* What a handler that switches servers leaves alone, and the types of the rest.
LEMMA SwitchType ==
  ASSUME TypeOK, NEW stopped, NEW started, Switch(stopped, started)
  PROVE  /\ state' \in [Task -> {"TASK_RUNNING", "TASK_INTERRUPTIBLE",
                                 "TASK_UNINTERRUPTIBLE"}]
         /\ hsf_flags' \in [Task -> SUBSET Flags]
         /\ linked' \in [Task -> Nat]
         /\ pc' = pc /\ timer' = timer /\ blocked' = blocked
         /\ released' = released
<1>1. "ACTIVATE" \in Flags
  BY DEF Flags
<1>2. hsf_flags' \in [Task -> SUBSET Flags]
  BY <1>1 DEF Switch, TypeOK
<1>3. linked' \in [Task -> Nat]
  BY DEF Switch, TypeOK
<1>4. state' \in [Task -> {"TASK_RUNNING", "TASK_INTERRUPTIBLE",
                          "TASK_UNINTERRUPTIBLE"}]
  BY DEF Switch, TypeOK
<1> QED
  BY <1>2, <1>3, <1>4 DEF Switch

LEMMA ServersType ==
  ASSUME TypeOK, NEW batch \in SUBSET Server,
         Core!Release(batch) \/ Core!Complete(batch)
  PROVE  priority' = priority /\ ready' \subseteq Server
         /\ running' = Core!Top(ready') /\ running' \subseteq Server
<1>1. ready \subseteq Server
  BY DEF TypeOK
<1> QED
  BY <1>1 DEF Core!Release, Core!Complete, Core!Top

\* A server step: the handlers of Next that switch servers.
ServerStep(batch) ==
  ServerRelease(batch) \/ ServerComplete(batch) \/ ServerDepleted(batch)

LEMMA ServerStepType ==
  ASSUME TypeOK, NEW batch \in SUBSET Server, ServerStep(batch)
  PROVE  TypeOK'
<1>1. Core!Release(batch) \/ Core!Complete(batch)
  BY DEF ServerStep, ServerRelease, ServerComplete, ServerDepleted
<1>2. priority' = priority /\ ready' \subseteq Server /\ running' \subseteq Server
  BY <1>1, ServersType
<1>3. \E stopped, started : Switch(stopped, started)
  BY DEF ServerStep, ServerRelease, ServerComplete, ServerDepleted
<1>4. PICK stopped, started : Switch(stopped, started)
  BY <1>3
<1>5. due' \in [Task -> BOOLEAN] /\ firstime' \in BOOLEAN
  BY DEF TypeOK, ServerStep, ServerRelease, ServerComplete, ServerDepleted
<1> QED
  BY <1>2, <1>4, <1>5, SwitchType DEF TypeOK

\* The steps of one task.
LEMMA TaskStepType ==
  ASSUME TypeOK, NEW t \in Task,
         \/ task_run(t) \/ TaskStep(t) \/ api_exit(t)
         \/ Block(t) \/ Event(t) \/ ReleaseTime(t)
  PROVE  TypeOK'
<1> USE DEF TypeOK, PCs, KernelCode, servers
<1>1. CASE task_run(t) \/ ResetFlags(t)
  BY <1>1 DEF task_run, ResetFlags, Flags
<1>12. CASE api_run(t)
  BY <1>12 DEF api_run
<1>13. CASE job_release(t)
  BY <1>13 DEF job_release, enqueue_task
<1>2. CASE api_wait_for_period(t)
  BY <1>2 DEF api_wait_for_period
<1>3. CASE CallPlugin(t)
  BY <1>3 DEF CallPlugin, task_complete, Toggle, Flags
<1>4. CASE Dequeue(t)
  BY <1>4 DEF Dequeue, dequeue_task
<1>5. CASE NextRelease(t)
  BY <1>5 DEF NextRelease
<1>6. CASE wait_next_period(t)
  BY <1>6 DEF wait_next_period
<1>7. CASE schedule(t)
  BY <1>7 DEF schedule
<1>8. CASE job_start(t)
  BY <1>8 DEF job_start
<1>9. CASE api_exit(t)
  BY <1>9 DEF api_exit, dequeue_task
<1>10. CASE Block(t) \/ Event(t)
  BY <1>10 DEF Block, Event
<1>11. CASE ReleaseTime(t)
  BY <1>11 DEF ReleaseTime
<1> QED
  BY <1>1, <1>2, <1>3, <1>4, <1>5, <1>6, <1>7, <1>8, <1>9, <1>10, <1>11, <1>12,
     <1>13
  DEF TaskStep

LEMMA ReleaseHandlerType ==
  ASSUME TypeOK, NEW t \in Task, job_release_handler(t)
  PROVE  TypeOK'
<1> DEFINE flags == task_release(t, Ready(hsf_flags[t]))
<1>1. flags \subseteq Flags
  BY DEF TypeOK, task_release, Ready, Flags
<1> HIDE DEF flags
<1>2. /\ timer' = [timer EXCEPT ![t] = FALSE]
      /\ released' = [released EXCEPT ![t] = TRUE]
      /\ hsf_flags' = [hsf_flags EXCEPT ![t] = flags]
      /\ \/ /\ state' = [state EXCEPT ![t] = "TASK_RUNNING"]
            /\ linked' = [linked EXCEPT ![t] = @ + 1]
         \/ UNCHANGED <<state, linked>>
      /\ UNCHANGED <<servers, pc, due, blocked>>
  BY DEF job_release_handler, enqueue_task, flags
<1> QED
  BY <1>1, <1>2 DEF TypeOK, servers

LEMMA TypeNext ==
  ASSUME TypeOK, [Next]_vars
  PROVE  TypeOK'
<1>1. ASSUME NEW t \in Task,
             \/ task_run(t) \/ TaskStep(t) \/ api_exit(t)
             \/ Block(t) \/ Event(t) \/ ReleaseTime(t)
      PROVE  TypeOK'
  BY <1>1, TaskStepType
<1>2. ASSUME NEW t \in Task, job_release_handler(t)
      PROVE  TypeOK'
  BY <1>2, ReleaseHandlerType
<1>3. ASSUME NEW batch \in SUBSET Server, ServerStep(batch)
      PROVE  TypeOK'
  BY <1>3, ServerStepType
<1>4. CASE UNCHANGED vars
  BY <1>4 DEF TypeOK, vars, servers
<1> QED
  BY <1>1, <1>2, <1>3, <1>4 DEF Next, ServerStep

LEMMA TypeInit ==
  ASSUME Init
  PROVE  TypeOK
BY DEF Init, TypeOK, PCs, KernelCode, Flags

\* Every variable keeps its type, for every set of tasks and servers and
\* whatever handlers interrupt.
THEOREM TypeCorrect == Spec => []TypeOK
<1>1. Init => TypeOK
  BY TypeInit
<1>2. TypeOK /\ [Next]_vars => TypeOK'
  BY TypeNext
<1> QED
  BY <1>1, <1>2, PTL DEF Spec

----------------------------------------------------------------------------
(* A task runs its jobs only while its server runs.                        *)

\* The points of a task that runs a job, ends one or was released.
InJob == {"enqueue", "user", "complete", "dequeue", "release", "sleep", "asleep"}

\* Strengthened to the system call that ends a job and to the wake-up.
RunsInServer ==
  \A t \in Orderly :
    pc[t] \in InJob /\ state[t] = "TASK_RUNNING" => server_id[t] \in running

\* The release time does not pass between the two comparisons with it.
WaitsAhead == \A t \in Task : pc[t] = "wait" => ~due[t]

OrderlyNotBlocked == \A t \in Orderly : ~blocked[t]

\* Before the first release of a server, no orderly task has run a job and the
\* first release of each one is still to be prevented.
NotStarted ==
  /\ running = {}
  /\ \A t \in Orderly :
       /\ pc[t] \in {"new", "listed", "run", "wait", "sleep", "asleep"}
       /\ pc[t] \in {"run", "wait"} => "PREVENT_RELEASE_AT_INIT" \in hsf_flags[t]
       /\ timer[t] => /\ pc[t] \in {"sleep", "asleep"}
                      /\ "PREVENT_RELEASE_AT_INIT" \in hsf_flags[t]
       /\ pc[t] \in {"sleep", "asleep"} => state[t] # "TASK_RUNNING"

\* The server that runs is the one task_release looks for.
HighestRuns == running = Core!Top(ready) \/ NotStarted

IInv ==
  /\ TypeOK
  /\ RunsInServer
  /\ WaitsAhead
  /\ OrderlyNotBlocked
  /\ HighestRuns

\* The assumption: no jiffy passes between the two comparisons.
NoTickInWait == \A t \in Task : "wait" \notin InterruptAt[t]

\* The servers stay as they are.
LEMMA HighestUnchanged ==
  ASSUME UNCHANGED servers, NotStarted => NotStarted', HighestRuns
  PROVE  HighestRuns'
<1>1. Core!Top(ready)' = Core!Top(ready)
  BY DEF servers, Core!Top, Core!Highest
<1> QED
  BY <1>1 DEF HighestRuns, servers

\* What the handlers that switch servers do: every task of a server that stops
\* is stopped, and only tasks of a server that runs are started.
LEMMA ServerStepProperty ==
  ASSUME IInv, NEW batch \in SUBSET Server, ServerStep(batch)
  PROVE  \E stopped, started :
           /\ Switch(stopped, started)
           /\ \A t \in Task :
                /\ pc[t] # "new" /\ state[t] = "TASK_RUNNING"
                /\ server_id[t] \in running
                /\ server_id[t] \notin running'
                => t \in stopped
           /\ \A t \in started : server_id[t] \in running'
<1>1. CASE ServerRelease(batch)
  <2> DEFINE old     == Core!Highest(ready)
             new     == Core!Highest(ready \cup batch)
             stopped == IF new = old THEN {} ELSE StopsRunning(old)
             started == IF new = old THEN {} ELSE StartsAsleep(new, stopped)
  <2>1. Core!Release(batch) /\ Switch(stopped, started)
    BY <1>1 DEF ServerRelease
  <2>2. /\ ready' = ready \cup batch /\ ready' # {} /\ ready' \in SUBSET Server
        /\ running' = Core!Top(ready')
    BY <2>1 DEF Core!Release, IInv, TypeOK
  <2>3. new \in ready'
    BY <2>2, HighestProperty DEF IInv, TypeOK
  <2>4. running' = {new}
    BY <2>2, <2>3 DEF Core!Top
  <2>5. \A s \in running : s = old
    BY DEF IInv, HighestRuns, NotStarted, Core!Top
  <2> HIDE DEF old, new
  <2>6. ASSUME NEW t \in Task, pc[t] # "new", state[t] = "TASK_RUNNING",
               server_id[t] \in running, server_id[t] \notin running'
        PROVE  t \in stopped
    BY <2>4, <2>5, <2>6 DEF StopsRunning, TasksOf
  <2>7. \A t \in started : server_id[t] \in running'
    BY <2>4 DEF StartsAsleep, Marked, TasksOf
  <2> HIDE DEF stopped, started
  <2> QED
    BY <2>1, <2>6, <2>7
<1>2. ASSUME NEW stopped,
             \A s \in running : StopsRunning(s) \subseteq stopped,
             Switch(stopped, UNION {Marked(s, stopped) : s \in running'})
      PROVE  \E started :
               /\ Switch(stopped, started)
               /\ \A t \in Task :
                    /\ pc[t] # "new" /\ state[t] = "TASK_RUNNING"
                    /\ server_id[t] \in running
                    /\ server_id[t] \notin running'
                    => t \in stopped
               /\ \A t \in started : server_id[t] \in running'
  <2> DEFINE started == UNION {Marked(s, stopped) : s \in running'}
  <2>1. \A t \in started : server_id[t] \in running'
    BY DEF Marked, TasksOf
  <2>2. ASSUME NEW t \in Task, pc[t] # "new", state[t] = "TASK_RUNNING",
               server_id[t] \in running
        PROVE  t \in stopped
    BY <1>2, <2>2 DEF StopsRunning, TasksOf
  <2> HIDE DEF started
  <2> QED
    BY <1>2, <2>1, <2>2 DEF started
<1>3. CASE ServerComplete(batch)
  <2>1. PICK stopped \in {UNION {StopsRunning(s) : s \in running}} :
          /\ Core!Complete(batch)
          /\ Switch(stopped, UNION {Marked(s, stopped) : s \in running'})
    BY <1>3 DEF ServerComplete
  <2> QED
    BY <1>2, <2>1
<1>4. CASE ServerDepleted(batch)
  <2>1. PICK stopped \in {UNION {StopsAwake(s) : s \in running}} :
          /\ Core!Complete(batch)
          /\ Switch(stopped, UNION {Marked(s, stopped) : s \in running'})
    BY <1>4 DEF ServerDepleted
  <2>2. \A s \in running : StopsRunning(s) \subseteq stopped
    BY <2>1 DEF StopsRunning, StopsAwake
  <2> QED
    BY <1>2, <2>1, <2>2
<1> QED
  BY <1>1, <1>3, <1>4 DEF ServerStep

LEMMA ServerStepInv ==
  ASSUME NoTickInWait, IInv, NEW batch \in SUBSET Server, ServerStep(batch)
  PROVE  IInv'
<1>1. TypeOK'
  BY ServerStepType DEF IInv
<1>2. PICK stopped, started :
        /\ Switch(stopped, started)
        /\ \A t \in Task :
             /\ pc[t] # "new" /\ state[t] = "TASK_RUNNING"
             /\ server_id[t] \in running
             /\ server_id[t] \notin running'
             => t \in stopped
        /\ \A t \in started : server_id[t] \in running'
  BY ServerStepProperty
<1>3. pc' = pc /\ blocked' = blocked
      /\ \A t \in Task : pc[t] # "wait"
  BY <1>2 DEF Switch, Interruptible, InKernel, KernelCode, NoTickInWait
<1>4. \A t \in Task : state'[t] = "TASK_RUNNING"
        => t \in started \/ (t \notin stopped /\ state[t] = "TASK_RUNNING")
  BY <1>2 DEF Switch
<1>5. RunsInServer'
  BY <1>2, <1>3, <1>4 DEF IInv, RunsInServer, InJob, Orderly
<1>6. WaitsAhead' /\ OrderlyNotBlocked'
  BY <1>3 DEF IInv, WaitsAhead, OrderlyNotBlocked
<1>7. Core!Release(batch) \/ Core!Complete(batch)
  BY DEF ServerStep, ServerRelease, ServerComplete, ServerDepleted
<1>8. priority' = priority /\ running' = Core!Top(ready')
  BY <1>7, ServersType DEF IInv
<1>9. HighestRuns'
  BY <1>8 DEF HighestRuns, Core!Top, Core!Highest
<1> QED
  BY <1>1, <1>5, <1>6, <1>9 DEF IInv

\* The steps of a task that change neither its state nor the servers.
LEMMA TaskStepInv ==
  ASSUME NoTickInWait, IInv, NEW t \in Task,
         \/ task_run(t) \/ TaskStep(t) \/ api_exit(t)
         \/ Block(t) \/ Event(t) \/ ReleaseTime(t)
  PROVE  IInv'
<1>1. TypeOK'
  BY TaskStepType DEF IInv
<1>2. UNCHANGED servers
  BY DEF TaskStep, api_run, api_exit, Block, Event, ReleaseTime,
         api_wait_for_period, CallPlugin, Dequeue, NextRelease,
         wait_next_period, schedule, job_start, task_run, ResetFlags,
         job_release
<1> DEFINE TaskInv == RunsInServer /\ WaitsAhead /\ OrderlyNotBlocked
           Goal    == TaskInv' /\ (NotStarted => NotStarted')
<1>3. Goal
  <2> USE DEF IInv, TypeOK, RunsInServer, WaitsAhead, OrderlyNotBlocked,
              NotStarted, InJob, servers, Orderly
  <2>1. CASE task_run(t) \/ ResetFlags(t)
    BY <2>1 DEF task_run, ResetFlags
  <2>12. CASE api_run(t)
    BY <2>12 DEF api_run
  <2>13. CASE job_release(t)
    BY <2>13 DEF job_release
  <2>2. CASE api_wait_for_period(t)
    BY <2>2 DEF api_wait_for_period, OnCpu
  <2>3. CASE CallPlugin(t)
    BY <2>3 DEF CallPlugin
  <2>4. CASE Dequeue(t)
    BY <2>4 DEF Dequeue
  <2>5. CASE NextRelease(t)
    BY <2>5 DEF NextRelease
  <2>6. CASE wait_next_period(t)
    BY <2>6 DEF wait_next_period
  <2>7. CASE schedule(t)
    BY <2>7 DEF schedule
  <2>8. CASE job_start(t)
    BY <2>8 DEF job_start
  <2>9. CASE api_exit(t)
    BY <2>9 DEF api_exit, OnCpu
  <2>10. CASE Block(t) \/ Event(t)
    BY <2>10 DEF Block, Event
  <2>11. CASE ReleaseTime(t)
    BY <2>11 DEF ReleaseTime, Interruptible, InKernel, KernelCode, NoTickInWait
  <2> QED
    BY <2>1, <2>2, <2>3, <2>4, <2>5, <2>6, <2>7, <2>8, <2>9, <2>10, <2>11,
       <2>12, <2>13
    DEF TaskStep
<1> QED
  BY <1>1, <1>2, <1>3, HighestUnchanged DEF IInv

\* task_release lets a task be woken only when its server is the one that runs.
LEMMA ReleaseHandlerInv ==
  ASSUME NoTickInWait, IInv, NEW t \in Task, job_release_handler(t)
  PROVE  IInv'
<1> DEFINE flags == task_release(t, Ready(hsf_flags[t]))
           wake  == /\ "RESCH_PREVENT_RELEASE" \notin flags
                    /\ state[t] # "TASK_RUNNING"
<1>1. TypeOK'
  BY ReleaseHandlerType DEF IInv
<1>2. /\ timer[t] /\ due[t] /\ Interruptible
      /\ timer' = [timer EXCEPT ![t] = FALSE]
      /\ hsf_flags' = [hsf_flags EXCEPT ![t] = flags]
      /\ IF wake THEN state' = [state EXCEPT ![t] = "TASK_RUNNING"]
                 ELSE state' = state
      /\ UNCHANGED <<servers, pc, due, blocked>>
  BY DEF job_release_handler
<1>3. pc[t] # "wait"
  BY <1>2 DEF Interruptible, InKernel, KernelCode, NoTickInWait
<1>4. "PREVENT_RELEASE_AT_INIT" \in hsf_flags[t] => ~wake
  BY DEF task_release, Ready
<1>5. wake => Core!Highest(ready) = server_id[t]
  BY <1>4 DEF task_release, Ready
<1> HIDE DEF wake, flags
<1>6. ASSUME wake, t \in Orderly
      PROVE  server_id[t] \in running
  <2>1. Core!Highest(ready) = server_id[t] /\ server_id[t] \in Server
    BY <1>5, <1>6, HSFAssumption
  <2>2. ready # {}
    BY <2>1, HSFAssumption DEF Core!Highest
  <2>3. server_id[t] \in ready
    BY <2>1, <2>2, HighestProperty DEF IInv, TypeOK
  <2>4. ~NotStarted
    BY <1>2, <1>4, <1>6 DEF NotStarted
  <2> QED
    BY <2>1, <2>3, <2>4 DEF IInv, HighestRuns, Core!Top
<1>7. RunsInServer'
  BY <1>2, <1>6 DEF IInv, TypeOK, RunsInServer, servers, Orderly
<1>8. WaitsAhead' /\ OrderlyNotBlocked'
  BY <1>2 DEF IInv, WaitsAhead, OrderlyNotBlocked
<1>9. NotStarted => NotStarted'
  <2> SUFFICES ASSUME NotStarted
               PROVE  NotStarted'
    OBVIOUS
  <2>1. t \in Orderly => ~wake /\ state' = state
    BY <1>2, <1>4 DEF NotStarted
  <2> QED
    BY <1>2, <1>3, <2>1 DEF IInv, TypeOK, NotStarted, servers, Orderly
<1>10. HighestRuns'
  BY <1>2, <1>9, HighestUnchanged DEF IInv
<1> QED
  BY <1>1, <1>7, <1>8, <1>10 DEF IInv

LEMMA InvNext ==
  ASSUME NoTickInWait, IInv, [Next]_vars
  PROVE  IInv'
<1>1. ASSUME NEW t \in Task,
             \/ task_run(t) \/ TaskStep(t) \/ api_exit(t)
             \/ Block(t) \/ Event(t) \/ ReleaseTime(t)
      PROVE  IInv'
  BY <1>1, TaskStepInv
<1>2. ASSUME NEW t \in Task, job_release_handler(t)
      PROVE  IInv'
  BY <1>2, ReleaseHandlerInv
<1>3. ASSUME NEW batch \in SUBSET Server, ServerStep(batch)
      PROVE  IInv'
  BY <1>3, ServerStepInv
<1>4. CASE UNCHANGED vars
  <2>1. UNCHANGED servers /\ (NotStarted => NotStarted')
    BY <1>4 DEF vars, servers, NotStarted
  <2>2. HighestRuns'
    BY <2>1, HighestUnchanged DEF IInv
  <2>3. TypeOK'
    BY <1>4, TypeNext DEF IInv
  <2> QED
    BY <1>4, <2>2, <2>3 DEF IInv, RunsInServer, WaitsAhead, OrderlyNotBlocked,
                            vars, servers
<1> QED
  BY <1>1, <1>2, <1>3, <1>4 DEF Next, ServerStep

LEMMA InvInit ==
  ASSUME Init
  PROVE  IInv
BY TypeInit DEF Init, IInv, RunsInServer, InJob, WaitsAhead, OrderlyNotBlocked,
                HighestRuns, NotStarted, Orderly

\* A task runs its jobs only while its server runs, for every set of servers
\* and tasks and wherever the handlers interrupt a system call but between the
\* two comparisons with the release time.
THEOREM TasksRunInServers ==
  ASSUME NoTickInWait
  PROVE  Spec => []TaskRunsInServer
<1>1. Init => IInv
  BY InvInit
<1>2. IInv /\ [Next]_vars => IInv'
  BY InvNext
<1>3. IInv => TaskRunsInServer
  BY DEF IInv, RunsInServer, InJob, TaskRunsInServer
<1> QED
  BY <1>1, <1>2, <1>3, PTL DEF Spec
----------------------------------------------------------------------------
(* A task that sleeps is woken again.                                      *)

\* The flag is not looked at before the task sleeps: a task that is stopped in
\* a job stays marked until its job ends, and one on its way to schedule() has a
\* timer until it is marked.  One that starts early must not be stopped before
\* its flags are reset.
WillWake ==
  \A t \in Task \ LateTask :
    /\ t \in EarlyTask /\ pc[t] \in {"new", "listed"} => state[t] = "TASK_RUNNING"
    /\ pc[t] \in {"enqueue", "user"} \/ (t \in EarlyTask /\ pc[t] = "run")
         => (state[t] = "TASK_UNINTERRUPTIBLE" => "ACTIVATE" \in hsf_flags[t])
    /\ pc[t] \in {"sleep", "asleep"} => timer[t] \/ "ACTIVATE" \in hsf_flags[t]

\* What is left of the marks and states by a handler that switches servers.
LEMMA SwitchMarks ==
  ASSUME TypeOK, NEW stopped, NEW started, Switch(stopped, started),
         NEW t \in Task
  PROVE  /\ hsf_flags[t] \subseteq hsf_flags'[t]
         /\ t \in stopped => "ACTIVATE" \in hsf_flags'[t]
         /\ t \notin stopped => hsf_flags'[t] = hsf_flags[t]
         /\ state'[t] = IF t \in started THEN "TASK_RUNNING"
                        ELSE IF t \in stopped THEN "TASK_UNINTERRUPTIBLE"
                        ELSE state[t]
         /\ linked'[t] = (IF t \in stopped THEN 0 ELSE linked[t])
                         + (IF t \in started THEN 1 ELSE 0)
         /\ pc' = pc /\ timer' = timer /\ released' = released
BY DEF Switch, TypeOK

\* Only tasks in the list of their server are stopped.
LEMMA OldTasksStopped ==
  ASSUME NEW batch \in SUBSET Server, ServerStep(batch)
  PROVE  \E stopped, started : /\ Switch(stopped, started)
                              /\ \A t \in stopped : pc[t] # "new"
<1>1. CASE ServerRelease(batch)
  BY <1>1 DEF ServerRelease, StopsRunning, TasksOf
<1>2. CASE ServerComplete(batch)
  BY <1>2 DEF ServerComplete, StopsRunning, TasksOf
<1>3. CASE ServerDepleted(batch)
  BY <1>3 DEF ServerDepleted, StopsAwake, TasksOf
<1> QED
  BY <1>1, <1>2, <1>3 DEF ServerStep

\* The assumption: no handler runs while a task that starts early is in the list
\* of its server with its flags still to be reset.
MarksKept == \A t \in EarlyTask : "listed" \notin InterruptAt[t]

LEMMA WillWakeNext ==
  ASSUME MarksKept, TypeOK, WaitsAhead, WillWake, [Next]_vars
  PROVE  WillWake'
<1> USE DEF TypeOK, WillWake
<1>1. ASSUME NEW batch \in SUBSET Server, ServerStep(batch)
      PROVE  WillWake'
  <2>1. PICK stopped, started :
          /\ Switch(stopped, started)
          /\ \A t \in stopped : pc[t] # "new"
    BY <1>1, OldTasksStopped
  <2>2. pc' = pc /\ timer' = timer
    BY <2>1 DEF Switch
  <2>3. \A t \in EarlyTask : t \in Task /\ pc[t] # "listed"
    BY <2>1, HSFAssumption DEF Switch, Interruptible, InKernel, KernelCode, MarksKept
  <2> QED
    BY <2>1, <2>2, <2>3, SwitchMarks
<1>2. ASSUME NEW t \in Task, job_release_handler(t)
      PROVE  WillWake'
  <2> DEFINE flags == task_release(t, Ready(hsf_flags[t]))
  <2>1. "ACTIVATE" \in flags
    BY DEF task_release, Ready
  <2>2. /\ hsf_flags' = [hsf_flags EXCEPT ![t] = flags]
        /\ timer' = [timer EXCEPT ![t] = FALSE]
        /\ \A u \in Task : state'[u] \in {state[u], "TASK_RUNNING"}
        /\ pc' = pc
    BY <1>2 DEF job_release_handler
  <2> HIDE DEF flags
  <2> QED
    BY <2>1, <2>2
<1>3. ASSUME NEW t \in Task, task_run(t) \/ api_exit(t) \/ Block(t) \/ Event(t)
      PROVE  WillWake'
  <2>1. CASE task_run(t)
    BY <2>1 DEF task_run
  <2>2. CASE api_exit(t)
    BY <2>2 DEF api_exit
  <2>3. CASE Block(t)
    BY <2>3 DEF Block, OnCpu
  <2>4. CASE Event(t)
    BY <2>4 DEF Event
  <2> QED
    BY <1>3, <2>1, <2>2, <2>3, <2>4
<1>4. ASSUME NEW t \in Task, TaskStep(t)
      PROVE  WillWake'
  <2> USE DEF servers
  <2>1. CASE api_wait_for_period(t)
    BY <2>1 DEF api_wait_for_period
  <2>2. CASE CallPlugin(t)
    BY <2>2 DEF CallPlugin
  <2>3. CASE Dequeue(t)
    BY <2>3 DEF Dequeue
  <2>4. CASE NextRelease(t)
    BY <2>4 DEF NextRelease
  <2>5. CASE wait_next_period(t)
    BY <2>5 DEF wait_next_period, WaitsAhead
  <2>6. CASE schedule(t) \/ job_start(t)
    BY <2>6 DEF schedule, job_start
  <2>7. CASE ResetFlags(t)
    BY <2>7 DEF ResetFlags
  <2>8. CASE api_run(t)
    BY <2>8 DEF api_run
  <2>9. CASE job_release(t)
    BY <2>9 DEF job_release
  <2> QED
    BY <1>4, <2>1, <2>2, <2>3, <2>4, <2>5, <2>6, <2>7, <2>8, <2>9 DEF TaskStep
<1>5. ASSUME NEW t \in Task, ReleaseTime(t)
      PROVE  WillWake'
  BY <1>5 DEF ReleaseTime
<1>6. CASE UNCHANGED vars
  BY <1>6 DEF vars
<1> QED
  BY <1>1, <1>2, <1>3, <1>4, <1>5, <1>6 DEF Next, ServerStep

\* No task but those that end a job after its next release sleeps without
\* something that will wake it.  Handlers may interrupt a system call anywhere but
\* between the two comparisons with the release time and, if the task is ready
\* before the servers, between its entry into the list of its server and the
\* reset of its flags, which would lose its mark (memsched.c:1385 and 1399).
THEOREM NoTaskIsLost ==
  ASSUME NoTickInWait, MarksKept
  PROVE  Spec => []NoTaskLost
<1>1. Init => IInv /\ WillWake
  BY InvInit DEF Init, WillWake
<1>2. IInv /\ WillWake /\ [Next]_vars => IInv' /\ WillWake'
  BY InvNext, WillWakeNext DEF IInv
<1>3. IInv /\ WillWake => NoTaskLost
  BY DEF WillWake, NoTaskLost
<1> QED
  BY <1>1, <1>2, <1>3, PTL DEF Spec

----------------------------------------------------------------------------
(* The active queue.                                                       *)

\* Handlers interrupt a system call before the hook of the plugin and before
\* schedule() only; jobs begin and end in time and do not sleep.
JobsInTime ==
  /\ \A t \in Task : InterruptAt[t] \subseteq {"complete", "sleep"}
  /\ LateTask \cup EarlyTask \cup BlockingTask \cup ExitingTask = {}

\* The mark of a task follows its job: ACTIVATE is set from the release to the
\* end of the job, when the hook toggles it.  As long as the timer is armed
\* nothing else may wake the task.
MarkExact ==
  \A t \in Task :
    /\ pc[t] \notin {"enqueue", "exited"} /\ state[t] # "TASK_INTERRUPTIBLE"
    /\ "ACTIVATE" \in hsf_flags[t] <=>
         pc[t] \in {"user", "complete"} \/ (pc[t] \in {"sleep", "asleep"} /\ ~timer[t])
    /\ timer[t] => pc[t] \in {"sleep", "asleep"} /\ state[t] = "TASK_UNINTERRUPTIBLE"
    /\ "ACTIVATE" \in hsf_flags[t] /\ pc[t] \in {"sleep", "asleep"} => released[t]

JobInv == IInv /\ MarkExact /\ ActiveQueueExact

\* A task is started once, and only if it is not linked.
LEMMA StartedOnce ==
  ASSUME JobsInTime, JobInv, NEW batch \in SUBSET Server, ServerStep(batch)
  PROVE  \E stopped, started :
           /\ Switch(stopped, started)
           /\ \A t \in Task : t \in stopped =>
                pc[t] # "new" /\ state[t] = "TASK_RUNNING"
           /\ \A t \in Task : t \in started =>
                /\ pc[t] # "new"
                /\ "ACTIVATE" \in hsf_flags[t] \/ t \in stopped
                /\ state[t] # "TASK_RUNNING" \/ t \in stopped
<1>1. CASE ServerRelease(batch)
  BY <1>1 DEF ServerRelease, StopsRunning, StartsAsleep, Marked, TasksOf
<1>2. \A t \in Task : state[t] # "TASK_INTERRUPTIBLE" /\ t \in Orderly
  BY DEF JobInv, MarkExact, JobsInTime, Orderly
<1>3. ASSUME NEW stopped, NEW started, Switch(stopped, started),
             \A t \in Task : t \in stopped <=>
               \E s \in running : t \in TasksOf(s) /\ state[t] = "TASK_RUNNING",
             \A t \in Task : t \in started =>
               \E s \in Server : t \in Marked(s, stopped)
      PROVE  /\ \A t \in Task : t \in stopped =>
                  pc[t] # "new" /\ state[t] = "TASK_RUNNING"
             /\ \A t \in Task : t \in started =>
                  /\ pc[t] # "new"
                  /\ "ACTIVATE" \in hsf_flags[t] \/ t \in stopped
                  /\ state[t] # "TASK_RUNNING" \/ t \in stopped
  <2>1. \A t \in Task : t \in stopped => pc[t] # "new" /\ state[t] = "TASK_RUNNING"
    BY <1>3 DEF TasksOf
  <2>2. \A t \in Task : t \in started =>
          pc[t] # "new" /\ ("ACTIVATE" \in hsf_flags[t] \/ t \in stopped)
    BY <1>3 DEF Marked, TasksOf
  <2>3. ASSUME NEW t \in Task, pc[t] # "new", state[t] = "TASK_RUNNING"
        PROVE  t \in stopped
    <3>1. Interruptible /\ pc[t] \in PCs
      BY <1>3 DEF Switch, JobInv, IInv, TypeOK
    <3>2. pc[t] \in InJob
      BY <2>3, <3>1 DEF Interruptible, InKernel, JobsInTime, KernelCode, PCs,
                        InJob, JobInv, MarkExact
    <3>3. server_id[t] \in running
      BY <1>2, <2>3, <3>2 DEF JobInv, IInv, RunsInServer
    <3> QED
      BY <1>3, <2>3, <3>3 DEF TasksOf
  <2> QED
    BY <2>1, <2>2, <2>3
<1>4. CASE ServerComplete(batch)
  <2>1. PICK stopped \in {UNION {StopsRunning(s) : s \in running}} :
          Switch(stopped, UNION {Marked(s, stopped) : s \in running'})
    BY <1>4 DEF ServerComplete
  <2>2. \A t \in Task : t \in stopped <=>
          \E s \in running : t \in TasksOf(s) /\ state[t] = "TASK_RUNNING"
    BY <2>1 DEF StopsRunning
  <2>3. running' \subseteq Server
    BY <1>4, ServerStepType DEF ServerStep, JobInv, IInv, TypeOK
  <2> DEFINE started == UNION {Marked(s, stopped) : s \in running'}
  <2>4. \A t \in Task : t \in started => \E s \in Server : t \in Marked(s, stopped)
    BY <2>3
  <2>5. Switch(stopped, started)
    BY <2>1
  <2> HIDE DEF started
  <2> QED
    BY <1>3, <2>2, <2>4, <2>5
<1>5. CASE ServerDepleted(batch)
  <2>1. PICK stopped \in {UNION {StopsAwake(s) : s \in running}} :
          Switch(stopped, UNION {Marked(s, stopped) : s \in running'})
    BY <1>5 DEF ServerDepleted
  <2>2. \A t \in Task : state[t] # "TASK_UNINTERRUPTIBLE" <=> state[t] = "TASK_RUNNING"
    BY <1>2 DEF JobInv, IInv, TypeOK
  <2>3. \A t \in Task : t \in stopped <=>
          \E s \in running : t \in TasksOf(s) /\ state[t] = "TASK_RUNNING"
    BY <2>1, <2>2 DEF StopsAwake, TasksOf
  <2>4. running' \subseteq Server
    BY <1>5, ServerStepType DEF ServerStep, JobInv, IInv, TypeOK
  <2> DEFINE started == UNION {Marked(s, stopped) : s \in running'}
  <2>5. \A t \in Task : t \in started => \E s \in Server : t \in Marked(s, stopped)
    BY <2>4
  <2>6. Switch(stopped, started)
    BY <2>1
  <2> HIDE DEF started
  <2> QED
    BY <1>3, <2>3, <2>5, <2>6
<1> QED
  BY <1>1, <1>4, <1>5 DEF ServerStep

\* The part of the invariant about the marks and the active queue.
JobPart == MarkExact /\ ActiveQueueExact

LEMMA ServerStepJobs ==
  ASSUME JobsInTime, JobInv, NEW batch \in SUBSET Server, ServerStep(batch)
  PROVE  JobPart'
<1>1. PICK stopped, started :
        /\ Switch(stopped, started)
        /\ \A t \in Task : t \in stopped =>
             pc[t] # "new" /\ state[t] = "TASK_RUNNING"
        /\ \A t \in Task : t \in started =>
             /\ pc[t] # "new"
             /\ "ACTIVATE" \in hsf_flags[t] \/ t \in stopped
             /\ state[t] # "TASK_RUNNING" \/ t \in stopped
  BY StartedOnce
<1>2. TypeOK /\ MarkExact /\ ActiveQueueExact
  BY DEF JobInv, IInv
<1>3. Interruptible
  BY <1>1 DEF Switch
<1>4. ASSUME NEW t \in Task, pc[t] # "new"
      PROVE  pc[t] \in {"user", "complete", "sleep", "asleep"}
  BY <1>2, <1>3, <1>4 DEF TypeOK, PCs, KernelCode, MarkExact, Interruptible, InKernel,
                          JobsInTime
<1>5. ASSUME NEW t \in Task, t \in stopped \/ t \in started
      PROVE  "ACTIVATE" \in hsf_flags[t] /\ ~timer[t]
             /\ (t \in stopped \/ state[t] = "TASK_UNINTERRUPTIBLE")
             /\ pc[t] \in {"user", "complete", "sleep", "asleep"}
  BY <1>1, <1>2, <1>4, <1>5 DEF MarkExact, TypeOK
<1>6. MarkExact'
  BY <1>1, <1>2, <1>5, SwitchMarks DEF MarkExact, TypeOK
<1>7. ActiveQueueExact'
  <2> SUFFICES ASSUME NEW t \in Task
               PROVE  linked'[t] = IF /\ pc'[t] \in {"user", "complete", "dequeue",
                                                     "sleep", "asleep"}
                                      /\ state'[t] # "TASK_UNINTERRUPTIBLE"
                                   THEN 1 ELSE 0
    BY DEF ActiveQueueExact
  <2>1. pc' = pc /\ linked[t] \in Nat
        /\ state'[t] = (IF t \in started THEN "TASK_RUNNING"
                        ELSE IF t \in stopped THEN "TASK_UNINTERRUPTIBLE"
                        ELSE state[t])
        /\ linked'[t] = (IF t \in stopped THEN 0 ELSE linked[t])
                         + (IF t \in started THEN 1 ELSE 0)
    BY <1>1, <1>2, SwitchMarks DEF TypeOK
  <2>2. linked[t] = IF /\ pc[t] \in {"user", "complete", "dequeue", "sleep", "asleep"}
                       /\ state[t] # "TASK_UNINTERRUPTIBLE"
                    THEN 1 ELSE 0
    BY <1>2 DEF ActiveQueueExact
  <2>3. CASE t \in started
    <3>1. (IF t \in stopped THEN 0 ELSE linked[t]) = 0
      BY <1>5, <2>2, <2>3
    <3> QED
      BY <1>5, <2>1, <2>3, <3>1
  <2>4. CASE t \notin started
    BY <2>1, <2>2, <2>4
  <2> QED
    BY <2>3, <2>4
<1> QED
  BY <1>6, <1>7 DEF JobPart

LEMMA ReleaseHandlerJobs ==
  ASSUME JobsInTime, JobInv, NEW t \in Task, job_release_handler(t)
  PROVE  JobPart'
<1> DEFINE flags == task_release(t, Ready(hsf_flags[t]))
<1>1. "ACTIVATE" \in flags
  BY DEF task_release, Ready
<1>2. TypeOK /\ MarkExact /\ ActiveQueueExact
  BY DEF JobInv, IInv
<1>3. /\ timer[t] /\ pc[t] \in {"sleep", "asleep"}
      /\ state[t] = "TASK_UNINTERRUPTIBLE" /\ linked[t] = 0
  BY <1>2 DEF job_release_handler, MarkExact, ActiveQueueExact
<1>4. /\ timer' = [timer EXCEPT ![t] = FALSE]
      /\ released' = [released EXCEPT ![t] = TRUE]
      /\ hsf_flags' = [hsf_flags EXCEPT ![t] = flags]
      /\ pc' = pc
      /\ \/ /\ state' = [state EXCEPT ![t] = "TASK_RUNNING"]
            /\ linked' = [linked EXCEPT ![t] = @ + 1]
         \/ UNCHANGED <<state, linked>>
  BY DEF job_release_handler, enqueue_task
<1> HIDE DEF flags
<1>5. MarkExact'
  BY <1>1, <1>2, <1>3, <1>4 DEF MarkExact, TypeOK
<1>6. ActiveQueueExact'
  BY <1>2, <1>3, <1>4 DEF ActiveQueueExact, TypeOK
<1> QED
  BY <1>5, <1>6 DEF JobPart

LEMMA TaskStepJobs ==
  ASSUME JobsInTime, JobInv, NEW t \in Task,
         \/ task_run(t) \/ TaskStep(t) \/ api_exit(t)
         \/ Block(t) \/ Event(t) \/ ReleaseTime(t)
  PROVE  JobPart'
<1>1. TypeOK /\ MarkExact /\ ActiveQueueExact /\ WaitsAhead /\ OrderlyNotBlocked
  BY DEF JobInv, IInv
<1> DEFINE Hook(u) == task_complete(hsf_flags[u])
<1>2. pc[t] = "complete" => "ACTIVATE" \notin Hook(t)
  BY <1>1 DEF MarkExact, task_complete, Toggle
<1> HIDE DEF Hook
<1> USE DEF TypeOK, MarkExact, ActiveQueueExact, JobPart
<1>3. CASE task_run(t) \/ ResetFlags(t)
  BY <1>1, <1>3 DEF task_run, ResetFlags
<1>14. CASE api_run(t)
  BY <1>1, <1>14 DEF api_run, JobsInTime
<1>15. CASE job_release(t)
  BY <1>1, <1>15 DEF job_release
<1>4. CASE api_wait_for_period(t)
  BY <1>1, <1>4 DEF api_wait_for_period, OnCpu
<1>5. CASE CallPlugin(t)
  BY <1>1, <1>2, <1>5 DEF CallPlugin, Hook
<1>6. CASE Dequeue(t)
  BY <1>1, <1>6 DEF Dequeue, dequeue_task
<1>7. CASE NextRelease(t)
  BY <1>1, <1>7 DEF NextRelease, JobsInTime
<1>8. CASE wait_next_period(t)
  BY <1>1, <1>8 DEF wait_next_period, WaitsAhead
<1>9. CASE schedule(t)
  BY <1>1, <1>9 DEF schedule
<1>10. CASE job_start(t)
  BY <1>1, <1>10 DEF job_start
<1>11. CASE api_exit(t) \/ Block(t)
  BY <1>11 DEF api_exit, Block, JobsInTime
<1>12. CASE Event(t)
  BY <1>1, <1>12 DEF Event, OrderlyNotBlocked, Orderly, JobsInTime
<1>13. CASE ReleaseTime(t)
  BY <1>1, <1>13 DEF ReleaseTime
<1> QED
  BY <1>3, <1>4, <1>5, <1>6, <1>7, <1>8, <1>9, <1>10, <1>11, <1>12, <1>13,
     <1>14, <1>15 DEF TaskStep

LEMMA JobNext ==
  ASSUME JobsInTime, JobInv, [Next]_vars
  PROVE  JobInv'
<1>1. NoTickInWait
  BY DEF JobsInTime, NoTickInWait
<1>2. IInv'
  BY <1>1, InvNext DEF JobInv
<1>3. JobPart'
  <2>1. ASSUME NEW t \in Task,
               \/ task_run(t) \/ TaskStep(t) \/ api_exit(t)
               \/ Block(t) \/ Event(t) \/ ReleaseTime(t)
        PROVE  JobPart'
    BY <2>1, TaskStepJobs
  <2>2. ASSUME NEW t \in Task, job_release_handler(t)
        PROVE  JobPart'
    BY <2>2, ReleaseHandlerJobs
  <2>3. ASSUME NEW batch \in SUBSET Server, ServerStep(batch)
        PROVE  JobPart'
    BY <2>3, ServerStepJobs
  <2>4. CASE UNCHANGED vars
    BY <2>4 DEF vars, JobInv, JobPart, MarkExact, ActiveQueueExact
  <2> QED
    BY <2>1, <2>2, <2>3, <2>4 DEF Next, ServerStep
<1> QED
  BY <1>2, <1>3 DEF JobInv, JobPart

LEMMA JobInit ==
  ASSUME Init
  PROVE  JobInv
BY InvInit DEF Init, JobInv, MarkExact, ActiveQueueExact

\* The active queue holds exactly the tasks that run a job, each once, for every
\* set of tasks and servers and all switches of servers, as long as jobs begin
\* and end in time and handlers do not come between the hook and schedule().
THEOREM ActiveQueue ==
  ASSUME JobsInTime
  PROVE  Spec => []ActiveQueueExact
<1>1. Init => JobInv
  BY JobInit
<1>2. JobInv /\ [Next]_vars => JobInv'
  BY JobNext
<1>3. JobInv => ActiveQueueExact
  BY DEF JobInv
<1> QED
  BY <1>1, <1>2, <1>3, PTL DEF Spec

\* Under the same conditions no job starts before job_release_handler released
\* it, though the start of a server wakes tasks as well.
THEOREM NoEarlyStart ==
  ASSUME JobsInTime
  PROVE  Spec => ReleasedBeforeStart
<1>1. Init => JobInv
  BY JobInit
<1>2. JobInv /\ [Next]_vars => JobInv'
  BY JobNext
<1>3. JobInv /\ [Next]_vars =>
        [\A t \in Task : pc[t] = "asleep" /\ pc'[t] = "user" => released[t]]_vars
  <2> SUFFICES ASSUME JobInv, Next, NEW t \in Task, pc[t] = "asleep", pc'[t] = "user"
               PROVE  released[t]
    OBVIOUS
  <2>1. state[t] = "TASK_RUNNING"
    <3>1. ASSUME NEW u \in Task,
                 \/ task_run(u) \/ TaskStep(u) \/ api_exit(u)
                 \/ Block(u) \/ Event(u) \/ ReleaseTime(u)
          PROVE  state[t] = "TASK_RUNNING"
      BY <3>1 DEF JobInv, IInv, TypeOK, task_run, TaskStep, api_exit, Block, Event,
                  ResetFlags, api_run, job_release, ReleaseTime, api_wait_for_period, CallPlugin, Dequeue, NextRelease,
                  wait_next_period, schedule, job_start, OnCpu
    <3>2. ASSUME NEW u \in Task, job_release_handler(u)
          PROVE  FALSE
      BY <3>2 DEF job_release_handler
    <3>3. ASSUME NEW batch \in SUBSET Server, ServerStep(batch)
          PROVE  FALSE
      BY <3>3 DEF ServerStep, ServerRelease, ServerComplete, ServerDepleted, Switch
    <3> QED
      BY <3>1, <3>2, <3>3 DEF Next, ServerStep
  <2> QED
    BY <2>1 DEF JobInv, MarkExact
<1> QED
  BY <1>1, <1>2, <1>3, PTL DEF Spec, ReleasedBeforeStart
=============================================================================
