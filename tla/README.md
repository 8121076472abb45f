# MemSched in TLA+

MemSched is a loadable Linux scheduler in two kernel modules. The core, RESCH
(`core/resch.c`), runs periodic real-time tasks and calls the hooks of a plugin.
The plugin (`plugin/memsched/memsched.c`) puts the tasks into *servers*: each
server has a period, a CPU budget, a priority and a budget of cache misses, and
its tasks may run only while it is the highest server with budget left. Each
core is driven by one kernel timer and by the interrupts of a performance
counter.

This directory models the servers of a core and their queues, the jobs of the
tasks inside them, the data structures of RESCH, how processes become tasks of
servers, how tasks move between cores and change priority, and the
schedulability analysis. TLC checks the models on small instances, and TLAPS
proves nearly all of the safety that TLC checks for every instance (section 5
has the hypotheses). All paths are relative to the repository.

## 1. Inventory

| component | state | operations | talks to | what makes it correct |
|---|---|---|---|---|
| Server scheduler of a core (`memsched.c`) | the `server_t`s, `per_cpu[cpu]`: timer, ready and release queue, virtual times | `server_release_handler`, `server_complete_handler`, `memory_overflow_handler`, `deferred_memory_work` | both queues, the task lists, RESCH's active queue | the highest ready server runs, alone; periods and budgets are kept; the timer is never lost |
| Release queue (`release-queue.c`) | two bitmaps, a list per bit, `virtual_time` | init, insert, peek, retrieve | called by the handlers | each server has one node at the instant of its next release, across wrap-arounds |
| Ready queue (`ready-queue.c`) | bitmap and lists by priority | insert, get, retrieve | called by the handlers and hooks | head is the highest server |
| Task hooks (`memsched.c`) | `hsf_flags`, `resch_task_list` | `task_run`, `task_release`, `task_complete`, and the loops of the handlers | RESCH's jobs | a task runs only in its server, and is started again after every stop |
| Task life cycle (`resch.c`) | `resch_task_t`, a timer on the task's stack | `api_run`, `job_complete`, `wait_next_period`, `job_release_handler`, `job_start`, `api_exit` | the hooks, the kernel's run queue | a job starts after its release, and every released job starts |
| Active queue, global list (`resch.c`) | lists by priority, bitmap, `nr_tasks` | enqueue, dequeue, requeue, searches | jobs, priority changes, plugin | hold exactly the released jobs and the submitted tasks, in order |
| Preemption chain, tick accounting (`resch.c`) | `preempter`, `preemptee`, `exec_time` | preempt_in/out/curr/switch, update_tick | jobs, reservation | the chain is the set of preempted tasks; execution time is counted once |
| Registry (`resch.c`, `memsched.c`, `libresch.c`) | the bitmap of ids, `pid` of every descriptor and process, `prev_reg_task_pid`, `resch_task_list` | `api_init`, `api_exit`, `api_reg_task`, `api_set_server`, `api_reg_run`, `task_run`, `memsched_exit`, signals | everything | an id has one holder, a task is in the server that was asked for, no counter is left behind |
| Priority-change threads (`resch.c`) | request list of a core | `request_change_prio`, `setscheduler` | tasks and handlers | each requester is woken once its priority is changed |
| Migration and double locking (`resch.c`) | `cpu_id`, affinity masks | `migrate_task`, `job_start`, double lock | active queues | a job is in the queue of the core it runs on; no deadlock |
| Admission (`resch.c`, `libresch.c`) | parameters of a task, measured cost of a context switch | `api_set_*`, `response_time_analysis`, its version on timevals | the global list | an admitted task meets its deadline |
| EDF queue (`core/queue.c`) | heap of release nodes | insert, retrieve | not compiled | - |
| Arithmetic (`bitops.h`, `tvops.h`) | none | bit searches, timeval operations | core | right in the range in which they are used |
| Recorder (`recorder.c`) | event buffer | `store_event` | handlers | - |
| Samples, tests, `core/backup` | none of interest | workloads | - | - |

What is hard about this code: a timer handler may run late and between any two
steps of a task's system call; releases, preemptions, completions and depletions
of a core follow each other in any order, and each handler computes the virtual
time of the release queue its own way; the queue wraps every
`bitmap_size * 32` jiffies; jiffies wrap; one bit of a task, `ACTIVATE`, is
set, cleared and toggled by five pieces of code; ids, pids and lists of tasks
outlive the processes they belong to; a task that asks for a priority sleeps
until a thread of its core has changed lists that other cores use. The `hazards`
of PROJECT.json list these by line, with the property that watches each one.

## 2. Modules

```
  Timetable  <== implements ==  ReleaseQueue   FPServers   Servers
                                 |        |         ^      ^      |
                           ReadyQueue   RelPq       |      |      | instance
                                          |         implements    v
                                          +----->  ServerSched     HSF

  Ids  <== implements ==  Registry     Resch      Admission     Cores
                              |        |   |       |      |       |
                              +-Bitops-+   +-Lists-+    TvOps     |
                                               +------------------+
```

**RelPq** - the operations of `release-queue.c` as operators on a record with
the two bitmaps, the list of each bit (as a set ordered by the insertion count
`since`), the active integer, the virtual time and the element count; and
`FetchNext` and `ReleaseDue`, the sequences of retrieve, peek and insert that
each handler of `memsched.c` goes through. `INT_SIZE_BIT` is the number of bits
of an int, 32 in the program.

**ReadyQueue** - the operations of `ready-queue.c` on a record of the bitmap, the
first server of each priority and the next pointers. In ServerSched the ready
queue is the set of its members.

**ReleaseQueue, Timetable** - both queues with one client that uses them as the
handlers do, for any periods and priorities, and what the release queue
promises: the instants of the next releases, none passed by.

**ServerSched** - the servers of a core. `server_release_handler` (with its
three cases: core idle, preemption, no rescheduling), `server_complete_handler`,
`memory_overflow_handler` (`CacheMiss`, `MemoryOverflow`, `StrayMiss`) with
`deferred_memory_work`, and the clock (`Tick`). A handler is one step: it runs
in softirq or irq-work context with nothing between. Jiffies count modulo
`JIFFIES_MOD`; differences are converted to a signed int as in the code.
`timer` holds what `mod_timer` was called with. `used` and `age` are history
variables. Unloading the module is left out.

**FPServers** - what a core promises under ideal timing: periodic servers under
preemptive fixed-priority scheduling, jiffy by jiffy, for the configurations
that are `Feasible`, and nothing for the others. ServerSched gives it
`SchedulableParams`, the configurations that pass the exact test of
fixed-priority schedulability (`Schedulable`); `Total` adds budgets by counting
a set, so that the test can be reasoned about.

**Servers** - what the tasks see of a core without time: the highest ready
server runs, alone, from the first release on; releases come in batches, and the
running server completes.

**HSF** - tasks of servers. Its server part is `Servers`: the actions
`ServerRelease`, `ServerComplete`, `ServerDepleted` are a step of `Servers`
joined with the loops over tasks of the handlers (`Switch`). A task in
`api_run` or `api_wait_for_period` is at a point `pc[t]` between two effects:

| `pc` | position |
|---|---|
| `listed` | in `task_run`, in the list of its server, the flags still to be reset |
| `run` | after `task_run`, before `release_time` is set and compared |
| `enqueue` | before `job_release`, when the release time has passed |
| `complete` | in `job_complete`, before the plugin's hook |
| `dequeue` | after the hook, before `dequeue_task` |
| `release` | before `release_time` is advanced and compared |
| `wait` | before `wait_next_period` compares again and arms the timer |
| `sleep`, `asleep` | before, in `schedule()` |

`InterruptAt[t]` says at which points of `t` a handler may run. The program
allows all of them; the runs below choose sets to tell which interleavings are
safe. A handler between the store of `release_time` and the comparison is one
before the store, as all it could change is the outcome, which is left open for
the tasks in `EarlyTask` and `LateTask`. Time is
abstracted to `due[t]`, the outcome of comparing `release_time` with jiffies.
The first run of `server_release_handler` makes every listed task due
(`firstime`, `memsched.c:364-375`); a timer that is armed then goes off at its
old time in the code and at any time from then on in HSF.
`linked[t]` counts the calls of `enqueue_task` since the last `dequeue_task`.
`nr_tasks`, counted by both, is left out: only `active_tasks`, which nothing
calls, reads it. The kernel is taken not to be preemptible by tasks, and a
system call to sleep in `schedule()` only: the semaphore of the global list is taken
to be free, and `migrate_task` is in Cores.

**Resch** - the tasks of one core under `resch.c` without a plugin: the system
calls `api_init`, `api_set_priority`, `api_run`, `api_wait_for_period` and
`api_exit`, `job_release_handler`, and `job_start` of a released task that gets
the core. `active` is the active queue (lists by priority, bitmap, `nr_tasks`),
`global` the global list, `chain` the preemption chain with `current_task`, the
`exec_time`s and the jiffies `since` the last tick update. The kernel's
SCHED_FIFO scheduler is modelled beside it (`runq`, `fifo`, `OnCpu`), since what
RESCH's lists are worth depends on who gets the core. A system call is one step:
a handler in the middle only wakes tasks and appends them to the queue, which
commutes. `uses` says which priorities a task may set and what it does
that the samples do not do; `ran` is a
history variable. `active_highest_prio_task`, `active_next_prio_task`,
`active_prev_prio_task`, `active_prio_task` and `active_number_task` find tasks
with the searches of Bitops. HSF and Resch are two views of one life cycle: HSF has the
hooks, servers and interruption points, Resch the data structures.

**Bitops** - the searches of `bitops.h` on sets of bit numbers, with their masks:
`INT_BITS` is the width of the int that is shifted, `BITS_PER_LONG` that of a
word.

**Lists** - the kernel's linked lists as sequences, and the insertion into the
global list in order of priority, which Resch, Cores and Admission share.

**Registry, Ids** - the life of ids, and what the table of ids promises. A process
is a task, a manager that registers other processes, or a virtual machine that
is registered; `scenario` says which, and whether it calls `rt_init` twice, is
killed or is stopped. `pid` and the `pid`s saved in descriptors are what the code
makes of them: a managed process has an id for its pid. `attach_resch` and
`resch_task_init` are two steps, between which a process is in `starting`. The
plugin is loaded and unloaded at any time, once. `events` are the performance
counters, `asked` and `hooked` are history.

**Cores** - tasks on several cores: who runs where (`curr`, `interrupt`), the
active queue of each core and its lock, `migrate_task` and the move in
`job_start`, the affinity masks (`allowed`, `cpumask`), and the `setscheduler`
thread of each core with the list of requests, which lie on the stacks of
sleeping tasks. A section under one lock is one step; the double lock is two, so
that two cores can take the locks in different orders. The kernel's scheduler
and load balancer are actions that may do what the masks and states allow.
`list` is the queue of requests, `kpc` and `req` the state of a thread, `pc` that
of a task.

**Admission, TvOps** - the parameters of tasks from `libresch.c` through the
kernel's conversions into jiffies and microseconds, the global list, the
measured cost of a context switch, and both response-time analyses with the
overheads. TvOps is `tvops.h` but `tvdiv` and `tvle`, which nothing calls.
`asked` and `measured` are history. Its actions have the names of the calls of
`libresch.c` (`rt_set_period`, `rt_run`), and other names of Cores that mean the
same in both (`Task`, `Init`, `TypeOK`) are told apart, so that CoresProofs can
extend both.

**MCServerSched, MCReleaseQueue, MCHSF, MCResch, MCRegistry, MCCores,
MCAdmission** - instances for TLC.

**Facts, RelPqProofs, ReleaseQueueProofs, ServerSchedProofs, HSFProofs,
ReschProofs, CoresProofs, RegistryProofs** - theorems, section 5.

## 3. Runs

| run | instance | shows |
|---|---|---|
| `sched` | 3 servers, periods 2, 3, 5: every schedulable choice of periods and budgets, and the overloaded ones of periods 3 and 5; an int of 2 bits so that the queue has several integers | the handlers implement `FPServers` exactly, and go on forever (`ServedForever`), where the demand is feasible; in all of them the queue is exact and releases do not drift; types |
| `late` | 2 servers, softirqs up to a jiffy late | no early release, budgets exceeded by 2 jiffies at most; implements `Servers` |
| `memory` | 2 servers, memory throttling compiled in | misses at every moment: no server runs without memory budget, none is lost, the head runs alone and the timer stays armed |
| `single` | the one server of the default experiment, throttling and stray tasks | the queue stays exact |
| `release_queue` | 3 nodes, periods 2 and 5, 3-bit ints, priorities shared or not | the release queue implements `Timetable`; both queues stay intact, and the ready queue holds what it should, also when a ready server is inserted again |
| `hsf_servers` | 2 servers in both orders of priority, the task of one late, the other early, waiting for events and exiting, depletion, all points but `wait`, and `listed` of the early task | jobs run only inside their servers; no task in time sleeps without something that will wake it |
| `hsf_jobs` | 2 tasks, points `complete` and `sleep`, jobs end in time | active queue exact, no early start, every job starts in the end |
| `resch_jobs` | 3 tasks, 3 priorities, one task with an unusual use, or none | active queue and global list exact, its searches right, RESCH and the kernel agree on who is first; for the sample use, the chain is exact and no jiffy is lost |
| `registry` | 3 processes as tasks that nest and are killed, as a manager with two machines, or mixed; 2 ids, 2 servers, 2 runs | an id has one holder and is given back last first, also with the table full; a task is in the list of the server asked for; the unload releases every counter once |
| `cores` | 2 tasks on 2 cores, one of which moves, 2 priorities | a job is in the queue of its core only and runs there; requests are served once, before the task goes on, and every one is served; no deadlock |
| `admission` | 3 tasks, 2 on one priority, 2 periods, 3 execution times, all orders of calls | a response time within the deadline means that the deadline is met by the exact test, although the analysis looks at one window only and everything is converted; both analyses agree; the cost of a switch is the longest measured |

The assumption `BitSearches` of MCResch, which TLC evaluates in `resch_jobs`,
says for all bitmaps of two words where the searches of `bitops.h` are right.

The run `registry_lists` ends in a violation: the code does something else than
a comment of the repository says. It is the `finding` of PROJECT.json:
`resch_task_list` has room for a "maximum nr of tasks per server"
(`memsched.c:106`), but `task_run` appends every task that ever runs, and nothing
takes one out, so that tasks that come and leave one after the other write past
the end.

The passing runs leave out the following situations on purpose. Each is reached
by changing the named constant of an instance, and each breaks the property
named with it:

- `Feasible <- ServerParams` in ServerSched, `ImplementsFPServers` in `sched`:
  under overload, a server released while it runs keeps its old expiration time
  (`memsched.c:654-690`) and loses the refilled budget.
- `USE_MEMSCHEDx = FALSE` in `memory`, `MemBudgetEnforced`, which is how the
  repository is built: the code that stops a server with an empty memory budget
  is compiled under `USE_MEMSCHEDx` (`memsched.c:1309`), which nothing defines,
  while README.txt:172-173 says that the server is stopped.
- two servers with throttling and stray tasks (`single` with a second server),
  `CoreAlive`: a miss of a task that runs outside its server
  (`memsched.c:1304-1310`) takes the running server out of the ready queue, and
  its end of budget finds the wrong server and arms no timer.
- `InterruptAt` of the early task with `"listed"` in `hsf_servers`, `NoTaskLost`:
  `server_release_handler` preempts the server between `memsched.c:1385` and
  1399, finds the task in the list, sets `ACTIVATE` and dequeues it (571-575);
  1399 clears `ACTIVATE`, and since the release time has passed `api_run` arms no
  timer (`resch.c:2251`). On its way to user mode the task goes to sleep with
  neither mark nor timer, and no start of its server wakes it. A task that
  is not ready before the servers (README.txt:15) goes on to arm a timer.
- `InterruptAt` with `"listed"` or `"run"` in `hsf_jobs`, `ActiveQueueExact`: a
  server that is stopped and started there links the task, which then sleeps until
  its first release; with `"run"` `ReleasedBeforeStart` too, as the mark of that
  stop is not reset and the next start wakes the task.
- `EarlyTask` in `hsf_jobs`, `ReleasedBeforeStart`: as for `LateTask` below, the
  job that starts at once has no mark for the hook to toggle.
- `InterruptAt` with `"wait"` in `hsf_servers`, `TaskRunsInServer`: a jiffy
  passes between the two comparisons with `release_time` (`resch.c:1343, 1217`);
  no timer is armed, and the job starts outside its server.
- `InterruptAt` with `"dequeue"` in `hsf_jobs`, `ReleasedBeforeStart`: a server
  is stopped between the hook and `dequeue_task`; its stop marks the task
  (`memsched.c:574`) and its next start wakes the task before its release.
- `NoTaskLost` asked of late tasks too: a server is stopped between
  `api_wait_for_period` and the hook, the hook's toggle clears the mark
  (`memsched.c:328`), and the task, whose release time has passed, sleeps with
  neither mark nor timer.
- `WaitsForNewPeriod` in `memory`: `deferred_memory_work` wraps the virtual time
  only when the core goes idle (`memsched.c:1194-1198`); when it starts another
  server (1273) the virtual time stays beyond the round, the next release
  handler computes a negative distance (425), and a server is released a jiffy
  before its period is over.
- `ExitingTask` in `hsf_jobs`, `ActiveQueueExact`: `api_exit` removes the task
  from the active queue (`resch.c:1965`), but it stays in `resch_task_list` with
  `ACTIVATE` set, and the next start of its server links it again
  (`memsched.c:909-916`).
- `ChainExact` or `NoJiffyLost` in `resch_jobs` without `AllUse({})`: each of
  the unusual uses breaks both. A task that exits before its first job
  overwrites `current_task` with NULL (`resch.c:502`, called at 1950); while a
  job sleeps, a lower one starts and is left out of the chain (475), and its end
  sets `current_task` to NULL; a task that is not SCHED_FIFO shares the core with
  jobs of its priority; and `preempt_in` (551) relies on a neighbour in the queue
  that may not have started.
- `LateTask` in `hsf_jobs`, `ReleasedBeforeStart`: `task_complete` toggles
  `ACTIVATE` (`memsched.c:328`), which a job that started at once, since its
  release time had passed, never had set; the next start of its server wakes the
  task, and its job starts before its release (resch.c:1197, 1261 say it has
  been released).
- the start of a server also wakes a marked task that waits for an event
  (`memsched.c:912-915`).
- `"prio_in_job"` in `resch_jobs`, `HighestHasCore` unguarded: `change_prio`
  sets `prio_index` before the dequeue (`resch.c:897`), the bit of the emptied
  list stays set, and `active_highest_prio_task` returns the head of an empty
  list (against the comment at 1568).
- `Movers = {t1, t2}` in `cores`, deadlock: each task holds the lock of its core
  and waits for that of the other (`resch.c:1788-1792`).
- `PREEMPT = TRUE` in `cores`, `RequestServed`: the thread serves the request
  before the task has set its state (`resch.c:370-375`), and the task sleeps
  for ever.
- `WakeAnywhere = TRUE` in `cores`, `QueueOfCpu`: a task woken on another core
  runs, moves its entry and starts its job before the handler enqueues it
  (`resch.c:1175-1176`).
- 3 tasks and 3 priorities in `cores`, order of the global list: `rt->prio` is
  set before the semaphore is taken (`resch.c:896-902`), and two changes on two
  cores leave the list unsorted.
- `"stop"` of a task in `registry`, `ImplementsIds`: an attach that finds the
  table full frees the ids of stopped tasks (`resch.c:923`; the comment says
  dead), and the next one has a second holder.
- tasks next to a manager, or two managers, `AskedServer`: `rt_set_server` of
  a task while another process is being registered gives the server to that one
  (`resch.c:1995-2020`).
- a descriptor that is in the lists twice, after its id was used again,
  `EventsReleased`: the counter of the first task is leaked and that of the
  second one is released twice (`memsched.c:1583-1597`).
- a failed creation of a counter leaves `event` NULL, and the unload stops at
  `BUG_ON`; in Registry `memsched_exit` is then not taken.

## 4. Bounds and fairness

*Server runs.* Periods are 2 to 5 jiffies and budgets 1 to 4. With ints of 2 or
4 bits a round of the queue is as short as the periods, so that it wraps every
few releases, several servers are due together, and every relation of two
periods (divisor, coprime, equal) occurs. `JIFFIES_MOD = 16` makes the clock
wrap. `SchedulableConfigs` is the set of the configurations that are
`Schedulable`. `MaxLate` is the number of jiffies a softirq may
wait; `MaxOverdraw` bounds the cache misses counted when nobody enforces the
budget. `RelPq` renumbers insertion counts, which keeps the state space finite.

*Task runs.* `MaxLinks = 2` bounds how often a task is linked; twice is already
the corruption that `ActiveQueueExact` denies. Two servers
are enough for a switch. One task in each is enough for what is claimed: the
loops treat the tasks of a server one by one, and no property relates two tasks.
Three tasks on three priorities give, in `resch_jobs`, a chain with a neighbour
on both sides as well as two tasks of one priority. In the sample use every task
may set any priority before it runs; next to an unusual `t1` the others have one
priority each, which differ, one of them the lowest, so that `t1` is level with
either, between them or above both. The set of uses is closed under
permutations of `t2` and `t3`, so these are symmetric; the run checks no
liveness. `MaxExec = 1` jiffy
is charged to a job at most: a lost update loses the first one already.

*Bit searches.* `BITS_PER_LONG = 6` and `INT_BITS = 3` are the widths 64 and 32
in small: an int is half a word, as on a 64-bit machine. With an int as wide as
a word TLC finds `BitSearches` false: the shift does not wrap, and `resch_fps`
from an index in the lower half finds nothing (`bitops.h:194`). `resch_fns` from
the first bit of a later word looks at the word before, and shifts by the width
of an int or more wrap, as on x86. So searches from a task find the next one of
a lower priority only while the priorities used are in the lower half of a word,
which `SearchesExact` says; `resch_fnz` and `resch_fpz` count masked bits as
zeros, and nothing calls them.

*Registry.* Two ids for three processes make the table full; a word of two bits
is the whole bitmap (`NR_RT_TASKS` is a multiple of 64 in the program). A task
calls `rt_run` once for each `rt_init`, a virtual machine is registered once, and
the plugin is loaded and unloaded once. Two runs of tasks reach two entries in
one list and one in each.

*Cores.* Two tasks and two cores are enough for a request next to a move, and for
requests of both tasks on one core or two. Two priorities keep the list of
requests honest; the order of the tasks in an active queue is that of Resch and
is not claimed again. One task moves (section 3).

*Admission.* A second is four microseconds, a millisecond two, so that every
conversion truncates or carries and periods, deadlines and execution times lie on
both sides of a second. `HZ = MSEC_1SEC` is CONFIG_HZ_1000, which
README.txt:40 of the repository asks for. Parameters are set before `rt_run`, as
in the samples; the overhead is measured before there are tasks; all tasks are
on one core. `AnalysisSound` asks for an execution time and for a deadline within
the period. A task without an execution time is accepted even if it
misses, a period of zero divides by zero, and a second `rt_set_period` leaves the
first period as the deadline (`resch.c:2143`). An execution time of a second or
more is not carried by `tvus`, which makes the version on timevals pessimistic
only. The difference of ticks and jobs in `sched_overhead_cpu` (1890) wraps
below zero; the huge result rejects the task. `ULONG_MOD` is large enough for
the other sums.

*Fairness.* In `ServerSched` the clock ticks (`WF(Tick)`) and a pending softirq
is run (`[]<>~SoftirqPending`): the kernel delays softirqs but does not drop
them. In `HSF` a task that can go on again and again does, and so do the
release time and its timer (`SF`), since the kernel's clock and run queue are
fair to the tasks of a running server. Each server is assumed to be stopped
again and again and to run again and again at a moment when no task is in the
kernel: that is what a schedulable set of servers gives. Liveness is not claimed
where a server starves.

In `Cores` a task goes on with a system call, a handler ends, a thread
serves its list, and a core takes what is ready (`WF` each); tasks need not make
system calls.

*Stopping.* Every run checks for deadlock but those of Registry, where all the
processes may have left and the plugin may be gone. A core never stops.

## 5. Theorems

All are for every set of servers and tasks, every set of arguments of
`init_server`, every size of an int and any delay of the timer. The assumptions
are the named ASSUMEs of the modules: finite nonempty set of servers, positive
periods and budgets, distinct priorities on a core (true of every configuration
in `memsched_init`).

*Release queue* (RelPqProofs). `Sound(q)`: typed, each bit is set exactly when
its list has a node, a node is in one list at most, and the count is right.
Insert, search, unlink and retrieve keep a queue sound (`InsertAllSound`,
`UnlinkSound`), and a search in a queue with a node stops after two shifts at
most (`SearchStops`): the loop `while` of `relPq_retrieve` ends.

*Server scheduler* (ServerSchedProofs). The inductive invariant has three parts.
`TypeInv`: types, and the release queue is sound and holds every server; it
gives `TypeCorrect` and `NoServerLost`. The queue part is needed for the types,
since a retrieve from an empty queue gives no server. `HeadInv`: the server with
`running` set is the head, the timer is armed, a completion timer is armed for
the head, and before the first release exactly the highest server is missing
from the ready queue; it gives `RunningServerIsHead` and `CoreStaysAlive`. The
heart is `ReleasedServerProperty`: the code compares one released server of a
batch with the old head, and that is enough to find the head of both. `MemInv`:
a ready server has memory budget; with `HeadInv` it gives `MemoryThrottled`.
The last three assume that no task misses outside its server while throttled
(`NoStrayMiss`): section 3 says what a stray miss does.

*Refinement* (ServerSchedProofs). `ServersImplemented`: every step of a
handler is a step of `Servers` or a stutter, so what is proved of the tasks over
`Servers` holds over the handlers.

*Servers in time* (ServerSchedProofs). They assume `Measurable`: throttling is
not compiled in (it breaks the exactness, section 3), and a period plus
`(n + 1) * MaxLate` for `n` servers, and a budget plus `3 * MaxLate`, are less
than half the range of jiffies, which is how `time_after` of the kernel wants
them (24 days on a 32-bit machine at 1000 Hz). The runs `sched` and `late`
satisfy it. However late the softirqs are, no server is released before its
period is over (`NewPeriodAwaited`) and none runs longer than its budget and
`2 * MaxLate` between two releases (`BudgetRespected`). If they are on time,
`MaxLate = 0`, the release queue has each server at the instant one period after
its last release (`ReleasesExact`), and a server is released exactly then, by
whichever handler finds it due (`ReleasesOnPeriod`); late ones move the
releases. The invariant `TimeInv` relates the timer, the virtual time and the
ages of the servers. What is in a list of the queue is due at the distance from
the virtual time that `Timed` reads, nothing is behind the integer where the
search starts (`Ahead`), and a server comes up `Rest` jiffies after its distance,
`Rest` being what is left on the timer, less than zero when it is late
(`Clock`): never before its period is over. A late completion adds its delay to
the distances, but the server that completes is not ready again until its next
release, so that at most `n` such delays add up (`Lag`); this is where the bound
of `Measurable` comes from. The running server has its budget less what it ran,
which a late softirq takes below zero, and the timer comes at most `MaxLate`
after the end of a budget (`Served`, `TimerServes`). The lemmas on the queue are
in RelPqProofs: what a search finds is due first, what is put back a period
ahead is in the right bitmap (`ReleaseDueFirst`).

*Periodic servers* (ServerSchedProofs), with softirqs on time. `PeriodicServers`:
the handlers implement `FPServers`, for any number of servers, periods, budgets
and width of jiffies: at every jiffy the server that fixed priorities say runs,
with the budget they say. A step of a handler releases what is due, with the
running server charged for what it ran (`ServedExactly`: what it ran and what is
left make up its budget when it started); a jiffy serves the head. This fails
for a server that is due while it runs (section 3), so that the refinement needs
`NoOverrun`: what is due has used its budget up. `NeverOverruns` says that this
follows from the exact test. It is the theorem of the critical instant: the test
looks at the first period after a common release only, and covers every period
of every other pattern of releases. The invariant `LevelInv` has, for each
server, the number `e` of jiffies since it and those above it were last without
budget; what these still ask for in the next `t` jiffies, and `e`, are together
at most what they ask for in `t + e` jiffies from a common release (`Busy`). A
jiffy serves one unit of the demand and adds one to `e`, or leaves the level
idle (`ServeBusy`); a release trades a future release for budget
(`ReleaseBusy`). If the test holds at `t`, the demand of the level is used up
before `e` reaches `t`, so `e` stays below the period.

*Queues under their client* (ReleaseQueueProofs). `TimetableImplemented`: the
release queue, driven by retrieve, peek and insert in the order in which the
handlers call them, implements the table of instants of `Timetable`, for any
nodes, periods and size of an int. `QueueWellFormed`: each node is in the queue
once. The invariant says that the queue reads as `Due`, and that the distance to
the next node which the last call returned is the least (`Tells`).

*Tasks* (HSFProofs). `TypeCorrect`, and `TasksRunInServers`: a task runs its
jobs only while its server runs. `TaskRunsInServer` is not inductive: a task
comes out of a system call or a wake-up already running. The invariant adds the
task in the system call and after the wake-up (`RunsInServer`), that the running
server is the one `task_release` looks for, except before the first release when
all first releases are still to be prevented (`HighestRuns`), and that a task
about to arm its timer has its release ahead (`WaitsAhead`). It speaks of the
`Orderly` tasks: those not ready before the servers (README.txt:15 of the
repository asks for it), and that do not sleep in a job (woken by its event,
such a task runs whatever its server does). The one assumption is `NoTickInWait`:
no handler and no jiffy between the two comparisons (section 3 says why).

`NoTaskIsLost` assumes that, and `MarksKept`: no handler runs while a task that is
ready before the servers is at `listed` (section 3). Tasks that end a job late are
not claimed. A task on its way to `schedule()` has an armed timer until it is
marked, and a task stopped in a job stays marked, as does one that starts early
and was stopped after its flags were reset (`WillWake`). `ActiveQueue` and `NoEarlyStart` hold for
`JobsInTime`: handlers come before the hook or before `schedule()` only, and no
task is late, early, asleep in a job or gone; section 3 has a counterexample for
each. `ActiveQueueExact` is inductive only with `MarkExact`: `ACTIVATE` is set
exactly from the release of a job to its end, and an armed timer means that
nothing else may wake the task.

*Data structures of RESCH* (ReschProofs), for any number of tasks and priorities
and any mix of uses. `QueueInv` (types, the jobs in their lists, the bits) gives
`TypeCorrect` and `QueueExact`; the types need the contents of the lists, since
`nr_tasks` would go below zero otherwise. `GlobalInv` adds the global list, as a
sorted list of distinct tasks, for `GlobalExact`; a task whose priority changes
is out of order only inside the step that moves it. `ReadyInv` adds that a
released job of a SCHED_FIFO task is in the kernel's run queue, once, for
`HighestRuns`. `ChainInv` adds, for tasks used as in the samples, that each
started job is linked with the next lower one (`Linked`), that the charged and
the uncharged jiffies cover what it ran (`Paid`), and that in the run queue a
started job is before the other tasks of its priority (`Ordered`):
`ChainFollowsPriorities` and `JiffiesCharged`. `Ordered` is what the code relies
on without saying so: a job that starts is put on top of the chain, and only the
order in which the kernel runs tasks makes it higher than all that were there.

*Several cores* (CoresProofs), for any tasks, cores and priorities.
`TypeCorrect`, and `RequestsExact`, with the kernel preemptible or not: a request
is in one list or with one thread, and its task is at the point of its call that
belongs to that. `QueuesOfCpus` needs `~WakeAnywhere` (section 3): the invariant
adds what handlers and threads hold in their hands (`Handlers`) and that the
masks pin a job to its core (`Pinned`).

*Registry* (RegistryProofs), for any processes, ids and servers. `TypeCorrect`
and `EventsAreReleased` hold in every scenario. `IdsImplemented` and
`ServersAsAsked` assume `NoTaskStops`, that only managers are stopped by SIGSTOP
(section 3). The heart is that the pids saved in descriptors form, for every
process, one chain of ids that ends with its own pid, and that the chains of two
processes share no id (`Holds`); `Ids` is implemented with these chains as the
ids that a process holds.

*Ready queue* (ReleaseQueueProofs). `QueuesIntact` states both halves of
`QueuesExact`. What a list of the ready queue holds is found by following its
next pointers. The invariant `Links` says of the sequence of ready servers, in
the order in which they became ready, that the bitmap and the first entry of each
priority name the first server of that priority, and that the next pointer of a
server names the next one of its priority after it. It survives the insertion of
a server that is ready already (section 3) because that server is alone with its
priority then; one with others behind it in its list would cut them off.

*Searches in the active queue* (ReschProofs). `SearchesFollowOrder` assumes that
an int is half a word. The lists put one after the other are laid out by offsets
(`Laid`): that of a bit begins where the lists of the lower bits end. A search
from a task or a bit finds the next or the previous bit with a list
(`NextBit`, `PreviousBit`), whose first or last task is the neighbour in the
sequence, and `active_number_task` subtracts the lengths of the lists on its way.
The invariant is `QueueInv`: nothing else is needed, but the claim is for queues
whose tasks are in the lower half of the first word, as `SearchesExact` says.

*Admission* (CoresProofs), for any tasks and times that they pass. The invariant
is of five parts. `Listing` and `Kept`: types, and the global list has each
submitted task once, sorted; `Measured`: the cost of a switch is the longest one
measured. They give `AdmissionTypeCorrect` and `LongestSwitchKept`. `NotMore`: a
period or deadline that is kept is never longer than the one that was asked for;
`Within`: nor is it longer than the longest one that any task passes.

`AnalysisTrusted` states `AnalysisSound` from these. A window as long as the
deadline may contain less demand of a task than the exact test counts, since the
analysis asks for a job that does not fit in part only (`AsksForLess`). If every
last job fits, the deadline itself passes the exact test. Otherwise the window
passes that ends, the earliest of them, where the last whole period of a task
ends whose next job does not fit (`Witnessed`): the time after it is what the
analysis asks for that job, and no task asks for more in the shorter window. The
two context switches that the exact test charges for each job are covered by
`sched_overhead_cpu` and `sched_overhead_task`. `AnalysesAgreeAlways` follows
both analyses through the list, and the operations of `tvops.h` through every
carry and borrow. Sums, differences and products are right for any operands; the
comparison is wrong only for a second operand with a second or more in its
microseconds, which it may take for less than it is (`tvge`).

The hypotheses: `HZ = MSEC_1SEC`, a tick of 1 ms, as README.txt:40 of the
repository asks for; and for `AnalysisTrusted` also that the tasks are finitely
many and that no sum exceeds an unsigned long (`Fits`, for the longest deadline
`d` and execution time `c` that are passed), since the response time is undefined
then, as the comment at `resch.c:1474-1478` says. `Fits` is sufficient and not
necessary: it holds for 100 tasks with deadlines of 1000 s and execution times
of 1000 s if a long has 64 bits.

*Facts*. Division, products, minima and maxima of natural numbers; what the
operations of Lists leave in a list, in which order, and that a sorted list stays
sorted; sums over lists. Recursive functions are reasoned about through `UpTo`,
which replaces induction: a set of numbers that has 0, and with each number below
`n` the next one, has all up to `n`, since it has no least counterexample
otherwise. With `Iterated`, a function that is defined recursively over `0 .. n`
exists and takes its values where it should.

Model-checked only:

- `ReleaseQueueExact` of one server with throttling, where a depletion moves the
  virtual time as well.
- `BitSearches`, the searches of `bitops.h` over two words.
- Liveness: `JobServed`, `RequestServed`, and `ServedForever`, which adds the
  fairness of `FPServers` to what `PeriodicServers` proves.

## 6. Not modelled

Left out for good: samples, benchmarks and `core/backup` (no state of the
scheduler), the recorder and other trace output (nothing in the scheduler reads
it; `store_event` is not atomic, and concurrent callers tear events), `/proc`
and ioctl plumbing, and the EDF queue, which is not compiled.

Left out of the modules above: resource reservation (its handler queues a request
that lies on a dead stack frame, and never clears `reserved`), deadline-miss
counting, tasks without a period, the walks over the global list, the loops of
`memsched_init` over cores (it returns success, half done, for a core without a
server), and the return values that the library takes for success.
