------------------------------ MODULE Registry ------------------------------
(***************************************************************************)
(* How processes become tasks of RESCH and of a server, and stop being so: *)
(* the table of RESCH ids and descriptors of core/resch.c, the calls of    *)
(* the user library (libresch.c) that change it, the registration of a     *)
(* virtual machine by another process, and the lists of tasks and of       *)
(* counter events that the plugin keeps from its load to its unload.       *)
(*                                                                         *)
(* task_struct.pid is the process itself as long as it has no RESCH id,    *)
(* and then the id.  A system call is one step but for the start of a      *)
(* task, which gives up go.pids.lock before it fills the descriptor.       *)
(***************************************************************************)
EXTENDS Bitops, Sequences

CONSTANTS
  Process,
  None,                       \* NULL
  NR_RT_TASKS,
  NR_OF_SERVERS,
  MAX_NR_OF_TASKS_IN_SERVER,
  Scenarios,                  \* the roles and doings of the processes to explore
  MaxRuns                     \* bound: the calls of task_run

\* A task calls RESCH for itself.  A manager registers virtual machines, which
\* do not call RESCH.
Roles == {"task", "manager", "vm"}

\* The programs that use the library, as the samples do: rt_set_server only as a
\* task, rt_run once for each rt_init; a manager calls rt_reg_task, rt_set_server
\* and rt_reg_run in this order, once for each virtual machine.

\* What a process may do besides rt_init, rt_set_server, rt_run and rt_exit:
\*   "nest"    call rt_init again before rt_exit
\*   "killed"  be killed by SIGKILL, without rt_exit
\*   "stop"    be stopped by SIGSTOP
Doings == {"nest", "killed", "stop"}

ASSUME RegistryAssumption ==
  /\ None \notin Process
  /\ NR_RT_TASKS \in Nat \ {0} /\ NR_RT_TASKS % BITS_PER_LONG = 0
  /\ (Process \cup {None}) \cap (0 .. NR_RT_TASKS - 1) = {}  \* PID_OFFSET
  /\ NR_OF_SERVERS \in Nat \ {0}
  /\ MAX_NR_OF_TASKS_IN_SERVER \in Nat
  /\ MaxRuns \in Nat
  /\ Scenarios \subseteq [Process -> [role : Roles, does : SUBSET Doings]]

Rid == 0 .. NR_RT_TASKS - 1
PID_MAP_LONG == BITS_TO_LONGS(NR_RT_TASKS)
Server == 0 .. NR_OF_SERVERS - 1

VARIABLES
  scenario,           \* one of Scenarios; never changes
  pids,               \* go.pids.bitmap
  resch_task,         \* task, pid, server_id, submitted and event of each id
  pid,                \* task_struct.pid of each process
  state,              \* task_struct.state: "running", "stopped" or "dead"
  starting,           \* the processes between attach_resch and the initialisation
                      \* of their descriptor
  prev_reg_task_pid,  \* None is 0
  vm,                 \* the virtual machine that each manager is registering
  plugin,             \* is the plugin "unloaded", "loaded" or "gone" again?
  SERVERS,            \* resch_task_list[0 .. nr_of_tasks - 1] of each server
  events,             \* the counter events: how many were created, which ones
                      \* live, and which ones were released once they did not
  asked,              \* history: the server asked for by or for each process
  hooked              \* history: the processes whose task_run reached the plugin

vars == <<scenario, pids, resch_task, pid, state, starting, prev_reg_task_pid,
          vm, plugin, SERVERS, events, asked, hooked>>

task_is_managed(p) == pid[p] \in Rid
is(p, role) == scenario[p].role = role
may(p, doing) == doing \in scenario[p].does

\* Process p is in user mode and may make a system call or take a signal.
InUserMode(p) == state[p] = "running" /\ p \notin starting

Init ==
  /\ scenario \in Scenarios
  /\ pids = {}
  /\ resch_task = [r \in Rid |-> [task |-> None, pid |-> None, server_id |-> 0,
                                  submitted |-> FALSE, event |-> None]]
  /\ pid = [p \in Process |-> p]
  /\ state = [p \in Process |-> "running"]
  /\ starting = {}
  /\ prev_reg_task_pid = None
  /\ vm = [p \in Process |-> None]
  /\ plugin = "unloaded"
  /\ SERVERS = [s \in Server |-> <<>>]
  /\ events = [created |-> 0, live |-> {}, twice |-> {}]
  /\ asked = [p \in Process |-> None]
  /\ hooked = {}

----------------------------------------------------------------------------
(* The ids.                                                                *)

\* Every id is given away: those of the tasks that are stopped are free again.
clear_dead_tasks ==
  pids \ {r \in Rid : resch_task[r].task # None
                      /\ state[resch_task[r].task] = "stopped"}

\* Process p gets the first free id and is about to get its descriptor.
attach_resch(p) ==
  LET r == resch_ffz(pids, PID_MAP_LONG)
  IN  IF r < 0
      THEN pids' = clear_dead_tasks /\ UNCHANGED <<resch_task, pid, starting>>
      ELSE /\ pids' = pids \cup {r}
           /\ resch_task' = [resch_task EXCEPT ![r].pid = pid[p]]
           /\ pid' = [pid EXCEPT ![p] = r]
           /\ starting' = starting \cup {p}

\* The descriptor is initialised, but for server_id, event and the flags.
resch_task_init(p) ==
  /\ resch_task' = [resch_task EXCEPT ![pid[p]].task = p,
                                      ![pid[p]].submitted = FALSE]
  /\ starting' = starting \ {p}

\* The histories of what p asked for with its last id.
Forget(p) == asked' = [asked EXCEPT ![p] = None] /\ hooked' = hooked \ {p}

\* rt_init: the process holds no id, or one more.
api_init(p) ==
  /\ InUserMode(p)
  /\ is(p, "task")
  /\ task_is_managed(p) => may(p, "nest")
  /\ attach_resch(p)
  /\ Forget(p)
  /\ UNCHANGED <<scenario, state, prev_reg_task_pid, vm, plugin, SERVERS,
                 events>>

api_init_done(p) ==
  /\ is(p, "task") /\ p \in starting
  /\ resch_task_init(p)
  /\ UNCHANGED <<scenario, pids, pid, state, prev_reg_task_pid, vm, plugin,
                 SERVERS, events, asked, hooked>>

\* Mutant: the process gets back its first pid, not the one before this id.
detach_to_first(p) == pids' = pids \ {pid[p]} /\ pid' = [pid EXCEPT ![p] = p]

\* The id is free and the process has the pid that it had before.
detach_resch(p) ==
  /\ pids' = pids \ {pid[p]}
  /\ pid' = [pid EXCEPT ![p] = resch_task[@].pid]

\* rt_exit.  The lists of the plugin keep the task.
api_exit(p) ==
  /\ InUserMode(p)
  /\ is(p, "task") /\ task_is_managed(p)
  /\ detach_resch(p)
  /\ Forget(p)
  /\ UNCHANGED <<scenario, resch_task, state, starting, prev_reg_task_pid, vm,
                 plugin, SERVERS, events>>

\* SIGINT or SIGTERM: kill_handler gives back one id, if there is any.
kill_handler(p) ==
  /\ InUserMode(p)
  /\ is(p, "task")
  /\ IF task_is_managed(p) THEN detach_resch(p) ELSE UNCHANGED <<pids, pid>>
  /\ state' = [state EXCEPT ![p] = "dead"]
  /\ Forget(p)
  /\ UNCHANGED <<scenario, resch_task, starting, prev_reg_task_pid, vm,
                 plugin, SERVERS, events>>

\* SIGKILL, SIGSTOP and SIGCONT.
Signal(p) ==
  /\ p \notin starting
  /\ \/ /\ may(p, "killed") /\ state[p] # "dead"
        /\ state' = [state EXCEPT ![p] = "dead"]
     \/ /\ may(p, "stop") /\ state[p] # "dead"
        /\ state' = [state EXCEPT ![p] = IF @ = "stopped" THEN "running"
                                                          ELSE "stopped"]
  /\ UNCHANGED <<scenario, pids, resch_task, pid, starting, prev_reg_task_pid,
                 vm, plugin, SERVERS, events, asked, hooked>>

----------------------------------------------------------------------------
(* The server of a task, and its start.                                    *)

\* Mutant: the caller's own descriptor, whoever is being registered.
set_own_server(r, server_id, p) ==
  resch_task' = IF r = pid[p] THEN [resch_task EXCEPT ![r].server_id = server_id]
                              ELSE resch_task

set_server(r, server_id, p) ==
  resch_task' = [resch_task EXCEPT ![r].server_id = server_id]

\* rt_set_server by a task, or by a manager for its virtual machine.  The last
\* registered one gets the server, as long as there is one, whoever calls.
api_set_server(p, server_id) ==
  LET r == IF prev_reg_task_pid # None THEN prev_reg_task_pid ELSE pid[p]
      q == IF is(p, "task") THEN p ELSE vm[p]
  IN  /\ InUserMode(p)
      /\ \/ is(p, "task") /\ task_is_managed(p) /\ ~resch_task[pid[p]].submitted
         \/ is(p, "manager") /\ vm[p] # None /\ prev_reg_task_pid # None
      /\ q \notin starting
      /\ set_server(r, server_id, p)
      /\ asked' = [asked EXCEPT ![q] = server_id]
      /\ UNCHANGED <<scenario, pids, pid, state, starting, prev_reg_task_pid, vm,
                     plugin, SERVERS, events, hooked>>

\* rt_reg_task: the manager attaches a process that lives.
api_reg_task(m, v) ==
  /\ InUserMode(m)
  /\ is(m, "manager") /\ vm[m] = None
  /\ is(v, "vm") /\ state[v] # "dead" /\ ~task_is_managed(v)
  /\ attach_resch(v)
  /\ vm' = [vm EXCEPT ![m] = IF v \in starting' THEN v ELSE None]
  /\ UNCHANGED <<scenario, state, prev_reg_task_pid, plugin, SERVERS, events,
                 asked, hooked>>

api_reg_task_done(m) ==
  /\ is(m, "manager") /\ vm[m] \in starting
  /\ prev_reg_task_pid' = pid[vm[m]]
  /\ resch_task_init(vm[m])
  /\ UNCHANGED <<scenario, pids, pid, state, vm, plugin, SERVERS, events, asked,
                 hooked>>

\* The hook task_run: the task gets into the list of its server and gets a
\* counter event, unless there is no counter left.
task_run(r) ==
  LET e == events.created + 1
  IN  /\ e <= MaxRuns
      /\ SERVERS' = [SERVERS EXCEPT ![resch_task[r].server_id] = Append(@, r)]
      /\ \/ /\ events' = [events EXCEPT !.created = e, !.live = @ \cup {e}]
            /\ resch_task' = [resch_task EXCEPT ![r].submitted = TRUE,
                                                ![r].event = e]
         \/ /\ events' = [events EXCEPT !.created = e]
            /\ resch_task' = [resch_task EXCEPT ![r].submitted = TRUE,
                                                ![r].event = None]
      /\ hooked' = hooked \cup {resch_task[r].task}

\* resch_plugins.task_run and the insertion into the global list.
RunTask(r) ==
  IF plugin = "loaded" THEN task_run(r)
  ELSE /\ resch_task' = [resch_task EXCEPT ![r].submitted = TRUE]
       /\ UNCHANGED <<SERVERS, events, hooked>>

\* rt_run.
api_run(p) ==
  /\ InUserMode(p)
  /\ is(p, "task") /\ task_is_managed(p) /\ ~resch_task[pid[p]].submitted
  /\ RunTask(pid[p])
  /\ UNCHANGED <<scenario, pids, pid, state, starting, prev_reg_task_pid, vm,
                 plugin, asked>>

\* rt_reg_run.
api_reg_run(m) ==
  /\ InUserMode(m)
  /\ is(m, "manager") /\ vm[m] # None /\ vm[m] \notin starting
  /\ prev_reg_task_pid # None
  /\ RunTask(prev_reg_task_pid)
  /\ prev_reg_task_pid' = None
  /\ vm' = [vm EXCEPT ![m] = None]
  /\ UNCHANGED <<scenario, pids, pid, state, starting, plugin, asked>>

----------------------------------------------------------------------------
(* Loading and unloading the plugin, once.                                 *)

memsched_init ==
  /\ plugin = "unloaded"
  /\ plugin' = "loaded"
  /\ SERVERS' = [s \in Server |-> <<>>]
  /\ UNCHANGED <<scenario, pids, resch_task, pid, state, starting,
                 prev_reg_task_pid, vm, events, asked, hooked>>

\* The entries of all lists, and those that memsched_exit visits.
Entries == {<<s, j>> : s \in Server, j \in 1 .. MaxRuns}
EventOf(e) == resch_task[SERVERS[e[1]][e[2]]].event

\* Mutant: the last entry of every list is left out.
all_but_last == {e \in Entries : e[2] < Len(SERVERS[e[1]])}

Visited == {e \in Entries : e[2] <= Len(SERVERS[e[1]])}

\* BUG_ON: every entry must have an event.
memsched_exit ==
  /\ plugin = "loaded"
  /\ \A e \in Visited : EventOf(e) # None
  /\ plugin' = "gone"
  /\ events' = [events EXCEPT
       !.live  = @ \ {EventOf(e) : e \in Visited},
       !.twice = {EventOf(e) : e \in
                   {f \in Visited : \E g \in Visited \ {f} : EventOf(g) = EventOf(f)}}]
  /\ hooked' = {}
  /\ UNCHANGED <<scenario, pids, resch_task, pid, state, starting,
                 prev_reg_task_pid, vm, SERVERS, asked>>

Next ==
  \/ \E p \in Process :
       \/ api_init(p) \/ api_init_done(p) \/ api_run(p) \/ api_exit(p)
       \/ kill_handler(p) \/ Signal(p)
       \/ \E s \in Server : api_set_server(p, s)
       \/ \E v \in Process : api_reg_task(p, v)
       \/ api_reg_task_done(p) \/ api_reg_run(p)
  \/ memsched_init
  \/ memsched_exit

Spec == Init /\ [][Next]_vars

----------------------------------------------------------------------------
(* Properties.                                                             *)

\* The types of the variables.
TypeOK ==
  /\ scenario \in Scenarios
  /\ pids \subseteq Rid
  /\ resch_task \in [Rid -> [task : Process \cup {None},
                             pid : Process \cup Rid \cup {None},
                             server_id : Server, submitted : BOOLEAN,
                             event : 1 .. MaxRuns \cup {None}]]
  /\ pid \in [Process -> Process \cup Rid]
  /\ state \in [Process -> {"running", "stopped", "dead"}]
  /\ starting \subseteq Process
  /\ prev_reg_task_pid \in Rid \cup {None}
  /\ vm \in [Process -> Process \cup {None}]
  /\ plugin \in {"unloaded", "loaded", "gone"}
  /\ SERVERS \in [Server -> Seq(Rid)]
  /\ events \in [created : 0 .. MaxRuns, live : SUBSET (1 .. MaxRuns),
                 twice : SUBSET (1 .. MaxRuns)]
  /\ asked \in [Process -> Server \cup {None}]
  /\ hooked \subseteq Process

\* s holds the ids of process p, the last one taken last, along the pids that
\* the descriptors save, and Ids with them.
IsChain(s, p) ==
  IF s = <<>> THEN ~task_is_managed(p)
  ELSE /\ s[Len(s)] = pid[p]
       /\ \A i \in 2 .. Len(s) : resch_task[s[i]].pid = s[i - 1]
       /\ resch_task[s[1]].pid \notin Rid

Held(p) == CHOOSE s \in UNION {[1 .. n -> Rid] : n \in 0 .. NR_RT_TASKS} :
             IsChain(s, p)

IdTable == INSTANCE Ids WITH Id <- Rid, held <- [p \in Process |-> Held(p)]

\* As long as no task is stopped: no id has two holders, whoever enters, leaves,
\* enters again, is killed or is registered, and a process that leaves gives back
\* the id it took last.  The bitmap, the descriptors' saved pids and the pids of
\* the processes are kept apart in the code, and a failing call clears bits.
ImplementsIds == IdTable!Spec

\* The processes that change the server of tasks: all are tasks, or there is one
\* manager.
OneRegistrar ==
  \/ \A p \in Process : is(p, "task")
  \/ \E m \in Process : \A p \in Process :
       ~is(p, "task") /\ (is(p, "manager") => p = m)

\* A task that runs under the plugin is in the list of the server that it, or its
\* manager, asked for last, whatever registrations were going on and whoever had
\* its descriptor before.
AskedServer ==
  OneRegistrar =>
    \A p \in hooked :
      asked[p] # None =>
        \E j \in DOMAIN SERVERS[asked[p]] : SERVERS[asked[p]][j] = pid[p]

\* When the plugin is unloaded, every counter event of the lists has been
\* released, and none twice, as long as no descriptor is in the lists twice.
EventsReleased ==
  plugin = "gone" /\ (\A e, f \in Visited : SERVERS[e[1]][e[2]] = SERVERS[f[1]][f[2]] => e = f)
    => events.live = {} /\ events.twice = {}

\* "Maximum nr of tasks per server" (memsched.c:106): the list has room for that
\* many.
ListBounded ==
  \A s \in Server : Len(SERVERS[s]) <= MAX_NR_OF_TASKS_IN_SERVER
=============================================================================
