-------------------------- MODULE RegistryProofs --------------------------
(***************************************************************************)
(* Proofs about the registry: for any number of processes, ids and servers *)
(* the types are right and the counter events are released when the plugin *)
(* is unloaded (EventsReleased); and as long as none of the processes that *)
(* hold ids is stopped, the table of ids implements Ids (ImplementsIds)    *)
(* and a task is in the list of the server it asked for (AskedServer).     *)
(***************************************************************************)
EXTENDS Registry, Facts

\* Only managers are stopped: clear_dead_tasks frees the ids of tasks that are.
NoTaskStops ==
  \A f \in Scenarios, p \in Process :
    "stop" \in f[p].does => f[p].role = "manager"

\* The table of the descriptors.
Table == [Rid -> [task : Process \cup {None}, pid : Process \cup Rid \cup {None},
                  server_id : Server, submitted : BOOLEAN,
                  event : 1 .. MaxRuns \cup {None}]]

----------------------------------------------------------------------------
(* The inductive invariant.                                                *)

\* The descriptor of an id that a process has, or has had before another one,
\* has been filled.
Known ==
  /\ \A p \in Process :
       /\ p \in starting => task_is_managed(p)
       /\ task_is_managed(p) =>
            /\ resch_task[pid[p]].pid # None
            /\ p \notin starting => resch_task[pid[p]].task # None
  /\ \A r, s \in Rid :
       resch_task[r].pid = s =>
         resch_task[s].pid # None /\ resch_task[s].task # None
  /\ prev_reg_task_pid # None => resch_task[prev_reg_task_pid].task # None

\* Who is registered by whom.
Roled ==
  /\ \A m \in Process :
       vm[m] # None =>
         is(m, "manager") /\ is(vm[m], "vm") /\ task_is_managed(vm[m])
  /\ \A p \in Process : is(p, "manager") =>
       p \notin starting /\ \A r \in Rid : resch_task[r].task # p
  /\ \A p \in Process : state[p] = "stopped" => may(p, "stop")

\* h holds the ids of all processes.
Holds(h) ==
  /\ h \in [Process -> Seq(Rid)]
  /\ \A p \in Process : IsChain(h[p], p)
  /\ \A p, q \in Process : \A i \in 1 .. Len(h[p]), j \in 1 .. Len(h[q]) :
       h[p][i] = h[q][j] => p = q /\ i = j
  /\ \A p \in Process : \A i \in 1 .. Len(h[p]) :
       /\ h[p][i] \in pids
       /\ resch_task[h[p][i]].task = p \/ (p \in starting /\ i = Len(h[p]))

\* What was asked for is in the descriptor as long as its process has it.
Asked ==
  OneRegistrar =>
    /\ \A p \in Process : asked[p] # None =>
         /\ task_is_managed(p) /\ p \notin starting
         /\ resch_task[pid[p]].server_id = asked[p]
    /\ \A p \in hooked :
         /\ task_is_managed(p) /\ p \notin starting
         /\ resch_task[pid[p]].submitted
         /\ plugin = "loaded"
         /\ \A m \in Process : vm[m] # p
         /\ asked[p] # None =>
              \E j \in 1 .. Len(SERVERS[asked[p]]) : SERVERS[asked[p]][j] = pid[p]
    /\ prev_reg_task_pid # None =>
         \E m \in Process : /\ vm[m] \in Process \ starting
                            /\ prev_reg_task_pid = pid[vm[m]]

\* The ids in the lists of the plugin, and whether each is in one place.
ListedIds == UNION {Elements(SERVERS[s]) : s \in Server}
OncePerList ==
  \A s, t \in Server : \A i \in 1 .. Len(SERVERS[s]), j \in 1 .. Len(SERVERS[t]) :
    SERVERS[s][i] = SERVERS[t][j] => s = t /\ i = j

Counted ==
  /\ \A s \in Server : Len(SERVERS[s]) <= events.created
  /\ \A r \in Rid : resch_task[r].event \in 1 .. events.created \cup {None}
  /\ plugin = "unloaded" =>
       /\ \A s \in Server : SERVERS[s] = <<>>
       /\ events.live = {}
  /\ plugin # "gone" => events.twice = {}
  /\ OncePerList =>
       /\ plugin = "loaded" =>
            \A e \in events.live : \E r \in ListedIds : resch_task[r].event = e
       /\ plugin = "loaded" =>
            \A r, s \in ListedIds :
              resch_task[r].event = resch_task[s].event =>
                r = s \/ resch_task[r].event = None
       /\ plugin = "gone" => events.live = {} /\ events.twice = {}

----------------------------------------------------------------------------
(* What the parts of the system calls do to the descriptors.               *)

\* The bitmap of the ids has no bits to spare.
LEMMA AllIds == Total(PID_MAP_LONG) = Rid
<1>1. BITS_PER_LONG \in Nat \ {0}
  BY BitopsAssumption
<1>2. NR_RT_TASKS \in Nat \ {0} /\ NR_RT_TASKS % BITS_PER_LONG = 0
  BY RegistryAssumption
<1> DEFINE B == BITS_PER_LONG
           k == NR_RT_TASKS \div B
           m == PID_MAP_LONG
<1>3. k \in Nat /\ NR_RT_TASKS = B * k
  BY <1>1, <1>2, DivMod
<1>4. /\ m \in Nat
      /\ (NR_RT_TASKS + B - 1) % B \in 0 .. B - 1
      /\ NR_RT_TASKS + B - 1 = B * m + ((NR_RT_TASKS + B - 1) % B)
  <2>1. NR_RT_TASKS + B - 1 \in Nat
    BY <1>1, <1>2
  <2> QED
    BY <1>1, <2>1, DivMod DEF PID_MAP_LONG, BITS_TO_LONGS
<1> HIDE DEF k, m
<1>5. m = k
  <2>1. CASE m < k
    <3>1. B * (k - m) >= B
      BY <1>1, <1>3, <1>4, <2>1
    <3> QED
      BY <1>1, <1>3, <1>4, <3>1
  <2>2. CASE m > k
    <3>1. B * (m - k) >= B
      BY <1>1, <1>3, <1>4, <2>2
    <3> QED
      BY <1>1, <1>3, <1>4, <3>1
  <2> QED
    BY <1>3, <1>4, <2>1, <2>2
<1>6. m * B = NR_RT_TASKS
  BY <1>1, <1>3, <1>5
<1> QED
  BY <1>6 DEF Total, Rid, m

\* A process gets a free id, whose descriptor saves its pid, or there is none.
LEMMA Attach ==
  ASSUME TypeOK, NEW p \in Process, attach_resch(p)
  PROVE  \/ pids' = clear_dead_tasks /\ UNCHANGED <<resch_task, pid, starting>>
         \/ \E r \in Rid \ pids :
              /\ pids' = pids \cup {r}
              /\ starting' = starting \cup {p}
              /\ resch_task' \in Table
              /\ \A x \in Rid :
                   /\ resch_task'[x].task = resch_task[x].task
                   /\ resch_task'[x].pid = IF x = r THEN pid[p] ELSE resch_task[x].pid
                   /\ resch_task'[x].server_id = resch_task[x].server_id
                   /\ resch_task'[x].submitted = resch_task[x].submitted
                   /\ resch_task'[x].event = resch_task[x].event
              /\ pid' \in [Process -> Process \cup Rid]
              /\ pid'[p] = r
              /\ \A q \in Process \ {p} : pid'[q] = pid[q]
<1> DEFINE free == Rid \ pids
           r == resch_ffz(pids, PID_MAP_LONG)
<1>0. resch_task \in Table /\ pid \in [Process -> Process \cup Rid] /\ pids \subseteq Rid
  BY DEF TypeOK, Table
<1>1. r = FirstBit(free)
  BY AllIds DEF resch_ffz
<1>2. CASE free = {}
  <2>1. r < 0
    BY <1>1, <1>2 DEF FirstBit
  <2> QED
    BY <2>1 DEF attach_resch
<1>3. CASE free # {}
  <2>1. free \in SUBSET Nat
    BY RegistryAssumption DEF Rid
  <2>2. r \in free
    <3> HIDE DEF free
    <3>1. \E x \in free : \A y \in free : x <= y
      BY <1>3, <2>1, NatMin
    <3> QED
      BY <1>1, <1>3, <3>1 DEF FirstBit
  <2>3. ~(r < 0)
    BY <2>1, <2>2
  <2>4. /\ pids' = pids \cup {r}
        /\ resch_task' = [resch_task EXCEPT ![r].pid = pid[p]]
        /\ pid' = [pid EXCEPT ![p] = r]
        /\ starting' = starting \cup {p}
    BY <2>3 DEF attach_resch
  <2> HIDE DEF r
  <2>5. resch_task' \in Table
    BY <1>0, <2>2, <2>4 DEF Table
  <2>6. \A x \in Rid :
          /\ resch_task'[x].task = resch_task[x].task
          /\ resch_task'[x].pid = IF x = r THEN pid[p] ELSE resch_task[x].pid
          /\ resch_task'[x].server_id = resch_task[x].server_id
          /\ resch_task'[x].submitted = resch_task[x].submitted
          /\ resch_task'[x].event = resch_task[x].event
    BY <1>0, <2>2, <2>4 DEF Table
  <2>7. /\ pid' \in [Process -> Process \cup Rid]
        /\ pid'[p] = r
        /\ \A q \in Process \ {p} : pid'[q] = pid[q]
    BY <1>0, <2>2, <2>4
  <2> QED
    BY <2>2, <2>4, <2>5, <2>6, <2>7
<1> QED
  BY <1>2, <1>3

\* What resch_task_init(p) leaves in the descriptors.
Reinitialised(p) ==
  \A x \in Rid :
    /\ resch_task'[x].task = IF x = pid[p] THEN p ELSE resch_task[x].task
    /\ resch_task'[x].pid = resch_task[x].pid
    /\ resch_task'[x].server_id = resch_task[x].server_id
    /\ resch_task'[x].submitted =
         IF x = pid[p] THEN FALSE ELSE resch_task[x].submitted
    /\ resch_task'[x].event = resch_task[x].event

\* The descriptor of p is initialised.
LEMMA Initialised ==
  ASSUME TypeOK, NEW p \in Process, pid[p] \in Rid, resch_task_init(p)
  PROVE  /\ resch_task' \in Table
         /\ starting' = starting \ {p}
         /\ Reinitialised(p)
<1>1. resch_task \in Table
  BY DEF TypeOK, Table
<1>2. /\ resch_task' = [resch_task EXCEPT ![pid[p]].task = p, ![pid[p]].submitted = FALSE]
      /\ starting' = starting \ {p}
  BY DEF resch_task_init
<1>3. PICK r : r = pid[p]
  OBVIOUS
<1>4. resch_task' = [resch_task EXCEPT ![r] = [@ EXCEPT !.task = p, !.submitted = FALSE]]
  BY <1>1, <1>2, <1>3 DEF Table
<1>5. r \in Rid /\ resch_task' \in Table
  BY <1>1, <1>3, <1>4, ZenonT(40) DEF Table
<1>6. \A x \in Rid \ {r} : resch_task'[x] = resch_task[x]
  BY <1>1, <1>4, <1>5 DEF Table
<1>7. /\ resch_task'[r].task = p /\ resch_task'[r].pid = resch_task[r].pid
      /\ resch_task'[r].server_id = resch_task[r].server_id
      /\ ~resch_task'[r].submitted
      /\ resch_task'[r].event = resch_task[r].event
  BY <1>1, <1>4, <1>5 DEF Table
<1>8. resch_task'[r].submitted = FALSE
  BY <1>5, <1>7 DEF Table
<1>9. ASSUME NEW x \in Rid
      PROVE  /\ resch_task'[x].task = IF x = pid[p] THEN p ELSE resch_task[x].task
             /\ resch_task'[x].pid = resch_task[x].pid
             /\ resch_task'[x].server_id = resch_task[x].server_id
             /\ resch_task'[x].submitted =
                  IF x = pid[p] THEN FALSE ELSE resch_task[x].submitted
             /\ resch_task'[x].event = resch_task[x].event
  <2>1. CASE x = r
    BY <1>3, <1>7, <1>8, <2>1
  <2>2. CASE x # r
    BY <1>3, <1>6, <2>2
  <2> QED
    BY <2>1, <2>2
<1> QED
  BY <1>2, <1>5, <1>9 DEF Reinitialised

\* A server is written into a descriptor.
LEMMA ServerSet ==
  ASSUME TypeOK, NEW p \in Process, NEW r \in Rid, NEW s \in Server, set_server(r, s, p)
  PROVE  /\ resch_task' \in Table
         /\ \A x \in Rid :
              /\ resch_task'[x].task = resch_task[x].task
              /\ resch_task'[x].pid = resch_task[x].pid
              /\ resch_task'[x].server_id =
                   IF x = r THEN s ELSE resch_task[x].server_id
              /\ resch_task'[x].submitted = resch_task[x].submitted
              /\ resch_task'[x].event = resch_task[x].event
<1>1. resch_task \in Table
  BY DEF TypeOK, Table
<1> QED
  BY <1>1 DEF Table, set_server

\* A task is run: with the plugin it is appended to the list of its server.
LEMMA TaskRun ==
  ASSUME TypeOK, NEW r \in Rid, RunTask(r)
  PROVE  /\ resch_task' \in Table
         /\ \A x \in Rid :
              /\ resch_task'[x].task = resch_task[x].task
              /\ resch_task'[x].pid = resch_task[x].pid
              /\ resch_task'[x].server_id = resch_task[x].server_id
              /\ x # r => /\ resch_task'[x].submitted = resch_task[x].submitted
                          /\ resch_task'[x].event = resch_task[x].event
         /\ resch_task'[r].submitted
         /\ \/ /\ plugin = "loaded"
               /\ hooked' = hooked \cup {resch_task[r].task}
               /\ SERVERS' \in [Server -> Seq(Rid)]
               /\ SERVERS' = [SERVERS EXCEPT ![resch_task[r].server_id] = Append(@, r)]
               /\ events.created + 1 <= MaxRuns
               /\ events'.created = events.created + 1
               /\ events'.twice = events.twice
               /\ \/ /\ events'.live = events.live \cup {events.created + 1}
                     /\ resch_task'[r].event = events.created + 1
                  \/ /\ events'.live = events.live
                     /\ resch_task'[r].event = None
               /\ events' \in [created : 0 .. MaxRuns, live : SUBSET (1 .. MaxRuns),
                               twice : SUBSET (1 .. MaxRuns)]
            \/ /\ plugin # "loaded"
               /\ UNCHANGED <<SERVERS, events, hooked>>
               /\ \A x \in Rid : resch_task'[x].event = resch_task[x].event
<1>0. resch_task \in Table
  BY DEF TypeOK, Table
<1>1. CASE plugin = "loaded"
  <2> DEFINE e == events.created + 1
             s == resch_task[r].server_id
             new == Append(SERVERS[s], r)
  <2>0. /\ events \in [created : 0 .. MaxRuns, live : SUBSET (1 .. MaxRuns),
                       twice : SUBSET (1 .. MaxRuns)]
        /\ SERVERS \in [Server -> Seq(Rid)] /\ s \in Server /\ MaxRuns \in Nat
    BY <1>0, RegistryAssumption DEF TypeOK, Table
  <2>1. /\ e <= MaxRuns
        /\ SERVERS' = [SERVERS EXCEPT ![s] = new]
        /\ \/ /\ events' = [events EXCEPT !.created = e, !.live = @ \cup {e}]
              /\ resch_task' = [resch_task EXCEPT ![r].submitted = TRUE, ![r].event = e]
           \/ /\ events' = [events EXCEPT !.created = e]
              /\ resch_task' = [resch_task EXCEPT ![r].submitted = TRUE,
                                                  ![r].event = None]
        /\ hooked' = hooked \cup {resch_task[r].task}
    BY <1>1 DEF RunTask, task_run
  <2>2. e \in 1 .. MaxRuns
    BY <2>0, <2>1
  <2>3. /\ SERVERS' \in [Server -> Seq(Rid)]
        /\ SERVERS' = [SERVERS EXCEPT ![s] = Append(@, r)]
    <3>1. new \in Seq(Rid)
      BY <2>0, AppendProperties
    <3> QED
      BY <2>0, <2>1, <3>1
  <2> HIDE DEF e
  <2>4. /\ events'.created = e /\ events'.twice = events.twice
        /\ events' \in [created : 0 .. MaxRuns, live : SUBSET (1 .. MaxRuns),
                        twice : SUBSET (1 .. MaxRuns)]
    <3>1. CASE events' = [events EXCEPT !.created = e, !.live = @ \cup {e}]
      <4>1. /\ events'.created = e /\ events'.twice = events.twice
            /\ events'.live = events.live \cup {e}
        BY <2>0, <3>1
      <4>2. events' = [created |-> e, live |-> events.live \cup {e},
                       twice |-> events.twice]
        BY <2>0, <3>1
      <4> QED
        BY <2>0, <2>2, <4>1, <4>2
    <3>2. CASE events' = [events EXCEPT !.created = e]
      BY <2>0, <2>2, <3>2
    <3> QED
      BY <2>1, <3>1, <3>2
  <2>5. \/ /\ events'.live = events.live \cup {e} /\ resch_task'[r].event = e
        \/ /\ events'.live = events.live /\ resch_task'[r].event = None
    BY <1>0, <2>0, <2>1, ZenonT(40) DEF Table
  <2>6. /\ resch_task' \in Table
        /\ \A x \in Rid :
              /\ resch_task'[x].task = resch_task[x].task
              /\ resch_task'[x].pid = resch_task[x].pid
              /\ resch_task'[x].server_id = resch_task[x].server_id
              /\ x # r => /\ resch_task'[x].submitted = resch_task[x].submitted
                          /\ resch_task'[x].event = resch_task[x].event
        /\ resch_task'[r].submitted
    <3>1. PICK f \in {e, None} :
            resch_task' = [resch_task EXCEPT ![r].submitted = TRUE, ![r].event = f]
      BY <2>1
    <3>2. f \in 1 .. MaxRuns \cup {None}
      BY <2>2, <3>1
    <3>3. resch_task' \in Table
      BY <1>0, <3>1, <3>2, ZenonT(40) DEF Table
    <3>4. \A x \in Rid :
              /\ resch_task'[x].task = resch_task[x].task
              /\ resch_task'[x].pid = resch_task[x].pid
              /\ resch_task'[x].server_id = resch_task[x].server_id
              /\ x # r => /\ resch_task'[x].submitted = resch_task[x].submitted
                          /\ resch_task'[x].event = resch_task[x].event
      BY <1>0, <3>1 DEF Table
    <3>5. resch_task'[r].submitted
      BY <1>0, <3>1 DEF Table
    <3> QED
      BY <3>3, <3>4, <3>5
  <2> QED
    BY <1>1, <2>1, <2>3, <2>4, <2>5, <2>6 DEF e
<1>2. CASE plugin # "loaded"
  <2>1. /\ resch_task' = [resch_task EXCEPT ![r].submitted = TRUE]
        /\ UNCHANGED <<SERVERS, events, hooked>>
    BY <1>2 DEF RunTask
  <2> QED
    BY <1>0, <1>2, <2>1 DEF Table
<1> QED
  BY <1>1, <1>2

----------------------------------------------------------------------------
(* The types, and what is known of descriptors.                            *)

Numbers == [created : 0 .. MaxRuns, live : SUBSET (1 .. MaxRuns),
            twice : SUBSET (1 .. MaxRuns)]

\* A process that gives back an id had it, and gets a process or an id.
LEMMA Detach ==
  ASSUME TypeOK, Known, NEW p \in Process, task_is_managed(p), detach_resch(p)
  PROVE  /\ pids' = pids \ {pid[p]}
         /\ pid' \in [Process -> Process \cup Rid]
         /\ pid'[p] = resch_task[pid[p]].pid
         /\ \A q \in Process \ {p} : pid'[q] = pid[q]
<1>1. /\ pid \in [Process -> Process \cup Rid]
      /\ resch_task \in Table
      /\ pid[p] \in Rid
  BY DEF TypeOK, Table, task_is_managed
<1>2. resch_task[pid[p]].pid # None
  BY DEF Known
<1>3. resch_task[pid[p]].pid \in Process \cup Rid
  BY <1>1, <1>2 DEF Table
<1> QED
  BY <1>1, <1>3 DEF detach_resch

LEMMA InitTyped == Init => TypeOK /\ Known
<1> SUFFICES ASSUME Init PROVE TypeOK /\ Known
  OBVIOUS
<1> USE DEF Init
<1>1. resch_task \in Table
  <2>1. 0 \in Server
    BY RegistryAssumption DEF Server
  <2> QED
    BY <2>1 DEF Table
<1>2. SERVERS \in [Server -> Seq(Rid)]
  OBVIOUS
<1>3. events \in Numbers
  BY RegistryAssumption DEF Numbers
<1>4. \A p \in Process : pid[p] \notin Rid
  BY RegistryAssumption DEF Rid
<1>5. None \notin Rid
  BY RegistryAssumption DEF Rid
<1>6. TypeOK
  BY <1>1, <1>2, <1>3 DEF TypeOK, Table, Numbers
<1>7. Known
  BY <1>4, <1>5 DEF Known, task_is_managed
<1> QED
  BY <1>6, <1>7

LEMMA NextTyped ==
  ASSUME TypeOK, Known, [Next]_vars
  PROVE  TypeOK'
<1>0. /\ resch_task \in Table /\ events \in Numbers
      /\ pid \in [Process -> Process \cup Rid]
      /\ vm \in [Process -> Process \cup {None}]
      /\ state \in [Process -> {"running", "stopped", "dead"}]
      /\ asked \in [Process -> Server \cup {None}]
      /\ None \notin Process /\ None \notin Rid
      /\ MaxRuns \in Nat
  BY RegistryAssumption DEF TypeOK, Table, Numbers, Rid
<1>1. ASSUME NEW p \in Process, api_init(p) PROVE TypeOK'
  <2>1. /\ attach_resch(p) /\ Forget(p)
        /\ UNCHANGED <<scenario, state, prev_reg_task_pid, vm, plugin, SERVERS, events>>
    BY <1>1 DEF api_init
  <2>2. asked' \in [Process -> Server \cup {None}] /\ hooked' \subseteq hooked
    BY <1>0, <2>1 DEF Forget
  <2>3. /\ pids' \subseteq Rid /\ starting' \subseteq Process
        /\ resch_task' \in Table /\ pid' \in [Process -> Process \cup Rid]
    BY <1>0, <2>1, Attach DEF TypeOK, clear_dead_tasks
  <2> QED
    BY <2>1, <2>2, <2>3 DEF TypeOK, Table
<1>2. ASSUME NEW p \in Process, api_init_done(p) PROVE TypeOK'
  <2>1. pid[p] \in Rid
    BY <1>2 DEF api_init_done, Known, task_is_managed
  <2>2. /\ resch_task_init(p)
        /\ UNCHANGED <<scenario, pids, pid, state, prev_reg_task_pid, vm, plugin,
                       SERVERS, events, asked, hooked>>
    BY <1>2 DEF api_init_done
  <2>3. resch_task' \in Table /\ starting' \subseteq starting
    BY <2>1, <2>2, Initialised DEF Reinitialised
  <2> QED
    BY <2>2, <2>3 DEF TypeOK, Table
<1>3. ASSUME NEW r \in Rid, RunTask(r), resch_task[r].task # None
      PROVE  /\ resch_task' \in Table /\ SERVERS' \in [Server -> Seq(Rid)]
             /\ events' \in Numbers /\ hooked' \subseteq Process
  <2>1. SERVERS \in [Server -> Seq(Rid)] /\ hooked \subseteq Process
    BY DEF TypeOK
  <2>2. resch_task[r].task \in Process
    BY <1>0, <1>3 DEF Table
  <2>3. resch_task' \in Table
    BY <1>3, TaskRun
  <2>4. \/ /\ SERVERS' \in [Server -> Seq(Rid)] /\ events' \in Numbers
           /\ hooked' = hooked \cup {resch_task[r].task}
        \/ UNCHANGED <<SERVERS, events, hooked>>
    BY <1>3, TaskRun DEF Numbers
  <2> QED
    BY <1>0, <2>1, <2>2, <2>3, <2>4
<1>4. ASSUME NEW p \in Process, api_run(p) PROVE TypeOK'
  <2>1. /\ RunTask(pid[p]) /\ pid[p] \in Rid /\ resch_task[pid[p]].task # None
        /\ UNCHANGED <<scenario, pids, pid, state, starting, prev_reg_task_pid, vm,
                       plugin, asked>>
    BY <1>4 DEF api_run, Known, task_is_managed, InUserMode
  <2> QED
    BY <1>3, <2>1 DEF TypeOK, Table, Numbers
<1>5. ASSUME NEW p \in Process, api_exit(p) PROVE TypeOK'
  <2>1. /\ detach_resch(p) /\ Forget(p) /\ task_is_managed(p)
        /\ UNCHANGED <<scenario, resch_task, state, starting, prev_reg_task_pid, vm,
                       plugin, SERVERS, events>>
    BY <1>5 DEF api_exit
  <2>2. asked' \in [Process -> Server \cup {None}] /\ hooked' \subseteq hooked
    BY <1>0, <2>1 DEF Forget
  <2>3. pids' \subseteq pids /\ pid' \in [Process -> Process \cup Rid]
    BY <2>1, Detach
  <2> QED
    BY <2>1, <2>2, <2>3 DEF TypeOK
<1>6. ASSUME NEW p \in Process, kill_handler(p) PROVE TypeOK'
  <2>1. /\ \/ task_is_managed(p) /\ detach_resch(p)
           \/ UNCHANGED <<pids, pid>>
        /\ Forget(p) /\ state' = [state EXCEPT ![p] = "dead"]
        /\ UNCHANGED <<scenario, resch_task, starting, prev_reg_task_pid, vm,
                       plugin, SERVERS, events>>
    BY <1>6 DEF kill_handler
  <2>2. asked' \in [Process -> Server \cup {None}] /\ hooked' \subseteq hooked
    BY <1>0, <2>1 DEF Forget
  <2>3. pids' \subseteq pids /\ pid' \in [Process -> Process \cup Rid]
    BY <1>0, <2>1, Detach
  <2>4. state' \in [Process -> {"running", "stopped", "dead"}]
    BY <1>0, <2>1
  <2> QED
    BY <2>1, <2>2, <2>3, <2>4 DEF TypeOK
<1>7. ASSUME NEW p \in Process, Signal(p) PROVE TypeOK'
  <2>1. /\ \E x \in {"running", "stopped", "dead"} : state' = [state EXCEPT ![p] = x]
        /\ UNCHANGED <<scenario, pids, resch_task, pid, starting, prev_reg_task_pid,
                       vm, plugin, SERVERS, events, asked, hooked>>
    BY <1>7 DEF Signal
  <2>2. state' \in [Process -> {"running", "stopped", "dead"}]
    BY <1>0, <2>1
  <2> QED
    BY <2>1, <2>2 DEF TypeOK
<1>8. ASSUME NEW p \in Process, NEW s \in Server, api_set_server(p, s) PROVE TypeOK'
  <2>1. PICK r \in Rid, q \in Process :
          /\ set_server(r, s, p) /\ asked' = [asked EXCEPT ![q] = s]
          /\ UNCHANGED <<scenario, pids, pid, state, starting, prev_reg_task_pid, vm,
                         plugin, SERVERS, events, hooked>>
    <3> DEFINE r == IF prev_reg_task_pid # None THEN prev_reg_task_pid ELSE pid[p]
               q == IF is(p, "task") THEN p ELSE vm[p]
    <3>1. r \in Rid
      BY <1>8 DEF api_set_server, TypeOK, task_is_managed
    <3>2. q \in Process
      BY <1>0, <1>8 DEF api_set_server
    <3> QED
      BY <1>8, <3>1, <3>2 DEF api_set_server
  <2>2. resch_task' \in Table
    BY <2>1, ServerSet
  <2>3. asked' \in [Process -> Server \cup {None}]
    BY <1>0, <2>1
  <2> QED
    BY <2>1, <2>2, <2>3 DEF TypeOK, Table
<1>9. ASSUME NEW m \in Process, NEW v \in Process, api_reg_task(m, v) PROVE TypeOK'
  <2>1. /\ attach_resch(v)
        /\ vm' = [vm EXCEPT ![m] = IF v \in starting' THEN v ELSE None]
        /\ UNCHANGED <<scenario, state, prev_reg_task_pid, plugin, SERVERS, events,
                       asked, hooked>>
    BY <1>9 DEF api_reg_task
  <2>2. vm' \in [Process -> Process \cup {None}]
    BY <1>0, <2>1
  <2>3. /\ pids' \subseteq Rid /\ starting' \subseteq Process
        /\ resch_task' \in Table /\ pid' \in [Process -> Process \cup Rid]
    BY <1>0, <2>1, Attach DEF TypeOK, clear_dead_tasks
  <2> QED
    BY <2>1, <2>2, <2>3 DEF TypeOK, Table
<1>10. ASSUME NEW m \in Process, api_reg_task_done(m) PROVE TypeOK'
  <2>1. /\ vm[m] \in starting /\ resch_task_init(vm[m])
        /\ prev_reg_task_pid' = pid[vm[m]]
        /\ UNCHANGED <<scenario, pids, pid, state, vm, plugin, SERVERS, events, asked,
                       hooked>>
    BY <1>10 DEF api_reg_task_done
  <2>2. vm[m] \in Process /\ pid[vm[m]] \in Rid
    BY <2>1 DEF TypeOK, Known, task_is_managed
  <2>3. resch_task' \in Table /\ starting' \subseteq starting
    BY <2>1, <2>2, Initialised DEF Reinitialised
  <2> QED
    BY <2>1, <2>2, <2>3 DEF TypeOK, Table
<1>11. ASSUME NEW m \in Process, api_reg_run(m) PROVE TypeOK'
  <2>1. /\ RunTask(prev_reg_task_pid) /\ prev_reg_task_pid # None
        /\ prev_reg_task_pid' = None /\ vm' = [vm EXCEPT ![m] = None]
        /\ UNCHANGED <<scenario, pids, pid, state, starting, plugin, asked>>
    BY <1>11 DEF api_reg_run
  <2>2. prev_reg_task_pid \in Rid /\ resch_task[prev_reg_task_pid].task # None
    BY <2>1 DEF TypeOK, Known
  <2>3. vm' \in [Process -> Process \cup {None}]
    BY <1>0, <2>1
  <2> QED
    BY <1>3, <2>1, <2>2, <2>3 DEF TypeOK, Table, Numbers
<1>12. CASE memsched_init
  BY <1>12 DEF memsched_init, TypeOK
<1>13. CASE memsched_exit
  <2> DEFINE left == {EventOf(e) : e \in Visited}
             two == {EventOf(e) : e \in
                      {f \in Visited : \E g \in Visited \ {f} : EventOf(g) = EventOf(f)}}
  <2>1. /\ \A e \in Visited : EventOf(e) # None
        /\ plugin' = "gone" /\ hooked' = {}
        /\ events' = [events EXCEPT !.live = @ \ left, !.twice = two]
        /\ UNCHANGED <<scenario, pids, resch_task, pid, state, starting,
                       prev_reg_task_pid, vm, SERVERS, asked>>
    BY <1>13 DEF memsched_exit
  <2>2. \A e \in Visited : EventOf(e) \in 1 .. MaxRuns
    <3> SUFFICES ASSUME NEW e \in Visited PROVE EventOf(e) \in 1 .. MaxRuns
      OBVIOUS
    <3>1. PICK s \in Server, j \in 1 .. MaxRuns : e = <<s, j>> /\ j <= Len(SERVERS[s])
      BY DEF Visited, Entries
    <3>2. SERVERS[s] \in Seq(Rid)
      BY DEF TypeOK
    <3>3. SERVERS[s][j] \in Rid
      BY <1>0, <3>1, <3>2, ElementOfSeq
    <3>4. EventOf(e) = resch_task[SERVERS[s][j]].event
      BY <3>1 DEF EventOf
    <3>5. EventOf(e) \in 1 .. MaxRuns \cup {None}
      BY <1>0, <3>3, <3>4 DEF Table
    <3> QED
      BY <2>1, <3>5
  <2>3. two \subseteq 1 .. MaxRuns
    BY <2>2
  <2> HIDE DEF left, two
  <2>4. events' \in Numbers
    <3>1. events' = [created |-> events.created, live |-> events.live \ left,
                     twice |-> two]
      BY <1>0, <2>1 DEF Numbers
    <3> QED
      BY <1>0, <2>3, <3>1 DEF Numbers
  <2> QED
    BY <2>1, <2>4 DEF TypeOK, Numbers
<1>14. CASE UNCHANGED vars
  BY <1>14 DEF vars, TypeOK
<1> QED
  BY <1>1, <1>2, <1>4, <1>5, <1>6, <1>7, <1>8, <1>9, <1>10, <1>11, <1>12, <1>13, <1>14
  DEF Next

LEMMA NextKnown ==
  ASSUME TypeOK, TypeOK', Known, [Next]_vars
  PROVE  Known'
<1>0. /\ pid \in [Process -> Process \cup Rid] /\ pid' \in [Process -> Process \cup Rid]
      /\ resch_task \in Table /\ resch_task' \in Table
      /\ vm \in [Process -> Process \cup {None}]
      /\ prev_reg_task_pid \in Rid \cup {None}
      /\ Process \cap Rid = {} /\ None \notin Process /\ None \notin Rid
  <2>1. Process \cap Rid = {} /\ None \notin Process /\ None \notin Rid
    BY RegistryAssumption DEF Rid
  <2> QED
    BY <2>1 DEF TypeOK, Table
<1> DEFINE Filled(x) == resch_task[x].pid # None /\ resch_task[x].task # None
           FilledP(x) == resch_task'[x].pid # None /\ resch_task'[x].task # None
<1>1. /\ \A p \in Process : p \in starting => pid[p] \in Rid
      /\ \A p \in Process : pid[p] \in Rid =>
           resch_task[pid[p]].pid # None /\ (p \notin starting => Filled(pid[p]))
      /\ \A r, s \in Rid : resch_task[r].pid = s => Filled(s)
      /\ prev_reg_task_pid # None => resch_task[prev_reg_task_pid].task # None
  BY DEF Known, task_is_managed
<1>2. SUFFICES
        /\ \A p \in Process : p \in starting' => pid'[p] \in Rid
        /\ \A p \in Process : pid'[p] \in Rid =>
             resch_task'[pid'[p]].pid # None /\ (p \notin starting' => FilledP(pid'[p]))
        /\ \A r, s \in Rid : resch_task'[r].pid = s => FilledP(s)
        /\ prev_reg_task_pid' # None => resch_task'[prev_reg_task_pid'].task # None
  BY DEF Known, task_is_managed
<1> DEFINE Goal == /\ \A p \in Process : p \in starting' => pid'[p] \in Rid
                   /\ \A p \in Process : pid'[p] \in Rid =>
                        /\ resch_task'[pid'[p]].pid # None
                        /\ p \notin starting' => FilledP(pid'[p])
                   /\ \A r, s \in Rid : resch_task'[r].pid = s => FilledP(s)
                   /\ prev_reg_task_pid' # None =>
                        resch_task'[prev_reg_task_pid'].task # None
\* A process that is not starting is attached.
<1>3. ASSUME NEW p \in Process, p \notin starting, attach_resch(p),
             prev_reg_task_pid' = prev_reg_task_pid
      PROVE  Goal
  <2>1. CASE UNCHANGED <<resch_task, pid, starting>>
    BY <1>1, <1>3, <2>1
  <2>2. ASSUME NEW r \in Rid \ pids,
               starting' = starting \cup {p},
               \A x \in Rid :
                 /\ resch_task'[x].task = resch_task[x].task
                 /\ resch_task'[x].pid = IF x = r THEN pid[p] ELSE resch_task[x].pid,
               pid'[p] = r,
               \A q \in Process \ {p} : pid'[q] = pid[q]
        PROVE  Goal
    <3>1. pid[p] # None
      BY <1>0
    <3>2. pid[p] \in Rid => Filled(pid[p])
      BY <1>1, <1>3
    <3>3. \A x \in Rid : /\ Filled(x) => FilledP(x)
                         /\ resch_task[x].pid # None => resch_task'[x].pid # None
      BY <1>0, <2>2, <3>1
    <3> HIDE DEF Filled, FilledP
    <3>4. \A q \in Process : q \in starting' => pid'[q] \in Rid
      BY <1>1, <2>2
    <3>5. \A q \in Process : pid'[q] \in Rid =>
            resch_task'[pid'[q]].pid # None /\ (q \notin starting' => FilledP(pid'[q]))
      BY <1>1, <2>2, <3>1, <3>3
    <3>6. \A x, s \in Rid : resch_task'[x].pid = s => FilledP(s)
      BY <1>1, <2>2, <3>2, <3>3
    <3>7. prev_reg_task_pid' # None => resch_task'[prev_reg_task_pid'].task # None
      BY <1>0, <1>1, <1>3, <2>2
    <3> QED
      BY <3>4, <3>5, <3>6, <3>7
  <2> QED
    BY <1>3, <2>1, <2>2, Attach
\* A process that is starting gets its descriptor.
<1>4. ASSUME NEW p \in Process, p \in starting, resch_task_init(p), pid' = pid,
             prev_reg_task_pid' \in {prev_reg_task_pid, pid[p]}
      PROVE  Goal
  <2>1. pid[p] \in Rid /\ resch_task[pid[p]].pid # None
    BY <1>1, <1>4
  <2>2. /\ starting' = starting \ {p}
        /\ \A x \in Rid :
              /\ resch_task'[x].task = IF x = pid[p] THEN p ELSE resch_task[x].task
              /\ resch_task'[x].pid = resch_task[x].pid
    <3>1. starting' = starting \ {p} /\ Reinitialised(p)
      BY <1>4, <2>1, Initialised
    <3> QED
      BY <3>1 DEF Reinitialised
  <2>3. /\ \A x \in Rid : Filled(x) => FilledP(x)
        /\ FilledP(pid[p])
        /\ \A x \in Rid : resch_task[x].task # None => resch_task'[x].task # None
    BY <1>0, <2>1, <2>2
  <2> HIDE DEF Filled, FilledP
  <2>4. prev_reg_task_pid' # None => resch_task'[prev_reg_task_pid'].task # None
    BY <1>0, <1>1, <1>4, <2>1, <2>3 DEF FilledP
  <2>5. \A q \in Process : pid'[q] \in Rid =>
          resch_task'[pid'[q]].pid # None /\ (q \notin starting' => FilledP(pid'[q]))
    BY <1>1, <1>4, <2>2, <2>3
  <2> QED
    BY <1>1, <1>4, <2>2, <2>3, <2>4, <2>5
\* A process that is not starting is detached.
<1>5. ASSUME NEW p \in Process, p \notin starting, task_is_managed(p), detach_resch(p),
             UNCHANGED <<resch_task, starting, prev_reg_task_pid>>
      PROVE  Goal
  <2>1. /\ pid[p] \in Rid
        /\ pid'[p] = resch_task[pid[p]].pid
        /\ \A q \in Process \ {p} : pid'[q] = pid[q]
    BY <1>5, Detach DEF task_is_managed
  <2>2. pid'[p] \in Rid => Filled(pid'[p])
    BY <1>1, <2>1
  <2> QED
    BY <1>1, <1>5, <2>1, <2>2
\* The other calls keep what Known is about.
<1>6. ASSUME \A x \in Rid : /\ resch_task'[x].task = resch_task[x].task
                            /\ resch_task'[x].pid = resch_task[x].pid,
             UNCHANGED <<pid, starting>>,
             prev_reg_task_pid' \in {prev_reg_task_pid, None}
      PROVE  Goal
  BY <1>0, <1>1, <1>6
<1> HIDE DEF Goal
<1>7. ASSUME NEW p \in Process, api_init(p) PROVE Goal
  BY <1>3, <1>7 DEF api_init, InUserMode
<1>8. ASSUME NEW p \in Process, api_init_done(p) PROVE Goal
  BY <1>4, <1>8 DEF api_init_done
<1>9. ASSUME NEW p \in Process, api_run(p) PROVE Goal
  <2>1. /\ RunTask(pid[p]) /\ pid[p] \in Rid
        /\ UNCHANGED <<pid, starting, prev_reg_task_pid>>
    BY <1>9 DEF api_run, task_is_managed
  <2> QED
    BY <1>6, <2>1, TaskRun
<1>10. ASSUME NEW p \in Process, api_exit(p) PROVE Goal
  BY <1>5, <1>10 DEF api_exit, InUserMode
<1>11. ASSUME NEW p \in Process, kill_handler(p) PROVE Goal
  <2>1. CASE task_is_managed(p)
    BY <1>5, <1>11, <2>1 DEF kill_handler, InUserMode
  <2>2. CASE ~task_is_managed(p)
    BY <1>6, <1>11, <2>2 DEF kill_handler
  <2> QED
    BY <2>1, <2>2
<1>12. ASSUME NEW p \in Process, Signal(p) PROVE Goal
  BY <1>6, <1>12 DEF Signal
<1>13. ASSUME NEW p \in Process, NEW s \in Server, api_set_server(p, s) PROVE Goal
  <2>1. PICK r \in Rid : set_server(r, s, p)
    BY <1>13 DEF api_set_server, TypeOK, task_is_managed
  <2> QED
    BY <1>6, <1>13, <2>1, ServerSet DEF api_set_server
<1>14. ASSUME NEW m \in Process, NEW v \in Process, api_reg_task(m, v) PROVE Goal
  BY <1>1, <1>3, <1>14 DEF api_reg_task, task_is_managed
<1>15. ASSUME NEW m \in Process, api_reg_task_done(m) PROVE Goal
  <2>1. vm[m] \in Process
    BY <1>15 DEF api_reg_task_done, TypeOK
  <2> QED
    BY <1>4, <1>15, <2>1 DEF api_reg_task_done
<1>16. ASSUME NEW m \in Process, api_reg_run(m) PROVE Goal
  <2>1. /\ RunTask(prev_reg_task_pid) /\ prev_reg_task_pid \in Rid
        /\ UNCHANGED <<pid, starting>> /\ prev_reg_task_pid' = None
    BY <1>0, <1>16 DEF api_reg_run
  <2> QED
    BY <1>6, <2>1, TaskRun
<1>17. ASSUME memsched_init PROVE Goal
  BY <1>6, <1>17 DEF memsched_init
<1>18. ASSUME memsched_exit PROVE Goal
  BY <1>6, <1>18 DEF memsched_exit
<1>19. ASSUME UNCHANGED vars PROVE Goal
  BY <1>6, <1>19 DEF vars
<1>20. Goal
  BY <1>7, <1>8, <1>9, <1>10, <1>11, <1>12, <1>13, <1>14, <1>15, <1>16, <1>17, <1>18,
     <1>19 DEF Next
<1> QED
  BY <1>20 DEF Goal

\* The variables have their types in every scenario, among them a pid, which is
\* never the NULL of a descriptor that was not filled.
THEOREM TypeCorrect == Spec => []TypeOK
<1>1. Init => TypeOK /\ Known
  BY InitTyped
<1>2. TypeOK /\ Known /\ [Next]_vars => (TypeOK /\ Known)'
  BY NextTyped, NextKnown
<1> QED
  BY <1>1, <1>2, PTL DEF Spec

----------------------------------------------------------------------------
(* The counter events, whatever happens to the ids.                        *)

\* No call but the start of a task changes an event, and only the start of a task
\* and the plugin's unload change the lists and the counter events.
LEMMA OtherSteps ==
  ASSUME TypeOK, Known, [Next]_vars
  PROVE  \/ \E r \in Rid : RunTask(r) /\ plugin' = plugin
         \/ memsched_init
         \/ memsched_exit
         \/ /\ UNCHANGED <<SERVERS, events, plugin>>
            /\ \A x \in Rid : resch_task'[x].event = resch_task[x].event
<1> DEFINE Goal == \/ \E r \in Rid : RunTask(r) /\ plugin' = plugin
                   \/ memsched_init
                   \/ memsched_exit
                   \/ /\ UNCHANGED <<SERVERS, events, plugin>>
                      /\ \A x \in Rid : resch_task'[x].event = resch_task[x].event
<1>1. ASSUME NEW p \in Process, api_init(p) PROVE Goal
  BY <1>1, Attach DEF api_init
<1>2. ASSUME NEW p \in Process, api_init_done(p) PROVE Goal
  <2>1. pid[p] \in Rid
    BY <1>2 DEF api_init_done, Known, task_is_managed
  <2> QED
    BY <1>2, <2>1, Initialised DEF Reinitialised, api_init_done
<1>3. ASSUME NEW p \in Process, api_run(p) PROVE Goal
  BY <1>3 DEF api_run, task_is_managed
<1>4. ASSUME NEW p \in Process, api_exit(p) PROVE Goal
  BY <1>4 DEF api_exit
<1>5. ASSUME NEW p \in Process, kill_handler(p) PROVE Goal
  BY <1>5 DEF kill_handler
<1>6. ASSUME NEW p \in Process, Signal(p) PROVE Goal
  BY <1>6 DEF Signal
<1>7. ASSUME NEW p \in Process, NEW s \in Server, api_set_server(p, s) PROVE Goal
  <2>1. PICK r \in Rid : set_server(r, s, p)
    BY <1>7 DEF api_set_server, TypeOK, task_is_managed
  <2> QED
    BY <1>7, <2>1, ServerSet DEF api_set_server
<1>8. ASSUME NEW m \in Process, NEW v \in Process, api_reg_task(m, v) PROVE Goal
  BY <1>8, Attach DEF api_reg_task
<1>9. ASSUME NEW m \in Process, api_reg_task_done(m) PROVE Goal
  <2>1. vm[m] \in Process /\ pid[vm[m]] \in Rid
    BY <1>9 DEF api_reg_task_done, Known, task_is_managed, TypeOK
  <2> QED
    BY <1>9, <2>1, Initialised DEF Reinitialised, api_reg_task_done
<1>10. ASSUME NEW m \in Process, api_reg_run(m) PROVE Goal
  BY <1>10 DEF api_reg_run, TypeOK
<1>11. ASSUME UNCHANGED vars PROVE Goal
  BY <1>11 DEF vars
<1> HIDE DEF Goal
<1>12. Goal
  BY <1>1, <1>2, <1>3, <1>4, <1>5, <1>6, <1>7, <1>8, <1>9, <1>10, <1>11 DEF Next, Goal
<1> QED
  BY <1>12 DEF Goal

\* The ids of a list are those at its places.
LEMMA Listed ==
  ASSUME TypeOK
  PROVE  \A r : r \in ListedIds <=>
           \E s \in Server : \E i \in 1 .. Len(SERVERS[s]) : SERVERS[s][i] = r
<1>1. \A s \in Server : SERVERS[s] \in Seq(Rid)
  BY DEF TypeOK
<1>2. \A s \in Server : DOMAIN SERVERS[s] = 1 .. Len(SERVERS[s])
  BY <1>1, LenProperties
<1> QED
  BY <1>2 DEF ListedIds, Elements

LEMMA InitCounted == Init => Counted
<1> SUFFICES ASSUME Init PROVE Counted
  OBVIOUS
<1>1. \A s \in Server : SERVERS[s] = <<>> /\ Len(SERVERS[s]) = 0
  BY DEF Init
<1>2. \A r \in Rid : resch_task[r].event = None
  BY DEF Init
<1>3. events.created = 0 /\ events.live = {} /\ events.twice = {} /\ plugin = "unloaded"
  BY DEF Init
<1> QED
  BY <1>1, <1>2, <1>3 DEF Counted

LEMMA NextCounted ==
  ASSUME TypeOK, TypeOK', Known, Counted, [Next]_vars
  PROVE  Counted'
<1>0. /\ resch_task \in Table /\ resch_task' \in Table
      /\ SERVERS \in [Server -> Seq(Rid)] /\ SERVERS' \in [Server -> Seq(Rid)]
      /\ events \in Numbers /\ events' \in Numbers
      /\ plugin \in {"unloaded", "loaded", "gone"}
  BY DEF TypeOK, Table, Numbers
<1>1. ASSUME UNCHANGED <<SERVERS, events, plugin>>,
             \A x \in Rid : resch_task'[x].event = resch_task[x].event
      PROVE  Counted'
  <2>1. ListedIds' = ListedIds /\ (OncePerList' <=> OncePerList)
    BY <1>1 DEF ListedIds, OncePerList
  <2>2. ListedIds \subseteq Rid
    BY <1>0, Listed, ElementOfSeq
  <2> HIDE DEF ListedIds, OncePerList
  <2> QED
    BY <1>1, <2>1, <2>2 DEF Counted
<1>2. ASSUME NEW r \in Rid, RunTask(r), plugin = "loaded", plugin' = plugin
      PROVE  Counted'
  <2> DEFINE e == events.created + 1
             s == resch_task[r].server_id
             new == Append(SERVERS[s], r)
  <2>1. /\ s \in Server /\ SERVERS[s] \in Seq(Rid)
        /\ events.created \in Nat
    BY <1>0, RegistryAssumption DEF Table, Numbers
  <2>2. /\ SERVERS' = [SERVERS EXCEPT ![s] = new]
        /\ events'.created = e
        /\ events'.twice = events.twice
        /\ \A x \in Rid \ {r} : resch_task'[x].event = resch_task[x].event
        /\ \/ /\ events'.live = events.live \cup {e}
              /\ resch_task'[r].event = e
           \/ /\ events'.live = events.live
              /\ resch_task'[r].event = None
    BY <1>2, TaskRun
  <2>3. /\ new \in Seq(Rid) /\ Len(new) = Len(SERVERS[s]) + 1
        /\ \A i \in 1 .. Len(SERVERS[s]) : new[i] = SERVERS[s][i]
        /\ new[Len(SERVERS[s]) + 1] = r
    BY <2>1, AppendProperties
  <2>4. /\ SERVERS'[s] = new
        /\ \A t \in Server \ {s} : SERVERS'[t] = SERVERS[t]
    BY <1>0, <2>1, <2>2
  <2>5. \A t \in Server : Len(SERVERS[t]) \in Nat
    BY <1>0, LenProperties
  <2> HIDE DEF new, s
  <2>6. ListedIds' = ListedIds \cup {r}
    <3>1. \A x : x \in ListedIds' <=>
            \E t \in Server : \E i \in 1 .. Len(SERVERS'[t]) : SERVERS'[t][i] = x
      BY <1>0, LenProperties DEF ListedIds, Elements
    <3>2. ASSUME NEW x \in ListedIds' PROVE x \in ListedIds \cup {r}
      <4>1. PICK t \in Server : \E i \in 1 .. Len(SERVERS'[t]) : SERVERS'[t][i] = x
        BY <3>1, <3>2
      <4>2. PICK i \in 1 .. Len(SERVERS'[t]) : SERVERS'[t][i] = x
        BY <4>1
      <4>3. CASE t = s
        BY <2>1, <2>3, <2>4, <2>5, <4>2, <4>3, Listed
      <4>4. CASE t # s
        BY <2>4, <4>2, <4>4, Listed
      <4> QED
        BY <4>3, <4>4
    <3>3. r \in ListedIds'
      BY <2>1, <2>3, <2>4, <2>5, <3>1
    <3>4. ASSUME NEW x \in ListedIds PROVE x \in ListedIds'
      <4>1. PICK t \in Server : \E i \in 1 .. Len(SERVERS[t]) : SERVERS[t][i] = x
        BY <3>4, Listed
      <4>2. PICK i \in 1 .. Len(SERVERS[t]) : SERVERS[t][i] = x
        BY <4>1
      <4>3. i \in 1 .. Len(SERVERS'[t]) /\ SERVERS'[t][i] = x
        BY <2>1, <2>3, <2>4, <2>5, <4>2
      <4> QED
        BY <3>1, <4>3
    <3> QED
      BY <3>2, <3>3, <3>4
  <2>7. ASSUME OncePerList' PROVE OncePerList /\ r \notin ListedIds
    <3>1. \A t, u \in Server : \A i \in 1 .. Len(SERVERS'[t]), j \in 1 .. Len(SERVERS'[u]) :
            SERVERS'[t][i] = SERVERS'[u][j] => t = u /\ i = j
      BY <2>7 DEF OncePerList
    <3>2. \A t \in Server : \A i \in 1 .. Len(SERVERS[t]) :
            i \in 1 .. Len(SERVERS'[t]) /\ SERVERS'[t][i] = SERVERS[t][i]
      BY <2>1, <2>3, <2>4, <2>5
    <3>3. OncePerList
      BY <3>1, <3>2 DEF OncePerList
    <3>4. r \notin ListedIds
      <4> SUFFICES ASSUME r \in ListedIds PROVE FALSE
        OBVIOUS
      <4>1. PICK t \in Server : \E i \in 1 .. Len(SERVERS[t]) : SERVERS[t][i] = r
        BY Listed
      <4>2. PICK i \in 1 .. Len(SERVERS[t]) : SERVERS[t][i] = r
        BY <4>1
      <4>3. Len(SERVERS[s]) + 1 \in 1 .. Len(SERVERS'[s])
        BY <2>1, <2>3, <2>4, <2>5
      <4>4. t = s /\ i = Len(SERVERS[s]) + 1
        BY <2>1, <2>3, <2>4, <3>1, <3>2, <4>2, <4>3
      <4> QED
        BY <2>1, <2>5, <4>2, <4>4
    <3> QED
      BY <3>3, <3>4
  <2>8. ListedIds \subseteq Rid
    BY <1>0, Listed, ElementOfSeq
  <2> HIDE DEF ListedIds, OncePerList
  <2>9. \A t \in Server : Len(SERVERS'[t]) <= events'.created
    BY <2>1, <2>2, <2>3, <2>4, <2>5 DEF Counted
  <2>10. \A x \in Rid : resch_task'[x].event \in 1 .. events'.created \cup {None}
    BY <2>1, <2>2 DEF Counted
  <2>11. \A x \in Rid : resch_task[x].event = e => e = None
    BY <2>1 DEF Counted
  <2>12. ASSUME OncePerList'
         PROVE  /\ \A f \in events'.live : \E x \in ListedIds' : resch_task'[x].event = f
                /\ \A x, y \in ListedIds' :
                     resch_task'[x].event = resch_task'[y].event =>
                       x = y \/ resch_task'[x].event = None
    <3>1. /\ \A f \in events.live : \E x \in ListedIds : resch_task[x].event = f
          /\ \A x, y \in ListedIds :
               resch_task[x].event = resch_task[y].event =>
                 x = y \/ resch_task[x].event = None
      BY <1>2, <2>7, <2>12 DEF Counted
    <3>2. r \notin ListedIds
      BY <2>7, <2>12
    <3>3. \A f \in events.live : \E x \in ListedIds' : resch_task'[x].event = f
      BY <2>2, <2>6, <2>8, <3>1, <3>2
    <3>4. \A f \in events'.live : \E x \in ListedIds' : resch_task'[x].event = f
      BY <2>2, <2>6, <3>3
    <3>5. \A x, y \in ListedIds' :
            resch_task'[x].event = resch_task'[y].event =>
              x = y \/ resch_task'[x].event = None
      BY <2>2, <2>6, <2>8, <2>11, <3>1, <3>2
    <3> QED
      BY <3>4, <3>5
  <2> QED
    BY <1>2, <2>2, <2>9, <2>10, <2>12 DEF Counted
<1>3. ASSUME NEW r \in Rid, RunTask(r), plugin # "loaded", plugin' = plugin
      PROVE  Counted'
  BY <1>1, <1>3, TaskRun
<1>4. ASSUME memsched_init PROVE Counted'
  <2>1. /\ plugin = "unloaded" /\ plugin' = "loaded"
        /\ SERVERS' = [s \in Server |-> <<>>]
        /\ UNCHANGED <<resch_task, events>>
    BY <1>4 DEF memsched_init
  <2>2. \A s \in Server : SERVERS'[s] = SERVERS[s]
    BY <2>1 DEF Counted
  <2>3. events.live = {} /\ events.twice = {}
    BY <2>1 DEF Counted
  <2>4. ListedIds' = {}
    BY <2>1 DEF ListedIds, Elements
  <2> QED
    BY <2>1, <2>2, <2>3, <2>4 DEF Counted
<1>5. ASSUME memsched_exit PROVE Counted'
  <2> DEFINE left == {EventOf(e) : e \in Visited}
             two == {EventOf(e) : e \in
                      {f \in Visited : \E g \in Visited \ {f} : EventOf(g) = EventOf(f)}}
  <2>1. /\ plugin = "loaded" /\ plugin' = "gone"
        /\ \A e \in Visited : EventOf(e) # None
        /\ events' = [events EXCEPT !.live = @ \ left, !.twice = two]
        /\ UNCHANGED <<resch_task, SERVERS>>
    BY <1>5 DEF memsched_exit
  <2> HIDE DEF left, two
  <2>2. /\ events'.created = events.created
        /\ events'.live = events.live \ left
        /\ events'.twice = two
    BY <1>0, <2>1 DEF Numbers
  <2>3. \A s \in Server : \A i \in 1 .. Len(SERVERS[s]) :
          <<s, i>> \in Visited /\ EventOf(<<s, i>>) = resch_task[SERVERS[s][i]].event
    <3> SUFFICES ASSUME NEW s \in Server, NEW i \in 1 .. Len(SERVERS[s])
                 PROVE  /\ <<s, i>> \in Visited
                        /\ EventOf(<<s, i>>) = resch_task[SERVERS[s][i]].event
      OBVIOUS
    <3>1. /\ Len(SERVERS[s]) <= events.created /\ events.created \in 0 .. MaxRuns
          /\ Len(SERVERS[s]) \in Nat /\ MaxRuns \in Nat
      BY <1>0, RegistryAssumption, LenProperties DEF Counted, Numbers
    <3>2. i \in 1 .. MaxRuns
      BY <3>1
    <3>3. <<s, i>> \in Entries /\ <<s, i>>[1] = s /\ <<s, i>>[2] = i
      BY <3>2 DEF Entries
    <3> QED
      BY <3>1, <3>3 DEF Visited, EventOf
  <2>4. \A e \in Visited : \E s \in Server : \E i \in 1 .. Len(SERVERS[s]) : e = <<s, i>>
    <3> SUFFICES ASSUME NEW e \in Visited
                 PROVE \E s \in Server : \E i \in 1 .. Len(SERVERS[s]) : e = <<s, i>>
      OBVIOUS
    <3>1. PICK s \in Server, i \in 1 .. MaxRuns : e = <<s, i>> /\ i <= Len(SERVERS[s])
      BY DEF Visited, Entries
    <3>2. Len(SERVERS[s]) \in Nat
      BY <1>0, LenProperties
    <3>3. i \in 1 .. Len(SERVERS[s])
      BY <3>1, <3>2
    <3> QED
      BY <3>1, <3>3
  <2>5. ASSUME OncePerList PROVE events'.live = {} /\ events'.twice = {}
    <3>1. /\ \A f \in events.live : \E x \in ListedIds : resch_task[x].event = f
          /\ \A x, y \in ListedIds :
               resch_task[x].event = resch_task[y].event =>
                 x = y \/ resch_task[x].event = None
      BY <2>1, <2>5 DEF Counted
    <3>2. events.live \subseteq left
      <4> SUFFICES ASSUME NEW f \in events.live PROVE f \in left
        OBVIOUS
      <4>1. PICK x \in ListedIds : resch_task[x].event = f
        BY <3>1
      <4>2. PICK s \in Server : \E i \in 1 .. Len(SERVERS[s]) : SERVERS[s][i] = x
        BY Listed
      <4>3. PICK i \in 1 .. Len(SERVERS[s]) : SERVERS[s][i] = x
        BY <4>2
      <4> QED
        BY <2>3, <4>1, <4>3 DEF left
    <3>3. \A e, f \in Visited : EventOf(e) = EventOf(f) => e = f
      <4> SUFFICES ASSUME NEW e \in Visited, NEW f \in Visited, EventOf(e) = EventOf(f)
                   PROVE  e = f
        OBVIOUS
      <4>1. PICK s \in Server : \E i \in 1 .. Len(SERVERS[s]) : e = <<s, i>>
        BY <2>4
      <4>2. PICK i \in 1 .. Len(SERVERS[s]) : e = <<s, i>>
        BY <4>1
      <4>3. PICK t \in Server : \E j \in 1 .. Len(SERVERS[t]) : f = <<t, j>>
        BY <2>4
      <4>4. PICK j \in 1 .. Len(SERVERS[t]) : f = <<t, j>>
        BY <4>3
      <4>5. /\ EventOf(e) = resch_task[SERVERS[s][i]].event
            /\ EventOf(f) = resch_task[SERVERS[t][j]].event
        BY <2>3, <4>2, <4>4
      <4>6. SERVERS[s][i] \in ListedIds /\ SERVERS[t][j] \in ListedIds
        BY Listed
      <4>7. EventOf(e) # None
        BY <2>1
      <4>8. SERVERS[s][i] = SERVERS[t][j]
        <5>1. /\ resch_task[SERVERS[s][i]].event = resch_task[SERVERS[t][j]].event
              /\ resch_task[SERVERS[s][i]].event # None
          BY <4>5, <4>7
        <5>2. \A x, y \in ListedIds :
                resch_task[x].event = resch_task[y].event =>
                  x = y \/ resch_task[x].event = None
          BY <3>1
        <5> HIDE DEF EventOf
        <5> QED
          BY <4>6, <5>1, <5>2, Zenon
      <4>9. s = t /\ i = j
        BY <2>5, <4>8 DEF OncePerList
      <4> QED
        BY <4>2, <4>4, <4>9
    <3>4. two = {}
      BY <3>3 DEF two
    <3> QED
      BY <2>2, <3>2, <3>4
  <2>6. OncePerList' <=> OncePerList
    BY <2>1 DEF OncePerList
  <2>7. /\ \A s \in Server : Len(SERVERS'[s]) <= events'.created
        /\ \A r \in Rid : resch_task'[r].event \in 1 .. events'.created \cup {None}
    BY <2>1, <2>2 DEF Counted
  <2> HIDE DEF OncePerList
  <2> QED
    BY <2>1, <2>5, <2>6, <2>7 DEF Counted
<1> QED
  BY <1>1, <1>2, <1>3, <1>4, <1>5, OtherSteps

\* Whatever the processes do with their ids: when the plugin is unloaded, every
\* counter event of its lists has been released, and none twice, as long as no
\* descriptor is in the lists twice.
THEOREM EventsAreReleased == Spec => []EventsReleased
<1> DEFINE Inv == TypeOK /\ Known /\ Counted
<1>1. Init => Inv
  BY InitTyped, InitCounted
<1>2. Inv /\ [Next]_vars => Inv'
  BY NextTyped, NextKnown, NextCounted
<1>3. Inv => EventsReleased
  <2> SUFFICES ASSUME Inv, plugin = "gone",
                      \A e, f \in Visited :
                        SERVERS[e[1]][e[2]] = SERVERS[f[1]][f[2]] => e = f
               PROVE  events.live = {} /\ events.twice = {}
    BY DEF EventsReleased
  <2>1. \A s \in Server : \A i \in 1 .. Len(SERVERS[s]) :
          <<s, i>> \in Visited /\ <<s, i>>[1] = s /\ <<s, i>>[2] = i
    <3> SUFFICES ASSUME NEW s \in Server, NEW i \in 1 .. Len(SERVERS[s])
                 PROVE  <<s, i>> \in Visited /\ <<s, i>>[1] = s /\ <<s, i>>[2] = i
      OBVIOUS
    <3>1. /\ Len(SERVERS[s]) <= events.created /\ events.created \in 0 .. MaxRuns
          /\ Len(SERVERS[s]) \in Nat /\ MaxRuns \in Nat
      BY RegistryAssumption, LenProperties DEF Counted, TypeOK
    <3>2. i \in 1 .. MaxRuns
      BY <3>1
    <3>3. <<s, i>> \in Entries /\ <<s, i>>[1] = s /\ <<s, i>>[2] = i
      BY <3>2 DEF Entries
    <3> QED
      BY <3>1, <3>3 DEF Visited
  <2>2. OncePerList
    <3> SUFFICES ASSUME NEW s \in Server, NEW t \in Server,
                        NEW i \in 1 .. Len(SERVERS[s]), NEW j \in 1 .. Len(SERVERS[t]),
                        SERVERS[s][i] = SERVERS[t][j]
                 PROVE  s = t /\ i = j
      BY DEF OncePerList
    <3>1. /\ <<s, i>> \in Visited /\ <<s, i>>[1] = s /\ <<s, i>>[2] = i
          /\ <<t, j>> \in Visited /\ <<t, j>>[1] = t /\ <<t, j>>[2] = j
      BY <2>1
    <3>2. SERVERS[<<s, i>>[1]][<<s, i>>[2]] = SERVERS[<<t, j>>[1]][<<t, j>>[2]]
      BY <3>1
    <3>3. <<s, i>> = <<t, j>>
      BY <3>1, <3>2
    <3> QED
      BY <3>3
  <2> QED
    BY <2>2 DEF Counted
<1> QED
  BY <1>1, <1>2, <1>3, PTL DEF Spec

----------------------------------------------------------------------------
(* The ids of the processes, as long as no task is stopped.                *)

LEMMA InitRoled == Init => Roled
<1> SUFFICES ASSUME Init PROVE Roled
  OBVIOUS
<1>1. /\ \A p \in Process : vm[p] = None /\ state[p] = "running"
      /\ \A r \in Rid : resch_task[r].task = None
      /\ starting = {} /\ None \notin Process
  BY RegistryAssumption DEF Init
<1> QED
  BY <1>1 DEF Roled

\* A step takes an id, fills a descriptor, gives an id back, or does none of that;
\* but clear_dead_tasks may give back the ids of tasks that are stopped.
LEMMA IdSteps ==
  ASSUME TypeOK, Known, Roled, [Next]_vars
  PROVE  \/ \E p \in Process : \E r \in Rid \ pids :
              /\ p \notin starting /\ ~is(p, "manager")
              /\ pids' = pids \cup {r}
              /\ starting' = starting \cup {p}
              /\ \A x \in Rid :
                   /\ resch_task'[x].task = resch_task[x].task
                   /\ resch_task'[x].pid = IF x = r THEN pid[p] ELSE resch_task[x].pid
              /\ pid'[p] = r
              /\ \A q \in Process \ {p} : pid'[q] = pid[q]
         \/ \E p \in starting :
              /\ UNCHANGED <<pids, pid>>
              /\ starting' = starting \ {p}
              /\ \A x \in Rid :
                   /\ resch_task'[x].task =
                        IF x = pid[p] THEN p ELSE resch_task[x].task
                   /\ resch_task'[x].pid = resch_task[x].pid
         \/ \E p \in Process \ starting :
              /\ pid[p] \in Rid /\ is(p, "task")
              /\ pids' = pids \ {pid[p]}
              /\ pid'[p] = resch_task[pid[p]].pid
              /\ \A q \in Process \ {p} : pid'[q] = pid[q]
              /\ UNCHANGED <<resch_task, starting>>
         \/ /\ pids' \in {pids, clear_dead_tasks}
            /\ UNCHANGED <<pid, starting>>
            /\ \A x \in Rid : /\ resch_task'[x].task = resch_task[x].task
                              /\ resch_task'[x].pid = resch_task[x].pid
<1> DEFINE Taken == \E p \in Process : \E r \in Rid \ pids :
              /\ p \notin starting /\ ~is(p, "manager")
              /\ pids' = pids \cup {r}
              /\ starting' = starting \cup {p}
              /\ \A x \in Rid :
                   /\ resch_task'[x].task = resch_task[x].task
                   /\ resch_task'[x].pid = IF x = r THEN pid[p] ELSE resch_task[x].pid
              /\ pid'[p] = r
              /\ \A q \in Process \ {p} : pid'[q] = pid[q]
           FilledIn == \E p \in starting :
              /\ UNCHANGED <<pids, pid>>
              /\ starting' = starting \ {p}
              /\ \A x \in Rid :
                   /\ resch_task'[x].task =
                        IF x = pid[p] THEN p ELSE resch_task[x].task
                   /\ resch_task'[x].pid = resch_task[x].pid
           Given == \E p \in Process \ starting :
              /\ pid[p] \in Rid /\ is(p, "task")
              /\ pids' = pids \ {pid[p]}
              /\ pid'[p] = resch_task[pid[p]].pid
              /\ \A q \in Process \ {p} : pid'[q] = pid[q]
              /\ UNCHANGED <<resch_task, starting>>
           Else ==
              /\ pids' \in {pids, clear_dead_tasks}
              /\ UNCHANGED <<pid, starting>>
              /\ \A x \in Rid : /\ resch_task'[x].task = resch_task[x].task
                                /\ resch_task'[x].pid = resch_task[x].pid
           Goal == Taken \/ FilledIn \/ Given \/ Else
<1>1. ASSUME NEW p \in Process, p \notin starting, ~is(p, "manager"), attach_resch(p)
      PROVE  Goal
  <2>1. CASE pids' = clear_dead_tasks /\ UNCHANGED <<resch_task, pid, starting>>
    BY <2>1
  <2>2. CASE ~(pids' = clear_dead_tasks /\ UNCHANGED <<resch_task, pid, starting>>)
    <3>1. PICK r \in Rid \ pids :
              /\ pids' = pids \cup {r}
              /\ starting' = starting \cup {p}
              /\ \A x \in Rid :
                   /\ resch_task'[x].task = resch_task[x].task
                   /\ resch_task'[x].pid = IF x = r THEN pid[p] ELSE resch_task[x].pid
              /\ pid'[p] = r
              /\ \A q \in Process \ {p} : pid'[q] = pid[q]
      BY <1>1, <2>2, Attach
    <3> QED
      BY <1>1, <3>1
  <2> QED
    BY <2>1, <2>2
<1>2. ASSUME NEW p \in starting, resch_task_init(p), UNCHANGED <<pids, pid>>
      PROVE  Goal
  <2>1. p \in Process /\ pid[p] \in Rid
    BY <1>2 DEF TypeOK, Known, task_is_managed
  <2>2. /\ starting' = starting \ {p}
        /\ \A x \in Rid :
              /\ resch_task'[x].task = IF x = pid[p] THEN p ELSE resch_task[x].task
              /\ resch_task'[x].pid = resch_task[x].pid
    <3>1. starting' = starting \ {p} /\ Reinitialised(p)
      BY <1>2, <2>1, Initialised
    <3> QED
      BY <3>1 DEF Reinitialised
  <2>3. FilledIn
    BY <1>2, <2>2
  <2> QED
    BY <2>3
<1>3. ASSUME NEW p \in Process, p \notin starting, is(p, "task"), task_is_managed(p),
             detach_resch(p), UNCHANGED <<resch_task, starting>>
      PROVE  Goal
  BY <1>3, Detach DEF task_is_managed
<1>4. ASSUME UNCHANGED <<pids, pid, starting>>,
             \A x \in Rid : /\ resch_task'[x].task = resch_task[x].task
                            /\ resch_task'[x].pid = resch_task[x].pid
      PROVE  Goal
  BY <1>4
<1> HIDE DEF Goal
<1>7. ASSUME NEW p \in Process, api_init(p) PROVE Goal
  BY <1>1, <1>7 DEF api_init, InUserMode, is
<1>8. ASSUME NEW p \in Process, api_init_done(p) PROVE Goal
  BY <1>2, <1>8 DEF api_init_done
<1>9. ASSUME NEW p \in Process, api_run(p) PROVE Goal
  <2>1. /\ RunTask(pid[p]) /\ pid[p] \in Rid
        /\ UNCHANGED <<pids, pid, starting>>
    BY <1>9 DEF api_run, task_is_managed
  <2> QED
    BY <1>4, <2>1, TaskRun
<1>10. ASSUME NEW p \in Process, api_exit(p) PROVE Goal
  BY <1>3, <1>10 DEF api_exit, InUserMode
<1>11. ASSUME NEW p \in Process, kill_handler(p) PROVE Goal
  <2>1. CASE task_is_managed(p)
    BY <1>3, <1>11, <2>1 DEF kill_handler, InUserMode
  <2>2. CASE ~task_is_managed(p)
    BY <1>4, <1>11, <2>2 DEF kill_handler
  <2> QED
    BY <2>1, <2>2
<1>12. ASSUME NEW p \in Process, Signal(p) PROVE Goal
  BY <1>4, <1>12 DEF Signal
<1>13. ASSUME NEW p \in Process, NEW s \in Server, api_set_server(p, s) PROVE Goal
  <2>1. PICK r \in Rid : set_server(r, s, p)
    BY <1>13 DEF api_set_server, TypeOK, task_is_managed
  <2>2. UNCHANGED <<pids, pid, starting>>
    BY <1>13 DEF api_set_server
  <2> QED
    BY <1>4, <2>1, <2>2, ServerSet
<1>14. ASSUME NEW m \in Process, NEW v \in Process, api_reg_task(m, v) PROVE Goal
  <2>1. /\ is(v, "vm") /\ ~task_is_managed(v) /\ attach_resch(v)
    BY <1>14 DEF api_reg_task
  <2>2. v \notin starting /\ ~is(v, "manager")
    BY <2>1 DEF Known, is
  <2> QED
    BY <1>1, <2>1, <2>2
<1>15. ASSUME NEW m \in Process, api_reg_task_done(m) PROVE Goal
  BY <1>2, <1>15 DEF api_reg_task_done
<1>16. ASSUME NEW m \in Process, api_reg_run(m) PROVE Goal
  <2>1. /\ RunTask(prev_reg_task_pid) /\ prev_reg_task_pid \in Rid
        /\ UNCHANGED <<pids, pid, starting>>
    BY <1>16 DEF api_reg_run, TypeOK
  <2> QED
    BY <1>4, <2>1, TaskRun
<1>17. ASSUME memsched_init PROVE Goal
  BY <1>4, <1>17 DEF memsched_init
<1>18. ASSUME memsched_exit PROVE Goal
  BY <1>4, <1>18 DEF memsched_exit
<1>19. ASSUME UNCHANGED vars PROVE Goal
  BY <1>4, <1>19 DEF vars
<1>20. Goal
  BY <1>7, <1>8, <1>9, <1>10, <1>11, <1>12, <1>13, <1>14, <1>15, <1>16, <1>17, <1>18,
     <1>19 DEF Next
<1> QED
  BY <1>20 DEF Goal

LEMMA NextRoled ==
  ASSUME TypeOK, Known, Roled, [Next]_vars
  PROVE  Roled'
<1>0. /\ None \notin Process /\ scenario' = scenario
      /\ vm \in [Process -> Process \cup {None}]
      /\ state \in [Process -> {"running", "stopped", "dead"}]
  <2>1. None \notin Process
    BY RegistryAssumption
  <2>2. scenario' = scenario
    BY DEF Next, vars, api_init, api_init_done, api_run, api_exit, kill_handler, Signal,
       api_set_server, api_reg_task, api_reg_task_done, api_reg_run, memsched_init,
       memsched_exit
  <2> QED
    BY <2>1, <2>2 DEF TypeOK
<1>1. \A p \in Process : is(p, "manager") =>
        p \notin starting' /\ \A r \in Rid : resch_task'[r].task # p
  BY IdSteps DEF Roled
<1>2. \A p \in Process : state'[p] = "stopped" => may(p, "stop")
  <2>1. \/ \E p \in Process : kill_handler(p) \/ Signal(p)
        \/ state' = state
    BY DEF Next, vars, api_init, api_init_done, api_run, api_exit,
       api_set_server, api_reg_task, api_reg_task_done, api_reg_run, memsched_init,
       memsched_exit
  <2>2. ASSUME NEW p \in Process, kill_handler(p) \/ Signal(p)
        PROVE  /\ \A q \in Process \ {p} : state'[q] = state[q]
               /\ state'[p] = "stopped" => may(p, "stop")
    BY <1>0, <2>2 DEF kill_handler, Signal
  <2> QED
    BY <2>1, <2>2 DEF Roled
<1>3. \A p \in Process : is(p, "vm") /\ pid[p] \in Rid => pid'[p] \in Rid
  <2>1. \A p \in Process : is(p, "vm") => ~is(p, "task")
    BY DEF is
  <2> HIDE DEF is
  <2> QED
    BY <2>1, IdSteps
<1> DEFINE Registered(m) == /\ is(m, "manager") /\ is(vm'[m], "vm")
                            /\ pid'[vm'[m]] \in Rid
<1>4. ASSUME NEW m \in Process, vm'[m] # None PROVE Registered(m)
  <2>1. CASE vm'[m] = vm[m]
    <3>1. vm[m] \in Process
      BY <1>0, <1>4, <2>1
    <3>2. is(m, "manager") /\ is(vm[m], "vm") /\ pid[vm[m]] \in Rid
      BY <1>4, <2>1, <3>1 DEF Roled, task_is_managed
    <3> HIDE DEF is
    <3> QED
      BY <1>3, <2>1, <3>1, <3>2
  <2>2. CASE vm'[m] # vm[m]
    <3>1. \/ \E n, v \in Process : api_reg_task(n, v)
          \/ \E n \in Process : vm' = [vm EXCEPT ![n] = None]
          \/ vm' = vm
      BY DEF Next, vars, api_init, api_init_done, api_run, api_exit, kill_handler, Signal,
         api_set_server, api_reg_task_done, api_reg_run, memsched_init, memsched_exit
    <3>2. PICK n \in Process, v \in Process : api_reg_task(n, v)
      BY <1>0, <1>4, <2>2, <3>1
    <3>3. /\ is(n, "manager") /\ is(v, "vm") /\ ~task_is_managed(v) /\ attach_resch(v)
          /\ vm' = [vm EXCEPT ![n] = IF v \in starting' THEN v ELSE None]
      BY <3>2 DEF api_reg_task
    <3>4. n = m /\ vm'[m] = v /\ v \in starting'
      BY <1>0, <1>4, <2>2, <3>3
    <3>5. v \notin starting
      BY <3>3 DEF Known
    <3>6. pid'[v] \in Rid
      BY <3>3, <3>4, <3>5, Attach
    <3> QED
      BY <3>3, <3>4, <3>6
  <2> QED
    BY <2>1, <2>2
<1> QED
  BY <1>0, <1>1, <1>2, <1>4 DEF Roled, is, may, task_is_managed

\* Only tasks are freed that are stopped, and no task is.
LEMMA NoneDead ==
  ASSUME TypeOK, Roled, NoTaskStops
  PROVE  clear_dead_tasks = pids
<1> SUFFICES ASSUME NEW r \in Rid, resch_task[r].task # None,
                    state[resch_task[r].task] = "stopped"
             PROVE  FALSE
  BY DEF clear_dead_tasks
<1> DEFINE p == resch_task[r].task
<1>1. p \in Process
  BY DEF TypeOK
<1>2. "stop" \in scenario[p].does /\ scenario \in Scenarios
  BY <1>1 DEF Roled, may, TypeOK
<1>3. is(p, "manager")
  BY <1>1, <1>2 DEF NoTaskStops, is
<1> QED
  BY <1>1, <1>3 DEF Roled

\* The links of a chain that ends with pid x, along the pids that are saved.
Chained(s, saved, x) ==
  IF s = <<>> THEN x \notin Rid
  ELSE /\ s[Len(s)] = x
       /\ \A i \in 2 .. Len(s) : saved[s[i]] = s[i - 1]
       /\ saved[s[1]] \notin Rid

\* A chain is not longer than another one with the same end, and its elements are
\* those of the other one, counted from the end.
LEMMA ChainPrefix ==
  ASSUME NEW saved, NEW x, NEW s \in Seq(Rid), NEW t \in Seq(Rid),
         Chained(s, saved, x), Chained(t, saved, x), s # <<>>, t # <<>>
  PROVE  /\ Len(s) <= Len(t)
         /\ \A k \in 0 .. Len(s) - 1 : s[Len(s) - k] = t[Len(t) - k]
<1>0. /\ Len(s) \in Nat \ {0} /\ Len(t) \in Nat \ {0}
      /\ s[Len(s)] = x /\ t[Len(t)] = x
      /\ \A i \in 2 .. Len(s) : saved[s[i]] = s[i - 1]
      /\ \A i \in 2 .. Len(t) : saved[t[i]] = t[i - 1]
      /\ saved[s[1]] \notin Rid /\ saved[t[1]] \notin Rid
      /\ \A i \in 1 .. Len(s) : s[i] \in Rid
      /\ \A i \in 1 .. Len(t) : t[i] \in Rid
  BY EmptySeq, LenProperties, ElementOfSeq DEF Chained
<1> DEFINE Bad == {k \in 0 .. Len(s) - 1 : k >= Len(t) \/ s[Len(s) - k] # t[Len(t) - k]}
<1>1. Bad = {}
  <2> SUFFICES ASSUME Bad # {} PROVE FALSE
    OBVIOUS
  <2>1. Bad \in SUBSET Nat
    OBVIOUS
  <2>2. PICK k \in Bad : \A y \in Bad : k <= y
    <3> HIDE DEF Bad
    <3> QED
      BY <2>1, NatMin
  <2>3. k # 0
    BY <1>0, <2>2
  <2>4. k \in 1 .. Len(s) - 1 /\ (k >= Len(t) \/ s[Len(s) - k] # t[Len(t) - k])
    BY <1>0, <2>2, <2>3
  <2>5. k - 1 < Len(t) /\ s[Len(s) - (k - 1)] = t[Len(t) - (k - 1)]
    <3>1. k - 1 \notin Bad
      <4> HIDE DEF Bad
      <4>1. k \in Int /\ \A y \in Bad : k <= y
        BY <2>2, <2>4
      <4>2. ~(k <= k - 1)
        BY <4>1
      <4> QED
        BY <4>1, <4>2
    <3> QED
      BY <1>0, <2>4, <3>1
  <2> HIDE DEF Bad
  <2>6. saved[s[Len(s) - (k - 1)]] = s[Len(s) - k] /\ s[Len(s) - k] \in Rid
    <3>1. Len(s) - (k - 1) \in 2 .. Len(s) /\ (Len(s) - (k - 1)) - 1 = Len(s) - k
          /\ Len(s) - k \in 1 .. Len(s)
      BY <1>0, <2>4
    <3> QED
      BY <1>0, <3>1
  <2>7. CASE k >= Len(t)
    <3>1. Len(t) - (k - 1) = 1
      BY <1>0, <2>4, <2>5, <2>7
    <3> QED
      BY <1>0, <2>5, <2>6, <3>1
  <2>8. CASE k < Len(t)
    <3>1. Len(t) - (k - 1) \in 2 .. Len(t) /\ (Len(t) - (k - 1)) - 1 = Len(t) - k
      BY <1>0, <2>4, <2>8
    <3>2. saved[t[Len(t) - (k - 1)]] = t[Len(t) - k]
      BY <1>0, <3>1
    <3> QED
      BY <1>0, <2>4, <2>5, <2>6, <2>8, <3>2
  <2> QED
    BY <1>0, <2>4, <2>7, <2>8
<1>2. ASSUME NEW k \in 0 .. Len(s) - 1
      PROVE  k < Len(t) /\ s[Len(s) - k] = t[Len(t) - k]
  <2>1. ~(k >= Len(t)) /\ s[Len(s) - k] = t[Len(t) - k]
    BY <1>1
  <2>2. k \in Int /\ Len(t) \in Int
    BY <1>0
  <2> QED
    BY <2>1, <2>2
<1>3. Len(s) - 1 < Len(t)
  BY <1>0, <1>2
<1> QED
  BY <1>0, <1>2, <1>3

\* There is one chain, and CHOOSE finds it.
LEMMA OneChain ==
  ASSUME NEW saved, NEW x, NEW s \in Seq(Rid), Chained(s, saved, x),
         \A i, j \in 1 .. Len(s) : s[i] = s[j] => i = j
  PROVE  (CHOOSE t \in UNION {[1 .. n -> Rid] : n \in 0 .. NR_RT_TASKS} :
            Chained(t, saved, x)) = s
<1> DEFINE Short == UNION {[1 .. n -> Rid] : n \in 0 .. NR_RT_TASKS}
<1>0. NR_RT_TASKS \in Nat /\ Len(s) \in Nat /\ s \in [1 .. Len(s) -> Rid]
  BY RegistryAssumption, LenProperties
<1>1. Len(s) <= NR_RT_TASKS
  <2> SUFFICES ASSUME Len(s) > NR_RT_TASKS PROVE FALSE
    BY <1>0
  <2>1. IsFiniteSet(1 .. Len(s)) /\ Cardinality(1 .. Len(s)) = Len(s)
    <3>1. 1 \in Int /\ Len(s) \in Int
      BY <1>0
    <3>2. /\ IsFiniteSet(1 .. Len(s))
          /\ Cardinality(1 .. Len(s)) = IF 1 > Len(s) THEN 0 ELSE Len(s) - 1 + 1
      BY <3>1, FS_Interval
    <3> QED
      BY <1>0, <3>2
  <2>2. IsFiniteSet(Rid) /\ Cardinality(Rid) = NR_RT_TASKS
    <3>1. 0 \in Int /\ NR_RT_TASKS - 1 \in Int
      BY <1>0
    <3>2. /\ IsFiniteSet(0 .. NR_RT_TASKS - 1)
          /\ Cardinality(0 .. NR_RT_TASKS - 1) =
               IF 0 > NR_RT_TASKS - 1 THEN 0 ELSE NR_RT_TASKS - 1 - 0 + 1
      BY <3>1, FS_Interval
    <3> QED
      BY <1>0, <3>2, RegistryAssumption DEF Rid
  <2>3. \E i, j \in 1 .. Len(s) : i # j /\ s[i] = s[j]
    <3>1. Cardinality(Rid) < Cardinality(1 .. Len(s))
      BY <1>0, <2>1, <2>2
    <3> QED
      BY <1>0, <2>1, <2>2, <3>1, FS_PigeonHole
  <2> QED
    BY <2>3
<1>2. s \in Short
  BY <1>0, <1>1
<1>3. \A t \in Short : t \in Seq(Rid)
  <2> SUFFICES ASSUME NEW n \in 0 .. NR_RT_TASKS, NEW t \in [1 .. n -> Rid]
               PROVE  t \in Seq(Rid)
    OBVIOUS
  <2> QED
    BY <1>0, SeqDef
<1> HIDE DEF Short
<1>4. ASSUME NEW t \in Short, Chained(t, saved, x) PROVE t = s
  <2>0. t \in Seq(Rid)
    BY <1>3
  <2>1. CASE s = <<>>
    <3> SUFFICES ASSUME t # <<>> PROVE FALSE
      BY <2>1
    <3>1. Len(t) \in 1 .. Len(t) /\ t[Len(t)] = x
      BY <1>4, <2>0, EmptySeq, LenProperties DEF Chained
    <3>2. x \notin Rid
      BY <2>1 DEF Chained
    <3> QED
      BY <2>0, <3>1, <3>2, ElementOfSeq
  <2>2. CASE s # <<>> /\ t = <<>>
    <3>1. Len(s) \in 1 .. Len(s) /\ s[Len(s)] = x
      BY <2>2, EmptySeq, LenProperties DEF Chained
    <3>2. x \notin Rid
      BY <1>4, <2>2 DEF Chained
    <3> QED
      BY <3>1, <3>2, ElementOfSeq
  <2>3. CASE s # <<>> /\ t # <<>>
    <3>1. /\ Len(s) <= Len(t) /\ Len(t) <= Len(s)
          /\ \A k \in 0 .. Len(s) - 1 : s[Len(s) - k] = t[Len(t) - k]
      BY <1>4, <2>0, <2>3, ChainPrefix
    <3>2. Len(s) = Len(t) /\ Len(s) \in Nat
      BY <2>0, <3>1, LenProperties
    <3>3. ASSUME NEW i \in 1 .. Len(s) PROVE s[i] = t[i]
      <4>1. Len(s) - i \in 0 .. Len(s) - 1 /\ Len(s) - (Len(s) - i) = i
        BY <3>2
      <4> QED
        BY <3>1, <3>2, <4>1
    <3> QED
      BY <2>0, <3>2, <3>3, SeqEqual
  <2> QED
    BY <2>1, <2>2, <2>3
<1>5. (CHOOSE t \in Short : Chained(t, saved, x)) \in Short
      /\ Chained((CHOOSE t \in Short : Chained(t, saved, x)), saved, x)
  BY <1>2
<1> QED
  BY <1>4, <1>5 DEF Short

InitHeld == [p \in Process |-> <<>>]

LEMMA InitHolds == Init => Holds(InitHeld)
<1> SUFFICES ASSUME Init PROVE Holds(InitHeld)
  OBVIOUS
<1>1. InitHeld \in [Process -> Seq(Rid)] /\ \A p \in Process : InitHeld[p] = <<>>
  BY DEF InitHeld
<1>2. \A p \in Process : Len(InitHeld[p]) = 0
  BY <1>1
<1>3. \A p \in Process : ~task_is_managed(p)
  <2>1. Process \cap Rid = {}
    BY RegistryAssumption DEF Rid
  <2> QED
    BY <2>1 DEF Init, task_is_managed
<1>4. \A p \in Process : IsChain(InitHeld[p], p)
  BY <1>1, <1>3 DEF IsChain
<1> HIDE DEF InitHeld
<1> QED
  BY <1>1, <1>2, <1>4 DEF Holds

\* Take and Give of Ids.
Takes(h, g) ==
  \E p \in Process : \E r \in Rid :
    /\ \A q \in Process : \A j \in 1 .. Len(h[q]) : h[q][j] # r
    /\ g = [h EXCEPT ![p] = Append(@, r)]
Gives(h, g) ==
  \E p \in Process : /\ h[p] # <<>>
                     /\ g = [h EXCEPT ![p] = SubSeq(@, 1, Len(@) - 1)]

LEMMA NextHolds ==
  ASSUME TypeOK, Known, Roled, NoTaskStops, [Next]_vars,
         NEW h, Holds(h)
  PROVE  \E g : Holds(g)' /\ (g = h \/ Takes(h, g) \/ Gives(h, g))
<1>0. /\ h \in [Process -> Seq(Rid)]
      /\ \A p \in Process : Len(h[p]) \in Nat /\ \A i \in 1 .. Len(h[p]) : h[p][i] \in Rid
      /\ Process \cap Rid = {}
      /\ pids \subseteq Rid
  <2>1. h \in [Process -> Seq(Rid)]
    BY DEF Holds
  <2>2. \A p \in Process : Len(h[p]) \in Nat /\ \A i \in 1 .. Len(h[p]) : h[p][i] \in Rid
    BY <2>1, LenProperties, ElementOfSeq
  <2>3. Process \cap Rid = {}
    BY RegistryAssumption DEF Rid
  <2> QED
    BY <2>1, <2>2, <2>3 DEF TypeOK
<1>1. /\ \A p \in Process : h[p] = <<>> => pid[p] \notin Rid
      /\ \A p \in Process : h[p] # <<>> =>
           /\ Len(h[p]) \in 1 .. Len(h[p])
           /\ h[p][Len(h[p])] = pid[p]
           /\ \A i \in 2 .. Len(h[p]) : resch_task[h[p][i]].pid = h[p][i - 1]
           /\ resch_task[h[p][1]].pid \notin Rid
  <2>1. \A p \in Process : h[p] # <<>> => Len(h[p]) \in 1 .. Len(h[p])
    BY <1>0, EmptySeq
  <2> QED
    BY <2>1 DEF Holds, IsChain, task_is_managed
<1>2. /\ \A p, q \in Process : \A i \in 1 .. Len(h[p]), j \in 1 .. Len(h[q]) :
           h[p][i] = h[q][j] => p = q /\ i = j
      /\ \A p \in Process : \A i \in 1 .. Len(h[p]) :
           /\ h[p][i] \in pids
           /\ resch_task[h[p][i]].task = p \/ (p \in starting /\ i = Len(h[p]))
  BY DEF Holds
<1> DEFINE Done == \E g : Holds(g)' /\ (g = h \/ Takes(h, g) \/ Gives(h, g))
\* What must be shown of g in the next state.
<1>3. ASSUME NEW g \in [Process -> Seq(Rid)],
             \A p \in Process : g[p] = <<>> => pid'[p] \notin Rid,
             \A p \in Process : g[p] # <<>> =>
               /\ g[p][Len(g[p])] = pid'[p]
               /\ \A i \in 2 .. Len(g[p]) : resch_task'[g[p][i]].pid = g[p][i - 1]
               /\ resch_task'[g[p][1]].pid \notin Rid,
             \A p, q \in Process : \A i \in 1 .. Len(g[p]), j \in 1 .. Len(g[q]) :
               g[p][i] = g[q][j] => p = q /\ i = j,
             \A p \in Process : \A i \in 1 .. Len(g[p]) :
               /\ g[p][i] \in pids'
               /\ \/ resch_task'[g[p][i]].task = p
                  \/ p \in starting' /\ i = Len(g[p])
      PROVE  Holds(g)'
  BY <1>3 DEF Holds, IsChain, task_is_managed
\* An id is taken.
<1>4. ASSUME NEW p \in Process, NEW r \in Rid \ pids,
             p \notin starting,
             pids' = pids \cup {r},
             starting' = starting \cup {p},
             \A x \in Rid :
               /\ resch_task'[x].task = resch_task[x].task
               /\ resch_task'[x].pid = IF x = r THEN pid[p] ELSE resch_task[x].pid,
             pid'[p] = r,
             \A q \in Process \ {p} : pid'[q] = pid[q]
      PROVE  Done
  <2> DEFINE n == Len(h[p])
             new == Append(h[p], r)
             g == [h EXCEPT ![p] = new]
  <2>1. \A q \in Process : \A j \in 1 .. Len(h[q]) : h[q][j] # r
    BY <1>2, <1>4
  <2>2. /\ new \in Seq(Rid) /\ Len(new) = n + 1 /\ new # <<>>
        /\ \A i \in 1 .. n : new[i] = h[p][i]
        /\ new[n + 1] = r
    BY <1>0, AppendProperties, EmptySeq
  <2> HIDE DEF new
  <2>3. /\ g \in [Process -> Seq(Rid)]
        /\ g[p] = new
        /\ \A q \in Process \ {p} : g[q] = h[q]
    BY <1>0, <2>2
  <2>4. Takes(h, g)
    BY <2>1 DEF Takes, new
  <2> HIDE DEF g
  <2>5. \A q \in Process : g[q] = <<>> => pid'[q] \notin Rid
    BY <1>1, <1>4, <2>2, <2>3
  <2>6. \A q \in Process : g[q] # <<>> =>
          /\ g[q][Len(g[q])] = pid'[q]
          /\ \A i \in 2 .. Len(g[q]) : resch_task'[g[q][i]].pid = g[q][i - 1]
          /\ resch_task'[g[q][1]].pid \notin Rid
    <3>1. ASSUME NEW q \in Process \ {p}, h[q] # <<>>
          PROVE  /\ h[q][Len(h[q])] = pid'[q]
                 /\ \A i \in 2 .. Len(h[q]) : resch_task'[h[q][i]].pid = h[q][i - 1]
                 /\ resch_task'[h[q][1]].pid \notin Rid
      <4>1. \A i \in 1 .. Len(h[q]) : resch_task'[h[q][i]].pid = resch_task[h[q][i]].pid
        BY <1>0, <1>4, <2>1
      <4>2. 1 \in 1 .. Len(h[q]) /\ \A i \in 2 .. Len(h[q]) : i \in 1 .. Len(h[q])
        BY <1>0, <1>1, <3>1
      <4> QED
        BY <1>1, <1>4, <3>1, <4>1, <4>2
    <3>2. \A i \in 2 .. n + 1 : resch_task'[new[i]].pid = new[i - 1]
      <4> SUFFICES ASSUME NEW i \in 2 .. n + 1 PROVE resch_task'[new[i]].pid = new[i - 1]
        OBVIOUS
      <4>1. CASE i = n + 1
        <5>1. n \in 1 .. n /\ i - 1 = n
          BY <1>0, <4>1
        <5>2. h[p] # <<>>
          BY <5>1, EmptySeq
        <5>3. resch_task'[new[i]].pid = pid[p]
          BY <1>4, <2>2, <4>1
        <5> QED
          BY <1>1, <2>2, <5>1, <5>2, <5>3
      <4>2. CASE i # n + 1
        <5>1. i \in 2 .. n /\ i \in 1 .. n /\ i - 1 \in 1 .. n
          BY <1>0, <4>2
        <5>2. h[p] # <<>>
          BY <5>1, EmptySeq
        <5>3. /\ new[i] = h[p][i] /\ new[i - 1] = h[p][i - 1]
              /\ h[p][i] # r /\ h[p][i] \in Rid
          BY <1>0, <2>1, <2>2, <5>1
        <5>4. resch_task[h[p][i]].pid = h[p][i - 1]
          BY <1>1, <5>1, <5>2
        <5> QED
          BY <1>4, <5>3, <5>4
      <4> QED
        BY <4>1, <4>2
    <3>3. resch_task'[new[1]].pid \notin Rid
      <4>1. CASE h[p] = <<>>
        <5>1. new[1] = r
          BY <2>2, <4>1, EmptySeq
        <5> QED
          BY <1>1, <1>4, <4>1, <5>1
      <4>2. CASE h[p] # <<>>
        <5>1. 1 \in 1 .. n
          BY <1>0, <1>1, <4>2
        <5>2. new[1] = h[p][1] /\ h[p][1] # r /\ h[p][1] \in Rid
          BY <1>0, <2>1, <2>2, <5>1
        <5> QED
          BY <1>1, <1>4, <4>2, <5>2
      <4> QED
        BY <4>1, <4>2
    <3>4. new[Len(new)] = pid'[p]
      BY <1>4, <2>2
    <3> QED
      BY <2>2, <2>3, <3>1, <3>2, <3>3, <3>4
  <2>7. \A q, s \in Process : \A i \in 1 .. Len(g[q]), j \in 1 .. Len(g[s]) :
          g[q][i] = g[s][j] => q = s /\ i = j
    <3>1. \A q \in Process : \A i \in 1 .. Len(g[q]) :
            \/ i \in 1 .. Len(h[q]) /\ g[q][i] = h[q][i]
            \/ q = p /\ i = n + 1 /\ g[q][i] = r
      BY <1>0, <2>2, <2>3, SMTT(40)
    <3> QED
      BY <1>2, <2>1, <3>1, SMTT(40)
  <2>8. \A q \in Process : \A i \in 1 .. Len(g[q]) :
          /\ g[q][i] \in pids'
          /\ resch_task'[g[q][i]].task = q \/ (q \in starting' /\ i = Len(g[q]))
    <3>1. ASSUME NEW q \in Process \ {p}, NEW i \in 1 .. Len(h[q])
          PROVE  /\ h[q][i] \in pids'
                 /\ resch_task'[h[q][i]].task = q \/ (q \in starting' /\ i = Len(h[q]))
      BY <1>0, <1>2, <1>4
    <3>2. ASSUME NEW i \in 1 .. n + 1
          PROVE  /\ new[i] \in pids'
                 /\ resch_task'[new[i]].task = p \/ (p \in starting' /\ i = n + 1)
      BY <1>0, <1>2, <1>4, <2>2
    <3> QED
      BY <2>2, <2>3, <3>1, <3>2
  <2>9. Holds(g)'
    BY <1>3, <2>3, <2>5, <2>6, <2>7, <2>8
  <2> QED
    BY <2>4, <2>9
\* A descriptor is filled.
<1>5. ASSUME NEW p \in starting,
             UNCHANGED <<pids, pid>>,
             starting' = starting \ {p},
             \A x \in Rid :
               /\ resch_task'[x].task = IF x = pid[p] THEN p ELSE resch_task[x].task
               /\ resch_task'[x].pid = resch_task[x].pid
      PROVE  Done
  <2>1. p \in Process
    BY <1>5 DEF TypeOK
  <2>2. \A q \in Process : \A i \in 1 .. Len(h[q]) :
          /\ h[q][i] \in pids'
          /\ resch_task'[h[q][i]].task = q \/ (q \in starting' /\ i = Len(h[q]))
    <3> SUFFICES ASSUME NEW q \in Process, NEW i \in 1 .. Len(h[q])
                 PROVE  resch_task'[h[q][i]].task = q \/ (q \in starting' /\ i = Len(h[q]))
      BY <1>2, <1>5
    <3>1. h[q] # <<>>
      BY EmptySeq
    <3>2. h[q][Len(h[q])] = pid[q] /\ Len(h[q]) \in 1 .. Len(h[q]) /\ h[q][i] \in Rid
      BY <1>0, <1>1, <3>1
    <3>3. h[q][i] = pid[p] => q = p
      <4> SUFFICES ASSUME h[q][i] = pid[p] PROVE q = p
        OBVIOUS
      <4>1. pid[p] \in Rid
        BY <3>2
      <4>2. h[p] # <<>>
        BY <1>1, <2>1, <4>1
      <4>3. h[p][Len(h[p])] = pid[p] /\ Len(h[p]) \in 1 .. Len(h[p])
        BY <1>1, <2>1, <4>2
      <4> QED
        BY <1>2, <2>1, <4>3
    <3> QED
      BY <1>2, <1>5, <3>2, <3>3
  <2>3. \A q \in Process : h[q] # <<>> =>
          /\ h[q][Len(h[q])] = pid'[q]
          /\ \A i \in 2 .. Len(h[q]) : resch_task'[h[q][i]].pid = h[q][i - 1]
          /\ resch_task'[h[q][1]].pid \notin Rid
    BY <1>0, <1>1, <1>5
  <2>4. \A q \in Process : h[q] = <<>> => pid'[q] \notin Rid
    BY <1>1, <1>5
  <2>5. Holds(h)'
    BY <1>0, <1>2, <1>3, <2>2, <2>3, <2>4
  <2> QED
    BY <2>5
\* An id is given back.
<1>6. ASSUME NEW p \in Process \ starting, pid[p] \in Rid,
             pids' = pids \ {pid[p]},
             pid'[p] = resch_task[pid[p]].pid,
             \A q \in Process \ {p} : pid'[q] = pid[q],
             UNCHANGED <<resch_task, starting>>
      PROVE  Done
  <2> DEFINE n == Len(h[p])
             rest == SubSeq(h[p], 1, n - 1)
             g == [h EXCEPT ![p] = rest]
  <2>1. h[p] # <<>> /\ n \in Nat \ {0} /\ h[p][n] = pid[p]
    BY <1>0, <1>1, <1>6
  <2>2. /\ rest \in Seq(Rid) /\ Len(rest) = n - 1
        /\ \A i \in 1 .. n - 1 : rest[i] = h[p][i]
    <3>1. h[p] \in Seq(Rid) /\ 1 \in 1 .. Len(h[p]) + 1 /\ n - 1 \in 1 - 1 .. Len(h[p])
      BY <1>0, <2>1
    <3> QED
      BY <2>1, <3>1, SubSeqProperties
  <2> HIDE DEF rest
  <2>3. /\ g \in [Process -> Seq(Rid)]
        /\ g[p] = rest
        /\ \A q \in Process \ {p} : g[q] = h[q]
    BY <1>0, <2>2
  <2>4. Gives(h, g)
    BY <2>1 DEF Gives, rest
  <2> HIDE DEF g
  <2>5. n = 1 => rest = <<>>
    BY <2>2, EmptySeq
  <2>6. \A q \in Process : g[q] = <<>> => pid'[q] \notin Rid
    <3>1. rest = <<>> => pid'[p] \notin Rid
      <4> SUFFICES ASSUME rest = <<>> PROVE pid'[p] \notin Rid
        OBVIOUS
      <4>1. Len(rest) = 0
        OBVIOUS
      <4>2. n = 1
        BY <2>1, <2>2, <4>1
      <4> QED
        BY <1>1, <1>6, <2>1, <4>2
    <3> QED
      BY <1>1, <1>6, <2>3, <3>1
  <2>7. \A q \in Process : g[q] # <<>> =>
          /\ g[q][Len(g[q])] = pid'[q]
          /\ \A i \in 2 .. Len(g[q]) : resch_task'[g[q][i]].pid = g[q][i - 1]
          /\ resch_task'[g[q][1]].pid \notin Rid
    <3>1. ASSUME rest # <<>>
          PROVE  /\ rest[Len(rest)] = pid'[p]
                 /\ \A i \in 2 .. Len(rest) : resch_task'[rest[i]].pid = rest[i - 1]
                 /\ resch_task'[rest[1]].pid \notin Rid
      <4>1. n \in 2 .. n /\ n - 1 \in 1 .. n - 1 /\ 1 \in 1 .. n - 1
        <5>1. n # 1
          BY <2>5, <3>1
        <5> HIDE DEF n
        <5> QED
          BY <2>1, <5>1
      <4>2. rest[Len(rest)] = h[p][n - 1] /\ rest[1] = h[p][1]
        BY <2>2, <4>1
      <4>3. resch_task[h[p][n]].pid = h[p][n - 1]
        BY <1>1, <2>1, <4>1
      <4>4. \A i \in 2 .. n - 1 : /\ i \in 2 .. n
                                  /\ rest[i] = h[p][i] /\ rest[i - 1] = h[p][i - 1]
        BY <2>1, <2>2
      <4>5. \A i \in 2 .. Len(rest) : resch_task'[rest[i]].pid = rest[i - 1]
        <5>1. \A i \in 2 .. n : resch_task[h[p][i]].pid = h[p][i - 1]
          BY <1>1, <2>1
        <5> HIDE DEF n
        <5> QED
          BY <1>6, <2>2, <4>4, <5>1
      <4> QED
        BY <1>1, <1>6, <2>1, <4>2, <4>3, <4>5
    <3> QED
      BY <1>1, <1>6, <2>3, <3>1
  <2>8. \A q \in Process : \A i \in 1 .. Len(g[q]) :
          /\ i \in 1 .. Len(h[q]) /\ g[q][i] = h[q][i]
          /\ q = p => i # n
    BY <1>0, <2>1, <2>2, <2>3, SMTT(40)
  <2>9. \A q, s \in Process : \A i \in 1 .. Len(g[q]), j \in 1 .. Len(g[s]) :
          g[q][i] = g[s][j] => q = s /\ i = j
    BY <1>2, <2>8
  <2>10. \A q \in Process : \A i \in 1 .. Len(g[q]) :
           /\ g[q][i] \in pids'
           /\ resch_task'[g[q][i]].task = q \/ (q \in starting' /\ i = Len(g[q]))
    <3> SUFFICES ASSUME NEW q \in Process, NEW i \in 1 .. Len(g[q])
                 PROVE  /\ h[q][i] \in pids'
                        /\ \/ resch_task[h[q][i]].task = q
                           \/ q \in starting /\ i = Len(g[q])
      BY <1>6, <2>8
    <3>1. i \in 1 .. Len(h[q]) /\ (q = p => i # n)
      BY <2>8
    <3>2. h[q][i] # pid[p]
      BY <1>2, <2>1, <3>1
    <3>3. q # p => g[q] = h[q]
      BY <2>3
    <3> QED
      BY <1>2, <1>6, <3>1, <3>2, <3>3
  <2>11. Holds(g)'
    BY <1>3, <2>3, <2>6, <2>7, <2>9, <2>10
  <2> QED
    BY <2>4, <2>11
\* Neither.
<1>7. ASSUME UNCHANGED <<pids, pid, starting>>,
             \A x \in Rid : /\ resch_task'[x].task = resch_task[x].task
                            /\ resch_task'[x].pid = resch_task[x].pid
      PROVE  Done
  <2>1. \A q \in Process : h[q] # <<>> =>
          /\ h[q][Len(h[q])] = pid'[q]
          /\ \A i \in 2 .. Len(h[q]) : resch_task'[h[q][i]].pid = h[q][i - 1]
          /\ resch_task'[h[q][1]].pid \notin Rid
    BY <1>0, <1>1, <1>7
  <2>2. \A q \in Process : h[q] = <<>> => pid'[q] \notin Rid
    BY <1>1, <1>7
  <2>3. \A q \in Process : \A i \in 1 .. Len(h[q]) :
          /\ h[q][i] \in pids'
          /\ resch_task'[h[q][i]].task = q \/ (q \in starting' /\ i = Len(h[q]))
    BY <1>0, <1>2, <1>7
  <2>4. Holds(h)'
    BY <1>0, <1>2, <1>3, <2>1, <2>2, <2>3
  <2> QED
    BY <2>4
<1> HIDE DEF Done
<1>8. clear_dead_tasks = pids
  BY NoneDead
<1>9. Done
  BY <1>4, <1>5, <1>6, <1>7, <1>8, IdSteps
<1> QED
  BY <1>9 DEF Done

\* Held is what Holds says.
Holding == [p \in Process |-> Held(p)]
HoldingIs(h) == Holds(h) => Holding = h
OneHolding == \A h : HoldingIs(h)
SomeHolding == \E h : Holds(h)

LEMMA HeldIs == OneHolding
<1> SUFFICES ASSUME NEW h, Holds(h)
             PROVE  [p \in Process |-> Held(p)] = h
  BY DEF OneHolding, HoldingIs, Holding
<1>1. ASSUME NEW p \in Process PROVE Held(p) = h[p]
  <2> DEFINE saved == [r \in Rid |-> resch_task[r].pid]
  <2>1. h[p] \in Seq(Rid) /\ \A i, j \in 1 .. Len(h[p]) : h[p][i] = h[p][j] => i = j
    BY DEF Holds
  <2>2. ASSUME NEW s \in Seq(Rid) PROVE IsChain(s, p) <=> Chained(s, saved, pid[p])
    <3>1. CASE s = <<>>
      BY <3>1 DEF IsChain, Chained, task_is_managed
    <3>2. CASE s # <<>>
      <4>1. /\ \A i \in 1 .. Len(s) : s[i] \in Rid
            /\ 1 \in 1 .. Len(s) /\ \A i \in 2 .. Len(s) : i \in 1 .. Len(s)
        BY <2>2, <3>2, EmptySeq, LenProperties, ElementOfSeq
      <4>2. \A i \in 1 .. Len(s) : saved[s[i]] = resch_task[s[i]].pid
        BY <4>1
      <4> QED
        BY <3>2, <4>1, <4>2 DEF IsChain, Chained
    <3> QED
      BY <3>1, <3>2
  <2> HIDE DEF saved
  <2> DEFINE Short == UNION {[1 .. n -> Rid] : n \in 0 .. NR_RT_TASKS}
  <2>3. Chained(h[p], saved, pid[p])
    BY <2>1, <2>2 DEF Holds
  <2>4. (CHOOSE t \in Short : Chained(t, saved, pid[p])) = h[p]
    BY <2>1, <2>3, OneChain
  <2>5. \A t \in Short : IsChain(t, p) <=> Chained(t, saved, pid[p])
    <3>1. \A t \in Short : t \in Seq(Rid)
      <4> SUFFICES ASSUME NEW n \in 0 .. NR_RT_TASKS, NEW t \in [1 .. n -> Rid]
                   PROVE  t \in Seq(Rid)
        OBVIOUS
      <4>1. n \in Nat
        BY RegistryAssumption
      <4> QED
        BY <4>1, SeqDef
    <3> QED
      BY <2>2, <3>1
  <2> HIDE DEF Short
  <2>6. (CHOOSE t \in Short : IsChain(t, p)) = (CHOOSE t \in Short : Chained(t, saved, pid[p]))
    BY <2>5
  <2> QED
    BY <2>4, <2>6 DEF Held, Short
<1> QED
  <2>1. h \in [Process -> Seq(Rid)]
    BY DEF Holds
  <2> HIDE DEF Held
  <2> QED
    BY <1>1, <2>1

LEMMA RefinesIds ==
  ASSUME TypeOK, Known, Roled, NoTaskStops, [Next]_vars,
         SomeHolding, OneHolding, OneHolding'
  PROVE  SomeHolding' /\ (IdTable!Next \/ Holding' = Holding)
<1>1. PICK h : Holds(h)
  BY DEF SomeHolding
<1>2. PICK g : Holds(g)' /\ (g = h \/ Takes(h, g) \/ Gives(h, g))
  BY <1>1, NextHolds
<1>3. SomeHolding'
  BY <1>2 DEF SomeHolding
<1>4. Holding = h
  BY <1>1 DEF OneHolding, HoldingIs
<1>5. Holding' = g
  BY <1>2 DEF OneHolding, HoldingIs
<1>6. h \in [Process -> Seq(Rid)]
  BY <1>1 DEF Holds
<1>7. ASSUME NEW p \in Process PROVE IdTable!IdsOf(p) = {h[p][i] : i \in DOMAIN h[p]}
  BY <1>4 DEF IdTable!IdsOf, Holding
<1>8. ASSUME Takes(h, g) PROVE IdTable!Next
  <2>1. PICK p \in Process, r \in Rid :
          /\ \A q \in Process : \A j \in 1 .. Len(h[q]) : h[q][j] # r
          /\ g = [h EXCEPT ![p] = Append(@, r)]
    BY <1>8 DEF Takes
  <2>2. r \in Rid \ UNION {IdTable!IdsOf(q) : q \in Process}
    BY <1>6, <1>7, <2>1, LenProperties
  <2>3. Holding' = [Holding EXCEPT ![p] = Append(@, r)]
    BY <1>4, <1>5, <2>1
  <2>4. IdTable!Take(p)
    BY <2>2, <2>3 DEF IdTable!Take, Holding
  <2> QED
    BY <2>4 DEF IdTable!Next
<1>9. ASSUME Gives(h, g) PROVE IdTable!Next
  <2>1. PICK p \in Process : /\ h[p] # <<>>
                             /\ g = [h EXCEPT ![p] = SubSeq(@, 1, Len(@) - 1)]
    BY <1>9 DEF Gives
  <2>2. Holding[p] # <<>> /\ Holding' = [Holding EXCEPT ![p] = SubSeq(@, 1, Len(@) - 1)]
    BY <1>4, <1>5, <2>1
  <2>3. IdTable!Give(p)
    BY <2>2 DEF IdTable!Give, Holding
  <2> QED
    BY <2>3 DEF IdTable!Next
<1> QED
  BY <1>2, <1>3, <1>4, <1>5, <1>8, <1>9

\* The table of ids implements Ids, for any number of ids and processes, as long as
\* no task is stopped: an id never has two holders, whoever enters, leaves, enters
\* again, is killed or is registered, and a process gives back the id it took last.
\* (When a task is stopped, clear_dead_tasks gives its ids away.)
THEOREM IdsImplemented ==
  ASSUME NoTaskStops
  PROVE  Spec => ImplementsIds
<1> DEFINE Inv == TypeOK /\ Known /\ Roled /\ SomeHolding
<1>1. Init => Inv /\ IdTable!Init
  <2> SUFFICES ASSUME Init PROVE Inv /\ IdTable!Init
    OBVIOUS
  <2>1. TypeOK /\ Known /\ Roled
    BY InitTyped, InitRoled
  <2>2. Holds(InitHeld)
    BY InitHolds
  <2>3. Holding = InitHeld
    BY <2>2, HeldIs DEF OneHolding, HoldingIs
  <2>4. IdTable!Init
    BY <2>3 DEF IdTable!Init, InitHeld, Holding
  <2> QED
    BY <2>1, <2>2, <2>4 DEF SomeHolding
<1>2. OneHolding
  BY HeldIs
<1>3. Inv /\ OneHolding /\ OneHolding' /\ [Next]_vars
        => Inv' /\ [IdTable!Next]_(Holding)
  BY NextTyped, NextKnown, NextRoled, RefinesIds
<1> HIDE DEF Inv
<1> QED
  BY <1>1, <1>2, <1>3, PTL DEF Spec, ImplementsIds, IdTable!Spec, Holding

----------------------------------------------------------------------------
(* The servers of tasks, as long as no task is stopped.                    *)

LEMMA InitAsked == Init => Asked
<1> SUFFICES ASSUME Init PROVE Asked
  OBVIOUS
<1>1. (\A p \in Process : asked[p] = None) /\ hooked = {} /\ prev_reg_task_pid = None
  BY DEF Init
<1> QED
  BY <1>1 DEF Asked

\* The ids that processes have now.
LEMMA Owners ==
  ASSUME TypeOK, SomeHolding
  PROVE  /\ \A p \in Process : pid[p] \in Rid =>
              /\ pid[p] \in pids
              /\ p \notin starting => resch_task[pid[p]].task = p
         /\ \A p, q \in Process : pid[p] \in Rid /\ pid[p] = pid[q] => p = q
<1>1. PICK h : Holds(h)
  BY DEF SomeHolding
<1>2. h \in [Process -> Seq(Rid)]
  BY <1>1 DEF Holds
<1>3. ASSUME NEW p \in Process, pid[p] \in Rid
      PROVE  Len(h[p]) \in 1 .. Len(h[p]) /\ h[p][Len(h[p])] = pid[p]
  <2>1. h[p] # <<>> /\ h[p][Len(h[p])] = pid[p]
    BY <1>1, <1>3 DEF Holds, IsChain, task_is_managed
  <2> QED
    BY <1>2, <2>1, EmptySeq, LenProperties
<1> QED
  BY <1>1, <1>3 DEF Holds

LEMMA NextAsked ==
  ASSUME TypeOK, TypeOK', Known, Roled, SomeHolding, Asked, [Next]_vars
  PROVE  Asked'
<1>0. scenario' = scenario
  BY DEF Next, vars, api_init, api_init_done, api_run, api_exit, kill_handler, Signal,
     api_set_server, api_reg_task, api_reg_task_done, api_reg_run, memsched_init,
     memsched_exit
<1> SUFFICES ASSUME OneRegistrar PROVE Asked'
  BY <1>0 DEF Asked, OneRegistrar, is
<1>1. /\ resch_task \in Table /\ pid \in [Process -> Process \cup Rid]
      /\ vm \in [Process -> Process \cup {None}]
      /\ asked \in [Process -> Server \cup {None}]
      /\ SERVERS \in [Server -> Seq(Rid)]
      /\ prev_reg_task_pid \in Rid \cup {None}
      /\ hooked \subseteq Process /\ starting \subseteq Process
      /\ None \notin Process /\ None \notin Rid
  <2>1. None \notin Process /\ None \notin Rid
    BY RegistryAssumption DEF Rid
  <2> QED
    BY <2>1 DEF TypeOK, Table
<1>2. /\ \A p \in Process : pid[p] \in Rid =>
           /\ pid[p] \in pids
           /\ p \notin starting => resch_task[pid[p]].task = p
      /\ \A p, q \in Process : pid[p] \in Rid /\ pid[p] = pid[q] => p = q
  BY Owners
\* The three parts of Asked.
<1> DEFINE A1(p) == asked[p] # None =>
                      /\ pid[p] \in Rid /\ p \notin starting
                      /\ resch_task[pid[p]].server_id = asked[p]
           A1p(p) == asked'[p] # None =>
                      /\ pid'[p] \in Rid /\ p \notin starting'
                      /\ resch_task'[pid'[p]].server_id = asked'[p]
           L(p) == asked[p] # None =>
                     \E j \in 1 .. Len(SERVERS[asked[p]]) : SERVERS[asked[p]][j] = pid[p]
           Lp(p) == asked'[p] # None =>
                     \E j \in 1 .. Len(SERVERS'[asked'[p]]) :
                       SERVERS'[asked'[p]][j] = pid'[p]
           A2(p) == /\ pid[p] \in Rid /\ p \notin starting
                    /\ resch_task[pid[p]].submitted
                    /\ \A m \in Process : vm[m] # p
           A2p(p) == /\ pid'[p] \in Rid /\ p \notin starting'
                     /\ resch_task'[pid'[p]].submitted
                     /\ \A m \in Process : vm'[m] # p
           A3 == prev_reg_task_pid # None =>
                   \E m \in Process : /\ vm[m] \in Process \ starting
                                      /\ prev_reg_task_pid = pid[vm[m]]
           A3p == prev_reg_task_pid' # None =>
                   \E m \in Process : /\ vm'[m] \in Process \ starting'
                                      /\ prev_reg_task_pid' = pid'[vm'[m]]
<1>3. /\ \A p \in Process : A1(p)
      /\ \A p \in hooked : A2(p) /\ L(p) /\ plugin = "loaded"
      /\ A3
  BY DEF Asked, task_is_managed
<1> DEFINE Done == /\ \A p \in Process : A1p(p)
                   /\ \A p \in hooked' : A2p(p) /\ Lp(p) /\ plugin' = "loaded"
                   /\ A3p
<1>4. Done => Asked'
  BY DEF Asked, task_is_managed
\* Who is registered.
<1>5. \A m \in Process : vm[m] # None =>
        /\ vm[m] \in Process /\ is(m, "manager") /\ is(vm[m], "vm") /\ pid[vm[m]] \in Rid
  BY <1>1 DEF Roled, task_is_managed
<1>6. \A m, n \in Process : is(m, "manager") /\ is(n, "manager") => m = n
  BY DEF OneRegistrar, is
<1>7. (\E m \in Process : is(m, "manager")) => \A p \in Process : ~is(p, "task")
  BY DEF OneRegistrar, is
<1>8. \A p \in Process : /\ is(p, "task") => ~is(p, "vm") /\ ~is(p, "manager")
                         /\ is(p, "manager") => ~is(p, "vm")
  BY DEF is
<1> HIDE DEF is
\* A process whose data stay: p itself, its descriptor and its list.
<1>9. ASSUME NEW p \in Process, asked'[p] = asked[p], pid'[p] = pid[p],
             p \in starting' => p \in starting,
             pid[p] \in Rid =>
               /\ resch_task'[pid[p]].server_id = resch_task[pid[p]].server_id
      PROVE  A1p(p)
  BY <1>3, <1>9
<1>10. ASSUME NEW p \in hooked, asked'[p] = asked[p], pid'[p] = pid[p],
              p \in starting' => p \in starting,
              resch_task[pid[p]].submitted => resch_task'[pid[p]].submitted,
              \A m \in Process : vm'[m] \in {vm[m], None} \/ vm'[m] # p,
              \A s \in Server : \A j \in 1 .. Len(SERVERS[s]) :
                j \in 1 .. Len(SERVERS'[s]) /\ SERVERS'[s][j] = SERVERS[s][j]
       PROVE  A2p(p) /\ Lp(p)
  <2>1. A2(p) /\ L(p) /\ p \in Process
    BY <1>1, <1>3
  <2>2. A2p(p)
    BY <1>1, <1>10, <2>1
  <2>3. Lp(p)
    <3> SUFFICES ASSUME asked'[p] # None
                 PROVE  \E j \in 1 .. Len(SERVERS'[asked'[p]]) :
                          SERVERS'[asked'[p]][j] = pid'[p]
      OBVIOUS
    <3>1. asked[p] \in Server /\ asked'[p] = asked[p]
      BY <1>1, <1>10, <2>1
    <3>2. PICK j \in 1 .. Len(SERVERS[asked[p]]) : SERVERS[asked[p]][j] = pid[p]
      BY <1>10, <2>1
    <3> QED
      BY <1>10, <3>1, <3>2
  <2> QED
    BY <2>2, <2>3
<1> HIDE DEF A1, A2, L, A1p, A2p, Lp
<1>11. ASSUME NEW p \in Process, attach_resch(p)
       PROVE  /\ \A q \in Process \ {p} : pid'[q] = pid[q]
              /\ starting' \subseteq starting \cup {p}
              /\ \A x \in Rid : /\ resch_task'[x].server_id = resch_task[x].server_id
                                /\ resch_task'[x].submitted = resch_task[x].submitted
  BY <1>11, Attach
<1>110. ASSUME UNCHANGED <<prev_reg_task_pid, vm>>,
               \A q \in Process : is(q, "vm") =>
                 pid'[q] = pid[q] /\ (q \in starting' => q \in starting)
        PROVE  A3p
  <2> SUFFICES ASSUME prev_reg_task_pid' # None
               PROVE  \E m \in Process : /\ vm'[m] \in Process \ starting'
                                         /\ prev_reg_task_pid' = pid'[vm'[m]]
    OBVIOUS
  <2>1. PICK m \in Process : vm[m] \in Process \ starting /\ prev_reg_task_pid = pid[vm[m]]
    BY <1>3, <1>110
  <2>2. is(vm[m], "vm")
    BY <1>1, <1>5, <2>1
  <2> QED
    BY <1>110, <2>1, <2>2
<1>12. ASSUME NEW p \in Process, api_init(p) PROVE Done
  <2>1. /\ is(p, "task") /\ attach_resch(p)
        /\ asked' = [asked EXCEPT ![p] = None] /\ hooked' = hooked \ {p}
        /\ UNCHANGED <<prev_reg_task_pid, vm, plugin, SERVERS>>
    BY <1>12 DEF api_init, Forget
  <2>2. /\ asked'[p] = None /\ \A q \in Process \ {p} : asked'[q] = asked[q]
    BY <1>1, <2>1
  <2>3. \A q \in Process : A1p(q)
    <3>1. A1p(p)
      BY <2>2 DEF A1p
    <3>2. ASSUME NEW q \in Process \ {p} PROVE A1p(q)
      BY <1>9, <1>11, <2>1, <2>2
    <3> QED
      BY <3>1, <3>2
  <2>4. ASSUME NEW q \in hooked' PROVE A2p(q) /\ Lp(q) /\ plugin' = "loaded"
    <3>1. q \in hooked /\ q # p /\ q \in Process
      BY <1>1, <2>1
    <3>2. pid[q] \in Rid
      BY <1>3, <3>1 DEF A2
    <3>3. A2p(q) /\ Lp(q)
      BY <1>10, <1>11, <2>1, <2>2, <3>1, <3>2
    <3> QED
      BY <1>3, <2>1, <3>1, <3>3
  <2>5. A3p
    <3>1. \A q \in Process : is(q, "vm") => q # p
      BY <1>8, <2>1
    <3> QED
      BY <1>11, <1>110, <2>1, <3>1
  <2> QED
    BY <2>3, <2>4, <2>5
<1>13. ASSUME NEW m \in Process, NEW v \in Process, api_reg_task(m, v) PROVE Done
  <2>1. /\ vm[m] = None /\ pid[v] \notin Rid /\ attach_resch(v) /\ is(m, "manager")
        /\ vm' = [vm EXCEPT ![m] = IF v \in starting' THEN v ELSE None]
        /\ UNCHANGED <<prev_reg_task_pid, plugin, SERVERS, asked, hooked>>
    BY <1>13 DEF api_reg_task, task_is_managed
  <2>2. /\ vm'[m] \in {None, v} /\ \A n \in Process \ {m} : vm'[n] = vm[n]
    BY <1>1, <2>1
  <2>3. asked[v] = None /\ v \notin hooked
    BY <1>3, <2>1 DEF A1, A2
  <2>4. \A q \in Process : A1p(q)
    <3>1. A1p(v)
      BY <2>1, <2>3 DEF A1p
    <3>2. ASSUME NEW q \in Process \ {v} PROVE A1p(q)
      BY <1>9, <1>11, <2>1
    <3> QED
      BY <3>1, <3>2
  <2>5. ASSUME NEW q \in hooked' PROVE A2p(q) /\ Lp(q) /\ plugin' = "loaded"
    <3>1. q \in hooked /\ q # v /\ q \in Process
      BY <1>1, <2>1, <2>3
    <3>2. pid[q] \in Rid
      BY <1>3, <3>1 DEF A2
    <3>3. A2p(q) /\ Lp(q)
      BY <1>10, <1>11, <2>1, <2>2, <3>1, <3>2
    <3> QED
      BY <1>3, <2>1, <3>1, <3>3
  <2>6. A3p
    <3>1. prev_reg_task_pid = None
      <4> SUFFICES ASSUME prev_reg_task_pid # None PROVE FALSE
        OBVIOUS
      <4>1. PICK n \in Process : vm[n] \in Process
        BY <1>3
      <4>2. vm[n] # None
        BY <1>1, <4>1
      <4>3. is(n, "manager")
        BY <1>5, <4>2
      <4>4. n = m
        BY <1>6, <2>1, <4>3
      <4> QED
        BY <2>1, <4>2, <4>4
    <3> QED
      BY <2>1, <3>1
  <2> QED
    BY <2>4, <2>5, <2>6
\* The descriptor of p is filled; p has asked for nothing yet.
<1>14. ASSUME NEW p \in starting, resch_task_init(p)
       PROVE  /\ p \in Process /\ pid[p] \in Rid
              /\ starting' = starting \ {p}
              /\ \A x \in Rid : resch_task'[x].server_id = resch_task[x].server_id
              /\ \A x \in Rid \ {pid[p]} : resch_task'[x].submitted = resch_task[x].submitted
              /\ \A q \in hooked : q # p /\ pid[q] \in Rid /\ pid[q] # pid[p]
  <2>1. p \in Process /\ pid[p] \in Rid
    BY <1>1, <1>14 DEF Known, task_is_managed
  <2>2. \A q \in hooked : q \in Process /\ q # p /\ pid[q] \in Rid
    BY <1>1, <1>3, <1>14 DEF A2
  <2>3. \A q \in hooked : pid[q] # pid[p]
    BY <1>2, <2>1, <2>2
  <2> QED
    BY <1>14, <2>1, <2>2, <2>3, Initialised DEF Reinitialised
<1>15. ASSUME NEW p \in starting, resch_task_init(p),
              UNCHANGED <<pid, vm, plugin, SERVERS, asked, hooked>>
       PROVE  /\ \A q \in Process : A1p(q)
              /\ \A q \in hooked' : A2p(q) /\ Lp(q) /\ plugin' = "loaded"
  <2>1. \A q \in Process : A1p(q)
    BY <1>9, <1>14, <1>15
  <2>2. ASSUME NEW q \in hooked PROVE A2p(q) /\ Lp(q)
    BY <1>10, <1>14, <1>15
  <2> QED
    BY <1>3, <1>15, <2>1, <2>2
<1>16. ASSUME NEW p \in Process, api_init_done(p) PROVE Done
  <2>1. /\ p \in starting /\ resch_task_init(p)
        /\ UNCHANGED <<pid, vm, plugin, SERVERS, asked, hooked, prev_reg_task_pid>>
    BY <1>16 DEF api_init_done
  <2>2. A3p
    BY <1>3, <1>14, <2>1
  <2> QED
    BY <1>15, <2>1, <2>2
<1>17. ASSUME NEW m \in Process, api_reg_task_done(m) PROVE Done
  <2>1. /\ vm[m] \in starting /\ resch_task_init(vm[m])
        /\ prev_reg_task_pid' = pid[vm[m]]
        /\ UNCHANGED <<pid, vm, plugin, SERVERS, asked, hooked>>
    BY <1>17 DEF api_reg_task_done
  <2>2. \A q \in hooked : q # vm[m]
    BY <1>14, <2>1
  <2>3. A3p
    <3> SUFFICES ASSUME prev_reg_task_pid' # None
                 PROVE /\ vm'[m] \in Process /\ prev_reg_task_pid' = pid'[vm'[m]]
                       /\ vm'[m] \notin starting'
      OBVIOUS
    <3> QED
      BY <1>14, <2>1
  <2> QED
    BY <1>15, <2>1, <2>3
\* A process gives back an id, or dies.
<1>18. ASSUME NEW p \in Process, is(p, "task"), Forget(p),
              \A q \in Process \ {p} : pid'[q] = pid[q],
              UNCHANGED <<resch_task, starting, prev_reg_task_pid, vm, plugin, SERVERS>>
       PROVE  Done
  <2>1. /\ asked'[p] = None /\ \A q \in Process \ {p} : asked'[q] = asked[q]
        /\ hooked' = hooked \ {p}
    BY <1>1, <1>18 DEF Forget
  <2>2. \A q \in Process : A1p(q)
    <3>1. A1p(p)
      BY <2>1 DEF A1p
    <3>2. ASSUME NEW q \in Process \ {p} PROVE A1p(q)
      BY <1>9, <1>18, <2>1
    <3> QED
      BY <3>1, <3>2
  <2>3. ASSUME NEW q \in hooked' PROVE A2p(q) /\ Lp(q) /\ plugin' = "loaded"
    <3>1. q \in hooked /\ q # p /\ q \in Process
      BY <1>1, <2>1
    <3>2. A2p(q) /\ Lp(q)
      BY <1>10, <1>18, <2>1, <3>1
    <3> QED
      BY <1>3, <1>18, <3>1, <3>2
  <2>4. A3p
    <3>1. \A q \in Process : is(q, "vm") => q # p
      BY <1>8, <1>18
    <3> QED
      BY <1>18, <1>110, <3>1
  <2> QED
    BY <2>2, <2>3, <2>4
<1>19. ASSUME NEW p \in Process, api_exit(p) PROVE Done
  <2>1. \A q \in Process \ {p} : pid'[q] = pid[q]
    BY <1>19, Detach DEF api_exit
  <2> QED
    BY <1>18, <1>19, <2>1 DEF api_exit
<1>20. ASSUME NEW p \in Process, kill_handler(p) PROVE Done
  <2>1. \A q \in Process \ {p} : pid'[q] = pid[q]
    BY <1>20, Detach DEF kill_handler
  <2> QED
    BY <1>18, <1>20, <2>1 DEF kill_handler
\* A task is run: the task that has the descriptor gets into the list of its server.
<1>21. ASSUME NEW p \in Process, pid[p] \in Rid, p \notin starting, RunTask(pid[p]),
              UNCHANGED <<pid, starting, plugin, asked>>,
              \A n \in Process : vm'[n] \in {vm[n], None} /\ vm'[n] # p
       PROVE  /\ \A q \in Process : A1p(q)
              /\ \A q \in hooked' : A2p(q) /\ Lp(q) /\ plugin' = "loaded"
  <2> DEFINE r == pid[p]
             s == resch_task[r].server_id
             new == Append(SERVERS[s], r)
  <2>1. /\ \A x \in Rid : resch_task'[x].server_id = resch_task[x].server_id
        /\ \A x \in Rid \ {r} : resch_task'[x].submitted = resch_task[x].submitted
        /\ resch_task'[r].submitted
        /\ \/ /\ plugin = "loaded"
              /\ hooked' = hooked \cup {resch_task[r].task}
              /\ SERVERS' = [SERVERS EXCEPT ![s] = new]
           \/ UNCHANGED <<SERVERS, hooked>>
    <3>1. /\ \A x \in Rid : resch_task'[x].server_id = resch_task[x].server_id
          /\ \A x \in Rid \ {r} : resch_task'[x].submitted = resch_task[x].submitted
          /\ resch_task'[r].submitted
      BY <1>21, TaskRun
    <3>2. \/ /\ plugin = "loaded"
             /\ hooked' = hooked \cup {resch_task[r].task}
             /\ SERVERS' = [SERVERS EXCEPT ![s] = new]
          \/ UNCHANGED <<SERVERS, hooked>>
      BY <1>21, TaskRun
    <3> QED
      BY <3>1, <3>2
  <2>2. /\ s \in Server /\ SERVERS[s] \in Seq(Rid) /\ Len(SERVERS[s]) \in Nat
        /\ new \in Seq(Rid) /\ Len(new) = Len(SERVERS[s]) + 1
        /\ \A i \in 1 .. Len(SERVERS[s]) : new[i] = SERVERS[s][i]
        /\ new[Len(SERVERS[s]) + 1] = r
    <3>1. s \in Server /\ SERVERS[s] \in Seq(Rid)
      BY <1>1, <1>21 DEF Table
    <3> QED
      BY <1>21, <3>1, AppendProperties, LenProperties
  <2>3. resch_task[r].task = p
    BY <1>2, <1>21
  <2> HIDE DEF new, s, r
  <2>4. \A t \in Server : \A j \in 1 .. Len(SERVERS[t]) :
          j \in 1 .. Len(SERVERS'[t]) /\ SERVERS'[t][j] = SERVERS[t][j]
    <3> SUFFICES ASSUME NEW t \in Server, NEW j \in 1 .. Len(SERVERS[t])
                 PROVE  j \in 1 .. Len(SERVERS'[t]) /\ SERVERS'[t][j] = SERVERS[t][j]
      OBVIOUS
    <3>1. SERVERS'[t] = SERVERS[t] \/ (t = s /\ SERVERS'[s] = new)
      BY <1>1, <2>1, <2>2
    <3>2. (j \in 1 .. Len(new) /\ new[j] = SERVERS[s][j]) \/ t # s
      BY <2>2
    <3> QED
      BY <3>1, <3>2
  <2>5. \A q \in Process : A1p(q)
    BY <1>9, <1>21, <2>1
  <2>6. ASSUME NEW q \in hooked PROVE A2p(q) /\ Lp(q)
    <3>1. q \in Process /\ pid[q] \in Rid
      BY <1>1, <1>3 DEF A2
    <3>2. resch_task[pid[q]].submitted => resch_task'[pid[q]].submitted
      BY <2>1, <3>1
    <3> QED
      BY <1>10, <1>21, <2>4, <3>2
  <2>7. ASSUME plugin = "loaded", SERVERS' = [SERVERS EXCEPT ![s] = new]
        PROVE  A2p(p) /\ Lp(p)
    <3>1. A2p(p)
      BY <1>21, <2>1 DEF A2p, r
    <3>2. ASSUME asked[p] # None
          PROVE  \E j \in 1 .. Len(SERVERS'[asked'[p]]) : SERVERS'[asked'[p]][j] = pid'[p]
      <4>1. asked[p] = s /\ asked'[p] = s
        BY <1>3, <1>21, <3>2 DEF A1, s, r
      <4>2. SERVERS'[s] = new
        BY <1>1, <2>2, <2>7
      <4>3. Len(SERVERS[s]) + 1 \in 1 .. Len(SERVERS'[s])
        BY <2>2, <4>2
      <4>4. SERVERS'[s][Len(SERVERS[s]) + 1] = pid'[p]
        BY <1>21, <2>2, <4>2 DEF r
      <4> QED
        BY <4>1, <4>3, <4>4
    <3>3. Lp(p)
      BY <1>21, <3>2 DEF Lp
    <3> QED
      BY <3>1, <3>3
  <2>8. ASSUME NEW q \in hooked' PROVE A2p(q) /\ Lp(q) /\ plugin' = "loaded"
    <3>1. CASE q \in hooked
      BY <1>3, <1>21, <2>6, <3>1
    <3>2. CASE q \notin hooked
      BY <1>21, <2>1, <2>3, <2>7, <2>8, <3>2
    <3> QED
      BY <3>1, <3>2
  <2> QED
    BY <2>5, <2>8
<1>22. ASSUME NEW p \in Process, api_run(p) PROVE Done
  <2>1. /\ is(p, "task") /\ pid[p] \in Rid /\ p \notin starting /\ RunTask(pid[p])
        /\ UNCHANGED <<pid, starting, prev_reg_task_pid, vm, plugin, asked>>
    BY <1>22 DEF api_run, InUserMode, task_is_managed
  <2>2. \A n \in Process : vm[n] # p
    BY <1>5, <1>8, <2>1, <1>1
  <2>3. A3p
    BY <1>110, <2>1
  <2> QED
    BY <1>21, <2>1, <2>2, <2>3
<1>23. ASSUME NEW m \in Process, api_reg_run(m) PROVE Done
  <2>1. /\ is(m, "manager") /\ vm[m] # None /\ vm[m] \notin starting
        /\ prev_reg_task_pid # None /\ RunTask(prev_reg_task_pid)
        /\ prev_reg_task_pid' = None /\ vm' = [vm EXCEPT ![m] = None]
        /\ UNCHANGED <<pid, starting, plugin, asked>>
    BY <1>23 DEF api_reg_run
  <2>2. vm[m] \in Process /\ pid[vm[m]] \in Rid
    BY <1>5, <2>1
  <2>3. prev_reg_task_pid = pid[vm[m]]
    <3>1. PICK n \in Process : vm[n] \in Process /\ prev_reg_task_pid = pid[vm[n]]
      BY <1>3, <2>1
    <3>2. is(n, "manager")
      BY <1>1, <1>5, <3>1
    <3>3. n = m
      BY <1>6, <2>1, <3>2
    <3> QED
      BY <3>1, <3>3
  <2>4. \A n \in Process : vm'[n] \in {vm[n], None} /\ vm'[n] # vm[m]
    <3> SUFFICES ASSUME NEW n \in Process
                 PROVE  vm'[n] \in {vm[n], None} /\ vm'[n] # vm[m]
      OBVIOUS
    <3>1. CASE n = m
      BY <1>1, <2>1, <3>1
    <3>2. CASE n # m
      <4>1. vm'[n] = vm[n]
        BY <1>1, <2>1, <3>2
      <4>2. vm[n] = None
        BY <1>5, <1>6, <2>1, <3>2
      <4> QED
        BY <2>1, <4>1, <4>2
    <3> QED
      BY <3>1, <3>2
  <2>5. A3p
    BY <2>1
  <2>6. RunTask(pid[vm[m]])
    BY <2>1, <2>3
  <2> QED
    BY <1>21, <2>1, <2>2, <2>4, <2>5, <2>6
\* The server of the task that registers itself, or is being registered.
<1>24. ASSUME NEW p \in Process, NEW s \in Server, api_set_server(p, s) PROVE Done
  <2>1. PICK q \in Process : /\ set_server(pid[q], s, p)
                             /\ asked' = [asked EXCEPT ![q] = s]
                             /\ pid[q] \in Rid /\ q \notin starting /\ q \notin hooked
    <3>1. CASE is(p, "task")
      <4>1. prev_reg_task_pid = None
        <5> SUFFICES ASSUME prev_reg_task_pid # None PROVE FALSE
          OBVIOUS
        <5>1. PICK n \in Process : vm[n] \in Process
          BY <1>3
        <5>2. is(n, "manager")
          BY <1>1, <1>5, <5>1
        <5> QED
          BY <1>7, <3>1, <5>2
      <4>2. ~is(p, "manager")
        BY <1>8, <3>1
      <4>3. /\ pid[p] \in Rid /\ ~resch_task[pid[p]].submitted /\ p \notin starting
            /\ set_server(pid[p], s, p) /\ asked' = [asked EXCEPT ![p] = s]
        BY <1>24, <3>1, <4>1, <4>2 DEF api_set_server, InUserMode, task_is_managed
      <4>4. p \notin hooked
        BY <1>3, <4>3 DEF A2
      <4> QED
        BY <4>3, <4>4
    <3>2. CASE ~is(p, "task")
      <4>1. /\ is(p, "manager") /\ vm[p] # None /\ prev_reg_task_pid # None
            /\ vm[p] \notin starting
            /\ set_server(prev_reg_task_pid, s, p) /\ asked' = [asked EXCEPT ![vm[p]] = s]
        BY <1>24, <3>2 DEF api_set_server
      <4>2. PICK n \in Process : vm[n] \in Process /\ prev_reg_task_pid = pid[vm[n]]
        BY <1>3, <4>1
      <4>3. is(n, "manager")
        BY <1>1, <1>5, <4>2
      <4>4. n = p
        BY <1>6, <4>1, <4>3
      <4>5. vm[p] \in Process /\ pid[vm[p]] \in Rid
        BY <1>5, <4>1
      <4>6. vm[p] \notin hooked
        BY <1>3 DEF A2
      <4> QED
        BY <4>1, <4>2, <4>4, <4>5, <4>6
    <3> QED
      BY <3>1, <3>2
  <2>2. /\ UNCHANGED <<pid, starting, prev_reg_task_pid, vm, plugin, SERVERS, hooked>>
        /\ asked'[q] = s /\ \A x \in Process \ {q} : asked'[x] = asked[x]
        /\ \A x \in Rid :
             /\ resch_task'[x].server_id = IF x = pid[q] THEN s ELSE resch_task[x].server_id
             /\ resch_task'[x].submitted = resch_task[x].submitted
    <3>1. UNCHANGED <<pid, starting, prev_reg_task_pid, vm, plugin, SERVERS, hooked>>
      BY <1>24 DEF api_set_server
    <3>2. asked'[q] = s /\ \A x \in Process \ {q} : asked'[x] = asked[x]
      BY <1>1, <2>1
    <3>3. \A x \in Rid :
             /\ resch_task'[x].server_id = IF x = pid[q] THEN s ELSE resch_task[x].server_id
             /\ resch_task'[x].submitted = resch_task[x].submitted
      BY <2>1, ServerSet
    <3> QED
      BY <3>1, <3>2, <3>3
  <2>3. ASSUME NEW x \in Process PROVE A1p(x)
    <3>1. CASE x = q
      BY <2>1, <2>2, <3>1 DEF A1p
    <3>2. CASE x # q
      <4>1. pid[x] \in Rid => pid[x] # pid[q]
        BY <1>2, <3>2
      <4> QED
        BY <1>9, <2>2, <3>2, <4>1
    <3> QED
      BY <3>1, <3>2
  <2>4. ASSUME NEW x \in hooked' PROVE A2p(x) /\ Lp(x) /\ plugin' = "loaded"
    <3>1. x \in hooked /\ x # q /\ x \in Process /\ pid[x] \in Rid /\ plugin = "loaded"
      BY <1>1, <1>3, <2>1, <2>2 DEF A2
    <3> QED
      BY <1>10, <2>2, <3>1
  <2>5. A3p
    BY <1>110, <2>2
  <2> QED
    BY <2>3, <2>4, <2>5
<1>25. ASSUME UNCHANGED <<resch_task, pid, starting, prev_reg_task_pid, vm, plugin,
                          SERVERS, asked, hooked>>
       PROVE  Done
  <2>1. \A q \in Process : A1p(q)
    BY <1>9, <1>25
  <2>2. ASSUME NEW q \in hooked PROVE A2p(q) /\ Lp(q)
    BY <1>10, <1>25
  <2>3. A3p
    BY <1>110, <1>25
  <2> QED
    BY <1>3, <1>25, <2>1, <2>2, <2>3
<1>26. ASSUME NEW p \in Process, Signal(p) PROVE Done
  BY <1>25, <1>26 DEF Signal
\* No task is hooked before the plugin is loaded or after it is unloaded.
<1>27. ASSUME memsched_init \/ memsched_exit PROVE Done
  <2>1. /\ hooked' = {}
        /\ UNCHANGED <<resch_task, pid, starting, prev_reg_task_pid, vm, asked>>
    <3>1. CASE memsched_init
      <4>1. plugin # "loaded" /\ hooked' = hooked
        BY <3>1 DEF memsched_init
      <4>2. hooked = {}
        BY <1>3, <4>1
      <4> QED
        BY <3>1, <4>1, <4>2 DEF memsched_init
    <3>2. CASE memsched_exit
      BY <3>2 DEF memsched_exit
    <3> QED
      BY <1>27, <3>1, <3>2
  <2>2. \A q \in Process : A1p(q)
    BY <1>9, <2>1
  <2>3. A3p
    BY <1>110, <2>1
  <2> QED
    BY <2>1, <2>2, <2>3
<1>28. ASSUME UNCHANGED vars PROVE Done
  BY <1>25, <1>28 DEF vars
<1> HIDE DEF Done
<1>29. Done
  BY <1>12, <1>13, <1>16, <1>17, <1>19, <1>20, <1>22, <1>23, <1>24, <1>26, <1>27, <1>28
  DEF Next
<1> QED
  BY <1>4, <1>29

\* As long as no task is stopped, and either all processes are tasks or there is one
\* manager: a task that runs under the plugin is in the list of the server that it,
\* or its manager, asked for last.
THEOREM ServersAsAsked ==
  ASSUME NoTaskStops
  PROVE  Spec => []AskedServer
<1> DEFINE Inv == TypeOK /\ Known /\ Roled /\ SomeHolding /\ Asked
<1>1. Init => Inv
  <2> SUFFICES ASSUME Init PROVE SomeHolding
    BY InitTyped, InitRoled, InitAsked
  <2> QED
    BY InitHolds DEF SomeHolding
<1>2. OneHolding
  BY HeldIs
<1>3. Inv /\ OneHolding /\ OneHolding' /\ [Next]_vars => Inv'
  BY NextTyped, NextKnown, NextRoled, RefinesIds, NextAsked
<1>4. Inv => AskedServer
  <2>1. TypeOK => \A s \in Server : DOMAIN SERVERS[s] = 1 .. Len(SERVERS[s])
    BY LenProperties DEF TypeOK
  <2>2. TypeOK => \A p \in Process : asked[p] # None => asked[p] \in Server
    BY DEF TypeOK
  <2>3. TypeOK => hooked \subseteq Process
    BY DEF TypeOK
  <2> QED
    BY <2>1, <2>2, <2>3 DEF AskedServer, Asked
<1> HIDE DEF Inv
<1> QED
  BY <1>1, <1>2, <1>3, <1>4, PTL DEF Spec
=============================================================================
