---------------------------- MODULE ServerSched ----------------------------
(***************************************************************************)
(* The servers of one core under plugin/memsched/memsched.c: periodic      *)
(* servers with a CPU and a memory budget, scheduled by fixed priority,    *)
(* driven by one kernel timer that is armed for the next release or for    *)
(* the end of the budget of the running server, whichever comes first.     *)
(*                                                                         *)
(* A timer handler runs in softirq context and is one step.  The ready     *)
(* queue is the set of its servers, with bitmap_get as its head; the       *)
(* release queue is the queue of RelPq.tla.  Servers of one core have      *)
(* distinct priorities, as in every configuration that memsched_init has.  *)
(***************************************************************************)
EXTENDS RelPq

CONSTANTS
  None,             \* no server
  ServerParams,     \* the sets of init_server's arguments to explore
  JIFFIES_MOD,      \* jiffies counts modulo this number
  StartDelay,       \* jiffies from memsched_init to the first release
  MaxLate,          \* bound: jiffies by which a timer softirq may be late
  MaxOverdraw,      \* bound: cache misses counted past an empty memory budget
  USE_MEMSCHEDx,    \* TRUE when the macro of that name is defined
  StrayTasks        \* TRUE when a task may run though its server does not

ASSUME ServerSchedAssumption ==
  /\ None \notin Server
  /\ JIFFIES_MOD \in Nat \ {0}
  /\ StartDelay \in Nat
  /\ MaxLate \in Nat
  /\ MaxOverdraw \in Nat
  /\ USE_MEMSCHEDx \in BOOLEAN
  /\ StrayTasks \in BOOLEAN

\* init_server's arguments; the smaller the number, the higher the priority.
ASSUME ServerParamsAssumption ==
  \A params \in ServerParams :
    /\ params \in [Server -> [period : Nat \ {0}, budget : Nat \ {0},
                              priority : Nat, mem_budget : Nat]]
    /\ \A s, t \in Server :
         params[s].priority = params[t].priority => s = t

VARIABLES
  SERVERS,          \* the arguments of init_server; never change
  jiffies,
  FIRST_RUN,
  ready,            \* SERVER_READY_QUEUE
  relq,             \* SERVER_RELEASE_QUEUE
  virtual_time_set, \* when the virtual time was last moved ahead
  prev_virt_time,   \* the virtual time before that
  timer,            \* the timer of the core
  running,          \* server_t.running
  remain_budget,
  rem_mem_budget,
  budget_expiration_time,
  timestamp,
  used,             \* history: jiffies a server ran since its last release
  age               \* history: jiffies since the last release of a server

static == <<SERVERS>>
queues == <<ready, relq, virtual_time_set, prev_virt_time>>
account == <<running, remain_budget, rem_mem_budget, budget_expiration_time,
             timestamp>>
history == <<used, age>>
vars == <<static, jiffies, FIRST_RUN, queues, timer, account, history>>

Period == [s \in Server |-> SERVERS[s].period]

----------------------------------------------------------------------------
(* Jiffies, an unsigned counter that wraps, and the kernel's timer.        *)

\* Mutant: the counter does not wrap.
AfterNoWrap(t, d) == t + d

After(t, d) == (t + d) % JIFFIES_MOD

\* The difference t - u of two readings, converted to a signed int.
Elapsed(t, u) ==
  LET d == (t - u) % JIFFIES_MOD
  IN  IF 2 * d < JIFFIES_MOD THEN d ELSE d - JIFFIES_MOD

\* mod_timer; the kernel runs a timer armed for a past instant at the next
\* jiffy.
ModTimer(handler, server, expires) ==
  [ handler |-> handler, server |-> server,
    expires |-> IF Elapsed(expires, jiffies) > 0 THEN expires
                                                 ELSE After(jiffies, 1) ]

TimerDue == Elapsed(jiffies, timer.expires) >= 0

----------------------------------------------------------------------------
(* The ready queue: bitmap_get returns the server of highest priority.     *)

BitmapGet(queue) ==
  IF queue = {} THEN None
  ELSE CHOOSE s \in queue : \A t \in queue :
         SERVERS[s].priority <= SERVERS[t].priority

----------------------------------------------------------------------------
(* memsched_init: every server is ready but the one of highest priority,   *)
(* which the first run of server_release_handler inserts.                  *)

\* The servers are inserted in the release queue by their position in the
\* program's array, which is unrelated to their priority.
InitialRelq(params, position) ==
  LET largest == CHOOSE p \in {params[s].period : s \in Server} :
                   \A s \in Server : params[s].period <= p
  IN  InsertAll([RelPqInit(largest) EXCEPT !.since = position],
                     [s \in Server |-> params[s].period])

Init ==
  /\ SERVERS \in ServerParams
  /\ jiffies = 0
  /\ FIRST_RUN = TRUE
  /\ ready = Server \ {BitmapGet(Server)}
  /\ \E position \in [Server -> 1 .. Cardinality(Server)] :
       /\ \A s, t \in Server : position[s] = position[t] => s = t
       /\ relq = InitialRelq(SERVERS, position)
  /\ virtual_time_set = 0
  /\ prev_virt_time = 0
  /\ timer = ModTimer("release", BitmapGet(Server),
                      After(jiffies, StartDelay))
  /\ running = [s \in Server |-> FALSE]
  /\ remain_budget = [s \in Server |-> SERVERS[s].budget]
  /\ rem_mem_budget = [s \in Server |-> SERVERS[s].mem_budget]
  /\ budget_expiration_time = [s \in Server |-> 0]
  /\ timestamp = [s \in Server |-> 0]
  /\ used = [s \in Server |-> 0]
  /\ age = [s \in Server |-> 0]

----------------------------------------------------------------------------
(* Parts that the handlers share.                                          *)

\* Mutant: the end of the budget is overlooked.
ReleaseOnly(release, budget) == release

next_scheduling_event(release, budget) ==
  IF budget <= release THEN budget ELSE release

\* Refill the memory budgets of the released servers; `memory' has those of
\* the others.
Refill(released, memory) ==
  /\ rem_mem_budget' = [s \in Server |->
       IF s \in released THEN SERVERS[s].mem_budget ELSE memory[s]]
  /\ used' = [s \in Server |-> IF s \in released THEN 0 ELSE used[s]]
  /\ age' = [s \in Server |-> IF s \in released THEN 0 ELSE age[s]]

\* remain_budget once the budgets of the released servers are refilled.
Refilled(released) ==
  [s \in Server |->
     IF s \in released THEN SERVERS[s].budget ELSE remain_budget[s]]

\* Mutant: the time stamp of the start is not taken.
StartUnstamped(s, budget) ==
  /\ budget_expiration_time' =
       [budget_expiration_time EXCEPT ![s] = After(jiffies, budget)]
  /\ UNCHANGED timestamp

\* Server s starts to run now with `budget' jiffies left.
StartServer(s, budget) ==
  /\ budget_expiration_time' =
       [budget_expiration_time EXCEPT ![s] = After(jiffies, budget)]
  /\ timestamp' = [timestamp EXCEPT ![s] = jiffies]

\* Arm the timer for what comes first, the next release or the end of the
\* budget of server s, and move the virtual time to that event.
SetTimer(queue, node, relative, s, budget, expiration) ==
  LET event == next_scheduling_event(relative, budget)
  IN  /\ timer' = IF event = budget
                  THEN ModTimer("complete", s, expiration)
                  ELSE ModTimer("release", node, After(jiffies, event))
      /\ relq' = [queue EXCEPT !.virtual_time = @ + event]

----------------------------------------------------------------------------
(* server_release_handler.  The first run only reads the release queue:    *)
(* its server is the one memsched_init took out of the ready queue.        *)

ReleaseStep ==
  IF FIRST_RUN
  THEN LET next == FetchNext(relq)
       IN  [ queue |-> next.queue, nodes |-> {}, first |-> None,
             node |-> next.node, relative |-> next.event ]
  ELSE ReleaseDue(relq, Period)

\* The servers refilled and inserted in the ready queue: the timer's server
\* and the nodes that follow the first one of a batch.
ReleasedServers(step) == {timer.server} \cup (step.nodes \ {step.first})

\* Mutant: the first server of a batch is taken for the highest one.
FirstReleased(step) == timer.server

\* Of a batch, the server that may preempt is the highest one if it is new.
ReleasedServer(step) ==
  LET top == BitmapGet(ready \cup ReleasedServers(step))
  IN  IF Cardinality(step.nodes) > 1 /\ top \in step.nodes
      THEN top ELSE timer.server

\* What every run of the handler does before it compares priorities.
EnterRelease(step) ==
  /\ FIRST_RUN' = FALSE
  /\ ready' = ready \cup ReleasedServers(step)
  /\ prev_virt_time' = relq.virtual_time
  /\ Refill(ReleasedServers(step), rem_mem_budget)
  /\ UNCHANGED <<static, jiffies>>

\* The core was idle: run the released server.
ReleaseWhenIdle(step) ==
  LET r == ReleasedServer(step)
  IN  /\ ready = {}
      /\ EnterRelease(step)
      /\ remain_budget' = Refilled(ReleasedServers(step))
      /\ running' = [running EXCEPT ![r] = TRUE]
      /\ StartServer(r, SERVERS[r].budget)
      /\ SetTimer(step.queue, step.node, step.relative,
                  r, SERVERS[r].budget, After(jiffies, SERVERS[r].budget))
      /\ virtual_time_set' = IF USE_MEMSCHEDx THEN jiffies
                                              ELSE virtual_time_set

\* Mutant: the comparison of the priorities is the wrong way round.
LowerPreempts(step) ==
  SERVERS[ReleasedServer(step)].priority > SERVERS[BitmapGet(ready)].priority

Preempts(step) ==
  SERVERS[ReleasedServer(step)].priority < SERVERS[BitmapGet(ready)].priority

\* The released server preempts the one that was highest, whose budget is
\* charged for the time since it started if it ever ran.
ReleasePreempts(step) ==
  LET head == BitmapGet(ready)
      r    == ReleasedServer(step)
  IN  /\ ready # {}
      /\ Preempts(step)
      /\ EnterRelease(step)
      /\ remain_budget' =
           [Refilled(ReleasedServers(step)) EXCEPT ![head] =
              IF running[head] THEN @ - Elapsed(jiffies, timestamp[head])
                               ELSE @]
      /\ running' = [running EXCEPT ![head] = FALSE, ![r] = TRUE]
      /\ StartServer(r, SERVERS[r].budget)
      /\ SetTimer(step.queue, step.node, step.relative,
                  r, SERVERS[r].budget, After(jiffies, SERVERS[r].budget))
      /\ virtual_time_set' = jiffies

\* The server that was highest goes on until its old expiration time.
ReleaseNoResched(step) ==
  LET head == BitmapGet(ready)
  IN  /\ ready # {}
      /\ ~Preempts(step)
      /\ EnterRelease(step)
      /\ remain_budget' = Refilled(ReleasedServers(step))
      /\ SetTimer(step.queue, step.node, step.relative,
                  head, Elapsed(budget_expiration_time[head], jiffies),
                  budget_expiration_time[head])
      /\ virtual_time_set' = jiffies
      /\ UNCHANGED <<running, budget_expiration_time, timestamp>>

server_release_handler ==
  /\ TimerDue
  /\ timer.handler = "release"
  /\ \E step \in {ReleaseStep} :
       \/ ReleaseWhenIdle(step)
       \/ ReleasePreempts(step)
       \/ ReleaseNoResched(step)

----------------------------------------------------------------------------
(* server_complete_handler and deferred_memory_work.  Both take the        *)
(* completed server out of the ready queue, release what is due at the     *)
(* virtual time of `queue' and run the next ready server, if any.          *)

\* The event read first is a release when it is at the virtual time;
\* otherwise its distance takes the wrap-around into account.
CompleteStep(queue) ==
  LET next == FetchNext(queue)
      vt   == next.queue.virtual_time
  IN  IF next.event = vt
      THEN ReleaseDue(queue, Period)
      ELSE [ queue |-> next.queue, nodes |-> {}, node |-> next.node,
             relative |-> IF next.event < vt
                          THEN Wrap(next.queue) - vt + next.event
                          ELSE next.event - vt ]

\* No ready server: wait for the next release.
Idle(step) ==
  LET vt == step.queue.virtual_time + step.relative
      W  == Wrap(step.queue)
  IN  /\ timer' = ModTimer("release", step.node, After(jiffies, step.relative))
      /\ relq' = [step.queue EXCEPT
                    !.virtual_time = IF vt > W THEN vt - W ELSE vt]
      /\ UNCHANGED <<budget_expiration_time, timestamp>>

CompleteServer(completed, queue, memory) ==
  \E step \in {CompleteStep(queue)} :
    LET ready2 == (ready \ {completed}) \cup step.nodes
        next   == BitmapGet(ready2)
        remain == Refilled(step.nodes)
    IN  /\ ready' = ready2
        /\ Refill(step.nodes, memory)
        /\ remain_budget' = remain
        /\ virtual_time_set' = jiffies
        /\ IF next = None
           THEN /\ Idle(step)
                /\ running' = [running EXCEPT ![completed] = FALSE]
           ELSE /\ running' = [running EXCEPT ![completed] = FALSE,
                                              ![next] = TRUE]
                /\ StartServer(next, remain[next])
                /\ SetTimer(step.queue, step.node, step.relative, next,
                            remain[next], After(jiffies, remain[next]))
        /\ UNCHANGED <<static, jiffies, FIRST_RUN>>

\* The early return of server_complete_handler: the highest server is taken out
\* of the ready queue, no timer is armed ("none") and nothing else happens.
WrongExpiredServer ==
  /\ ready' = ready \ {BitmapGet(ready)}
  /\ timer' = [timer EXCEPT !.handler = "none"]
  /\ UNCHANGED <<static, jiffies, FIRST_RUN, relq, virtual_time_set, account,
                 history>>

server_complete_handler ==
  /\ TimerDue
  /\ timer.handler = "complete"
  /\ prev_virt_time' = relq.virtual_time
  /\ IF BitmapGet(ready) = timer.server
     THEN CompleteServer(timer.server, relq, rem_mem_budget)
     ELSE WrongExpiredServer

----------------------------------------------------------------------------
(* memory_overflow_handler, run at a cache miss of a task of server s.     *)
(* While s runs the miss is charged to it.  With USE_MEMSCHEDx an empty    *)
(* budget raises deferred_memory_work, an interrupt that comes before any  *)
(* other step of the core: only misses in user mode are counted.           *)

\* Mutant: the recomputed virtual time is not wrapped.
VirtualTimeNoWrap == prev_virt_time + Elapsed(jiffies, virtual_time_set)

\* The virtual time, moved ahead to the next event when the timer was armed,
\* is computed again for now.
virtual_time_now ==
  LET vt == prev_virt_time + Elapsed(jiffies, virtual_time_set)
  IN  IF vt > Wrap(relq) THEN vt - Wrap(relq) ELSE vt

\* Mutant: the budget is found empty one miss too late.
DepletesLate(s) == USE_MEMSCHEDx /\ rem_mem_budget[s] <= 0

\* The miss empties the budget and the program looks at that.
Depletes(s) == USE_MEMSCHEDx /\ rem_mem_budget[s] <= 1

CacheMiss(s) ==
  /\ running[s]
  /\ rem_mem_budget[s] > -MaxOverdraw
  /\ ~Depletes(s)
  /\ rem_mem_budget' = [rem_mem_budget EXCEPT ![s] = @ - 1]
  /\ UNCHANGED <<static, jiffies, FIRST_RUN, queues, timer, running,
                 remain_budget, budget_expiration_time, timestamp, history>>

\* deferred_memory_work for a task of server s, once the miss is counted in
\* `memory'.  When s is not the highest ready server it returns early: the
\* highest one is out of the ready queue and the timer stays armed.
deferred_memory_work(s, memory) ==
  IF BitmapGet(ready) = s
  THEN /\ prev_virt_time' = virtual_time_now
       /\ CompleteServer(s, [relq EXCEPT !.virtual_time = virtual_time_now],
                         memory)
  ELSE /\ ready' = ready \ {BitmapGet(ready)}
       /\ rem_mem_budget' = memory
       /\ UNCHANGED <<static, jiffies, FIRST_RUN, relq, virtual_time_set,
                      prev_virt_time, timer, running, remain_budget,
                      budget_expiration_time, timestamp, history>>

MemoryOverflow(s) ==
  /\ running[s]
  /\ Depletes(s)
  /\ deferred_memory_work(s, [rem_mem_budget EXCEPT ![s] = @ - 1])

\* A miss of a task that runs though its server does not: it slept when the
\* server was stopped and was woken by what it waited for.  The budget is not
\* charged, but it is looked at.
StrayMiss(s) ==
  /\ StrayTasks
  /\ USE_MEMSCHEDx
  /\ ~running[s]
  /\ rem_mem_budget[s] <= 0
  /\ deferred_memory_work(s, rem_mem_budget)

----------------------------------------------------------------------------
(* The clock.  A due timer may wait for MaxLate jiffies.                   *)

Tick ==
  /\ ~(timer.handler # "none"
         /\ Elapsed(jiffies, timer.expires) >= MaxLate)
  /\ jiffies' = After(jiffies, 1)
  /\ used' = [s \in Server |-> IF running[s] THEN used[s] + 1 ELSE used[s]]
  /\ age' = [s \in Server |-> IF FIRST_RUN THEN 0 ELSE age[s] + 1]
  /\ UNCHANGED <<static, FIRST_RUN, queues, timer, account>>

Next ==
  \/ Tick
  \/ server_release_handler
  \/ server_complete_handler
  \/ \E s \in Server : CacheMiss(s)
  \/ \E s \in Server : MemoryOverflow(s)
  \/ \E s \in Server : StrayMiss(s)

Spec == Init /\ [][Next]_vars

\* The clock goes on, and a softirq that is due is run before long: it is weak
\* fairness of the handlers, which are enabled whenever their timer is due.
SoftirqPending == timer.handler # "none" /\ TimerDue
Fairness == WF_vars(Tick) /\ []<>~SoftirqPending

FairSpec == Spec /\ Fairness

----------------------------------------------------------------------------
(* Properties.                                                             *)

\* The types of the variables.
TypeOK ==
  /\ SERVERS \in ServerParams
  /\ jiffies \in 0 .. JIFFIES_MOD - 1
  /\ FIRST_RUN \in BOOLEAN
  /\ ready \subseteq Server
  /\ IsRelPq(relq)
  /\ virtual_time_set \in 0 .. JIFFIES_MOD - 1
  /\ prev_virt_time \in Int
  /\ timer \in [handler : {"none", "release", "complete"}, server : Server,
                expires : 0 .. JIFFIES_MOD - 1]
  /\ running \in [Server -> BOOLEAN]
  /\ remain_budget \in [Server -> Int]
  /\ rem_mem_budget \in [Server -> Int]
  /\ budget_expiration_time \in [Server -> 0 .. JIFFIES_MOD - 1]
  /\ timestamp \in [Server -> 0 .. JIFFIES_MOD - 1]
  /\ used \in [Server -> Nat]
  /\ age \in [Server -> Nat]

\* The server that runs is the highest one of the ready queue and no other
\* runs; nobody runs before the first release.  The flags `running', the ready
\* queue and the server that the code calls the highest change in four
\* branches of two handlers, over a batch of released servers.
RunningIsHead ==
  IF FIRST_RUN
  THEN \A s \in Server : ~running[s]
  ELSE \A s \in Server : running[s] <=> s = BitmapGet(ready)

\* The core never goes dead: the timer is always armed, and a timer for the
\* end of a budget is armed for the server that runs, which is the one that
\* server_complete_handler expects at the head of the ready queue.  Otherwise
\* it returns without arming the timer again.
CoreAlive ==
  /\ timer.handler # "none"
  /\ timer.handler = "complete" => timer.server = BitmapGet(ready)

\* The virtual time of now: at the next event it will be relq.virtual_time.
VirtualNow == relq.virtual_time - Elapsed(timer.expires, jiffies)

\* No server is ever lost or queued twice: each has one node in the release
\* queue, in a list whose bit is set, and all are counted.  Every handler takes
\* nodes out, also those it only looks at, and puts them back; a server without
\* a node is never released again.
EveryServerQueued ==
  /\ \A s \in Server : \E p \in Places(relq, s) : Places(relq, s) = {p}
  /\ BitmapMatchesLists(relq)
  /\ relq.nr_of_elements = Cardinality(Server)

\* Each server has one node in the release queue, at the instant of its next
\* release, one period after its last one, whatever the round.  A handler takes
\* nodes out and puts them back in another bitmap, with the virtual time moved
\* back or not.
ReleaseQueueExact ==
  ~FIRST_RUN => \A s \in Server :
    Instants(relq, s) = {VirtualNow + SERVERS[s].period - age[s]}

\* A server never runs longer in a period than its budget, however often it is
\* preempted and resumed in the period.  A late timer lets the server run on
\* before it is stopped; a late release before that starts its budget late.
BudgetBound ==
  \A s \in Server : used[s] <= SERVERS[s].budget + 2 * MaxLate

\* A server is released exactly one period after its last release.  The
\* release is found in the release queue by the virtual time at the next
\* event, which each handler computes its own way.
ReleasedOnPeriod ==
  [][\A s \in Server : age'[s] < age[s] => age[s] = SERVERS[s].period]_vars

\* A server that was stopped waits for its new period (README.txt:172-173): no
\* server is released less than a period after its last release.
WaitsForNewPeriod ==
  [][\A s \in Server : age'[s] < age[s] => age[s] >= SERVERS[s].period]_vars

\* A server whose memory budget depletes is stopped and waits for its next
\* release (README.txt:172-173).
MemBudgetEnforced ==
  \A s \in Server :
    SERVERS[s].mem_budget > 0 /\ rem_mem_budget[s] <= 0 => ~running[s]

----------------------------------------------------------------------------
\* The abstract servers of FPServers as the program represents them: the
\* budget of the running server is what its expiration time leaves, that of a
\* waiting one is in remain_budget, a completed one has none.
LeftBudget ==
  [s \in Server |->
     IF FIRST_RUN \/ s \notin ready THEN 0
     ELSE IF running[s] THEN Elapsed(budget_expiration_time[s], jiffies)
     ELSE remain_budget[s]]

UntilRelease ==
  [s \in Server |-> IF FIRST_RUN THEN 0 ELSE SERVERS[s].period - age[s]]

\* The exact test for fixed priorities, for the servers that `params' defines:
\* when all are released together, each server and those above it find the time
\* for their budgets before its period is over.
Releases(p, t) == IF t > 0 THEN (t + p - 1) \div p ELSE 0

Above(params, s) == {h \in Server : params[h].priority < params[s].priority}

Demand(params, t) ==
  [h \in Server |-> Releases(params[h].period, t) * params[h].budget]

\* The sum of f over S, by counting.
Total(S, f) == Cardinality(UNION {{s} \X (1 .. f[s]) : s \in S})

Suffices(params, s, t) ==
  params[s].budget + Total(Above(params, s), Demand(params, t)) <= t

Schedulable(params) ==
  \A s \in Server : \E t \in 1 .. params[s].period : Suffices(params, s, t)

SchedulableParams == {params \in ServerParams : Schedulable(params)}

FP == INSTANCE FPServers
        WITH left     <- LeftBudget,
             until    <- UntilRelease,
             Feasible <- SchedulableParams

\* The handlers implement periodic servers under fixed-priority preemptive
\* scheduling: at every jiffy the server that runs is the one the theory says,
\* with the budget the theory says.
ImplementsFPServers == FP!Spec

\* And the service goes on forever.
ServedForever == FP!FairSpec

\* Whatever the timing, the handlers implement the servers that the tasks see:
\* the highest ready server runs, alone, from the first release on, however
\* releases, preemptions, completions and depletions follow each other.
Core == INSTANCE Servers
          WITH priority <- [s \in Server |-> SERVERS[s].priority],
               running  <- {s \in Server : running[s]}

ImplementsServers == Core!Spec
=============================================================================
