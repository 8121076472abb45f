------------------------- MODULE ServerSchedProofs -------------------------
(***************************************************************************)
(* What holds of the servers of one core for every number of servers,      *)
(* every set of arguments of init_server, every size of an int and every   *)
(* delay of the timer.                                                     *)
(***************************************************************************)
EXTENDS ServerSched, RelPqProofs

----------------------------------------------------------------------------
(* Arithmetic of jiffies, and the head of the ready queue.                 *)

LEMMA ModType ==
  ASSUME NEW t \in Int, NEW d \in Int
  PROVE  (t + d) % JIFFIES_MOD \in 0 .. JIFFIES_MOD - 1
<1>1. JIFFIES_MOD \in Nat \ {0}
  BY ServerSchedAssumption
<1> QED
  BY <1>1

LEMMA AfterType ==
  ASSUME NEW t \in Int, NEW d \in Int
  PROVE  After(t, d) \in 0 .. JIFFIES_MOD - 1
BY ModType DEF After

LEMMA ElapsedType ==
  ASSUME NEW t \in Int, NEW u \in Int
  PROVE  Elapsed(t, u) \in Int
<1>1. JIFFIES_MOD \in Nat \ {0}
  BY ServerSchedAssumption
<1>2. (t - u) % JIFFIES_MOD \in Int
  BY <1>1
<1> QED
  BY <1>1, <1>2 DEF Elapsed

\* The arguments of init_server.
LEMMA ParamsType ==
  ASSUME SERVERS \in ServerParams, NEW s \in Server
  PROVE  /\ SERVERS[s].period \in Nat \ {0}
         /\ SERVERS[s].budget \in Nat \ {0}
         /\ SERVERS[s].priority \in Nat
         /\ SERVERS[s].mem_budget \in Nat
         /\ \A t \in Server : SERVERS[s].priority = SERVERS[t].priority => s = t
BY ServerParamsAssumption

\* bitmap_get finds the one server of highest priority.
LEMMA BitmapGetProperty ==
  ASSUME SERVERS \in ServerParams, NEW queue \in SUBSET Server, queue # {}
  PROVE  /\ BitmapGet(queue) \in queue
         /\ \A t \in queue :
              SERVERS[BitmapGet(queue)].priority <= SERVERS[t].priority
<1> DEFINE T == {SERVERS[s].priority : s \in queue}
<1>1. T \in SUBSET Nat /\ T # {}
  BY ParamsType
<1>2. \E x \in T : \A y \in T : x <= y
  <2> HIDE DEF T
  <2> QED
    BY <1>1, NatMin
<1>3. \E s \in queue : \A t \in queue :
        SERVERS[s].priority <= SERVERS[t].priority
  BY <1>2
<1> QED
  BY <1>3 DEF BitmapGet

LEMMA BitmapGetUnique ==
  ASSUME SERVERS \in ServerParams, NEW queue \in SUBSET Server,
         NEW s \in queue,
         \A t \in queue : SERVERS[s].priority <= SERVERS[t].priority
  PROVE  s = BitmapGet(queue)
<1> DEFINE top == BitmapGet(queue)
<1>1. top \in queue /\ SERVERS[top].priority <= SERVERS[s].priority
  BY BitmapGetProperty
<1> HIDE DEF top
<1>2. SERVERS[top].priority = SERVERS[s].priority
  <2>1. SERVERS[top].priority \in Nat /\ SERVERS[s].priority \in Nat
    BY <1>1, ParamsType
  <2>2. SERVERS[s].priority <= SERVERS[top].priority
    BY <1>1
  <2> QED
    BY <1>1, <2>1, <2>2
<1> QED
  BY <1>1, <1>2, ParamsType DEF top

LEMMA BitmapGetType ==
  ASSUME SERVERS \in ServerParams, NEW queue \in SUBSET Server
  PROVE  /\ BitmapGet(queue) \in queue \cup {None}
         /\ BitmapGet(queue) = None <=> queue = {}
<1>1. None \notin Server
  BY ServerSchedAssumption
<1>2. CASE queue = {}
  BY <1>2 DEF BitmapGet
<1>3. CASE queue # {}
  BY <1>1, <1>3, BitmapGetProperty
<1> QED
  BY <1>2, <1>3

----------------------------------------------------------------------------
(* The release queue between two steps: sound, with a node of every server *)
(* and room for every period.                                              *)

HasEveryServer(q) ==
  /\ Sound(q)
  /\ Held(q) = Server
  /\ \A s \in Server : SERVERS[s].period <= Wrap(q)

QueueInv == HasEveryServer(relq)

TypeInv == TypeOK /\ QueueInv

LEMMA PeriodFits ==
  ASSUME SERVERS \in ServerParams, NEW q, HasEveryServer(q)
  PROVE  \A s \in Server : Period[s] \in 1 .. Wrap(q)
<1> SUFFICES ASSUME NEW s \in Server
             PROVE  SERVERS[s].period \in 1 .. Wrap(q)
  BY DEF Period
<1> QED
  BY ParamsType, WrapType DEF HasEveryServer

\* A handler moves the virtual time of the queue and nothing else.
LEMMA VirtualTimeSound ==
  ASSUME NEW q, HasEveryServer(q), NEW vt \in Int,
         NEW r, r = [q EXCEPT !.virtual_time = vt]
  PROVE  HasEveryServer(r)
<1>1. IsRelPq(q) /\ Sound(q) /\ Typed(q)
  BY DEF HasEveryServer, Sound, Typed
<1>2. /\ IsRelPq(r)
      /\ SameContent(r, q)
      /\ r.active_bitmap_int_index = q.active_bitmap_int_index
  BY <1>1 DEF IsRelPq, SameContent, Wrap
<1>3. Sound(r) /\ Held(r) = Held(q)
  <2>1. Typed(r)
    BY <1>1, <1>2 DEF Typed, SameContent
  <2> QED
    BY <1>1, <1>2, <2>1, SameContentSound
<1>4. Wrap(r) = Wrap(q)
  BY <1>2 DEF Wrap, SameContent
<1> QED
  BY <1>3, <1>4 DEF HasEveryServer

LEMMA FetchNextKeeps ==
  ASSUME SERVERS \in ServerParams, NEW q, HasEveryServer(q)
  PROVE  LET r == FetchNext(q)
         IN  /\ HasEveryServer(r.queue)
             /\ r.node \in Server
             /\ r.event \in Int
             /\ r.queue.virtual_time \in Int
<1> DEFINE r == FetchNext(q)
<1>1. Sound(q) /\ Held(q) = Server /\ Server # {}
  BY RelPqAssumption DEF HasEveryServer
<1>2. /\ r.event \in 1 .. Wrap(q) /\ r.node \in Server
      /\ Sound(r.queue) /\ Held(r.queue) = Server
      /\ r.queue.bitmap_size = q.bitmap_size
  BY <1>1, FetchNextSound
<1> HIDE DEF r
<1>3. Wrap(r.queue) = Wrap(q)
  BY <1>2 DEF Wrap
<1>4. r.queue.virtual_time \in Int /\ r.event \in Int
  BY <1>1, <1>2, WrapType DEF Sound, Typed, IsRelPq
<1> QED
  BY <1>2, <1>3, <1>4 DEF HasEveryServer, r

LEMMA ReleaseDueKeeps ==
  ASSUME SERVERS \in ServerParams, NEW q, HasEveryServer(q)
  PROVE  LET r == ReleaseDue(q, Period)
         IN  /\ HasEveryServer(r.queue)
             /\ r.nodes \subseteq Server
             /\ r.first \in r.nodes
             /\ r.node \in Server
             /\ r.relative \in Int
<1> DEFINE r == ReleaseDue(q, Period)
<1>1. Sound(q) /\ Held(q) = Server /\ Server # {}
  BY RelPqAssumption DEF HasEveryServer
<1>2. \A s \in Server : Period[s] \in 1 .. Wrap(q)
  BY PeriodFits
<1>3. /\ Sound(r.queue) /\ Held(r.queue) = Server
      /\ r.queue.bitmap_size = q.bitmap_size
      /\ r.nodes \subseteq Server /\ r.first \in r.nodes
      /\ r.node \in Server /\ r.relative \in Int
  BY <1>1, <1>2, ReleaseDueSound
<1> HIDE DEF r
<1>4. Wrap(r.queue) = Wrap(q)
  BY <1>3 DEF Wrap
<1> QED
  BY <1>3, <1>4 DEF HasEveryServer, r

\* What a step of server_release_handler finds in the release queue.
LEMMA ReleaseStepType ==
  ASSUME TypeInv
  PROVE  LET step == ReleaseStep
         IN  /\ HasEveryServer(step.queue)
             /\ step.nodes \subseteq Server
             /\ step.nodes = {} \/ step.first \in step.nodes
             /\ step.node \in Server
             /\ step.relative \in Int
<1>1. SERVERS \in ServerParams /\ HasEveryServer(relq)
  BY DEF TypeInv, TypeOK, QueueInv
<1>2. CASE FIRST_RUN
  <2> DEFINE next == FetchNext(relq)
  <2>1. ReleaseStep = [ queue |-> next.queue, nodes |-> {}, first |-> None,
                        node |-> next.node, relative |-> next.event ]
    BY <1>2 DEF ReleaseStep
  <2>2. /\ HasEveryServer(next.queue) /\ next.node \in Server
        /\ next.event \in Int
    BY <1>1, FetchNextKeeps
  <2> HIDE DEF next
  <2> QED
    BY <2>1, <2>2
<1>3. CASE ~FIRST_RUN
  <2>1. ReleaseStep = ReleaseDue(relq, Period)
    BY <1>3 DEF ReleaseStep
  <2> QED
    BY <1>1, <2>1, ReleaseDueKeeps
<1> QED
  BY <1>2, <1>3

\* What the completion of a server finds in it.
LEMMA CompleteStepType ==
  ASSUME SERVERS \in ServerParams, NEW q, HasEveryServer(q)
  PROVE  LET step == CompleteStep(q)
         IN  /\ HasEveryServer(step.queue)
             /\ step.nodes \subseteq Server
             /\ step.node \in Server
             /\ step.relative \in Int
<1> DEFINE next == FetchNext(q)
           vt   == next.queue.virtual_time
           relative == IF next.event < vt
                       THEN Wrap(next.queue) - vt + next.event
                       ELSE next.event - vt
<1>1. /\ HasEveryServer(next.queue) /\ next.node \in Server
      /\ next.event \in Int /\ vt \in Int
  BY FetchNextKeeps
<1>2. CASE next.event = vt
  <2>1. CompleteStep(q) = ReleaseDue(q, Period)
    BY <1>2 DEF CompleteStep
  <2> QED
    BY <2>1, ReleaseDueKeeps
<1>3. CASE next.event # vt
  <2>1. CompleteStep(q) = [ queue |-> next.queue, nodes |-> {},
                            node |-> next.node, relative |-> relative ]
    BY <1>3 DEF CompleteStep
  <2> HIDE DEF next
  <2>2. Wrap(next.queue) \in Int
    BY <1>1, WrapType DEF HasEveryServer
  <2>3. relative \in Int
    BY <1>1, <2>2
  <2> HIDE DEF relative
  <2> QED
    BY <1>1, <2>1, <2>3
<1> QED
  BY <1>2, <1>3

----------------------------------------------------------------------------
(* Type correctness.                                                       *)

Timer == [handler : {"none", "release", "complete"}, server : Server,
          expires : 0 .. JIFFIES_MOD - 1]

LEMMA ModTimerType ==
  ASSUME jiffies \in Int, NEW handler, NEW s, NEW expires \in 0 .. JIFFIES_MOD - 1
  PROVE  /\ ModTimer(handler, s, expires).handler = handler
         /\ ModTimer(handler, s, expires).server = s
         /\ handler \in {"release", "complete"} /\ s \in Server
              => ModTimer(handler, s, expires) \in Timer
<1>1. After(jiffies, 1) \in 0 .. JIFFIES_MOD - 1
  BY AfterType, 1 \in Int
<1> QED
  BY <1>1 DEF ModTimer, Timer

\* The timer is armed for the next release or for the end of a budget.
LEMMA SetTimerType ==
  ASSUME SERVERS \in ServerParams, jiffies \in Int,
         NEW queue, HasEveryServer(queue),
         NEW node \in Server, NEW relative \in Int,
         NEW s \in Server, NEW budget \in Int,
         NEW expiration \in 0 .. JIFFIES_MOD - 1,
         SetTimer(queue, node, relative, s, budget, expiration)
  PROVE  /\ timer' \in Timer
         /\ HasEveryServer(relq')
         /\ timer'.handler \in {"release", "complete"}
         /\ timer'.handler = "complete" => timer'.server = s
<1> DEFINE event == next_scheduling_event(relative, budget)
           vt    == queue.virtual_time + event
<1>1. /\ timer' = IF event = budget
                  THEN ModTimer("complete", s, expiration)
                  ELSE ModTimer("release", node, After(jiffies, event))
      /\ relq' = [queue EXCEPT !.virtual_time = vt]
  BY DEF SetTimer
<1>2. event \in Int
  BY DEF next_scheduling_event
<1>3. After(jiffies, event) \in 0 .. JIFFIES_MOD - 1
  BY <1>2, AfterType
<1>4. queue.virtual_time \in Int
  BY DEF HasEveryServer, Sound, Typed, IsRelPq
<1>5. vt \in Int
  BY <1>2, <1>4
<1> HIDE DEF event, vt
<1>6. HasEveryServer(relq')
  BY <1>1, <1>5, VirtualTimeSound
<1> QED
  BY <1>1, <1>3, <1>6, ModTimerType

\* The conjuncts of the invariant that a step may break, and the others.
LEMMA TypeInvStep ==
  ASSUME TypeInv, SERVERS' = SERVERS, HasEveryServer(relq'),
         FIRST_RUN' \in BOOLEAN, jiffies' \in 0 .. JIFFIES_MOD - 1,
         ready' \subseteq Server,
         virtual_time_set' \in 0 .. JIFFIES_MOD - 1, prev_virt_time' \in Int,
         timer' \in Timer, running' \in [Server -> BOOLEAN],
         remain_budget' \in [Server -> Int],
         rem_mem_budget' \in [Server -> Int],
         budget_expiration_time' \in [Server -> 0 .. JIFFIES_MOD - 1],
         timestamp' \in [Server -> 0 .. JIFFIES_MOD - 1],
         used' \in [Server -> Nat], age' \in [Server -> Nat]
  PROVE  TypeInv'
<1>1. IsRelPq(relq')
  BY DEF HasEveryServer, Sound, Typed
<1>2. TypeOK'
  BY <1>1 DEF TypeOK, TypeInv, Timer
<1>3. QueueInv'
  BY DEF QueueInv, HasEveryServer
<1> QED
  BY <1>2, <1>3 DEF TypeInv

\* The largest period, which relPq_init is called with.
LEMMA LargestPeriod ==
  ASSUME SERVERS \in ServerParams
  PROVE  LET largest == CHOOSE p \in {SERVERS[s].period : s \in Server} :
                          \A s \in Server : SERVERS[s].period <= p
         IN  /\ largest \in Nat \ {0}
             /\ \A s \in Server : SERVERS[s].period \in 1 .. largest
<1> DEFINE periods == {SERVERS[s].period : s \in Server}
           largest == CHOOSE p \in periods :
                        \A s \in Server : SERVERS[s].period <= p
           f       == [s \in Server |-> SERVERS[s].period]
<1>1. f \in [Server -> Nat]
  BY ParamsType
<1>2. \E m \in Server : \A s \in Server : f[s] <= f[m]
  <2> HIDE DEF f
  <2> QED
    BY <1>1, RelPqAssumption, FiniteMax
<1>3. \E p \in periods : \A s \in Server : SERVERS[s].period <= p
  BY <1>2
<1>4. largest \in periods /\ \A s \in Server : SERVERS[s].period <= largest
  BY <1>3
<1> HIDE DEF largest
<1>5. largest \in Nat \ {0}
  BY <1>4, ParamsType
<1>6. ASSUME NEW s \in Server
      PROVE  SERVERS[s].period \in 1 .. largest
  BY <1>4, <1>5, ParamsType
<1> QED
  BY <1>5, <1>6 DEF largest

LEMMA TypeInit ==
  ASSUME Init
  PROVE  TypeInv
<1> DEFINE periods == {SERVERS[s].period : s \in Server}
           largest == CHOOSE p \in periods :
                        \A s \in Server : SERVERS[s].period <= p
<1>1. SERVERS \in ServerParams /\ Server # {} /\ IsFiniteSet(Server)
  BY RelPqAssumption DEF Init
<1>2. largest \in Nat \ {0} /\ \A s \in Server : SERVERS[s].period <= largest
  BY <1>1, LargestPeriod
<1>3. PICK position \in [Server -> 1 .. Cardinality(Server)] :
        relq = InitialRelq(SERVERS, position)
  BY DEF Init
<1>4. HasEveryServer(relq)
  <2> DEFINE q  == [RelPqInit(largest) EXCEPT !.since = position]
             at == [s \in Server |-> SERVERS[s].period]
  <2>1. relq = InsertAll(q, at)
    BY <1>3 DEF InitialRelq
  <2>2. Sound(q) /\ Held(q) = {} /\ Wrap(q) >= largest
    <3> HIDE DEF largest
    <3>1. position \in [Server -> Nat]
      OBVIOUS
    <3> QED
      BY <1>2, <3>1, RelPqInitSound
  <2> HIDE DEF q, largest
  <2>3. Wrap(q) \in Nat /\ \A s \in Server : SERVERS[s].period <= Wrap(q)
    <3>1. Wrap(q) \in Nat
      BY <2>2, WrapType
    <3>2. \A s \in Server : SERVERS[s].period \in Nat
      BY <1>1, ParamsType
    <3> QED
      BY <1>2, <2>2, <3>1, <3>2
  <2>4. at \in [Server -> 1 .. 2 * Wrap(q)]
    BY <1>1, <2>3, ParamsType
  <2>5. /\ Sound(InsertAll(q, at)) /\ Held(InsertAll(q, at)) = {} \cup Server
        /\ InsertAll(q, at).bitmap_size = q.bitmap_size
    <3> HIDE DEF at
    <3>1. Server \in SUBSET Server /\ Server \cap Held(q) = {}
      BY <2>2
    <3> QED
      BY <2>2, <2>4, <3>1, InsertAllSound
  <2> HIDE DEF at
  <2> QED
    BY <2>1, <2>3, <2>5 DEF HasEveryServer, Wrap
<1>5. BitmapGet(Server) \in Server
  BY <1>1, BitmapGetProperty
<1>6. 0 \in 0 .. JIFFIES_MOD - 1
  BY ServerSchedAssumption
<1>7. timer \in Timer
  <2>1. jiffies \in Int
    BY DEF Init
  <2>2. After(jiffies, StartDelay) \in 0 .. JIFFIES_MOD - 1
    BY <2>1, AfterType, ServerSchedAssumption
  <2> QED
    BY <1>5, <2>1, <2>2, ModTimerType DEF Init
<1>8. TypeOK
  <2>1. IsRelPq(relq)
    BY <1>4 DEF HasEveryServer, Sound, Typed
  <2>2. /\ remain_budget \in [Server -> Int]
        /\ rem_mem_budget \in [Server -> Int]
    BY <1>1, ParamsType DEF Init
  <2> QED
    BY <1>1, <1>6, <1>7, <2>1, <2>2 DEF Init, TypeOK, Timer
<1> QED
  BY <1>4, <1>8 DEF TypeInv, QueueInv

\* The types of the parts that the handlers share.
LEMMA RefillType ==
  ASSUME TypeInv, NEW released, NEW memory \in [Server -> Int],
         Refill(released, memory)
  PROVE  /\ rem_mem_budget' \in [Server -> Int]
         /\ used' \in [Server -> Nat]
         /\ age' \in [Server -> Nat]
<1>1. \A s \in Server : SERVERS[s].mem_budget \in Int
  BY ParamsType DEF TypeInv, TypeOK
<1> QED
  BY <1>1 DEF Refill, TypeInv, TypeOK

LEMMA RefilledType ==
  ASSUME TypeInv, NEW released
  PROVE  Refilled(released) \in [Server -> Int]
<1>1. \A s \in Server : SERVERS[s].budget \in Int
  BY ParamsType DEF TypeInv, TypeOK
<1> QED
  BY <1>1 DEF Refilled, TypeInv, TypeOK

LEMMA StartServerType ==
  ASSUME TypeInv, NEW s \in Server, NEW budget \in Int,
         StartServer(s, budget)
  PROVE  /\ budget_expiration_time' \in [Server -> 0 .. JIFFIES_MOD - 1]
         /\ timestamp' \in [Server -> 0 .. JIFFIES_MOD - 1]
<1>1. jiffies \in 0 .. JIFFIES_MOD - 1 /\ jiffies \in Int
  BY DEF TypeInv, TypeOK
<1>2. After(jiffies, budget) \in 0 .. JIFFIES_MOD - 1
  BY <1>1, AfterType
<1> QED
  BY <1>1, <1>2 DEF StartServer, TypeInv, TypeOK

\* The timer's server and the released one are servers.
LEMMA ReleasedServerType ==
  ASSUME TypeInv, NEW step, step.nodes \subseteq Server
  PROVE  /\ ReleasedServers(step) \subseteq Server
         /\ ReleasedServer(step) \in Server
<1>1. timer.server \in Server /\ ready \subseteq Server
  BY DEF TypeInv, TypeOK
<1> QED
  BY <1>1 DEF ReleasedServers, ReleasedServer

\* A release leaves every variable in its type, whichever server runs next.
LEMMA ReleaseType ==
  ASSUME TypeInv, server_release_handler
  PROVE  /\ TypeInv'
         /\ timer'.handler \in {"release", "complete"}
<1> DEFINE step == ReleaseStep
           r    == ReleasedServer(step)
           RS   == ReleasedServers(step)
           head == BitmapGet(ready)
<1>1. /\ HasEveryServer(step.queue) /\ step.nodes \subseteq Server
      /\ step.node \in Server /\ step.relative \in Int
  BY ReleaseStepType
<1>2. \/ ReleaseWhenIdle(step)
      \/ ReleasePreempts(step)
      \/ ReleaseNoResched(step)
  BY DEF server_release_handler
<1>3. /\ SERVERS \in ServerParams /\ jiffies \in 0 .. JIFFIES_MOD - 1
      /\ jiffies \in Int /\ ready \subseteq Server
      /\ timer.server \in Server
      /\ running \in [Server -> BOOLEAN]
      /\ virtual_time_set \in 0 .. JIFFIES_MOD - 1
      /\ budget_expiration_time \in [Server -> 0 .. JIFFIES_MOD - 1]
      /\ timestamp \in [Server -> 0 .. JIFFIES_MOD - 1]
      /\ rem_mem_budget \in [Server -> Int]
      /\ relq.virtual_time \in Int
  BY SMTT(40) DEF TypeInv, TypeOK, IsRelPq
<1> HIDE DEF step
<1>4. RS \subseteq Server /\ r \in Server
  BY <1>1, ReleasedServerType
<1>5. /\ SERVERS[r].budget \in Int
      /\ After(jiffies, SERVERS[r].budget) \in 0 .. JIFFIES_MOD - 1
  <2> HIDE DEF r
  <2>1. SERVERS[r].budget \in Int
    BY <1>3, <1>4, ParamsType
  <2> QED
    BY <1>3, <2>1, AfterType
<1>6. Refilled(RS) \in [Server -> Int]
  BY RefilledType
<1>7. ASSUME EnterRelease(step)
      PROVE  /\ SERVERS' = SERVERS /\ FIRST_RUN' \in BOOLEAN
             /\ jiffies' \in 0 .. JIFFIES_MOD - 1
             /\ ready' \subseteq Server
             /\ prev_virt_time' \in Int
             /\ rem_mem_budget' \in [Server -> Int]
             /\ used' \in [Server -> Nat]
             /\ age' \in [Server -> Nat]
  <2>1. Refill(RS, rem_mem_budget) /\ ready' = ready \cup RS
    BY <1>7 DEF EnterRelease
  <2>2. /\ rem_mem_budget' \in [Server -> Int]
        /\ used' \in [Server -> Nat] /\ age' \in [Server -> Nat]
    BY <1>3, <2>1, RefillType
  <2> HIDE DEF RS
  <2> QED
    BY <1>3, <1>4, <1>7, <2>1, <2>2 DEF EnterRelease, static
<1>8. CASE ReleaseWhenIdle(step)
  <2>1. /\ EnterRelease(step)
        /\ StartServer(r, SERVERS[r].budget)
        /\ SetTimer(step.queue, step.node, step.relative, r,
                    SERVERS[r].budget, After(jiffies, SERVERS[r].budget))
        /\ remain_budget' = Refilled(RS)
        /\ running' = [running EXCEPT ![r] = TRUE]
        /\ virtual_time_set' \in {jiffies, virtual_time_set}
    BY <1>8 DEF ReleaseWhenIdle
  <2>2. /\ timer' \in Timer /\ HasEveryServer(relq')
        /\ timer'.handler \in {"release", "complete"}
    BY <1>1, <1>3, <1>4, <1>5, <2>1, SetTimerType
  <2>3. /\ budget_expiration_time' \in [Server -> 0 .. JIFFIES_MOD - 1]
        /\ timestamp' \in [Server -> 0 .. JIFFIES_MOD - 1]
    BY <1>4, <1>5, <2>1, StartServerType
  <2>4. /\ running' \in [Server -> BOOLEAN]
        /\ virtual_time_set' \in 0 .. JIFFIES_MOD - 1
    BY <1>3, <2>1
  <2> QED
    BY <1>6, <1>7, <2>1, <2>2, <2>3, <2>4, TypeInvStep
<1>9. CASE ReleasePreempts(step)
  <2>1. /\ ready # {}
        /\ EnterRelease(step)
        /\ StartServer(r, SERVERS[r].budget)
        /\ SetTimer(step.queue, step.node, step.relative, r,
                    SERVERS[r].budget, After(jiffies, SERVERS[r].budget))
        /\ remain_budget' = [Refilled(RS) EXCEPT ![head] =
              IF running[head] THEN @ - Elapsed(jiffies, timestamp[head])
                               ELSE @]
        /\ running' = [running EXCEPT ![head] = FALSE, ![r] = TRUE]
        /\ virtual_time_set' = jiffies
    BY <1>9 DEF ReleasePreempts
  <2>2. /\ timer' \in Timer /\ HasEveryServer(relq')
        /\ timer'.handler \in {"release", "complete"}
    BY <1>1, <1>3, <1>4, <1>5, <2>1, SetTimerType
  <2>3. /\ budget_expiration_time' \in [Server -> 0 .. JIFFIES_MOD - 1]
        /\ timestamp' \in [Server -> 0 .. JIFFIES_MOD - 1]
    BY <1>4, <1>5, <2>1, StartServerType
  <2>4. head \in Server /\ Elapsed(jiffies, timestamp[head]) \in Int
    <3>1. head \in Server
      BY <1>3, <2>1, BitmapGetProperty
    <3> HIDE DEF head
    <3>2. timestamp[head] \in Int
      BY <1>3, <3>1
    <3> QED
      BY <1>3, <3>1, <3>2, ElapsedType
  <2>5. remain_budget' \in [Server -> Int]
    <3> HIDE DEF head, RS
    <3> QED
      BY <1>6, <2>1, <2>4
  <2>6. /\ running' \in [Server -> BOOLEAN]
        /\ virtual_time_set' \in 0 .. JIFFIES_MOD - 1
    BY <1>3, <2>1
  <2> QED
    BY <1>7, <2>1, <2>2, <2>3, <2>5, <2>6, TypeInvStep
<1>10. CASE ReleaseNoResched(step)
  <2> DEFINE left == Elapsed(budget_expiration_time[head], jiffies)
  <2>1. /\ ready # {}
        /\ EnterRelease(step)
        /\ SetTimer(step.queue, step.node, step.relative, head, left,
                    budget_expiration_time[head])
        /\ remain_budget' = Refilled(RS)
        /\ virtual_time_set' = jiffies
        /\ UNCHANGED <<running, budget_expiration_time, timestamp>>
    BY <1>10 DEF ReleaseNoResched
  <2>2. head \in Server
    BY <1>3, <2>1, BitmapGetProperty
  <2> HIDE DEF head
  <2>3. budget_expiration_time[head] \in 0 .. JIFFIES_MOD - 1
    BY <1>3, <2>2
  <2>4. left \in Int
    <3>1. budget_expiration_time[head] \in Int
      BY <2>3
    <3> QED
      BY <1>3, <3>1, ElapsedType
  <2> HIDE DEF left
  <2>5. /\ timer' \in Timer /\ HasEveryServer(relq')
        /\ timer'.handler \in {"release", "complete"}
    BY <1>1, <1>3, <2>1, <2>2, <2>3, <2>4, SetTimerType
  <2> QED
    BY <1>3, <1>6, <1>7, <2>1, <2>5, TypeInvStep
<1> QED
  BY <1>2, <1>8, <1>9, <1>10

LEMMA CompleteServerType ==
  ASSUME TypeInv, NEW completed \in Server,
         NEW queue, HasEveryServer(queue),
         NEW memory \in [Server -> Int],
         prev_virt_time' \in Int,
         CompleteServer(completed, queue, memory)
  PROVE  /\ TypeInv'
         /\ timer'.handler \in {"release", "complete"}
<1> DEFINE step   == CompleteStep(queue)
           ready2 == (ready \ {completed}) \cup step.nodes
           next   == BitmapGet(ready2)
           remain == Refilled(step.nodes)
<1>1. /\ SERVERS \in ServerParams /\ jiffies \in 0 .. JIFFIES_MOD - 1
      /\ jiffies \in Int /\ ready \subseteq Server
      /\ running \in [Server -> BOOLEAN]
      /\ budget_expiration_time \in [Server -> 0 .. JIFFIES_MOD - 1]
      /\ timestamp \in [Server -> 0 .. JIFFIES_MOD - 1]
      /\ FIRST_RUN \in BOOLEAN
  BY DEF TypeInv, TypeOK
<1>2. /\ HasEveryServer(step.queue) /\ step.nodes \subseteq Server
      /\ step.node \in Server /\ step.relative \in Int
  BY <1>1, CompleteStepType
<1>3. /\ ready' = ready2
      /\ Refill(step.nodes, memory)
      /\ remain_budget' = remain
      /\ virtual_time_set' = jiffies
      /\ IF next = None
         THEN /\ Idle(step)
              /\ running' = [running EXCEPT ![completed] = FALSE]
         ELSE /\ running' = [running EXCEPT ![completed] = FALSE,
                                            ![next] = TRUE]
              /\ StartServer(next, remain[next])
              /\ SetTimer(step.queue, step.node, step.relative, next,
                          remain[next], After(jiffies, remain[next]))
      /\ SERVERS' = SERVERS /\ jiffies' = jiffies /\ FIRST_RUN' = FIRST_RUN
  BY DEF CompleteServer, static
<1> HIDE DEF step
<1>4. remain \in [Server -> Int]
  BY RefilledType
<1>5. /\ rem_mem_budget' \in [Server -> Int]
      /\ used' \in [Server -> Nat] /\ age' \in [Server -> Nat]
  BY <1>3, RefillType
<1>6. ready2 \in SUBSET Server
  BY <1>1, <1>2
<1> HIDE DEF ready2, remain
<1>7. CASE next = None
  <2> DEFINE vt  == step.queue.virtual_time + step.relative
             W   == Wrap(step.queue)
             vt2 == IF vt > W THEN vt - W ELSE vt
  <2>1. /\ timer' = ModTimer("release", step.node,
                             After(jiffies, step.relative))
        /\ relq' = [step.queue EXCEPT !.virtual_time = vt2]
        /\ UNCHANGED <<budget_expiration_time, timestamp>>
        /\ running' = [running EXCEPT ![completed] = FALSE]
    BY <1>3, <1>7 DEF Idle
  <2>2. step.queue.virtual_time \in Int /\ W \in Int
    <3>1. Sound(step.queue)
      BY <1>2 DEF HasEveryServer
    <3>2. W \in Nat \ {0}
      BY <3>1, WrapType
    <3>3. step.queue.virtual_time \in Int
      BY <3>1 DEF Sound, Typed, IsRelPq
    <3> QED
      BY <3>2, <3>3
  <2>3. vt2 \in Int
    BY <1>2, <2>2
  <2> HIDE DEF vt2
  <2>4. HasEveryServer(relq')
    BY <1>2, <2>1, <2>3, VirtualTimeSound
  <2>5. After(jiffies, step.relative) \in 0 .. JIFFIES_MOD - 1
    BY <1>1, <1>2, AfterType
  <2>6. timer' \in Timer /\ timer'.handler = "release"
    BY <1>1, <1>2, <2>1, <2>5, ModTimerType
  <2>7. running' \in [Server -> BOOLEAN]
    BY <1>1, <2>1
  <2> QED
    BY <1>1, <1>3, <1>4, <1>5, <1>6, <2>1, <2>4, <2>6, <2>7, TypeInvStep
<1>8. CASE next # None
  <2>1. next \in Server
    BY <1>1, <1>6, <1>8, BitmapGetType
  <2> HIDE DEF next
  <2>2. remain[next] \in Int
    BY <1>4, <2>1
  <2>3. After(jiffies, remain[next]) \in 0 .. JIFFIES_MOD - 1
    BY <1>1, <2>2, AfterType
  <2>4. /\ timer' \in Timer /\ HasEveryServer(relq')
        /\ timer'.handler \in {"release", "complete"}
    BY <1>1, <1>2, <1>3, <1>8, <2>1, <2>2, <2>3, SetTimerType
  <2>5. /\ budget_expiration_time' \in [Server -> 0 .. JIFFIES_MOD - 1]
        /\ timestamp' \in [Server -> 0 .. JIFFIES_MOD - 1]
    BY <1>3, <1>8, <2>1, <2>2, StartServerType
  <2>6. running' \in [Server -> BOOLEAN]
    BY <1>1, <1>3, <1>8
  <2> QED
    BY <1>1, <1>3, <1>4, <1>5, <1>6, <2>4, <2>5, <2>6, TypeInvStep
<1> QED
  BY <1>7, <1>8

LEMMA CompleteHandlerType ==
  ASSUME TypeInv, server_complete_handler
  PROVE  TypeInv'
<1>1. /\ HasEveryServer(relq) /\ prev_virt_time' = relq.virtual_time
      /\ timer \in Timer /\ rem_mem_budget \in [Server -> Int]
  BY DEF server_complete_handler, TypeInv, TypeOK, QueueInv, Timer
<1>2. prev_virt_time' \in Int
  BY <1>1 DEF HasEveryServer, Sound, Typed, IsRelPq
<1>3. CASE BitmapGet(ready) = timer.server
  <2>1. CompleteServer(timer.server, relq, rem_mem_budget)
    BY <1>3 DEF server_complete_handler
  <2>2. timer.server \in Server
    BY <1>1 DEF Timer
  <2> QED
    BY <1>1, <1>2, <2>1, <2>2, CompleteServerType
<1>4. CASE BitmapGet(ready) # timer.server
  <2>1. WrongExpiredServer
    BY <1>4 DEF server_complete_handler
  <2>2. timer' = [timer EXCEPT !.handler = "none"]
    BY <2>1 DEF WrongExpiredServer
  <2>3. timer' \in Timer
    BY <1>1, <2>2 DEF Timer
  <2>4. /\ SERVERS' = SERVERS /\ FIRST_RUN' = FIRST_RUN /\ jiffies' = jiffies
        /\ relq' = relq /\ ready' \subseteq ready
        /\ UNCHANGED <<virtual_time_set, account, history>>
    BY <2>1 DEF WrongExpiredServer, static
  <2> QED
    BY <1>1, <1>2, <2>3, <2>4, TypeInvStep
       DEF TypeInv, TypeOK, account, history
<1> QED
  BY <1>3, <1>4

LEMMA DeferredType ==
  ASSUME TypeInv, NEW s \in Server, NEW memory \in [Server -> Int],
         deferred_memory_work(s, memory)
  PROVE  TypeInv'
<1> DEFINE vt == virtual_time_now
           q  == [relq EXCEPT !.virtual_time = vt]
<1>1. HasEveryServer(relq) /\ jiffies \in Int /\ virtual_time_set \in Int
      /\ prev_virt_time \in Int
  BY DEF TypeInv, TypeOK, QueueInv
<1>2. vt \in Int
  <2>1. Wrap(relq) \in Int
    BY <1>1, WrapType DEF HasEveryServer
  <2>2. Elapsed(jiffies, virtual_time_set) \in Int
    BY <1>1, ElapsedType
  <2> QED
    BY <1>1, <2>1, <2>2 DEF virtual_time_now
<1> HIDE DEF vt
<1>3. HasEveryServer(q)
  BY <1>1, <1>2, VirtualTimeSound
<1>4. CASE BitmapGet(ready) = s
  <2>1. prev_virt_time' = vt /\ CompleteServer(s, q, memory)
    BY <1>4 DEF deferred_memory_work, vt
  <2> HIDE DEF q
  <2> QED
    BY <1>2, <1>3, <2>1, CompleteServerType
<1>5. CASE BitmapGet(ready) # s
  <2>1. /\ SERVERS' = SERVERS /\ FIRST_RUN' = FIRST_RUN /\ jiffies' = jiffies
        /\ relq' = relq /\ ready' \subseteq ready /\ timer' = timer
        /\ rem_mem_budget' = memory
        /\ UNCHANGED <<virtual_time_set, prev_virt_time, running, remain_budget,
                       budget_expiration_time, timestamp, used, age>>
    BY <1>5 DEF deferred_memory_work, static, history
  <2> QED
    BY <1>1, <2>1, TypeInvStep DEF TypeInv, TypeOK, Timer
<1> QED
  BY <1>4, <1>5

LEMMA TickType ==
  ASSUME TypeInv, Tick
  PROVE  TypeInv'
<1>1. /\ HasEveryServer(relq) /\ jiffies \in Int
      /\ used \in [Server -> Nat] /\ age \in [Server -> Nat]
  BY DEF TypeInv, TypeOK, QueueInv
<1>2. jiffies' \in 0 .. JIFFIES_MOD - 1
  BY <1>1, AfterType, 1 \in Int DEF Tick
<1>3. used' \in [Server -> Nat] /\ age' \in [Server -> Nat]
  BY <1>1 DEF Tick
<1> QED
  BY <1>1, <1>2, <1>3, TypeInvStep
     DEF Tick, TypeInv, TypeOK, Timer, static, queues, account

LEMMA TypeNext ==
  ASSUME TypeInv, [Next]_vars
  PROVE  TypeInv'
<1>1. CASE Tick
  BY <1>1, TickType
<1>2. CASE server_release_handler
  BY <1>2, ReleaseType
<1>3. CASE server_complete_handler
  BY <1>3, CompleteHandlerType
<1>4. ASSUME NEW s \in Server, CacheMiss(s)
      PROVE  TypeInv'
  <2>1. /\ rem_mem_budget' \in [Server -> Int]
        /\ HasEveryServer(relq)
    BY <1>4 DEF CacheMiss, TypeInv, TypeOK, QueueInv
  <2> QED
    BY <1>4, <2>1, TypeInvStep
       DEF CacheMiss, TypeInv, TypeOK, Timer, static, queues, history
<1>5. ASSUME NEW s \in Server, MemoryOverflow(s)
      PROVE  TypeInv'
  <2>1. [rem_mem_budget EXCEPT ![s] = @ - 1] \in [Server -> Int]
    BY DEF TypeInv, TypeOK
  <2> QED
    BY <1>5, <2>1, DeferredType DEF MemoryOverflow
<1>6. ASSUME NEW s \in Server, StrayMiss(s)
      PROVE  TypeInv'
  <2>1. rem_mem_budget \in [Server -> Int]
    BY DEF TypeInv, TypeOK
  <2> QED
    BY <1>6, <2>1, DeferredType DEF StrayMiss
<1>7. CASE UNCHANGED vars
  BY <1>7 DEF vars, static, queues, account, history, TypeInv, TypeOK,
              QueueInv, HasEveryServer
<1> QED
  BY <1>1, <1>2, <1>3, <1>4, <1>5, <1>6, <1>7 DEF Next

\* Every variable keeps its type, whatever the servers do: in particular the
\* release queue of release-queue.c remains a release queue.
THEOREM TypeCorrect == Spec => []TypeOK
<1>1. Init => TypeInv
  BY TypeInit
<1>2. TypeInv /\ [Next]_vars => TypeInv'
  BY TypeNext
<1>3. TypeInv => TypeOK
  BY DEF TypeInv
<1> QED
  BY <1>1, <1>2, <1>3, PTL DEF Spec

\* No handler loses a server or queues it twice.
THEOREM NoServerLost == Spec => []EveryServerQueued
<1>1. Init => TypeInv
  BY TypeInit
<1>2. TypeInv /\ [Next]_vars => TypeInv'
  BY TypeNext
<1>3. TypeInv => EveryServerQueued
  <2> SUFFICES ASSUME TypeInv PROVE EveryServerQueued
    OBVIOUS
  <2>1. Sound(relq) /\ Held(relq) = Server
    BY DEF TypeInv, QueueInv, HasEveryServer
  <2> QED
    BY <2>1 DEF Sound, OnePlace, Held, EveryServerQueued
<1> QED
  BY <1>1, <1>2, <1>3, PTL DEF Spec

----------------------------------------------------------------------------
(* The server that runs is the head of the ready queue.                    *)

\* The first run finds the server of highest priority outside the ready queue.
FirstRunInv ==
  FIRST_RUN => /\ ready = Server \ {BitmapGet(Server)}
               /\ timer.handler = "release"
               /\ timer.server = BitmapGet(Server)

HeadInv == RunningIsHead /\ CoreAlive /\ FirstRunInv

\* The assumption: no task runs outside its server while memory is throttled.
NoStrayMiss == ~(StrayTasks /\ USE_MEMSCHEDx)

\* Whom a release makes the head of the ready queue, decided by comparing the
\* released server with the old head only.
LEMMA ReleasedServerProperty ==
  ASSUME TypeInv, NEW step, step.nodes \subseteq Server,
         step.nodes = {} \/ step.first \in step.nodes
  PROVE  LET r   == ReleasedServer(step)
             top == BitmapGet(ready \cup ReleasedServers(step))
         IN  /\ ready = {} => r = top
             /\ ready # {} /\ Preempts(step) => r = top
             /\ ready # {} /\ ~Preempts(step) => BitmapGet(ready) = top
<1> DEFINE r      == ReleasedServer(step)
           ready2 == ready \cup ReleasedServers(step)
           top    == BitmapGet(ready2)
           head   == BitmapGet(ready)
<1>1. /\ SERVERS \in ServerParams /\ timer.server \in Server
      /\ ready \in SUBSET Server
  BY DEF TypeInv, TypeOK
<1>2. ready2 \in SUBSET Server /\ timer.server \in ready2
  BY <1>1 DEF ReleasedServers
<1>3. top \in ready2 /\ \A t \in ready2 :
        SERVERS[top].priority <= SERVERS[t].priority
  <2> HIDE DEF ready2
  <2> QED
    BY <1>1, <1>2, BitmapGetProperty
<1>4. r = top \/ (r = timer.server /\ top \in ready \cup {timer.server})
  <2>1. CASE Cardinality(step.nodes) > 1 /\ top \in step.nodes
    BY <2>1 DEF ReleasedServer
  <2>2. CASE ~(Cardinality(step.nodes) > 1 /\ top \in step.nodes)
    <3>1. r = timer.server
      BY <2>2 DEF ReleasedServer
    <3>2. CASE top \notin step.nodes
      BY <1>3, <3>1, <3>2 DEF ReleasedServers
    <3>3. CASE ~(Cardinality(step.nodes) > 1)
      <4>1. IsFiniteSet(step.nodes)
        BY RelPqAssumption, FS_Subset
      <4>2. Cardinality(step.nodes) \in Nat
        BY <4>1, FS_CardinalityType
      <4>3. Cardinality(step.nodes) = 0 \/ Cardinality(step.nodes) = 1
        BY <3>3, <4>2
      <4>4. step.nodes = {} \/ \E x : step.nodes = {x}
        BY <4>1, <4>3, FS_EmptySet, FS_Singleton
      <4>5. step.nodes \ {step.first} = {}
        BY <4>4
      <4> QED
        BY <1>3, <3>1, <4>5 DEF ReleasedServers
    <3> QED
      BY <2>2, <3>2, <3>3
  <2> QED
    BY <2>1, <2>2
<1>5. ASSUME ready # {}
      PROVE  /\ head \in ready
             /\ \A t \in ready : SERVERS[head].priority <= SERVERS[t].priority
             /\ Preempts(step) <=> SERVERS[r].priority < SERVERS[head].priority
  BY <1>1, <1>5, BitmapGetProperty DEF Preempts
<1>6. \A s \in Server : SERVERS[s].priority \in Nat
  BY <1>1, ParamsType
<1>7. r \in Server
  BY <1>1, <1>2, <1>3, <1>4
<1> HIDE DEF r, ready2, top, head
<1>8. ready = {} => r = top
  BY <1>4
<1>9. ASSUME ready # {}, Preempts(step)
      PROVE  r = top
  <2>1. CASE r = timer.server /\ top \in ready
    <3>1. SERVERS[r].priority < SERVERS[head].priority
      BY <1>5, <1>9
    <3>2. SERVERS[head].priority <= SERVERS[top].priority
      BY <1>5, <1>9, <2>1
    <3>3. SERVERS[top].priority <= SERVERS[r].priority
      BY <1>2, <1>3, <2>1
    <3>4. head \in Server /\ top \in Server
      BY <1>1, <1>5, <1>9, <2>1
    <3> QED
      BY <1>6, <1>7, <3>1, <3>2, <3>3, <3>4
  <2> QED
    BY <1>4, <2>1
<1>10. ASSUME ready # {}, ~Preempts(step)
       PROVE  head = top
  <2>1. head \in ready /\ head \in ready2 /\ head \in Server
    BY <1>1, <1>5, <1>10 DEF ready2
  <2>2. SERVERS[top].priority <= SERVERS[head].priority
    BY <1>3, <2>1
  <2>3. CASE top \in ready
    <3>1. SERVERS[head].priority <= SERVERS[top].priority /\ top \in Server
      BY <1>1, <1>5, <1>10, <2>3
    <3>2. SERVERS[head].priority = SERVERS[top].priority
      BY <1>6, <2>1, <2>2, <3>1
    <3> QED
      BY <1>1, <2>1, <3>1, <3>2, ParamsType
  <2>4. CASE top \notin ready
    <3>1. r = top
      BY <1>4, <2>4
    <3>2. ~(SERVERS[top].priority < SERVERS[head].priority)
      BY <1>5, <1>10, <3>1
    <3>3. SERVERS[head].priority = SERVERS[top].priority
      BY <1>6, <1>7, <2>1, <2>2, <3>1, <3>2
    <3> QED
      BY <1>1, <1>7, <2>1, <3>1, <3>3, ParamsType
  <2> QED
    BY <2>3, <2>4
<1> QED
  BY <1>8, <1>9, <1>10 DEF r, ready2, top, head

LEMMA HeadInit ==
  ASSUME Init
  PROVE  HeadInv
<1>1. jiffies \in Int
  BY DEF Init
<1>2. After(jiffies, StartDelay) \in 0 .. JIFFIES_MOD - 1
  BY <1>1, AfterType, ServerSchedAssumption
<1>3. timer.handler = "release" /\ timer.server = BitmapGet(Server)
  BY <1>1, <1>2, ModTimerType DEF Init
<1> QED
  BY <1>3 DEF Init, HeadInv, RunningIsHead, CoreAlive, FirstRunInv

\* What the next state must satisfy, with the new head of the ready queue.
LEMMA HeadInvStep ==
  ASSUME SERVERS' = SERVERS, FIRST_RUN' = FALSE,
         \A s \in Server : running'[s] <=> s = BitmapGet(ready'),
         timer'.handler \in {"release", "complete"},
         timer'.handler = "complete" => timer'.server = BitmapGet(ready')
  PROVE  HeadInv'
<1>1. BitmapGet(ready)' = BitmapGet(ready')
  BY DEF BitmapGet
<1> QED
  BY <1>1 DEF HeadInv, RunningIsHead, CoreAlive, FirstRunInv

\* The first run preempts whatever is ready.
LEMMA FirstRunPreempts ==
  ASSUME TypeInv, HeadInv, FIRST_RUN, ready # {}
  PROVE  Preempts(ReleaseStep)
<1> DEFINE step == ReleaseStep
           head == BitmapGet(ready)
           r    == timer.server
<1>1. /\ SERVERS \in ServerParams /\ ready \in SUBSET Server
      /\ ready = Server \ {BitmapGet(Server)} /\ r = BitmapGet(Server)
  BY DEF TypeInv, TypeOK, HeadInv, FirstRunInv
<1>2. step.nodes = {}
  BY DEF ReleaseStep
<1>3. ReleasedServer(step) = r
  <2> HIDE DEF step
  <2> QED
    BY <1>2, FS_EmptySet DEF ReleasedServer
<1>4. head \in ready /\ head \in Server
  BY <1>1, BitmapGetProperty
<1>5. r \in Server /\ SERVERS[r].priority <= SERVERS[head].priority
  BY <1>1, <1>4, RelPqAssumption, BitmapGetProperty
<1>6. head # r
  BY <1>1, <1>4
<1> HIDE DEF head, r, step
<1>7. /\ SERVERS[r].priority \in Nat /\ SERVERS[head].priority \in Nat
      /\ SERVERS[r].priority # SERVERS[head].priority
  BY <1>1, <1>4, <1>5, <1>6, ParamsType
<1>8. SERVERS[r].priority < SERVERS[head].priority
  BY <1>5, <1>7
<1> QED
  BY <1>3, <1>8 DEF Preempts, head, step

LEMMA HeadRelease ==
  ASSUME TypeInv, HeadInv, server_release_handler
  PROVE  HeadInv'
<1> DEFINE step == ReleaseStep
           r    == ReleasedServer(step)
           RS   == ReleasedServers(step)
           head == BitmapGet(ready)
           top  == BitmapGet(ready \cup RS)
<1>1. /\ HasEveryServer(step.queue) /\ step.nodes \subseteq Server
      /\ step.nodes = {} \/ step.first \in step.nodes
      /\ step.node \in Server /\ step.relative \in Int
  BY ReleaseStepType
<1>2. \/ ReleaseWhenIdle(step)
      \/ ReleasePreempts(step)
      \/ ReleaseNoResched(step)
  BY DEF server_release_handler
<1>3. /\ SERVERS \in ServerParams /\ jiffies \in Int
      /\ ready \in SUBSET Server
      /\ running \in [Server -> BOOLEAN]
      /\ budget_expiration_time \in [Server -> 0 .. JIFFIES_MOD - 1]
      /\ None \notin Server
  BY ServerSchedAssumption DEF TypeInv, TypeOK
<1>4. FIRST_RUN /\ ready # {} => Preempts(step)
  BY FirstRunPreempts
<1> HIDE DEF step
<1>5. r \in Server
  BY <1>1, ReleasedServerType
<1>6. /\ ready = {} => r = top
      /\ ready # {} /\ Preempts(step) => r = top
      /\ ready # {} /\ ~Preempts(step) => head = top
  BY <1>1, ReleasedServerProperty
<1>7. timer'.handler \in {"release", "complete"}
  BY ReleaseType
<1>8. \A s \in Server : running[s] => ~FIRST_RUN /\ s = head
  BY DEF HeadInv, RunningIsHead
<1>9. ASSUME EnterRelease(step)
      PROVE  SERVERS' = SERVERS /\ FIRST_RUN' = FALSE /\ BitmapGet(ready') = top
  BY <1>9 DEF EnterRelease, static
<1>10. SERVERS[r].budget \in Int
       /\ After(jiffies, SERVERS[r].budget) \in 0 .. JIFFIES_MOD - 1
  <2> HIDE DEF r
  <2>1. SERVERS[r].budget \in Int
    BY <1>3, <1>5, ParamsType
  <2> QED
    BY <1>3, <2>1, AfterType
<1>11. CASE ReleaseWhenIdle(step)
  <2>1. /\ ready = {}
        /\ EnterRelease(step)
        /\ SetTimer(step.queue, step.node, step.relative, r,
                    SERVERS[r].budget, After(jiffies, SERVERS[r].budget))
        /\ running' = [running EXCEPT ![r] = TRUE]
    BY <1>11 DEF ReleaseWhenIdle
  <2>2. timer'.handler = "complete" => timer'.server = r
    BY <1>1, <1>3, <1>5, <1>10, <2>1, SetTimerType
  <2>3. r = top
    BY <1>6, <2>1
  <2>4. head = None
    BY <2>1 DEF BitmapGet
  <2> HIDE DEF r, top, head
  <2>5. \A s \in Server : running'[s] <=> s = r
    BY <1>3, <1>5, <1>8, <2>1, <2>4
  <2> QED
    BY <1>7, <1>9, <2>1, <2>2, <2>3, <2>5, HeadInvStep
<1>12. CASE ReleasePreempts(step)
  <2>1. /\ ready # {} /\ Preempts(step)
        /\ EnterRelease(step)
        /\ SetTimer(step.queue, step.node, step.relative, r,
                    SERVERS[r].budget, After(jiffies, SERVERS[r].budget))
        /\ running' = [running EXCEPT ![head] = FALSE, ![r] = TRUE]
    BY <1>12 DEF ReleasePreempts
  <2>2. timer'.handler = "complete" => timer'.server = r
    BY <1>1, <1>3, <1>5, <1>10, <2>1, SetTimerType
  <2>3. r = top
    BY <1>6, <2>1
  <2> HIDE DEF r, top, head
  <2>4. \A s \in Server : running'[s] <=> s = r
    BY <1>3, <1>5, <1>8, <2>1
  <2> QED
    BY <1>7, <1>9, <2>1, <2>2, <2>3, <2>4, HeadInvStep
<1>13. CASE ReleaseNoResched(step)
  <2> DEFINE left == Elapsed(budget_expiration_time[head], jiffies)
  <2>1. /\ ready # {} /\ ~Preempts(step)
        /\ EnterRelease(step)
        /\ SetTimer(step.queue, step.node, step.relative, head, left,
                    budget_expiration_time[head])
        /\ running' = running
    BY <1>13 DEF ReleaseNoResched
  <2>2. head = top
    BY <1>6, <2>1
  <2>3. head \in Server
    BY <1>3, <2>1, BitmapGetProperty
  <2>4. \A s \in Server : running[s] <=> s = head
    BY <1>4, <2>1 DEF HeadInv, RunningIsHead
  <2> HIDE DEF head, top
  <2>5. budget_expiration_time[head] \in 0 .. JIFFIES_MOD - 1
        /\ budget_expiration_time[head] \in Int
    BY <1>3, <2>3
  <2>6. left \in Int
    BY <1>3, <2>5, ElapsedType
  <2> HIDE DEF left
  <2>7. timer'.handler = "complete" => timer'.server = head
    BY <1>1, <1>3, <2>1, <2>3, <2>5, <2>6, SetTimerType
  <2> QED
    BY <1>7, <1>9, <2>1, <2>2, <2>4, <2>7, HeadInvStep
<1> QED
  BY <1>2, <1>11, <1>12, <1>13

LEMMA HeadComplete ==
  ASSUME TypeInv, HeadInv, ~FIRST_RUN,
         NEW completed \in Server, completed = BitmapGet(ready),
         NEW queue, HasEveryServer(queue),
         NEW memory \in [Server -> Int], prev_virt_time' \in Int,
         CompleteServer(completed, queue, memory)
  PROVE  HeadInv'
<1> DEFINE step   == CompleteStep(queue)
           ready2 == (ready \ {completed}) \cup step.nodes
           next   == BitmapGet(ready2)
           remain == Refilled(step.nodes)
<1>1. /\ SERVERS \in ServerParams /\ jiffies \in Int
      /\ ready \in SUBSET Server /\ running \in [Server -> BOOLEAN]
      /\ None \notin Server
  BY ServerSchedAssumption DEF TypeInv, TypeOK
<1>2. /\ HasEveryServer(step.queue) /\ step.nodes \subseteq Server
      /\ step.node \in Server /\ step.relative \in Int
  BY <1>1, CompleteStepType
<1>3. /\ ready' = ready2
      /\ IF next = None
         THEN /\ Idle(step)
              /\ running' = [running EXCEPT ![completed] = FALSE]
         ELSE /\ running' = [running EXCEPT ![completed] = FALSE,
                                            ![next] = TRUE]
              /\ SetTimer(step.queue, step.node, step.relative, next,
                          remain[next], After(jiffies, remain[next]))
      /\ SERVERS' = SERVERS /\ FIRST_RUN' = FALSE
  BY SMTT(40) DEF CompleteServer, static
<1>4. \A s \in Server : running[s] => s = completed
  BY DEF HeadInv, RunningIsHead
<1>5. timer'.handler \in {"release", "complete"}
  BY CompleteServerType
<1>6. BitmapGet(ready') = next
  BY <1>3
<1> HIDE DEF step
<1>7. remain \in [Server -> Int]
  BY RefilledType
<1>8. ready2 \in SUBSET Server
  BY <1>1, <1>2
<1> HIDE DEF ready2, remain
<1>9. CASE next = None
  <2>1. timer' = ModTimer("release", step.node, After(jiffies, step.relative))
    BY <1>3, <1>9 DEF Idle
  <2>2. timer'.handler = "release"
    <3>1. After(jiffies, step.relative) \in 0 .. JIFFIES_MOD - 1
      BY <1>1, <1>2, AfterType
    <3> QED
      BY <1>1, <2>1, <3>1, ModTimerType
  <2>3. \A s \in Server : running'[s] <=> s = next
    BY <1>1, <1>3, <1>4, <1>9
  <2> HIDE DEF next
  <2> QED
    BY <1>3, <1>5, <1>6, <2>2, <2>3, HeadInvStep
<1>10. CASE next # None
  <2>1. next \in Server
    BY <1>1, <1>8, <1>10, BitmapGetType
  <2> HIDE DEF next
  <2>2. remain[next] \in Int
    BY <1>7, <2>1
  <2>3. After(jiffies, remain[next]) \in 0 .. JIFFIES_MOD - 1
    BY <1>1, <2>2, AfterType
  <2>4. timer'.handler = "complete" => timer'.server = next
    BY <1>1, <1>2, <1>3, <1>10, <2>1, <2>2, <2>3, SetTimerType
  <2>5. \A s \in Server : running'[s] <=> s = next
    BY <1>1, <1>3, <1>4, <1>10, <2>1
  <2> QED
    BY <1>3, <1>5, <1>6, <2>4, <2>5, HeadInvStep
<1> QED
  BY <1>9, <1>10

\* A step that leaves the running server and the timer alone.
LEMMA HeadUnchanged ==
  ASSUME HeadInv, UNCHANGED <<SERVERS, FIRST_RUN, ready, timer, running>>
  PROVE  HeadInv'
<1>1. BitmapGet(ready)' = BitmapGet(ready)
  BY DEF BitmapGet
<1>2. BitmapGet(Server)' = BitmapGet(Server)
  BY DEF BitmapGet
<1> QED
  BY <1>1, <1>2 DEF HeadInv, RunningIsHead, CoreAlive, FirstRunInv

\* A server that runs is the head, so the work that a miss of its tasks defers
\* completes it.
LEMMA HeadMemory ==
  ASSUME TypeInv, HeadInv, NEW s \in Server, MemoryOverflow(s)
  PROVE  /\ HeadInv'
         /\ \E queue : /\ HasEveryServer(queue)
                       /\ CompleteServer(s, queue,
                                         [rem_mem_budget EXCEPT ![s] = @ - 1])
<1> DEFINE vt     == virtual_time_now
           q      == [relq EXCEPT !.virtual_time = vt]
           memory == [rem_mem_budget EXCEPT ![s] = @ - 1]
<1>1. running[s] /\ deferred_memory_work(s, memory)
  BY DEF MemoryOverflow
<1>2. ~FIRST_RUN /\ s = BitmapGet(ready)
  BY <1>1 DEF HeadInv, RunningIsHead
<1>3. prev_virt_time' = vt /\ CompleteServer(s, q, memory)
  BY <1>1, <1>2 DEF deferred_memory_work
<1>4. /\ HasEveryServer(relq) /\ jiffies \in Int /\ virtual_time_set \in Int
      /\ prev_virt_time \in Int /\ memory \in [Server -> Int]
  BY DEF TypeInv, TypeOK, QueueInv
<1>5. vt \in Int
  <2>1. Wrap(relq) \in Int
    BY <1>4, WrapType DEF HasEveryServer
  <2>2. Elapsed(jiffies, virtual_time_set) \in Int
    BY <1>4, ElapsedType
  <2> QED
    BY <1>4, <2>1, <2>2 DEF virtual_time_now
<1> HIDE DEF vt
<1>6. HasEveryServer(q)
  BY <1>4, <1>5, VirtualTimeSound
<1> HIDE DEF q, memory
<1>7. HeadInv'
  BY <1>2, <1>3, <1>4, <1>5, <1>6, HeadComplete
<1> QED
  BY <1>3, <1>6, <1>7 DEF memory

LEMMA HeadNext ==
  ASSUME NoStrayMiss, TypeInv, HeadInv, [Next]_vars
  PROVE  HeadInv'
<1>1. CASE Tick
  BY <1>1, HeadUnchanged DEF Tick, static, queues, account
<1>2. CASE server_release_handler
  BY <1>2, HeadRelease
<1>3. CASE server_complete_handler
  <2>1. /\ BitmapGet(ready) = timer.server /\ ~FIRST_RUN
        /\ timer.server \in Server /\ HasEveryServer(relq)
        /\ rem_mem_budget \in [Server -> Int]
        /\ prev_virt_time' = relq.virtual_time
    BY <1>3 DEF server_complete_handler, HeadInv, CoreAlive, FirstRunInv,
                TypeInv, TypeOK, QueueInv
  <2>2. prev_virt_time' \in Int
    BY <2>1 DEF HasEveryServer, Sound, Typed, IsRelPq
  <2>3. CompleteServer(timer.server, relq, rem_mem_budget)
    BY <1>3, <2>1 DEF server_complete_handler
  <2> QED
    BY <2>1, <2>2, <2>3, HeadComplete
<1>4. ASSUME NEW s \in Server, CacheMiss(s)
      PROVE  HeadInv'
  BY <1>4, HeadUnchanged DEF CacheMiss, static, queues
<1>5. ASSUME NEW s \in Server, MemoryOverflow(s)
      PROVE  HeadInv'
  BY <1>5, HeadMemory
<1>6. ASSUME NEW s \in Server, StrayMiss(s)
      PROVE  FALSE
  BY <1>6 DEF StrayMiss, NoStrayMiss
<1>7. CASE UNCHANGED vars
  BY <1>7, HeadUnchanged DEF vars, static, queues, account
<1> QED
  BY <1>1, <1>2, <1>3, <1>4, <1>5, <1>6, <1>7 DEF Next

LEMMA HeadAlways ==
  ASSUME NoStrayMiss
  PROVE  Spec => [](TypeInv /\ HeadInv)
<1>1. Init => TypeInv /\ HeadInv
  BY TypeInit, HeadInit
<1>2. TypeInv /\ HeadInv /\ [Next]_vars => TypeInv' /\ HeadInv'
  BY TypeNext, HeadNext
<1> QED
  BY <1>1, <1>2, PTL DEF Spec

\* Whatever is released together and however late, the server that runs is the
\* highest one that is ready, as long as no task misses outside its server.
THEOREM RunningServerIsHead ==
  ASSUME NoStrayMiss
  PROVE  Spec => []RunningIsHead
<1>1. TypeInv /\ HeadInv => RunningIsHead
  BY DEF HeadInv
<1> QED
  BY <1>1, HeadAlways, PTL

\* The timer is always armed, and server_complete_handler never finds another
\* server than the one it was armed for.
THEOREM CoreStaysAlive ==
  ASSUME NoStrayMiss
  PROVE  Spec => []CoreAlive
<1>1. TypeInv /\ HeadInv => CoreAlive
  BY DEF HeadInv
<1> QED
  BY <1>1, HeadAlways, PTL

----------------------------------------------------------------------------
(* The memory budget.                                                      *)

\* A ready server has memory budget left: one that has not is completed, and
\* comes back when it is released, with a new budget.
MemInv ==
  \A s \in ready : SERVERS[s].mem_budget > 0 => rem_mem_budget[s] > 0

\* Released servers have their new budget, the others what they had.
LEMMA RefillKeepsBudget ==
  ASSUME TypeInv, SERVERS' = SERVERS,
         NEW released, NEW memory \in [Server -> Int],
         Refill(released, memory), ready' \subseteq Server,
         \A s \in ready' \ released :
           SERVERS[s].mem_budget > 0 => memory[s] > 0
  PROVE  MemInv'
<1>1. \A s \in Server : rem_mem_budget'[s] =
        IF s \in released THEN SERVERS[s].mem_budget ELSE memory[s]
  BY DEF Refill
<1> QED
  BY <1>1 DEF MemInv

LEMMA MemNext ==
  ASSUME USE_MEMSCHEDx, ~StrayTasks, TypeInv, HeadInv, MemInv, [Next]_vars
  PROVE  MemInv'
<1>1. /\ ready \subseteq Server /\ rem_mem_budget \in [Server -> Int]
      /\ TypeInv' /\ ready' \subseteq Server
  BY TypeNext DEF TypeInv, TypeOK
<1>2. CASE Tick \/ UNCHANGED vars
  BY <1>2 DEF Tick, vars, static, queues, account, MemInv
<1>3. CASE server_release_handler
  <2>1. EnterRelease(ReleaseStep)
    BY <1>3 DEF server_release_handler, ReleaseWhenIdle, ReleasePreempts,
                ReleaseNoResched
  <2> DEFINE RS == ReleasedServers(ReleaseStep)
  <2>2. /\ Refill(RS, rem_mem_budget) /\ ready' = ready \cup RS
        /\ SERVERS' = SERVERS
    BY <2>1 DEF EnterRelease, static
  <2> HIDE DEF RS
  <2> QED
    BY <1>1, <2>2, RefillKeepsBudget DEF MemInv
<1>4. ASSUME NEW s \in Server, NEW queue, NEW memory \in [Server -> Int],
             CompleteServer(s, queue, memory),
             \A t \in Server \ {s} : memory[t] = rem_mem_budget[t]
      PROVE  MemInv'
  <2> DEFINE nodes == CompleteStep(queue).nodes
  <2>1. /\ Refill(nodes, memory) /\ ready' = (ready \ {s}) \cup nodes
        /\ SERVERS' = SERVERS
    BY <1>4 DEF CompleteServer, static
  <2> HIDE DEF nodes
  <2>2. \A t \in ready' \ nodes : t \in ready /\ t \in Server \ {s}
    BY <1>1, <2>1
  <2>3. \A t \in ready' \ nodes : SERVERS[t].mem_budget > 0 => memory[t] > 0
    BY <1>4, <2>2 DEF MemInv
  <2> QED
    BY <1>1, <1>4, <2>1, <2>3, RefillKeepsBudget
<1>5. CASE server_complete_handler
  <2>1. BitmapGet(ready) = timer.server /\ timer.server \in Server
    BY <1>5 DEF server_complete_handler, HeadInv, CoreAlive, TypeInv, TypeOK
  <2>2. CompleteServer(timer.server, relq, rem_mem_budget)
    BY <1>5, <2>1 DEF server_complete_handler
  <2> QED
    BY <1>1, <1>4, <2>1, <2>2
<1>6. ASSUME NEW s \in Server, CacheMiss(s)
      PROVE  MemInv'
  <2>1. /\ rem_mem_budget[s] > 1 /\ SERVERS' = SERVERS /\ ready' = ready
        /\ rem_mem_budget' = [rem_mem_budget EXCEPT ![s] = @ - 1]
    BY <1>1, <1>6 DEF CacheMiss, Depletes, static, queues
  <2> QED
    BY <1>1, <2>1 DEF MemInv
<1>7. ASSUME NEW s \in Server, MemoryOverflow(s)
      PROVE  MemInv'
  <2> DEFINE memory == [rem_mem_budget EXCEPT ![s] = @ - 1]
  <2>1. memory \in [Server -> Int]
        /\ \A t \in Server \ {s} : memory[t] = rem_mem_budget[t]
    BY <1>1
  <2>2. \E queue : CompleteServer(s, queue, memory)
    BY <1>7, HeadMemory
  <2> HIDE DEF memory
  <2> QED
    BY <1>4, <2>1, <2>2
<1>8. ASSUME NEW s \in Server, StrayMiss(s)
      PROVE  FALSE
  BY <1>8 DEF StrayMiss
<1> QED
  BY <1>2, <1>3, <1>5, <1>6, <1>7, <1>8 DEF Next

\* With throttling compiled in a server that has used up its memory budget
\* does not run before its next release, whatever the order of misses, timers
\* and preemptions.
THEOREM MemoryThrottled ==
  ASSUME USE_MEMSCHEDx, ~StrayTasks
  PROVE  Spec => []MemBudgetEnforced
<1>1. NoStrayMiss
  BY DEF NoStrayMiss
<1>2. Init => MemInv
  BY DEF Init, MemInv
<1>3. TypeInv /\ HeadInv /\ MemInv /\ [Next]_vars => MemInv'
  BY MemNext
<1>4. TypeInv /\ HeadInv /\ MemInv => MemBudgetEnforced
  <2> SUFFICES ASSUME TypeInv, HeadInv, MemInv,
                      NEW s \in Server, SERVERS[s].mem_budget > 0,
                      rem_mem_budget[s] <= 0, running[s]
               PROVE  FALSE
    BY DEF MemBudgetEnforced
  <2>1. /\ SERVERS \in ServerParams /\ ready \in SUBSET Server
        /\ s = BitmapGet(ready) /\ rem_mem_budget[s] \in Int
    BY DEF HeadInv, RunningIsHead, TypeInv, TypeOK
  <2>2. s \in ready
    BY <2>1, BitmapGetType, ServerSchedAssumption
  <2> QED
    BY <2>1, <2>2 DEF MemInv
<1> QED
  BY <1>1, <1>2, <1>3, <1>4, HeadAlways, PTL DEF Spec

----------------------------------------------------------------------------
(* The handlers implement the servers of Servers: every step releases      *)
(* servers, completes the one that runs, or is a stutter.                  *)

\* The refinement mapping.
RunningServers == {s \in Server : running[s]}

\* bitmap_get is the abstract choice of the highest server.
LEMMA HighestIsHead ==
  ASSUME SERVERS \in ServerParams, NEW queue \in SUBSET Server
  PROVE  Core!Highest(queue) = BitmapGet(queue)
<1>1. CASE queue = {}
  BY <1>1 DEF Core!Highest, BitmapGet
<1>2. CASE queue # {}
  <2> DEFINE priority == [s \in Server |-> SERVERS[s].priority]
             IsTop(s)  == \A t \in queue : priority[s] <= priority[t]
             top       == CHOOSE s \in queue : IsTop(s)
  <2>1. IsTop(BitmapGet(queue)) /\ BitmapGet(queue) \in queue
    BY <1>2, BitmapGetProperty
  <2>2. top \in queue /\ IsTop(top)
    BY <2>1
  <2>3. Core!Highest(queue) = top
    BY <1>2 DEF Core!Highest
  <2> HIDE DEF top
  <2>4. \A t \in queue : SERVERS[top].priority <= SERVERS[t].priority
    BY <2>2
  <2> QED
    BY <2>2, <2>3, <2>4, BitmapGetUnique
<1> QED
  BY <1>1, <1>2

\* After a step that is not before the first release the abstract servers run
\* the top of their queue.
LEMMA RunsTop ==
  ASSUME TypeInv, TypeInv', HeadInv', ~FIRST_RUN', SERVERS' = SERVERS
  PROVE  RunningServers' = Core!Top(ready')
<1>1. SERVERS \in ServerParams /\ ready' \in SUBSET Server
  BY DEF TypeInv, TypeOK
<1>2. BitmapGet(ready)' = BitmapGet(ready')
  BY DEF BitmapGet
<1>3. \A s \in Server : running'[s] <=> s = BitmapGet(ready')
  BY <1>2 DEF HeadInv, RunningIsHead
<1>4. Core!Highest(ready') = BitmapGet(ready')
  BY <1>1, HighestIsHead
<1>5. BitmapGet(ready') \in ready' \cup {None}
  BY <1>1, BitmapGetType
<1> QED
  BY <1>1, <1>3, <1>4, <1>5, ServerSchedAssumption
  DEF RunningServers, Core!Top

LEMMA RefinementInit ==
  ASSUME Init
  PROVE  Core!Init
<1>1. SERVERS \in ServerParams
  BY DEF Init
<1>2. \A s \in Server : SERVERS[s].priority \in Nat
  BY <1>1, ParamsType
<1>3. \A s, t \in Server : SERVERS[s].priority = SERVERS[t].priority => s = t
  BY <1>1, ParamsType
<1>4. Core!Highest(Server) = BitmapGet(Server)
  BY <1>1, HighestIsHead
<1>5. ready = Server \ {BitmapGet(Server)} /\ RunningServers = {}
  BY DEF Init, RunningServers
<1> QED
  BY <1>2, <1>3, <1>4, <1>5 DEF Core!Init, RunningServers

\* The server that runs is the only one, or none does before the first release.
LEMMA RunningSet ==
  ASSUME TypeInv, HeadInv
  PROVE  /\ FIRST_RUN => RunningServers = {}
         /\ ~FIRST_RUN /\ ready # {} => RunningServers = {BitmapGet(ready)}
<1>1. SERVERS \in ServerParams /\ ready \in SUBSET Server
  BY DEF TypeInv, TypeOK
<1>2. ready # {} => BitmapGet(ready) \in Server
  BY <1>1, BitmapGetProperty
<1> QED
  BY <1>2 DEF HeadInv, RunningIsHead, RunningServers

LEMMA RefinementRelease ==
  ASSUME TypeInv, TypeInv', HeadInv, HeadInv', server_release_handler
  PROVE  \E batch \in SUBSET Server : Core!Release(batch)
<1> DEFINE step == ReleaseStep
<1>1. step.nodes \subseteq Server /\ (FIRST_RUN => step.nodes = {})
  BY ReleaseStepType DEF ReleaseStep
<1>2. EnterRelease(step)
  BY DEF server_release_handler, ReleaseWhenIdle, ReleasePreempts,
         ReleaseNoResched
<1> HIDE DEF step
<1>3. timer.server \in Server /\ ready \in SUBSET Server
  BY DEF TypeInv, TypeOK
<1>4. PICK batch \in SUBSET Server : batch = ReleasedServers(step)
  BY <1>1, <1>3 DEF ReleasedServers
<1>5. batch # {} /\ (FIRST_RUN => batch = Server \ ready)
  BY <1>1, <1>3, <1>4 DEF ReleasedServers, HeadInv, FirstRunInv
<1>6. Core!Starting => FIRST_RUN
  BY RunningSet DEF Core!Starting, RunningServers
<1>7. /\ ready' = ready \cup batch /\ SERVERS' = SERVERS /\ ~FIRST_RUN'
  BY <1>2, <1>4 DEF EnterRelease, static
<1>8. RunningServers' = Core!Top(ready')
  BY <1>7, RunsTop
<1>9. Core!Release(batch)
  BY <1>5, <1>6, <1>7, <1>8 DEF Core!Release, RunningServers
<1> QED
  BY <1>9

LEMMA RefinementComplete ==
  ASSUME TypeInv, TypeInv', HeadInv, HeadInv', ~FIRST_RUN, ready # {},
         NEW queue, HasEveryServer(queue), NEW memory,
         CompleteServer(BitmapGet(ready), queue, memory)
  PROVE  \E batch \in SUBSET Server : Core!Complete(batch)
<1> DEFINE step == CompleteStep(queue)
<1>1. SERVERS \in ServerParams
  BY DEF TypeInv, TypeOK
<1>2. PICK batch \in SUBSET Server : batch = step.nodes
  BY <1>1, CompleteStepType
<1>3. RunningServers = {BitmapGet(ready)}
  BY RunningSet
<1>4. /\ ready' = (ready \ RunningServers) \cup batch
      /\ SERVERS' = SERVERS /\ ~FIRST_RUN'
  BY <1>2, <1>3 DEF CompleteServer, static
<1>5. RunningServers' = Core!Top(ready')
  BY <1>4, RunsTop
<1>6. Core!Complete(batch)
  BY <1>3, <1>4, <1>5 DEF Core!Complete, RunningServers
<1> QED
  BY <1>6

LEMMA RefinementStutter ==
  ASSUME UNCHANGED <<SERVERS, ready, running>>
  PROVE  UNCHANGED Core!vars
BY DEF Core!vars

LEMMA RefinementNext ==
  ASSUME NoStrayMiss, TypeInv, HeadInv, [Next]_vars
  PROVE  [Core!Next]_(Core!vars)
<1>1. TypeInv' /\ HeadInv'
  BY TypeNext, HeadNext
<1>2. CASE Tick \/ UNCHANGED vars
  BY <1>2, RefinementStutter DEF Tick, vars, static, queues, account
<1>3. CASE server_release_handler
  BY <1>1, <1>3, RefinementRelease DEF Core!Next
<1>4. CASE server_complete_handler
  <2>1. /\ BitmapGet(ready) = timer.server /\ ~FIRST_RUN
        /\ timer.server \in Server /\ HasEveryServer(relq)
    BY <1>4 DEF server_complete_handler, HeadInv, CoreAlive, FirstRunInv,
                TypeInv, TypeOK, QueueInv
  <2>2. ready # {}
    BY <2>1, ServerSchedAssumption DEF BitmapGet
  <2>3. CompleteServer(BitmapGet(ready), relq, rem_mem_budget)
    BY <1>4, <2>1 DEF server_complete_handler
  <2> QED
    BY <1>1, <2>1, <2>2, <2>3, RefinementComplete DEF Core!Next
<1>5. ASSUME NEW s \in Server, CacheMiss(s)
      PROVE  UNCHANGED Core!vars
  BY <1>5, RefinementStutter DEF CacheMiss, static, queues
<1>6. ASSUME NEW s \in Server, MemoryOverflow(s)
      PROVE  Core!Next
  <2>1. ~FIRST_RUN /\ s = BitmapGet(ready) /\ ready # {}
    BY <1>6, ServerSchedAssumption
    DEF MemoryOverflow, HeadInv, RunningIsHead, BitmapGet
  <2>2. \E queue : /\ HasEveryServer(queue)
                   /\ CompleteServer(s, queue,
                                     [rem_mem_budget EXCEPT ![s] = @ - 1])
    BY <1>6, HeadMemory
  <2> QED
    BY <1>1, <2>1, <2>2, RefinementComplete DEF Core!Next
<1>7. ASSUME NEW s \in Server, StrayMiss(s)
      PROVE  FALSE
  BY <1>7 DEF StrayMiss, NoStrayMiss
<1> QED
  BY <1>2, <1>3, <1>4, <1>5, <1>6, <1>7 DEF Next

\* The handlers implement the abstract servers, for every set of servers, their
\* periods and budgets, and however late the timer, as long as no task misses
\* outside its server.
THEOREM ServersImplemented ==
  ASSUME NoStrayMiss
  PROVE  Spec => ImplementsServers
<1>1. Init => Core!Init
  BY RefinementInit
<1>2. TypeInv /\ HeadInv /\ [Next]_vars => [Core!Next]_(Core!vars)
  BY RefinementNext
<1> QED
  BY <1>1, <1>2, HeadAlways, PTL DEF Spec, ImplementsServers, Core!Spec

----------------------------------------------------------------------------
(* The servers in time, with timer softirqs that may be late: when servers *)
(* are released and how long they run.                                     *)

\* What late softirqs may add to the distance of a release.
Slack == (Cardinality(Server) + 1) * MaxLate

\* The assumption: no throttling of memory, and periods and budgets that a
\* comparison of two readings of jiffies tells apart.
Measurable ==
  /\ ~USE_MEMSCHEDx
  /\ \A params \in ServerParams : \A s \in Server :
       /\ 2 * (params[s].period + Slack) < JIFFIES_MOD
       /\ 2 * (params[s].budget + 3 * MaxLate) < JIFFIES_MOD

LEMMA SlackBounds ==
  /\ Slack \in Nat
  /\ \A S \in SUBSET Server :
       /\ MaxLate * Cardinality(S) \in Nat
       /\ MaxLate * Cardinality(S) + MaxLate <= Slack
<1>1. /\ Cardinality(Server) \in Nat /\ Cardinality(Server) >= 1
      /\ MaxLate \in Nat
  <2>1. Cardinality(Server) \in Nat /\ Cardinality(Server) # 0
    BY RelPqAssumption, FS_CardinalityType, FS_EmptySet
  <2> QED
    BY <2>1, ServerSchedAssumption
<1>2. PICK n, l : n = Cardinality(Server) /\ l = MaxLate
  OBVIOUS
<1>3. Slack = l * n + l /\ l * n \in Nat
  <2>1. n \in Nat /\ l \in Nat /\ n >= 1
    BY <1>1, <1>2
  <2>2. (n + 1) * l = l * n + l
    BY <2>1
  <2> QED
    BY <1>2, <2>1, <2>2, Product DEF Slack
<1>4. ASSUME NEW S \in SUBSET Server
      PROVE  /\ MaxLate * Cardinality(S) \in Nat
             /\ MaxLate * Cardinality(S) <= l * n
  <2>1. Cardinality(S) \in Nat /\ Cardinality(S) <= n
    BY <1>2, RelPqAssumption, FS_Subset, FS_CardinalityType
  <2> QED
    BY <1>1, <1>2, <2>1, Product
<1>5. Slack \in Nat /\ l \in Nat
  BY <1>1, <1>2, <1>3
<1> QED
  BY <1>2, <1>3, <1>4, <1>5

----------------------------------------------------------------------------
(* Arithmetic of jiffies modulo JIFFIES_MOD.                               *)

Reading == 0 .. JIFFIES_MOD - 1

\* Distances, ahead or behind, that a comparison of readings tells.
Near(d) == d \in Int /\ 2 * d < JIFFIES_MOD /\ -(2 * d) < JIFFIES_MOD

LEMMA AfterValue ==
  ASSUME NEW j \in Reading, NEW d \in Int, d < JIFFIES_MOD, -d < JIFFIES_MOD
  PROVE  /\ After(j, d) \in Reading
         /\ After(j, d) = IF j + d >= JIFFIES_MOD THEN j + d - JIFFIES_MOD
                          ELSE IF j + d >= 0 THEN j + d ELSE j + d + JIFFIES_MOD
<1>1. JIFFIES_MOD \in Nat \ {0} /\ j \in Nat
  BY ServerSchedAssumption DEF Reading
<1>2. PICK m, t : m = JIFFIES_MOD /\ t = j + d
  OBVIOUS
<1>3. m \in Nat \ {0} /\ t \in Int /\ t < 2 * m /\ t >= -m
  BY <1>1, <1>2 DEF Reading
<1>4. t % m = IF t >= m THEN t - m ELSE IF t >= 0 THEN t ELSE t + m
  BY <1>3
<1> QED
  BY <1>1, <1>2, <1>3, <1>4 DEF After, Reading

\* The reading d jiffies ahead is d jiffies after this one ...
LEMMA ElapsedAhead ==
  ASSUME NEW j \in Reading, NEW d, Near(d)
  PROVE  Elapsed(After(j, d), j) = d
<1>1. JIFFIES_MOD \in Nat \ {0} /\ j \in Nat /\ d \in Int
  BY ServerSchedAssumption DEF Reading, Near
<1>2. PICK m, t : m = JIFFIES_MOD /\ t = After(j, d)
  OBVIOUS
<1>3. 2 * d < m /\ -(2 * d) < m /\ d < m /\ -d < m
  BY <1>1, <1>2 DEF Near
<1>4. /\ t = IF j + d >= m THEN j + d - m
             ELSE IF j + d >= 0 THEN j + d ELSE j + d + m
      /\ j + d \in Int /\ m \in Int
  BY <1>1, <1>2, <1>3, AfterValue
<1>5. t - j = d \/ t - j = d - m \/ t - j = d + m
  BY <1>1, <1>4
<1>6. (t - j) % m = IF d >= 0 THEN d ELSE d + m
  <2>1. CASE d >= 0
    <3>1. d % m = d /\ (d - m) % m = d /\ (d + m) % m = d
      BY <1>1, <1>2, <1>3, <2>1
    <3> QED
      BY <1>5, <2>1, <3>1
  <2>2. CASE ~(d >= 0)
    <3>1. d % m = d + m /\ (d - m) % m = d + m /\ (d + m) % m = d + m
      BY <1>1, <1>2, <1>3, <2>2
    <3> QED
      BY <1>5, <2>2, <3>1
  <2> QED
    BY <2>1, <2>2
<1>7. (IF d >= 0 THEN d ELSE d + m) \in Int
  BY <1>1, <1>2
<1> QED
  BY <1>1, <1>2, <1>3, <1>6, <1>7 DEF Elapsed

\* ... and this one is d jiffies before it.
LEMMA ElapsedBehind ==
  ASSUME NEW j \in Reading, NEW d, Near(d)
  PROVE  Elapsed(j, After(j, d)) = -d
<1>1. JIFFIES_MOD \in Nat \ {0} /\ j \in Nat /\ d \in Int
  BY ServerSchedAssumption DEF Reading, Near
<1>2. PICK m, t : m = JIFFIES_MOD /\ t = After(j, d)
  OBVIOUS
<1>3. 2 * d < m /\ -(2 * d) < m /\ d < m /\ -d < m
  BY <1>1, <1>2 DEF Near
<1>4. /\ t = IF j + d >= m THEN j + d - m
             ELSE IF j + d >= 0 THEN j + d ELSE j + d + m
      /\ j + d \in Int /\ m \in Int
  BY <1>1, <1>2, <1>3, AfterValue
<1>5. PICK x : x = -d
  OBVIOUS
<1>6. x \in Int /\ (j - t = x \/ j - t = x - m \/ j - t = x + m)
  BY <1>1, <1>4, <1>5
<1>7. (j - t) % m = IF x >= 0 THEN x ELSE x + m
  <2>1. CASE x >= 0
    <3>1. x % m = x /\ (x - m) % m = x /\ (x + m) % m = x
      BY <1>1, <1>2, <1>3, <1>5, <2>1
    <3> QED
      BY <1>6, <2>1, <3>1
  <2>2. CASE ~(x >= 0)
    <3>1. x % m = x + m /\ (x - m) % m = x + m /\ (x + m) % m = x + m
      BY <1>1, <1>2, <1>3, <1>5, <2>2
    <3> QED
      BY <1>6, <2>2, <3>1
  <2> QED
    BY <2>1, <2>2
<1>8. 2 * x < m /\ -(2 * x) < m
  BY <1>1, <1>3, <1>5
<1> QED
  BY <1>1, <1>2, <1>5, <1>6, <1>7, <1>8 DEF Elapsed

LEMMA AfterAfter ==
  ASSUME NEW j \in Reading, NEW a \in Int, NEW b \in Int,
         a < JIFFIES_MOD, -a < JIFFIES_MOD, b < JIFFIES_MOD, -b < JIFFIES_MOD,
         a + b < JIFFIES_MOD, -(a + b) < JIFFIES_MOD
  PROVE  After(After(j, a), b) = After(j, a + b)
<1>1. JIFFIES_MOD \in Nat \ {0} /\ j \in Nat /\ a + b \in Int
  BY ServerSchedAssumption DEF Reading
<1>2. PICK m, t : m = JIFFIES_MOD /\ t = After(j, a)
  OBVIOUS
<1>3. t \in Reading /\ t = IF j + a >= m THEN j + a - m
                           ELSE IF j + a >= 0 THEN j + a ELSE j + a + m
  BY <1>1, <1>2, AfterValue
<1>4. After(t, b) \in Reading
      /\ After(t, b) = IF t + b >= m THEN t + b - m
                       ELSE IF t + b >= 0 THEN t + b ELSE t + b + m
  BY <1>1, <1>2, <1>3, AfterValue
<1>5. After(j, a + b) \in Reading
      /\ After(j, a + b) = IF j + (a + b) >= m THEN j + (a + b) - m
                           ELSE IF j + (a + b) >= 0 THEN j + (a + b)
                           ELSE j + (a + b) + m
  BY <1>1, <1>2, AfterValue
<1>6. PICK x, y : x = After(t, b) /\ y = After(j, a + b)
  OBVIOUS
<1>7. /\ x \in Int /\ y \in Int /\ x >= 0 /\ x < m /\ y >= 0 /\ y < m
      /\ m \in Int /\ t \in Int
  BY <1>1, <1>2, <1>3, <1>4, <1>5, <1>6 DEF Reading
<1>8. x = y
  BY <1>1, <1>3, <1>4, <1>5, <1>6, <1>7
<1> QED
  BY <1>2, <1>6, <1>8

----------------------------------------------------------------------------
(* What a handler finds in a release queue that tells the distances d.     *)

\* The servers that are due, and the distances once they were put back.
DueNow(d) == {s \in Server : d[s] = 0}
Again(d) == [s \in Server |-> IF d[s] = 0 THEN SERVERS[s].period ELSE d[s]]

\* A server is due less than its period after any other one.
Spread(d) == \A s, t \in Server : d[s] - d[t] < SERVERS[s].period

Tells(q, d) ==
  /\ HasEveryServer(q) /\ SERVERS \in ServerParams
  /\ d \in [Server -> Nat] /\ Spread(d)
  /\ Timed(q, d) /\ Ahead(q)

\* A step shows a server that is due next, with its distance.
NextDue(step, e) ==
  /\ Timed(step.queue, e) /\ Ahead(step.queue)
  /\ Newest(step.queue, step.node)
  /\ step.relative = e[step.node]
  /\ \A s \in Server : e[step.node] <= e[s]
  /\ step.queue.virtual_time + step.relative \in 1 .. Wrap(step.queue)

\* Right after a release no server is due, each is within its period, and all
\* are still close together.
LEMMA AgainLater ==
  ASSUME SERVERS \in ServerParams, NEW d \in [Server -> Nat], Spread(d)
  PROVE  /\ Again(d) \in [Server -> Nat \ {0}] /\ Spread(Again(d))
         /\ DueNow(d) # {} => \A s \in Server : Again(d)[s] <= SERVERS[s].period
<1>1. PICK e : e = Again(d)
  OBVIOUS
<1>2. \A s \in Server : /\ e[s] = IF d[s] = 0 THEN SERVERS[s].period ELSE d[s]
                        /\ d[s] \in Nat /\ SERVERS[s].period \in Nat \ {0}
                        /\ e[s] \in Nat \ {0}
  BY <1>1, ParamsType DEF Again
<1>3. e \in [Server -> Nat \ {0}]
  BY <1>1, <1>2 DEF Again
<1>4. ASSUME NEW s \in Server, NEW t \in Server
      PROVE  e[s] - e[t] < SERVERS[s].period
  <2>1. d[s] - d[t] < SERVERS[s].period
    BY DEF Spread
  <2>2. d[t] = 0 => e[t] >= 1
    BY <1>2
  <2>3. CASE d[s] = 0
    BY <1>2, <2>3
  <2>4. CASE d[s] # 0 /\ d[t] = 0
    BY <1>2, <2>1, <2>2, <2>4
  <2>5. CASE d[s] # 0 /\ d[t] # 0
    BY <1>2, <2>1, <2>5
  <2> QED
    BY <2>3, <2>4, <2>5
<1>5. ASSUME NEW t \in Server, d[t] = 0, NEW s \in Server
      PROVE  e[s] <= SERVERS[s].period
  <2>1. d[s] - d[t] < SERVERS[s].period
    BY DEF Spread
  <2> QED
    BY <1>2, <1>5, <2>1
<1> QED
  BY <1>1, <1>3, <1>4, <1>5 DEF Spread, DueNow

\* Some server is due: the nodes retrieved are those of the servers that are,
\* however many, and all are due a period later.
LEMMA ReleaseDueStep ==
  ASSUME NEW q, NEW d, Tells(q, d), DueNow(d) # {},
         NEW r, r = ReleaseDue(q, Period)
  PROVE  /\ NextDue(r, Again(d))
         /\ r.nodes = DueNow(d)
         /\ r.first = Retrieve(q).node
<1>1. PICK e : e = Again(d)
  OBVIOUS
<1>2. /\ SERVERS \in ServerParams /\ d \in [Server -> Nat] /\ Spread(d)
      /\ Timed(q, d) /\ Ahead(q) /\ d \in [Server -> Int]
  BY DEF Tells
<1>3. /\ Sound(q) /\ Held(q) = Server /\ Held(q) # {} /\ Wrap(q) \in Nat
      /\ \A s \in Server : SERVERS[s].period <= Wrap(q)
  BY RelPqAssumption, WrapType DEF HasEveryServer, Tells
<1>4. DueNow(d) = DueFirst(q, d)
  <2>1. PICK k \in Server : d[k] = 0
    BY DEF DueNow
  <2>2. ASSUME NEW n \in Server
        PROVE  d[n] = 0 <=> \A m \in Server : d[n] <= d[m]
    <3>1. d[n] = 0 => \A m \in Server : d[n] <= d[m]
      BY <1>2
    <3>2. d[n] <= d[k] => d[n] = 0
      BY <1>2, <2>1
    <3> QED
      BY <2>1, <3>1, <3>2
  <2> QED
    BY <1>3, <2>2 DEF DueFirst, DueNow
<1>5. OneRound(q, d)
  <2> SUFFICES ASSUME NEW n \in Server, NEW m \in Server
               PROVE  d[n] - d[m] < Wrap(q)
    BY <1>3 DEF OneRound
  <2>1. d[n] - d[m] < SERVERS[n].period /\ SERVERS[n].period <= Wrap(q)
    BY <1>2, <1>3 DEF Spread
  <2>2. d[n] \in Nat /\ d[m] \in Nat /\ SERVERS[n].period \in Nat
    BY <1>2, ParamsType
  <2> QED
    BY <1>3, <2>1, <2>2
<1>6. PICK P : P = Period
  OBVIOUS
<1>7. /\ P \in [Server -> Nat] /\ \A n \in Server : P[n] \in 1 .. Wrap(q)
  BY <1>2, <1>6, ParamsType, PeriodFits DEF Period, Tells
<1>8. PutBack(q, d, P) = e
  <2>1. \A n \in Server : n \in DueFirst(q, d) <=> d[n] = 0
    BY <1>4 DEF DueNow
  <2>2. \A n \in Server : d[n] = 0 => d[n] + P[n] = SERVERS[n].period
    <3>1. \A n \in Server : P[n] = SERVERS[n].period
      BY <1>6 DEF Period
    <3> QED
      BY <1>7, <3>1
  <2> QED
    BY <1>1, <2>1, <2>2 DEF PutBack, Again
<1>9. r = ReleaseDue(q, P)
  BY <1>6
<1>10. /\ ReleasesDue(r, q, e) /\ r.nodes = DueFirst(q, d)
       /\ r.first = Retrieve(q).node
  BY <1>2, <1>3, <1>5, <1>7, <1>8, <1>9, ReleaseDueFirst
<1>11. Wrap(r.queue) = Wrap(q)
  <2>1. r.queue.bitmap_size = q.bitmap_size
    BY <1>3, <1>7, <1>9, ReleaseDueSound
  <2> QED
    BY <2>1 DEF Wrap
<1>12. NextDue(r, e)
  BY <1>3, <1>10, <1>11 DEF ReleasesDue, NextDue
<1> QED
  BY <1>1, <1>4, <1>10, <1>12

\* The completion of a server finds the servers that are due, none or many, and
\* the one that is due next.
LEMMA CompleteStepDue ==
  ASSUME NEW q, NEW d, Tells(q, d), NEW step, step = CompleteStep(q)
  PROVE  NextDue(step, Again(d)) /\ step.nodes = DueNow(d)
<1>1. PICK next : next = FetchNext(q)
  OBVIOUS
<1>2. PICK k, g, z : k = next.node /\ g = next.event /\ z = next.queue
  OBVIOUS
<1>3. /\ Sound(q) /\ Held(q) = Server /\ Held(q) # {}
      /\ d \in [Server -> Nat] /\ d \in [Server -> Int]
      /\ Timed(q, d) /\ Ahead(q)
  BY RelPqAssumption DEF HasEveryServer, Tells
<1>4. /\ Timed(z, d) /\ Ahead(z) /\ Newest(z, k)
      /\ g = z.virtual_time + d[k]
      /\ \A n \in Server : d[k] <= d[n]
  BY <1>1, <1>2, <1>3, FetchNextFirst
<1>5. /\ g \in 1 .. Wrap(z) /\ k \in Server
      /\ z.virtual_time \in Int /\ d[k] \in Nat /\ Wrap(z) \in Nat
  <2>1. /\ g \in 1 .. Wrap(q) /\ k \in Server /\ Sound(z)
        /\ z.bitmap_size = q.bitmap_size
    BY <1>1, <1>2, <1>3, FetchNextSound
  <2> QED
    BY <1>3, <2>1, WrapType DEF Sound, Typed, IsRelPq, Wrap
<1>6. CASE DueNow(d) # {}
  <2>1. PICK n \in Server : d[n] = 0
    BY <1>6 DEF DueNow
  <2>2. d[k] = 0
    BY <1>4, <1>5, <2>1
  <2>3. next.event = next.queue.virtual_time
    BY <1>2, <1>4, <1>5, <2>2
  <2>4. step = ReleaseDue(q, Period)
    BY <1>1, <2>3 DEF CompleteStep
  <2> QED
    BY <1>6, <2>4, ReleaseDueStep
<1>7. CASE DueNow(d) = {}
  <2>1. d[k] > 0
    BY <1>5, <1>7 DEF DueNow
  <2>2. g > z.virtual_time
    BY <1>4, <1>5, <2>1
  <2>3. step = [ queue |-> z, nodes |-> {}, node |-> k,
                 relative |-> g - z.virtual_time ]
    <3>1. /\ next.event # next.queue.virtual_time
          /\ ~(next.event < next.queue.virtual_time)
      BY <1>2, <1>4, <1>5, <2>2
    <3>2. step = [ queue |-> next.queue, nodes |-> {}, node |-> next.node,
                   relative |-> next.event - next.queue.virtual_time ]
      BY <1>1, <3>1 DEF CompleteStep
    <3> QED
      BY <1>2, <3>2
  <2>4. /\ step.queue = z /\ step.nodes = {} /\ step.node = k
        /\ step.relative = g - z.virtual_time
    BY <2>3
  <2>5. /\ g - z.virtual_time = d[k]
        /\ z.virtual_time + (g - z.virtual_time) = g
    BY <1>4, <1>5
  <2>6. NextDue(step, d)
    BY <1>4, <1>5, <2>4, <2>5 DEF NextDue
  <2>7. Again(d) = d
    <3>1. Again(d) = [s \in Server |-> d[s]]
      BY <1>7 DEF Again, DueNow
    <3> QED
      BY <1>3, <3>1
  <2> QED
    BY <1>7, <2>4, <2>6, <2>7
<1> QED
  BY <1>6, <1>7

\* The first run of the release handler reads the distances from the start.
LEMMA FirstStepDue ==
  ASSUME FIRST_RUN, SERVERS \in ServerParams, HasEveryServer(relq),
         Timed(relq, Period), Ahead(relq), relq.virtual_time = 0,
         NEW step, step = ReleaseStep
  PROVE  NextDue(step, Period) /\ step.nodes = {}
<1>1. PICK d : d = Period
  OBVIOUS
<1>2. PICK next : next = FetchNext(relq)
  OBVIOUS
<1>3. PICK k, g, z : k = next.node /\ g = next.event /\ z = next.queue
  OBVIOUS
<1>4. /\ Sound(relq) /\ Held(relq) = Server /\ Held(relq) # {}
      /\ \A n \in Server : d[n] \in 1 .. Wrap(relq)
  BY <1>1, RelPqAssumption, PeriodFits DEF HasEveryServer
<1>5. d \in [Server -> Int] /\ Timed(relq, d)
  BY <1>1, ParamsType DEF Period
<1>6. /\ Timed(z, d) /\ Ahead(z) /\ Newest(z, k)
      /\ g = z.virtual_time + d[k]
      /\ \A n \in Server : d[k] <= d[n]
      /\ z.virtual_time \in {0, 0 - Wrap(relq)}
  BY <1>2, <1>3, <1>4, <1>5, FetchNextFirst
<1>7. /\ g \in 1 .. Wrap(relq) /\ k \in Server /\ Wrap(z) = Wrap(relq)
      /\ Wrap(relq) \in Nat
  <2>1. /\ g \in 1 .. Wrap(relq) /\ k \in Server
        /\ z.bitmap_size = relq.bitmap_size
    BY <1>2, <1>3, <1>4, FetchNextSound
  <2> QED
    BY <1>4, <2>1, WrapType DEF Wrap
<1>8. z.virtual_time = 0
  <2>1. d[k] \in 1 .. Wrap(relq)
    BY <1>4, <1>7
  <2> QED
    BY <1>6, <1>7, <2>1
<1>9. g = d[k] /\ 0 + g = g
  BY <1>4, <1>6, <1>7, <1>8
<1>10. step = [ queue |-> z, nodes |-> {}, first |-> None, node |-> k,
                relative |-> g ]
  BY <1>2, <1>3 DEF ReleaseStep
<1>11. /\ step.queue = z /\ step.nodes = {} /\ step.node = k
       /\ step.relative = g
  BY <1>10
<1>12. NextDue(step, d)
  BY <1>6, <1>7, <1>8, <1>9, <1>11 DEF NextDue
<1> QED
  BY <1>1, <1>11, <1>12

\* A later one releases the servers that are due: the timer's server is the
\* first one that it retrieves.
LEMMA LaterStepDue ==
  ASSUME ~FIRST_RUN, NEW d, Tells(relq, d),
         timer.server \in DueNow(d), Newest(relq, timer.server),
         NEW step, step = ReleaseStep
  PROVE  /\ NextDue(step, Again(d))
         /\ step.nodes = DueNow(d)
         /\ ReleasedServers(step) = DueNow(d)
<1>1. step = ReleaseDue(relq, Period)
  BY DEF ReleaseStep
<1>2. /\ NextDue(step, Again(d)) /\ step.nodes = DueNow(d)
      /\ step.first = Retrieve(relq).node
  BY <1>1, ReleaseDueStep
<1>3. PICK k : k = timer.server
  OBVIOUS
<1>4. /\ Sound(relq) /\ Held(relq) = Server /\ Held(relq) # {}
      /\ d \in [Server -> Nat] /\ d \in [Server -> Int]
      /\ Timed(relq, d) /\ Ahead(relq)
  BY RelPqAssumption DEF HasEveryServer, Tells
<1>5. k \in Server /\ d[k] = 0 /\ Newest(relq, k)
  BY <1>3 DEF DueNow
<1>6. \A n \in Server : d[k] <= d[n]
  BY <1>4, <1>5
<1>7. Retrieve(relq).node = k
  BY <1>4, <1>5, <1>6, NewestRetrieved
<1> QED
  BY <1>2, <1>3, <1>7 DEF ReleasedServers

----------------------------------------------------------------------------
(* The clock.  The handlers keep the release queue in step with the timer: *)
(* a server comes up Rest jiffies after its distance in the queue says.  A *)
(* timer that is armed for a past instant moves the virtual time less than *)
(* the clock will move, and a completion that is late adds to a distance   *)
(* once, until the next release of all that are due.                       *)

Rest == Elapsed(timer.expires, jiffies)

\* What completions since the last release may have added.
Lag == MaxLate * Cardinality(Server \ ready)

ClockAt(d) ==
  /\ Rest >= -MaxLate /\ Near(Rest) /\ timer.expires = After(jiffies, Rest)
  /\ d \in [Server -> Nat] /\ Spread(d) /\ Timed(relq, d) /\ Ahead(relq)
  /\ \A s \in Server :
       /\ d[s] + Rest + age[s] >= SERVERS[s].period
       /\ MaxLate = 0 => d[s] + Rest + age[s] = SERVERS[s].period
       /\ d[s] <= SERVERS[s].period + Lag + MaxLate
  /\ timer.handler = "release" =>
       Newest(relq, timer.server) /\ d[timer.server] = 0

Clock == ClockAt(TimesIn(relq))

\* The distances after a handler ran and before it arms the timer.
NewDistances(e) ==
  /\ e \in [Server -> Nat \ {0}] /\ Spread(e)
  /\ \A s \in Server :
       /\ e[s] + age'[s] >= SERVERS[s].period
       /\ MaxLate = 0 => e[s] + age'[s] = SERVERS[s].period
       /\ e[s] <= SERVERS[s].period + Lag'

\* What a handler arms the timer with.
Arms(step, e) ==
  /\ NextDue(step, e) /\ NewDistances(e)
  /\ HasEveryServer(step.queue) /\ step.node \in Server
  /\ SERVERS \in ServerParams /\ SERVERS' = SERVERS
  /\ jiffies \in Reading /\ jiffies' = jiffies
  /\ age' \in [Server -> Nat]

\* What late softirqs add does not reach the half of the counter's range.
LEMMA Resolution ==
  ASSUME Measurable, SERVERS \in ServerParams, NEW s \in Server
  PROVE  /\ SERVERS[s].budget \in Nat \ {0} /\ SERVERS[s].period \in Nat \ {0}
         /\ MaxLate \in Nat /\ JIFFIES_MOD \in Nat
         /\ 2 < JIFFIES_MOD /\ 2 * (1 + MaxLate) < JIFFIES_MOD
         /\ 2 * (SERVERS[s].budget + 3 * MaxLate) < JIFFIES_MOD
         /\ \A S \in SUBSET Server :
              /\ MaxLate * Cardinality(S) \in Nat
              /\ 2 * (SERVERS[s].period + MaxLate * Cardinality(S) + MaxLate)
                   < JIFFIES_MOD
<1>1. PICK b, p, m, l, x : /\ b = SERVERS[s].budget /\ p = SERVERS[s].period
                           /\ m = JIFFIES_MOD /\ l = MaxLate /\ x = Slack
  OBVIOUS
<1>2. /\ b \in Nat \ {0} /\ p \in Nat \ {0} /\ m \in Nat /\ l \in Nat
      /\ x \in Nat
  BY <1>1, ParamsType, SlackBounds, ServerSchedAssumption
<1>3. 2 * (p + x) < m /\ 2 * (b + 3 * l) < m
  BY <1>1 DEF Measurable
<1>4. 2 < m /\ 2 * (1 + l) < m /\ 2 * (b + 3 * l) < m
  BY <1>2, <1>3
<1>5. ASSUME NEW S \in SUBSET Server
      PROVE  /\ l * Cardinality(S) \in Nat
             /\ 2 * (p + l * Cardinality(S) + l) < m
  <2>1. PICK y : y = l * Cardinality(S)
    OBVIOUS
  <2>2. y \in Nat /\ y + l <= x
    BY <1>1, <2>1, SlackBounds
  <2>3. 2 * (p + y + l) < m
    BY <1>2, <1>3, <2>2
  <2> QED
    BY <2>1, <2>2, <2>3
<1> QED
  BY <1>1, <1>2, <1>4, <1>5

\* The clock is read off the queue.
LEMMA ClockRead ==
  ASSUME HasEveryServer(relq), NEW d, ClockAt(d)
  PROVE  Clock /\ TimesIn(relq) = d
<1>1. IsRelPq(relq) /\ Held(relq) = Server
  BY DEF HasEveryServer, Sound, Typed
<1>2. d \in [Server -> Int] /\ Timed(relq, d)
  BY DEF ClockAt
<1> QED
  BY <1>1, <1>2, TimesRead DEF Clock

\* A timer that is armed for now or the past is due at the next jiffy.
Clipped(event) == IF event >= 1 THEN event ELSE 1

LEMMA ModTimerAhead ==
  ASSUME jiffies \in Reading, NEW event, Near(event),
         NEW handler, NEW s, NEW t, t = ModTimer(handler, s, After(jiffies, event))
  PROVE  /\ t.handler = handler /\ t.server = s
         /\ t.expires = After(jiffies, Clipped(event))
<1>1. Elapsed(After(jiffies, event), jiffies) = event /\ event \in Int
  BY ElapsedAhead DEF Near
<1>2. event > 0 <=> event >= 1
  BY <1>1
<1>3. CASE event >= 1
  <2>1. Elapsed(After(jiffies, event), jiffies) > 0
    BY <1>1, <1>2, <1>3
  <2> QED
    BY <1>3, <2>1 DEF ModTimer, Clipped
<1>4. CASE ~(event >= 1)
  <2>1. ~(Elapsed(After(jiffies, event), jiffies) > 0)
    BY <1>1, <1>2, <1>4
  <2> QED
    BY <1>4, <2>1 DEF ModTimer, Clipped
<1> QED
  BY <1>3, <1>4

\* The timer is armed for an event and the virtual time moved there.
LEMMA ArmedClock ==
  ASSUME Measurable, NEW step, NEW e, Arms(step, e), HasEveryServer(relq'),
         NEW event \in Int, event <= e[step.node], event >= 1 - MaxLate,
         relq' = [step.queue EXCEPT !.virtual_time = @ + event],
         timer'.expires = After(jiffies, Clipped(event)),
         timer'.handler = "release" =>
           timer'.server = step.node /\ event = e[step.node]
  PROVE  Clock' /\ Rest' = Clipped(event)
<1>1. PICK q, k : q = step.queue /\ k = step.node
  OBVIOUS
<1>2. /\ IsRelPq(q) /\ Timed(q, e) /\ Ahead(q) /\ Newest(q, k)
      /\ \A s \in Server : e[k] <= e[s]
      /\ k \in Server
  BY <1>1 DEF Arms, NextDue, HasEveryServer, Sound, Typed
<1>3. /\ e \in [Server -> Nat \ {0}] /\ e \in [Server -> Int] /\ Spread(e)
      /\ SERVERS' = SERVERS /\ jiffies \in Reading /\ jiffies' = jiffies
      /\ SERVERS \in ServerParams /\ age' \in [Server -> Nat]
  BY DEF Arms, NewDistances
<1>4. PICK S : S = Server \ ready'
  OBVIOUS
<1>5. /\ 2 < JIFFIES_MOD /\ 2 * (1 + MaxLate) < JIFFIES_MOD
      /\ MaxLate \in Nat /\ JIFFIES_MOD \in Nat
      /\ MaxLate * Cardinality(S) \in Nat
      /\ 2 * (SERVERS[k].period + MaxLate * Cardinality(S) + MaxLate)
           < JIFFIES_MOD
      /\ SERVERS[k].period \in Nat
  BY <1>2, <1>3, <1>4, Resolution
<1>6. Lag' = MaxLate * Cardinality(S)
  BY <1>4 DEF Lag
<1>7. /\ e[k] <= SERVERS[k].period + Lag' /\ e[k] \in Nat \ {0}
  BY <1>2, <1>3 DEF Arms, NewDistances
<1>8. 2 * e[k] < JIFFIES_MOD
  <2>1. PICK a, b, c, l, m : /\ a = e[k] /\ b = SERVERS[k].period /\ c = Lag'
                             /\ l = MaxLate /\ m = JIFFIES_MOD
    OBVIOUS
  <2>2. /\ a \in Nat /\ b \in Nat /\ c \in Nat /\ l \in Nat /\ m \in Nat
        /\ a <= b + c /\ 2 * (b + c + l) < m
    BY <1>5, <1>6, <1>7, <2>1
  <2>3. 2 * a < m
    BY <2>2
  <2> QED
    BY <2>1, <2>3
<1>9. PICK rest : rest = Clipped(event)
  OBVIOUS
<1>10. /\ rest \in Nat \ {0} /\ rest >= event /\ 2 * rest < JIFFIES_MOD
       /\ event >= 1 => rest = event
       /\ -(2 * rest) < JIFFIES_MOD
  BY <1>1, <1>5, <1>7, <1>8, <1>9 DEF Clipped
<1>11. Near(rest)
  BY <1>10 DEF Near
<1>12. Rest' = rest
  BY <1>3, <1>9, <1>11, ElapsedAhead DEF Rest
<1>13. PICK d : d = [s \in Server |-> e[s] - event]
  OBVIOUS
<1>14. PICK z : z = relq' /\ z = [q EXCEPT !.virtual_time = @ + event]
  BY <1>1
<1>15. /\ Timed(z, d) /\ Ahead(z)
       /\ \A s \in Server : Newest(q, s) => Newest(z, s)
  BY <1>2, <1>3, <1>13, <1>14, MoveTime
<1>16. ASSUME NEW s \in Server
       PROVE  /\ d[s] = e[s] - event /\ d[s] \in Nat
              /\ d[s] + rest + age'[s] >= SERVERS[s].period
              /\ MaxLate = 0 => d[s] + rest + age'[s] = SERVERS[s].period
              /\ d[s] <= SERVERS[s].period + Lag' + MaxLate
  <2>1. d[s] = e[s] - event
    BY <1>13
  <2>2. PICK p, a, x, y, lag, l :
          /\ p = SERVERS[s].period /\ a = age'[s] /\ x = d[s] /\ y = e[s]
          /\ lag = Lag' /\ l = MaxLate
    OBVIOUS
  <2>3. /\ p \in Nat /\ a \in Nat /\ y \in Nat /\ x = y - event /\ lag \in Nat
        /\ l \in Nat
        /\ y + a >= p /\ (l = 0 => y + a = p) /\ y <= p + lag
        /\ event <= y /\ event >= 1 - l
    <3>1. p \in Nat
      BY <1>3, <2>2, ParamsType
    <3>2. y + a >= p /\ (l = 0 => y + a = p) /\ y <= p + lag
      BY <2>2 DEF Arms, NewDistances
    <3>3. event <= y /\ a \in Nat /\ y \in Nat
      BY <1>1, <1>2, <1>3, <1>7, <2>2
    <3> QED
      BY <1>5, <1>6, <2>1, <2>2, <3>1, <3>2, <3>3
  <2>4. l = 0 => rest = event
    BY <1>10, <2>3
  <2>5. /\ x \in Nat /\ x + rest + a >= p /\ (l = 0 => x + rest + a = p)
        /\ x <= p + lag + l
    BY <1>10, <2>3, <2>4
  <2> QED
    BY <2>1, <2>2, <2>5
<1>17. d \in [Server -> Nat] /\ Spread(d)
  <2>1. ASSUME NEW s \in Server, NEW t \in Server
        PROVE  d[s] - d[t] < SERVERS[s].period
    <3>1. e[s] - e[t] < SERVERS[s].period /\ e[s] \in Nat /\ e[t] \in Nat
      BY <1>3 DEF Spread
    <3>2. d[s] = e[s] - event /\ d[t] = e[t] - event
      BY <1>16
    <3>3. d[s] - d[t] = e[s] - e[t]
      BY <3>1, <3>2
    <3> QED
      BY <3>1, <3>3
  <2> QED
    BY <1>13, <1>16, <2>1 DEF Spread
<1>18. Spread(d)'
  BY <1>3, <1>17 DEF Spread
<1>19. timer'.handler = "release" =>
         Newest(relq', timer'.server) /\ d[timer'.server] = 0
  <2>1. event = e[k] => d[k] = 0
    BY <1>2, <1>7, <1>16
  <2> QED
    BY <1>1, <1>2, <1>14, <1>15, <2>1
<1>20. rest >= -MaxLate
  BY <1>5, <1>10
<1>21. ClockAt(d)'
  BY <1>3, <1>9, <1>11, <1>12, <1>14, <1>15, <1>16, <1>17, <1>18, <1>19, <1>20
     DEF ClockAt
<1>22. Clock'
  <2>1. IsRelPq(relq') /\ Held(relq') = Server
    BY DEF HasEveryServer, Sound, Typed
  <2>2. TimesIn(relq') = d
    BY <1>14, <1>15, <1>17, <2>1, TimesRead
  <2> QED
    BY <1>21, <2>2 DEF Clock
<1> QED
  BY <1>9, <1>12, <1>22

\* How the timer stands to a server that has `left' jiffies left: when it stops
\* the server, it comes when the budget ends, or at most MaxLate after it if
\* the budget had ended when the timer was armed.
TimerServes(left) ==
  /\ timer.handler = "complete" => left <= Rest /\ Rest <= left + MaxLate
  /\ timer.handler = "release" => Rest < left

\* SetTimer arms the timer for the first of the two events.
LEMMA SetTimerClock ==
  ASSUME Measurable, NEW step, NEW e, Arms(step, e), HasEveryServer(relq'),
         NEW s, NEW budget \in Int, Near(budget), budget >= 1 - MaxLate,
         NEW expiration, expiration = After(jiffies, budget),
         SetTimer(step.queue, step.node, step.relative, s, budget, expiration)
  PROVE  Clock' /\ TimerServes(budget)'
<1>1. PICK k, relative : k = step.node /\ relative = step.relative
  OBVIOUS
<1>2. /\ relative = e[k] /\ k \in Server /\ relative \in Nat \ {0}
      /\ jiffies \in Reading /\ MaxLate \in Nat
  BY <1>1, ServerSchedAssumption DEF Arms, NextDue, NewDistances
<1>3. PICK event : event = next_scheduling_event(relative, budget)
  OBVIOUS
<1>4. /\ event \in Int /\ event <= relative /\ event <= budget
      /\ event >= 1 - MaxLate
      /\ event = budget \/ (event = relative /\ event >= 1 /\ event < budget)
  BY <1>2, <1>3 DEF next_scheduling_event
<1>5. Near(event)
  BY <1>2, <1>4, ServerSchedAssumption DEF Near
<1>6. relq' = [step.queue EXCEPT !.virtual_time = @ + event]
  BY <1>1, <1>3 DEF SetTimer
<1>7. event <= e[step.node]
  BY <1>1, <1>2, <1>4
<1>8. CASE event = budget
  <2>1. timer' = ModTimer("complete", s, After(jiffies, event))
    BY <1>1, <1>3, <1>8 DEF SetTimer
  <2>2. /\ timer'.handler = "complete"
        /\ timer'.expires = After(jiffies, Clipped(event))
    BY <1>2, <1>5, <2>1, ModTimerAhead
  <2>3. Clock' /\ Rest' = Clipped(event)
    BY <1>4, <1>6, <1>7, <2>2, ArmedClock
  <2>4. /\ budget <= Clipped(event)
        /\ Clipped(event) <= budget + MaxLate
    BY <1>2, <1>4, <1>8 DEF Clipped
  <2> QED
    BY <2>2, <2>3, <2>4 DEF TimerServes
<1>9. CASE event # budget
  <2>1. timer' = ModTimer("release", k, After(jiffies, event))
    BY <1>1, <1>3, <1>9 DEF SetTimer
  <2>2. /\ timer'.handler = "release" /\ timer'.server = k
        /\ timer'.expires = After(jiffies, Clipped(event))
    BY <1>2, <1>5, <2>1, ModTimerAhead
  <2>3. event = e[step.node]
    BY <1>1, <1>2, <1>4, <1>9
  <2>4. Clock' /\ Rest' = Clipped(event)
    BY <1>1, <1>4, <1>6, <1>7, <2>2, <2>3, ArmedClock
  <2>5. Clipped(event) < budget
    BY <1>4, <1>9 DEF Clipped
  <2> QED
    BY <2>2, <2>4, <2>5 DEF TimerServes
<1> QED
  BY <1>8, <1>9

\* The timer of an idle core is armed for the next release.
LEMMA IdleClock ==
  ASSUME Measurable, NEW step, NEW e, Arms(step, e), HasEveryServer(relq'),
         Idle(step)
  PROVE  Clock'
<1>1. PICK k, relative, vt :
        k = step.node /\ relative = step.relative
        /\ vt = step.queue.virtual_time
  OBVIOUS
<1>2. /\ relative = e[k] /\ k \in Server /\ relative \in Nat \ {0}
      /\ vt + relative \in 1 .. Wrap(step.queue)
      /\ jiffies \in Reading /\ MaxLate \in Nat
  BY <1>1, ServerSchedAssumption DEF Arms, NextDue, NewDistances
<1>3. vt \in Int /\ Wrap(step.queue) \in Nat
  BY <1>1, WrapType DEF Arms, HasEveryServer, Sound, Typed, IsRelPq
<1>4. relq' = [step.queue EXCEPT !.virtual_time = @ + relative]
  <2>1. ~(vt + relative > Wrap(step.queue))
    BY <1>2, <1>3
  <2> QED
    BY <1>1, <2>1 DEF Idle
<1>5. Near(relative)
  <2>1. PICK S : S = Server \ ready'
    OBVIOUS
  <2>2. /\ 2 * (SERVERS[k].period + MaxLate * Cardinality(S) + MaxLate)
             < JIFFIES_MOD
        /\ MaxLate * Cardinality(S) \in Nat /\ SERVERS[k].period \in Nat
        /\ JIFFIES_MOD \in Nat
    BY <1>2, <2>1, Resolution DEF Arms
  <2>3. relative <= SERVERS[k].period + MaxLate * Cardinality(S)
    BY <1>2, <2>1 DEF Arms, NewDistances, Lag
  <2>4. PICK p, c, m : /\ p = SERVERS[k].period /\ m = JIFFIES_MOD
                       /\ c = MaxLate * Cardinality(S)
    OBVIOUS
  <2>5. 2 * relative < m /\ -(2 * relative) < m /\ relative \in Int
    BY <1>2, <2>2, <2>3, <2>4
  <2> QED
    BY <2>4, <2>5 DEF Near
<1>6. timer' = ModTimer("release", k, After(jiffies, relative))
  BY <1>1 DEF Idle
<1>7. /\ timer'.handler = "release" /\ timer'.server = k
      /\ timer'.expires = After(jiffies, Clipped(relative))
  BY <1>2, <1>5, <1>6, ModTimerAhead
<1>8. /\ relative \in Int /\ relative <= e[step.node]
      /\ relative >= 1 - MaxLate /\ relative = e[step.node]
  BY <1>1, <1>2
<1> QED
  BY <1>1, <1>4, <1>7, <1>8, ArmedClock

----------------------------------------------------------------------------
(* The budgets.                                                            *)

\* The jiffies that the running server has left, less than none if the timer
\* is late, and those that it ran.
Left(s) == Elapsed(budget_expiration_time[s], jiffies)
Ran(s) == Elapsed(jiffies, timestamp[s])

\* The running server ends its budget when its expiration time says, within
\* what it had at its start.
Served(s) ==
  /\ Near(Left(s))
  /\ budget_expiration_time[s] = After(jiffies, Left(s))
  /\ Ran(s) \in Nat /\ 2 * Ran(s) < JIFFIES_MOD
  /\ jiffies = After(timestamp[s], Ran(s))
  /\ Left(s) + Ran(s) <= remain_budget[s]
  /\ used[s] + remain_budget[s] - Ran(s) <= SERVERS[s].budget
  /\ TimerServes(Left(s))

\* What a server that waits has left and what it ran since its release are
\* never more than its budget; one that was preempted by a late release may
\* have ended its budget by then.
Budgeted(s) ==
  /\ remain_budget[s] <= SERVERS[s].budget
  /\ s \notin ready => used[s] <= SERVERS[s].budget + 2 * MaxLate
  /\ s \in ready /\ ~running[s] =>
       /\ remain_budget[s] >= 1 - MaxLate
       /\ used[s] + remain_budget[s] <= SERVERS[s].budget
  /\ running[s] => Served(s)

\* Before the first release.
NotStarted ==
  /\ relq.virtual_time = 0 /\ Timed(relq, Period) /\ Ahead(relq)
  /\ \A s \in Server : /\ age[s] = 0 /\ used[s] = 0
                       /\ remain_budget[s] = SERVERS[s].budget

TimeInv == IF FIRST_RUN THEN NotStarted
                        ELSE Clock /\ \A s \in Server : Budgeted(s)

\* The types that the arithmetic needs.
LEMMA TimeTypes ==
  ASSUME TypeInv, Measurable, NEW s \in Server
  PROVE  /\ SERVERS \in ServerParams
         /\ jiffies \in Reading /\ timer.expires \in Reading
         /\ used[s] \in Nat /\ age[s] \in Nat /\ remain_budget[s] \in Int
         /\ timestamp[s] \in Reading /\ budget_expiration_time[s] \in Reading
         /\ SERVERS[s].budget \in Nat \ {0} /\ SERVERS[s].period \in Nat \ {0}
         /\ MaxLate \in Nat /\ JIFFIES_MOD \in Nat
         /\ 2 * (SERVERS[s].budget + 3 * MaxLate) < JIFFIES_MOD
         /\ 2 * (1 + MaxLate) < JIFFIES_MOD
<1>1. SERVERS \in ServerParams
  BY DEF TypeInv, TypeOK
<1> QED
  BY <1>1, Resolution DEF TypeInv, TypeOK, Reading

\* A running server overran its budget by less than twice the lateness of a
\* softirq, or has some left when the timer is for a release.
LEMMA LeftBounds ==
  ASSUME Clock, NEW s, Served(s), timer.handler \in {"release", "complete"}
  PROVE  /\ Left(s) \in Int /\ Left(s) >= Rest - MaxLate
         /\ Rest \in Int /\ Rest >= -MaxLate
         /\ timer.handler = "release" => Left(s) > Rest
<1>1. Left(s) \in Int /\ Rest \in Int /\ Rest >= -MaxLate /\ MaxLate \in Nat
  BY ServerSchedAssumption DEF Clock, ClockAt, Served, Near
<1>2. /\ timer.handler = "complete" => Rest <= Left(s) + MaxLate
      /\ timer.handler = "release" => Rest < Left(s)
  BY DEF Served, TimerServes
<1> QED
  BY <1>1, <1>2

\* A server that starts with `budget' jiffies is served.
LEMMA StartServed ==
  ASSUME jiffies \in Reading, jiffies' = jiffies, NEW s,
         NEW budget \in Int, Near(budget),
         budget_expiration_time'[s] = After(jiffies, budget),
         timestamp'[s] = jiffies,
         remain_budget'[s] \in Int, used'[s] \in Nat,
         budget <= remain_budget'[s],
         used'[s] + remain_budget'[s] <= SERVERS'[s].budget,
         TimerServes(budget)'
  PROVE  Served(s)' /\ Left(s)' = budget /\ Ran(s)' = 0
<1>1. JIFFIES_MOD \in Nat \ {0} /\ Near(0) /\ 0 \in Int
  BY ServerSchedAssumption DEF Near
<1>2. After(jiffies, 0) = jiffies
  <2>1. jiffies \in Nat /\ jiffies + 0 = jiffies /\ jiffies < JIFFIES_MOD
    BY <1>1 DEF Reading
  <2> QED
    BY <1>1, <2>1, AfterValue
<1>3. Elapsed(After(jiffies, 0), jiffies) = 0
  BY <1>1, ElapsedAhead
<1>4. Left(s)' = budget
  BY ElapsedAhead DEF Left
<1>5. Ran(s)' = 0
  BY <1>2, <1>3 DEF Ran
<1>6. TimerServes(Left(s))'
  BY <1>4 DEF TimerServes
<1>7. /\ Left(s)' + Ran(s)' <= remain_budget'[s]
      /\ used'[s] + remain_budget'[s] - Ran(s)' <= SERVERS'[s].budget
  BY <1>4, <1>5
<1>8. 2 * 0 < JIFFIES_MOD
  BY <1>1
<1> QED
  BY <1>2, <1>4, <1>5, <1>6, <1>7, <1>8 DEF Served

\* The softirq may run from the jiffy on for which the timer is armed.
LEMMA DueIsNow ==
  ASSUME Clock, jiffies \in Reading
  PROVE  /\ Elapsed(jiffies, timer.expires) = -Rest
         /\ TimerDue <=> Rest <= 0
<1>1. PICK rest : rest = Rest
  OBVIOUS
<1>2. Near(rest) /\ timer.expires = After(jiffies, rest) /\ rest \in Int
  BY <1>1 DEF Clock, ClockAt, Near
<1>3. Elapsed(jiffies, timer.expires) = -rest
  BY <1>2, ElapsedBehind
<1>4. (-rest >= 0) <=> (rest <= 0)
  BY <1>2
<1> QED
  BY <1>1, <1>3, <1>4 DEF TimerDue

\* One jiffy nearer to a reading that is d jiffies ahead.
LEMMA NearerByOne ==
  ASSUME jiffies \in Reading, jiffies' = After(jiffies, 1), 2 < JIFFIES_MOD,
         NEW d, Near(d), Near(d - 1), NEW t, t = After(jiffies, d)
  PROVE  t = After(jiffies', d - 1) /\ Elapsed(t, jiffies') = d - 1
<1>1. /\ JIFFIES_MOD \in Nat /\ d \in Int /\ 1 \in Int /\ d - 1 \in Int
      /\ 1 + (d - 1) = d
      /\ 1 < JIFFIES_MOD /\ -1 < JIFFIES_MOD
      /\ d < JIFFIES_MOD /\ -d < JIFFIES_MOD
      /\ d - 1 < JIFFIES_MOD /\ -(d - 1) < JIFFIES_MOD
  BY ServerSchedAssumption DEF Near
<1>2. jiffies' \in Reading
  BY <1>1, AfterValue
<1>3. t = After(jiffies', d - 1)
  BY <1>1, AfterAfter
<1> QED
  BY <1>2, <1>3, ElapsedAhead

LEMMA ClockTick ==
  ASSUME Clock, Rest > -MaxLate, 2 * (1 + MaxLate) < JIFFIES_MOD,
         jiffies \in Reading, jiffies' = After(jiffies, 1),
         age \in [Server -> Nat], \A s \in Server : SERVERS[s].period \in Nat,
         age' = [s \in Server |-> age[s] + 1],
         UNCHANGED <<SERVERS, timer, relq, ready>>
  PROVE  Clock' /\ Rest' = Rest - 1
<1>1. PICK rest, d : rest = Rest /\ d = TimesIn(relq)
  OBVIOUS
<1>2. ClockAt(d)
  BY <1>1 DEF Clock
<1>3. Near(rest) /\ timer.expires = After(jiffies, rest) /\ rest \in Int
  BY <1>1, <1>2 DEF ClockAt, Near
<1>4. /\ Near(rest - 1) /\ rest - 1 >= -MaxLate /\ 2 < JIFFIES_MOD
  BY <1>1, <1>3, ServerSchedAssumption DEF Near
<1>5. timer.expires = After(jiffies', rest - 1) /\ Rest' = rest - 1
  BY <1>3, <1>4, NearerByOne DEF Rest
<1>6. Spread(d)' /\ Lag' = Lag
  BY <1>2 DEF ClockAt, Spread, Lag
<1>7. ASSUME NEW s \in Server
      PROVE  /\ d[s] + (rest - 1) + age'[s] >= SERVERS[s].period
             /\ MaxLate = 0 =>
                  d[s] + (rest - 1) + age'[s] = SERVERS[s].period
  <2>1. PICK x, a, p : x = d[s] /\ a = age[s] /\ p = SERVERS[s].period
    OBVIOUS
  <2>2. /\ x \in Nat /\ a \in Nat /\ p \in Nat /\ x + rest + a >= p
        /\ MaxLate = 0 => x + rest + a = p
    BY <1>1, <1>2, <2>1 DEF ClockAt
  <2>3. x + (rest - 1) + (a + 1) = x + rest + a
    BY <1>3, <2>2
  <2>4. age'[s] = a + 1
    BY <2>1
  <2> QED
    BY <2>1, <2>2, <2>3, <2>4
<1>8. ClockAt(d)'
  BY <1>2, <1>4, <1>5, <1>6, <1>7 DEF ClockAt
<1>9. TimesIn(relq') = d
  BY <1>1
<1> QED
  BY <1>1, <1>5, <1>8, <1>9 DEF Clock

LEMMA ServedTick ==
  ASSUME NEW s \in Server, Clock, Served(s), Rest > -MaxLate,
         Rest' = Rest - 1,
         timer.handler \in {"release", "complete"},
         jiffies \in Reading, jiffies' = After(jiffies, 1),
         timestamp[s] \in Reading,
         SERVERS[s].budget \in Nat,
         2 * (SERVERS[s].budget + 3 * MaxLate) < JIFFIES_MOD,
         2 < JIFFIES_MOD,
         remain_budget[s] \in Int, remain_budget[s] <= SERVERS[s].budget,
         used[s] \in Nat, used'[s] = used[s] + 1,
         UNCHANGED <<SERVERS, timer, remain_budget, budget_expiration_time,
                     timestamp>>
  PROVE  Served(s)' /\ Left(s)' = Left(s) - 1 /\ Ran(s)' = Ran(s) + 1
<1>1. PICK left, ran, rest, u :
        left = Left(s) /\ ran = Ran(s) /\ rest = Rest /\ u = used[s]
  OBVIOUS
<1>2. PICK m, b, r, l : /\ m = JIFFIES_MOD /\ b = SERVERS[s].budget
                        /\ r = remain_budget[s] /\ l = MaxLate
  OBVIOUS
<1>3. /\ left \in Int /\ rest \in Int /\ left >= rest - l /\ rest > -l
      /\ ran \in Nat /\ 2 * ran < m /\ u \in Nat
      /\ left + ran <= r /\ u + r - ran <= b
      /\ r \in Int /\ r <= b /\ b \in Nat /\ 2 * (b + 3 * l) < m
      /\ m \in Nat /\ 2 < m /\ l \in Nat /\ 2 * left < m
  BY <1>1, <1>2, LeftBounds, ServerSchedAssumption DEF Served, Near
<1>4. /\ budget_expiration_time[s] = After(jiffies, left)
      /\ jiffies = After(timestamp[s], ran) /\ Near(left)
      /\ timer.handler = "complete" => left <= rest /\ rest <= left + l
      /\ timer.handler = "release" => rest < left
  BY <1>1, <1>2 DEF Served, TimerServes
<1>5. /\ left - 1 \in Int /\ 2 * (left - 1) < m /\ -(2 * (left - 1)) < m
      /\ ran + 1 \in Nat /\ 2 * (ran + 1) < m
  BY <1>3
<1>6. Near(left - 1)
  BY <1>2, <1>5 DEF Near
<1>7. budget_expiration_time[s] = After(jiffies', left - 1) /\ Left(s)' = left - 1
  BY <1>4, <1>6, NearerByOne DEF Left
<1>8. jiffies' = After(timestamp[s], ran + 1)
  <2>1. /\ ran \in Int /\ 1 \in Int /\ ran < m /\ -ran < m /\ 1 < m /\ -1 < m
        /\ ran + 1 < m /\ -(ran + 1) < m
    BY <1>3, <1>5
  <2> QED
    BY <1>2, <1>4, <2>1, AfterAfter
<1>9. Ran(s)' = ran + 1
  <2>1. Near(ran + 1)
    BY <1>2, <1>3, <1>5 DEF Near
  <2> QED
    BY <1>8, <2>1, ElapsedAhead DEF Ran
<1>10. /\ (left - 1) + (ran + 1) <= r
       /\ (u + 1) + r - (ran + 1) <= b
       /\ left <= rest => left - 1 <= rest - 1
       /\ rest <= left + l => rest - 1 <= left - 1 + l
       /\ rest < left => rest - 1 < left - 1
  BY <1>3
<1>11. TimerServes(Left(s))'
  BY <1>1, <1>2, <1>4, <1>7, <1>10 DEF TimerServes
<1>12. /\ Left(s)' + Ran(s)' <= remain_budget'[s]
       /\ used'[s] + remain_budget'[s] - Ran(s)' <= SERVERS'[s].budget
  BY <1>1, <1>2, <1>7, <1>9, <1>10
<1>13. Near(Left(s))' /\ Ran(s)' \in Nat /\ 2 * Ran(s)' < JIFFIES_MOD
  BY <1>2, <1>5, <1>6, <1>7, <1>9 DEF Near
<1>14. /\ budget_expiration_time'[s] = After(jiffies', Left(s)')
       /\ jiffies' = After(timestamp'[s], Ran(s)')
  BY <1>7, <1>8, <1>9
<1> QED
  BY <1>1, <1>7, <1>9, <1>11, <1>12, <1>13, <1>14 DEF Served

----------------------------------------------------------------------------
(* The invariant: the initial state, the clock, the handlers.              *)

LEMMA TimeInit ==
  ASSUME Init
  PROVE  TimeInv
<1> DEFINE periods == {SERVERS[s].period : s \in Server}
           largest == CHOOSE p \in periods :
                        \A s \in Server : SERVERS[s].period <= p
<1>1. SERVERS \in ServerParams /\ FIRST_RUN
  BY DEF Init
<1>2. /\ largest \in Nat \ {0}
      /\ \A s \in Server : Period[s] \in 1 .. largest
  BY <1>1, LargestPeriod DEF Period
<1>3. PICK position \in [Server -> 1 .. Cardinality(Server)] :
        relq = InitialRelq(SERVERS, position)
  BY DEF Init
<1>4. PICK most, period : most = largest /\ period = Period
  OBVIOUS
<1>5. relq = InsertAll([RelPqInit(most) EXCEPT !.since = position], period)
  BY <1>3, <1>4 DEF InitialRelq, Period
<1>6. position \in [Server -> Nat]
  OBVIOUS
<1>7. period \in [Server -> Nat]
  BY <1>1, <1>4, ParamsType DEF Period
<1>8. Timed(relq, period) /\ Ahead(relq) /\ relq.virtual_time = 0
  <2> HIDE DEF largest
  <2> QED
    BY <1>2, <1>4, <1>5, <1>6, <1>7, RelPqInitDue
<1>9. NotStarted
  BY <1>4, <1>8 DEF NotStarted, Init
<1> QED
  BY <1>1, <1>9 DEF TimeInv

LEMMA TimeTick ==
  ASSUME Measurable, TypeInv, HeadInv, TimeInv, Tick
  PROVE  /\ TimeInv'
         /\ ~FIRST_RUN => Rest > -MaxLate
         /\ \A s \in Server : running[s] =>
              Left(s)' = Left(s) - 1 /\ Ran(s)' = Ran(s) + 1
<1>1. /\ SERVERS' = SERVERS /\ timer' = timer /\ relq' = relq
      /\ FIRST_RUN' = FIRST_RUN /\ ready' = ready /\ running' = running
      /\ remain_budget' = remain_budget /\ timestamp' = timestamp
      /\ budget_expiration_time' = budget_expiration_time
      /\ jiffies' = After(jiffies, 1)
      /\ used' = [s \in Server |-> IF running[s] THEN used[s] + 1 ELSE used[s]]
      /\ age' = [s \in Server |-> IF FIRST_RUN THEN 0 ELSE age[s] + 1]
  BY DEF Tick, static, queues, account
<1>2. jiffies \in Reading /\ age \in [Server -> Nat] /\ timer \in Timer
  BY DEF TypeInv, TypeOK, Reading, Timer
<1>3. CASE FIRST_RUN
  <2>1. NotStarted
    BY <1>3 DEF TimeInv
  <2>2. \A s \in Server : ~running[s]
    BY <1>3 DEF HeadInv, RunningIsHead
  <2>3. Period' = Period
    BY <1>1 DEF Period
  <2>4. NotStarted'
    BY <1>1, <1>3, <2>1, <2>2, <2>3 DEF NotStarted
  <2> QED
    BY <1>1, <1>3, <2>2, <2>4 DEF TimeInv
<1>4. CASE ~FIRST_RUN
  <2>1. Clock /\ \A s \in Server : Budgeted(s)
    BY <1>4 DEF TimeInv
  <2>2. timer.handler \in {"release", "complete"}
    BY <1>2 DEF HeadInv, CoreAlive, Timer
  <2>3. /\ \A s \in Server : SERVERS[s].period \in Nat
        /\ 2 * (1 + MaxLate) < JIFFIES_MOD /\ 2 < JIFFIES_MOD
        /\ MaxLate \in Nat
    <3>1. PICK s \in Server : TRUE
      BY RelPqAssumption
    <3>2. /\ 2 * (1 + MaxLate) < JIFFIES_MOD /\ MaxLate \in Nat
          /\ JIFFIES_MOD \in Nat
      BY TimeTypes
    <3>3. 2 < JIFFIES_MOD
      BY <3>2
    <3> QED
      BY <3>2, <3>3, TimeTypes
  <2>4. Rest > -MaxLate
    <3>1. ~(Elapsed(jiffies, timer.expires) >= MaxLate)
      BY <2>2 DEF Tick
    <3>2. Elapsed(jiffies, timer.expires) = -Rest /\ Rest \in Int
      BY <1>2, <2>1, DueIsNow DEF Clock, ClockAt, Near
    <3> QED
      BY <2>3, <3>1, <3>2
  <2>5. age' = [s \in Server |-> age[s] + 1]
    BY <1>1, <1>4
  <2>6. Clock' /\ Rest' = Rest - 1
    BY <1>1, <1>2, <2>1, <2>3, <2>4, <2>5, ClockTick
  <2>7. ASSUME NEW s \in Server
        PROVE  /\ Budgeted(s)'
               /\ running[s] =>
                    Left(s)' = Left(s) - 1 /\ Ran(s)' = Ran(s) + 1
    <3>1. /\ used[s] \in Nat /\ remain_budget[s] \in Int
          /\ timestamp[s] \in Reading
          /\ SERVERS[s].budget \in Nat
          /\ 2 * (SERVERS[s].budget + 3 * MaxLate) < JIFFIES_MOD
      BY TimeTypes
    <3>2. Budgeted(s)
      BY <2>1
    <3>3. CASE running[s]
      <4>1. used'[s] = used[s] + 1
        BY <1>1, <3>3
      <4>2. Served(s) /\ remain_budget[s] <= SERVERS[s].budget
        BY <3>2, <3>3 DEF Budgeted
      <4>3. /\ Served(s)'
            /\ Left(s)' = Left(s) - 1 /\ Ran(s)' = Ran(s) + 1
        BY <1>1, <1>2, <2>1, <2>2, <2>3, <2>4, <2>6, <3>1, <4>1, <4>2,
           ServedTick
      <4>4. s \in ready
        <5>1. s = BitmapGet(ready)
          BY <1>4, <3>3 DEF HeadInv, RunningIsHead
        <5> QED
          BY <5>1, BitmapGetType, ServerSchedAssumption DEF TypeInv, TypeOK
      <4> QED
        BY <1>1, <3>3, <4>2, <4>3, <4>4 DEF Budgeted
    <3>4. CASE ~running[s]
      <4>1. used'[s] = used[s]
        BY <1>1, <3>4
      <4> QED
        BY <1>1, <3>2, <3>4, <4>1 DEF Budgeted
    <3> QED
      BY <3>3, <3>4
  <2> QED
    BY <1>1, <1>4, <2>4, <2>6, <2>7 DEF TimeInv
<1> QED
  BY <1>3, <1>4

\* Before the first release too every server has its budget.
LEMMA AllBudgeted ==
  ASSUME Measurable, TypeInv, HeadInv, TimeInv, NEW s \in Server
  PROVE  /\ Budgeted(s)
         /\ running[s] => /\ ~FIRST_RUN /\ s \in ready /\ s = BitmapGet(ready)
                          /\ Clock /\ timer.handler \in {"release", "complete"}
<1>1. CASE FIRST_RUN
  <2>1. /\ used[s] = 0 /\ remain_budget[s] = SERVERS[s].budget
        /\ ~running[s]
    BY <1>1 DEF TimeInv, NotStarted, HeadInv, RunningIsHead
  <2>2. SERVERS[s].budget \in Nat \ {0} /\ MaxLate \in Nat
    BY TimeTypes
  <2>3. PICK b : b = SERVERS[s].budget
    OBVIOUS
  <2>4. 0 <= b + 2 * MaxLate /\ b >= 1 - MaxLate /\ 0 + b <= b /\ b <= b
    BY <2>2, <2>3
  <2> QED
    BY <2>1, <2>3, <2>4 DEF Budgeted
<1>2. CASE ~FIRST_RUN
  <2>1. running[s] => s = BitmapGet(ready)
    BY <1>2 DEF HeadInv, RunningIsHead
  <2>2. BitmapGet(ready) \in ready \cup {None} /\ None \notin Server
    BY BitmapGetType, ServerSchedAssumption DEF TypeInv, TypeOK
  <2>3. timer.handler \in {"release", "complete"}
    <3>1. timer \in Timer
      BY DEF TypeInv, TypeOK, Timer
    <3> QED
      BY <3>1 DEF HeadInv, CoreAlive, Timer
  <2> QED
    BY <1>2, <2>1, <2>2, <2>3 DEF TimeInv
<1> QED
  BY <1>1, <1>2

LEMMA LagType ==
  /\ Lag \in Nat /\ MaxLate \in Nat
  /\ ready' \in SUBSET Server => Lag' \in Nat
<1>1. \A S \in SUBSET Server : MaxLate * Cardinality(S) \in Nat
  BY SlackBounds
<1>2. Server \ ready \in SUBSET Server /\ Server \ ready' \in SUBSET Server
  OBVIOUS
<1> QED
  BY <1>1, <1>2, ServerSchedAssumption DEF Lag

\* A server that completes adds to the lag, unless servers are released.
LEMMA LagGrows ==
  ASSUME NEW c \in ready, ready \in SUBSET Server, ready' = ready \ {c}
  PROVE  Lag' = Lag + MaxLate
<1>1. PICK S, T : S = Server \ ready /\ T = Server \ ready'
  OBVIOUS
<1>2. T = S \cup {c} /\ c \notin S /\ S \in SUBSET Server
  BY <1>1
<1>3. IsFiniteSet(S)
  BY <1>2, RelPqAssumption, FS_Subset
<1>4. Cardinality(T) = Cardinality(S) + 1 /\ Cardinality(S) \in Nat
  BY <1>2, <1>3, FS_AddElement, FS_CardinalityType
<1>5. PICK n, l : n = Cardinality(S) /\ l = MaxLate
  OBVIOUS
<1>6. n \in Nat /\ l \in Nat
  BY <1>4, <1>5, ServerSchedAssumption
<1>7. l * (n + 1) = l * n + l
  BY <1>6
<1>8. Lag = l * n /\ Lag' = l * (n + 1)
  BY <1>1, <1>4, <1>5 DEF Lag
<1> QED
  BY <1>5, <1>7, <1>8

\* What a handler that runs finds: a server is due in the queue only when its
\* period is over.
Found(d) ==
  /\ Tells(relq, d)
  /\ \A s \in Server :
       /\ d[s] + age[s] >= SERVERS[s].period
       /\ MaxLate = 0 => d[s] + age[s] = SERVERS[s].period
       /\ d[s] <= SERVERS[s].period + Lag + MaxLate

LEMMA DueTells ==
  ASSUME Measurable, TypeInv, ~FIRST_RUN, TimeInv, TimerDue,
         NEW d, d = TimesIn(relq)
  PROVE  /\ Found(d)
         /\ timer.handler = "release" =>
              timer.server \in DueNow(d) /\ Newest(relq, timer.server)
<1>1. Clock /\ jiffies \in Reading
  BY DEF TimeInv, TypeInv, TypeOK, Reading
<1>2. ClockAt(d)
  BY <1>1 DEF Clock
<1>3. Rest <= 0 /\ Rest \in Int /\ Rest >= -MaxLate /\ MaxLate \in Nat
  BY <1>1, <1>2, DueIsNow, ServerSchedAssumption DEF ClockAt, Near
<1>4. /\ SERVERS \in ServerParams /\ age \in [Server -> Nat]
      /\ timer.server \in Server /\ HasEveryServer(relq)
  BY DEF TypeInv, TypeOK, QueueInv
<1>5. Tells(relq, d)
  BY <1>2, <1>4 DEF ClockAt, Tells
<1>6. ASSUME NEW s \in Server
      PROVE  /\ d[s] + age[s] >= SERVERS[s].period
             /\ MaxLate = 0 => d[s] + age[s] = SERVERS[s].period
             /\ d[s] <= SERVERS[s].period + Lag + MaxLate
  <2>1. PICK x, a, p, rest : /\ x = d[s] /\ a = age[s] /\ rest = Rest
                             /\ p = SERVERS[s].period
    OBVIOUS
  <2>2. /\ x \in Nat /\ a \in Nat /\ p \in Nat /\ rest \in Int
    BY <1>2, <1>3, <1>4, <2>1, ParamsType DEF ClockAt
  <2>3. /\ x + rest + a >= p /\ (MaxLate = 0 => x + rest + a = p)
        /\ x <= p + Lag + MaxLate
    BY <1>2, <2>1 DEF ClockAt
  <2>4. x + a >= p /\ (MaxLate = 0 => x + a = p)
    BY <1>3, <2>1, <2>2, <2>3
  <2> QED
    BY <2>1, <2>3, <2>4
<1>7. timer.handler = "release" =>
        timer.server \in DueNow(d) /\ Newest(relq, timer.server)
  BY <1>2, <1>4 DEF ClockAt, DueNow
<1> QED
  BY <1>5, <1>6, <1>7 DEF Found

\* The distances after a step in which the servers that are due are released.
LEMMA DistancesAfter ==
  ASSUME TypeInv, NEW d, Found(d), NEW RS, RS = DueNow(d),
         age' = [s \in Server |-> IF s \in RS THEN 0 ELSE age[s]],
         Lag' \in Nat, RS # {} \/ Lag' = Lag + MaxLate
  PROVE  NewDistances(Again(d))
<1>1. PICK e : e = Again(d)
  OBVIOUS
<1>2. /\ SERVERS \in ServerParams /\ age \in [Server -> Nat]
      /\ d \in [Server -> Nat] /\ Spread(d)
  BY DEF TypeInv, TypeOK, Found, Tells
<1>3. /\ e \in [Server -> Nat \ {0}] /\ Spread(e)
      /\ RS # {} => \A s \in Server : e[s] <= SERVERS[s].period
  BY <1>1, <1>2, AgainLater
<1>4. ASSUME NEW s \in Server
      PROVE  /\ e[s] + age'[s] >= SERVERS[s].period
             /\ MaxLate = 0 => e[s] + age'[s] = SERVERS[s].period
             /\ e[s] <= SERVERS[s].period + Lag'
  <2>1. PICK x, y, a, p, lag : /\ x = d[s] /\ y = e[s] /\ a = age[s]
                               /\ p = SERVERS[s].period /\ lag = Lag'
    OBVIOUS
  <2>2. /\ x \in Nat /\ y \in Nat /\ a \in Nat /\ p \in Nat /\ lag \in Nat
    BY <1>2, <1>3, <2>1, ParamsType
  <2>3. /\ y = IF x = 0 THEN p ELSE x
        /\ age'[s] = IF x = 0 THEN 0 ELSE a
    BY <1>1, <2>1 DEF Again, DueNow
  <2>4. /\ x + a >= p /\ (MaxLate = 0 => x + a = p)
        /\ x <= p + Lag + MaxLate
    BY <2>1 DEF Found
  <2>5. y <= p + lag
    <3>1. CASE RS # {}
      BY <1>3, <2>1, <2>2, <3>1
    <3>2. CASE RS = {}
      <4>1. lag = Lag + MaxLate /\ x # 0
        BY <2>1, <3>2 DEF DueNow
      <4>2. Lag \in Nat /\ MaxLate \in Nat
        BY LagType
      <4> QED
        BY <2>2, <2>3, <2>4, <4>1, <4>2
    <3> QED
      BY <3>1, <3>2
  <2>6. y + age'[s] >= p /\ (MaxLate = 0 => y + age'[s] = p)
    <3>1. CASE x = 0
      BY <2>2, <2>3, <3>1
    <3>2. CASE x # 0
      BY <2>3, <2>4, <3>2
    <3> QED
      BY <3>1, <3>2
  <2> QED
    BY <2>1, <2>5, <2>6
<1> QED
  BY <1>1, <1>3, <1>4 DEF NewDistances

\* What every run of the release handler starts with.
Entered(step, e, RS) ==
  /\ Arms(step, e)
  /\ RS \subseteq Server /\ ReleasedServer(step) \in RS
  /\ ~FIRST_RUN' /\ ready' = ready \cup RS
  /\ used' = [s \in Server |-> IF s \in RS THEN 0 ELSE used[s]]
  /\ timer.handler = "release"

\* The servers that a handler releases: in the first run all that are not
\* ready yet, later those that are due.
Picked(RS) ==
  /\ age' = [s \in Server |-> IF s \in RS THEN 0 ELSE age[s]]
  /\ RS = IF FIRST_RUN THEN Server \ ready ELSE DueNow(TimesIn(relq))

LEMMA ReleaseEntered ==
  ASSUME Measurable, TypeInv, HeadInv, TimeInv,
         TimerDue, timer.handler = "release",
         NEW step, step = ReleaseStep, EnterRelease(step)
  PROVE  /\ Picked(ReleasedServers(step))
         /\ \E e : Entered(step, e, ReleasedServers(step))
<1>1. PICK RS : RS = ReleasedServers(step)
  OBVIOUS
<1>2. /\ HasEveryServer(step.queue) /\ step.nodes \subseteq Server
      /\ step.node \in Server
  BY ReleaseStepType
<1>3. /\ RS \subseteq Server /\ timer.server \in RS
  BY <1>1, <1>2, ReleasedServerType DEF ReleasedServers
<1>4. /\ ~FIRST_RUN' /\ SERVERS' = SERVERS /\ jiffies' = jiffies
      /\ ready' = ready \cup RS
      /\ used' = [s \in Server |-> IF s \in RS THEN 0 ELSE used[s]]
      /\ age' = [s \in Server |-> IF s \in RS THEN 0 ELSE age[s]]
  BY <1>1 DEF EnterRelease, Refill, static
<1>5. /\ SERVERS \in ServerParams /\ age \in [Server -> Nat]
      /\ HasEveryServer(relq) /\ FIRST_RUN \in BOOLEAN
      /\ jiffies \in Reading /\ age' \in [Server -> Nat]
      /\ ready' \in SUBSET Server
  <2>1. /\ SERVERS \in ServerParams /\ age \in [Server -> Nat]
        /\ HasEveryServer(relq) /\ FIRST_RUN \in BOOLEAN
        /\ jiffies \in Reading /\ ready \in SUBSET Server
    BY DEF TypeInv, TypeOK, QueueInv, Reading
  <2>2. age' \in [Server -> Nat] /\ ready' \in SUBSET Server
    BY <1>3, <1>4, <2>1
  <2> QED
    BY <2>1, <2>2
<1>6. Lag' \in Nat
  BY <1>5, LagType
<1>7. CASE FIRST_RUN
  <2>1. NotStarted
    BY <1>7 DEF TimeInv
  <2>2. NextDue(step, Period) /\ step.nodes = {}
    BY <1>5, <1>7, <2>1, FirstStepDue DEF NotStarted
  <2>3. PICK e : e = Period
    OBVIOUS
  <2>4. ASSUME NEW s \in Server
        PROVE  e[s] = SERVERS[s].period /\ e[s] \in Nat \ {0} /\ age'[s] = 0
    BY <1>4, <1>5, <2>1, <2>3, ParamsType DEF Period, NotStarted
  <2>5. e \in [Server -> Nat \ {0}] /\ Spread(e)
    <3>1. e \in [Server -> Nat \ {0}]
      BY <2>3, <2>4 DEF Period
    <3>2. ASSUME NEW s \in Server, NEW t \in Server
          PROVE  e[s] - e[t] < SERVERS[s].period
      <4>1. /\ e[s] = SERVERS[s].period /\ e[s] \in Nat \ {0}
            /\ e[t] \in Nat \ {0}
        BY <2>4
      <4> QED
        BY <4>1
    <3> QED
      BY <3>1, <3>2 DEF Spread
  <2>6. ASSUME NEW s \in Server
        PROVE  /\ e[s] + age'[s] >= SERVERS[s].period
               /\ e[s] + age'[s] = SERVERS[s].period
               /\ e[s] <= SERVERS[s].period + Lag'
    <3>1. /\ e[s] = SERVERS[s].period /\ e[s] \in Nat /\ age'[s] = 0
      BY <2>4
    <3>2. e[s] + age'[s] = e[s]
      BY <3>1
    <3> QED
      BY <1>6, <3>1, <3>2
  <2>7. NewDistances(e)
    BY <2>5, <2>6 DEF NewDistances
  <2>8. ReleasedServer(step) = timer.server
    BY <2>2, FS_EmptySet DEF ReleasedServer
  <2>9. Arms(step, e)
    BY <1>2, <1>4, <1>5, <2>2, <2>3, <2>7 DEF Arms
  <2>10. Picked(RS)
    <3>1. RS = {timer.server}
      BY <1>1, <2>2 DEF ReleasedServers
    <3>2. ready = Server \ {timer.server}
      BY <1>7 DEF HeadInv, FirstRunInv
    <3>3. RS = Server \ ready
      BY <1>3, <3>1, <3>2
    <3> QED
      BY <1>4, <1>7, <3>3 DEF Picked
  <2> QED
    BY <1>1, <1>3, <1>4, <2>8, <2>9, <2>10 DEF Entered
<1>8. CASE ~FIRST_RUN
  <2>1. PICK d : d = TimesIn(relq)
    OBVIOUS
  <2>2. /\ Found(d) /\ timer.server \in DueNow(d)
        /\ Newest(relq, timer.server)
    BY <1>8, <2>1, DueTells
  <2>3. /\ NextDue(step, Again(d)) /\ step.nodes = DueNow(d)
        /\ RS = DueNow(d)
    BY <1>1, <1>8, <2>2, LaterStepDue DEF Found
  <2>4. NewDistances(Again(d))
    BY <1>4, <1>6, <2>2, <2>3, DistancesAfter
  <2>5. ReleasedServer(step) \in RS
    BY <1>3, <2>3 DEF ReleasedServer
  <2>6. Arms(step, Again(d))
    BY <1>2, <1>4, <1>5, <2>3, <2>4 DEF Arms
  <2>7. Picked(RS)
    BY <1>4, <1>8, <2>1, <2>3 DEF Picked
  <2> QED
    BY <1>1, <1>3, <1>4, <2>5, <2>6, <2>7 DEF Entered
<1> QED
  BY <1>5, <1>7, <1>8

\* A budget that was refilled, or not, is charged for the run that ended.
LEMMA WaitingBudgeted ==
  ASSUME Measurable, TypeInv, HeadInv, TimeInv,
         NEW step, NEW e, NEW RS, Entered(step, e, RS),
         NEW s \in Server, ~running'[s],
         remain_budget'[s] =
           Refilled(RS)[s] - (IF running[s] THEN Ran(s) ELSE 0)
  PROVE  Budgeted(s)'
<1>1. PICK b, u, r, l : /\ b = SERVERS[s].budget /\ u = used[s]
                        /\ r = remain_budget[s] /\ l = MaxLate
  OBVIOUS
<1>2. b \in Nat \ {0} /\ u \in Nat /\ r \in Int /\ l \in Nat
  BY <1>1, TimeTypes
<1>3. PICK base, u2 : /\ base = Refilled(RS)[s] /\ u2 = used'[s]
  OBVIOUS
<1>4. /\ base = IF s \in RS THEN b ELSE r
      /\ u2 = IF s \in RS THEN 0 ELSE u
      /\ SERVERS'[s].budget = b
      /\ s \in ready' <=> s \in ready \/ s \in RS
  BY <1>1, <1>3 DEF Entered, Arms, Refilled
<1>5. /\ Budgeted(s)
      /\ running[s] => /\ ~FIRST_RUN /\ s \in ready /\ Clock
                       /\ timer.handler \in {"release", "complete"}
  BY AllBudgeted
<1>6. r <= b
  BY <1>1, <1>5 DEF Budgeted
<1>7. CASE ~running[s]
  <2>1. remain_budget'[s] = base
    BY <1>2, <1>3, <1>4, <1>7
  <2>2. /\ s \notin ready => u <= b + 2 * l
        /\ s \in ready => r >= 1 - l /\ u + r <= b
    BY <1>1, <1>5, <1>7 DEF Budgeted
  <2>3. /\ base <= b
        /\ s \notin ready' => u2 <= b + 2 * l
        /\ s \in ready' => base >= 1 - l /\ u2 + base <= b
    BY <1>2, <1>4, <1>6, <2>2
  <2> QED
    BY <1>1, <1>3, <1>4, <2>1, <2>3 DEF Budgeted
<1>8. CASE running[s]
  <2>1. PICK left, ran : left = Left(s) /\ ran = Ran(s)
    OBVIOUS
  <2>2. Served(s) /\ timer.handler = "release" /\ s \in ready
    BY <1>5, <1>8 DEF Budgeted, Entered
  <2>3. /\ left \in Int /\ ran \in Nat /\ left + ran <= r
        /\ u + r - ran <= b /\ left >= 1 - l
    <3>1. /\ left \in Int /\ Rest \in Int /\ Rest >= -l /\ left > Rest
      BY <1>1, <1>5, <1>8, <2>1, <2>2, LeftBounds
    <3>2. left >= 1 - l
      BY <1>2, <3>1
    <3> QED
      BY <1>1, <2>1, <2>2, <3>1, <3>2 DEF Served
  <2>4. remain_budget'[s] = base - ran
    BY <1>3, <1>8, <2>1
  <2>5. base - ran <= b /\ base - ran >= 1 - l /\ u2 + (base - ran) <= b
    BY <1>2, <1>4, <1>6, <2>3
  <2> QED
    BY <1>1, <1>3, <1>4, <2>2, <2>4, <2>5 DEF Budgeted
<1> QED
  BY <1>7, <1>8

\* The queue that a handler leaves has every server.
LEMMA QueueAfter ==
  ASSUME TypeInv', SERVERS' = SERVERS
  PROVE  HasEveryServer(relq')
<1>1. (\A s \in Server : SERVERS[s].period <= Wrap(relq))'
  BY DEF TypeInv, QueueInv, HasEveryServer
<1>2. \A s \in Server : SERVERS[s].period <= Wrap(relq')
  BY <1>1 DEF Wrap
<1>3. Sound(relq') /\ Held(relq') = Server
  BY DEF TypeInv, QueueInv, HasEveryServer
<1> QED
  BY <1>2, <1>3 DEF HasEveryServer

\* The released server r runs, whether the core was idle or another server ran.
Starts(step, RS, r) ==
  /\ r = ReleasedServer(step) /\ ~running[r] /\ running'[r]
  /\ StartServer(r, SERVERS[r].budget)
  /\ SetTimer(step.queue, step.node, step.relative, r, SERVERS[r].budget,
              After(jiffies, SERVERS[r].budget))
  /\ \A s \in Server : remain_budget'[s] =
       Refilled(RS)[s] - (IF running[s] THEN Ran(s) ELSE 0)

\* The running server goes on with what it has left.
GoesOn(step, RS, head) ==
  /\ head \in ready /\ running[head]
  /\ SetTimer(step.queue, step.node, step.relative, head, Left(head),
              budget_expiration_time[head])
  /\ remain_budget' = Refilled(RS)
  /\ UNCHANGED <<running, budget_expiration_time, timestamp>>

LEMMA ReleaseStarts ==
  ASSUME Measurable, TypeInv, TypeInv', HeadInv, HeadInv', TimeInv,
         NEW step, NEW e, NEW RS, Entered(step, e, RS),
         NEW r, Starts(step, RS, r)
  PROVE  TimeInv' /\ Left(r)' = SERVERS[r].budget /\ Ran(r)' = 0
<1>1. /\ r \in RS /\ r \in Server /\ jiffies \in Reading /\ jiffies' = jiffies
      /\ ~FIRST_RUN' /\ r \in ready' /\ Arms(step, e) /\ HasEveryServer(relq')
  <2>1. HasEveryServer(relq')
    BY QueueAfter DEF Entered, Arms
  <2> QED
    BY <2>1 DEF Entered, Arms, Starts
<1>2. PICK b : b = SERVERS[r].budget
  OBVIOUS
<1>3. /\ b \in Nat \ {0} /\ b \in Int /\ Near(b) /\ b >= 1 - MaxLate
  <2>1. /\ b \in Nat \ {0} /\ 2 * (b + 3 * MaxLate) < JIFFIES_MOD
        /\ MaxLate \in Nat /\ JIFFIES_MOD \in Nat
    BY <1>1, <1>2, TimeTypes
  <2> QED
    BY <2>1 DEF Near
<1>4. SetTimer(step.queue, step.node, step.relative, r, b, After(jiffies, b))
  BY <1>2 DEF Starts
<1>5. Clock' /\ TimerServes(b)'
  BY <1>1, <1>3, <1>4, SetTimerClock
<1>6. ASSUME NEW s \in Server, s # r
      PROVE  Budgeted(s)'
  <2>1. ~running'[s]
    <3>1. running'[r]
      BY DEF Starts
    <3> QED
      BY <1>1, <1>6, <3>1 DEF HeadInv, RunningIsHead
  <2>2. remain_budget'[s] =
           Refilled(RS)[s] - (IF running[s] THEN Ran(s) ELSE 0)
    BY DEF Starts
  <2> QED
    BY <2>1, <2>2, WaitingBudgeted
<1>7. Budgeted(r)' /\ Left(r)' = b /\ Ran(r)' = 0
  <2>1. remain_budget'[r] = b /\ used'[r] = 0 /\ SERVERS'[r].budget = b
    <3>1. Refilled(RS)[r] = b
      BY <1>1, <1>2 DEF Refilled
    <3>2. used'[r] = 0 /\ SERVERS'[r].budget = b
      BY <1>1, <1>2 DEF Entered, Arms
    <3>3. remain_budget'[r] = b - 0
      BY <1>1, <3>1 DEF Starts
    <3> QED
      BY <1>3, <3>2, <3>3
  <2>2. budget_expiration_time'[r] = After(jiffies, b) /\ timestamp'[r] = jiffies
    BY <1>1, <1>2 DEF Starts, StartServer, TypeInv, TypeOK
  <2>3. /\ remain_budget'[r] \in Int /\ used'[r] \in Nat
        /\ b <= remain_budget'[r]
        /\ used'[r] + remain_budget'[r] <= SERVERS'[r].budget
    BY <1>3, <2>1
  <2>4. Served(r)' /\ Left(r)' = b /\ Ran(r)' = 0
    BY <1>1, <1>3, <1>5, <2>2, <2>3, StartServed
  <2> QED
    BY <1>1, <1>3, <2>1, <2>4 DEF Budgeted
<1> QED
  BY <1>1, <1>2, <1>5, <1>6, <1>7 DEF TimeInv

LEMMA ReleaseGoesOn ==
  ASSUME Measurable, TypeInv, TypeInv', HeadInv, HeadInv', TimeInv,
         NEW step, NEW e, NEW RS, Entered(step, e, RS),
         NEW head, GoesOn(step, RS, head)
  PROVE  TimeInv'
<1>0. /\ head \in ready /\ running[head] /\ running' = running
      /\ SetTimer(step.queue, step.node, step.relative, head, Left(head),
                  budget_expiration_time[head])
      /\ remain_budget' = Refilled(RS) /\ timestamp' = timestamp
      /\ budget_expiration_time' = budget_expiration_time
  BY DEF GoesOn
<1>1. /\ head \in Server /\ jiffies \in Reading /\ jiffies' = jiffies
      /\ ~FIRST_RUN' /\ head \in ready' /\ Arms(step, e)
      /\ HasEveryServer(relq')
  <2>1. HasEveryServer(relq')
    BY QueueAfter DEF Entered, Arms
  <2>2. ready \in SUBSET Server
    BY DEF TypeInv, TypeOK
  <2> QED
    BY <1>0, <2>1, <2>2 DEF Entered, Arms
<1>2. /\ Budgeted(head) /\ ~FIRST_RUN /\ Clock
      /\ \A s \in Server : running[s] => s = head
  BY <1>0, <1>1, AllBudgeted
<1>3. Served(head) /\ timer.handler = "release"
  BY <1>0, <1>2 DEF Budgeted, Entered
<1>4. PICK left, ran : left = Left(head) /\ ran = Ran(head)
  OBVIOUS
<1>5. /\ left \in Int /\ Near(left) /\ left >= 1 - MaxLate
      /\ budget_expiration_time[head] = After(jiffies, left)
      /\ ran \in Nat /\ 2 * ran < JIFFIES_MOD
      /\ jiffies = After(timestamp[head], ran)
      /\ left + ran <= remain_budget[head]
      /\ used[head] + remain_budget[head] - ran <= SERVERS[head].budget
  <2>1. left \in Int /\ Rest \in Int /\ Rest >= -MaxLate /\ left > Rest
    BY <1>2, <1>3, <1>4, LeftBounds
  <2>2. left >= 1 - MaxLate
    BY <2>1, ServerSchedAssumption
  <2> QED
    BY <1>3, <1>4, <2>1, <2>2 DEF Served
<1>6. SetTimer(step.queue, step.node, step.relative, head, left,
               budget_expiration_time[head])
  BY <1>0, <1>4
<1>7. Clock' /\ TimerServes(left)'
  BY <1>1, <1>5, <1>6, SetTimerClock
<1>8. ASSUME NEW s \in Server, s # head
      PROVE  Budgeted(s)'
  <2>1. ~running[s] /\ ~running'[s]
    BY <1>0, <1>2, <1>8
  <2>2. Refilled(RS)[s] \in Int
    BY RefilledType
  <2>3. remain_budget'[s] =
           Refilled(RS)[s] - (IF running[s] THEN Ran(s) ELSE 0)
    BY <1>0, <2>1, <2>2
  <2> QED
    BY <2>1, <2>3, WaitingBudgeted
<1>9. Budgeted(head)'
  <2>1. PICK b, u, r : /\ b = SERVERS[head].budget /\ u = used[head]
                       /\ r = remain_budget[head]
    OBVIOUS
  <2>2. b \in Nat \ {0} /\ u \in Nat /\ r \in Int /\ r <= b
    BY <1>1, <1>2, <2>1, TimeTypes DEF Budgeted
  <2>3. PICK r2, u2 : r2 = remain_budget'[head] /\ u2 = used'[head]
    OBVIOUS
  <2>4. /\ r2 = IF head \in RS THEN b ELSE r
        /\ u2 = IF head \in RS THEN 0 ELSE u
        /\ SERVERS'[head].budget = b
    BY <1>0, <1>1, <2>1, <2>3 DEF Entered, Arms, Refilled
  <2>5. r2 <= b /\ left + ran <= r2 /\ u2 + r2 - ran <= b
    BY <1>5, <2>1, <2>2, <2>4
  <2>6. Left(head)' = left /\ Ran(head)' = ran
    BY <1>0, <1>1, <1>4 DEF Left, Ran
  <2>7. TimerServes(Left(head))'
    BY <1>7, <2>6 DEF TimerServes
  <2>8. Near(Left(head))'
    BY <1>5, <2>6 DEF Near
  <2>9. Served(head)'
    BY <1>0, <1>1, <1>5, <2>3, <2>4, <2>5, <2>6, <2>7, <2>8 DEF Served
  <2> QED
    BY <1>0, <1>1, <2>3, <2>4, <2>5, <2>9 DEF Budgeted
<1> QED
  BY <1>1, <1>7, <1>8, <1>9 DEF TimeInv

\* What the release handler does: it releases servers and starts one of them,
\* or the running one goes on.
LEMMA ReleaseCases ==
  ASSUME Measurable, TypeInv, TypeInv', HeadInv, HeadInv', TimeInv,
         server_release_handler
  PROVE  \E step, e, RS :
           /\ Entered(step, e, RS) /\ Picked(RS)
           /\ (\E r : Starts(step, RS, r)) \/ (\E head : GoesOn(step, RS, head))
<1>1. PICK step : step = ReleaseStep
  OBVIOUS
<1>2. \/ ReleaseWhenIdle(step)
      \/ ReleasePreempts(step)
      \/ ReleaseNoResched(step)
  BY <1>1 DEF server_release_handler
<1>3. EnterRelease(step)
  BY <1>2 DEF ReleaseWhenIdle, ReleasePreempts, ReleaseNoResched
<1>4. PICK RS : RS = ReleasedServers(step)
  OBVIOUS
<1>5. Picked(RS) /\ \E e : Entered(step, e, RS)
  BY <1>1, <1>3, <1>4, ReleaseEntered DEF server_release_handler
<1>6. PICK e : Entered(step, e, RS)
  BY <1>5
<1>7. PICK r, head : r = ReleasedServer(step) /\ head = BitmapGet(ready)
  OBVIOUS
<1>8. /\ r \in Server /\ SERVERS \in ServerParams /\ ready \in SUBSET Server
      /\ running \in [Server -> BOOLEAN]
      /\ \A s \in Server : running[s] => s \in ready /\ s = head
  BY <1>6, <1>7, AllBudgeted DEF Entered, Arms, TypeInv, TypeOK
<1>9. \A s \in Server : Refilled(RS)[s] \in Int
  BY RefilledType
<1>10. CASE ReleaseWhenIdle(step)
  <2>1. /\ ready = {} /\ remain_budget' = Refilled(RS)
        /\ running' = [running EXCEPT ![r] = TRUE]
        /\ StartServer(r, SERVERS[r].budget)
        /\ SetTimer(step.queue, step.node, step.relative, r, SERVERS[r].budget,
                    After(jiffies, SERVERS[r].budget))
    BY <1>4, <1>7, <1>10 DEF ReleaseWhenIdle
  <2>2. \A s \in Server : ~running[s]
    BY <1>8, <2>1
  <2>3. \A s \in Server : remain_budget'[s] =
          Refilled(RS)[s] - (IF running[s] THEN Ran(s) ELSE 0)
    BY <1>9, <2>1, <2>2
  <2>4. ~running[r] /\ running'[r]
    BY <1>8, <2>1, <2>2
  <2>5. /\ StartServer(r, SERVERS[r].budget)
        /\ SetTimer(step.queue, step.node, step.relative, r, SERVERS[r].budget,
                    After(jiffies, SERVERS[r].budget))
    BY <2>1
  <2> QED
    BY <1>5, <1>6, <1>7, <2>3, <2>4, <2>5 DEF Starts
<1>11. CASE ReleasePreempts(step)
  <2>1. /\ ready # {}
        /\ SERVERS[r].priority < SERVERS[head].priority
        /\ remain_budget' = [Refilled(RS) EXCEPT ![head] =
             IF running[head] THEN @ - Ran(head) ELSE @]
        /\ running' = [running EXCEPT ![head] = FALSE, ![r] = TRUE]
        /\ StartServer(r, SERVERS[r].budget)
        /\ SetTimer(step.queue, step.node, step.relative, r, SERVERS[r].budget,
                    After(jiffies, SERVERS[r].budget))
    BY <1>4, <1>7, <1>11 DEF ReleasePreempts, Preempts, Ran
  <2>2. head \in Server
    BY <1>7, <1>8, <2>1, BitmapGetProperty
  <2>3. r # head
    BY <1>8, <2>1, ParamsType
  <2>4. \A s \in Server : remain_budget'[s] =
          Refilled(RS)[s] - (IF running[s] THEN Ran(s) ELSE 0)
    <3>1. Refilled(RS) \in [Server -> Int]
      BY RefilledType
    <3> SUFFICES ASSUME NEW s \in Server
                 PROVE  remain_budget'[s] =
                          Refilled(RS)[s] - (IF running[s] THEN Ran(s) ELSE 0)
      OBVIOUS
    <3>2. CASE s = head
      BY <1>9, <2>1, <2>2, <3>1, <3>2
    <3>3. CASE s # head
      BY <1>8, <1>9, <2>1, <2>2, <3>1, <3>3
    <3> QED
      BY <3>2, <3>3
  <2>5. ~running[r] /\ running'[r]
    BY <1>8, <2>1, <2>3
  <2>6. /\ StartServer(r, SERVERS[r].budget)
        /\ SetTimer(step.queue, step.node, step.relative, r, SERVERS[r].budget,
                    After(jiffies, SERVERS[r].budget))
    BY <2>1
  <2> QED
    BY <1>5, <1>6, <1>7, <2>4, <2>5, <2>6 DEF Starts
<1>12. CASE ReleaseNoResched(step)
  <2>1. /\ ready # {} /\ remain_budget' = Refilled(RS)
        /\ SetTimer(step.queue, step.node, step.relative, head, Left(head),
                    budget_expiration_time[head])
        /\ UNCHANGED <<running, budget_expiration_time, timestamp>>
    BY <1>4, <1>7, <1>12 DEF ReleaseNoResched, Left
  <2>2. head \in ready
    BY <1>7, <1>8, <2>1, BitmapGetProperty
  <2>3. running[head]
    <3>1. /\ ready' \in SUBSET Server /\ ready' # {} /\ SERVERS' = SERVERS
          /\ SERVERS' \in ServerParams /\ ~FIRST_RUN'
      BY <1>6, <2>1 DEF Entered, Arms, TypeInv, TypeOK
    <3>2. BitmapGet(ready)' = BitmapGet(ready')
      BY <3>1 DEF BitmapGet
    <3>3. BitmapGet(ready') \in Server
      BY <1>8, <3>1, BitmapGetProperty
    <3>4. running'[BitmapGet(ready')]
      BY <3>1, <3>2, <3>3 DEF HeadInv, RunningIsHead
    <3> QED
      BY <1>8, <2>1, <3>3, <3>4
  <2> QED
    BY <1>5, <1>6, <2>1, <2>2, <2>3 DEF GoesOn
<1> QED
  BY <1>2, <1>10, <1>11, <1>12

LEMMA TimeRelease ==
  ASSUME Measurable, TypeInv, TypeInv', HeadInv, HeadInv', TimeInv,
         server_release_handler
  PROVE  TimeInv'
<1>1. PICK step, e, RS :
        /\ Entered(step, e, RS)
        /\ (\E r : Starts(step, RS, r)) \/ (\E head : GoesOn(step, RS, head))
  BY ReleaseCases
<1>2. CASE \E r : Starts(step, RS, r)
  BY <1>1, <1>2, ReleaseStarts
<1>3. CASE \E head : GoesOn(step, RS, head)
  BY <1>1, <1>3, ReleaseGoesOn
<1> QED
  BY <1>1, <1>2, <1>3

\* A completion: the running server c leaves the ready queue, what is due is
\* released, and the highest ready server is started, if there is one.
Completes(step, e, RS, c, next) ==
  /\ Arms(step, e)
  /\ RS \subseteq Server /\ c \in ready /\ running[c]
  /\ ~FIRST_RUN /\ ~FIRST_RUN' /\ ready' = (ready \ {c}) \cup RS
  /\ used' = [s \in Server |-> IF s \in RS THEN 0 ELSE used[s]]
  /\ remain_budget' = Refilled(RS)
  /\ \A s \in Server : running'[s] <=> s = next
  /\ next = None => Idle(step)
  /\ next # None =>
       /\ next \in ready'
       /\ StartServer(next, remain_budget'[next])
       /\ SetTimer(step.queue, step.node, step.relative, next,
                   remain_budget'[next], After(jiffies, remain_budget'[next]))

LEMMA CompleteCases ==
  ASSUME Measurable, TypeInv, TypeInv', HeadInv, HeadInv', TimeInv,
         server_complete_handler
  PROVE  \E step, e, RS, c, next : Completes(step, e, RS, c, next) /\ Picked(RS)
<1>1. PICK c : c = timer.server
  OBVIOUS
<1>2. /\ c = BitmapGet(ready) /\ c \in Server /\ ~FIRST_RUN
      /\ TimerDue /\ HasEveryServer(relq)
      /\ SERVERS \in ServerParams /\ jiffies \in Reading
      /\ ready \in SUBSET Server
  BY <1>1 DEF server_complete_handler, HeadInv, CoreAlive, FirstRunInv,
              TypeInv, TypeOK, QueueInv, Reading
<1>3. CompleteServer(c, relq, rem_mem_budget)
  BY <1>1, <1>2 DEF server_complete_handler
<1>4. PICK step : step = CompleteStep(relq)
  OBVIOUS
<1>5. PICK RS, ready2, remain, next :
        /\ RS = step.nodes
        /\ ready2 = (ready \ {c}) \cup RS
        /\ remain = Refilled(RS)
        /\ next = BitmapGet(ready2)
  OBVIOUS
<1>6. /\ ready' = ready2
      /\ Refill(RS, rem_mem_budget)
      /\ remain_budget' = remain
      /\ next = None => Idle(step)
      /\ next # None =>
           /\ StartServer(next, remain[next])
           /\ SetTimer(step.queue, step.node, step.relative, next,
                       remain[next], After(jiffies, remain[next]))
      /\ SERVERS' = SERVERS /\ jiffies' = jiffies /\ ~FIRST_RUN'
  BY <1>2, <1>3, <1>4, <1>5 DEF CompleteServer, static
<1>7. PICK d : d = TimesIn(relq)
  OBVIOUS
<1>8. Found(d)
  BY <1>2, <1>7, DueTells
<1>9. NextDue(step, Again(d)) /\ RS = DueNow(d)
  BY <1>4, <1>5, <1>8, CompleteStepDue DEF Found
<1>10. /\ HasEveryServer(step.queue) /\ step.node \in Server
       /\ RS \subseteq Server
  BY <1>2, <1>4, <1>5, CompleteStepType
<1>11. /\ used' = [s \in Server |-> IF s \in RS THEN 0 ELSE used[s]]
       /\ age' = [s \in Server |-> IF s \in RS THEN 0 ELSE age[s]]
  BY <1>6 DEF Refill
<1>12. ready2 \in SUBSET Server
  BY <1>2, <1>5, <1>10
<1>13. PICK e : e = Again(d)
  OBVIOUS
<1>14. running[c] /\ c \in ready
  <2>1. running[c]
    BY <1>2 DEF HeadInv, RunningIsHead
  <2> QED
    BY <1>2, <2>1, AllBudgeted
<1>15. Arms(step, e)
  <2>1. Lag' \in Nat
    BY <1>6, <1>12, LagType
  <2>2. RS # {} \/ Lag' = Lag + MaxLate
    <3>1. CASE RS = {}
      <4>1. ready' = ready \ {c}
        BY <1>5, <1>6, <3>1
      <4> QED
        BY <1>2, <1>14, <4>1, LagGrows
    <3> QED
      BY <3>1
  <2>3. NewDistances(e)
    BY <1>8, <1>9, <1>11, <1>13, <2>1, <2>2, DistancesAfter
  <2>4. age' \in [Server -> Nat]
    BY DEF TypeInv, TypeOK
  <2> QED
    BY <1>2, <1>6, <1>9, <1>10, <1>13, <2>3, <2>4 DEF Arms
<1>16. \A s \in Server : running'[s] <=> s = next
  <2>1. BitmapGet(ready)' = BitmapGet(ready')
    BY <1>6 DEF BitmapGet
  <2> QED
    BY <1>5, <1>6, <2>1 DEF HeadInv, RunningIsHead
<1>17. next # None => next \in ready'
  BY <1>2, <1>5, <1>6, <1>12, BitmapGetType
<1>18. next # None =>
         /\ StartServer(next, remain_budget'[next])
         /\ SetTimer(step.queue, step.node, step.relative, next,
                     remain_budget'[next], After(jiffies, remain_budget'[next]))
  BY <1>6
<1>19. Completes(step, e, RS, c, next)
  BY <1>2, <1>5, <1>6, <1>10, <1>11, <1>14, <1>15, <1>16, <1>17, <1>18
     DEF Completes
<1>20. Picked(RS)
  BY <1>2, <1>7, <1>9, <1>11 DEF Picked
<1> QED
  BY <1>19, <1>20

\* A completion leaves the server that it completes with what it ran, and runs
\* the next one with what it had left.
LEMMA CompleteStarts ==
  ASSUME Measurable, TypeInv, TypeInv', HeadInv, HeadInv', TimeInv,
         NEW step, NEW e, NEW RS, NEW c, NEW next,
         Completes(step, e, RS, c, next)
  PROVE  /\ TimeInv'
         /\ next # None => /\ Left(next)' = remain_budget'[next]
                           /\ Ran(next)' = 0
<1>1. /\ Arms(step, e) /\ RS \subseteq Server /\ c \in ready /\ running[c]
      /\ ~FIRST_RUN /\ ~FIRST_RUN' /\ ready' = (ready \ {c}) \cup RS
      /\ used' = [s \in Server |-> IF s \in RS THEN 0 ELSE used[s]]
      /\ remain_budget' = Refilled(RS)
      /\ \A s \in Server : running'[s] <=> s = next
      /\ SERVERS' = SERVERS /\ jiffies' = jiffies /\ jiffies \in Reading
      /\ SERVERS \in ServerParams
  BY DEF Completes, Arms
<1>2. HasEveryServer(relq')
  BY <1>1, QueueAfter
<1>3. ready \in SUBSET Server /\ ready' \in SUBSET Server /\ c \in Server
  BY <1>1 DEF TypeInv, TypeOK
<1>4. PICK remain : remain = remain_budget'
  OBVIOUS
<1>5. ASSUME NEW s \in Server
      PROVE  /\ remain[s] <= SERVERS[s].budget /\ remain[s] \in Int
             /\ s \notin ready' =>
                  used'[s] <= SERVERS[s].budget + 2 * MaxLate
             /\ s \in ready' => /\ remain[s] >= 1 - MaxLate
                                /\ used'[s] + remain[s] <= SERVERS[s].budget
  <2>1. PICK b, u, r, l : /\ b = SERVERS[s].budget /\ u = used[s]
                          /\ r = remain_budget[s] /\ l = MaxLate
    OBVIOUS
  <2>2. b \in Nat \ {0} /\ u \in Nat /\ r \in Int /\ l \in Nat
    BY <2>1, TimeTypes
  <2>3. PICK r2, u2 : r2 = remain[s] /\ u2 = used'[s]
    OBVIOUS
  <2>4. /\ r2 = IF s \in RS THEN b ELSE r
        /\ u2 = IF s \in RS THEN 0 ELSE u
        /\ s \in ready' <=> s \in RS \/ (s \in ready /\ s # c)
    BY <1>1, <1>4, <2>1, <2>3 DEF Refilled
  <2>5. /\ Budgeted(s) /\ (running[s] <=> s = c)
        /\ running[s] => Clock /\ timer.handler \in {"release", "complete"}
    BY <1>1, <1>3, AllBudgeted DEF HeadInv, RunningIsHead
  <2>6. CASE s = c
    <3>1. Served(s) /\ r <= b
      BY <2>1, <2>5, <2>6 DEF Budgeted
    <3>2. PICK left, ran : left = Left(s) /\ ran = Ran(s)
      OBVIOUS
    <3>3. /\ left \in Int /\ Rest \in Int /\ left >= Rest - l /\ Rest >= -l
      BY <2>1, <2>5, <2>6, <3>1, <3>2, LeftBounds
    <3>4. /\ ran \in Nat /\ left + ran <= r /\ u + r - ran <= b
      BY <2>1, <3>1, <3>2 DEF Served
    <3>5. left >= -(2 * l)
      BY <2>2, <3>3
    <3>6. u <= b + 2 * l
      BY <2>2, <3>3, <3>4, <3>5
    <3>7. /\ r2 <= b /\ r2 \in Int
          /\ s \notin ready' => u2 <= b + 2 * l
          /\ s \in ready' => r2 >= 1 - l /\ u2 + r2 <= b
      BY <2>2, <2>4, <2>6, <3>1, <3>6
    <3> QED
      BY <2>1, <2>3, <3>7
  <2>7. CASE s # c
    <3>1. /\ r <= b
          /\ s \notin ready => u <= b + 2 * l
          /\ s \in ready => r >= 1 - l /\ u + r <= b
      BY <2>1, <2>5, <2>7 DEF Budgeted
    <3>2. /\ r2 <= b /\ r2 \in Int
          /\ s \notin ready' => u2 <= b + 2 * l
          /\ s \in ready' => r2 >= 1 - l /\ u2 + r2 <= b
      BY <2>2, <2>4, <2>7, <3>1
    <3> QED
      BY <2>1, <2>3, <3>2
  <2> QED
    BY <2>6, <2>7
<1>6. ASSUME NEW s \in Server, s # next
      PROVE  Budgeted(s)'
  BY <1>1, <1>4, <1>5, <1>6 DEF Budgeted
<1>7. CASE next = None
  <2>1. Idle(step)
    BY <1>7 DEF Completes
  <2>2. Clock'
    BY <1>1, <1>2, <2>1, IdleClock
  <2>3. \A s \in Server : s # next
    BY <1>7, ServerSchedAssumption
  <2> QED
    BY <1>1, <1>6, <1>7, <2>2, <2>3 DEF TimeInv
<1>8. CASE next # None
  <2>1. PICK b : b = remain[next]
    OBVIOUS
  <2>2. /\ next \in ready' /\ StartServer(next, b)
        /\ SetTimer(step.queue, step.node, step.relative, next, b,
                    After(jiffies, b))
    BY <1>4, <1>8, <2>1 DEF Completes
  <2>3. /\ next \in Server
        /\ b \in Int /\ b >= 1 - MaxLate /\ b <= SERVERS[next].budget
        /\ used'[next] + b <= SERVERS[next].budget
    BY <1>3, <1>5, <2>1, <2>2
  <2>4. Near(b)
    <3>1. /\ SERVERS[next].budget \in Nat
          /\ 2 * (SERVERS[next].budget + 3 * MaxLate) < JIFFIES_MOD
          /\ MaxLate \in Nat /\ JIFFIES_MOD \in Nat
      BY <2>3, TimeTypes
    <3> QED
      BY <2>3, <3>1 DEF Near
  <2>5. Clock' /\ TimerServes(b)'
    BY <1>1, <1>2, <2>2, <2>3, <2>4, SetTimerClock
  <2>6. /\ budget_expiration_time'[next] = After(jiffies, b)
        /\ timestamp'[next] = jiffies
    BY <2>2, <2>3 DEF StartServer, TypeInv, TypeOK
  <2>7. /\ remain_budget'[next] = b /\ remain_budget'[next] \in Int
        /\ b <= remain_budget'[next] /\ used'[next] \in Nat
        /\ used'[next] + remain_budget'[next] <= SERVERS'[next].budget
        /\ remain_budget'[next] <= SERVERS'[next].budget
    <3>1. used'[next] \in Nat
      BY <2>3 DEF TypeInv, TypeOK
    <3> QED
      BY <1>1, <1>4, <2>1, <2>3, <3>1
  <2>8. b \in Int
    BY <2>3
  <2>9. Served(next)' /\ Left(next)' = b /\ Ran(next)' = 0
    BY <1>1, <2>4, <2>5, <2>6, <2>7, <2>8, StartServed
  <2>10. Budgeted(next)'
    BY <1>1, <2>2, <2>3, <2>7, <2>9 DEF Budgeted
  <2> QED
    BY <1>1, <1>4, <1>6, <2>1, <2>5, <2>9, <2>10 DEF TimeInv
<1> QED
  BY <1>7, <1>8

LEMMA TimeComplete ==
  ASSUME Measurable, TypeInv, TypeInv', HeadInv, HeadInv', TimeInv,
         server_complete_handler
  PROVE  TimeInv'
  BY CompleteCases, CompleteStarts

\* What the invariant says is not about memory budgets.
LEMMA TimeUnchanged ==
  ASSUME TimeInv,
         UNCHANGED <<SERVERS, jiffies, FIRST_RUN, ready, relq, timer, running,
                     remain_budget, budget_expiration_time, timestamp,
                     used, age>>
  PROVE  TimeInv'
<1>1. Period' = Period /\ Lag' = Lag /\ Rest' = Rest
  BY DEF Period, Lag, Rest
<1>2. NotStarted => NotStarted'
  BY <1>1 DEF NotStarted
<1>3. Clock => Clock'
  <2>1. PICK d : d = TimesIn(relq)
    OBVIOUS
  <2>2. Spread(d)' <=> Spread(d)
    BY DEF Spread
  <2>3. ClockAt(d) => ClockAt(d)'
    BY <1>1, <2>2 DEF ClockAt
  <2>4. TimesIn(relq') = d
    BY <2>1
  <2> QED
    BY <2>1, <2>3, <2>4 DEF Clock
<1>4. ASSUME NEW s \in Server, Budgeted(s)
      PROVE  Budgeted(s)'
  <2>1. /\ Left(s)' = Left(s) /\ Ran(s)' = Ran(s)
        /\ TimerServes(Left(s))' <=> TimerServes(Left(s))
        /\ Near(Left(s))' <=> Near(Left(s))
    BY DEF Left, Ran, TimerServes, Rest, Near
  <2>2. Served(s)' <=> Served(s)
    BY <2>1 DEF Served
  <2> QED
    BY <1>4, <2>2 DEF Budgeted
<1> QED
  BY <1>2, <1>3, <1>4 DEF TimeInv

LEMMA TimeNext ==
  ASSUME Measurable, TypeInv, HeadInv, TimeInv, [Next]_vars
  PROVE  TimeInv'
<1>1. TypeInv' /\ HeadInv'
  BY TypeNext, HeadNext DEF NoStrayMiss, Measurable
<1>2. CASE Tick
  BY <1>2, TimeTick
<1>3. CASE server_release_handler
  BY <1>1, <1>3, TimeRelease
<1>4. CASE server_complete_handler
  BY <1>1, <1>4, TimeComplete
<1>5. ASSUME NEW s \in Server, CacheMiss(s)
      PROVE  TimeInv'
  BY <1>5, TimeUnchanged DEF CacheMiss, static, queues, history
<1>6. ASSUME NEW s \in Server, MemoryOverflow(s) \/ StrayMiss(s)
      PROVE  FALSE
  BY <1>6 DEF MemoryOverflow, StrayMiss, Depletes, Measurable
<1>7. CASE UNCHANGED vars
  BY <1>7, TimeUnchanged DEF vars, static, queues, account, history
<1> QED
  BY <1>2, <1>3, <1>4, <1>5, <1>6, <1>7 DEF Next

LEMMA TimeAlways ==
  ASSUME Measurable
  PROVE  Spec => [](TypeInv /\ HeadInv /\ TimeInv)
<1>1. Init => TypeInv /\ HeadInv /\ TimeInv
  BY TypeInit, HeadInit, TimeInit
<1>2. TypeInv /\ HeadInv /\ TimeInv /\ [Next]_vars
        => TypeInv' /\ HeadInv' /\ TimeInv'
  BY TypeNext, HeadNext, TimeNext DEF NoStrayMiss, Measurable
<1> QED
  BY <1>1, <1>2, PTL DEF Spec

----------------------------------------------------------------------------
(* What follows.                                                           *)
\* No server runs longer between two of its releases than its budget and twice
\* what a softirq may be late, however often it is preempted and resumed, for
\* every bound on the lateness of softirqs.
THEOREM BudgetRespected ==
  ASSUME Measurable
  PROVE  Spec => []BudgetBound
<1>1. TypeInv /\ HeadInv /\ TimeInv => BudgetBound
  <2> SUFFICES ASSUME TypeInv, HeadInv, TimeInv, NEW s \in Server
               PROVE  used[s] <= SERVERS[s].budget + 2 * MaxLate
    BY DEF BudgetBound
  <2>1. PICK b, u, r, l : /\ b = SERVERS[s].budget /\ u = used[s]
                          /\ r = remain_budget[s] /\ l = MaxLate
    OBVIOUS
  <2>2. b \in Nat /\ u \in Nat /\ r \in Int /\ l \in Nat
    BY <2>1, TimeTypes
  <2>3. /\ Budgeted(s)
        /\ running[s] => Clock /\ timer.handler \in {"release", "complete"}
    BY AllBudgeted
  <2>4. CASE running[s]
    <3>1. PICK left, ran : left = Left(s) /\ ran = Ran(s)
      OBVIOUS
    <3>2. Served(s)
      BY <2>3, <2>4 DEF Budgeted
    <3>3. left \in Int /\ Rest \in Int /\ left >= Rest - l /\ Rest >= -l
      BY <2>1, <2>3, <2>4, <3>1, <3>2, LeftBounds
    <3>4. ran \in Nat /\ left + ran <= r /\ u + r - ran <= b
      BY <2>1, <3>1, <3>2 DEF Served
    <3>5. left >= -(2 * l)
      BY <2>2, <3>3
    <3>6. u <= b + 2 * l
      BY <2>2, <3>3, <3>4, <3>5
    <3> QED
      BY <2>1, <3>6
  <2>5. CASE ~running[s]
    <3>1. u <= b + 2 * l \/ (r >= 1 - l /\ u + r <= b)
      BY <2>1, <2>3, <2>5 DEF Budgeted
    <3>2. u <= b + 2 * l
      BY <2>2, <3>1
    <3> QED
      BY <2>1, <3>2
  <2> QED
    BY <2>4, <2>5
<1> QED
  BY <1>1, TimeAlways, PTL

\* A step that releases a server, whichever handler it is of, finds it due in
\* the release queue.
LEMMA ReleasedWhenDue ==
  ASSUME Measurable, TypeInv, HeadInv, TimeInv, [Next]_vars,
         NEW s \in Server, age'[s] < age[s]
  PROVE  \E d : Found(d) /\ d[s] = 0
<1>1. age \in [Server -> Nat]
  BY DEF TypeInv, TypeOK
<1>2. CASE Tick
  <2>1. FIRST_RUN => age[s] = 0
    BY DEF TimeInv, NotStarted
  <2>2. age'[s] = IF FIRST_RUN THEN 0 ELSE age[s] + 1
    BY <1>2 DEF Tick
  <2> QED
    BY <1>1, <2>1, <2>2
<1>3. TypeInv' /\ HeadInv'
  BY TypeNext, HeadNext DEF NoStrayMiss, Measurable
<1>4. PICK d : d = TimesIn(relq)
  OBVIOUS
<1>5. ASSUME NEW RS, Picked(RS), TimerDue
      PROVE  Found(d) /\ d[s] = 0
  <2>1. s \in RS /\ age'[s] = 0
    BY <1>1, <1>5 DEF Picked
  <2>2. ~FIRST_RUN
    <3>1. FIRST_RUN => age[s] = 0
      BY DEF TimeInv, NotStarted
    <3> QED
      BY <1>1, <2>1, <3>1
  <2>3. Found(d)
    BY <1>4, <1>5, <2>2, DueTells
  <2>4. s \in DueNow(d)
    BY <1>4, <1>5, <2>1, <2>2 DEF Picked
  <2> QED
    BY <2>3, <2>4 DEF DueNow
<1>6. CASE server_release_handler \/ server_complete_handler
  <2>1. TimerDue
    BY <1>6 DEF server_release_handler, server_complete_handler
  <2>2. \E RS : Picked(RS)
    BY <1>3, <1>6, ReleaseCases, CompleteCases
  <2> QED
    BY <1>5, <2>1, <2>2
<1>7. CASE \E t \in Server : CacheMiss(t)
  BY <1>1, <1>7 DEF CacheMiss, history
<1>8. CASE \E t \in Server : MemoryOverflow(t) \/ StrayMiss(t)
  BY <1>8 DEF MemoryOverflow, StrayMiss, Depletes, Measurable
<1>9. CASE UNCHANGED vars
  BY <1>1, <1>9 DEF vars, history
<1> QED
  BY <1>2, <1>6, <1>7, <1>8, <1>9 DEF Next

LEMMA PeriodOver ==
  ASSUME Measurable, TypeInv, HeadInv, TimeInv, [Next]_vars,
         NEW s \in Server, age'[s] < age[s]
  PROVE  /\ age[s] >= SERVERS[s].period
         /\ MaxLate = 0 => age[s] = SERVERS[s].period
<1>1. PICK d : Found(d) /\ d[s] = 0
  BY ReleasedWhenDue
<1>2. age[s] \in Nat
  BY TimeTypes
<1>3. 0 + age[s] = age[s]
  BY <1>2
<1> QED
  BY <1>1, <1>3 DEF Found

\* A server that was stopped waits for its new period, whichever handler
\* releases it and however late softirqs are.
THEOREM NewPeriodAwaited ==
  ASSUME Measurable
  PROVE  Spec => WaitsForNewPeriod
<1>1. TypeInv /\ HeadInv /\ TimeInv /\ [Next]_vars
        => [\A s \in Server : age'[s] < age[s] => age[s] >= SERVERS[s].period]_vars
  BY PeriodOver
<1> QED
  BY <1>1, TimeAlways, PTL DEF Spec, WaitsForNewPeriod

\* With softirqs on time, a server is released exactly when its period is over.
THEOREM ReleasesOnPeriod ==
  ASSUME Measurable, MaxLate = 0
  PROVE  Spec => ReleasedOnPeriod
<1>1. TypeInv /\ HeadInv /\ TimeInv /\ [Next]_vars
        => [\A s \in Server : age'[s] < age[s] => age[s] = SERVERS[s].period]_vars
  BY PeriodOver
<1> QED
  BY <1>1, TimeAlways, PTL DEF Spec, ReleasedOnPeriod

\* With softirqs on time, each server has one node in the release queue, at the
\* instant one period after its last release, for all periods, in whatever
\* round and bitmap, and however often the counter of jiffies wraps.
THEOREM ReleasesExact ==
  ASSUME Measurable, MaxLate = 0
  PROVE  Spec => []ReleaseQueueExact
<1>1. TypeInv /\ TimeInv => ReleaseQueueExact
  <2> SUFFICES ASSUME TypeInv, TimeInv, ~FIRST_RUN, NEW s \in Server
               PROVE  Instants(relq, s)
                        = {VirtualNow + SERVERS[s].period - age[s]}
    BY DEF ReleaseQueueExact
  <2>1. PICK d, v, rest, p, a :
          /\ d = TimesIn(relq) /\ v = relq.virtual_time /\ rest = Rest
          /\ p = SERVERS[s].period /\ a = age[s]
    OBVIOUS
  <2>2. ClockAt(d)
    BY <2>1 DEF TimeInv, Clock
  <2>3. s \in Held(relq) /\ Timed(relq, d) /\ d \in [Server -> Nat]
    BY <2>2 DEF ClockAt, TypeInv, QueueInv, HasEveryServer
  <2>4. Instants(relq, s) = {v + d[s]}
    BY <2>1, <2>3, TimedInstants
  <2>5. /\ v \in Int /\ rest \in Int /\ p \in Int /\ a \in Int /\ d[s] \in Int
    <3>1. IsRelPq(relq)
      BY DEF TypeInv, TypeOK
    <3>2. v \in Int
      BY <2>1, <3>1 DEF IsRelPq
    <3>3. rest \in Int
      BY <2>1, <2>2 DEF ClockAt, Near
    <3> QED
      BY <2>1, <2>3, <3>2, <3>3, TimeTypes
  <2>6. d[s] + rest + a = p /\ VirtualNow = v - rest
    BY <2>1, <2>2 DEF ClockAt, VirtualNow, Rest
  <2>7. v + d[s] = (v - rest) + p - a
    BY <2>5, <2>6
  <2> QED
    BY <2>1, <2>4, <2>6, <2>7
<1> QED
  BY <1>1, TimeAlways, PTL

----------------------------------------------------------------------------
(* The abstract periodic servers of FPServers, jiffy for jiffy, for servers *)
(* that do not overrun, with softirqs on time.                              *)

\* One step of the abstract servers that is no overload.
PeriodicStep == [FP!Serve \/ FP!Release]_(FP!vars)

\* A server that is due has used its budget up.
NoOverrun == \A s \in Server : UntilRelease[s] = 0 => LeftBudget[s] = 0

\* What a server ran since it started and what it has left make up the budget
\* it started with.
ServedExactly ==
  \A s \in Server : running[s] => Left(s) + Ran(s) = remain_budget[s]

\* What the program's state says about the abstract servers.
LEMMA AbstractState ==
  ASSUME Measurable, MaxLate = 0, TypeInv, HeadInv, TimeInv, ~FIRST_RUN
  PROVE  /\ Rest \in Nat /\ (TimerDue => Rest = 0)
         /\ \A s \in Server :
              /\ UntilRelease[s] = SERVERS[s].period - age[s]
              /\ TimesIn(relq)[s] \in Nat
              /\ UntilRelease[s] = TimesIn(relq)[s] + Rest
              /\ LeftBudget[s] = IF s \notin ready THEN 0
                                 ELSE IF running[s] THEN Left(s)
                                                    ELSE remain_budget[s]
              /\ s \in ready /\ ~running[s] => remain_budget[s] >= 1
              /\ running[s] =>
                   /\ s \in ready /\ Left(s) \in Int /\ Left(s) >= Rest
                   /\ timer.handler = "complete" => Left(s) = Rest
                   /\ timer.handler = "release" => Left(s) > Rest
<1>1. PICK d : d = TimesIn(relq)
  OBVIOUS
<1>2. ClockAt(d) /\ Clock /\ jiffies \in Reading
  BY <1>1 DEF TimeInv, Clock, TypeInv, TypeOK, Reading
<1>3. Rest \in Nat /\ d \in [Server -> Nat]
  BY <1>2 DEF ClockAt, Near
<1>4. TimerDue => Rest = 0
  BY <1>2, <1>3, DueIsNow
<1>5. ASSUME NEW s \in Server
      PROVE  /\ UntilRelease[s] = SERVERS[s].period - age[s]
             /\ UntilRelease[s] = d[s] + Rest
             /\ LeftBudget[s] = IF s \notin ready THEN 0
                                ELSE IF running[s] THEN Left(s)
                                                   ELSE remain_budget[s]
             /\ s \in ready /\ ~running[s] => remain_budget[s] >= 1
             /\ running[s] =>
                  /\ s \in ready /\ Left(s) \in Int /\ Left(s) >= Rest
                  /\ timer.handler = "complete" => Left(s) = Rest
                  /\ timer.handler = "release" => Left(s) > Rest
  <2>1. UntilRelease[s] = SERVERS[s].period - age[s]
    BY DEF UntilRelease
  <2>2. UntilRelease[s] = d[s] + Rest
    <3>1. PICK x, a, p, rest :
            x = d[s] /\ a = age[s] /\ p = SERVERS[s].period /\ rest = Rest
      OBVIOUS
    <3>2. x \in Nat /\ a \in Nat /\ p \in Nat /\ rest \in Nat
      BY <1>3, <3>1, TimeTypes
    <3>3. x + rest + a = p
      BY <1>2, <3>1 DEF ClockAt
    <3>4. p - a = x + rest
      BY <3>2, <3>3
    <3> QED
      BY <2>1, <3>1, <3>4
  <2>3. LeftBudget[s] = IF s \notin ready THEN 0
                        ELSE IF running[s] THEN Left(s)
                                           ELSE remain_budget[s]
    BY DEF LeftBudget, Left
  <2>4. Budgeted(s)
    BY AllBudgeted
  <2>5. s \in ready /\ ~running[s] => remain_budget[s] >= 1
    <3>1. 1 - MaxLate = 1
      OBVIOUS
    <3> QED
      BY <2>4, <3>1 DEF Budgeted
  <2>6. ASSUME running[s]
        PROVE  /\ s \in ready /\ Left(s) \in Int /\ Left(s) >= Rest
               /\ timer.handler = "complete" => Left(s) = Rest
               /\ timer.handler = "release" => Left(s) > Rest
    <3>1. /\ s \in ready /\ Served(s)
          /\ timer.handler \in {"release", "complete"}
      BY <2>4, <2>6, AllBudgeted DEF Budgeted
    <3>2. PICK left, rest : left = Left(s) /\ rest = Rest
      OBVIOUS
    <3>3. /\ left \in Int /\ rest \in Nat
          /\ left >= rest - MaxLate
          /\ timer.handler = "release" => left > rest
      BY <1>2, <1>3, <3>1, <3>2, LeftBounds
    <3>4. timer.handler = "complete" => left <= rest
      BY <3>1, <3>2 DEF Served, TimerServes
    <3>5. left >= rest /\ (timer.handler = "complete" => left = rest)
      BY <3>3, <3>4
    <3> QED
      BY <3>1, <3>2, <3>3, <3>5
  <2> QED
    BY <2>1, <2>2, <2>3, <2>5, <2>6
<1> QED
  BY <1>1, <1>3, <1>4, <1>5

\* Releasing the servers whose time has come is a step of the abstract ones.
LEMMA ReleasedMaps ==
  ASSUME NEW RS, RS = {s \in Server : UntilRelease[s] = 0}, SERVERS' = SERVERS,
         \A s \in Server :
           /\ LeftBudget'[s] = IF s \in RS THEN SERVERS[s].budget
                                           ELSE LeftBudget[s]
           /\ UntilRelease'[s] = IF s \in RS THEN SERVERS[s].period
                                             ELSE UntilRelease[s]
  PROVE  PeriodicStep
<1>1. /\ LeftBudget' = [s \in Server |-> IF s \in RS THEN SERVERS[s].budget
                                                     ELSE LeftBudget[s]]
      /\ UntilRelease' = [s \in Server |-> IF s \in RS THEN SERVERS[s].period
                                                       ELSE UntilRelease[s]]
  <2>1. /\ LeftBudget' = [s \in Server |-> LeftBudget'[s]]
        /\ UntilRelease' = [s \in Server |-> UntilRelease'[s]]
    BY DEF LeftBudget, UntilRelease
  <2> QED
    BY <2>1
<1>2. CASE RS # {}
  BY <1>1, <1>2 DEF PeriodicStep, FP!Release
<1>3. CASE RS = {}
  <2>1. /\ LeftBudget = [s \in Server |-> LeftBudget[s]]
        /\ UntilRelease = [s \in Server |-> UntilRelease[s]]
    BY DEF LeftBudget, UntilRelease
  <2>2. LeftBudget' = LeftBudget /\ UntilRelease' = UntilRelease
    BY <1>1, <1>3, <2>1
  <2> QED
    BY <2>2 DEF PeriodicStep, FP!vars
<1> QED
  BY <1>2, <1>3

LEMMA PeriodicTick ==
  ASSUME Measurable, MaxLate = 0, TypeInv, HeadInv, TimeInv, ServedExactly,
         Tick
  PROVE  ServedExactly' /\ PeriodicStep
<1>1. /\ SERVERS' = SERVERS /\ FIRST_RUN' = FIRST_RUN /\ ready' = ready
      /\ running' = running /\ remain_budget' = remain_budget
      /\ age' = [s \in Server |-> IF FIRST_RUN THEN 0 ELSE age[s] + 1]
  BY DEF Tick, static, queues, account
<1>2. /\ ~FIRST_RUN => Rest > -MaxLate
      /\ \A s \in Server : running[s] =>
           Left(s)' = Left(s) - 1 /\ Ran(s)' = Ran(s) + 1
  BY TimeTick
<1>3. CASE FIRST_RUN
  <2>1. \A s \in Server : ~running[s]
    BY <1>3 DEF HeadInv, RunningIsHead
  <2>2. ServedExactly'
    BY <1>1, <2>1 DEF ServedExactly
  <2>3. LeftBudget' = LeftBudget /\ UntilRelease' = UntilRelease
    BY <1>1, <1>3 DEF LeftBudget, UntilRelease
  <2> QED
    BY <1>1, <2>2, <2>3 DEF PeriodicStep, FP!vars
<1>4. CASE ~FIRST_RUN
  <2>1. Rest \in Nat /\ Rest > 0
    <3>1. Rest \in Nat
      BY <1>4, AbstractState
    <3>2. PICK l : l = MaxLate
      OBVIOUS
    <3>3. l \in Int /\ l <= 0
      BY <3>2
    <3>4. Rest > -l
      BY <1>2, <1>4, <3>2
    <3> QED
      BY <3>1, <3>3, <3>4
  <2>2. ASSUME NEW s \in Server
        PROVE  /\ UntilRelease[s] > 0
               /\ UntilRelease'[s] = UntilRelease[s] - 1
               /\ LeftBudget[s] > 0 <=> s \in ready
               /\ LeftBudget'[s] = IF running[s] THEN LeftBudget[s] - 1
                                                 ELSE LeftBudget[s]
               /\ running[s] => Left(s)' + Ran(s)' = remain_budget'[s]
    <3>1. /\ UntilRelease[s] = SERVERS[s].period - age[s]
          /\ TimesIn(relq)[s] \in Nat
          /\ UntilRelease[s] = TimesIn(relq)[s] + Rest
          /\ LeftBudget[s] = IF s \notin ready THEN 0
                             ELSE IF running[s] THEN Left(s)
                                                ELSE remain_budget[s]
          /\ s \in ready /\ ~running[s] => remain_budget[s] >= 1
          /\ running[s] => s \in ready /\ Left(s) \in Int /\ Left(s) >= Rest
      BY <1>4, AbstractState
    <3>2. PICK a, p, x : a = age[s] /\ p = SERVERS[s].period
                         /\ x = TimesIn(relq)[s]
      OBVIOUS
    <3>3. /\ a \in Nat /\ p \in Nat /\ remain_budget[s] \in Int
      BY <3>2, TimeTypes
    <3>4. UntilRelease'[s] = p - (a + 1)
      BY <1>1, <1>4, <3>2 DEF UntilRelease
    <3>5. UntilRelease[s] > 0 /\ UntilRelease'[s] = UntilRelease[s] - 1
      <4>1. x + Rest > 0 /\ p - (a + 1) = (p - a) - 1
        BY <2>1, <3>1, <3>2, <3>3
      <4> QED
        BY <3>1, <3>2, <3>4, <4>1
    <3>6. LeftBudget[s] > 0 <=> s \in ready
      BY <2>1, <3>1, <3>3
    <3>7. LeftBudget'[s] = IF s \notin ready THEN 0
                           ELSE IF running[s] THEN Left(s)'
                                              ELSE remain_budget[s]
      BY <1>1, <1>4 DEF LeftBudget, Left
    <3>8. LeftBudget'[s] = IF running[s] THEN LeftBudget[s] - 1
                                         ELSE LeftBudget[s]
      BY <1>2, <3>1, <3>7
    <3>9. running[s] => Left(s)' + Ran(s)' = remain_budget'[s]
      <4>1. ASSUME running[s]
            PROVE  Left(s)' + Ran(s)' = remain_budget'[s]
        <5>1. Left(s) + Ran(s) = remain_budget[s]
          BY <4>1 DEF ServedExactly
        <5>2. Left(s) \in Int /\ Ran(s) \in Nat
          BY <1>4, <3>1, <4>1, AllBudgeted DEF Budgeted, Served
        <5>3. PICK left, ran : left = Left(s) /\ ran = Ran(s)
          OBVIOUS
        <5>4. (left - 1) + (ran + 1) = left + ran
          BY <5>2, <5>3
        <5> QED
          BY <1>1, <1>2, <4>1, <5>1, <5>3, <5>4
      <4> QED
        BY <4>1
    <3> QED
      BY <3>5, <3>6, <3>8, <3>9
  <2>3. ServedExactly'
    BY <1>1, <2>2 DEF ServedExactly
  <2>4. FP!Ready = ready
    <3>1. ready \subseteq Server
      BY DEF TypeInv, TypeOK
    <3> QED
      BY <2>2, <3>1 DEF FP!Ready
  <2>5. ASSUME NEW s \in Server
        PROVE  FP!Runs(s) <=> running[s]
    <3>1. SERVERS \in ServerParams /\ ready \in SUBSET Server
      BY DEF TypeInv, TypeOK
    <3>2. running[s] <=> s = BitmapGet(ready)
      BY <1>4 DEF HeadInv, RunningIsHead
    <3>3. CASE s = BitmapGet(ready)
      <4>1. s \in ready
        BY <3>1, <3>3, BitmapGetType, ServerSchedAssumption
      <4>2. \A t \in ready : SERVERS[s].priority <= SERVERS[t].priority
        BY <3>1, <3>3, <4>1, BitmapGetProperty
      <4> QED
        BY <2>4, <3>2, <3>3, <4>1, <4>2 DEF FP!Runs
    <3>4. CASE s # BitmapGet(ready)
      <4>1. ~(s \in ready
                /\ \A t \in ready : SERVERS[s].priority <= SERVERS[t].priority)
        BY <3>1, <3>4, BitmapGetUnique
      <4> QED
        BY <2>4, <3>2, <3>4, <4>1 DEF FP!Runs
    <3> QED
      BY <3>3, <3>4
  <2>6. UntilRelease' = [s \in Server |-> UntilRelease[s] - 1]
    <3>1. UntilRelease' = [s \in Server |-> UntilRelease'[s]]
      BY DEF UntilRelease
    <3> QED
      BY <2>2, <3>1
  <2>7. LeftBudget' = [s \in Server |-> IF FP!Runs(s)
                                        THEN LeftBudget[s] - 1
                                        ELSE LeftBudget[s]]
    <3>1. LeftBudget' = [s \in Server |-> LeftBudget'[s]]
      BY DEF LeftBudget
    <3>2. \A s \in Server : LeftBudget'[s] = IF FP!Runs(s)
                                             THEN LeftBudget[s] - 1
                                             ELSE LeftBudget[s]
      BY <2>2, <2>5
    <3> QED
      BY <3>1, <3>2
  <2>8. FP!Serve
    BY <1>1, <2>2, <2>6, <2>7 DEF FP!Serve
  <2> QED
    BY <2>3, <2>8 DEF PeriodicStep
<1> QED
  BY <1>3, <1>4

LEMMA PeriodicRelease ==
  ASSUME Measurable, MaxLate = 0, TypeInv, TypeInv', HeadInv, HeadInv',
         TimeInv, ServedExactly, NoOverrun, server_release_handler
  PROVE  ServedExactly' /\ PeriodicStep
<1>1. PICK step, e, RS :
        /\ Entered(step, e, RS) /\ Picked(RS)
        /\ (\E r : Starts(step, RS, r)) \/ (\E head : GoesOn(step, RS, head))
  BY ReleaseCases
<1>2. /\ SERVERS' = SERVERS /\ jiffies' = jiffies
      /\ RS \subseteq Server /\ ~FIRST_RUN' /\ ready' = ready \cup RS
      /\ timer.handler = "release" /\ TimerDue
      /\ age' = [s \in Server |-> IF s \in RS THEN 0 ELSE age[s]]
  BY <1>1 DEF Entered, Arms, Picked, server_release_handler
\* The running server, if any, is not due: it has budget left.
<1>3. ASSUME NEW s \in Server, running[s]
      PROVE  /\ ~FIRST_RUN /\ s \notin RS /\ s \in ready
             /\ LeftBudget[s] = Left(s) /\ Left(s) \in Int
             /\ Left(s) + Ran(s) = remain_budget[s] /\ Ran(s) \in Nat
  <2>1. ~FIRST_RUN /\ s \in ready
    BY <1>3, AllBudgeted
  <2>2. /\ Rest = 0 /\ Left(s) \in Int /\ Left(s) > Rest
        /\ LeftBudget[s] = Left(s)
        /\ TimesIn(relq)[s] \in Nat
        /\ UntilRelease[s] = TimesIn(relq)[s] + Rest
    BY <1>2, <1>3, <2>1, AbstractState
  <2>3. s \notin RS
    <3>1. UntilRelease[s] # 0
      BY <2>1, <2>2 DEF NoOverrun
    <3>2. TimesIn(relq)[s] # 0
      BY <2>2, <3>1
    <3> QED
      BY <1>1, <2>1, <3>2 DEF Picked, DueNow
  <2>4. Ran(s) \in Nat
    BY <1>3, AllBudgeted DEF Budgeted, Served
  <2> QED
    BY <1>3, <2>1, <2>2, <2>3, <2>4 DEF ServedExactly
\* What the servers released have left, and the others.
<1>4. PICK DS : DS = {s \in Server : UntilRelease[s] = 0}
  OBVIOUS
<1>5. ASSUME NEW s \in Server
      PROVE  /\ UntilRelease'[s] = IF s \in DS THEN SERVERS[s].period
                                               ELSE UntilRelease[s]
             /\ s \in RS => s \in DS
             /\ s \in DS /\ s \notin RS =>
                  /\ FIRST_RUN /\ s \in ready
                  /\ remain_budget[s] = SERVERS[s].budget
             /\ s \in ready' /\ s \notin DS => s \in ready /\ ~FIRST_RUN
             /\ s \notin ready' => s \notin DS /\ LeftBudget[s] = 0
  <2>1. PICK p, a : p = SERVERS[s].period /\ a = age[s]
    OBVIOUS
  <2>2. p \in Nat /\ a \in Nat
    BY <2>1, TimeTypes
  <2>3. UntilRelease'[s] = p - (IF s \in RS THEN 0 ELSE a)
    BY <1>2, <2>1 DEF UntilRelease
  <2>4. CASE FIRST_RUN
    <3>1. /\ UntilRelease[s] = 0 /\ LeftBudget[s] = 0
          /\ RS = Server \ ready /\ a = 0
          /\ remain_budget[s] = SERVERS[s].budget
      BY <1>1, <2>1, <2>4
         DEF UntilRelease, LeftBudget, Picked, TimeInv, NotStarted
    <3> QED
      BY <1>2, <1>4, <2>1, <2>2, <2>3, <2>4, <3>1
  <2>5. CASE ~FIRST_RUN
    <3>1. /\ UntilRelease[s] = p - a
          /\ TimesIn(relq)[s] \in Nat /\ UntilRelease[s] = TimesIn(relq)[s] + 0
          /\ s \notin ready => LeftBudget[s] = 0
      BY <1>2, <2>1, <2>5, AbstractState
    <3>2. s \in RS <=> UntilRelease[s] = 0
      <4>1. s \in RS <=> TimesIn(relq)[s] = 0
        BY <1>1, <2>5 DEF Picked, DueNow
      <4> QED
        BY <3>1, <4>1
    <3> QED
      BY <1>2, <1>4, <2>1, <2>2, <2>3, <2>5, <3>1, <3>2
  <2> QED
    BY <2>4, <2>5
<1>6. ASSUME NEW s \in Server
      PROVE  Refilled(RS)[s] = IF s \in RS THEN SERVERS[s].budget
                                           ELSE remain_budget[s]
  BY DEF Refilled
<1>7. ASSUME NEW s \in Server, ~running'[s],
             remain_budget'[s]
               = Refilled(RS)[s] - (IF running[s] THEN Ran(s) ELSE 0)
      PROVE  LeftBudget'[s] = IF s \in DS THEN SERVERS[s].budget
                                          ELSE LeftBudget[s]
  <2>1. LeftBudget'[s] = IF s \in ready' THEN remain_budget'[s] ELSE 0
    BY <1>2, <1>7 DEF LeftBudget
  <2>2. SERVERS[s].budget \in Nat /\ remain_budget[s] \in Int
    BY TimeTypes
  <2>3. CASE running[s]
    <3>1. remain_budget'[s] = remain_budget[s] - Ran(s) /\ s \in ready'
      BY <1>2, <1>3, <1>6, <1>7, <2>3
    <3>2. PICK left, ran : left = Left(s) /\ ran = Ran(s)
      OBVIOUS
    <3>3. left \in Int /\ ran \in Nat /\ left + ran = remain_budget[s]
      BY <1>3, <2>3, <3>2
    <3>4. remain_budget[s] - ran = left
      BY <3>3
    <3>5. s \notin DS /\ LeftBudget[s] = left
      BY <1>3, <1>5, <2>3, <3>2
    <3> QED
      BY <2>1, <3>1, <3>2, <3>4, <3>5
  <2>4. CASE ~running[s]
    <3>1. remain_budget'[s] = IF s \in RS THEN SERVERS[s].budget
                                          ELSE remain_budget[s]
      BY <1>6, <1>7, <2>2, <2>4
    <3>2. s \in ready /\ ~FIRST_RUN => LeftBudget[s] = remain_budget[s]
      BY <2>4 DEF LeftBudget
    <3> QED
      BY <1>5, <2>1, <3>1, <3>2
  <2> QED
    BY <2>3, <2>4
<1>8. CASE \E r : Starts(step, RS, r)
  <2>1. PICK r : Starts(step, RS, r)
    BY <1>8
  <2>2. /\ r \in RS /\ running'[r] /\ ~running[r]
        /\ \A s \in Server : remain_budget'[s] =
             Refilled(RS)[s] - (IF running[s] THEN Ran(s) ELSE 0)
    BY <1>1, <2>1 DEF Starts, Entered
  <2>3. Left(r)' = SERVERS[r].budget /\ Ran(r)' = 0
    BY <1>1, <2>1, ReleaseStarts
  <2>4. \A s \in Server : running'[s] => s = r
    BY <1>2, <2>2 DEF HeadInv, RunningIsHead
  <2>5. SERVERS[r].budget \in Nat /\ r \in Server
    BY <1>2, <2>2, TimeTypes
  <2>6. ServedExactly'
    <3>1. remain_budget'[r] = SERVERS[r].budget
      BY <1>6, <2>2, <2>5
    <3>2. Left(r)' + Ran(r)' = remain_budget'[r]
      BY <2>3, <2>5, <3>1
    <3> QED
      BY <2>4, <3>2 DEF ServedExactly
  <2>7. LeftBudget'[r] = SERVERS[r].budget /\ r \in DS
    <3>1. LeftBudget'[r] = Left(r)'
      BY <1>2, <2>2, <2>5 DEF LeftBudget, Left
    <3> QED
      BY <1>5, <2>2, <2>3, <2>5, <3>1
  <2>8. \A s \in Server : LeftBudget'[s] = IF s \in DS THEN SERVERS[s].budget
                                                       ELSE LeftBudget[s]
    BY <1>7, <2>2, <2>4, <2>7
  <2> QED
    BY <1>2, <1>4, <1>5, <2>6, <2>8, ReleasedMaps
<1>9. CASE \E head : GoesOn(step, RS, head)
  <2>1. PICK head : GoesOn(step, RS, head)
    BY <1>9
  <2>2. /\ head \in ready /\ running[head] /\ running' = running
        /\ remain_budget' = Refilled(RS) /\ timestamp' = timestamp
        /\ budget_expiration_time' = budget_expiration_time
    BY <2>1 DEF GoesOn
  <2>3. head \in Server /\ \A s \in Server : running[s] => s = head
    <3>1. head \in Server
      BY <2>2 DEF TypeInv, TypeOK
    <3> QED
      BY <2>2, <3>1, AllBudgeted
  <2>4. Left(head)' = Left(head) /\ Ran(head)' = Ran(head)
    BY <1>2, <2>2 DEF Left, Ran
  <2>5. head \notin RS /\ head \in ready' /\ head \notin DS
    BY <1>2, <1>3, <1>5, <2>2, <2>3
  <2>6. ServedExactly'
    <3>1. remain_budget'[head] = remain_budget[head]
      BY <1>6, <2>2, <2>3, <2>5
    <3> QED
      BY <1>3, <2>2, <2>3, <2>4, <3>1 DEF ServedExactly
  <2>7. LeftBudget'[head] = LeftBudget[head]
    <3>1. LeftBudget'[head] = Left(head)'
      BY <1>2, <2>2, <2>3, <2>5 DEF LeftBudget, Left
    <3> QED
      BY <1>3, <2>2, <2>3, <2>4, <3>1
  <2>8. ASSUME NEW s \in Server, s # head
        PROVE  LeftBudget'[s] = IF s \in DS THEN SERVERS[s].budget
                                            ELSE LeftBudget[s]
    <3>1. ~running[s] /\ ~running'[s]
      BY <2>2, <2>3, <2>8
    <3>2. Refilled(RS)[s] \in Int
      BY RefilledType
    <3>3. remain_budget'[s]
            = Refilled(RS)[s] - (IF running[s] THEN Ran(s) ELSE 0)
      BY <2>2, <3>1, <3>2
    <3> QED
      BY <1>7, <3>1, <3>3
  <2>9. \A s \in Server : LeftBudget'[s] = IF s \in DS THEN SERVERS[s].budget
                                                       ELSE LeftBudget[s]
    BY <2>5, <2>7, <2>8
  <2> QED
    BY <1>2, <1>4, <1>5, <2>6, <2>9, ReleasedMaps
<1> QED
  BY <1>1, <1>8, <1>9

LEMMA PeriodicComplete ==
  ASSUME Measurable, MaxLate = 0, TypeInv, TypeInv', HeadInv, HeadInv',
         TimeInv, server_complete_handler
  PROVE  ServedExactly' /\ PeriodicStep
<1>1. PICK step, e, RS, c, next :
        Completes(step, e, RS, c, next) /\ Picked(RS)
  BY CompleteCases
<1>2. /\ SERVERS' = SERVERS /\ jiffies' = jiffies
      /\ RS \subseteq Server /\ ~FIRST_RUN /\ ~FIRST_RUN'
      /\ c \in ready /\ running[c] /\ ready' = (ready \ {c}) \cup RS
      /\ timer.handler = "complete" /\ TimerDue
      /\ age' = [s \in Server |-> IF s \in RS THEN 0 ELSE age[s]]
      /\ remain_budget' = Refilled(RS)
      /\ \A s \in Server : running'[s] <=> s = next
  BY <1>1 DEF Completes, Arms, Picked, server_complete_handler
<1>3. c \in Server /\ \A s \in Server : running[s] => s = c
  <2>1. c \in Server
    BY <1>2 DEF TypeInv, TypeOK
  <2> QED
    BY <1>2, <2>1, AllBudgeted
<1>4. next # None => /\ next \in ready'
                     /\ Left(next)' = remain_budget'[next] /\ Ran(next)' = 0
  <2>1. next # None => next \in ready'
    BY <1>1 DEF Completes
  <2>2. next # None => Left(next)' = remain_budget'[next] /\ Ran(next)' = 0
    BY <1>1, CompleteStarts
  <2> QED
    BY <2>1, <2>2
<1>5. \A s \in Server : remain_budget'[s] \in Int
  BY DEF TypeInv, TypeOK
<1>6. ServedExactly'
  <2>1. ASSUME NEW s \in Server, running'[s]
        PROVE  Left(s)' + Ran(s)' = remain_budget'[s]
    <3>1. s = next /\ next # None
      BY <1>2, <2>1, ServerSchedAssumption
    <3> QED
      BY <1>4, <1>5, <3>1
  <2> QED
    BY <2>1 DEF ServedExactly
<1>7. ASSUME NEW s \in Server
      PROVE  /\ s \in RS <=> UntilRelease[s] = 0
             /\ UntilRelease'[s] = IF s \in RS THEN SERVERS[s].period
                                               ELSE UntilRelease[s]
             /\ LeftBudget'[s] = IF s \in RS THEN SERVERS[s].budget
                                             ELSE LeftBudget[s]
  <2>1. PICK p, a : p = SERVERS[s].period /\ a = age[s]
    OBVIOUS
  <2>2. p \in Nat /\ a \in Nat
    BY <2>1, TimeTypes
  <2>3. /\ UntilRelease[s] = p - a /\ Rest = 0
        /\ TimesIn(relq)[s] \in Nat /\ UntilRelease[s] = TimesIn(relq)[s] + 0
        /\ LeftBudget[s] = IF s \notin ready THEN 0
                           ELSE IF running[s] THEN Left(s)
                                              ELSE remain_budget[s]
        /\ running[s] => Left(s) = 0
    BY <1>2, <2>1, AbstractState
  <2>4. s \in RS <=> UntilRelease[s] = 0
    <3>1. s \in RS <=> TimesIn(relq)[s] = 0
      BY <1>1, <1>2 DEF Picked, DueNow
    <3> QED
      BY <2>3, <3>1
  <2>5. UntilRelease'[s] = IF s \in RS THEN p ELSE UntilRelease[s]
    <3>1. UntilRelease'[s] = p - (IF s \in RS THEN 0 ELSE a)
      BY <1>2, <2>1 DEF UntilRelease
    <3> QED
      BY <2>2, <2>3, <3>1
  <2>6. LeftBudget'[s] = IF s \in ready' THEN remain_budget'[s] ELSE 0
    <3>1. LeftBudget'[s] = IF s \notin ready' THEN 0
                           ELSE IF running'[s] THEN Left(s)'
                                               ELSE remain_budget'[s]
      BY <1>2 DEF LeftBudget, Left
    <3>2. running'[s] => Left(s)' = remain_budget'[s]
      BY <1>2, <1>4, ServerSchedAssumption
    <3> QED
      BY <3>1, <3>2
  <2>7. remain_budget'[s] = IF s \in RS THEN SERVERS[s].budget
                                        ELSE remain_budget[s]
    BY <1>2 DEF Refilled
  <2>8. LeftBudget'[s] = IF s \in RS THEN SERVERS[s].budget ELSE LeftBudget[s]
    BY <1>2, <1>3, <2>3, <2>6, <2>7
  <2> QED
    BY <2>1, <2>4, <2>5, <2>8
<1>8. RS = {s \in Server : UntilRelease[s] = 0}
  BY <1>2, <1>7
<1> QED
  BY <1>2, <1>6, <1>7, <1>8, ReleasedMaps

LEMMA PeriodicNext ==
  ASSUME Measurable, MaxLate = 0, TypeInv, HeadInv, TimeInv, ServedExactly,
         NoOverrun, [Next]_vars
  PROVE  ServedExactly' /\ PeriodicStep
<1>1. TypeInv' /\ HeadInv'
  BY TypeNext, HeadNext DEF NoStrayMiss, Measurable
<1>2. CASE Tick
  BY <1>2, PeriodicTick
<1>3. CASE server_release_handler
  BY <1>1, <1>3, PeriodicRelease
<1>4. CASE server_complete_handler
  BY <1>1, <1>4, PeriodicComplete
<1>5. ASSUME \/ \E s \in Server : CacheMiss(s)
             \/ UNCHANGED vars
      PROVE  ServedExactly' /\ PeriodicStep
  <2>1. /\ SERVERS' = SERVERS /\ FIRST_RUN' = FIRST_RUN /\ ready' = ready
        /\ jiffies' = jiffies /\ running' = running /\ age' = age
        /\ remain_budget' = remain_budget /\ timestamp' = timestamp
        /\ budget_expiration_time' = budget_expiration_time
    BY <1>5 DEF CacheMiss, vars, static, queues, account, history
  <2>2. LeftBudget' = LeftBudget /\ UntilRelease' = UntilRelease
    BY <2>1 DEF LeftBudget, UntilRelease
  <2>3. ServedExactly'
    BY <2>1 DEF ServedExactly, Left, Ran
  <2> QED
    BY <2>1, <2>2, <2>3 DEF PeriodicStep, FP!vars
<1>6. ASSUME NEW s \in Server, MemoryOverflow(s) \/ StrayMiss(s)
      PROVE  FALSE
  BY <1>6 DEF MemoryOverflow, StrayMiss, Depletes, Measurable
<1> QED
  BY <1>2, <1>3, <1>4, <1>5, <1>6 DEF Next

----------------------------------------------------------------------------
(* The exact test for fixed priorities is sound: sums and releases, in the  *)
(* terms of Schedulable.                                                    *)

Units(S, f) == UNION {{s} \X (1 .. f[s]) : s \in S}

LEMMA UnitsFinite ==
  ASSUME NEW S \in SUBSET Server, NEW f \in [Server -> Nat]
  PROVE  IsFiniteSet(Units(S, f))
<1>1. PICK m \in Server : \A s \in Server : f[s] <= f[m]
  BY RelPqAssumption, FiniteMax
<1>2. Units(S, f) \subseteq Server \X (1 .. f[m])
  <2>1. ASSUME NEW u \in Units(S, f)
        PROVE  u \in Server \X (1 .. f[m])
    <3>1. PICK s \in S : u \in {s} \X (1 .. f[s])
      BY DEF Units
    <3>2. f[s] <= f[m] /\ f[s] \in Nat /\ f[m] \in Nat
      BY <1>1
    <3> QED
      BY <3>1, <3>2
  <2> QED
    BY <2>1
<1>3. IsFiniteSet(Server \X (1 .. f[m]))
  <2>1. IsFiniteSet(1 .. f[m])
    BY FS_Interval
  <2> QED
    BY <2>1, RelPqAssumption, FS_Product
<1> QED
  BY <1>2, <1>3, FS_Subset

LEMMA TotalType ==
  ASSUME NEW S \in SUBSET Server, NEW f \in [Server -> Nat]
  PROVE  Total(S, f) \in Nat
BY UnitsFinite, FS_CardinalityType DEF Total, Units

LEMMA TotalMono ==
  ASSUME NEW S \in SUBSET Server,
         NEW f \in [Server -> Nat], NEW g \in [Server -> Nat],
         \A s \in S : f[s] <= g[s]
  PROVE  Total(S, f) <= Total(S, g)
<1>1. Units(S, f) \subseteq Units(S, g)
  <2>1. ASSUME NEW u \in Units(S, f)
        PROVE  u \in Units(S, g)
    <3>1. PICK s \in S : u \in {s} \X (1 .. f[s])
      BY DEF Units
    <3>2. u \in {s} \X (1 .. g[s])
      <4>1. f[s] <= g[s] /\ f[s] \in Nat /\ g[s] \in Nat
        OBVIOUS
      <4> QED
        BY <3>1, <4>1
    <3> QED
      BY <3>2 DEF Units
  <2> QED
    BY <2>1
<1>2. IsFiniteSet(Units(S, g))
  BY UnitsFinite
<1>3. Cardinality(Units(S, f)) <= Cardinality(Units(S, g))
  BY <1>1, <1>2, FS_Subset
<1> QED
  BY <1>3 DEF Total, Units

\* A unit less of one server is a unit less in all.
LEMMA TotalOneLess ==
  ASSUME NEW S \in SUBSET Server, NEW r \in S,
         NEW f \in [Server -> Nat], NEW g \in [Server -> Nat],
         f[r] = g[r] + 1, \A s \in S : s # r => f[s] = g[s]
  PROVE  Total(S, f) = Total(S, g) + 1
<1> DEFINE u == <<r, f[r]>>
<1>1. f[r] \in Nat /\ g[r] \in Nat
  OBVIOUS
<1>2. 1 .. f[r] = (1 .. g[r]) \cup {f[r]} /\ f[r] \notin 1 .. g[r]
  BY <1>1
<1>3. Units(S, f) = Units(S, g) \cup {u}
  <2>1. ASSUME NEW v \in Units(S, f)
        PROVE  v \in Units(S, g) \cup {u}
    <3>1. PICK s \in S : v \in {s} \X (1 .. f[s])
      BY DEF Units
    <3>2. v \in {s} \X (1 .. g[s]) \/ v = u
      BY <1>2, <3>1
    <3> QED
      BY <3>2 DEF Units
  <2>2. ASSUME NEW v \in Units(S, g)
        PROVE  v \in Units(S, f)
    <3>1. PICK s \in S : v \in {s} \X (1 .. g[s])
      BY DEF Units
    <3>2. v \in {s} \X (1 .. f[s])
      BY <1>2, <3>1
    <3> QED
      BY <3>2 DEF Units
  <2>3. u \in Units(S, f)
    <3>1. u \in {r} \X (1 .. f[r])
      BY <1>2
    <3> QED
      BY <3>1 DEF Units
  <2> QED
    BY <2>1, <2>2, <2>3
<1>4. u \notin Units(S, g)
  <2>1. SUFFICES ASSUME NEW s \in S, u \in {s} \X (1 .. g[s])
                 PROVE  FALSE
    BY DEF Units
  <2>2. s = r /\ f[r] \in 1 .. g[s]
    BY <2>1
  <2> QED
    BY <1>2, <2>2
<1>5. IsFiniteSet(Units(S, g))
  BY UnitsFinite
<1>6. Cardinality(Units(S, f)) = Cardinality(Units(S, g)) + 1
  <2> HIDE DEF u
  <2> QED
    BY <1>3, <1>4, <1>5, FS_AddElement
<1> QED
  BY <1>6 DEF Total, Units

LEMMA TotalZero ==
  ASSUME NEW S \in SUBSET Server, NEW f \in [Server -> Nat],
         Total(S, f) = 0, NEW s \in S
  PROVE  f[s] = 0
<1>1. Units(S, f) = {}
  <2>1. IsFiniteSet(Units(S, f)) /\ Cardinality(Units(S, f)) = 0
    BY UnitsFinite DEF Total, Units
  <2> QED
    BY <2>1, FS_EmptySet
<1>2. f[s] \in Nat
  OBVIOUS
<1>3. 1 .. f[s] = {}
  <2>1. {s} \X (1 .. f[s]) = {}
    BY <1>1 DEF Units
  <2>2. \A k \in 1 .. f[s] : <<s, k>> \in {s} \X (1 .. f[s])
    OBVIOUS
  <2> QED
    BY <2>1, <2>2
<1> QED
  BY <1>2, <1>3

----------------------------------------------------------------------------
\* Releases counts the releases of a server in t jiffies from its first one.
LEMMA ReleasesType ==
  ASSUME NEW p \in Nat \ {0}, NEW t \in Int
  PROVE  Releases(p, t) \in Nat
<1>1. CASE t > 0
  <2>1. t + p - 1 \in Nat
    BY <1>1
  <2> QED
    BY <1>1, <2>1, DivMod DEF Releases
<1> QED
  BY <1>1 DEF Releases

LEMMA DivStep ==
  ASSUME NEW p \in Nat \ {0}, NEW v \in Nat
  PROVE  (v + p) \div p = 1 + (v \div p)
<1>1. PICK q, w : q = v \div p /\ w = v % p
  OBVIOUS
<1>2. q \in Nat /\ w \in 0 .. p - 1 /\ v = p * q + w
  BY <1>1, DivMod
<1>3. PICK q2, w2 : q2 = (v + p) \div p /\ w2 = (v + p) % p
  OBVIOUS
<1>4. q2 \in Nat /\ w2 \in 0 .. p - 1 /\ v + p = p * q2 + w2
  <2>1. v + p \in Nat
    OBVIOUS
  <2> QED
    BY <1>3, <2>1, DivMod
<1>5. p * (q + 1) = p * q + p
  BY <1>2
<1>6. ~(q2 >= q + 2)
  <2>1. SUFFICES ASSUME q2 >= q + 2 PROVE FALSE
    OBVIOUS
  <2>2. p * (q + 2) <= p * q2 /\ p * q \in Nat /\ p * q2 \in Nat
    BY <1>2, <1>4, <2>1, Product
  <2>3. p * (q + 2) = p * q + p + p
    BY <1>2
  <2> QED
    BY <1>2, <1>4, <2>2, <2>3
<1>7. ~(q2 <= q)
  <2>1. SUFFICES ASSUME q2 <= q PROVE FALSE
    OBVIOUS
  <2>2. p * q2 <= p * q /\ p * q \in Nat /\ p * q2 \in Nat
    BY <1>2, <1>4, <2>1, Product
  <2> QED
    BY <1>2, <1>4, <2>2
<1> QED
  BY <1>1, <1>2, <1>3, <1>4, <1>6, <1>7

LEMMA DivMono ==
  ASSUME NEW p \in Nat \ {0}, NEW v \in Nat, NEW w \in Nat, v <= w
  PROVE  v \div p <= w \div p
<1>1. PICK q, a : q = v \div p /\ a = v % p
  OBVIOUS
<1>2. q \in Nat /\ a \in 0 .. p - 1 /\ v = p * q + a
  BY <1>1, DivMod
<1>3. PICK q2, b : q2 = w \div p /\ b = w % p
  OBVIOUS
<1>4. q2 \in Nat /\ b \in 0 .. p - 1 /\ w = p * q2 + b
  BY <1>3, DivMod
<1>5. ~(q >= q2 + 1)
  <2>1. SUFFICES ASSUME q >= q2 + 1 PROVE FALSE
    OBVIOUS
  <2>2. p * (q2 + 1) <= p * q /\ p * q \in Nat /\ p * q2 \in Nat
    BY <1>2, <1>4, <2>1, Product
  <2>3. p * (q2 + 1) = p * q2 + p
    BY <1>4
  <2> QED
    BY <1>2, <1>4, <2>2, <2>3
<1> QED
  BY <1>1, <1>2, <1>3, <1>4, <1>5

LEMMA ReleasesMono ==
  ASSUME NEW p \in Nat \ {0}, NEW t \in Int, NEW u \in Int, t <= u
  PROVE  Releases(p, t) <= Releases(p, u)
<1>1. CASE t > 0
  <2>1. t + p - 1 \in Nat /\ u + p - 1 \in Nat /\ t + p - 1 <= u + p - 1
    BY <1>1
  <2>2. (t + p - 1) \div p <= (u + p - 1) \div p
    BY <2>1, DivMono
  <2> QED
    BY <1>1, <2>2 DEF Releases
<1>2. CASE ~(t > 0)
  BY <1>2, ReleasesType DEF Releases
<1> QED
  BY <1>1, <1>2

\* One release now, and the others from the next one on.
LEMMA ReleasesAgain ==
  ASSUME NEW p \in Nat \ {0}, NEW t \in Nat \ {0}
  PROVE  Releases(p, t) = 1 + Releases(p, t - p)
<1>1. PICK v : v = t - 1
  OBVIOUS
<1>2. v \in Nat /\ t + p - 1 = v + p
  BY <1>1
<1>3. Releases(p, t) = 1 + (v \div p)
  <2>1. (v + p) \div p = 1 + (v \div p)
    BY <1>2, DivStep
  <2>2. Releases(p, t) = (t + p - 1) \div p
    BY DEF Releases
  <2> QED
    BY <1>2, <2>1, <2>2
<1>4. CASE t - p > 0
  <2>1. (t - p) + p - 1 = v
    BY <1>1
  <2> QED
    BY <1>3, <1>4, <2>1 DEF Releases
<1>5. CASE ~(t - p > 0)
  <2>1. v \div p = 0
    <3>1. PICK q, a : q = v \div p /\ a = v % p
      OBVIOUS
    <3>2. q \in Nat /\ a \in 0 .. p - 1 /\ v = p * q + a
      BY <1>2, <3>1, DivMod
    <3>3. ~(q >= 1)
      <4>1. SUFFICES ASSUME q >= 1 PROVE FALSE
        OBVIOUS
      <4>2. p * 1 <= p * q /\ p * q \in Nat
        BY <3>2, <4>1, Product
      <4> QED
        BY <1>1, <1>5, <3>2, <4>2
    <3> QED
      BY <3>1, <3>2, <3>3
  <2> QED
    BY <1>3, <1>5, <2>1 DEF Releases
<1> QED
  BY <1>4, <1>5

----------------------------------------------------------------------------
(* A server is busy while it or a server above it has budget left.  What    *)
(* these still ask for in the next t jiffies is at most what is asked for   *)
(* when all start together, less the e jiffies that were served since.      *)

Pending(params, left, until, t) ==
  [h \in Server |-> left[h] + Releases(params[h].period, t - until[h])
                                * params[h].budget]

Own(params, left, s) == IF left[s] > 0 THEN params[s].budget ELSE 0

Busy(params, left, until, s, e) ==
  /\ e \in Nat
  /\ \A t \in Nat \ {0} :
       Total(Above(params, s), Pending(params, left, until, t)) + left[s] + e
         <= Total(Above(params, s), Demand(params, t + e)) + Own(params, left, s)
  /\ \A t \in 1 .. params[s].period : Suffices(params, s, t) => e < t
  /\ left[s] > 0 => params[s].period - until[s] <= e

LEMMA ParamsOf ==
  ASSUME NEW params \in ServerParams, NEW s \in Server
  PROVE  /\ params[s].period \in Nat \ {0}
         /\ params[s].budget \in Nat \ {0}
         /\ params[s].priority \in Nat
         /\ \A t \in Server : params[s].priority = params[t].priority => s = t
         /\ Above(params, s) \in SUBSET Server
BY ServerParamsAssumption DEF Above

LEMMA DemandType ==
  ASSUME NEW params \in ServerParams, NEW t \in Int
  PROVE  Demand(params, t) \in [Server -> Nat]
<1>1. ASSUME NEW h \in Server
      PROVE  Releases(params[h].period, t) * params[h].budget \in Nat
  <2>1. Releases(params[h].period, t) \in Nat /\ params[h].budget \in Nat
    BY ParamsOf, ReleasesType
  <2> QED
    BY <2>1, Product
<1> QED
  BY <1>1 DEF Demand

LEMMA PendingType ==
  ASSUME NEW params \in ServerParams, NEW t \in Int,
         NEW left \in [Server -> Nat], NEW until \in [Server -> Nat]
  PROVE  /\ Pending(params, left, until, t) \in [Server -> Nat]
         /\ \A h \in Server : left[h] <= Pending(params, left, until, t)[h]
<1>1. ASSUME NEW h \in Server
      PROVE  /\ Releases(params[h].period, t - until[h]) * params[h].budget \in Nat
             /\ left[h] \in Nat
  <2>1. Releases(params[h].period, t - until[h]) \in Nat
    <3>1. t - until[h] \in Int
      OBVIOUS
    <3> QED
      BY <3>1, ParamsOf, ReleasesType
  <2>2. params[h].budget \in Nat
    BY ParamsOf
  <2> QED
    BY <2>1, <2>2, Product
<1>2. \A h \in Server :
        /\ left[h] + Releases(params[h].period, t - until[h]) * params[h].budget
             \in Nat
        /\ left[h] <= left[h] + Releases(params[h].period, t - until[h])
                                  * params[h].budget
  <2>1. SUFFICES ASSUME NEW h \in Server
                 PROVE  /\ left[h] + Releases(params[h].period, t - until[h])
                                       * params[h].budget \in Nat
                        /\ left[h] <= left[h]
                                        + Releases(params[h].period, t - until[h])
                                            * params[h].budget
    OBVIOUS
  <2>2. PICK k : k = Releases(params[h].period, t - until[h]) * params[h].budget
    OBVIOUS
  <2>3. k \in Nat /\ left[h] \in Nat
    BY <1>1, <2>2
  <2>4. left[h] + k \in Nat /\ left[h] <= left[h] + k
    BY <2>3
  <2> QED
    BY <2>2, <2>4
<1> QED
  BY <1>2 DEF Pending

LEMMA TotalsType ==
  ASSUME NEW params \in ServerParams, NEW s \in Server, NEW t \in Int,
         NEW left \in [Server -> Nat], NEW until \in [Server -> Nat]
  PROVE  /\ Total(Above(params, s), Demand(params, t)) \in Nat
         /\ Total(Above(params, s), Pending(params, left, until, t)) \in Nat
<1>1. Above(params, s) \in SUBSET Server
  BY ParamsOf
<1>2. Demand(params, t) \in [Server -> Nat]
  BY DemandType
<1>3. Pending(params, left, until, t) \in [Server -> Nat]
  BY PendingType
<1> QED
  BY <1>1, <1>2, <1>3, TotalType

\* At the start, and whenever the server and those above it have used up their
\* budgets, nothing was served yet.
LEMMA IdleBusy ==
  ASSUME NEW params \in ServerParams, NEW s \in Server,
         NEW left \in [Server -> Nat], NEW until \in [Server -> Nat],
         left[s] = 0, \A h \in Above(params, s) : left[h] = 0
  PROVE  Busy(params, left, until, s, 0)
<1>1. ASSUME NEW t \in Nat \ {0}
      PROVE  Total(Above(params, s), Pending(params, left, until, t))
               <= Total(Above(params, s), Demand(params, t))
  <2>1. ASSUME NEW h \in Above(params, s)
        PROVE  Pending(params, left, until, t)[h] <= Demand(params, t)[h]
    <3>1. h \in Server /\ left[h] = 0 /\ until[h] \in Nat
      BY ParamsOf
    <3>2. PICK p, b, j, k :
            /\ p = params[h].period /\ b = params[h].budget
            /\ j = Releases(p, t - until[h]) /\ k = Releases(p, t)
      OBVIOUS
    <3>3. p \in Nat \ {0} /\ b \in Nat
      BY <3>1, <3>2, ParamsOf
    <3>4. t - until[h] \in Int /\ t \in Int /\ t - until[h] <= t
      BY <3>1
    <3>5. j \in Nat /\ k \in Nat /\ j <= k
      BY <3>2, <3>3, <3>4, ReleasesType, ReleasesMono
    <3>6. b * j <= b * k /\ b * j = j * b /\ b * k = k * b /\ j * b \in Nat
      BY <3>3, <3>5, Product
    <3>7. /\ Pending(params, left, until, t)[h] = left[h] + j * b
          /\ Demand(params, t)[h] = k * b
      BY <3>1, <3>2 DEF Pending, Demand
    <3> QED
      BY <3>1, <3>6, <3>7
  <2>2. /\ Pending(params, left, until, t) \in [Server -> Nat]
        /\ Demand(params, t) \in [Server -> Nat]
    <3>1. t \in Int
      OBVIOUS
    <3>2. Pending(params, left, until, t) \in [Server -> Nat]
      BY <3>1, PendingType
    <3> QED
      BY <3>1, <3>2, DemandType
  <2>3. Above(params, s) \in SUBSET Server
    BY ParamsOf
  <2> QED
    BY <2>1, <2>2, <2>3, TotalMono
<1>2. ASSUME NEW t \in Nat \ {0}
      PROVE  Total(Above(params, s), Pending(params, left, until, t)) + left[s] + 0
               <= Total(Above(params, s), Demand(params, t + 0))
                    + Own(params, left, s)
  <2>1. /\ Total(Above(params, s), Pending(params, left, until, t)) \in Nat
        /\ Total(Above(params, s), Demand(params, t)) \in Nat
    <3>1. t \in Int
      OBVIOUS
    <3> QED
      BY <3>1, TotalsType
  <2>2. Own(params, left, s) = 0 /\ t + 0 = t
    BY DEF Own
  <2> QED
    BY <1>1, <2>1, <2>2
<1>3. \A t \in 1 .. params[s].period : 0 < t
  BY ParamsOf
<1> QED
  BY <1>2, <1>3 DEF Busy

\* The servers that are due, which have used their budgets up, get new ones.
ReleasesAll(params, left, until, left2, until2, due) ==
  /\ due \in SUBSET Server
  /\ \A h \in due : left[h] = 0 /\ until[h] = 0
  /\ \A h \in Server :
       /\ left2[h] = IF h \in due THEN params[h].budget ELSE left[h]
       /\ until2[h] = IF h \in due THEN params[h].period ELSE until[h]

\* A release changes nothing of what the servers still ask for.
LEMMA ReleaseBusy ==
  ASSUME NEW params \in ServerParams, NEW s \in Server,
         NEW left \in [Server -> Nat], NEW until \in [Server -> Nat],
         NEW left2 \in [Server -> Nat], NEW until2 \in [Server -> Nat],
         NEW due, ReleasesAll(params, left, until, left2, until2, due),
         NEW e, Busy(params, left, until, s, e)
  PROVE  Busy(params, left2, until2, s, e)
<1> USE DEF ReleasesAll
<1>1. ASSUME NEW t \in Nat \ {0}
      PROVE  Pending(params, left2, until2, t) = Pending(params, left, until, t)
  <2>1. ASSUME NEW h \in Server
        PROVE  left2[h] + Releases(params[h].period, t - until2[h])
                            * params[h].budget
                 = left[h] + Releases(params[h].period, t - until[h])
                               * params[h].budget
    <3>1. CASE h \notin due
      BY <3>1
    <3>2. CASE h \in due
      <4>1. PICK p, b, j, k :
              /\ p = params[h].period /\ b = params[h].budget
              /\ j = Releases(p, t - p) /\ k = Releases(p, t)
        OBVIOUS
      <4>2. p \in Nat \ {0} /\ b \in Nat
        BY <4>1, ParamsOf
      <4>3. k = 1 + j /\ j \in Nat
        <5>1. t - p \in Int
          BY <4>2
        <5> QED
          BY <4>1, <4>2, <5>1, ReleasesAgain, ReleasesType
      <4>4. left2[h] = b /\ until2[h] = p /\ left[h] = 0 /\ t - until[h] = t
        BY <3>2, <4>1
      <4>5. b + j * b = 0 + k * b
        BY <4>2, <4>3
      <4> QED
        BY <4>1, <4>4, <4>5
    <3> QED
      BY <3>1, <3>2
  <2> QED
    BY <2>1 DEF Pending
<1>2. left2[s] - Own(params, left2, s) <= left[s] - Own(params, left, s)
  <2>1. params[s].budget \in Nat \ {0}
    BY ParamsOf
  <2>2. CASE s \in due
    BY <2>1, <2>2 DEF Own
  <2>3. CASE s \notin due
    <3>1. left2[s] = left[s] /\ left[s] \in Nat
      BY <2>3
    <3> QED
      BY <2>1, <3>1 DEF Own
  <2> QED
    BY <2>2, <2>3
<1>3. ASSUME NEW t \in Nat \ {0}
      PROVE  Total(Above(params, s), Pending(params, left2, until2, t))
               + left2[s] + e
               <= Total(Above(params, s), Demand(params, t + e))
                    + Own(params, left2, s)
  <2>1. Total(Above(params, s), Pending(params, left, until, t)) + left[s] + e
          <= Total(Above(params, s), Demand(params, t + e)) + Own(params, left, s)
    BY DEF Busy
  <2>2. PICK x, y, o, o2 :
          /\ x = Total(Above(params, s), Pending(params, left, until, t))
          /\ y = Total(Above(params, s), Demand(params, t + e))
          /\ o = Own(params, left, s) /\ o2 = Own(params, left2, s)
    OBVIOUS
  <2>3. e \in Nat /\ t + e \in Int
    BY DEF Busy
  <2>4. x \in Nat /\ y \in Nat
    <3>1. t \in Int
      OBVIOUS
    <3>2. x \in Nat
      BY <2>2, <3>1, TotalsType
    <3>3. y \in Nat
      BY <2>2, <2>3, TotalsType
    <3> QED
      BY <3>2, <3>3
  <2>5. o \in Nat /\ o2 \in Nat
    BY <2>2, ParamsOf DEF Own
  <2>6. x + left[s] + e <= y + o /\ left2[s] - o2 <= left[s] - o
    BY <1>2, <2>1, <2>2
  <2>7. x + left2[s] + e <= y + o2
    BY <2>3, <2>4, <2>5, <2>6
  <2> QED
    BY <1>1, <2>2, <2>7
<1>4. left2[s] > 0 => params[s].period - until2[s] <= e
  <2>1. e \in Nat /\ (left[s] > 0 => params[s].period - until[s] <= e)
    BY DEF Busy
  <2>2. CASE s \in due
    BY <2>1, <2>2, ParamsOf
  <2>3. CASE s \notin due
    BY <2>1, <2>3
  <2> QED
    BY <2>2, <2>3
<1> QED
  BY <1>3, <1>4 DEF Busy

\* In a jiffy the highest server with budget left is served.
ServesOne(params, left, until, left2, until2, r) ==
  /\ r \in Server /\ left[r] > 0
  /\ \A h \in Server : left[h] > 0 => params[r].priority <= params[h].priority
  /\ \A h \in Server :
       /\ left2[h] = IF h = r THEN left[h] - 1 ELSE left[h]
       /\ until2[h] = until[h] - 1

\* One more jiffy is served, or the server and those above it are idle now.
LEMMA ServeBusy ==
  ASSUME NEW params \in ServerParams, NEW s \in Server,
         NEW left \in [Server -> Nat], NEW until \in [Server -> Nat],
         NEW left2 \in [Server -> Nat], NEW until2 \in [Server -> Nat],
         NEW r, ServesOne(params, left, until, left2, until2, r),
         NEW e, Busy(params, left, until, s, e)
  PROVE  \E e2 : Busy(params, left2, until2, s, e2)
<1> USE DEF ServesOne
<1> DEFINE idle == left2[s] = 0 /\ \A h \in Above(params, s) : left2[h] = 0
           x(t) == Total(Above(params, s), Pending(params, left, until, t))
           x2(t) == Total(Above(params, s), Pending(params, left2, until2, t))
           y(t) == Total(Above(params, s), Demand(params, t))
           own == Own(params, left, s)
<1>1. CASE idle
  BY <1>1, IdleBusy
<1>2. CASE ~idle
  <2>1. \A h \in Above(params, s) : h \in Server /\ h # s
                                 /\ params[h].priority < params[s].priority
    BY ParamsOf DEF Above
  <2>2. \A h \in Server : params[h].priority \in Nat
    BY ParamsOf
  <2>3. r \in Above(params, s) \/ r = s
    <3>1. SUFFICES ASSUME r \notin Above(params, s), r # s
                   PROVE  FALSE
      OBVIOUS
    <3>2. params[s].priority < params[r].priority
      <4>1. ~(params[r].priority < params[s].priority)
        BY <3>1 DEF Above
      <4>2. params[r].priority # params[s].priority
        BY <3>1, ParamsOf
      <4> QED
        BY <2>2, <4>1, <4>2
    <3>3. ASSUME NEW h \in Server, params[h].priority <= params[s].priority
          PROVE  left2[h] = 0
      <4>1. ~(params[r].priority <= params[h].priority)
        BY <2>2, <3>2, <3>3
      <4>2. left[h] \in Nat /\ ~(left[h] > 0) /\ h # r
        BY <2>2, <3>2, <3>3, <4>1
      <4> QED
        BY <4>2
    <3>4. idle
      BY <2>1, <2>2, <3>3
    <3> QED
      BY <1>2, <3>4
  <2>4. r = s => left2[s] > 0
    <3>1. SUFFICES ASSUME r = s, ~(left2[s] > 0)
                   PROVE  FALSE
      OBVIOUS
    <3>2. left2[s] = 0
      BY <3>1
    <3>3. ASSUME NEW h \in Above(params, s)
          PROVE  left2[h] = 0
      <4>1. h \in Server /\ h # r /\ ~(params[r].priority <= params[h].priority)
        BY <2>1, <2>2, <3>1
      <4>2. left[h] \in Nat /\ ~(left[h] > 0)
        BY <4>1
      <4> QED
        BY <4>1, <4>2
    <3> QED
      BY <1>2, <3>2, <3>3
  <2>5. /\ Own(params, left2, s) = own /\ own \in Nat
        /\ left[s] > 0 => own = params[s].budget
        /\ left[s] = 0 => own = 0
    <3>1. left[s] > 0 <=> left2[s] > 0
      BY <2>4
    <3> QED
      BY <3>1, ParamsOf DEF Own
  <2>6. e \in Nat
    BY DEF Busy
  <2>7. ASSUME NEW t \in Nat \ {0}
        PROVE  x(t) + left[s] + e <= y(t + e) + own
    BY DEF Busy
  <2>8. ASSUME NEW t \in Int
        PROVE  x(t) \in Nat /\ x2(t) \in Nat /\ y(t) \in Nat
    BY TotalsType
  <2>9. ASSUME NEW t \in Nat \ {0}
        PROVE  x2(t) + left2[s] + 1 = x(t + 1) + left[s]
    <3> DEFINE f == Pending(params, left, until, t + 1)
               g == Pending(params, left2, until2, t)
    <3>1. ASSUME NEW h \in Server
          PROVE  IF h = r THEN f[h] = g[h] + 1 ELSE f[h] = g[h]
      <4>1. until[h] \in Nat /\ left[h] \in Nat /\ until2[h] = until[h] - 1
        OBVIOUS
      <4>2. t - until2[h] = t + 1 - until[h]
        BY <4>1
      <4>3. PICK k : k = Releases(params[h].period, t + 1 - until[h])
                           * params[h].budget
        OBVIOUS
      <4>4. k \in Nat
        <5>1. t + 1 - until[h] \in Int
          BY <4>1
        <5>2. Releases(params[h].period, t + 1 - until[h]) \in Nat
          BY <5>1, ParamsOf, ReleasesType
        <5>3. params[h].budget \in Nat
          BY ParamsOf
        <5> QED
          BY <4>3, <5>2, <5>3, Product
      <4>5. f[h] = left[h] + k /\ g[h] = left2[h] + k
        BY <4>2, <4>3 DEF Pending
      <4>6. CASE h = r
        <5>1. left2[h] = left[h] - 1
          BY <4>6
        <5>2. left[h] + k = (left[h] - 1) + k + 1
          BY <4>1, <4>4
        <5> QED
          BY <4>5, <4>6, <5>1, <5>2
      <4>7. CASE h # r
        BY <4>5, <4>7
      <4> QED
        BY <4>6, <4>7
    <3>2. f \in [Server -> Nat] /\ g \in [Server -> Nat]
      <4>1. t \in Int /\ t + 1 \in Int
        OBVIOUS
      <4>2. f \in [Server -> Nat]
        BY <4>1, PendingType
      <4>3. g \in [Server -> Nat]
        BY <4>1, PendingType
      <4> QED
        BY <4>2, <4>3
    <3>3. Above(params, s) \in SUBSET Server
      BY ParamsOf
    <3>4. x(t + 1) = Total(Above(params, s), f) /\ x2(t) = Total(Above(params, s), g)
      OBVIOUS
    <3>5. x(t + 1) \in Nat /\ x2(t) \in Nat /\ left[s] \in Nat
      BY <2>8
    <3> HIDE DEF f, g, x, x2
    <3>6. CASE r \in Above(params, s)
      <4>1. f[r] = g[r] + 1 /\ \A h \in Above(params, s) : h # r => f[h] = g[h]
        BY <3>1, <3>3, <3>6
      <4>2. Total(Above(params, s), f) = Total(Above(params, s), g) + 1
        BY <3>2, <3>3, <3>6, <4>1, TotalOneLess
      <4>3. left2[s] = left[s]
        BY <2>1, <3>6
      <4> QED
        BY <3>4, <3>5, <4>2, <4>3
    <3>7. CASE r = s
      <4>1. \A h \in Above(params, s) : f[h] = g[h] /\ f[h] \in Nat
        BY <2>1, <3>1, <3>2, <3>7
      <4>2. \A h \in Above(params, s) : f[h] <= g[h] /\ g[h] <= f[h]
        BY <4>1
      <4>3. /\ Total(Above(params, s), f) <= Total(Above(params, s), g)
            /\ Total(Above(params, s), g) <= Total(Above(params, s), f)
        BY <3>2, <3>3, <4>2, TotalMono
      <4>4. left2[s] = left[s] - 1
        BY <3>7
      <4> QED
        BY <3>4, <3>5, <4>3, <4>4
    <3> QED
      BY <2>3, <3>6, <3>7
  <2> HIDE DEF x, x2, y, own, idle
  <2>10. ASSUME NEW t \in Nat \ {0}
         PROVE  x2(t) + left2[s] + (e + 1) <= y(t + (e + 1)) + own
    <3>1. x(t + 1) + left[s] + e <= y((t + 1) + e) + own
      BY <2>7
    <3>2. (t + 1) + e = t + (e + 1) /\ t + (e + 1) \in Int /\ t + 1 \in Int
      BY <2>6
    <3>3. /\ x(t + 1) \in Nat /\ x2(t) \in Nat /\ y(t + (e + 1)) \in Nat
          /\ left[s] \in Nat /\ left2[s] \in Nat
      BY <2>8, <3>2
    <3>4. x2(t) + left2[s] + 1 = x(t + 1) + left[s]
      BY <2>9
    <3>5. PICK a, b, c, l, l2 : a = x(t + 1) /\ b = x2(t) /\ c = y(t + (e + 1))
                                /\ l = left[s] /\ l2 = left2[s]
      OBVIOUS
    <3>6. a + l + e <= c + own /\ b + l2 + 1 = a + l
      BY <3>1, <3>2, <3>4, <3>5
    <3>7. b + l2 + (e + 1) <= c + own
      BY <2>5, <2>6, <3>3, <3>5, <3>6
    <3> QED
      BY <3>5, <3>7
  <2>11. ASSUME NEW t \in 1 .. params[s].period, Suffices(params, s, t)
         PROVE  e + 1 < t
    <3>1. e < t /\ t \in Nat
      BY <2>11, ParamsOf DEF Busy
    <3>2. SUFFICES ASSUME t = e + 1
                   PROVE  FALSE
      BY <2>6, <3>1
    <3>3. params[s].budget + y(t) <= t
      BY <2>11 DEF Suffices, y
    <3>4. x(1) + left[s] + e <= y(1 + e) + own /\ 1 + e = t
      BY <2>6, <2>7, <3>2
    <3>5. x(1) \in Nat /\ y(t) \in Nat /\ left[s] \in Nat
      BY <2>8, <3>1
    <3>6. params[s].budget \in Nat \ {0}
      BY ParamsOf
    <3>7. x(1) = 0 /\ left[s] <= 1
      <4>1. PICK a, c, l, b : a = x(1) /\ c = y(t) /\ l = left[s]
                              /\ b = params[s].budget
        OBVIOUS
      <4>2. /\ a + l + e <= c + own /\ b + c <= e + 1
            /\ a \in Nat /\ c \in Nat /\ l \in Nat /\ b \in Nat \ {0}
            /\ own \in Nat /\ (l > 0 => own = b) /\ (l = 0 => own = 0)
        BY <2>5, <3>2, <3>3, <3>4, <3>5, <3>6, <4>1
      <4>3. a = 0 /\ l <= 1
        BY <2>6, <4>2
      <4> QED
        BY <4>1, <4>3
    <3>8. \A h \in Above(params, s) : left[h] = 0
      <4>1. ASSUME NEW h \in Above(params, s)
            PROVE  left[h] = 0
        <5>1. Pending(params, left, until, 1) \in [Server -> Nat]
          BY PendingType
        <5>2. Total(Above(params, s), Pending(params, left, until, 1)) = 0
          BY <3>7 DEF x
        <5>3. Above(params, s) \in SUBSET Server
          BY ParamsOf
        <5>4. Pending(params, left, until, 1)[h] = 0
          BY <5>1, <5>2, <5>3, TotalZero
        <5>5. left[h] <= Pending(params, left, until, 1)[h] /\ left[h] \in Nat
          BY <5>3, PendingType
        <5> QED
          BY <5>4, <5>5
      <4> QED
        BY <4>1
    <3>9. r = s
      BY <2>3, <3>8
    <3> QED
      BY <2>4, <3>5, <3>7, <3>9
  <2>12. left2[s] > 0 => params[s].period - until2[s] <= e + 1
    <3>1. left2[s] > 0 => left[s] > 0
      OBVIOUS
    <3>2. left[s] > 0 => params[s].period - until[s] <= e
      BY DEF Busy
    <3>3. until2[s] = until[s] - 1 /\ until[s] \in Nat /\ params[s].period \in Nat
      BY ParamsOf
    <3> QED
      BY <2>6, <3>1, <3>2, <3>3
  <2>13. Busy(params, left2, until2, s, e + 1)
    BY <2>5, <2>6, <2>10, <2>11, <2>12 DEF Busy, x2, y, own
  <2> QED
    BY <2>13
<1> QED
  BY <1>1, <1>2

----------------------------------------------------------------------------
(* The same for the servers of the program.                                *)

LevelInv ==
  \A s \in Server : \E e : Busy(SERVERS, LeftBudget, UntilRelease, s, e)

LEMMA BudgetsNat ==
  ASSUME Measurable, MaxLate = 0, TypeInv, HeadInv, TimeInv
  PROVE  /\ LeftBudget \in [Server -> Nat]
         /\ UntilRelease \in [Server -> Nat]
<1>1. CASE FIRST_RUN
  BY <1>1 DEF LeftBudget, UntilRelease
<1>2. CASE ~FIRST_RUN
  <2>1. ASSUME NEW s \in Server
        PROVE  LeftBudget[s] \in Nat /\ UntilRelease[s] \in Nat
    <3>1. /\ Rest \in Nat /\ TimesIn(relq)[s] \in Nat
          /\ UntilRelease[s] = TimesIn(relq)[s] + Rest
          /\ LeftBudget[s] = IF s \notin ready THEN 0
                             ELSE IF running[s] THEN Left(s)
                                                ELSE remain_budget[s]
          /\ s \in ready /\ ~running[s] => remain_budget[s] >= 1
          /\ running[s] => Left(s) \in Int /\ Left(s) >= Rest
      BY <1>2, AbstractState
    <3>2. remain_budget[s] \in Int
      BY TimeTypes
    <3>3. UntilRelease[s] \in Nat
      BY <3>1
    <3>4. PICK left, rest : left = Left(s) /\ rest = Rest
      OBVIOUS
    <3>5. running[s] => left \in Nat
      BY <3>1, <3>4
    <3>6. s \in ready /\ ~running[s] => remain_budget[s] \in Nat
      BY <3>1, <3>2
    <3> QED
      BY <3>1, <3>3, <3>4, <3>5, <3>6
  <2>2. /\ LeftBudget = [s \in Server |-> LeftBudget[s]]
        /\ UntilRelease = [s \in Server |-> UntilRelease[s]]
    BY DEF LeftBudget, UntilRelease
  <2> QED
    BY <2>1, <2>2
<1> QED
  BY <1>1, <1>2

\* A server that is busy for less than its period is done when it is due.
LEMMA LevelNoOverrun ==
  ASSUME SERVERS \in ServerParams, Schedulable(SERVERS), LevelInv,
         LeftBudget \in [Server -> Nat], UntilRelease \in [Server -> Nat]
  PROVE  NoOverrun
<1>1. SUFFICES ASSUME NEW s \in Server, UntilRelease[s] = 0, LeftBudget[s] > 0
               PROVE  FALSE
  BY DEF NoOverrun
<1>2. PICK e : Busy(SERVERS, LeftBudget, UntilRelease, s, e)
  BY DEF LevelInv
<1>3. PICK t \in 1 .. SERVERS[s].period : Suffices(SERVERS, s, t)
  BY DEF Schedulable
<1>4. SERVERS[s].period \in Nat
  BY ParamsType
<1>5. e \in Nat /\ e < t
  BY <1>2, <1>3 DEF Busy
<1>6. SERVERS[s].period - 0 <= e
  BY <1>1, <1>2 DEF Busy
<1> QED
  BY <1>3, <1>4, <1>5, <1>6

LEMMA LevelServe ==
  ASSUME SERVERS \in ServerParams, LevelInv, FP!Serve,
         LeftBudget \in [Server -> Nat], UntilRelease \in [Server -> Nat],
         LeftBudget' \in [Server -> Nat], UntilRelease' \in [Server -> Nat]
  PROVE  LevelInv'
<1>1. PICK left, until, left2, until2, ps :
        /\ left = LeftBudget /\ until = UntilRelease
        /\ left2 = LeftBudget' /\ until2 = UntilRelease' /\ ps = SERVERS
  OBVIOUS
<1>2. /\ left \in [Server -> Nat] /\ until \in [Server -> Nat]
      /\ left2 \in [Server -> Nat] /\ until2 \in [Server -> Nat]
      /\ ps \in ServerParams /\ SERVERS' = ps
      /\ \A s \in Server : \E e : Busy(ps, left, until, s, e)
  BY <1>1 DEF LevelInv, FP!Serve
<1>3. \A s \in Server : until2[s] = until[s] - 1
  BY <1>1 DEF FP!Serve
<1>4. PICK queue : queue = {s \in Server : left[s] > 0}
  OBVIOUS
<1>5. FP!Ready = queue /\ queue \in SUBSET Server
  BY <1>1, <1>4 DEF FP!Ready
<1>6. \A s \in Server : left2[s] = IF FP!Runs(s) THEN left[s] - 1 ELSE left[s]
  BY <1>1 DEF FP!Serve
<1>7. SUFFICES ASSUME NEW s \in Server
               PROVE  \E e : Busy(ps, left2, until2, s, e)
  BY <1>1, <1>2 DEF LevelInv
<1>8. PICK e : Busy(ps, left, until, s, e)
  BY <1>2
<1>9. CASE queue = {}
  <2>1. \A h \in Server : left2[h] = 0
    <3>1. ASSUME NEW h \in Server
          PROVE  left2[h] = 0
      <4>1. ~FP!Runs(h)
        BY <1>5, <1>9 DEF FP!Runs
      <4>2. left[h] \in Nat /\ ~(left[h] > 0)
        BY <1>2, <1>4, <1>9
      <4> QED
        BY <1>6, <4>1, <4>2
    <3> QED
      BY <3>1
  <2>2. Above(ps, s) \in SUBSET Server
    BY <1>2, ParamsOf
  <2> QED
    BY <1>2, <2>1, <2>2, IdleBusy
<1>10. CASE queue # {}
  <2>1. PICK r : r = BitmapGet(queue)
    OBVIOUS
  <2>2. r \in queue /\ \A h \in queue : ps[r].priority <= ps[h].priority
    BY <1>1, <1>5, <1>10, <2>1, BitmapGetProperty
  <2>3. ASSUME NEW h \in Server
        PROVE  FP!Runs(h) <=> h = r
    <3>1. CASE h = r
      BY <1>1, <1>5, <2>2, <3>1 DEF FP!Runs
    <3>2. CASE h # r
      <4>1. ~(h \in queue
                /\ \A t \in queue : SERVERS[h].priority <= SERVERS[t].priority)
        BY <1>5, <2>1, <3>2, BitmapGetUnique
      <4> QED
        BY <1>5, <3>2, <4>1 DEF FP!Runs
    <3> QED
      BY <3>1, <3>2
  <2>4. r \in Server /\ left[r] > 0
    BY <1>4, <2>2
  <2>5. \A h \in Server : left[h] > 0 => ps[r].priority <= ps[h].priority
    BY <1>4, <2>2
  <2>6. \A h \in Server : /\ left2[h] = IF h = r THEN left[h] - 1 ELSE left[h]
                          /\ until2[h] = until[h] - 1
    BY <1>3, <1>6, <2>3
  <2>7. ServesOne(ps, left, until, left2, until2, r)
    BY <2>4, <2>5, <2>6 DEF ServesOne
  <2> QED
    BY <1>2, <1>8, <2>7, ServeBusy
<1> QED
  BY <1>9, <1>10

LEMMA LevelRelease ==
  ASSUME SERVERS \in ServerParams, LevelInv, NoOverrun, FP!Release,
         LeftBudget \in [Server -> Nat], UntilRelease \in [Server -> Nat],
         LeftBudget' \in [Server -> Nat], UntilRelease' \in [Server -> Nat]
  PROVE  LevelInv'
<1>1. PICK left, until, left2, until2, ps, due :
        /\ left = LeftBudget /\ until = UntilRelease
        /\ left2 = LeftBudget' /\ until2 = UntilRelease' /\ ps = SERVERS
        /\ due = {s \in Server : UntilRelease[s] = 0}
  OBVIOUS
<1>2. /\ left \in [Server -> Nat] /\ until \in [Server -> Nat]
      /\ left2 \in [Server -> Nat] /\ until2 \in [Server -> Nat]
      /\ ps \in ServerParams /\ SERVERS' = ps /\ due \in SUBSET Server
      /\ \A s \in Server : \E e : Busy(ps, left, until, s, e)
  BY <1>1 DEF LevelInv, FP!Release
<1>3. \A h \in due : left[h] = 0 /\ until[h] = 0
  BY <1>1 DEF NoOverrun
<1>4. \A h \in Server :
        /\ left2[h] = IF h \in due THEN ps[h].budget ELSE left[h]
        /\ until2[h] = IF h \in due THEN ps[h].period ELSE until[h]
  BY <1>1 DEF FP!Release
<1>5. SUFFICES ASSUME NEW s \in Server
               PROVE  \E e : Busy(ps, left2, until2, s, e)
  BY <1>1, <1>2 DEF LevelInv
<1>6. PICK e : Busy(ps, left, until, s, e)
  BY <1>2
<1>7. ReleasesAll(ps, left, until, left2, until2, due)
  BY <1>2, <1>3, <1>4 DEF ReleasesAll
<1>8. Busy(ps, left2, until2, s, e)
  BY <1>2, <1>6, <1>7, ReleaseBusy
<1> QED
  BY <1>8

LEMMA LevelNext ==
  ASSUME SERVERS \in ServerParams, LevelInv, NoOverrun, PeriodicStep,
         LeftBudget \in [Server -> Nat], UntilRelease \in [Server -> Nat],
         LeftBudget' \in [Server -> Nat], UntilRelease' \in [Server -> Nat]
  PROVE  LevelInv'
<1>1. CASE FP!Serve
  BY <1>1, LevelServe
<1>2. CASE FP!Release
  BY <1>2, LevelRelease
<1>3. CASE UNCHANGED FP!vars
  BY <1>3 DEF FP!vars, LevelInv
<1> QED
  BY <1>1, <1>2, <1>3 DEF PeriodicStep

\* What holds of the servers when the core has the time for them.
ScheduledInv == Schedulable(SERVERS) => ServedExactly /\ LevelInv

BudgetsInv ==
  /\ SERVERS \in ServerParams
  /\ LeftBudget \in [Server -> Nat]
  /\ UntilRelease \in [Server -> Nat]

LEMMA BudgetsAlways ==
  ASSUME Measurable, MaxLate = 0
  PROVE  Spec => [](TypeInv /\ HeadInv /\ TimeInv /\ BudgetsInv)
<1>1. ASSUME TypeInv, HeadInv, TimeInv
      PROVE  BudgetsInv
  BY <1>1, BudgetsNat DEF BudgetsInv, TypeInv, TypeOK
<1>2. TypeInv /\ HeadInv /\ TimeInv => TypeInv /\ HeadInv /\ TimeInv /\ BudgetsInv
  BY <1>1
<1> QED
  BY <1>2, TimeAlways, PTL

LEMMA ScheduledInit ==
  ASSUME Init
  PROVE  ScheduledInv
<1>1. /\ SERVERS \in ServerParams /\ FIRST_RUN
      /\ \A s \in Server : ~running[s]
  BY DEF Init
<1>2. ServedExactly
  BY <1>1 DEF ServedExactly
<1>3. PICK left, until : left = LeftBudget /\ until = UntilRelease
  OBVIOUS
<1>4. /\ left \in [Server -> Nat] /\ until \in [Server -> Nat]
      /\ \A s \in Server : left[s] = 0
  BY <1>1, <1>3 DEF LeftBudget, UntilRelease
<1>5. LevelInv
  <2>1. SUFFICES ASSUME NEW s \in Server
                 PROVE  \E e : Busy(SERVERS, left, until, s, e)
    BY <1>3 DEF LevelInv
  <2>2. Above(SERVERS, s) \in SUBSET Server
    BY <1>1, ParamsOf
  <2> QED
    BY <1>1, <1>4, <2>2, IdleBusy
<1> QED
  BY <1>2, <1>5 DEF ScheduledInv

LEMMA SameServers ==
  ASSUME [Next]_vars
  PROVE  SERVERS' = SERVERS
<1>1. CASE server_release_handler
  BY <1>1 DEF server_release_handler, ReleaseWhenIdle, ReleasePreempts,
              ReleaseNoResched, EnterRelease, static
<1>2. CASE server_complete_handler
  BY <1>2 DEF server_complete_handler, CompleteServer, WrongExpiredServer,
              static
<1>3. CASE Tick \/ UNCHANGED vars
  BY <1>3 DEF Tick, vars, static
<1>4. ASSUME NEW s \in Server, CacheMiss(s) \/ MemoryOverflow(s) \/ StrayMiss(s)
      PROVE  SERVERS' = SERVERS
  <2>1. CASE CacheMiss(s)
    BY <2>1 DEF CacheMiss, static
  <2>2. CASE MemoryOverflow(s)
    BY <2>2 DEF MemoryOverflow, deferred_memory_work, CompleteServer,
               WrongExpiredServer, static
  <2>3. CASE StrayMiss(s)
    BY <2>3 DEF StrayMiss, deferred_memory_work, CompleteServer,
               WrongExpiredServer, static
  <2> QED
    BY <1>4, <2>1, <2>2, <2>3
<1> QED
  BY <1>1, <1>2, <1>3, <1>4 DEF Next

LEMMA ScheduledNext ==
  ASSUME Measurable, MaxLate = 0, TypeInv, HeadInv, TimeInv, BudgetsInv,
         BudgetsInv', ScheduledInv, [Next]_vars
  PROVE  ScheduledInv' /\ [FP!Next]_(FP!vars)
<1>1. SERVERS' = SERVERS
  BY SameServers
<1>2. CASE Schedulable(SERVERS)
  <2>1. ServedExactly /\ LevelInv
    BY <1>2 DEF ScheduledInv
  <2>2. NoOverrun
    BY <1>2, <2>1, LevelNoOverrun DEF BudgetsInv
  <2>3. ServedExactly' /\ PeriodicStep
    BY <2>1, <2>2, PeriodicNext
  <2>4. LevelInv'
    BY <2>1, <2>2, <2>3, LevelNext DEF BudgetsInv
  <2>5. [FP!Next]_(FP!vars)
    BY <2>3 DEF PeriodicStep, FP!Next
  <2> QED
    BY <2>3, <2>4, <2>5 DEF ScheduledInv
<1>3. CASE ~Schedulable(SERVERS)
  <2>1. ScheduledInv'
    BY <1>1, <1>3 DEF ScheduledInv
  <2>2. FP!Overload
    BY <1>1, <1>3 DEF FP!Overload, SchedulableParams
  <2> QED
    BY <2>1, <2>2 DEF FP!Next
<1> QED
  BY <1>2, <1>3

\* With softirqs on time, no server overruns when the exact test for fixed
\* priorities says so: a server that is due has had its whole budget, however
\* the releases of the servers meet.
THEOREM NeverOverruns ==
  ASSUME Measurable, MaxLate = 0
  PROVE  Spec => [](Schedulable(SERVERS) => NoOverrun)
<1>1. Init => ScheduledInv
  BY ScheduledInit
<1>2. TypeInv /\ HeadInv /\ TimeInv /\ BudgetsInv /\ BudgetsInv'
        /\ ScheduledInv /\ [Next]_vars => ScheduledInv'
  BY ScheduledNext
<1>3. BudgetsInv /\ ScheduledInv => (Schedulable(SERVERS) => NoOverrun)
  BY LevelNoOverrun DEF BudgetsInv, ScheduledInv
<1> QED
  BY <1>1, <1>2, <1>3, BudgetsAlways, PTL DEF Spec

\* With softirqs on time the handlers implement periodic servers under
\* preemptive fixed-priority scheduling, jiffy for jiffy, for all periods and
\* budgets that the core has the time for, however the counter of jiffies and
\* the release queue wrap.
THEOREM PeriodicServers ==
  ASSUME Measurable, MaxLate = 0
  PROVE  Spec => ImplementsFPServers
<1>1. Init => FP!Init
  BY DEF Init, FP!Init, LeftBudget, UntilRelease
<1>2. Init => ScheduledInv
  BY ScheduledInit
<1>3. TypeInv /\ HeadInv /\ TimeInv /\ BudgetsInv /\ BudgetsInv'
        /\ ScheduledInv /\ [Next]_vars => ScheduledInv' /\ [FP!Next]_(FP!vars)
  BY ScheduledNext
<1> QED
  BY <1>1, <1>2, <1>3, BudgetsAlways, PTL
     DEF Spec, ImplementsFPServers, FP!Spec
=============================================================================
