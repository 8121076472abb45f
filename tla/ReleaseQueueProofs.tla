------------------------- MODULE ReleaseQueueProofs -------------------------
(***************************************************************************)
(* The release queue under its client is a timetable, for every number of  *)
(* nodes, all periods, every size of an int and every order of insertion,  *)
(* and the ready queue that the released servers go to stays intact.       *)
(***************************************************************************)
EXTENDS ReleaseQueue, RelPqProofs

----------------------------------------------------------------------------
(* The invariant.                                                          *)

HoldsAll(q) == Sound(q) /\ Held(q) = Server /\ Largest <= Wrap(q)

\* The queue tells the times d, the first of which is after w.
Tells(q, d, w) ==
  /\ d \in [Server -> Int] /\ Timed(q, d) /\ Ahead(q)
  /\ w \in Nat
  /\ \E n \in Server : d[n] = w
  /\ \A n \in Server : w <= d[n] /\ d[n] <= Largest
  /\ w = 0 => \A n \in Server : d[n] < Largest

QueueInv ==
  /\ period \in [Server -> Period]
  /\ HoldsAll(queue)
  /\ Tells(queue, Due, wait)

LEMMA LargestProperty ==
  ASSUME Period # {}
  PROVE  /\ Largest \in Nat \ {0}
         /\ \A p \in Period : p \in Nat \ {0} /\ p <= Largest
<1> DEFINE f == [p \in Period |-> p]
<1>1. f \in [Period -> Nat] /\ IsFiniteSet(Period)
  BY PeriodAssumption
<1>2. \E m \in Period : \A p \in Period : f[p] <= f[m]
  <2> HIDE DEF f
  <2> QED
    BY <1>1, FiniteMax
<1>3. \E m \in Period : \A p \in Period : p <= m
  BY <1>2
<1>4. Largest \in Period /\ \A p \in Period : p <= Largest
  BY <1>3 DEF Largest
<1> QED
  BY <1>4, PeriodAssumption

LEMMA PeriodsFit ==
  ASSUME NEW p, p \in [Server -> Period]
  PROVE  /\ p \in [Server -> Nat] /\ Largest \in Nat \ {0}
         /\ \A n \in Server : p[n] \in 1 .. Largest
<1>1. Period # {}
  BY RelPqAssumption
<1>2. \A n \in Server : p[n] \in Nat \ {0} /\ p[n] <= Largest
  BY <1>1, LargestProperty
<1> QED
  BY <1>1, <1>2, LargestProperty

LEMMA DueRead ==
  /\ Due = TimesIn(queue)
  /\ Due' = TimesIn(queue')
BY DEF Due, TimesIn

----------------------------------------------------------------------------
(* One lemma for each action.                                              *)

LEMMA QueueInit ==
  ASSUME Init
  PROVE  QueueInv /\ Due \in [Server -> 1 .. Largest]
<1>1. period \in [Server -> Period]
  BY DEF Init
<1>2. PICK order \in Orders(Server) :
        LET position == [s \in Server |-> CHOOSE i \in DOMAIN order : order[i] = s]
            next == FetchNext(InsertAll(
                      [RelPqInit(Largest) EXCEPT !.since = position], period))
        IN  queue = next.queue /\ wait = next.event
  BY DEF Init
<1>3. PICK position : position = [s \in Server |-> CHOOSE i \in DOMAIN order : order[i] = s]
  OBVIOUS
<1>4. PICK empty, q, next :
        /\ empty = [RelPqInit(Largest) EXCEPT !.since = position]
        /\ q = InsertAll(empty, period)
        /\ next = FetchNext(q)
  OBVIOUS
<1>5. queue = next.queue /\ wait = next.event
  BY <1>2, <1>3, <1>4
<1>6. /\ period \in [Server -> Nat] /\ Largest \in Nat \ {0}
      /\ \A n \in Server : period[n] \in 1 .. Largest
  BY <1>1, PeriodsFit
<1>7. position \in [Server -> Nat]
  <2> SUFFICES ASSUME NEW s \in Server
               PROVE  (CHOOSE i \in DOMAIN order : order[i] = s) \in Nat
    BY <1>3
  <2>1. /\ Elements(order) = Server
        /\ order \in [1 .. Cardinality(Server) -> Server]
    BY DEF Orders
  <2>2. \E i \in DOMAIN order : order[i] = s
    <3>1. Len(order) = Cardinality(Server)
      BY <2>1, RelPqAssumption, FS_CardinalityType
    <3> QED
      BY <2>1, <3>1 DEF Elements
  <2>3. Cardinality(Server) \in Nat
    BY RelPqAssumption, FS_CardinalityType
  <2> QED
    BY <2>1, <2>2, <2>3
<1>8. Sound(empty) /\ Held(empty) = {} /\ Wrap(empty) >= Largest
  BY <1>4, <1>6, <1>7, RelPqInitSound
<1>9. Sound(q) /\ Held(q) = Server /\ q.bitmap_size = empty.bitmap_size
  <2>1. period \in [Server -> 1 .. 2 * Wrap(empty)]
    <3>1. Wrap(empty) \in Nat
      BY <1>8, WrapType
    <3>2. \A n \in Server : period[n] \in 1 .. 2 * Wrap(empty)
      BY <1>6, <1>8, <3>1
    <3> QED
      BY <1>6, <3>2
  <2>2. Server \in SUBSET Server /\ Server \cap Held(empty) = {}
    BY <1>8
  <2>3. PICK at : at = period
    OBVIOUS
  <2>4. q = InsertAll(empty, at) /\ Sound(empty)
    BY <1>4, <1>8, <2>3
  <2>5. /\ Sound(q) /\ Held(q) = Held(empty) \cup Server
        /\ q.bitmap_size = empty.bitmap_size
    BY <2>1, <2>2, <2>3, <2>4, InsertAllSound
  <2> QED
    BY <1>8, <2>5
<1>10. Timed(q, period) /\ Ahead(q) /\ q.virtual_time = 0
  BY <1>4, <1>6, <1>7, RelPqInitDue
<1>11. Wrap(q) = Wrap(empty) /\ Wrap(q) \in Nat
  BY <1>8, <1>9, WrapType DEF Wrap
<1>12. /\ next.event \in 1 .. Wrap(q) /\ next.node \in Server
       /\ Sound(next.queue) /\ Held(next.queue) = Server
       /\ next.queue.bitmap_size = q.bitmap_size
  BY <1>4, <1>9, RelPqAssumption, FetchNextSound
<1>13. period \in [Server -> Int]
  BY <1>6
<1>14. /\ Timed(next.queue, period) /\ Ahead(next.queue)
       /\ next.event = next.queue.virtual_time + period[next.node]
       /\ \A n \in Server : period[next.node] <= period[n]
       /\ next.queue.virtual_time \in {q.virtual_time, q.virtual_time - Wrap(q)}
  BY <1>4, <1>9, <1>10, <1>13, RelPqAssumption, FetchNextFirst
<1>15. next.event = period[next.node]
  <2>1. period[next.node] <= Wrap(q) /\ period[next.node] \in Nat
    BY <1>6, <1>8, <1>11, <1>12
  <2>2. next.queue.virtual_time \in {0, 0 - Wrap(q)}
    BY <1>10, <1>14
  <2>3. next.event >= 1
    BY <1>12
  <2> QED
    BY <1>11, <1>14, <2>1, <2>2, <2>3
<1>16. HoldsAll(queue)
  BY <1>5, <1>8, <1>11, <1>12 DEF HoldsAll, Wrap
<1>17. Due = period
  <2>1. IsRelPq(queue) /\ Held(queue) = Server /\ Timed(queue, period)
    BY <1>5, <1>14, <1>16 DEF HoldsAll, Sound, Typed
  <2> QED
    BY <1>13, <2>1, TimesRead, DueRead
<1>18. Tells(queue, period, wait)
  <2>1. wait \in Nat /\ wait >= 1 /\ wait = period[next.node]
    BY <1>5, <1>11, <1>12, <1>15
  <2>2. \A n \in Server : wait <= period[n] /\ period[n] <= Largest
    BY <1>6, <1>14, <2>1
  <2> QED
    BY <1>5, <1>12, <1>13, <1>14, <2>1, <2>2 DEF Tells
<1> QED
  BY <1>1, <1>6, <1>16, <1>17, <1>18 DEF QueueInv

\* A queue with the nodes and the length of a sound one, told other times.
LEMMA Told ==
  ASSUME QueueInv, period' = period,
         Sound(queue'), Held(queue') = Server,
         queue'.bitmap_size = queue.bitmap_size,
         NEW d, Tells(queue', d, wait')
  PROVE  QueueInv' /\ Due' = d
<1>1. HoldsAll(queue')
  BY DEF QueueInv, HoldsAll, Wrap
<1>2. IsRelPq(queue') /\ d \in [Server -> Int] /\ Timed(queue', d)
  BY DEF Sound, Typed, Tells
<1>3. Due' = d
  BY <1>2, TimesRead, DueRead
<1> QED
  BY <1>1, <1>3 DEF QueueInv

LEMMA QueueWait ==
  ASSUME QueueInv, Wait
  PROVE  QueueInv' /\ TT!Pass
<1>1. PICK t \in 1 .. wait :
        /\ queue' = [queue EXCEPT !.virtual_time = @ + t]
        /\ wait' = wait - t
        /\ period' = period
  BY DEF Wait
<1>2. PICK d : d = Due
  OBVIOUS
<1>3. /\ Sound(queue) /\ Held(queue) = Server /\ Tells(queue, d, wait)
      /\ Largest \in Nat \ {0}
  BY <1>2, PeriodsFit DEF QueueInv, HoldsAll
<1>4. /\ d \in [Server -> Int] /\ Timed(queue, d) /\ Ahead(queue)
      /\ wait \in Nat
      /\ \E n \in Server : d[n] = wait
      /\ \A n \in Server : wait <= d[n] /\ d[n] <= Largest /\ d[n] \in Int
  BY <1>3 DEF Tells
<1>5. t \in Nat /\ t >= 1 /\ t <= wait /\ t \in Int
  BY <1>4
<1>6. PICK e : e = [n \in Server |-> d[n] - t]
  OBVIOUS
<1>7. IsRelPq(queue) /\ Typed(queue)
  BY <1>3 DEF Sound, Typed
<1>8. Timed(queue', e) /\ Ahead(queue')
  BY <1>1, <1>4, <1>5, <1>6, <1>7, MoveTime
<1>9. Sound(queue') /\ Held(queue') = Server
  <2>1. /\ queue.virtual_time \in Int /\ queue.active_bitmap \in {0, 1}
        /\ queue.active_bitmap_int_index \in Nat
    BY <1>7 DEF IsRelPq
  <2>2. queue' = [queue EXCEPT
                    !.active_bitmap = queue.active_bitmap,
                    !.active_bitmap_int_index = queue.active_bitmap_int_index,
                    !.virtual_time = queue.virtual_time + t]
    BY <1>1, <1>7 DEF IsRelPq
  <2>3. queue.virtual_time + t \in Int
    BY <1>5, <2>1
  <2>4. IsRelPq(queue')
    BY <1>7, <2>1, <2>2, <2>3, MovedIsRelPq
  <2>5. /\ SameContent(queue', queue)
        /\ queue'.active_bitmap_int_index = queue.active_bitmap_int_index
        /\ queue'.bitmap_size = queue.bitmap_size
    BY <1>1, <1>7 DEF SameContent, IsRelPq
  <2>6. Typed(queue')
    BY <1>7, <2>4, <2>5 DEF Typed
  <2> QED
    BY <1>3, <2>5, <2>6, SameContentSound
<1>10. Tells(queue', e, wait')
  <2>1. e \in [Server -> Int]
    BY <1>4, <1>5, <1>6
  <2>2. wait' \in Nat /\ wait' = wait - t
    BY <1>1, <1>4, <1>5
  <2>3. \A n \in Server : e[n] = d[n] - t
    BY <1>6
  <2>4. \A n \in Server : wait' <= e[n] /\ e[n] < Largest /\ e[n] <= Largest
    BY <1>3, <1>4, <1>5, <2>2, <2>3
  <2>5. \E n \in Server : e[n] = wait'
    BY <1>4, <2>2, <2>3
  <2> QED
    BY <1>8, <2>1, <2>2, <2>4, <2>5 DEF Tells
<1>11. queue'.bitmap_size = queue.bitmap_size
  BY <1>1, <1>7 DEF IsRelPq
<1>12. QueueInv' /\ Due' = e
  BY <1>1, <1>9, <1>10, <1>11, Told
<1>13. t \in 1 .. Largest /\ \A n \in Server : t <= d[n]
  BY <1>3, <1>4, <1>5, RelPqAssumption
<1> QED
  BY <1>2, <1>6, <1>12, <1>13 DEF TT!Pass

LEMMA QueueRelease ==
  ASSUME QueueInv, Release
  PROVE  QueueInv' /\ TT!Release
<1>1. PICK step : /\ step = ReleaseDue(queue, period)
                  /\ queue' = step.queue /\ wait' = step.relative
                  /\ wait = 0 /\ period' = period
  BY DEF Release
<1>2. PICK d : d = Due
  OBVIOUS
<1>3. /\ Sound(queue) /\ Held(queue) = Server /\ Tells(queue, d, 0)
      /\ Largest \in Nat \ {0} /\ Largest <= Wrap(queue)
      /\ period \in [Server -> Nat]
      /\ \A n \in Server : period[n] \in 1 .. Largest
  BY <1>1, <1>2, PeriodsFit DEF QueueInv, HoldsAll
<1>4. /\ d \in [Server -> Int] /\ Timed(queue, d) /\ Ahead(queue)
      /\ \E n \in Server : d[n] = 0
      /\ \A n \in Server : 0 <= d[n] /\ d[n] < Largest /\ d[n] \in Int
  BY <1>3 DEF Tells
<1>5. PICK wrap : wrap = Wrap(queue) /\ wrap \in Nat \ {0}
  BY <1>3, WrapType
<1>6. \A n \in Server : period[n] \in 1 .. Wrap(queue)
  BY <1>3, <1>5
<1>7. OneRound(queue, d)
  <2>1. \A n, m \in Server : d[n] - d[m] < wrap
    BY <1>3, <1>4, <1>5
  <2> QED
    BY <1>3, <1>5, <2>1 DEF OneRound
<1>8. PICK e : e = [n \in Server |-> IF d[n] = 0 THEN period[n] ELSE d[n]]
  OBVIOUS
<1>9. PutBack(queue, d, period) = e
  <2>1. DueFirst(queue, d) = {n \in Server : d[n] = 0}
    BY <1>3, <1>4 DEF DueFirst
  <2>2. \A n \in Server : d[n] = 0 => d[n] + period[n] = period[n]
    BY <1>3
  <2> QED
    BY <1>8, <2>1, <2>2 DEF PutBack
<1>10. Held(queue) # {}
  BY <1>3, RelPqAssumption
<1>11. ReleasesDue(step, queue, e)
  BY <1>1, <1>3, <1>4, <1>6, <1>7, <1>9, <1>10, ReleaseDueFirst
<1>12. /\ Sound(queue') /\ Held(queue') = Server /\ step.node \in Server
       /\ queue'.bitmap_size = queue.bitmap_size
  BY <1>1, <1>3, <1>6, <1>10, ReleaseDueSound
<1>13. Tells(queue', e, wait')
  <2>1. \A n \in Server : e[n] \in Nat /\ e[n] >= 1 /\ e[n] <= Largest
    BY <1>3, <1>4, <1>8
  <2>2. e \in [Server -> Int]
    BY <1>8, <2>1
  <2>3. /\ Timed(queue', e) /\ Ahead(queue') /\ wait' = e[step.node]
        /\ \A n \in Server : e[step.node] <= e[n]
    BY <1>1, <1>3, <1>11 DEF ReleasesDue
  <2>4. wait' \in Nat /\ wait' # 0
    BY <1>12, <2>1, <2>3
  <2> QED
    BY <1>12, <2>1, <2>2, <2>3, <2>4 DEF Tells
<1>14. QueueInv' /\ Due' = e
  BY <1>1, <1>12, <1>13, Told
<1>15. period \in [Server -> 1 .. Largest]
  BY <1>3
<1> QED
  BY <1>2, <1>4, <1>8, <1>14, <1>15 DEF TT!Release

LEMMA QueueLook ==
  ASSUME QueueInv, Look
  PROVE  QueueInv' /\ Due' = Due
<1>1. PICK next : /\ next = FetchNext(queue)
                  /\ queue' = next.queue
                  /\ wait' = next.event - next.queue.virtual_time
                  /\ wait > 0 /\ period' = period
  BY DEF Look
<1>2. PICK d : d = Due
  OBVIOUS
<1>3. Sound(queue) /\ Held(queue) = Server /\ Tells(queue, d, wait)
  BY <1>2 DEF QueueInv, HoldsAll
<1>4. /\ d \in [Server -> Int] /\ Timed(queue, d) /\ Ahead(queue)
      /\ wait \in Nat
      /\ \E n \in Server : d[n] = wait
      /\ \A n \in Server : wait <= d[n] /\ d[n] <= Largest /\ d[n] \in Int
  BY <1>3 DEF Tells
<1>5. Held(queue) # {}
  BY <1>3, RelPqAssumption
<1>6. /\ Sound(queue') /\ Held(queue') = Server /\ next.node \in Server
      /\ queue'.bitmap_size = queue.bitmap_size
  BY <1>1, <1>3, <1>5, FetchNextSound
<1>7. /\ Timed(queue', d) /\ Ahead(queue')
      /\ next.event = queue'.virtual_time + d[next.node]
      /\ \A n \in Server : d[next.node] <= d[n]
  BY <1>1, <1>3, <1>4, <1>5, FetchNextFirst
<1>8. wait' = wait
  <2>1. d[next.node] = wait
    BY <1>4, <1>6, <1>7
  <2>2. IsRelPq(queue')
    BY <1>6 DEF Sound, Typed
  <2>3. queue'.virtual_time \in Int
    BY <2>2 DEF IsRelPq
  <2> QED
    BY <1>1, <1>4, <1>7, <2>1, <2>3
<1>9. Tells(queue', d, wait')
  BY <1>1, <1>3, <1>7, <1>8 DEF Tells
<1> QED
  BY <1>1, <1>2, <1>6, <1>9, Told

LEMMA QueueStays ==
  ASSUME QueueInv, UNCHANGED <<period, queue, wait>>
  PROVE  QueueInv' /\ Due' = Due
<1>1. Due' = Due
  BY DueRead
<1> QED
  BY <1>1 DEF QueueInv

\* Every step is a step of a timetable or leaves the times as they are.
LEMMA QueueNext ==
  ASSUME QueueInv, [Next]_vars
  PROVE  QueueInv' /\ [TT!Next]_Due
<1>1. CASE Wait
  BY <1>1, QueueWait DEF TT!Next
<1>2. CASE Release
  BY <1>2, QueueRelease DEF TT!Next
<1>3. CASE Look
  BY <1>3, QueueLook
<1>4. CASE Complete
  BY <1>4, QueueStays DEF Complete
<1>5. CASE UNCHANGED vars
  BY <1>5, QueueStays DEF vars
<1> QED
  BY <1>1, <1>2, <1>3, <1>4, <1>5 DEF Next

----------------------------------------------------------------------------
(* The ready queue.                                                        *)

OrNone == Server \cup {NoServer}
IsReadyQueue(q) ==
  /\ q.bitmap \subseteq 0 .. INT_SIZE_BIT - 1
  /\ q.bitmap_extension \in [0 .. INT_SIZE_BIT -> OrNone]
  /\ q.next \in [Server -> OrNone]
  /\ q = [ bitmap |-> q.bitmap, bitmap_extension |-> q.bitmap_extension,
           next |-> q.next ]

\* The first server of priority p behind entry number i of list r is x.
FirstAfter(r, pr, i, p, x) ==
  \/ x = NoServer /\ \A j \in i + 1 .. Len(r) : pr[r[j]] # p
  \/ \E j \in i + 1 .. Len(r) :
       /\ x = r[j] /\ pr[r[j]] = p
       /\ \A k \in i + 1 .. j - 1 : pr[r[k]] # p

\* Queue q links the servers of list r, those of each priority in their order.
Links(q, r, pr) ==
  /\ IsReadyQueue(q)
  /\ r \in Seq(Server) /\ Distinct(r)
  /\ \A p \in 0 .. INT_SIZE_BIT :
       /\ FirstAfter(r, pr, 0, p, q.bitmap_extension[p])
       /\ p \in q.bitmap <=> q.bitmap_extension[p] # NoServer
  /\ \A i \in 1 .. Len(r) : FirstAfter(r, pr, i, pr[r[i]], q.next[r[i]])

IsPriority(pr) == pr \in [Server -> 0 .. INT_SIZE_BIT - 1]

\* The servers that are reached in n steps.
Reaches(u, n, s, next) ==
  /\ u \in [0 .. n -> SUBSET Server]
  /\ u[0] = {s} \ {NoServer}
  /\ \A k \in 1 .. n : u[k] = u[k - 1] \cup ({next[t] : t \in u[k - 1]} \ {NoServer})

LEMMA LinkedReached ==
  ASSUME NEW q, q.next \in [Server -> OrNone], NEW s \in OrNone,
         NEW n \in Nat, n = Cardinality(Server)
  PROVE  \E u : Reaches(u, n, s, q.next) /\ Linked(q, s) = u[n]
<1> DEFINE on(S) == S \cup ({q.next[t] : t \in S} \ {NoServer})
           step == [k \in 1 .. n |-> [S \in SUBSET Server |-> on(S)]]
           Eq(u) == u = [k \in 0 .. n |-> IF k = 0 THEN {s} \ {NoServer} ELSE on(u[k - 1])]
<1>0. \A S \in SUBSET Server : on(S) \in SUBSET Server
  BY DEF OrNone
<1>1. PICK g \in [0 .. n -> SUBSET Server] :
        g[0] = {s} \ {NoServer} /\ \A k \in 1 .. n : g[k] = step[k][g[k - 1]]
  <2>1. PICK st, X, x : st = step /\ X = SUBSET Server /\ x = {s} \ {NoServer}
    OBVIOUS
  <2>2. x \in X
    BY <2>1 DEF OrNone
  <2>3. StepsOn(st, n, X)
    <3> HIDE DEF on
    <3> QED
      BY <1>0, <2>1 DEF StepsOn
  <2> HIDE DEF step
  <2>4. PICK g : IteratesTo(g, st, n, X, x)
    BY <2>2, <2>3, Iterated
  <2> QED
    BY <2>1, <2>4 DEF IteratesTo
<1>2. \A k \in 1 .. n : k - 1 \in 0 .. n /\ g[k] = on(g[k - 1])
  <2> HIDE DEF on
  <2> SUFFICES ASSUME NEW k \in 1 .. n
               PROVE  k - 1 \in 0 .. n /\ g[k] = on(g[k - 1])
    OBVIOUS
  <2>1. k - 1 \in 0 .. n /\ g[k - 1] \in SUBSET Server
    OBVIOUS
  <2>2. step[k][g[k - 1]] = on(g[k - 1])
    BY <2>1
  <2> QED
    BY <1>1, <2>1, <2>2
<1>3. Eq(g)
  <2> HIDE DEF on
  <2> QED
    BY <1>1, <1>2
<1>4. PICK u : u = CHOOSE h : Eq(h)
  OBVIOUS
<1>5. Eq(u)
  BY <1>3, <1>4
<1>6. Linked(q, s) = u[n]
  BY <1>4 DEF Linked
<1>7. u[0] = {s} \ {NoServer} /\ \A k \in 1 .. n : u[k] = on(u[k - 1])
  <2>1. 0 \in 0 .. n /\ \A k \in 1 .. n : k \in 0 .. n /\ k # 0
    OBVIOUS
  <2> QED
    BY <1>5, <2>1, Zenon
<1>8. ASSUME NEW k \in 0 .. n
      PROVE  u[k] = g[k]
  <2> HIDE DEF on, step
  <2> DEFINE S == {i \in 0 .. n : u[i] = g[i]}
  <2>1. 0 \in S
    <3>1. u[0] = {s} \ {NoServer} /\ g[0] = {s} \ {NoServer}
      BY <1>1, <1>7, Zenon
    <3>2. u[0] = g[0]
      BY <3>1
    <3>3. 0 \in 0 .. n
      OBVIOUS
    <3> QED
      BY <3>2, <3>3
  <2>2. ASSUME NEW i \in 1 .. n, i - 1 \in S
        PROVE  i \in S
    <3>1. u[i] = on(u[i - 1]) /\ g[i] = on(g[i - 1]) /\ u[i - 1] = g[i - 1]
      BY <1>2, <1>7, <2>2
    <3>2. u[i] = g[i]
      BY <3>1
    <3> QED
      BY <3>2
  <2> HIDE DEF S
  <2>3. 0 .. n \subseteq S
    BY <2>1, <2>2, UpTo
  <2> QED
    BY <2>3 DEF S
<1>9. u = g
  <2> HIDE DEF on
  <2> QED
    BY <1>1, <1>5, <1>8
<1> QED
  BY <1>6, <1>7, <1>9 DEF Reaches

LEMMA Sizes ==
  /\ INT_SIZE_BIT \in Nat \ {0} /\ NoServer \notin Server
  /\ IsFiniteSet(Server) /\ Cardinality(Server) \in Nat
BY RelPqAssumption, PeriodAssumption, FS_CardinalityType

\* A list of servers without duplicates is no longer than their number.
LEMMA ReadyLen ==
  ASSUME NEW r \in Seq(Server), Distinct(r)
  PROVE  Len(r) \in Nat /\ Len(r) <= Cardinality(Server)
<1>1. Elements(r) \subseteq Server
  BY ElementOfSeq, LenProperties DEF Elements
<1>2. Cardinality(Elements(r)) = Len(r)
  BY DistinctLen
<1> QED
  BY <1>1, <1>2, Sizes, FS_Subset, LenProperties

\* No entry between numbers j and i has priority p.
NoneBetween(r, pr, p, j, i) == \A k \in j + 1 .. i - 1 : pr[r[k]] # p

\* There is one first server of a priority behind an entry.
LEMMA FirstIs ==
  ASSUME NEW r \in Seq(Server), NEW pr, NEW p, NEW x, NEW j \in 0 .. Len(r),
         FirstAfter(r, pr, j, p, x), NEW i \in j + 1 .. Len(r), pr[r[i]] = p,
         NoneBetween(r, pr, p, j, i)
  PROVE  x = r[i]
<1>0. Len(r) \in Nat
  BY LenProperties
<1>1. PICK h \in j + 1 .. Len(r) :
        x = r[h] /\ pr[r[h]] = p /\ \A k \in j + 1 .. h - 1 : pr[r[k]] # p
  BY DEF FirstAfter
<1>2. \A k \in j + 1 .. i - 1 : pr[r[k]] # p
  BY DEF NoneBetween
<1>3. h = i
  BY <1>0, <1>1, <1>2
<1> QED
  BY <1>1, <1>3

\* Entry number j is the last one of priority p before entry number i.
IsLastBefore(r, pr, p, i, j) ==
  pr[r[j]] = p /\ NoneBetween(r, pr, p, j, i)

LEMMA LastBefore ==
  ASSUME NEW r, NEW pr, NEW p, NEW i \in Nat,
         NEW h \in 1 .. i - 1, pr[r[h]] = p
  PROVE  \E j \in 1 .. i - 1 : IsLastBefore(r, pr, p, i, j)
<1> DEFINE S == {j \in 1 .. i - 1 : pr[r[j]] = p}
           f == [j \in S |-> j]
<1>1. IsFiniteSet(S)
  <2>1. S \subseteq 1 .. i - 1 /\ 1 \in Int /\ i - 1 \in Int
    OBVIOUS
  <2>2. IsFiniteSet(1 .. i - 1)
    BY <2>1, FS_Interval, Zenon
  <2> QED
    BY <2>1, <2>2, FS_Subset
<1>2. S # {} /\ f \in [S -> Nat] /\ \A j \in S : f[j] = j
  OBVIOUS
<1>3. PICK j \in S : \A k \in S : k <= j
  <2> HIDE DEF S, f
  <2>1. \E j \in S : \A k \in S : f[k] <= f[j]
    BY <1>1, <1>2, FiniteMax
  <2> QED
    BY <1>2, <2>1
<1>4. \A k \in j + 1 .. i - 1 : k \in 1 .. i - 1 /\ ~(k <= j)
  OBVIOUS
<1> QED
  BY <1>3, <1>4 DEF IsLastBefore, NoneBetween

\* The servers linked from the head of a priority are those of the list with it.
LEMMA ListRead ==
  ASSUME NEW q, NEW r, NEW pr, Links(q, r, pr), NEW p \in 0 .. INT_SIZE_BIT
  PROVE  Linked(q, q.bitmap_extension[p]) = {s \in Elements(r) : pr[s] = p}
<1> DEFINE C == {s \in Elements(r) : pr[s] = p}
<1>0. /\ r \in Seq(Server) /\ Distinct(r) /\ Len(r) \in Nat
      /\ q.next \in [Server -> OrNone]
      /\ q.bitmap_extension[p] \in OrNone
      /\ FirstAfter(r, pr, 0, p, q.bitmap_extension[p])
      /\ \A i \in 1 .. Len(r) : FirstAfter(r, pr, i, pr[r[i]], q.next[r[i]])
  BY LenProperties DEF Links, IsReadyQueue
<1>1. \A i \in 1 .. Len(r) : r[i] \in Server
  BY <1>0, ElementOfSeq
<1>2. PICK n \in Nat : n = Cardinality(Server)
  BY Sizes
<1>3. PICK s, next : s = q.bitmap_extension[p] /\ next = q.next
  OBVIOUS
<1>4. PICK u : Reaches(u, n, s, next) /\ Linked(q, s) = u[n]
  BY <1>0, <1>2, <1>3, LinkedReached
<1>5. /\ u \in [0 .. n -> SUBSET Server]
      /\ u[0] = {s} \ {NoServer}
      /\ \A k \in 1 .. n : u[k] = u[k - 1] \cup ({next[t] : t \in u[k - 1]} \ {NoServer})
  BY <1>4 DEF Reaches
<1>6. u[n] \subseteq C
  <2> DEFINE S == {k \in 0 .. n : u[k] \subseteq C}
  <2>1. 0 \in S
    <3>1. s \in C \cup {NoServer}
      BY <1>0, <1>3 DEF FirstAfter, Elements
    <3> QED
      BY <1>5, <3>1
  <2>2. ASSUME NEW k \in 1 .. n, k - 1 \in S
        PROVE  k \in S
    <3>1. ASSUME NEW t \in u[k - 1]
          PROVE  next[t] \in C \cup {NoServer}
      <4>1. t \in C
        BY <2>2, <3>1
      <4>2. PICK i \in 1 .. Len(r) : t = r[i] /\ pr[r[i]] = p
        BY <4>1 DEF Elements
      <4>3. FirstAfter(r, pr, i, p, next[t])
        BY <1>0, <1>3, <4>2
      <4> QED
        BY <1>0, <4>3 DEF FirstAfter, Elements
    <3>2. u[k - 1] \subseteq C
      BY <2>2
    <3>3. u[k] \subseteq C
      <4> HIDE DEF C
      <4> QED
        BY <1>5, <3>1, <3>2
    <3> QED
      BY <3>3
  <2> HIDE DEF S, C
  <2>3. 0 .. n \subseteq S
    BY <2>1, <2>2, UpTo
  <2> QED
    BY <2>3 DEF S
<1>7. C \subseteq u[n]
  <2> DEFINE T == {k \in 0 .. n : \A i \in 1 .. Len(r) :
                                    i <= k + 1 /\ pr[r[i]] = p => r[i] \in u[k]}
  <2>1. ASSUME NEW k \in 0 .. n, k # 0 => k - 1 \in T
        PROVE  k \in T
    <3> SUFFICES ASSUME NEW i \in 1 .. Len(r), i <= k + 1, pr[r[i]] = p
                 PROVE  r[i] \in u[k]
      OBVIOUS
    <3>1. CASE \E h \in 1 .. i - 1 : pr[r[h]] = p
      <4>0. PICK j \in 1 .. i - 1 : IsLastBefore(r, pr, p, i, j)
        <5>1. PICK h \in 1 .. i - 1 : pr[r[h]] = p
          BY <3>1
        <5>2. i \in Nat
          BY <1>0
        <5> QED
          BY <5>1, <5>2, LastBefore
      <4>1. pr[r[j]] = p /\ NoneBetween(r, pr, p, j, i)
        BY <4>0 DEF IsLastBefore
      <4>2. /\ j \in 1 .. Len(r) /\ j \in 0 .. Len(r) /\ i \in j + 1 .. Len(r)
            /\ k \in 1 .. n /\ j <= (k - 1) + 1
        BY <1>0, <4>1
      <4>3. r[j] \in u[k - 1]
        BY <2>1, <4>1, <4>2
      <4>4. next[r[j]] = r[i]
        <5>1. FirstAfter(r, pr, j, p, next[r[j]])
          BY <1>0, <1>3, <4>1, <4>2
        <5> QED
          BY <1>0, <4>1, <4>2, <5>1, FirstIs
      <4>5. r[i] # NoServer
        BY <1>1, Sizes
      <4> QED
        BY <1>5, <4>2, <4>3, <4>4, <4>5
    <3>2. CASE \A h \in 1 .. i - 1 : pr[r[h]] # p
      <4>1. s = r[i]
        <5>1. i \in 0 + 1 .. Len(r) /\ 0 \in 0 .. Len(r) /\ 0 + 1 = 1
          BY <1>0
        <5>2. FirstAfter(r, pr, 0, p, s)
          BY <1>0, <1>3
        <5>3. NoneBetween(r, pr, p, 0, i)
          BY <3>2 DEF NoneBetween
        <5> QED
          BY <1>0, <5>1, <5>2, <5>3, FirstIs
      <4>2. s \in u[0]
        BY <1>1, <1>5, <4>1, Sizes
      <4>3. u[0] \subseteq u[k]
        <5> DEFINE S == {m \in 0 .. n : u[0] \subseteq u[m]}
        <5>1. 0 \in S /\ \A m \in 1 .. n : m - 1 \in S => m \in S
          BY <1>5
        <5> HIDE DEF S
        <5>2. 0 .. n \subseteq S
          BY <5>1, UpTo
        <5> QED
          BY <5>2 DEF S
      <4> QED
        BY <4>1, <4>2, <4>3
    <3> QED
      BY <3>1, <3>2
  <2>2. 0 \in T /\ \A k \in 1 .. n : k - 1 \in T => k \in T
    <3> HIDE DEF T
    <3>1. 0 \in 0 .. n /\ \A k \in 1 .. n : k \in 0 .. n
      OBVIOUS
    <3> QED
      BY <2>1, <3>1
  <2>3. n \in T
    <3> HIDE DEF T
    <3>1. 0 .. n \subseteq T
      BY <2>2, UpTo
    <3> QED
      BY <3>1
  <2>4. \A i \in 1 .. Len(r) : i <= n + 1
    BY <1>0, <1>2, ReadyLen
  <2> QED
    BY <2>3, <2>4 DEF Elements
<1> QED
  BY <1>3, <1>4, <1>6, <1>7

\* What comes first when server s is appended.
LEMMA FirstAppended ==
  ASSUME NEW r \in Seq(Server), NEW s \in Server, NEW pr, NEW new,
         new = Append(r, s)
  PROVE  /\ \A i \in 0 .. Len(r) : \A p, x :
              FirstAfter(r, pr, i, p, x) =>
                FirstAfter(new, pr, i, p, IF x = NoServer /\ p = pr[s] THEN s ELSE x)
         /\ \A p : FirstAfter(new, pr, Len(new), p, NoServer)
<1>0. /\ Len(r) \in Nat /\ Len(new) = Len(r) + 1
      /\ \A i \in 1 .. Len(r) : new[i] = r[i] /\ r[i] \in Server
      /\ new[Len(r) + 1] = s
  BY Appended, ElementOfSeq, LenProperties
<1>1. ASSUME NEW i \in 0 .. Len(r), NEW p, NEW x, FirstAfter(r, pr, i, p, x)
      PROVE  FirstAfter(new, pr, i, p, IF x = NoServer /\ p = pr[s] THEN s ELSE x)
  <2>1. CASE x = NoServer /\ \A j \in i + 1 .. Len(r) : pr[r[j]] # p
    <3>1. CASE p = pr[s]
      <4>1. /\ Len(r) + 1 \in i + 1 .. Len(new)
            /\ \A k \in i + 1 .. (Len(r) + 1) - 1 : pr[new[k]] # p
        BY <1>0, <2>1
      <4>2. FirstAfter(new, pr, i, p, s)
        BY <1>0, <3>1, <4>1 DEF FirstAfter
      <4> QED
        BY <2>1, <3>1, <4>2
    <3>2. CASE p # pr[s]
      <4>1. \A j \in i + 1 .. Len(new) : pr[new[j]] # p
        BY <1>0, <2>1, <3>2
      <4> QED
        BY <2>1, <3>2, <4>1 DEF FirstAfter
    <3> QED
      BY <3>1, <3>2
  <2>2. ASSUME NEW j \in i + 1 .. Len(r), x = r[j], pr[r[j]] = p,
               \A k \in i + 1 .. j - 1 : pr[r[k]] # p
        PROVE  FirstAfter(new, pr, i, p, IF x = NoServer /\ p = pr[s] THEN s ELSE x)
    <3>1. j \in i + 1 .. Len(new) /\ new[j] = r[j] /\ x # NoServer
      BY <1>0, <2>2, Sizes
    <3>2. \A k \in i + 1 .. j - 1 : new[k] = r[k]
      BY <1>0
    <3>3. FirstAfter(new, pr, i, p, x)
      BY <2>2, <3>1, <3>2 DEF FirstAfter
    <3> QED
      BY <3>1, <3>3
  <2> QED
    BY <1>1, <2>1, <2>2 DEF FirstAfter
<1>2. ASSUME NEW p
      PROVE  FirstAfter(new, pr, Len(new), p, NoServer)
  BY <1>0 DEF FirstAfter
<1> QED
  BY <1>1, <1>2

\* The last server of a priority is the one without a next.
LEMMA LastLinked ==
  ASSUME NEW q, NEW r, NEW pr, Links(q, r, pr), NEW p \in 0 .. INT_SIZE_BIT,
         NEW list, list = Linked(q, q.bitmap_extension[p]), list # {}
  PROVE  LET last == CHOOSE t \in list : q.next[t] = NoServer
         IN  /\ last \in list /\ q.next[last] = NoServer
             /\ \A t \in list : q.next[t] = NoServer => t = last
<1>0. /\ r \in Seq(Server) /\ Len(r) \in Nat
      /\ \A i \in 1 .. Len(r) : FirstAfter(r, pr, i, pr[r[i]], q.next[r[i]])
      /\ \A i \in 1 .. Len(r) : r[i] \in Server
  BY LenProperties, ElementOfSeq DEF Links
<1>1. list = {s \in Elements(r) : pr[s] = p}
  BY ListRead
<1>2. PICK h \in 1 .. Len(r) : pr[r[h]] = p
  BY <1>1 DEF Elements
<1>3. PICK m \in 1 .. Len(r) : pr[r[m]] = p /\ \A k \in m + 1 .. Len(r) : pr[r[k]] # p
  <2>1. PICK i \in Nat : i = Len(r) + 1
    BY <1>0
  <2>2. h \in 1 .. i - 1 /\ i - 1 = Len(r)
    BY <1>0, <2>1
  <2>3. PICK m \in 1 .. i - 1 : IsLastBefore(r, pr, p, i, m)
    BY <1>2, <2>2, LastBefore
  <2> QED
    BY <2>2, <2>3 DEF IsLastBefore, NoneBetween
<1>4. r[m] \in list /\ q.next[r[m]] = NoServer
  <2>1. FirstAfter(r, pr, m, p, q.next[r[m]])
    BY <1>0, <1>3
  <2>2. q.next[r[m]] = NoServer
    BY <1>3, <2>1 DEF FirstAfter
  <2> QED
    BY <1>1, <1>3, <2>2 DEF Elements
<1>5. ASSUME NEW t \in list, q.next[t] = NoServer
      PROVE  t = r[m]
  <2>1. PICK i \in 1 .. Len(r) : t = r[i] /\ pr[r[i]] = p
    BY <1>1 DEF Elements
  <2>2. FirstAfter(r, pr, i, p, NoServer)
    BY <1>0, <1>5, <2>1
  <2>3. \A j \in i + 1 .. Len(r) : pr[r[j]] # p
    BY <1>0, <2>2, Sizes DEF FirstAfter
  <2>4. i = m
    BY <1>0, <1>3, <2>1, <2>3
  <2> QED
    BY <2>1, <2>4
<1> QED
  BY <1>4, <1>5

\* A server that is not ready becomes the last one of its priority.
LEMMA InsertedLinks ==
  ASSUME NEW q, NEW r, NEW pr, IsPriority(pr), Links(q, r, pr),
         NEW s \in Server \ Elements(r)
  PROVE  Links(bitmap_insert(q, s, pr[s]), Append(r, s), pr)
<1> DEFINE p == pr[s]
           list == Linked(q, q.bitmap_extension[p])
           last == CHOOSE t \in list : q.next[t] = NoServer
<1>0. /\ r \in Seq(Server) /\ Distinct(r) /\ Len(r) \in Nat
      /\ IsReadyQueue(q)
      /\ \A e \in 0 .. INT_SIZE_BIT :
           /\ FirstAfter(r, pr, 0, e, q.bitmap_extension[e])
           /\ e \in q.bitmap <=> q.bitmap_extension[e] # NoServer
      /\ \A i \in 1 .. Len(r) : FirstAfter(r, pr, i, pr[r[i]], q.next[r[i]])
      /\ \A i \in 1 .. Len(r) : r[i] \in Server /\ r[i] # s
  BY LenProperties, ElementOfSeq DEF Links, Elements
<1>1. /\ p \in 0 .. INT_SIZE_BIT - 1 /\ p \in 0 .. INT_SIZE_BIT
      /\ ~(p > INT_SIZE_BIT - 1)
  BY Sizes DEF IsPriority
<1>2. list = {t \in Elements(r) : pr[t] = p}
  BY <1>1, ListRead
<1>3. PICK new, u : new = Append(r, s) /\ u = bitmap_insert(q, s, p)
  OBVIOUS
<1>4. /\ new \in Seq(Server) /\ Distinct(new) /\ Len(new) = Len(r) + 1
      /\ \A i \in 1 .. Len(r) : new[i] = r[i]
      /\ new[Len(r) + 1] = s
  BY <1>0, <1>3, Appended
<1>5. list # {} => /\ last \in list /\ q.next[last] = NoServer
                   /\ \A t \in list : q.next[t] = NoServer => t = last
  BY <1>1, LastLinked
<1>6. /\ u.bitmap = q.bitmap \cup {p}
      /\ u.bitmap_extension = IF list = {} THEN [q.bitmap_extension EXCEPT ![p] = s]
                                           ELSE q.bitmap_extension
      /\ u.next = IF list = {} THEN [q.next EXCEPT ![s] = NoServer]
                               ELSE [q.next EXCEPT ![last] = s, ![s] = NoServer]
      /\ u = [ bitmap |-> u.bitmap, bitmap_extension |-> u.bitmap_extension,
               next |-> u.next ]
  <2> HIDE DEF list, last
  <2>1. u = [ bitmap |-> q.bitmap \cup {p},
              bitmap_extension |->
                IF list = {} THEN [q.bitmap_extension EXCEPT ![p] = s]
                             ELSE q.bitmap_extension,
              next |-> IF list = {} THEN [q.next EXCEPT ![s] = NoServer]
                                    ELSE [q.next EXCEPT ![last] = s, ![s] = NoServer] ]
    BY <1>1, <1>3 DEF bitmap_insert, list, last
  <2> QED
    BY <2>1
<1> HIDE DEF list, last
<1>7. /\ q.bitmap_extension \in [0 .. INT_SIZE_BIT -> OrNone]
      /\ q.next \in [Server -> OrNone] /\ q.bitmap \subseteq 0 .. INT_SIZE_BIT - 1
      /\ s \in OrNone /\ NoServer \in OrNone
  BY <1>0 DEF IsReadyQueue, OrNone
<1>8. IsReadyQueue(u)
  <2>1. u.bitmap_extension \in [0 .. INT_SIZE_BIT -> OrNone]
    BY <1>6, <1>7
  <2>2. u.next \in [Server -> OrNone]
    BY <1>6, <1>7
  <2>3. u.bitmap \subseteq 0 .. INT_SIZE_BIT - 1
    BY <1>1, <1>6, <1>7
  <2> QED
    BY <1>6, <2>1, <2>2, <2>3 DEF IsReadyQueue
<1>9. list = {} <=> q.bitmap_extension[p] = NoServer
  <2>1. FirstAfter(r, pr, 0, p, q.bitmap_extension[p])
    BY <1>0, <1>1
  <2>2. list = {} <=> \A j \in 1 .. Len(r) : pr[r[j]] # p
    BY <1>2 DEF Elements
  <2>3. q.bitmap_extension[p] = NoServer <=> \A j \in 0 + 1 .. Len(r) : pr[r[j]] # p
    <3>1. \A j \in 0 + 1 .. Len(r) : r[j] # NoServer
      BY <1>0, Sizes
    <3> QED
      BY <2>1, <3>1 DEF FirstAfter
  <2> QED
    BY <2>2, <2>3
<1>10. ASSUME NEW e \in 0 .. INT_SIZE_BIT
       PROVE  /\ FirstAfter(new, pr, 0, e, u.bitmap_extension[e])
              /\ e \in u.bitmap <=> u.bitmap_extension[e] # NoServer
  <2>1. PICK x, y : x = q.bitmap_extension[e] /\ y = u.bitmap_extension[e]
    OBVIOUS
  <2>2. y = IF x = NoServer /\ e = p THEN s ELSE x
    BY <1>1, <1>6, <1>7, <1>9, <2>1
  <2>3. 0 \in 0 .. Len(r) /\ FirstAfter(r, pr, 0, e, x)
    BY <1>0, <2>1
  <2>4. FirstAfter(new, pr, 0, e, y)
    BY <1>0, <1>3, <2>2, <2>3, FirstAppended
  <2>5. e \in u.bitmap <=> y # NoServer
    <3>1. e \in u.bitmap <=> x # NoServer \/ e = p
      BY <1>0, <1>6, <2>1
    <3> QED
      BY <2>2, <3>1, Sizes
  <2> QED
    BY <2>1, <2>4, <2>5
<1>11. ASSUME NEW i \in 1 .. Len(new)
       PROVE  FirstAfter(new, pr, i, pr[new[i]], u.next[new[i]])
  <2>1. CASE i = Len(new)
    <3>1. new[i] = s /\ u.next[s] = NoServer
      BY <1>4, <1>6, <1>7, <2>1
    <3> QED
      BY <1>0, <1>3, <2>1, <3>1, FirstAppended
  <2>2. CASE i # Len(new)
    <3>1. i \in 1 .. Len(r) /\ i \in 0 .. Len(r) /\ new[i] = r[i]
      BY <1>0, <1>4, <2>2
    <3>2. PICK t, x, y : t = r[i] /\ x = q.next[t] /\ y = u.next[t]
      OBVIOUS
    <3>3. t \in Server /\ t # s /\ t \in Elements(r) /\ FirstAfter(r, pr, i, pr[t], x)
      BY <1>0, <3>1, <3>2 DEF Elements
    <3>4. t \in list <=> pr[t] = p
      BY <1>2, <3>3
    <3>5. y = IF x = NoServer /\ pr[t] = p THEN s ELSE x
      <4>1. CASE list = {}
        <5>1. y = x
          BY <1>6, <1>7, <3>2, <3>3, <4>1
        <5> QED
          BY <3>4, <4>1, <5>1
      <4>2. CASE list # {}
        <5>1. last \in list /\ q.next[last] = NoServer /\ last \in Server
          BY <1>0, <1>2, <1>5, <4>2 DEF Elements
        <5>2. y = IF t = last THEN s ELSE x
          BY <1>6, <1>7, <3>2, <3>3, <4>2
        <5>3. t = last <=> x = NoServer /\ pr[t] = p
          BY <1>5, <3>2, <3>4, <4>2, <5>1
        <5> QED
          BY <5>2, <5>3
      <4> QED
        BY <4>1, <4>2
    <3>6. FirstAfter(new, pr, i, pr[t], y)
      BY <1>0, <1>3, <3>1, <3>3, <3>5, FirstAppended
    <3> QED
      BY <3>1, <3>2, <3>6
  <2> QED
    BY <2>1, <2>2
<1> QED
  BY <1>3, <1>4, <1>8, <1>10, <1>11 DEF Links

\* A server that is ready and alone with its priority is inserted to no effect.
LEMMA InsertedAgain ==
  ASSUME NEW q, NEW r, NEW pr, IsPriority(pr), Links(q, r, pr),
         NEW s \in Elements(r), \A t \in Server \ {s} : pr[t] # pr[s]
  PROVE  bitmap_insert(q, s, pr[s]) = q
<1> DEFINE p == pr[s]
           list == Linked(q, q.bitmap_extension[p])
           last == CHOOSE t \in list : q.next[t] = NoServer
<1>0. /\ r \in Seq(Server) /\ Len(r) \in Nat
      /\ IsReadyQueue(q)
      /\ \A e \in 0 .. INT_SIZE_BIT :
           /\ FirstAfter(r, pr, 0, e, q.bitmap_extension[e])
           /\ e \in q.bitmap <=> q.bitmap_extension[e] # NoServer
      /\ \A i \in 1 .. Len(r) : r[i] \in Server
  BY LenProperties, ElementOfSeq DEF Links
<1>1. PICK i \in 1 .. Len(r) : s = r[i] /\ s \in Server
  BY <1>0 DEF Elements
<1>2. /\ p \in 0 .. INT_SIZE_BIT - 1 /\ p \in 0 .. INT_SIZE_BIT
      /\ ~(p > INT_SIZE_BIT - 1)
  BY <1>1, Sizes DEF IsPriority
<1>3. list = {s}
  <2>1. list = {t \in Elements(r) : pr[t] = p}
    BY <1>2, ListRead
  <2>2. Elements(r) \subseteq Server
    BY <1>0 DEF Elements
  <2> QED
    BY <2>1, <2>2
<1>4. last = s /\ q.next[s] = NoServer
  <2>1. last \in list /\ q.next[last] = NoServer
    BY <1>2, <1>3, LastLinked
  <2> QED
    BY <1>3, <2>1
<1>5. p \in q.bitmap
  <2>1. FirstAfter(r, pr, 0, p, q.bitmap_extension[p])
    BY <1>0, <1>2
  <2>2. i \in 0 + 1 .. Len(r) /\ pr[r[i]] = p
    BY <1>1
  <2>3. \E j \in 0 + 1 .. Len(r) : q.bitmap_extension[p] = r[j]
    BY <2>1, <2>2 DEF FirstAfter
  <2>4. q.bitmap_extension[p] # NoServer
    BY <1>0, <2>3, Sizes
  <2> QED
    BY <1>0, <1>2, <2>4
<1>6. bitmap_insert(q, s, p) =
        [ bitmap |-> q.bitmap \cup {p}, bitmap_extension |-> q.bitmap_extension,
          next |-> [q.next EXCEPT ![last] = s, ![s] = NoServer] ]
  <2> HIDE DEF list, last
  <2>1. list # {} /\ list = Linked(q, q.bitmap_extension[p])
    BY <1>3 DEF list
  <2> QED
    BY <1>2, <2>1 DEF bitmap_insert, list, last
<1> HIDE DEF list, last
<1>7. q.bitmap \cup {p} = q.bitmap
  BY <1>5
<1>8. [q.next EXCEPT ![last] = s, ![s] = NoServer] = q.next
  <2>1. q.next \in [Server -> OrNone]
    BY <1>0 DEF IsReadyQueue
  <2> QED
    BY <1>1, <1>4, <2>1
<1>9. q = [ bitmap |-> q.bitmap, bitmap_extension |-> q.bitmap_extension,
            next |-> q.next ]
  BY <1>0 DEF IsReadyQueue
<1> QED
  BY <1>6, <1>7, <1>8, <1>9

\* bitmap_get finds entry number j, the first one of the highest priority.
IsHighest(q, r, pr, j) ==
  /\ Lsb(q) \in q.bitmap
  /\ bitmap_get(q) = r[j] /\ q.bitmap_extension[Lsb(q)] = r[j]
  /\ pr[r[j]] = Lsb(q)
  /\ \A k \in 1 .. j - 1 : pr[r[k]] # Lsb(q)
  /\ \A i \in 1 .. Len(r) : Lsb(q) <= pr[r[i]]

LEMMA HighestRead ==
  ASSUME NEW q, NEW r, NEW pr, IsPriority(pr), Links(q, r, pr)
  PROVE  IF r = <<>> THEN bitmap_get(q) = NoServer
                     ELSE \E j \in 1 .. Len(r) : IsHighest(q, r, pr, j)
<1>0. /\ r \in Seq(Server) /\ Len(r) \in Nat
      /\ q.bitmap \in SUBSET (0 .. INT_SIZE_BIT - 1) /\ q.bitmap \in SUBSET Nat
      /\ \A e \in 0 .. INT_SIZE_BIT :
           /\ FirstAfter(r, pr, 0, e, q.bitmap_extension[e])
           /\ e \in q.bitmap <=> q.bitmap_extension[e] # NoServer
      /\ \A i \in 1 .. Len(r) : r[i] \in Server /\ r[i] # NoServer
  <2>1. q.bitmap \in SUBSET (0 .. INT_SIZE_BIT - 1)
    BY DEF Links, IsReadyQueue
  <2>2. q.bitmap \in SUBSET Nat
    BY <2>1, Sizes
  <2>3. \A i \in 1 .. Len(r) : r[i] \in Server /\ r[i] # NoServer
    BY ElementOfSeq, Sizes DEF Links
  <2> QED
    BY <2>1, <2>2, <2>3, LenProperties DEF Links
<1>1. ASSUME NEW i \in 1 .. Len(r)
      PROVE  pr[r[i]] \in q.bitmap
  <2>1. pr[r[i]] \in 0 .. INT_SIZE_BIT - 1 /\ pr[r[i]] \in 0 .. INT_SIZE_BIT
    BY <1>0, Sizes DEF IsPriority
  <2>2. PICK e : e = pr[r[i]]
    OBVIOUS
  <2>3. FirstAfter(r, pr, 0, e, q.bitmap_extension[e]) /\ i \in 0 + 1 .. Len(r)
    BY <1>0, <2>1, <2>2
  <2>4. q.bitmap_extension[e] # NoServer
    BY <1>0, <2>2, <2>3 DEF FirstAfter
  <2> QED
    BY <1>0, <2>1, <2>2, <2>4
<1>2. CASE r = <<>>
  <2>1. Len(r) = 0
    BY <1>2
  <2>2. ASSUME NEW e \in q.bitmap
        PROVE  FALSE
    <3>1. e \in 0 .. INT_SIZE_BIT
      BY <1>0, Sizes
    <3>2. FirstAfter(r, pr, 0, e, q.bitmap_extension[e]) /\ q.bitmap_extension[e] # NoServer
      BY <1>0, <3>1
    <3> QED
      BY <2>1, <3>2 DEF FirstAfter
  <2>3. q.bitmap = {}
    BY <2>2
  <2> QED
    BY <1>2, <2>3 DEF bitmap_get
<1>3. CASE r # <<>>
  <2>1. 1 \in 1 .. Len(r)
    BY <1>0, <1>3, EmptySeq
  <2>2. q.bitmap # {}
    BY <1>1, <2>1
  <2>3. PICK p : p = Lsb(q)
    OBVIOUS
  <2>4. p \in q.bitmap /\ \A e \in q.bitmap : p <= e
    BY <1>0, <2>2, <2>3, NatMin DEF Lsb
  <2>5. p \in 0 .. INT_SIZE_BIT /\ q.bitmap_extension[p] # NoServer
    <3>1. p \in 0 .. INT_SIZE_BIT
      BY <1>0, <2>4, Sizes
    <3> QED
      BY <1>0, <2>4, <3>1
  <2>6. PICK j \in 0 + 1 .. Len(r) :
          /\ q.bitmap_extension[p] = r[j] /\ pr[r[j]] = p
          /\ \A k \in 0 + 1 .. j - 1 : pr[r[k]] # p
    BY <1>0, <2>5 DEF FirstAfter
  <2>7. j \in 1 .. Len(r) /\ \A k \in 1 .. j - 1 : pr[r[k]] # p
    BY <2>6
  <2>8. bitmap_get(q) = r[j]
    BY <2>2, <2>3, <2>6 DEF bitmap_get
  <2>9. \A i \in 1 .. Len(r) : p <= pr[r[i]]
    BY <1>1, <2>4
  <2>10. IsHighest(q, r, pr, j)
    BY <2>3, <2>4, <2>6, <2>7, <2>8, <2>9 DEF IsHighest
  <2> QED
    BY <1>3, <2>7, <2>10
<1> QED
  BY <1>2, <1>3

\* The list without its entry number j.
ClosesUp(new, r, j) ==
  /\ new \in Seq(Server) /\ Len(new) = Len(r) - 1
  /\ \A i \in 1 .. Len(new) : new[i] = IF i < j THEN r[i] ELSE r[i + 1]

LEMMA WithoutEntry ==
  ASSUME NEW r \in Seq(Server), Distinct(r), NEW j \in 1 .. Len(r)
  PROVE  ClosesUp(Without(r, r[j]), r, j)
<1> DEFINE places == {i \in 1 .. Len(r) : r[i] = r[j]}
<1>0. Len(r) \in Nat
  BY LenProperties
<1>1. places = {j}
  BY DEF Distinct
<1>2. FirstOf(places) = j
  <2>1. places \in SUBSET Nat /\ places # {}
    BY <1>1
  <2> HIDE DEF places
  <2>2. FirstOf(places) \in places
    BY <2>1, FirstOfProperty
  <2> QED
    BY <1>1, <2>2
<1>3. Without(r, r[j]) = SubSeq(r, 1, j - 1) \o SubSeq(r, j + 1, Len(r))
  <2>1. r[j] \in Elements(r)
    BY DEF Elements
  <2> QED
    BY <1>2, <2>1 DEF Without
<1>4. PICK new : new = Without(r, r[j])
  OBVIOUS
<1>5. /\ new \in Seq(Server) /\ Len(new) = Len(r) - 1
      /\ \A i \in 1 .. Len(r) - 1 : new[i] = IF i < j THEN r[i] ELSE r[i + 1]
  <2>1. new = SubSeq(r, 1, j - 1) \o SubSeq(r, j + 1, Len(r))
    BY <1>3, <1>4
  <2> HIDE DEF places
  <2> QED
    BY ONLY <2>1, j \in 1 .. Len(r), r \in Seq(Server), Joined, ZenonT(30)
<1> QED
  BY <1>4, <1>5 DEF ClosesUp

\* What comes first when entry number j is taken out.
LEMMA FirstRemoved ==
  ASSUME NEW r \in Seq(Server), NEW j \in 1 .. Len(r), NEW new, ClosesUp(new, r, j),
         NEW pr, NEW p, NEW x
  PROVE  /\ \A i \in j .. Len(new) :
              FirstAfter(r, pr, i + 1, p, x) => FirstAfter(new, pr, i, p, x)
         /\ pr[r[j]] # p =>
              \A i \in 0 .. j - 1 :
                FirstAfter(r, pr, i, p, x) => FirstAfter(new, pr, i, p, x)
         /\ FirstAfter(r, pr, j, p, x) /\ (\A k \in 1 .. j - 1 : pr[r[k]] # p)
              => FirstAfter(new, pr, 0, p, x)
<1>0. /\ Len(r) \in Nat /\ Len(new) = Len(r) - 1 /\ Len(new) \in Nat
      /\ \A i \in 1 .. Len(new) : i < j => new[i] = r[i]
      /\ \A i \in 1 .. Len(new) : ~(i < j) => new[i] = r[i + 1]
  BY LenProperties DEF ClosesUp
<1>1. ASSUME NEW i \in j .. Len(new), FirstAfter(r, pr, i + 1, p, x)
      PROVE  FirstAfter(new, pr, i, p, x)
  <2>1. CASE x = NoServer /\ \A h \in (i + 1) + 1 .. Len(r) : pr[r[h]] # p
    <3>1. ASSUME NEW h \in i + 1 .. Len(new)
          PROVE  pr[new[h]] # p
      <4>1. h + 1 \in (i + 1) + 1 .. Len(r) /\ new[h] = r[h + 1]
        BY <1>0
      <4> QED
        BY <2>1, <4>1
    <3> QED
      BY <2>1, <3>1 DEF FirstAfter
  <2>2. ASSUME NEW h \in (i + 1) + 1 .. Len(r), x = r[h], pr[r[h]] = p,
               \A k \in (i + 1) + 1 .. h - 1 : pr[r[k]] # p
        PROVE  FirstAfter(new, pr, i, p, x)
    <3>1. PICK g : g = h - 1
      OBVIOUS
    <3>2. g \in i + 1 .. Len(new) /\ new[g] = r[h]
      BY <1>0, <3>1
    <3>3. ASSUME NEW k \in i + 1 .. g - 1
          PROVE  pr[new[k]] # p
      <4>1. k + 1 \in (i + 1) + 1 .. h - 1 /\ new[k] = r[k + 1]
        BY <1>0, <3>1
      <4> QED
        BY <2>2, <4>1
    <3> QED
      BY <2>2, <3>2, <3>3 DEF FirstAfter
  <2> QED
    BY <1>1, <2>1, <2>2 DEF FirstAfter
<1>2. ASSUME pr[r[j]] # p, NEW i \in 0 .. j - 1, FirstAfter(r, pr, i, p, x)
      PROVE  FirstAfter(new, pr, i, p, x)
  <2>1. CASE x = NoServer /\ \A h \in i + 1 .. Len(r) : pr[r[h]] # p
    <3>1. ASSUME NEW h \in i + 1 .. Len(new)
          PROVE  pr[new[h]] # p
      <4>1. h \in i + 1 .. Len(r) /\ h + 1 \in i + 1 .. Len(r)
            /\ (new[h] = r[h] \/ new[h] = r[h + 1])
        BY <1>0
      <4> QED
        BY <2>1, <4>1
    <3> QED
      BY <2>1, <3>1 DEF FirstAfter
  <2>2. ASSUME NEW h \in i + 1 .. Len(r), x = r[h], pr[r[h]] = p,
               \A k \in i + 1 .. h - 1 : pr[r[k]] # p
        PROVE  FirstAfter(new, pr, i, p, x)
    <3>0. h # j
      BY <1>2, <2>2
    <3>1. PICK g : g = IF h < j THEN h ELSE h - 1
      OBVIOUS
    <3>2. g \in i + 1 .. Len(new) /\ new[g] = r[h]
      <4>1. CASE h < j
        BY <1>0, <3>1, <4>1
      <4>2. CASE h > j
        <5>1. g = h - 1 /\ g \in i + 1 .. Len(new) /\ g + 1 = h /\ ~(g < j)
          BY <1>0, <3>1, <4>2
        <5>2. g \in 1 .. Len(new)
          BY <5>1
        <5> QED
          BY <1>0, <5>1, <5>2
      <4> QED
        BY <1>0, <3>0, <4>1, <4>2
    <3>3. ASSUME NEW k \in i + 1 .. g - 1
          PROVE  pr[new[k]] # p
      <4>1. CASE k < j
        <5>1. k \in i + 1 .. h - 1 /\ new[k] = r[k]
          BY <1>0, <3>1, <3>2, <4>1
        <5> QED
          BY <2>2, <5>1
      <4>2. CASE ~(k < j)
        <5>1. k + 1 \in i + 1 .. h - 1 /\ new[k] = r[k + 1]
          BY <1>0, <3>1, <3>2, <4>2
        <5> QED
          BY <2>2, <5>1
      <4> QED
        BY <4>1, <4>2
    <3> QED
      BY <2>2, <3>2, <3>3 DEF FirstAfter
  <2> QED
    BY <1>2, <2>1, <2>2 DEF FirstAfter
<1>3. ASSUME FirstAfter(r, pr, j, p, x), \A k \in 1 .. j - 1 : pr[r[k]] # p
      PROVE  FirstAfter(new, pr, 0, p, x)
  <2>1. CASE x = NoServer /\ \A h \in j + 1 .. Len(r) : pr[r[h]] # p
    <3>1. ASSUME NEW h \in 0 + 1 .. Len(new)
          PROVE  pr[new[h]] # p
      <4>1. \/ h \in 1 .. j - 1 /\ new[h] = r[h]
            \/ h + 1 \in j + 1 .. Len(r) /\ new[h] = r[h + 1]
        BY <1>0
      <4> QED
        BY <1>3, <2>1, <4>1
    <3> QED
      BY <2>1, <3>1 DEF FirstAfter
  <2>2. ASSUME NEW h \in j + 1 .. Len(r), x = r[h], pr[r[h]] = p,
               \A k \in j + 1 .. h - 1 : pr[r[k]] # p
        PROVE  FirstAfter(new, pr, 0, p, x)
    <3>1. PICK g : g = h - 1
      OBVIOUS
    <3>2. g \in 0 + 1 .. Len(new) /\ new[g] = r[h]
      BY <1>0, <3>1
    <3>3. ASSUME NEW k \in 0 + 1 .. g - 1
          PROVE  pr[new[k]] # p
      <4>1. \/ k \in 1 .. j - 1 /\ new[k] = r[k]
            \/ k + 1 \in j + 1 .. h - 1 /\ new[k] = r[k + 1]
        BY <1>0, <3>1
      <4> QED
        BY <1>3, <2>2, <4>1
    <3> QED
      BY <2>2, <3>2, <3>3 DEF FirstAfter
  <2> QED
    BY <1>3, <2>1, <2>2 DEF FirstAfter
<1> QED
  BY <1>1, <1>2, <1>3

\* The server that is retrieved is taken out, and the others stay linked.
LEMMA RetrievedLinks ==
  ASSUME NEW q, NEW r, NEW pr, IsPriority(pr), Links(q, r, pr), r # <<>>
  PROVE  /\ bitmap_get(q) \in Elements(r)
         /\ Links(bitmap_retrieve(q), Without(r, bitmap_get(q)), pr)
<1>0. /\ r \in Seq(Server) /\ Distinct(r) /\ Len(r) \in Nat
      /\ IsReadyQueue(q)
      /\ \A e \in 0 .. INT_SIZE_BIT :
           /\ FirstAfter(r, pr, 0, e, q.bitmap_extension[e])
           /\ e \in q.bitmap <=> q.bitmap_extension[e] # NoServer
      /\ \A i \in 1 .. Len(r) : FirstAfter(r, pr, i, pr[r[i]], q.next[r[i]])
      /\ \A i \in 1 .. Len(r) : r[i] \in Server /\ r[i] # NoServer
  BY LenProperties, ElementOfSeq, Sizes DEF Links
<1>1. PICK j \in 1 .. Len(r) : IsHighest(q, r, pr, j)
  BY HighestRead
<1>2. PICK p, s : p = Lsb(q) /\ s = r[j]
  OBVIOUS
<1>3. /\ p \in q.bitmap /\ bitmap_get(q) = s /\ q.bitmap_extension[p] = s
      /\ pr[s] = p /\ \A k \in 1 .. j - 1 : pr[r[k]] # p
      /\ s \in Server /\ s # NoServer
  BY <1>0, <1>1, <1>2 DEF IsHighest
<1>4. PICK new, u : new = Without(r, s) /\ u = bitmap_retrieve(q)
  OBVIOUS
<1>5. ClosesUp(new, r, j) /\ Distinct(new)
  BY <1>0, <1>2, <1>4, WithoutEntry, WithoutProperties
<1>6. /\ u.bitmap = IF q.next[s] = NoServer THEN q.bitmap \ {p} ELSE q.bitmap
      /\ u.bitmap_extension = [q.bitmap_extension EXCEPT ![p] = q.next[s]]
      /\ u.next = [q.next EXCEPT ![s] = NoServer]
      /\ u = [ bitmap |-> u.bitmap, bitmap_extension |-> u.bitmap_extension,
               next |-> u.next ]
  <2>1. u = [ bitmap |-> IF q.next[s] = NoServer THEN q.bitmap \ {p} ELSE q.bitmap,
              bitmap_extension |-> [q.bitmap_extension EXCEPT ![p] = q.next[s]],
              next |-> [q.next EXCEPT ![s] = NoServer] ]
    BY <1>2, <1>3, <1>4 DEF bitmap_retrieve
  <2> QED
    BY <2>1
<1>7. /\ q.bitmap_extension \in [0 .. INT_SIZE_BIT -> OrNone]
      /\ q.next \in [Server -> OrNone] /\ q.bitmap \subseteq 0 .. INT_SIZE_BIT - 1
      /\ NoServer \in OrNone /\ p \in 0 .. INT_SIZE_BIT
  <2>1. /\ q.bitmap_extension \in [0 .. INT_SIZE_BIT -> OrNone]
        /\ q.next \in [Server -> OrNone] /\ q.bitmap \subseteq 0 .. INT_SIZE_BIT - 1
    BY <1>0 DEF IsReadyQueue
  <2>2. p \in 0 .. INT_SIZE_BIT
    BY <1>3, <2>1, Sizes
  <2> QED
    BY <2>1, <2>2 DEF OrNone
<1>8. IsReadyQueue(u)
  <2>1. u.bitmap_extension \in [0 .. INT_SIZE_BIT -> OrNone]
    BY <1>3, <1>6, <1>7
  <2>2. u.next \in [Server -> OrNone]
    BY <1>6, <1>7
  <2>3. u.bitmap \subseteq 0 .. INT_SIZE_BIT - 1
    BY <1>6, <1>7
  <2> QED
    BY <1>6, <2>1, <2>2, <2>3 DEF IsReadyQueue
<1>9. /\ new \in Seq(Server) /\ Len(new) = Len(r) - 1
      /\ \A i \in 1 .. Len(new) : new[i] = IF i < j THEN r[i] ELSE r[i + 1]
  BY <1>5 DEF ClosesUp
<1>10. ASSUME NEW e \in 0 .. INT_SIZE_BIT
       PROVE  /\ FirstAfter(new, pr, 0, e, u.bitmap_extension[e])
              /\ e \in u.bitmap <=> u.bitmap_extension[e] # NoServer
  <2>1. CASE e = p
    <3>1. u.bitmap_extension[e] = q.next[s]
      BY <1>6, <1>7, <2>1
    <3>2. FirstAfter(r, pr, j, p, q.next[s])
      BY <1>0, <1>2, <1>3
    <3>3. FirstAfter(new, pr, 0, p, q.next[s])
      BY <1>0, <1>3, <1>5, <3>2, FirstRemoved
    <3>4. p \in u.bitmap <=> q.next[s] # NoServer
      BY <1>3, <1>6
    <3> QED
      BY <2>1, <3>1, <3>3, <3>4
  <2>2. CASE e # p
    <3>1. u.bitmap_extension[e] = q.bitmap_extension[e]
      BY <1>6, <1>7, <2>2
    <3>2. FirstAfter(r, pr, 0, e, q.bitmap_extension[e]) /\ 0 \in 0 .. j - 1
          /\ pr[r[j]] # e
      BY <1>0, <1>2, <1>3, <2>2
    <3>3. FirstAfter(new, pr, 0, e, q.bitmap_extension[e])
      BY <1>0, <1>5, <3>2, FirstRemoved
    <3>4. e \in u.bitmap <=> e \in q.bitmap
      BY <1>6, <2>2
    <3> QED
      BY <1>0, <3>1, <3>3, <3>4
  <2> QED
    BY <2>1, <2>2
<1>11. ASSUME NEW i \in 1 .. Len(new)
       PROVE  FirstAfter(new, pr, i, pr[new[i]], u.next[new[i]])
  <2>1. PICK k \in 1 .. Len(r) : k = IF i < j THEN i ELSE i + 1
    BY <1>0, <1>9
  <2>2. PICK t : t = r[k]
    OBVIOUS
  <2>3. new[i] = t
    BY <1>9, <2>1, <2>2
  <2>4. k # j /\ t # s /\ t \in Server
    BY <1>0, <1>2, <2>1, <2>2 DEF Distinct
  <2>5. u.next[t] = q.next[t]
    BY <1>6, <1>7, <2>4
  <2>6. FirstAfter(r, pr, k, pr[t], q.next[t])
    BY <1>0, <2>2
  <2>7. CASE i < j
    <3>1. k = i /\ i \in 1 .. j - 1 /\ i \in 0 .. j - 1
      BY <2>1, <2>7
    <3>2. pr[r[j]] # pr[t]
      BY <1>2, <1>3, <2>2, <3>1
    <3> QED
      BY <1>0, <1>5, <2>3, <2>5, <2>6, <3>1, <3>2, FirstRemoved
  <2>8. CASE ~(i < j)
    <3>1. k = i + 1 /\ i \in j .. Len(new)
      BY <2>1, <2>8
    <3> QED
      BY <1>0, <1>5, <2>3, <2>5, <2>6, <3>1, FirstRemoved
  <2> QED
    BY <2>7, <2>8
<1>12. s \in Elements(r)
  BY <1>2 DEF Elements
<1> QED
  BY <1>3, <1>4, <1>5, <1>8, <1>9, <1>10, <1>11, <1>12 DEF Links

\* A ready queue and the servers that are ready.
Pairs ==
  [ queue : [ bitmap : SUBSET (0 .. INT_SIZE_BIT - 1),
              bitmap_extension : [0 .. INT_SIZE_BIT -> OrNone],
              next : [Server -> OrNone] ],
    ready : Seq(Server) ]

LEMMA InsertReadyType ==
  ASSUME IsPriority(priority), NEW x \in Pairs, NEW s \in Server
  PROVE  InsertReady(x, s) \in Pairs
<1> DEFINE q == x.queue
           p == priority[s]
           list == Linked(q, q.bitmap_extension[p])
           last == CHOOSE t \in list : q.next[t] = NoServer
           u == bitmap_insert(q, s, p)
<1>1. /\ q.bitmap \in SUBSET (0 .. INT_SIZE_BIT - 1)
      /\ q.bitmap_extension \in [0 .. INT_SIZE_BIT -> OrNone]
      /\ q.next \in [Server -> OrNone]
      /\ x.ready \in Seq(Server)
  BY DEF Pairs
<1>2. p \in 0 .. INT_SIZE_BIT - 1 /\ ~(p > INT_SIZE_BIT - 1)
  BY Sizes DEF IsPriority
<1>3. s \in OrNone /\ NoServer \in OrNone
  BY DEF OrNone
<1>4. u = [ bitmap |-> q.bitmap \cup {p},
            bitmap_extension |->
              IF list = {} THEN [q.bitmap_extension EXCEPT ![p] = s]
                           ELSE q.bitmap_extension,
            next |-> IF list = {} THEN [q.next EXCEPT ![s] = NoServer]
                                  ELSE [q.next EXCEPT ![last] = s, ![s] = NoServer] ]
  <2> HIDE DEF q, p
  <2> QED
    BY <1>2 DEF bitmap_insert
<1> HIDE DEF list, last, q, p, u
<1>5. q.bitmap \cup {p} \in SUBSET (0 .. INT_SIZE_BIT - 1)
  BY <1>1, <1>2
<1>6. (IF list = {} THEN [q.bitmap_extension EXCEPT ![p] = s] ELSE q.bitmap_extension)
         \in [0 .. INT_SIZE_BIT -> OrNone]
  BY <1>1, <1>3
<1>7. (IF list = {} THEN [q.next EXCEPT ![s] = NoServer]
                    ELSE [q.next EXCEPT ![last] = s, ![s] = NoServer])
         \in [Server -> OrNone]
  BY <1>1, <1>3
<1>8. u \in [ bitmap : SUBSET (0 .. INT_SIZE_BIT - 1),
              bitmap_extension : [0 .. INT_SIZE_BIT -> OrNone],
              next : [Server -> OrNone] ]
  BY <1>4, <1>5, <1>6, <1>7
<1>9. (IF s \in Elements(x.ready) THEN x.ready ELSE Append(x.ready, s)) \in Seq(Server)
  BY <1>1, AppendProperties
<1> QED
  BY <1>8, <1>9 DEF InsertReady, Pairs, u, q, p

\* The pairs after the first k inserts.
Inserts(f, n, x, list) ==
  /\ f \in [0 .. n -> Pairs]
  /\ f[0] = x
  /\ \A k \in 1 .. n : f[k] = InsertReady(f[k - 1], list[k])

LEMMA InsertSteps ==
  ASSUME IsPriority(priority), NEW x \in Pairs, NEW list \in Seq(Server),
         NEW n \in Nat, n = Len(list)
  PROVE  \E f : Inserts(f, n, x, list) /\ InsertAllReady(x, list) = f[n]
<1> DEFINE step == [k \in 1 .. n |-> [y \in Pairs |-> InsertReady(y, list[k])]]
           Eq(f) == f = [k \in 0 .. n |-> IF k = 0 THEN x ELSE InsertReady(f[k - 1], list[k])]
<1>0. \A k \in 1 .. n : \A y \in Pairs : InsertReady(y, list[k]) \in Pairs
  <2>1. \A k \in 1 .. n : list[k] \in Server
    BY ElementOfSeq
  <2> QED
    BY <2>1, InsertReadyType
<1>1. PICK g \in [0 .. n -> Pairs] :
        g[0] = x /\ \A k \in 1 .. n : g[k] = step[k][g[k - 1]]
  <2>1. PICK st : st = step
    OBVIOUS
  <2>2. StepsOn(st, n, Pairs)
    BY <1>0, <2>1 DEF StepsOn
  <2> HIDE DEF step
  <2>3. PICK g : IteratesTo(g, st, n, Pairs, x)
    BY <2>2, Iterated
  <2> QED
    BY <2>1, <2>3 DEF IteratesTo
<1>2. \A k \in 1 .. n : k - 1 \in 0 .. n /\ g[k] = InsertReady(g[k - 1], list[k])
  <2> SUFFICES ASSUME NEW k \in 1 .. n
               PROVE  k - 1 \in 0 .. n /\ g[k] = InsertReady(g[k - 1], list[k])
    OBVIOUS
  <2>1. k - 1 \in 0 .. n /\ g[k - 1] \in Pairs
    OBVIOUS
  <2>2. step[k][g[k - 1]] = InsertReady(g[k - 1], list[k])
    BY <2>1
  <2> QED
    BY <1>1, <2>1, <2>2
<1>3. Eq(g)
  BY <1>1, <1>2
<1>4. PICK f : f = CHOOSE h : Eq(h)
  OBVIOUS
<1>5. Eq(f)
  BY <1>3, <1>4
<1>6. InsertAllReady(x, list) = f[n]
  BY <1>4 DEF InsertAllReady
<1>7. f[0] = x /\ \A k \in 1 .. n : f[k] = InsertReady(f[k - 1], list[k])
  <2>1. 0 \in 0 .. n /\ \A k \in 1 .. n : k \in 0 .. n /\ k # 0
    OBVIOUS
  <2> QED
    BY <1>5, <2>1, Zenon
<1>8. ASSUME NEW k \in 0 .. n
      PROVE  f[k] = g[k]
  <2> HIDE DEF step, Eq
  <2> DEFINE S == {i \in 0 .. n : f[i] = g[i]}
  <2>1. 0 \in S
    <3>1. f[0] = g[0]
      BY <1>1, <1>7, Zenon
    <3>2. 0 \in 0 .. n
      OBVIOUS
    <3> QED
      BY <3>1, <3>2
  <2>2. ASSUME NEW i \in 1 .. n, i - 1 \in S
        PROVE  i \in S
    <3>1. /\ f[i] = InsertReady(f[i - 1], list[i])
          /\ g[i] = InsertReady(g[i - 1], list[i])
          /\ f[i - 1] = g[i - 1]
      BY <1>2, <1>7, <2>2
    <3>2. f[i] = g[i]
      BY <3>1
    <3> QED
      BY <3>2
  <2> HIDE DEF S
  <2>3. 0 .. n \subseteq S
    BY <2>1, <2>2, UpTo
  <2> QED
    BY <2>3 DEF S
<1>9. f = g
  BY <1>1, <1>5, <1>8
<1> QED
  BY <1>6, <1>7, <1>9 DEF Inserts

\* Server s may be inserted while the servers of list r are ready.
MayInsert(r, s) == s \in Elements(r) => \A t \in Server \ {s} : priority[t] # priority[s]

LEMMA InsertedReady ==
  ASSUME IsPriority(priority), NEW x \in Pairs, Links(x.queue, x.ready, priority),
         NEW s \in Server, MayInsert(x.ready, s)
  PROVE  LET y == InsertReady(x, s)
         IN  /\ Links(y.queue, y.ready, priority)
             /\ Elements(y.ready) = Elements(x.ready) \cup {s}
<1>1. CASE s \in Elements(x.ready)
  <2>1. bitmap_insert(x.queue, s, priority[s]) = x.queue
    BY <1>1, InsertedAgain DEF MayInsert
  <2> QED
    BY <1>1, <2>1 DEF InsertReady
<1>2. CASE s \notin Elements(x.ready)
  <2>1. Links(bitmap_insert(x.queue, s, priority[s]), Append(x.ready, s), priority)
    BY <1>2, InsertedLinks
  <2>2. Elements(Append(x.ready, s)) = Elements(x.ready) \cup {s}
    BY Appended DEF Links
  <2> QED
    BY <1>2, <2>1, <2>2 DEF InsertReady
<1> QED
  BY <1>1, <1>2

LEMMA InsertedAll ==
  ASSUME IsPriority(priority), NEW q, NEW r, Links(q, r, priority),
         NEW list \in Seq(Server), Distinct(list),
         \A i \in 1 .. Len(list) : MayInsert(r, list[i]),
         NEW all, all = InsertAllReady([queue |-> q, ready |-> r], list)
  PROVE  /\ Links(all.queue, all.ready, priority)
         /\ Elements(all.ready) = Elements(r) \cup Elements(list)
<1>1. PICK n \in Nat : n = Len(list)
  BY LenProperties
<1>2. PICK x : x = [queue |-> q, ready |-> r]
  OBVIOUS
<1>3. x \in Pairs
  BY <1>2 DEF Links, IsReadyQueue, Pairs
<1>4. PICK f : Inserts(f, n, x, list) /\ all = f[n]
  BY <1>1, <1>2, <1>3, InsertSteps
<1>5. /\ f \in [0 .. n -> Pairs]
      /\ f[0] = x
      /\ \A k \in 1 .. n : f[k] = InsertReady(f[k - 1], list[k])
  BY <1>4 DEF Inserts
<1>6. \A i \in 1 .. n : list[i] \in Server
  BY <1>1, ElementOfSeq
<1> DEFINE Before(k) == {list[i] : i \in 1 .. k}
           S == {k \in 0 .. n : /\ Links(f[k].queue, f[k].ready, priority)
                                /\ Elements(f[k].ready) = Elements(r) \cup Before(k)}
<1>7. 0 \in S
  <2>1. Before(0) = {} /\ 0 \in 0 .. n
    OBVIOUS
  <2>2. f[0].queue = q /\ f[0].ready = r
    BY <1>2, <1>5
  <2> HIDE DEF Before
  <2> QED
    BY <2>1, <2>2
<1>8. ASSUME NEW k \in 1 .. n, k - 1 \in S
      PROVE  k \in S
  <2>1. PICK y, s : y = f[k - 1] /\ s = list[k]
    OBVIOUS
  <2>2. /\ y \in Pairs /\ s \in Server /\ f[k] = InsertReady(y, s)
    <3>1. k - 1 \in 0 .. n
      OBVIOUS
    <3> QED
      BY <1>5, <1>6, <2>1, <3>1
  <2>3. /\ Links(y.queue, y.ready, priority)
        /\ Elements(y.ready) = Elements(r) \cup Before(k - 1)
    BY <1>8, <2>1
  <2>4. s \notin Before(k - 1)
    BY <1>1, <2>1 DEF Distinct
  <2>5. MayInsert(y.ready, s)
    <3>1. MayInsert(r, s)
      BY <1>1, <2>1
    <3>2. s \in Elements(y.ready) => s \in Elements(r)
      BY <2>3, <2>4
    <3> QED
      BY <3>1, <3>2 DEF MayInsert
  <2>6. /\ Links(f[k].queue, f[k].ready, priority)
        /\ Elements(f[k].ready) = Elements(y.ready) \cup {s}
    BY <2>2, <2>3, <2>5, InsertedReady
  <2>7. Before(k) = Before(k - 1) \cup {s}
    <3>1. \A i \in 1 .. k : i \in 1 .. k - 1 \/ i = k
      OBVIOUS
    <3>2. k \in 1 .. k /\ \A i \in 1 .. k - 1 : i \in 1 .. k
      OBVIOUS
    <3> QED
      BY <2>1, <3>1, <3>2
  <2> HIDE DEF Before
  <2>8. Elements(f[k].ready) = Elements(r) \cup Before(k)
    BY <2>3, <2>6, <2>7
  <2> QED
    BY <2>6, <2>8
<1>9. n \in S
  <2> HIDE DEF S
  <2>1. 0 .. n \subseteq S
    BY <1>7, <1>8, UpTo
  <2> QED
    BY <2>1
<1>10. Before(n) = Elements(list)
  BY <1>1 DEF Elements
<1> HIDE DEF Before
<1> QED
  BY <1>4, <1>9, <1>10

----------------------------------------------------------------------------
(* The invariant of the ready queue.                                       *)

ReadyInv == IsPriority(priority) /\ Links(ready_queue, ready, priority)

\* An order of a set of servers has each once.
LEMMA OrderOf ==
  ASSUME NEW S \in SUBSET Server, NEW order \in Orders(S)
  PROVE  order \in Seq(Server) /\ Distinct(order) /\ Elements(order) = S
<1>1. PICK n : n = Cardinality(S)
  OBVIOUS
<1>2. IsFiniteSet(S) /\ n \in Nat
  BY <1>1, Sizes, FS_Subset, FS_CardinalityType
<1>3. order \in [1 .. n -> S] /\ Elements(order) = S
  BY <1>1 DEF Orders
<1>4. order \in Seq(Server) /\ Len(order) = n
  <2>1. order \in [1 .. n -> Server]
    BY <1>3
  <2>2. order \in Seq(Server)
    BY <1>2, <2>1, SeqDef
  <2> QED
    BY <1>2, <2>1, <2>2, LenProperties
<1>5. Distinct(order)
  <2>1. order \in Surjection(1 .. n, S)
    BY <1>3, <1>4 DEF Surjection, Elements
  <2>2. IsFiniteSet(1 .. n) /\ Cardinality(1 .. n) = n
    BY <1>2, FS_Interval
  <2>3. order \in Injection(1 .. n, S)
    BY <1>1, <2>1, <2>2, FS_Surjection
  <2> QED
    BY <1>4, <2>3 DEF Injection, IsInjective, Distinct
<1> QED
  BY <1>3, <1>4, <1>5

LEMMA EmptyLinks ==
  ASSUME NEW pr
  PROVE  Links(init_pq, <<>>, pr)
<1>1. IsReadyQueue(init_pq)
  <2>1. NoServer \in OrNone
    BY DEF OrNone
  <2> QED
    BY <2>1 DEF init_pq, IsReadyQueue
<1>2. <<>> \in Seq(Server) /\ Len(<<>>) = 0
  OBVIOUS
<1>3. Distinct(<<>>)
  BY <1>2 DEF Distinct
<1>4. ASSUME NEW p \in 0 .. INT_SIZE_BIT
      PROVE  /\ FirstAfter(<<>>, pr, 0, p, init_pq.bitmap_extension[p])
             /\ p \in init_pq.bitmap <=> init_pq.bitmap_extension[p] # NoServer
  BY <1>2 DEF init_pq, FirstAfter
<1> QED
  BY <1>1, <1>2, <1>3, <1>4 DEF Links

LEMMA ReadyInit ==
  ASSUME Init
  PROVE  ReadyInv
<1>1. IsPriority(priority)
  BY PeriodAssumption DEF Init, IsPriority
<1>2. PICK order, all :
        /\ order \in Orders(Server)
        /\ all = InsertAllReady([queue |-> init_pq, ready |-> <<>>], order)
        /\ ready_queue = bitmap_retrieve(all.queue)
        /\ ready = Without(all.ready, bitmap_get(all.queue))
  BY DEF Init
<1>3. order \in Seq(Server) /\ Distinct(order) /\ Elements(order) = Server
  BY <1>2, OrderOf
<1>4. \A s : MayInsert(<<>>, s)
  <2>1. Elements(<<>>) = {}
    BY DEF Elements
  <2> QED
    BY <2>1 DEF MayInsert
<1>5. Links(all.queue, all.ready, priority)
      /\ Elements(all.ready) = Elements(<<>>) \cup Server
  BY <1>1, <1>2, <1>3, <1>4, EmptyLinks, InsertedAll
<1>6. all.ready # <<>>
  <2>1. Elements(<<>>) = {}
    BY DEF Elements
  <2> QED
    BY <1>5, <2>1, RelPqAssumption
<1> QED
  BY <1>1, <1>2, <1>5, <1>6, RetrievedLinks DEF ReadyInv

LEMMA ReadyNext ==
  ASSUME QueueInv, ReadyInv, [Next]_vars
  PROVE  ReadyInv'
<1>1. CASE Release
  <2>1. PICK step, order, all :
          /\ step = ReleaseDue(queue, period)
          /\ \A s \in step.nodes : ~Shares(s)
          /\ order \in Orders(step.nodes)
          /\ all = InsertAllReady([queue |-> ready_queue, ready |-> ready], order)
          /\ ready_queue' = all.queue /\ ready' = all.ready /\ priority' = priority
    BY <1>1 DEF Release
  <2>2. step.nodes \in SUBSET Server
    <3>1. /\ Sound(queue) /\ Held(queue) = Server /\ Largest <= Wrap(queue)
          /\ period \in [Server -> Period]
      BY DEF QueueInv, HoldsAll
    <3>2. Wrap(queue) \in Nat \ {0} /\ Largest \in Nat \ {0}
          /\ \A n \in Server : period[n] \in 1 .. Largest
      BY <3>1, WrapType, PeriodsFit
    <3>3. \A n \in Server : period[n] \in 1 .. Wrap(queue)
      BY <3>1, <3>2
    <3>4. Held(queue) # {}
      BY <3>1, RelPqAssumption
    <3> QED
      BY <2>1, <3>1, <3>3, <3>4, ReleaseDueSound
  <2>3. order \in Seq(Server) /\ Distinct(order) /\ Elements(order) = step.nodes
    BY <2>1, <2>2, OrderOf
  <2>4. ASSUME NEW i \in 1 .. Len(order)
        PROVE  MayInsert(ready, order[i])
    <3>1. order[i] \in step.nodes
      BY <2>3 DEF Elements
    <3> QED
      BY <2>1, <3>1 DEF Shares, MayInsert
  <2>5. Links(all.queue, all.ready, priority)
    BY <2>1, <2>3, <2>4, InsertedAll DEF ReadyInv
  <2> QED
    BY <2>1, <2>5 DEF ReadyInv
<1>2. CASE Complete
  <2>1. /\ bitmap_get(ready_queue) # NoServer
        /\ ready_queue' = bitmap_retrieve(ready_queue)
        /\ ready' = Without(ready, bitmap_get(ready_queue))
        /\ priority' = priority
    BY <1>2 DEF Complete
  <2>2. ready # <<>>
    BY <2>1, HighestRead DEF ReadyInv
  <2>3. Links(ready_queue', ready', priority)
    BY <2>1, <2>2, RetrievedLinks DEF ReadyInv
  <2> QED
    BY <2>1, <2>3 DEF ReadyInv
<1>3. CASE UNCHANGED <<priority, ready_queue, ready>>
  BY <1>3 DEF ReadyInv
<1> QED
  BY <1>1, <1>2, <1>3 DEF Next, Wait, Look, vars

LEMMA ReadyRead ==
  ASSUME ReadyInv
  PROVE  ReadyExact
<1>1. /\ IsPriority(priority) /\ Links(ready_queue, ready, priority)
      /\ ready \in Seq(Server) /\ Len(ready) \in Nat
      /\ \A i \in 1 .. Len(ready) : ready[i] \in Server
  BY LenProperties, ElementOfSeq DEF ReadyInv, Links
<1>2. ASSUME NEW p \in 0 .. INT_SIZE_BIT
      PROVE  /\ Linked(ready_queue, ready_queue.bitmap_extension[p])
                  = {s \in Elements(ready) : priority[s] = p}
             /\ p \in ready_queue.bitmap <=> ready_queue.bitmap_extension[p] # NoServer
  BY <1>1, ListRead DEF Links
<1>3. CASE ready = <<>>
  BY <1>1, <1>2, <1>3, HighestRead DEF ReadyExact
<1>4. CASE ready # <<>>
  <2>1. PICK j \in 1 .. Len(ready) : IsHighest(ready_queue, ready, priority, j)
    BY <1>1, <1>4, HighestRead
  <2>2. PICK p : p = Lsb(ready_queue)
    OBVIOUS
  <2>3. /\ bitmap_get(ready_queue) = ready[j] /\ priority[ready[j]] = p
        /\ \A k \in 1 .. j - 1 : priority[ready[k]] # p
        /\ \A i \in 1 .. Len(ready) : p <= priority[ready[i]]
    BY <2>1, <2>2 DEF IsHighest
  <2>4. \A i \in 1 .. Len(ready) : priority[ready[i]] \in Nat
    BY <1>1, Sizes DEF IsPriority
  <2>5. \A i \in 1 .. Len(ready) : ready[i] \in HighestReady <=> priority[ready[i]] = p
    <3> SUFFICES ASSUME NEW i \in 1 .. Len(ready)
                 PROVE  ready[i] \in HighestReady <=> priority[ready[i]] = p
      OBVIOUS
    <3>1. ready[i] \in HighestReady <=>
            \A k \in 1 .. Len(ready) : priority[ready[i]] <= priority[ready[k]]
      BY DEF HighestReady, Elements
    <3>2. ASSUME priority[ready[i]] = p
          PROVE  ready[i] \in HighestReady
      BY <2>3, <3>1, <3>2
    <3>3. ASSUME ready[i] \in HighestReady
          PROVE  priority[ready[i]] = p
      <4>1. priority[ready[i]] <= p /\ p <= priority[ready[i]]
        BY <2>3, <3>1, <3>3
      <4> QED
        BY <2>3, <2>4, <4>1
    <3> QED
      BY <3>2, <3>3
  <2>6. PICK places : places = {i \in 1 .. Len(ready) : ready[i] \in HighestReady}
    OBVIOUS
  <2>7. j \in places /\ \A i \in places : j <= i
    BY <1>1, <2>3, <2>5, <2>6
  <2>8. FirstOf(places) = j
    <3>1. places \in SUBSET Nat /\ places # {}
      BY <1>1, <2>6, <2>7
    <3>2. FirstOf(places) \in places /\ \A i \in places : FirstOf(places) <= i
      BY <3>1, FirstOfProperty
    <3> QED
      BY <1>1, <2>6, <2>7, <3>2
  <2> QED
    BY <1>2, <1>4, <2>3, <2>6, <2>8 DEF ReadyExact
<1> QED
  BY <1>3, <1>4

----------------------------------------------------------------------------
(* What follows.                                                           *)

\* The release queue implements a timetable: whatever the periods, however
\* often the two bitmaps wrap and whenever the next event is looked at, what is
\* retrieved is due and nothing that is due is passed by.
THEOREM TimetableImplemented == Spec => ImplementsTimetable
<1>1. Init => QueueInv /\ TT!Init
  BY QueueInit DEF TT!Init
<1>2. QueueInv /\ [Next]_vars => QueueInv' /\ [TT!Next]_Due
  BY QueueNext
<1> QED
  BY <1>1, <1>2, PTL DEF Spec, ImplementsTimetable, TT!Spec

\* The release queue stays intact: each node has one place, each bit agrees
\* with its list, and the nodes are all counted.
THEOREM QueueWellFormed == Spec => []WellFormed
<1>1. QueueInv => WellFormed
  <2> SUFFICES ASSUME QueueInv
               PROVE  WellFormed
    OBVIOUS
  <2>1. Sound(queue) /\ Held(queue) = Server /\ wait \in Nat
    BY DEF QueueInv, HoldsAll, Tells
  <2>2. ASSUME NEW n \in Server
        PROVE  Cardinality(Places(queue, n)) = 1
    <3>1. Places(queue, n) # {} /\ \A p, r \in Places(queue, n) : p = r
      BY <2>1 DEF Held, Sound, OnePlace
    <3>2. PICK p : Places(queue, n) = {p}
      BY <3>1
    <3> QED
      BY <3>2, FS_Singleton
  <2>3. /\ IsRelPq(queue) /\ BitmapMatchesLists(queue)
        /\ queue.nr_of_elements = Cardinality(Server)
    BY <2>1 DEF Sound, Typed
  <2> QED
    BY <2>1, <2>2, <2>3 DEF WellFormed
<1>2. Init => QueueInv
  BY QueueInit
<1>3. QueueInv /\ [Next]_vars => QueueInv'
  BY QueueNext
<1> QED
  BY <1>1, <1>2, <1>3, PTL DEF Spec

\* Both queues stay intact and agree with what was released, waits and
\* completed: also the ready queue, whose lists are linked through the servers, links
\* each ready server once, in the list of its priority and in the order in which
\* they became ready, when a server that is alone with its priority is released
\* while it is ready and inserted again.
THEOREM QueuesIntact == Spec => []QueuesExact
<1>1. Init => ReadyInv
  BY ReadyInit
<1>2. QueueInv /\ ReadyInv /\ [Next]_vars => ReadyInv'
  BY ReadyNext
<1>3. Init => QueueInv
  BY QueueInit
<1>4. QueueInv /\ [Next]_vars => QueueInv'
  BY QueueNext
<1>5. ReadyInv => ReadyExact
  BY ReadyRead
<1>6. WellFormed /\ ReadyExact => QueuesExact
  BY DEF QueuesExact
<1> QED
  BY <1>1, <1>2, <1>3, <1>4, <1>5, <1>6, QueueWellFormed, PTL DEF Spec
=============================================================================
