----------------------------- MODULE Admission -----------------------------
(***************************************************************************)
(* The timing parameters of the tasks and the schedulability analysis of   *)
(* core/resch.c: what a task asks for through libresch.c, the conversions  *)
(* on the way, the global list, and the two response-time analyses that    *)
(* RESCH exports, with the scheduling overhead that it measures.           *)
(*                                                                         *)
(* A call is one step: a task sets its own parameters only, and the list   *)
(* is changed and searched under its semaphore.  Cores has the same list   *)
(* as global: the names here can stand beside those of Cores.              *)
(***************************************************************************)
EXTENDS TvOps, Lists

CONSTANTS
  RtTask,
  priority,    \* the priority that each task sets
  HZ,          \* jiffies in a second
  ULONG_MOD,   \* an unsigned long counts modulo this number
  PeriodArgs, DeadlineArgs, WcetArgs,   \* the timevals that tasks pass
  ClockArgs    \* the times at which the overhead test reads the clock

ASSUME AdmissionAssumption ==
  /\ priority \in [RtTask -> Nat]
  /\ HZ \in Nat \ {0} /\ USEC_1SEC % HZ = 0
  /\ ULONG_MOD \in Nat \ {0}
  /\ \A x \in PeriodArgs \cup DeadlineArgs \cup WcetArgs \cup ClockArgs :
       x.tv_sec \in Nat /\ Normal(x)

VARIABLES
  submitted,      \* the tasks from rt_run to rt_exit
  task_list,      \* go.task_list
  period, deadline,   \* in jiffies
  wcet,           \* in microseconds
  switch_begin,   \* test.switch_begin
  switch_cost,
  asked,          \* history: the last period and deadline passed, and the
                  \* deadline that the period stood for, in microseconds
  measured        \* history: the longest context switch measured

params == <<period, deadline, wcet, asked>>
costs == <<switch_begin, switch_cost, measured>>
admission_vars == <<submitted, task_list, params, costs>>

----------------------------------------------------------------------------
(* libresch.c and the kernel's conversions.                                *)

DivUp(x, y) == (x + y - 1) \div y

to_msecs(x) == x.tv_sec * MSEC_1SEC + x.tv_usec \div USEC_1MSEC
to_usecs(x) == x.tv_sec * USEC_1SEC + x.tv_usec

msecs_to_jiffies(ms) == DivUp(ms * HZ, MSEC_1SEC)
jiffies_to_usecs(j) == j * (USEC_1SEC \div HZ)
usecs_to_jiffies(us) == DivUp(us * HZ, USEC_1SEC)

div_round_up(x, y) == IF x % y = 0 THEN x \div y ELSE x \div y + 1

----------------------------------------------------------------------------
(* The system calls.                                                       *)

AdmissionInit ==
  /\ submitted = {}
  /\ task_list = <<>>
  /\ period = [t \in RtTask |-> 0]
  /\ deadline = [t \in RtTask |-> 0]
  /\ wcet = [t \in RtTask |-> 0]
  /\ asked = [t \in RtTask |-> [period |-> 0, deadline |-> 0]]
  /\ switch_begin = tvclear
  /\ switch_cost = 0
  /\ measured = 0

\* The period is the deadline too if none has been set yet.
rt_set_period(t, x) ==
  LET jiffies == msecs_to_jiffies(to_msecs(x))
  IN  /\ period' = [period EXCEPT ![t] = jiffies]
      /\ deadline' = [deadline EXCEPT ![t] = IF @ = 0 THEN jiffies ELSE @]
      /\ asked' = [asked EXCEPT
           ![t] = [period |-> to_usecs(x),
                   deadline |-> IF deadline[t] = 0 THEN to_usecs(x)
                                                   ELSE @.deadline]]
      /\ UNCHANGED <<submitted, task_list, wcet, costs>>

rt_set_deadline(t, x) ==
  /\ deadline' = [deadline EXCEPT ![t] = msecs_to_jiffies(to_msecs(x))]
  /\ asked' = [asked EXCEPT ![t].deadline = to_usecs(x)]
  /\ UNCHANGED <<submitted, task_list, period, wcet, costs>>

rt_set_wcet(t, x) ==
  /\ wcet' = [wcet EXCEPT ![t] = to_usecs(x)]
  /\ UNCHANGED <<submitted, task_list, period, deadline, asked, costs>>

rt_run(t) ==
  /\ t \notin submitted
  /\ submitted' = submitted \cup {t}
  /\ task_list' = __global_list_insert(task_list, t, priority)
  /\ UNCHANGED <<params, costs>>

\* Mutant: the list is not changed.
not_removed(t) == task_list

__global_list_remove(t) == Without(task_list, t)

\* The task leaves, and another one starts from the initial parameters.
rt_exit(t) ==
  /\ t \in submitted
  /\ submitted' = submitted \ {t}
  /\ task_list' = __global_list_remove(t)
  /\ period' = [period EXCEPT ![t] = 0]
  /\ deadline' = [deadline EXCEPT ![t] = 0]
  /\ wcet' = [wcet EXCEPT ![t] = 0]
  /\ asked' = [asked EXCEPT ![t] = [period |-> 0, deadline |-> 0]]
  /\ UNCHANGED costs

----------------------------------------------------------------------------
(* The test of the overhead, which runs before the tasks.                  *)

test_switch_begin(now) ==
  /\ submitted = {}
  /\ switch_begin' = now
  /\ UNCHANGED <<submitted, task_list, params, switch_cost, measured>>

\* The seconds of the difference are ignored: it is less than one.
test_switch_end(now) ==
  LET result == tvsub(now, switch_begin)
      passed == Usecs(now) - Usecs(switch_begin)
  IN  /\ submitted = {}
      /\ passed \in 0 .. USEC_1SEC - 1
      /\ switch_cost' = IF switch_cost < result.tv_usec THEN result.tv_usec
                                                        ELSE switch_cost
      /\ measured' = IF measured < passed THEN passed ELSE measured
      /\ UNCHANGED <<submitted, task_list, params, switch_begin>>

TaskCall(t) ==
  \/ rt_run(t)
  \/ rt_exit(t)
  \/ /\ t \notin submitted
     /\ \/ \E x \in PeriodArgs : rt_set_period(t, x)
        \/ \E x \in DeadlineArgs : rt_set_deadline(t, x)
        \/ \E x \in WcetArgs : rt_set_wcet(t, x)

TestCall ==
  \E now \in ClockArgs : test_switch_begin(now) \/ test_switch_end(now)

AdmissionNext == TestCall \/ \E t \in RtTask : TaskCall(t)

AdmissionSpec == AdmissionInit /\ [][AdmissionNext]_admission_vars

----------------------------------------------------------------------------
(* The analyses.  They divide by the periods of the tasks in the list.     *)

Analysable == \A t \in submitted : period[t] > 0

\* How many tasks the loops over the list take before they break.
HigherOrEqual(t) ==
  LET lower == {i \in 1 .. Len(task_list) :
                  priority[task_list[i]] < priority[t]}
  IN  IF lower = {} THEN Len(task_list) ELSE FirstOf(lower) - 1

\* Mutant: the job that the window ends in is not counted.
whole_jobs(L, F, Pk, Ck) == IF L >= Pk * F + Ck THEN Ck * (F + 1) ELSE Ck * F

\* The demand of a task in a window of L from a common release.
Demand_hp(L, F, Pk, Ck) ==
  IF L >= Pk * F + Ck THEN Ck * (F + 1) ELSE L - F * (Pk - Ck)

context_switch_cost == switch_cost

\* The jobs that each task of the list completes in the interval.
Jobs(interval) ==
  [i \in 1 .. Len(task_list) |->
     div_round_up(interval, jiffies_to_usecs(period[task_list[i]]))]

\* The difference of the ticks and the jobs is unsigned.
sched_overhead_cpu(interval) ==
  LET nr_jobs == SumTo(Jobs(interval), Len(task_list))
      ticks   == (usecs_to_jiffies(interval) - nr_jobs) % ULONG_MOD
  IN  2 * nr_jobs * context_switch_cost
        + ((ticks * context_switch_cost) % ULONG_MOD) \div 2

sched_overhead_task(t, interval) ==
  div_round_up(interval, jiffies_to_usecs(period[t])) * context_switch_cost

\* The window of the analysis, and what task hp demands in it.
Window(t) == jiffies_to_usecs(deadline[t])

DemandIn(t, hp) ==
  Demand_hp(Window(t), deadline[t] \div period[hp],
            jiffies_to_usecs(period[hp]), wcet[hp])

Demands(t) ==
  SumTo([i \in 1 .. HigherOrEqual(t) |->
           IF task_list[i] = t THEN 0 ELSE DemandIn(t, task_list[i])],
        HigherOrEqual(t))

\* What the analysis adds up, and what an unsigned long keeps of it.
ResponseTime(t) ==
  Demands(t) + wcet[t] + sched_overhead_cpu(Window(t))
    + sched_overhead_task(t, Window(t))

response_time_analysis(t) == ResponseTime(t) % ULONG_MOD

tv_demand(L, F, period_hp, wcet_hp) ==
  IF tvge(L, tvadd(tvmul(period_hp, F), wcet_hp))
  THEN tvmul(wcet_hp, F + 1)
  ELSE tvsub(L, tvmul(tvsub(period_hp, wcet_hp), F))

tv_demand_in(t, hp) ==
  tv_demand(tvjiffies(deadline[t]), deadline[t] \div period[hp],
            tvjiffies(period[hp]), tvus(wcet[hp]))

response_time_analysis_timeval(t) ==
  LET ret[k \in 0 .. HigherOrEqual(t)] ==
        IF k = 0 THEN tvclear
        ELSE IF task_list[k] = t THEN ret[k - 1]
        ELSE tvadd(ret[k - 1], tv_demand_in(t, task_list[k]))
  IN  tvadd(ret[HigherOrEqual(t)], tvus(wcet[t]))

----------------------------------------------------------------------------
(* Properties.                                                             *)

AdmissionTypeOK ==
  /\ submitted \subseteq RtTask
  /\ Elements(task_list) = submitted /\ Distinct(task_list)
  /\ {period, deadline, wcet} \subseteq [RtTask -> Nat]
  /\ switch_begin \in ClockArgs \cup {tvclear}
  /\ switch_cost \in 0 .. USEC_1SEC - 1

\* The tasks that a job of t can be delayed by, and their demand in the first
\* w microseconds with two context switches for each job.
Delaying(t) == {h \in submitted \ {t} : priority[h] >= priority[t]}

JobCost(t) == wcet[t] + 2 * switch_cost

\* The list has each submitted task once.
DemandUntil(t, w) ==
  JobCost(t) + SumTo([i \in 1 .. Len(task_list) |->
                        IF task_list[i] \in Delaying(t)
                        THEN DivUp(w, asked[task_list[i]].period)
                               * JobCost(task_list[i])
                        ELSE 0],
                     Len(task_list))

MeetsDeadline(t) == \E w \in 1 .. asked[t].deadline : DemandUntil(t, w) <= w

\* A task with an execution time and a deadline within its period, whose
\* response time is found to be within its deadline, meets the deadline that it
\* asked for, by the exact test with the periods that the tasks asked for:
\* neither the conversions on the way nor the shortcut of the analysis, which
\* looks at one window only, lose demand.
AnalysisSound ==
  Analysable =>
    \A t \in submitted :
      /\ deadline[t] \in 1 .. period[t] /\ wcet[t] > 0
      /\ response_time_analysis(t) <= Window(t)
      => MeetsDeadline(t)

\* The analysis on timevals, made for times that an unsigned long does not
\* hold, finds the same response time without overhead as long as execution
\* times are below a second, and never a shorter one.
AnalysesAgree ==
  Analysable =>
    \A t \in submitted :
      LET found == Usecs(response_time_analysis_timeval(t))
          exact == Demands(t) + wcet[t]
      IN  /\ found >= exact
          /\ (\A h \in submitted : wcet[h] < USEC_1SEC) => found = exact

\* The cost of a context switch is the longest one measured, also when a
\* second begins in the course of it.
CostIsLongest == switch_cost = measured
=============================================================================
