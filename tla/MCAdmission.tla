---------------------------- MODULE MCAdmission ----------------------------
(***************************************************************************)
(* A small instance of Admission: three tasks, two of which share the      *)
(* higher priority, and a second of four microseconds.                     *)
(***************************************************************************)
EXTENDS Admission, TLC

CONSTANTS t1, t2, t3

MCpriority == [t \in RtTask |-> IF t = t3 THEN 1 ELSE 2]

\* The first is not a whole number of milliseconds.
MCPeriodArgs == {tv(0, 3), tv(2, 0)}
MCDeadlineArgs == {tv(1, 3)}
MCWcetArgs == {tv(0, 1), tv(0, 3), tv(1, 1)}
MCClockArgs == {tv(0, 3), tv(1, 0)}

MCSymmetry == Permutations({t1, t2})
=============================================================================
