------------------------------- MODULE MCHSF -------------------------------
(***************************************************************************)
(* Small instances of HSF: two servers with a task or two.                 *)
(***************************************************************************)
EXTENDS HSF

CONSTANTS s1, s2, t1, t2, t3

\* Server s1 is the high one, or either of them.
MCHighFirst == [s \in Server |-> IF s = s1 THEN 0 ELSE 1]
MCPriorities == {MCHighFirst}
MCBothOrders == {MCHighFirst, [s \in Server |-> 1 - MCHighFirst[s]]}

\* Handlers interrupt before the hook of the plugin and before schedule().
MCHookAndSleep == [t \in Task |-> {"complete", "sleep"}]

\* Or wherever they do not break what is claimed: not between the comparisons
\* with the release time, and not while a task that starts early is in the list
\* with its flags still to be reset.
MCKeepsMarks ==
  [t \in Task |-> KernelCode \ (IF t \in EarlyTask THEN {"wait", "listed"}
                                                   ELSE {"wait"})]

MCserver_id == [t \in Task |-> IF t = t3 THEN s2 ELSE s1]
=============================================================================
