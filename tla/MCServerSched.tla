--------------------------- MODULE MCServerSched ---------------------------
(***************************************************************************)
(* Small instances of ServerSched.  The configurations explored are all    *)
(* the assignments of small periods and budgets to the servers.            *)
(***************************************************************************)
EXTENDS ServerSched

CONSTANTS
  s1, s2, s3,
  Periods,          \* the periods to assign
  MemBudget         \* the memory budget of every server

\* A fixed priority for each server.
MCPriority == [s \in Server |-> CASE s = s1 -> 0 [] s = s2 -> 1 [] OTHER -> 2]

MCConfig(period, budget) ==
  [s \in Server |-> [ period |-> period[s], budget |-> budget[s],
                      priority |-> MCPriority[s], mem_budget |-> MemBudget ]]

\* Every assignment with budgets that fit in the periods.
AllConfigs ==
  {MCConfig(c[1], c[2]) : c \in
     {d \in [Server -> Periods] \X [Server -> 1 .. 4] :
        \A s \in Server : d[2][s] <= d[1][s]}}

\* The assignments in which every server meets its budget in every period.
SchedulableConfigs == {c \in AllConfigs : Schedulable(c)}

\* These, and the overloaded ones with two of the periods.
MCConfigs ==
  SchedulableConfigs \cup
    {c \in AllConfigs : \A s \in Server : c[s].period \in {3, 5}}
=============================================================================
