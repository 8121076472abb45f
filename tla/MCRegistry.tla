---------------------------- MODULE MCRegistry -----------------------------
(***************************************************************************)
(* Small instances of Registry: tasks, one manager with virtual machines,  *)
(* and both.                                                               *)
(***************************************************************************)
EXTENDS Registry, TLC

CONSTANTS p1, p2, p3

MCRole(role, does) == [role |-> role, does |-> does]
MCRoles(f, g) == [p \in Process |-> IF p = p1 THEN f ELSE g]

\* One task does what it may, one process manages the others, or one manages a
\* machine while there is a task of its own.
MCTasks == MCRoles(MCRole("task", {"nest", "killed"}), MCRole("task", {}))
MCManaged == 
  MCRoles(MCRole("manager", {"killed", "stop"}), MCRole("vm", {"killed"}))
MCMixed ==
  {[MCRoles(MCRole("manager", {}), MCRole("vm", {}))
      EXCEPT ![p] = MCRole("task", {})] : p \in Process \ {p1}}

MCScenarios == {MCTasks, MCManaged} \cup MCMixed
MCPlainTasks == {[p \in Process |-> MCRole("task", {})]}

\* The processes but p1 are alike in the set of the scenarios.
MCSymmetry == Permutations(Process \ {p1})
=============================================================================
