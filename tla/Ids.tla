-------------------------------- MODULE Ids --------------------------------
(***************************************************************************)
(* What the table of RESCH ids promises: a process takes a free id each    *)
(* time it enters the real-time mode and gives back the last one it took   *)
(* each time it leaves, so no id has two holders.  The ids of a process    *)
(* that dies without leaving are lost.                                     *)
(***************************************************************************)
EXTENDS Integers, Sequences

CONSTANTS Process, Id

VARIABLE held   \* the ids that each process holds, the last one taken last

IdsOf(p) == {held[p][i] : i \in DOMAIN held[p]}

Init == held = [p \in Process |-> <<>>]

Take(p) ==
  \E id \in Id \ UNION {IdsOf(q) : q \in Process} :
    held' = [held EXCEPT ![p] = Append(@, id)]

Give(p) ==
  /\ held[p] # <<>>
  /\ held' = [held EXCEPT ![p] = SubSeq(@, 1, Len(@) - 1)]

Next == \E p \in Process : Take(p) \/ Give(p)

Spec == Init /\ [][Next]_held
=============================================================================
