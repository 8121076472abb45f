------------------------------- MODULE Lists -------------------------------
(***************************************************************************)
(* The kernel's linked lists (linux/list.h) as sequences, and the          *)
(* insertion into the global list of core/resch.c in order of priority.    *)
(* An entry is linked into a list once at most.                            *)
(***************************************************************************)
EXTENDS Integers, Sequences

Elements(list) == {list[i] : i \in 1 .. Len(list)}

\* No entry is in the list twice.
Distinct(list) ==
  \A i, j \in 1 .. Len(list) : list[i] = list[j] => i = j

FirstOf(places) == CHOOSE i \in places : \A j \in places : i <= j

\* list_del: the neighbours of entry t, if it is linked, are joined.
Without(list, t) ==
  LET n == FirstOf({i \in 1 .. Len(list) : list[i] = t})
  IN  IF t \in Elements(list)
      THEN SubSeq(list, 1, n - 1) \o SubSeq(list, n + 1, Len(list)) ELSE list

\* list_add_tail before entry number n + 1.
InsertAfter(list, n, t) ==
  Append(SubSeq(list, 1, n), t) \o SubSeq(list, n + 1, Len(list))

\* Mutant: appended at the tail.
global_append(list, t, prio) == Append(list, t)

\* Before the first task of a lower priority.
__global_list_insert(list, t, prio) ==
  LET lower == {i \in 1 .. Len(list) : prio[list[i]] < prio[t]}
      n     == IF lower = {} THEN Len(list) ELSE FirstOf(lower) - 1
  IN  InsertAfter(list, n, t)

\* f[1] + ... + f[n].
SumTo(f, n) ==
  LET sum[k \in 0 .. n] == IF k = 0 THEN 0 ELSE sum[k - 1] + f[k]
  IN  sum[n]
=============================================================================
