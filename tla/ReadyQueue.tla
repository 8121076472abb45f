----------------------------- MODULE ReadyQueue -----------------------------
(***************************************************************************)
(* The ready queue of plugin/memsched/ready-queue.c: a bitmap with a bit   *)
(* for each priority, the smallest the highest, and for each bit the first *)
(* server of a list linked by server_t.next.  A queue is a record and an   *)
(* operation maps a queue to a queue.  A bit is numbered from 0, as        *)
(* SET_BIT numbers it.                                                     *)
(***************************************************************************)
EXTENDS Integers, FiniteSets

CONSTANTS
  INT_SIZE_BIT,
  Server,
  NoServer      \* NULL

init_pq ==
  [ bitmap           |-> {},
    bitmap_extension |-> [p \in 0 .. INT_SIZE_BIT |-> NoServer],
    next             |-> [s \in Server |-> NoServer] ]

\* The servers linked from server s on, s included.
Linked(q, s) ==
  LET upto[n \in 0 .. Cardinality(Server)] ==
        IF n = 0 THEN {s} \ {NoServer}
        ELSE upto[n - 1] \cup ({q.next[t] : t \in upto[n - 1]} \ {NoServer})
  IN  upto[Cardinality(Server)]

\* Server s of priority p is linked behind the last one of its list, and its own
\* next pointer is cleared.  A priority without a bit is refused.
bitmap_insert(q, s, p) ==
  LET list == Linked(q, q.bitmap_extension[p])
      last == CHOOSE t \in list : q.next[t] = NoServer
  IN  IF p > INT_SIZE_BIT - 1 THEN q
      ELSE [ bitmap           |-> q.bitmap \cup {p},
             bitmap_extension |->
               IF list = {} THEN [q.bitmap_extension EXCEPT ![p] = s]
                            ELSE q.bitmap_extension,
             next             |->
               IF list = {} THEN [q.next EXCEPT ![s] = NoServer]
                            ELSE [q.next EXCEPT ![last] = s, ![s] = NoServer] ]

\* The index that ffs finds.
Lsb(q) == CHOOSE p \in q.bitmap : \A r \in q.bitmap : p <= r

bitmap_get(q) ==
  IF q.bitmap = {} THEN NoServer ELSE q.bitmap_extension[Lsb(q)]

\* Mutant: the bit is cleared although the list goes on.
retrieve_clearing(q) ==
  LET s == bitmap_get(q)
  IN  IF s = NoServer THEN q
      ELSE [ bitmap           |-> q.bitmap \ {Lsb(q)},
             bitmap_extension |-> [q.bitmap_extension EXCEPT ![Lsb(q)] = q.next[s]],
             next             |-> [q.next EXCEPT ![s] = NoServer] ]

\* The first server of the highest priority is unlinked; the bit is cleared with
\* the last one.
bitmap_retrieve(q) ==
  LET s == bitmap_get(q)
  IN  IF s = NoServer THEN q
      ELSE [ bitmap           |-> IF q.next[s] = NoServer THEN q.bitmap \ {Lsb(q)}
                                                          ELSE q.bitmap,
             bitmap_extension |-> [q.bitmap_extension EXCEPT ![Lsb(q)] = q.next[s]],
             next             |-> [q.next EXCEPT ![s] = NoServer] ]
=============================================================================
