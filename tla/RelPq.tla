------------------------------- MODULE RelPq -------------------------------
(***************************************************************************)
(* The release queue of plugin/memsched/release-queue.c: two bitmaps of    *)
(* bitmap_size integers each, one for the releases of the current round of *)
(* W jiffies and one for those of the next round, and two arrays of lists  *)
(* of nodes.  A queue is a record and an operation maps a queue to a       *)
(* queue.                                                                  *)
(*                                                                         *)
(* An integer is the set of the positions of its bits, numbered from 1 as  *)
(* ffs() numbers them.  An insertion pushes a node on top of its list, so  *)
(* a list is the set of its members, in the order of their insertions that *)
(* the field `since' keeps: since[n] nodes were inserted after n.          *)
(***************************************************************************)
EXTENDS Integers, FiniteSets

CONSTANTS
  INT_SIZE_BIT,   \* bits of an int; 32 in the program
  Server          \* the servers of the core; each has one node, its name here

ASSUME RelPqAssumption ==
  /\ INT_SIZE_BIT \in Nat \ {0}
  /\ IsFiniteSet(Server)
  /\ Server # {}

Least(S) == CHOOSE x \in S : \A y \in S : x <= y

\* The head of a list.
First(q, list) == CHOOSE n \in list :
                    \A m \in list : q.since[n] <= q.since[m]

----------------------------------------------------------------------------
\* relPq_init's loop: as many integers as the largest period needs.
BitmapSize(largest_period) == Least({n \in 0 .. largest_period :
                                       n * INT_SIZE_BIT >= largest_period})

RelPqInit(largest_period) ==
  LET size == BitmapSize(largest_period)
  IN  [ virtual_time            |-> 0,
        nr_of_elements          |-> 0,
        active_bitmap_int_index |-> 0,
        bitmap_size             |-> size,
        active_bitmap           |-> 0,
        since                   |-> [n \in Server |-> 0],
        bitmap           |-> [b \in {0, 1} |-> [i \in 0 .. size - 1 |-> {}]],
        bitmap_extension |-> [b \in {0, 1} |->
                                [v \in 1 .. size * INT_SIZE_BIT |-> {}]] ]

\* The length of a round, the value where the queue wraps.
Wrap(q) == q.bitmap_size * INT_SIZE_BIT

Other(b) == 1 - b

\* The integer and the bit that stand for a value of 1 .. W; a multiple of
\* the integer's size is the last bit of the integer before.
DivByIntSize(value) ==
  (value \div INT_SIZE_BIT) - (IF value % INT_SIZE_BIT = 0 THEN 1 ELSE 0)
BitOf(value) == value - DivByIntSize(value) * INT_SIZE_BIT

\* Mutant: the last value of a round already counts for the next one.
BitmapAtEnd(q, value) == IF value >= Wrap(q) THEN Other(q.active_bitmap)
                                             ELSE q.active_bitmap

\* Where an insertion puts a value: a value past the end of the round goes to
\* the inactive bitmap.
Bitmap(q, value) == IF value > Wrap(q) THEN Other(q.active_bitmap)
                                       ELSE q.active_bitmap
Wrapped(q, value) == IF value > Wrap(q) THEN value - Wrap(q) ELSE value

\* The order of insertion when the nodes of a set are popped one by one ...
Popped(q, nodes) ==
  LET Later(m, n) == IF m \in nodes <=> n \in nodes
                     THEN q.since[m] < q.since[n] ELSE n \in nodes
  IN  [n \in Server |-> Cardinality({m \in Server : Later(m, n)})]

\* ... and when they are pushed in the order in which they were popped.
Pushed(q, nodes) ==
  LET Later(m, n) == IF m \in nodes <=> n \in nodes
                     THEN (m \in nodes) # (q.since[m] < q.since[n]) /\ m # n
                     ELSE m \in nodes
  IN  [n \in Server |-> Cardinality({m \in Server : Later(m, n)})]

\* relPq_insert, for each node of a set of nodes (at[n] is the value node n is
\* inserted with).
InsertAll(q, at) ==
  LET bit(n) == Wrapped(q, at[n])
      In(b)  == {n \in DOMAIN at : Bitmap(q, at[n]) = b}
  IN  [q EXCEPT
        !.nr_of_elements = @ + Cardinality(DOMAIN at),
        !.since = Pushed(q, DOMAIN at),
        !.bitmap = [b \in {0, 1} |-> [i \in DOMAIN @[b] |->
          @[b][i] \cup {BitOf(bit(n)) : n \in {m \in In(b) :
                                               DivByIntSize(bit(m)) = i}}]],
        !.bitmap_extension = [b \in {0, 1} |-> [v \in DOMAIN @[b] |->
          @[b][v] \cup {n \in In(b) : bit(n) = v}]]]

Insert(q, value, node) == InsertAll(q, [n \in {node} |-> value])

----------------------------------------------------------------------------
\* The integers of the active bitmap that a search still visits.
NonEmptyInts(q) ==
  {i \in q.active_bitmap_int_index .. q.bitmap_size - 1 :
     q.bitmap[q.active_bitmap][i] # {}}

\* Mutant: the virtual time stays in the round that ended.
ShiftBitmapOnly(q) ==
  [q EXCEPT !.active_bitmap = Other(@), !.active_bitmap_int_index = 0]

\* The search leaves the active bitmap: the other one becomes active and the
\* virtual time goes back by a round.
ShiftBitmap(q) ==
  [q EXCEPT !.active_bitmap = Other(@),
            !.active_bitmap_int_index = 0,
            !.virtual_time = -(Wrap(q) - @)]

\* The queue when the search for the smallest value stops.  A bitmap whose
\* index passed a value is visited again from the start after two shifts.
Search(q) ==
  LET s == IF NonEmptyInts(q) # {} THEN q
           ELSE IF NonEmptyInts(ShiftBitmap(q)) # {} THEN ShiftBitmap(q)
           ELSE ShiftBitmap(ShiftBitmap(q))
  IN  [s EXCEPT !.active_bitmap_int_index = Least(NonEmptyInts(s))]

\* The value at which a search stopped.
FoundValue(s) ==
  Least(s.bitmap[s.active_bitmap][s.active_bitmap_int_index])
    + s.active_bitmap_int_index * INT_SIZE_BIT

\* relPq_peek: the smallest value, -1 in an empty queue.  It shifts copies.
Peek(q) == IF q.nr_of_elements = 0 THEN -1 ELSE FoundValue(Search(q))

\* The list at which a search stopped.
FoundList(s) == s.bitmap_extension[s.active_bitmap][FoundValue(s)]

\* A pair of arrays with one entry changed.
Update(arrays, b, i, entry) ==
  [arrays EXCEPT ![b] = [arrays[b] EXCEPT ![i] = entry]]

\* Unlink nodes of the list at which a search stopped; the bit of the list is
\* cleared when no node is left.
Unlink(s, nodes) ==
  LET value == FoundValue(s)
      b     == s.active_bitmap
      i     == s.active_bitmap_int_index
      left  == FoundList(s) \ nodes
  IN  [s EXCEPT
        !.nr_of_elements = @ - Cardinality(nodes),
        !.since = Popped(s, nodes),
        !.bitmap = Update(@, b, i, IF left = {} THEN @[b][i] \ {BitOf(value)}
                                                ELSE @[b][i]),
        !.bitmap_extension = Update(@, b, value, left)]

\* The two calls of relPq_retrieve that every caller makes in a row: the
\* first finds the value and clears its bit when its list has one node, the
\* second unlinks the head of the list.
Retrieve(q) ==
  LET s    == Search(q)
      node == First(s, FoundList(s))
  IN  [event |-> FoundValue(s), node |-> node, queue |-> Unlink(s, {node})]

\* The retrieves of a loop that goes on while the active bitmap holds nodes
\* at the same value.
RetrieveList(q) ==
  LET s == Search(q)
  IN  [ event |-> FoundValue(s), nodes |-> FoundList(s),
        queue |-> Unlink(s, FoundList(s)) ]

----------------------------------------------------------------------------
\* The uses that the handlers of memsched.c make of the queue.

\* Take every node due at the smallest value: retrieve one, and more as long
\* as peek shows the same value.  Peek does not tell the bitmaps apart: the
\* loop goes on with the other one when its smallest value is the same.
RetrieveDue(q) ==
  LET one  == RetrieveList(q)
      more == RetrieveList(one.queue)
  IN  IF Peek(one.queue) = one.event
      THEN [more EXCEPT !.nodes = @ \cup one.nodes]
      ELSE one

\* Mutant: the node looked at is not inserted again.
FetchNextLost(q) == Retrieve(q)

\* Look at the next event: retrieve its node and insert it again.
FetchNext(q) ==
  LET next == Retrieve(q)
  IN  [next EXCEPT !.queue = Insert(@, next.event, next.node)]

\* Release: take what is due, insert each node again one period later and
\* fetch the next event, whose distance from the virtual time is `relative'.
ReleaseDue(q, period) ==
  LET due  == RetrieveDue(q)
      next == FetchNext(InsertAll(due.queue,
                 [n \in due.nodes |-> due.event + period[n]]))
  IN  [ queue    |-> next.queue,
        nodes    |-> due.nodes,
        first    |-> Retrieve(q).node,
        node     |-> next.node,
        relative |-> next.event - next.queue.virtual_time ]

----------------------------------------------------------------------------
\* Descriptions of a queue, used by the properties.

IsRelPq(q) ==
  q \in [ virtual_time : Int, nr_of_elements : Nat,
          active_bitmap_int_index : Nat, bitmap_size : {q.bitmap_size},
          active_bitmap : {0, 1}, since : [Server -> Nat],
          bitmap : [{0, 1} ->
                      [0 .. q.bitmap_size - 1 -> SUBSET (1 .. INT_SIZE_BIT)]],
          bitmap_extension : [{0, 1} -> [1 .. Wrap(q) -> SUBSET Server]] ]

\* The places <<bitmap, value>> that hold a node.
Places(q, n) ==
  {p \in {0, 1} \X (1 .. Wrap(q)) : n \in q.bitmap_extension[p[1]][p[2]]}

\* The instants at which a node is due, counted on the queue's virtual time.
Instants(q, n) ==
  {p[2] + (IF p[1] = q.active_bitmap THEN 0 ELSE Wrap(q)) : p \in Places(q, n)}

\* A bit is set exactly when its list has a node.
BitmapMatchesLists(q) ==
  \A b \in {0, 1} : \A v \in 1 .. Wrap(q) :
    BitOf(v) \in q.bitmap[b][DivByIntSize(v)] <=> q.bitmap_extension[b][v] # {}
=============================================================================
