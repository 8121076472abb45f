------------------------------- MODULE Bitops -------------------------------
(***************************************************************************)
(* The bit searches of core/bitops.h.  A bitmap is the set of the numbers  *)
(* of its set bits; len is its length in words.                            *)
(*                                                                         *)
(* A search from an offset masks the word of the offset with a constant of *)
(* half a word (0xffffffff where a word has 64 bits, 0xffff where it has   *)
(* 32), shifted in the width of an int.  A shift by that width or more is  *)
(* undefined in C; the processors that RESCH runs on take the count modulo *)
(* the width.                                                              *)
(***************************************************************************)
EXTENDS Integers

CONSTANTS
  BITS_PER_LONG,
  INT_BITS        \* the width of an int: 32 of 64, or 32 of 32

ASSUME BitopsAssumption ==
  /\ BITS_PER_LONG \in Nat /\ BITS_PER_LONG % 2 = 0
  /\ INT_BITS \in {BITS_PER_LONG \div 2, BITS_PER_LONG} \ {0}

Half == BITS_PER_LONG \div 2
Bits == 0 .. BITS_PER_LONG - 1

BITS_TO_LONGS(n) == (n + BITS_PER_LONG - 1) \div BITS_PER_LONG

\* 0xffffffff << n and 0xffffffff >> n.
ShiftLeft(n) ==
  {k \in 0 .. INT_BITS - 1 :
     n % INT_BITS <= k /\ k < (n % INT_BITS) + Half}
ShiftRight(n) == {k \in Bits : k + (n % INT_BITS) < Half}

\* Mutant: one word too many.
total_beyond(len) == 0 .. (len + 1) * BITS_PER_LONG - 1

\* The bits of all words, and the first and the last one of a set of bits.
Total(len) == 0 .. len * BITS_PER_LONG - 1
FirstBit(S) == IF S = {} THEN -1 ELSE CHOOSE x \in S : \A y \in S : x <= y
LastBit(S)  == IF S = {} THEN -1 ELSE CHOOSE x \in S : \A y \in S : y <= x

resch_ffs(b, len) == FirstBit(b)
resch_ffz(b, len) == FirstBit(Total(len) \ b)
resch_fls(b, len) == LastBit(b)
resch_flz(b, len) == LastBit(Total(len) \ b)

\* How far offset is behind the first bit of the word of x.
Behind(x, offset) == offset - (x - (x % BITS_PER_LONG))

\* A search upwards from offset looks at the word of bit x (a word that ends
\* right before offset is looked at), and its mask leaves the bit.
LooksFrom(x, offset) == Behind(x, offset) <= BITS_PER_LONG
LeavesFrom(x, offset) ==
  Behind(x, offset) > 0 => x % BITS_PER_LONG \in ShiftLeft(Behind(x, offset))

\* The same for a search downwards.
LooksTo(x, offset) == Behind(x, offset) >= 0
LeavesTo(x, offset) ==
  Behind(x, offset) < BITS_PER_LONG =>
    x % BITS_PER_LONG \in ShiftRight(BITS_PER_LONG - 1 - Behind(x, offset))

resch_fns(b, offset, len) ==
  IF BITS_TO_LONGS(offset) > len \/ offset < 0 THEN -1
  ELSE FirstBit({x \in b : LooksFrom(x, offset) /\ LeavesFrom(x, offset)})

resch_fps(b, offset, len) ==
  IF BITS_TO_LONGS(offset) > len \/ offset < 0 THEN -1
  ELSE LastBit({x \in b : LooksTo(x, offset) /\ LeavesTo(x, offset)})

\* In a search for a zero bit the bits that the mask clears count as zeros.
resch_fnz(b, offset, len) ==
  IF BITS_TO_LONGS(offset) > len THEN -1
  ELSE FirstBit({x \in Total(len) :
         LooksFrom(x, offset) /\ (x \in b => ~LeavesFrom(x, offset))})

resch_fpz(b, offset, len) ==
  IF BITS_TO_LONGS(offset) > len \/ offset < 0 THEN -1
  ELSE LastBit({x \in Total(len) :
         LooksTo(x, offset) /\ (x \in b => ~LeavesTo(x, offset))})
=============================================================================
