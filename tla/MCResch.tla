------------------------------ MODULE MCResch ------------------------------
(***************************************************************************)
(* Small instances of Resch: the use of the samples, and each other use;   *)
(* and what the bit searches return, over all bitmaps of two words.        *)
(***************************************************************************)
EXTENDS Resch, TLC

CONSTANTS t1, t2, t3

MCUse(prios, does) == [prios |-> prios, does |-> does]

\* Every task is used as in the samples, with any priority.
MCSampleUse == [t \in Task |-> MCUse(Prio, {})]

\* Task t1 is used unusually, and the others with one priority each, which
\* differ, one of them the lowest: t1 may be equal to either, between and above.
MCOthers == {p \in [Task -> Prio] : p[t2] # p[t3] /\ 1 \in {p[t2], p[t3]}}
MCOneUse(does, p) ==
  [t \in Task |-> IF t = t1 THEN MCUse(Prio, does) ELSE MCUse({p[t]}, {})]
MCUnusual(d) == {MCOneUse({d}, p) : p \in MCOthers}

MCEachUse == {MCSampleUse} \cup UNION {MCUnusual(d) : d \in Uses}

\* A search from an offset in the lower half of a word is right as long as the
\* word has no bit in its upper half; upwards from the first bit of a later word
\* it looks at the word before.  A search for a zero bit from an offset
\* inside a word never returns more than the first bit of the word, and one
\* downwards never less than the last, since the masked bits count as zeros.
ASSUME BitSearches ==
  \A b \in SUBSET Total(2) : \A o \in Total(2) :
    LET word   == o - (o % BITS_PER_LONG)
        upper  == (word + Half) .. (word + BITS_PER_LONG - 1)
    IN  /\ o % BITS_PER_LONG \in 1 .. Half - 1 /\ b \cap upper = {} =>
             resch_fns(b, o, 2) = FirstBit({x \in b : x >= o})
        /\ o % BITS_PER_LONG < Half =>
             resch_fps(b, o, 2) = LastBit({x \in b : x <= o})
        /\ o % Half # 0 => resch_fnz(b, o, 2) <= word
        /\ o % BITS_PER_LONG < Half =>
             resch_fpz(b, o, 2) = word + BITS_PER_LONG - 1
        /\ resch_fls(b, 2) >= resch_fps(b, o, 2)
        /\ resch_fns(b, 0, 2) = resch_ffs(b, 2)
        /\ resch_ffz(Total(2) \ b, 2) = resch_ffs(b, 2)
        /\ resch_flz(b, 2) = resch_fls(Total(2) \ b, 2)

\* All tasks but t1 are used alike.
MCSymmetry == Permutations(Task \ {t1})
=============================================================================
