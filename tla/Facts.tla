-------------------------------- MODULE Facts --------------------------------
(***************************************************************************)
(* Facts on natural numbers, finite sets and lists that the proofs share.  *)
(***************************************************************************)
EXTENDS Lists, FiniteSets, TLAPS, FiniteSetTheorems, WellFoundedInduction,
        SequenceTheorems

\* Quotient and remainder of a division.
LEMMA DivMod ==
  ASSUME NEW v \in Nat, NEW n \in Nat \ {0}
  PROVE  /\ v \div n \in Nat
         /\ v % n \in 0 .. n - 1
         /\ v = n * (v \div n) + (v % n)
OBVIOUS

\* A nonempty set of natural numbers has a least element.
LEMMA NatMin ==
  ASSUME NEW S \in SUBSET Nat, S # {}
  PROVE  \E x \in S : \A y \in S : x <= y
<1> DEFINE T == {0 .. n : n \in S}
<1>1. T # {}
  OBVIOUS
<1>2. T \subseteq FiniteSubsetsOf(Nat)
  <2> SUFFICES ASSUME NEW n \in S
               PROVE  0 .. n \in FiniteSubsetsOf(Nat)
    OBVIOUS
  <2>1. IsFiniteSet(0 .. n)
    BY FS_Interval
  <2> QED
    BY <2>1 DEF FiniteSubsetsOf
<1>3. \E x \in T : \A y \in T : <<y, x>> \notin StrictSubsetOrdering(Nat)
  <2> HIDE DEF T
  <2> QED
    BY <1>1, <1>2, FS_StrictSubsetOrderingWellFounded, WFMin
<1>4. PICK m \in S : \A y \in S :
        <<0 .. y, 0 .. m>> \notin StrictSubsetOrdering(Nat)
  BY <1>3
<1> SUFFICES ASSUME NEW y \in S, y < m
             PROVE  FALSE
  BY <1>4
<1>5. 0 .. y \subseteq 0 .. m /\ 0 .. y # 0 .. m
  OBVIOUS
<1>6. <<0 .. y, 0 .. m>> \in StrictSubsetOrdering(Nat)
  BY <1>5 DEF StrictSubsetOrdering
<1> QED
  BY <1>4, <1>6

\* A function on a finite set takes its largest value somewhere.
LEMMA FiniteMax ==
  ASSUME NEW S, IsFiniteSet(S), S # {}, NEW f \in [S -> Nat]
  PROVE  \E m \in S : \A s \in S : f[s] <= f[m]
<1> DEFINE Above(s) == {t \in S : f[s] < f[t]}
           T == {Above(s) : s \in S}
<1>1. T # {} /\ T \subseteq FiniteSubsetsOf(S)
  <2>1. \A s \in S : Above(s) \in SUBSET S
    OBVIOUS
  <2> HIDE DEF Above
  <2>2. \A s \in S : IsFiniteSet(Above(s))
    BY <2>1, FS_Subset
  <2>3. \A s \in S : Above(s) \in FiniteSubsetsOf(S)
    BY <2>1, <2>2 DEF FiniteSubsetsOf
  <2> QED
    BY <2>3
<1>2. \E x \in T : \A y \in T : <<y, x>> \notin StrictSubsetOrdering(S)
  <2> HIDE DEF T
  <2> QED
    BY <1>1, FS_StrictSubsetOrderingWellFounded, WFMin
<1>3. PICK m \in S : \A y \in S :
        <<Above(y), Above(m)>> \notin StrictSubsetOrdering(S)
  BY <1>2
<1> SUFFICES ASSUME NEW y \in S, f[m] < f[y]
             PROVE  FALSE
  <2>1. \A y \in S : f[y] <= f[m] \/ f[m] < f[y]
    OBVIOUS
  <2> QED
    BY <2>1
<1>4. /\ Above(y) \subseteq Above(m) /\ Above(y) # Above(m)
      /\ Above(m) \subseteq S
  <2>1. y \in Above(m) /\ y \notin Above(y)
    OBVIOUS
  <2>2. \A t \in Above(y) : t \in Above(m)
    OBVIOUS
  <2> QED
    BY <2>1, <2>2
<1>5. <<Above(y), Above(m)>> \in StrictSubsetOrdering(S)
  BY <1>4 DEF StrictSubsetOrdering
<1> QED
  BY <1>3, <1>5

----------------------------------------------------------------------------
(* Products and quotients.                                                 *)

\* A product grows with its factors.
LEMMA Product ==
  ASSUME NEW l \in Nat, NEW n \in Nat, NEW k \in Nat, k <= n
  PROVE  l * k <= l * n /\ l * k \in Nat /\ l * n \in Nat
<1>1. PICK d \in Nat : n = k + d
  <2>1. n - k \in Nat /\ n = k + (n - k)
    OBVIOUS
  <2> QED
    BY <2>1
<1>2. l * n = l * k + l * d /\ l * d >= 0
  BY <1>1
<1>3. l * k \in Nat /\ l * n \in Nat /\ l * d \in Nat
  BY <1>1
<1> QED
  BY <1>2, <1>3

\* Of two products with a positive factor in common.
LEMMA Factor ==
  ASSUME NEW p \in Nat \ {0}, NEW a \in Nat, NEW b \in Nat, p * a < p * b + p
  PROVE  a <= b
<1> SUFFICES ASSUME a >= b + 1
             PROVE  FALSE
  OBVIOUS
<1>1. p * (b + 1) <= p * a /\ p * a \in Nat /\ p * b \in Nat
  BY Product
<1>2. p * (b + 1) = p * b + p
  OBVIOUS
<1> QED
  BY <1>1, <1>2

\* The quotient of a number that is taken apart.
LEMMA DivOf ==
  ASSUME NEW p \in Nat \ {0}, NEW q \in Nat, NEW r \in 0 .. p - 1
  PROVE  (p * q + r) \div p = q
<1>1. PICK v : v = p * q + r
  OBVIOUS
<1>2. v \in Nat /\ p * q \in Nat
  <2>1. p * q \in Nat
    BY Product
  <2> QED
    BY <1>1, <2>1
<1>3. PICK a, s : a = v \div p /\ s = v % p
  OBVIOUS
<1>4. a \in Nat /\ s \in 0 .. p - 1 /\ v = p * a + s /\ p * a \in Nat
  <2>1. a \in Nat /\ s \in 0 .. p - 1 /\ v = p * a + s
    BY <1>2, <1>3, DivMod
  <2> QED
    BY <2>1, Product
<1>5. a <= q
  <2>1. p * a < p * q + p
    BY <1>1, <1>2, <1>4
  <2> QED
    BY <1>4, <2>1, Factor
<1>6. q <= a
  <2>1. p * q < p * a + p
    BY <1>1, <1>2, <1>4
  <2> QED
    BY <1>4, <2>1, Factor
<1> QED
  BY <1>1, <1>3, <1>4, <1>5, <1>6

\* The least c with x <= y * c.
Ceiling(c, x, y) ==
  /\ c \in Nat /\ x <= y * c
  /\ \A k \in Nat : x <= y * k => c <= k

\* Two ways to round a quotient up.
LEMMA RoundedUp ==
  ASSUME NEW x \in Nat, NEW y \in Nat \ {0}
  PROVE  /\ Ceiling((x + y - 1) \div y, x, y)
         /\ Ceiling(IF x % y = 0 THEN x \div y ELSE x \div y + 1, x, y)
<1>1. PICK q, r : q = x \div y /\ r = x % y
  OBVIOUS
<1>2. q \in Nat /\ r \in 0 .. y - 1 /\ x = y * q + r /\ y * q \in Nat
  <2>1. q \in Nat /\ r \in 0 .. y - 1 /\ x = y * q + r
    BY <1>1, DivMod
  <2> QED
    BY <2>1, Product
<1>3. y * (q + 1) = y * q + y
  BY <1>2
<1>4. PICK c : c = IF r = 0 THEN q ELSE q + 1
  OBVIOUS
<1>5. c \in Nat /\ x <= y * c
  <2>1. CASE r = 0
    BY <1>2, <1>4, <2>1
  <2>2. CASE r # 0
    BY <1>2, <1>3, <1>4, <2>2
  <2> QED
    BY <2>1, <2>2
<1>6. ASSUME NEW k \in Nat, x <= y * k
      PROVE  c <= k
  <2>1. y * k \in Nat
    BY Product
  <2>2. CASE r = 0
    <3>1. y * q < y * k + y
      BY <1>2, <1>6, <2>1, <2>2
    <3> QED
      BY <1>2, <1>4, <2>2, <3>1, Factor
  <2>3. CASE r # 0
    <3>1. y * (q + 1) < y * k + y
      BY <1>2, <1>3, <1>6, <2>1, <2>3
    <3>2. q + 1 \in Nat
      BY <1>2
    <3> QED
      BY <1>4, <2>3, <3>1, <3>2, Factor
  <2> QED
    BY <2>2, <2>3
<1>7. Ceiling(c, x, y)
  BY <1>5, <1>6 DEF Ceiling
<1>8. (x + y - 1) \div y = c
  <2>1. CASE r = 0
    <3>1. x + y - 1 = y * q + (y - 1) /\ y - 1 \in 0 .. y - 1
      BY <1>2, <2>1
    <3>2. (y * q + (y - 1)) \div y = q
      BY <1>2, <3>1, DivOf
    <3> QED
      BY <1>4, <2>1, <3>1, <3>2
  <2>2. CASE r # 0
    <3>1. x + y - 1 = y * (q + 1) + (r - 1) /\ r - 1 \in 0 .. y - 1 /\ q + 1 \in Nat
      BY <1>2, <1>3, <2>2
    <3>2. (y * (q + 1) + (r - 1)) \div y = q + 1
      BY <3>1, DivOf
    <3> QED
      BY <1>4, <2>2, <3>1, <3>2
  <2> QED
    BY <2>1, <2>2
<1> QED
  BY <1>1, <1>4, <1>7, <1>8

\* What a task with jobs of C every P asks for in a window of L = P * F + r.
AsksFor(L, F, P, C) == IF L >= P * F + C THEN C * (F + 1) ELSE L - F * (P - C)

Splits(L, P, F, r) == L = P * F + r

\* It is the whole periods, and what fits of the last one.
LEMMA AskedWhole ==
  ASSUME NEW P \in Nat \ {0}, NEW F \in Nat, NEW C \in Nat, NEW r \in 0 .. P - 1,
         NEW L, Splits(L, P, F, r)
  PROVE  AsksFor(L, F, P, C) = F * C + (IF r >= C THEN C ELSE r)
<1>1. PICK pf, fc : pf = P * F /\ fc = F * C
  OBVIOUS
<1>2. pf \in Nat /\ fc \in Nat /\ P * F = pf
  BY <1>1, Product
<1>3. C * (F + 1) = fc + C
  BY <1>1
<1>4. F * (P - C) = pf - fc
  BY <1>1
<1>5. L >= P * F + C <=> r >= C
  BY <1>1, <1>2 DEF Splits
<1>6. L - (pf - fc) = fc + r
  BY <1>1, <1>2 DEF Splits
<1> QED
  BY <1>1, <1>3, <1>4, <1>5, <1>6 DEF AsksFor

\* In a shorter window w the task asks for less, with the overhead o of each job
\* and a period a that is longer; by r less if w ends with its last whole period
\* and the job after it does not fit into L.
LEMMA AsksForLess ==
  ASSUME NEW P \in Nat \ {0}, NEW F \in Nat, NEW C \in Nat, NEW r \in 0 .. P - 1,
         NEW L \in Nat, Splits(L, P, F, r),
         NEW a \in Nat, a >= P,
         NEW w \in 0 .. L, r < C => w <= P * F,
         NEW c, Ceiling(c, w, a),
         NEW J, Ceiling(J, L, P),
         NEW o \in Nat
  PROVE  /\ c * (C + o) \in Nat /\ AsksFor(L, F, P, C) \in Nat /\ J * o \in Nat
         /\ c * (C + o) <= AsksFor(L, F, P, C) + o * J
         /\ r < C => c * (C + o) + r <= AsksFor(L, F, P, C) + o * J
<1>1. /\ c \in Nat /\ J \in Nat /\ w \in Nat /\ L <= P * J
      /\ \A k \in Nat : w <= a * k => c <= k
  BY DEF Ceiling
<1>2. c <= J
  <2>1. P * J <= a * J /\ P * J \in Nat /\ a * J \in Nat
    <3>1. J * P <= J * a /\ J * P \in Nat /\ J * a \in Nat
      BY <1>1, Product
    <3> QED
      BY <1>1, <3>1
  <2>2. w <= a * J
    BY <1>1, <2>1
  <2> QED
    BY <1>1, <2>2
<1>3. ASSUME NEW k \in Nat, w <= P * k
      PROVE  c <= k
  <2>1. P * k <= a * k /\ P * k \in Nat /\ a * k \in Nat
    <3>1. k * P <= k * a /\ k * P \in Nat /\ k * a \in Nat
      BY Product
    <3> QED
      BY <3>1
  <2>2. w <= a * k
    BY <1>1, <1>3, <2>1
  <2> QED
    BY <1>1, <2>2
<1>4. PICK g : g = AsksFor(L, F, P, C)
  OBVIOUS
<1>5. g = F * C + (IF r >= C THEN C ELSE r)
  BY <1>4, AskedWhole
<1>6. PICK fc, cc, co, jo : fc = F * C /\ cc = c * C /\ co = c * o /\ jo = J * o
  OBVIOUS
<1>7. fc \in Nat /\ cc \in Nat /\ co \in Nat /\ jo \in Nat /\ co <= jo
  <2>1. o * c <= o * J /\ o * c \in Nat /\ o * J \in Nat
    BY <1>1, <1>2, Product
  <2>2. F * C \in Nat /\ c * C \in Nat
    BY <1>1, Product
  <2> QED
    BY <1>1, <1>6, <2>1, <2>2
<1>8. c * (C + o) = cc + co /\ o * J = jo
  BY <1>1, <1>6
<1>9. CASE r < C
  <2>1. c <= F
    BY <1>3, <1>9
  <2>2. cc <= fc
    <3>1. C * c <= C * F
      BY <1>1, <2>1, Product
    <3> QED
      BY <1>1, <1>6, <3>1
  <2>3. g = fc + r
    BY <1>5, <1>6, <1>9
  <2> QED
    BY <1>4, <1>6, <1>7, <1>8, <2>2, <2>3
<1>10. CASE r >= C
  <2>1. c <= F + 1
    <3>1. P * (F + 1) = P * F + P
      OBVIOUS
    <3>2. w <= P * (F + 1)
      BY <1>1, <3>1 DEF Splits
    <3> QED
      BY <1>3, <3>2
  <2>2. cc <= fc + C
    <3>1. C * c <= C * (F + 1)
      BY <1>1, <2>1, Product
    <3>2. C * (F + 1) = C * F + C
      OBVIOUS
    <3> QED
      BY <1>1, <1>6, <3>1, <3>2
  <2>3. g = fc + C
    BY <1>5, <1>6, <1>10
  <2> QED
    BY <1>4, <1>6, <1>7, <1>8, <1>10, <2>2, <2>3
<1> QED
  BY <1>9, <1>10

----------------------------------------------------------------------------
(* Induction, and the sums of Lists.                                       *)

\* What holds of 0, and of a number if it holds of the one before, holds up to n.
LEMMA UpTo ==
  ASSUME NEW n \in Nat, NEW S, 0 \in S,
         \A k \in 1 .. n : k - 1 \in S => k \in S
  PROVE  0 .. n \subseteq S
<1> DEFINE bad == (0 .. n) \ S
<1> SUFFICES ASSUME bad # {}
             PROVE  FALSE
  OBVIOUS
<1>1. bad \in SUBSET Nat
  OBVIOUS
<1> HIDE DEF bad
<1>2. PICK k \in bad : \A j \in bad : k <= j
  BY <1>1, NatMin
<1> USE DEF bad
<1>3. k \in 1 .. n /\ k - 1 \in 0 .. n /\ ~(k <= k - 1)
  BY <1>2
<1>4. k - 1 \in S
  BY <1>2, <1>3
<1> QED
  BY <1>2, <1>3, <1>4

\* Each value of f comes from the last one by the step of its number.
StepsOn(step, n, X) == step \in [1 .. n -> [X -> X]]
IteratesTo(f, step, n, X, x) ==
  /\ f \in [0 .. n -> X]
  /\ f[0] = x
  /\ \A k \in 1 .. n : f[k] = step[k][f[k - 1]]

\* A recursive function is there: its values exist one after the other.
LEMMA Iterated ==
  ASSUME NEW n \in Nat, NEW X, NEW x \in X, NEW step, StepsOn(step, n, X)
  PROVE  \E f : IteratesTo(f, step, n, X, x)
<1>0. step \in [1 .. n -> [X -> X]]
  BY DEF StepsOn
<1> DEFINE Made(m) == \E f \in [0 .. m -> X] :
             f[0] = x /\ \A k \in 1 .. m : f[k] = step[k][f[k - 1]]
           S == {m \in 0 .. n : Made(m)}
<1>1. 0 \in S
  <2> DEFINE f == [k \in 0 .. 0 |-> x]
  <2>1. f \in [0 .. 0 -> X] /\ f[0] = x /\ \A k \in 1 .. 0 : f[k] = step[k][f[k - 1]]
    OBVIOUS
  <2> HIDE DEF f
  <2> QED
    BY <2>1
<1>2. ASSUME NEW m \in 1 .. n, m - 1 \in S
      PROVE  m \in S
  <2>1. PICK g \in [0 .. m - 1 -> X] :
          g[0] = x /\ \A k \in 1 .. m - 1 : g[k] = step[k][g[k - 1]]
    BY <1>2
  <2> DEFINE f == [k \in 0 .. m |-> IF k = m THEN step[m][g[m - 1]] ELSE g[k]]
  <2>2. m - 1 \in 0 .. m - 1 /\ g[m - 1] \in X /\ m \in Nat /\ m >= 1
    BY <2>1
  <2>3. step[m][g[m - 1]] \in X
    BY <1>0, <2>2
  <2>4. f \in [0 .. m -> X]
    BY <2>1, <2>3
  <2>5. f[m] = step[m][g[m - 1]] /\ \A k \in 0 .. m - 1 : f[k] = g[k]
    BY <2>2
  <2> HIDE DEF f
  <2>6. f[0] = x
    BY <2>1, <2>2, <2>5
  <2>7. ASSUME NEW k \in 1 .. m
        PROVE  f[k] = step[k][f[k - 1]]
    <3>1. CASE k = m
      <4>1. m - 1 \in 0 .. m - 1
        BY <2>2
      <4>2. f[m - 1] = g[m - 1]
        BY <2>5, <4>1
      <4> QED
        BY <2>5, <3>1, <4>2
    <3>2. CASE k # m
      <4>1. k \in 1 .. m - 1 /\ k \in 0 .. m - 1 /\ k - 1 \in 0 .. m - 1
        BY <2>2, <3>2
      <4> QED
        BY <2>1, <2>5, <4>1
    <3> QED
      BY <3>1, <3>2
  <2>8. Made(m)
    BY <2>4, <2>6, <2>7
  <2>9. m \in 0 .. n
    OBVIOUS
  <2> HIDE DEF Made
  <2> QED
    BY <2>8, <2>9
<1> HIDE DEF S
<1>3. 0 .. n \subseteq S
  BY <1>1, <1>2, UpTo
<1>4. n \in S
  BY <1>3
<1>5. PICK f \in [0 .. n -> X] :
        f[0] = x /\ \A k \in 1 .. n : f[k] = step[k][f[k - 1]]
  BY <1>4 DEF S
<1> QED
  BY <1>5 DEF IteratesTo

\* What a sum is made of.
LEMMA SumSteps ==
  ASSUME NEW n \in Nat, NEW f \in [1 .. n -> Int]
  PROVE  \E s \in [0 .. n -> Int] :
           /\ s[0] = 0
           /\ \A k \in 1 .. n : s[k] = s[k - 1] + f[k]
           /\ SumTo(f, n) = s[n]
<1> DEFINE step == [k \in 1 .. n |-> [v \in Int |-> v + f[k]]]
           Eq(s) == s = [k \in 0 .. n |-> IF k = 0 THEN 0 ELSE s[k - 1] + f[k]]
<1>1. step \in [1 .. n -> [Int -> Int]]
  OBVIOUS
<1>2. PICK g \in [0 .. n -> Int] :
        g[0] = 0 /\ \A k \in 1 .. n : g[k] = step[k][g[k - 1]]
  <2>1. PICK st : st = step
    OBVIOUS
  <2>2. PICK ints : ints = Int
    OBVIOUS
  <2>3. StepsOn(st, n, ints) /\ 0 \in ints
    BY <1>1, <2>1, <2>2 DEF StepsOn
  <2> HIDE DEF step
  <2>4. PICK g : IteratesTo(g, st, n, ints, 0)
    BY <2>3, Iterated
  <2> QED
    BY <2>1, <2>2, <2>4 DEF IteratesTo
<1>3. \A k \in 1 .. n : k - 1 \in 0 .. n /\ g[k] = g[k - 1] + f[k]
  <2> SUFFICES ASSUME NEW k \in 1 .. n
               PROVE  k - 1 \in 0 .. n /\ g[k] = g[k - 1] + f[k]
    OBVIOUS
  <2>1. k - 1 \in 0 .. n /\ g[k - 1] \in Int
    OBVIOUS
  <2>3. step[k][g[k - 1]] = g[k - 1] + f[k]
    BY <2>1
  <2> QED
    BY <1>2, <2>1, <2>3
<1>4. Eq(g)
  BY <1>2, <1>3
<1>5. PICK s : s = CHOOSE h : Eq(h)
  OBVIOUS
<1>6. Eq(s)
  BY <1>4, <1>5
<1>7. SumTo(f, n) = s[n]
  BY <1>5 DEF SumTo
<1>8. s[0] = 0 /\ \A k \in 1 .. n : s[k] = s[k - 1] + f[k]
  BY <1>6
<1>9. ASSUME NEW k \in 0 .. n
      PROVE  s[k] = g[k]
  <2> DEFINE S == {i \in 0 .. n : s[i] = g[i]}
  <2>1. 0 \in S /\ \A i \in 1 .. n : i - 1 \in S => i \in S
    BY <1>2, <1>3, <1>8
  <2> HIDE DEF S
  <2>2. 0 .. n \subseteq S
    BY <2>1, UpTo
  <2> QED
    BY <2>2 DEF S
<1>10. s = g
  BY <1>2, <1>6, <1>9
<1> QED
  BY <1>7, <1>8, <1>10

LEMMA SumType ==
  ASSUME NEW n \in Nat, NEW f \in [1 .. n -> Int]
  PROVE  SumTo(f, n) \in Int
<1>1. PICK s \in [0 .. n -> Int] : SumTo(f, n) = s[n]
  BY SumSteps
<1> QED
  BY <1>1

\* Sums compare as what they are made of, by the difference at one place too.
LEMMA SumLess ==
  ASSUME NEW n \in Nat, NEW f \in [1 .. n -> Int], NEW g \in [1 .. n -> Int],
         \A i \in 1 .. n : f[i] <= g[i],
         NEW d \in Nat, d = 0 \/ \E k \in 1 .. n : f[k] + d <= g[k]
  PROVE  SumTo(f, n) + d <= SumTo(g, n)
<1>1. PICK s \in [0 .. n -> Int] :
        /\ s[0] = 0
        /\ \A k \in 1 .. n : s[k] = s[k - 1] + f[k]
        /\ SumTo(f, n) = s[n]
  BY SumSteps
<1>2. PICK t \in [0 .. n -> Int] :
        /\ t[0] = 0
        /\ \A k \in 1 .. n : t[k] = t[k - 1] + g[k]
        /\ SumTo(g, n) = t[n]
  BY SumSteps
<1> DEFINE Less(m) == /\ s[m] <= t[m]
                      /\ \A k \in 1 .. m : f[k] + d <= g[k] => s[m] + d <= t[m]
           S == {m \in 0 .. n : Less(m)}
<1>3. 0 \in S
  BY <1>1, <1>2
<1>4. ASSUME NEW m \in 1 .. n, m - 1 \in S
      PROVE  m \in S
  <2>1. /\ m - 1 \in 0 .. n /\ m \in 0 .. n
        /\ s[m] = s[m - 1] + f[m] /\ t[m] = t[m - 1] + g[m]
        /\ s[m] \in Int /\ s[m - 1] \in Int /\ t[m] \in Int /\ t[m - 1] \in Int
        /\ f[m] \in Int /\ g[m] \in Int /\ f[m] <= g[m]
    BY <1>1, <1>2
  <2>2. Less(m - 1)
    BY <1>4
  <2>3. s[m] <= t[m]
    BY <2>1, <2>2
  <2>4. ASSUME NEW k \in 1 .. m, f[k] + d <= g[k]
        PROVE  s[m] + d <= t[m]
    <3>1. PICK a, b, x, y : a = s[m - 1] /\ b = t[m - 1] /\ x = f[m] /\ y = g[m]
      OBVIOUS
    <3>2. /\ a \in Int /\ b \in Int /\ x \in Int /\ y \in Int
          /\ s[m] = a + x /\ t[m] = b + y /\ x <= y /\ a <= b
      BY <2>1, <2>2, <3>1
    <3>3. a + d <= b \/ x + d <= y
      <4>1. CASE k = m
        BY <2>4, <3>1, <4>1
      <4>2. CASE k # m
        <5>1. k \in 1 .. m - 1
          BY <4>2
        <5> QED
          BY <2>2, <2>4, <3>1, <5>1
      <4> QED
        BY <4>1, <4>2
    <3>4. (a + x) + d <= b + y
      BY <3>2, <3>3
    <3> QED
      BY <3>2, <3>4
  <2>5. Less(m)
    BY <2>3, <2>4
  <2> HIDE DEF Less
  <2> QED
    BY <2>1, <2>5
<1>5. n \in S
  <2> HIDE DEF S
  <2>1. 0 .. n \subseteq S
    BY <1>3, <1>4, UpTo
  <2> QED
    BY <2>1
<1>6. Less(n)
  BY <1>5
<1>7. s[n] \in Int /\ t[n] \in Int
  OBVIOUS
<1> QED
  BY <1>1, <1>2, <1>6, <1>7

LEMMA Distribute ==
  ASSUME NEW c \in Int, NEW x \in Int, NEW y \in Int
  PROVE  c * (x + y) = c * x + c * y /\ c * x \in Int /\ c * y \in Int
OBVIOUS

\* h is f and c times g.
Combines(h, f, c, g, n) == \A i \in 1 .. n : h[i] = f[i] + c * g[i]

\* A sum of sums.
LEMMA SumPlus ==
  ASSUME NEW n \in Nat, NEW f \in [1 .. n -> Int], NEW g \in [1 .. n -> Int],
         NEW c \in Int, NEW h \in [1 .. n -> Int],
         Combines(h, f, c, g, n)
  PROVE  SumTo(h, n) = SumTo(f, n) + c * SumTo(g, n)
<1>1. PICK s \in [0 .. n -> Int] :
        /\ s[0] = 0
        /\ \A k \in 1 .. n : s[k] = s[k - 1] + f[k]
        /\ SumTo(f, n) = s[n]
  BY SumSteps
<1>2. PICK t \in [0 .. n -> Int] :
        /\ t[0] = 0
        /\ \A k \in 1 .. n : t[k] = t[k - 1] + g[k]
        /\ SumTo(g, n) = t[n]
  BY SumSteps
<1>3. PICK u \in [0 .. n -> Int] :
        /\ u[0] = 0
        /\ \A k \in 1 .. n : u[k] = u[k - 1] + h[k]
        /\ SumTo(h, n) = u[n]
  BY SumSteps
<1> DEFINE S == {m \in 0 .. n : u[m] = s[m] + c * t[m]}
<1>4. 0 \in S
  BY <1>1, <1>2, <1>3
<1>5. ASSUME NEW m \in 1 .. n, m - 1 \in S
      PROVE  m \in S
  <2>1. m - 1 \in 0 .. n /\ m \in 0 .. n
    OBVIOUS
  <2>2. /\ s[m] = s[m - 1] + f[m] /\ t[m] = t[m - 1] + g[m]
        /\ u[m] = u[m - 1] + h[m]
        /\ s[m - 1] \in Int /\ t[m - 1] \in Int /\ u[m - 1] \in Int
        /\ f[m] \in Int /\ g[m] \in Int
    BY <1>1, <1>2, <1>3, <2>1
  <2>3. h[m] = f[m] + c * g[m] /\ u[m - 1] = s[m - 1] + c * t[m - 1]
    BY <1>5 DEF Combines
  <2>4. /\ c * (t[m - 1] + g[m]) = c * t[m - 1] + c * g[m]
        /\ c * t[m - 1] \in Int /\ c * g[m] \in Int
    BY <2>2, Distribute
  <2>5. PICK p, q : p = c * t[m - 1] /\ q = c * g[m]
    OBVIOUS
  <2>6. /\ p \in Int /\ q \in Int
        /\ h[m] = f[m] + q /\ u[m - 1] = s[m - 1] + p
    BY <2>2, <2>3, <2>4, <2>5
  <2>7. u[m] = (s[m - 1] + p) + (f[m] + q)
    <3>1. u[m] = u[m - 1] + h[m]
      BY <2>2
    <3>2. u[m - 1] = s[m - 1] + p /\ h[m] = f[m] + q
      BY <2>6
    <3> QED
      BY <3>1, <3>2
  <2>8. (s[m - 1] + p) + (f[m] + q) = (s[m - 1] + f[m]) + (p + q)
    <3>1. PICK a, b : a = s[m - 1] /\ b = f[m]
      OBVIOUS
    <3>2. a \in Int /\ b \in Int /\ p \in Int /\ q \in Int
      BY <2>2, <2>6, <3>1
    <3>3. (a + p) + (b + q) = (a + b) + (p + q)
      BY <3>2
    <3> QED
      BY <3>1, <3>3
  <2>9. u[m] = s[m] + (p + q)
    BY <2>2, <2>7, <2>8
  <2>10. c * t[m] = p + q
    BY <2>2, <2>4, <2>5
  <2> QED
    BY <2>1, <2>9, <2>10
<1>6. n \in S
  <2> HIDE DEF S
  <2>1. 0 .. n \subseteq S
    BY <1>4, <1>5, UpTo
  <2> QED
    BY <2>1
<1> QED
  BY <1>1, <1>2, <1>3, <1>6

\* The first m entries of f are those of g, and the others are 0.
EndsAt(f, n, g, m) ==
  /\ \A i \in 1 .. m : f[i] = g[i]
  /\ \A i \in m + 1 .. n : f[i] = 0

\* Nothing is added after the first m.
LEMMA SumPart ==
  ASSUME NEW n \in Nat, NEW f \in [1 .. n -> Int],
         NEW m \in 0 .. n, NEW g \in [1 .. m -> Int],
         EndsAt(f, n, g, m)
  PROVE  SumTo(f, n) = SumTo(g, m)
<1>0. /\ \A i \in 1 .. m : f[i] = g[i]
      /\ \A i \in m + 1 .. n : f[i] = 0
  BY DEF EndsAt
<1>1. PICK s \in [0 .. n -> Int] :
        /\ s[0] = 0
        /\ \A k \in 1 .. n : s[k] = s[k - 1] + f[k]
        /\ SumTo(f, n) = s[n]
  BY SumSteps
<1>2. m \in Nat
  OBVIOUS
<1>3. PICK t \in [0 .. m -> Int] :
        /\ t[0] = 0
        /\ \A k \in 1 .. m : t[k] = t[k - 1] + g[k]
        /\ SumTo(g, m) = t[m]
  BY <1>2, SumSteps
<1> DEFINE S == {k \in 0 .. n : s[k] = IF k <= m THEN t[k] ELSE t[m]}
<1>4. 0 \in S
  BY <1>1, <1>3
<1>5. ASSUME NEW k \in 1 .. n, k - 1 \in S
      PROVE  k \in S
  <2>1. CASE k <= m
    <3>1. k \in 1 .. m /\ k - 1 <= m
      BY <2>1
    <3> QED
      BY <1>0, <1>1, <1>3, <1>5, <3>1
  <2>2. CASE ~(k <= m)
    <3>1. k \in m + 1 .. n /\ (k - 1 <= m => k - 1 = m) /\ k - 1 \in 0 .. n
      BY <2>2
    <3>2. f[k] = 0 /\ s[k] = s[k - 1] + f[k] /\ s[k - 1] \in Int
      BY <1>0, <1>1, <3>1
    <3>3. s[k - 1] = t[m]
      BY <1>5, <3>1
    <3> QED
      BY <2>2, <3>2, <3>3
  <2> QED
    BY <2>1, <2>2
<1>6. n \in S
  <2> HIDE DEF S
  <2>1. 0 .. n \subseteq S
    BY <1>4, <1>5, UpTo
  <2> QED
    BY <2>1
<1> QED
  BY <1>1, <1>3, <1>6

\* A sum of n numbers of 0 .. b.
LEMMA SumBound ==
  ASSUME NEW n \in Nat, NEW b \in Nat, NEW f \in [1 .. n -> 0 .. b]
  PROVE  SumTo(f, n) \in 0 .. n * b
<1>0. f \in [1 .. n -> Int]
  OBVIOUS
<1>1. PICK s \in [0 .. n -> Int] :
        /\ s[0] = 0
        /\ \A k \in 1 .. n : s[k] = s[k - 1] + f[k]
        /\ SumTo(f, n) = s[n]
  BY <1>0, SumSteps
<1> DEFINE S == {m \in 0 .. n : s[m] \in 0 .. m * b}
<1>2. 0 \in S
  BY <1>1
<1>3. ASSUME NEW m \in 1 .. n, m - 1 \in S
      PROVE  m \in S
  <2>1. /\ m - 1 \in Nat /\ m \in 0 .. n /\ s[m] = s[m - 1] + f[m]
        /\ s[m - 1] \in Int /\ f[m] \in 0 .. b /\ s[m - 1] \in 0 .. (m - 1) * b
    BY <1>1, <1>3
  <2>2. (m - 1) * b + b = m * b /\ (m - 1) * b \in Nat
    BY <2>1
  <2>3. s[m] \in 0 .. m * b
    <3>1. PICK a, v, p, q : a = s[m - 1] /\ v = f[m] /\ p = (m - 1) * b /\ q = m * b
      OBVIOUS
    <3>2. a \in Int /\ v \in 0 .. b /\ a \in 0 .. p /\ p \in Nat /\ p + b = q
      BY <2>1, <2>2, <3>1
    <3>3. a + v \in 0 .. q
      BY <3>2
    <3> QED
      BY <2>1, <3>1, <3>3
  <2> QED
    BY <2>1, <2>3
<1>4. n \in S
  <2> HIDE DEF S
  <2>1. 0 .. n \subseteq S
    BY <1>2, <1>3, UpTo
  <2> QED
    BY <2>1
<1> QED
  BY <1>1, <1>4

----------------------------------------------------------------------------
(* Lists.                                                                  *)

\* The least of a nonempty set of places.
LEMMA FirstOfProperty ==
  ASSUME NEW S \in SUBSET Nat, S # {}
  PROVE  FirstOf(S) \in S /\ \A x \in S : FirstOf(S) <= x
BY NatMin DEF FirstOf

\* What is appended comes last.
LEMMA Appended ==
  ASSUME NEW S, NEW list \in Seq(S), NEW t \in S
  PROVE  /\ Append(list, t) \in Seq(S)
         /\ Len(Append(list, t)) = Len(list) + 1
         /\ \A i \in 1 .. Len(list) : Append(list, t)[i] = list[i]
         /\ Append(list, t)[Len(list) + 1] = t
         /\ Elements(Append(list, t)) = Elements(list) \cup {t}
         /\ Distinct(list) /\ t \notin Elements(list) => Distinct(Append(list, t))
<1>1. /\ Append(list, t) \in Seq(S)
      /\ Len(Append(list, t)) = Len(list) + 1
      /\ \A i \in 1 .. Len(list) : Append(list, t)[i] = list[i]
      /\ Append(list, t)[Len(list) + 1] = t
  BY AppendProperties
<1> DEFINE new == Append(list, t)
<1> HIDE DEF new
<1>2. Elements(new) = Elements(list) \cup {t}
  BY <1>1 DEF Elements, new
<1>3. Distinct(list) /\ t \notin Elements(list) => Distinct(new)
  BY <1>1 DEF Elements, Distinct, new
<1> QED
  BY <1>1, <1>2, <1>3 DEF new

\* The list without its entry number n.
LEMMA Joined ==
  ASSUME NEW S, NEW list \in Seq(S), NEW n \in 1 .. Len(list),
         NEW new, new = SubSeq(list, 1, n - 1) \o SubSeq(list, n + 1, Len(list))
  PROVE  /\ new \in Seq(S)
         /\ Len(new) = Len(list) - 1
         /\ \A i \in 1 .. Len(list) - 1 :
              new[i] = IF i < n THEN list[i] ELSE list[i + 1]
<1> DEFINE head == SubSeq(list, 1, n - 1)
           tail == SubSeq(list, n + 1, Len(list))
           both == head \o tail
<1>0. /\ Len(list) \in Nat /\ n \in Nat /\ n >= 1 /\ n <= Len(list)
      /\ \A i \in 1 .. Len(list) : list[i] \in S
  BY LenProperties, ElementOfSeq
<1>1. head \in Seq(S) /\ Len(head) = n - 1 /\ \A i \in 1 .. n - 1 : head[i] = list[i]
  BY <1>0, SubSeqProperties
<1>2. /\ tail \in Seq(S) /\ Len(tail) = Len(list) - n
      /\ \A i \in 1 .. Len(list) - n : tail[i] = list[n + i]
  BY <1>0, SubSeqProperties, SMTT(40)
<1>3. new = both
  OBVIOUS
<1> HIDE DEF head, tail
<1>4. /\ both \in Seq(S)
      /\ Len(both) = Len(head) + Len(tail)
      /\ \A i \in 1 .. Len(head) + Len(tail) :
           both[i] = IF i <= Len(head) THEN head[i] ELSE tail[i - Len(head)]
  BY <1>1, <1>2, ConcatProperties
<1> HIDE DEF both
<1>5. Len(both) = Len(list) - 1
  BY <1>0, <1>1, <1>2, <1>4
<1>6. ASSUME NEW i \in 1 .. Len(list) - 1
      PROVE  both[i] = IF i < n THEN list[i] ELSE list[i + 1]
  <2>1. CASE i < n
    <3>1. /\ i \in 1 .. Len(head) + Len(tail) /\ i <= Len(head)
          /\ i \in 1 .. n - 1
      BY <2>1, <1>0, <1>1, <1>2
    <3> QED
      BY <2>1, <3>1, <1>1, <1>4
  <2>2. CASE ~(i < n)
    <3> DEFINE k == i - Len(head)
    <3>1. /\ i \in 1 .. Len(head) + Len(tail) /\ ~(i <= Len(head))
          /\ k \in 1 .. Len(list) - n /\ n + k = i + 1
      BY <2>2, <1>0, <1>1, <1>2, SMTT(40)
    <3>2. both[i] = tail[k]
      BY <3>1, <1>4
    <3> HIDE DEF k
    <3> QED
      BY <2>2, <3>1, <3>2, <1>2
  <2> QED
    BY <2>1, <2>2
<1> QED
  BY <1>3, <1>4, <1>5, <1>6

\* An entry is taken out of any list.
LEMMA WithoutType ==
  ASSUME NEW S, NEW list \in Seq(S), NEW t
  PROVE  Without(list, t) \in Seq(S)
<1>1. CASE t \notin Elements(list)
  BY <1>1 DEF Without
<1>2. CASE t \in Elements(list)
  <2> DEFINE places == {i \in 1 .. Len(list) : list[i] = t}
             n == FirstOf(places)
             new == Without(list, t)
  <2>1. n \in 1 .. Len(list)
    <3>1. places \in SUBSET Nat /\ places # {}
      BY <1>2, LenProperties DEF Elements
    <3> HIDE DEF places
    <3>2. n \in places
      BY <3>1, FirstOfProperty
    <3> QED
      BY <3>2 DEF places
  <2>2. new = SubSeq(list, 1, n - 1) \o SubSeq(list, n + 1, Len(list))
    BY <1>2 DEF Without
  <2> HIDE DEF n, new
  <2>3. new \in Seq(S)
    BY <2>1, <2>2, Joined
  <2> QED
    BY <2>3 DEF new
<1> QED
  BY <1>1, <1>2

\* An entry that is taken out of a list leaves the others in their order.
LEMMA WithoutProperties ==
  ASSUME NEW S, NEW list \in Seq(S), Distinct(list), NEW t
  PROVE  /\ Without(list, t) \in Seq(S)
         /\ Elements(Without(list, t)) = Elements(list) \ {t}
         /\ Distinct(Without(list, t))
         /\ Len(Without(list, t)) = IF t \in Elements(list) THEN Len(list) - 1
                                                           ELSE Len(list)
         /\ \A i, j \in 1 .. Len(Without(list, t)) :
              i < j => \E k, l \in 1 .. Len(list) :
                         /\ k < l
                         /\ Without(list, t)[i] = list[k]
                         /\ Without(list, t)[j] = list[l]
         /\ \A k, l \in 1 .. Len(list) :
              k < l /\ list[k] # t /\ list[l] # t =>
                \E i, j \in 1 .. Len(Without(list, t)) :
                   /\ i < j
                   /\ Without(list, t)[i] = list[k]
                   /\ Without(list, t)[j] = list[l]
<1>0. Len(list) \in Nat /\ \A i \in 1 .. Len(list) : list[i] \in S
  BY LenProperties, ElementOfSeq
<1>1. CASE t \notin Elements(list)
  <2>1. Without(list, t) = list
    BY <1>1 DEF Without
  <2> QED
    BY <1>0, <1>1, <2>1 DEF Elements
<1>2. CASE t \in Elements(list)
  <2> DEFINE places == {i \in 1 .. Len(list) : list[i] = t}
             n == FirstOf(places)
             new == Without(list, t)
  <2>1. n \in 1 .. Len(list) /\ list[n] = t
    <3>1. places \in SUBSET Nat /\ places # {}
      BY <1>0, <1>2 DEF Elements
    <3> HIDE DEF places
    <3>2. n \in places
      BY <3>1, FirstOfProperty
    <3> QED
      BY <3>2 DEF places
  <2>2. new = SubSeq(list, 1, n - 1) \o SubSeq(list, n + 1, Len(list))
    BY <1>2 DEF Without
  <2> HIDE DEF n, new
  <2>3. /\ new \in Seq(S)
        /\ Len(new) = Len(list) - 1
        /\ \A i \in 1 .. Len(list) - 1 :
             new[i] = IF i < n THEN list[i] ELSE list[i + 1]
    BY <2>1, <2>2, Joined, ZenonT(40)
  <2>4. ASSUME NEW k \in 1 .. Len(list), k # n
        PROVE  \E i \in 1 .. Len(new) :
                 /\ new[i] = list[k]
                 /\ (k < n /\ i = k) \/ (k > n /\ i = k - 1)
    <3>1. CASE k < n
      <4>1. k \in 1 .. Len(new) /\ new[k] = list[k]
        BY <1>0, <2>1, <2>3, <3>1
      <4> QED
        BY <4>1, <3>1
    <3>2. CASE k > n
      <4>1. k - 1 \in 1 .. Len(new) /\ ~(k - 1 < n) /\ (k - 1) + 1 = k
        BY <1>0, <2>1, <2>3, <3>2
      <4>2. new[k - 1] = list[k]
        BY <4>1, <2>3
      <4> QED
        BY <4>1, <4>2, <3>2
    <3> QED
      BY <2>1, <2>4, <3>1, <3>2
  <2>5. \A k \in 1 .. Len(list) : list[k] = t <=> k = n
    BY <2>1 DEF Distinct
  <2>6. Elements(new) = Elements(list) \ {t}
    <3>1. ASSUME NEW i \in 1 .. Len(new)
          PROVE  new[i] \in Elements(list) \ {t}
      BY <1>0, <2>1, <2>3, <2>5 DEF Elements
    <3>2. ASSUME NEW k \in 1 .. Len(list), list[k] # t
          PROVE  list[k] \in Elements(new)
      <4>1. \E i \in 1 .. Len(new) : new[i] = list[k]
        BY <2>4, <2>5, <3>2
      <4> QED
        BY <4>1 DEF Elements
    <3> QED
      BY <3>1, <3>2 DEF Elements
  <2>7. Distinct(new)
    BY <1>0, <2>1, <2>3, SMTT(40) DEF Distinct
  <2>8. ASSUME NEW i \in 1 .. Len(new), NEW j \in 1 .. Len(new), i < j
        PROVE  \E k, l \in 1 .. Len(list) :
                 k < l /\ new[i] = list[k] /\ new[j] = list[l]
    <3> DEFINE k == IF i < n THEN i ELSE i + 1
               l == IF j < n THEN j ELSE j + 1
    <3>1. k \in 1 .. Len(list) /\ l \in 1 .. Len(list) /\ k < l
      BY <1>0, <2>1, <2>3, <2>8
    <3>2. new[i] = list[k] /\ new[j] = list[l]
      BY <2>3
    <3> QED
      BY <3>1, <3>2
  <2>9. ASSUME NEW k \in 1 .. Len(list), NEW l \in 1 .. Len(list),
               k < l, list[k] # t, list[l] # t
        PROVE  \E i, j \in 1 .. Len(new) :
                 i < j /\ new[i] = list[k] /\ new[j] = list[l]
    <3>1. PICK i \in 1 .. Len(new) :
            new[i] = list[k] /\ ((k < n /\ i = k) \/ (k > n /\ i = k - 1))
      BY <2>4, <2>5, <2>9
    <3>2. PICK j \in 1 .. Len(new) :
            new[j] = list[l] /\ ((l < n /\ j = l) \/ (l > n /\ j = l - 1))
      BY <2>4, <2>5, <2>9
    <3>3. i < j
      BY <2>1, <2>9, <3>1, <3>2
    <3> QED
      BY <3>1, <3>2, <3>3
  <2> QED
    BY <1>2, <2>3, <2>6, <2>7, <2>8, <2>9 DEF new
<1> QED
  BY <1>1, <1>2

\* What InsertAfter(list, n, t) is.
PutAfter(new, list, n, t) ==
  /\ Len(new) = Len(list) + 1
  /\ \A i \in 1 .. n : new[i] = list[i]
  /\ new[n + 1] = t
  /\ \A i \in n + 1 .. Len(list) : new[i + 1] = list[i]

\* The list with t as its entry number n + 1.
LEMMA Parted ==
  ASSUME NEW S, NEW list \in Seq(S), NEW t \in S, NEW n \in 0 .. Len(list)
  PROVE  /\ InsertAfter(list, n, t) \in Seq(S)
         /\ PutAfter(InsertAfter(list, n, t), list, n, t)
<1> DEFINE head == SubSeq(list, 1, n)
           tail == SubSeq(list, n + 1, Len(list))
           front == Append(head, t)
           new == front \o tail
<1>0. /\ Len(list) \in Nat /\ n \in Nat /\ n <= Len(list)
      /\ \A i \in 1 .. Len(list) : list[i] \in S
  BY LenProperties, ElementOfSeq
<1>1. head \in Seq(S) /\ Len(head) = n /\ \A i \in 1 .. n : head[i] = list[i]
  BY <1>0, SubSeqProperties
<1>2. /\ tail \in Seq(S) /\ Len(tail) = Len(list) - n
      /\ \A i \in 1 .. Len(list) - n : tail[i] = list[n + i]
  BY <1>0, SubSeqProperties
<1>3. new = InsertAfter(list, n, t)
  BY DEF InsertAfter
<1> HIDE DEF head, tail
<1>4. /\ front \in Seq(S) /\ Len(front) = n + 1 /\ front[n + 1] = t
      /\ \A i \in 1 .. n : front[i] = list[i]
  BY <1>0, <1>1, AppendProperties
<1> HIDE DEF front
<1>5. /\ new \in Seq(S)
      /\ Len(new) = Len(front) + Len(tail)
      /\ \A i \in 1 .. Len(front) + Len(tail) :
           new[i] = IF i <= Len(front) THEN front[i] ELSE tail[i - Len(front)]
  BY <1>2, <1>4, ConcatProperties
<1> HIDE DEF new
<1>6. Len(new) = Len(list) + 1
  BY <1>0, <1>2, <1>4, <1>5
<1>7. ASSUME NEW i \in 1 .. n + 1
      PROVE  new[i] = front[i]
  <2>1. i \in 1 .. Len(front) + Len(tail) /\ i <= Len(front)
    BY <1>0, <1>2, <1>4
  <2> QED
    BY <2>1, <1>5
<1>8. ASSUME NEW i \in n + 1 .. Len(list)
      PROVE  new[i + 1] = list[i]
  <2> DEFINE k == i - n
  <2>1. /\ k \in 1 .. Len(list) - n /\ n + k = i
        /\ i + 1 \in 1 .. Len(front) + Len(tail) /\ ~(i + 1 <= Len(front))
        /\ i + 1 - Len(front) = k
    BY <1>0, <1>2, <1>4
  <2> HIDE DEF k
  <2>2. new[i + 1] = tail[k]
    BY <2>1, <1>5
  <2> QED
    BY <2>1, <2>2, <1>2
<1>9. n + 1 \in 1 .. n + 1 /\ \A i \in 1 .. n : i \in 1 .. n + 1
  BY <1>0
<1>10. PutAfter(new, list, n, t)
  BY <1>3, <1>4, <1>6, <1>7, <1>8, <1>9 DEF PutAfter
<1> QED
  BY <1>3, <1>5, <1>10

\* A list with one more entry.
LEMMA PartedElements ==
  ASSUME NEW S, NEW list \in Seq(S), NEW t \in S, NEW n \in 0 .. Len(list)
  PROVE  /\ Elements(InsertAfter(list, n, t)) = Elements(list) \cup {t}
         /\ Distinct(list) /\ t \notin Elements(list) =>
              Distinct(InsertAfter(list, n, t))
<1> DEFINE new == InsertAfter(list, n, t)
<1>6. /\ Len(new) = Len(list) + 1
      /\ \A i \in 1 .. n : new[i] = list[i]
      /\ new[n + 1] = t
      /\ \A i \in n + 1 .. Len(list) : new[i + 1] = list[i]
  <2> HIDE DEF new
  <2>1. PutAfter(new, list, n, t)
    BY Parted DEF new
  <2> QED
    BY <2>1 DEF PutAfter
<1> HIDE DEF new
<1>0. Len(list) \in Nat /\ n \in Nat /\ n <= Len(list)
  BY LenProperties
<1>1. ASSUME NEW i \in 1 .. Len(new), i # n + 1
      PROVE  \E k \in 1 .. Len(list) :
               /\ new[i] = list[k]
               /\ (i <= n /\ i = k) \/ (i > n + 1 /\ i = k + 1)
  <2>1. CASE i <= n
    BY <1>0, <1>6, <2>1
  <2>2. CASE i > n + 1
    <3>1. i - 1 \in n + 1 .. Len(list) /\ (i - 1) + 1 = i
      BY <1>0, <1>6, <2>2
    <3>2. new[i] = list[i - 1]
      BY <1>6, <3>1
    <3> QED
      BY <3>1, <3>2, <2>2, <1>0
  <2> QED
    BY <1>0, <1>1, <2>1, <2>2
<1>2. ASSUME NEW k \in 1 .. Len(list)
      PROVE  list[k] \in Elements(new)
  <2>1. CASE k <= n
    <3>1. k \in 1 .. Len(new) /\ new[k] = list[k]
      BY <1>0, <1>6, <2>1
    <3> QED
      BY <3>1 DEF Elements
  <2>2. CASE k > n
    <3>1. k + 1 \in 1 .. Len(new) /\ new[k + 1] = list[k]
      BY <1>0, <1>6, <2>2
    <3> QED
      BY <3>1 DEF Elements
  <2> QED
    BY <1>0, <2>1, <2>2
<1>3. t \in Elements(new)
  <2>1. n + 1 \in 1 .. Len(new)
    BY <1>0, <1>6
  <2> QED
    BY <1>6, <2>1 DEF Elements
<1>4. Elements(new) = Elements(list) \cup {t}
  <2>1. ASSUME NEW i \in 1 .. Len(new)
        PROVE  new[i] = t \/ new[i] \in Elements(list)
    <3>1. CASE i = n + 1
      BY <1>6, <3>1
    <3>2. CASE i # n + 1
      <4>1. \E k \in 1 .. Len(list) : new[i] = list[k]
        BY <1>1, <3>2
      <4> QED
        BY <4>1 DEF Elements
    <3> QED
      BY <3>1, <3>2
  <2>2. \A x \in Elements(list) : x \in Elements(new)
    BY <1>2 DEF Elements
  <2>3. \A x \in Elements(new) : x = t \/ x \in Elements(list)
    BY <2>1 DEF Elements
  <2> QED
    BY <1>3, <2>2, <2>3
<1>5. ASSUME Distinct(list), t \notin Elements(list),
             NEW i \in 1 .. Len(new), NEW j \in 1 .. Len(new), new[i] = new[j]
      PROVE  i = j
  <2>1. \A k \in 1 .. Len(list) : list[k] # t
    BY <1>5 DEF Elements
  <2>2. CASE i = n + 1 \/ j = n + 1
    <3>1. i = n + 1 /\ j = n + 1
      BY <1>6, <1>1, <1>5, <2>1, <2>2
    <3> QED
      BY <3>1
  <2>3. CASE i # n + 1 /\ j # n + 1
    <3>1. PICK k \in 1 .. Len(list) :
            new[i] = list[k] /\ ((i <= n /\ i = k) \/ (i > n + 1 /\ i = k + 1))
      BY <1>1, <2>3
    <3>2. PICK l \in 1 .. Len(list) :
            new[j] = list[l] /\ ((j <= n /\ j = l) \/ (j > n + 1 /\ j = l + 1))
      BY <1>1, <2>3
    <3>3. k = l
      BY <1>5, <3>1, <3>2 DEF Distinct
    <3> QED
      BY <1>0, <3>1, <3>2, <3>3
  <2> QED
    BY <2>2, <2>3
<1> QED
  BY <1>4, <1>5 DEF Distinct, new

\* The place at which __global_list_insert puts a task.
LEMMA InsertedAt ==
  ASSUME NEW S, NEW list \in Seq(S), NEW t \in S, NEW prio \in [S -> Int],
         NEW new, new = __global_list_insert(list, t, prio)
  PROVE  \E n \in 0 .. Len(list) :
           /\ new = InsertAfter(list, n, t)
           /\ \A i \in 1 .. n : prio[list[i]] >= prio[t]
           /\ n < Len(list) => prio[list[n + 1]] < prio[t]
<1> DEFINE lower == {i \in 1 .. Len(list) : prio[list[i]] < prio[t]}
           n == IF lower = {} THEN Len(list) ELSE FirstOf(lower) - 1
<1>0. Len(list) \in Nat /\ \A i \in 1 .. Len(list) : list[i] \in S
  BY LenProperties, ElementOfSeq
<1>1. /\ n \in 0 .. Len(list)
      /\ \A i \in 1 .. n : prio[list[i]] >= prio[t]
      /\ n < Len(list) => prio[list[n + 1]] < prio[t]
  <2>1. CASE lower = {}
    BY <1>0, <2>1
  <2>2. CASE lower # {}
    <3>1. lower \in SUBSET Nat
      BY <1>0
    <3> DEFINE m == FirstOf(lower)
    <3>2. m \in lower /\ \A x \in lower : m <= x
      <4> HIDE DEF lower
      <4> QED
        BY <2>2, <3>1, FirstOfProperty
    <3>3. n = m - 1
      BY <2>2
    <3> HIDE DEF m, n
    <3> QED
      BY <1>0, <3>2, <3>3
  <2> QED
    BY <2>1, <2>2
<1>2. new = InsertAfter(list, n, t)
  BY DEF __global_list_insert
<1> HIDE DEF lower, n
<1> QED
  BY <1>1, <1>2

\* A task is put between the entries before it and those after it.
LEMMA InsertedPlace ==
  ASSUME NEW S, NEW list \in Seq(S), NEW t \in S, NEW prio \in [S -> Int],
         NEW new, new = __global_list_insert(list, t, prio)
  PROVE  /\ new \in Seq(S)
         /\ \E n \in 0 .. Len(list) :
              /\ Len(new) = Len(list) + 1
              /\ \A i \in 1 .. n : new[i] = list[i]
              /\ new[n + 1] = t
              /\ \A i \in n + 1 .. Len(list) : new[i + 1] = list[i]
              /\ \A i \in 1 .. n : prio[list[i]] >= prio[t]
              /\ n < Len(list) => prio[list[n + 1]] < prio[t]
<1>3. PICK m \in 0 .. Len(list) :
        /\ new = InsertAfter(list, m, t)
        /\ \A i \in 1 .. m : prio[list[i]] >= prio[t]
        /\ m < Len(list) => prio[list[m + 1]] < prio[t]
  BY InsertedAt
<1>4. new \in Seq(S) /\ PutAfter(new, list, m, t)
  BY <1>3, Parted
<1> QED
  BY <1>3, <1>4 DEF PutAfter

\* The list has the task then, and what it had.
LEMMA Inserted ==
  ASSUME NEW S, NEW list \in Seq(S), NEW t \in S, NEW prio \in [S -> Int],
         NEW new, new = __global_list_insert(list, t, prio)
  PROVE  /\ new \in Seq(S)
         /\ Elements(new) = Elements(list) \cup {t}
         /\ Distinct(list) /\ t \notin Elements(list) => Distinct(new)
<1>1. new \in Seq(S)
  BY InsertedPlace
<1>2. PICK n \in 0 .. Len(list) : new = InsertAfter(list, n, t)
  BY InsertedAt
<1> QED
  BY <1>1, <1>2, PartedElements

\* The higher priority first.
Sorted(list, pr) ==
  \A i, j \in 1 .. Len(list) : i < j => pr[list[i]] >= pr[list[j]]

\* The insertion finds the place of the task.
LEMMA InsertedSorted ==
  ASSUME NEW S, NEW list \in Seq(S), NEW t \in S, NEW pr \in [S -> Int],
         NEW new, new = __global_list_insert(list, t, pr), Sorted(list, pr)
  PROVE  Sorted(new, pr)
<1>0. Len(list) \in Nat /\ \A i \in 1 .. Len(list) : list[i] \in S
  BY LenProperties, ElementOfSeq
<1>1. PICK n \in 0 .. Len(list) :
        /\ new = InsertAfter(list, n, t)
        /\ \A i \in 1 .. n : pr[list[i]] >= pr[t]
        /\ n < Len(list) => pr[list[n + 1]] < pr[t]
  BY InsertedAt
<1>2. /\ Len(new) = Len(list) + 1
      /\ \A i \in 1 .. n : new[i] = list[i]
      /\ new[n + 1] = t
      /\ \A i \in n + 1 .. Len(list) : new[i + 1] = list[i]
      /\ \A i \in 1 .. n : pr[list[i]] >= pr[t]
      /\ n < Len(list) => pr[list[n + 1]] < pr[t]
  <2>1. PutAfter(new, list, n, t)
    BY <1>1, Parted
  <2> QED
    BY <1>1, <2>1 DEF PutAfter
<1> DEFINE at(i) == pr[list[i]]
<1>3. /\ \A i \in 1 .. Len(list) : at(i) \in Int
      /\ \A i, j \in 1 .. Len(list) : i < j => at(i) >= at(j)
      /\ \A i \in 1 .. n : at(i) >= pr[t]
      /\ n < Len(list) => at(n + 1) < pr[t]
      /\ pr[t] \in Int
  BY <1>0, <1>2 DEF Sorted
<1>4. /\ \A i \in 1 .. n : pr[new[i]] = at(i)
      /\ pr[new[n + 1]] = pr[t]
      /\ \A i \in n + 2 .. Len(list) + 1 : pr[new[i]] = at(i - 1)
  <2>1. \A i \in n + 2 .. Len(list) + 1 : new[i] = list[i - 1]
    <3> TAKE i \in n + 2 .. Len(list) + 1
    <3>1. i - 1 \in n + 1 .. Len(list) /\ (i - 1) + 1 = i
      BY <1>0
    <3> QED
      BY <1>2, <3>1
  <2> QED
    BY <1>2, <2>1
<1> HIDE DEF at
<1>5. \A i \in n + 1 .. Len(list) : at(i) < pr[t]
  BY <1>0, <1>3, SMTT(40)
<1>6. ASSUME NEW i \in 1 .. Len(new), NEW j \in 1 .. Len(new), i < j
      PROVE  pr[new[i]] >= pr[new[j]]
  <2>0. n \in Nat /\ i \in Nat /\ j \in Nat /\ i >= 1 /\ j <= Len(list) + 1
    BY <1>0, <1>2
  <2>1. CASE j <= n
    <3>1. /\ i \in 1 .. n /\ j \in 1 .. n
          /\ i \in 1 .. Len(list) /\ j \in 1 .. Len(list)
      BY <1>0, <1>6, <2>0, <2>1
    <3>2. at(i) >= at(j)
      BY <1>3, <1>6, <3>1
    <3> QED
      BY <1>4, <3>1, <3>2
  <2>2. CASE j = n + 1
    <3>1. i \in 1 .. n
      BY <1>6, <2>0, <2>2
    <3> QED
      BY <1>3, <1>4, <2>2, <3>1
  <2>3. CASE j > n + 1 /\ i = n + 1
    <3>1. /\ j \in n + 2 .. Len(list) + 1 /\ j - 1 \in n + 1 .. Len(list)
          /\ j - 1 \in 1 .. Len(list)
      BY <1>0, <2>0, <2>3
    <3>2. at(j - 1) < pr[t] /\ at(j - 1) \in Int
      BY <1>3, <1>5, <3>1
    <3> QED
      BY <1>3, <1>4, <2>3, <3>1, <3>2
  <2>4. CASE j > n + 1 /\ i > n + 1
    <3>1. /\ j \in n + 2 .. Len(list) + 1 /\ i \in n + 2 .. Len(list) + 1
          /\ i - 1 \in 1 .. Len(list) /\ j - 1 \in 1 .. Len(list)
          /\ i - 1 < j - 1
      BY <1>0, <1>6, <2>0, <2>4
    <3>2. at(i - 1) >= at(j - 1)
      BY <1>3, <3>1
    <3> QED
      BY <1>4, <3>1, <3>2
  <2>5. CASE j > n + 1 /\ i <= n
    <3>1. /\ j \in n + 2 .. Len(list) + 1 /\ i \in 1 .. n
          /\ i \in 1 .. Len(list) /\ j - 1 \in 1 .. Len(list)
          /\ i < j - 1
      BY <1>0, <2>0, <2>5
    <3>2. at(i) >= at(j - 1)
      BY <1>3, <3>1
    <3> QED
      BY <1>4, <3>1, <3>2
  <2> QED
    BY <2>0, <2>1, <2>2, <2>3, <2>4, <2>5
<1> QED
  BY <1>6 DEF Sorted

\* A list stays in order when a task is taken out, whose priority may change.
LEMMA WithoutSorted ==
  ASSUME NEW S, NEW list \in Seq(S), Distinct(list), NEW t,
         NEW pr, Sorted(list, pr), NEW new, \A u \in S \ {t} : new[u] = pr[u]
  PROVE  Sorted(Without(list, t), new)
<1> DEFINE rest == Without(list, t)
<1>0. rest \in Seq(S)
  BY WithoutProperties
<1>1. Elements(rest) = Elements(list) \ {t}
  BY WithoutProperties
<1>2. \A i, j \in 1 .. Len(rest) :
        i < j => \E k, l \in 1 .. Len(list) :
                   k < l /\ rest[i] = list[k] /\ rest[j] = list[l]
  BY WithoutProperties
<1> HIDE DEF rest
<1>3. \A i \in 1 .. Len(rest) : rest[i] \in S \ {t}
  <2> TAKE i \in 1 .. Len(rest)
  <2>1. rest[i] \in Elements(rest)
    BY DEF Elements
  <2>2. rest[i] \in S
    BY <1>0, ElementOfSeq
  <2> QED
    BY <1>1, <2>1, <2>2
<1> SUFFICES ASSUME NEW i \in 1 .. Len(rest), NEW j \in 1 .. Len(rest), i < j
             PROVE  new[rest[i]] >= new[rest[j]]
  BY DEF Sorted, rest
<1>4. PICK k \in 1 .. Len(list), l \in 1 .. Len(list) :
        k < l /\ rest[i] = list[k] /\ rest[j] = list[l]
  BY <1>2
<1>5. pr[list[k]] >= pr[list[l]]
  BY <1>4 DEF Sorted
<1>6. new[rest[i]] = pr[rest[i]] /\ new[rest[j]] = pr[rest[j]]
  BY <1>3
<1> QED
  BY <1>4, <1>5, <1>6

\* A list without duplicates has as many elements as entries.
LEMMA DistinctLen ==
  ASSUME NEW S, NEW list \in Seq(S), Distinct(list)
  PROVE  Cardinality(Elements(list)) = Len(list)
<1> DEFINE f == [i \in 1 .. Len(list) |-> list[i]]
<1>0. Len(list) \in Nat
  BY LenProperties
<1>1. f \in Surjection(1 .. Len(list), Elements(list))
  BY DEF Surjection, Elements
<1>2. f \in Injection(1 .. Len(list), Elements(list))
  BY DEF Injection, IsInjective, Elements, Distinct
<1>3. /\ IsFiniteSet(1 .. Len(list))
      /\ Cardinality(1 .. Len(list)) = Len(list)
  BY <1>0, FS_Interval, SMTT(40)
<1> QED
  BY <1>1, <1>2, <1>3, FS_Surjection
=============================================================================
