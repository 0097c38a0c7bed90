------------------------------ MODULE FoldLemmas ------------------------------
(***************************************************************************)
(* What a fold over a sequence comes to.  A theorem of the library cannot  *)
(* be about any operator; a constant of a module can: a proof about a fold *)
(* of the model takes these facts with INSTANCE FoldLemmas WITH Op <- ...  *)
(***************************************************************************)
EXTENDS Integers, Sequences, SequencesExt, WellFoundedInduction, TLAPS

CONSTANT Op(_, _, _)  \* what is folded: a context, what there is so far, and the next

\* The fold of seq in the context c.
Folded(c, base, seq) == FoldLeft(LAMBDA so, next : Op(c, so, next), base, seq)

\* What there is after each of the first n, and the function FoldLeft chooses.
IsProgress(f, c, base, seq, n) ==
  f = [i \in 0..n |-> IF i = 0 THEN base ELSE Op(c, f[i - 1], seq[i])]

Iterates(f, c, base, seq, S) ==
  f = [s \in SUBSET S |-> IF s = {} THEN base ELSE Op(c, f[s \ {Max(s)}], seq[Max(s)])]

-----------------------------------------------------------------------------
\* A set of naturals that is not empty has a least member.
LEMMA LeastMember ==
  ASSUME NEW T, T \subseteq Nat, T # {}
  PROVE  \E x \in T : \A y \in T : x <= y
<1>1. \E x \in T : \A y \in T : ~(<<y, x>> \in OpToRel(<, Nat))
  BY WFMin, NatLessThanWellFounded
<1>2. ASSUME NEW x \in T, \A y \in T : ~(<<y, x>> \in OpToRel(<, Nat)), NEW y \in T
      PROVE  ~(y < x)
  <2>1. <<y, x>> \in Nat \X Nat
    OBVIOUS
  <2>2. ~(<<y, x>> \in OpToRel(<, Nat))
    BY <1>2, Zenon
  <2> QED BY <2>1, <2>2, Zenon DEF OpToRel
<1>3. \E x \in T : \A y \in T : ~(y < x)
  BY <1>1, <1>2, Zenon
<1> QED BY <1>3

\* Induction, on the set of the naturals a formula holds of.
LEMMA Induction ==
  ASSUME NEW S, 0 \in S, \A n \in Nat : n \in S => n + 1 \in S
  PROVE  Nat \subseteq S
<1> SUFFICES ASSUME Nat \ S # {} PROVE FALSE
  OBVIOUS
<1>1. PICK x \in Nat \ S : \A y \in Nat \ S : x <= y
  BY LeastMember
<1>2. x # 0 /\ x - 1 \in Nat /\ x - 1 \in S
  BY <1>1
<1> QED BY <1>1, <1>2

-----------------------------------------------------------------------------
LEMMA GreatestMember ==
  ASSUME NEW m \in Nat, NEW s, m \in s, \A y \in s : y \in 1..m
  PROVE  Max(s) = m
<1>1. \A x \in s : (\A y \in s : x >= y) => x = m
  OBVIOUS
<1>2. \A y \in s : m >= y
  OBVIOUS
<1> QED BY <1>1, <1>2 DEF Max

LEMMA IterationExists ==
  ASSUME NEW c, NEW base, NEW seq, NEW n \in Nat
  PROVE  \E f : Iterates(f, c, base, seq, 1..n)
<1> DEFINE Reached == {m \in Nat : \E f : Iterates(f, c, base, seq, 1..m)}
<1>1. 0 \in Reached
  <2> DEFINE f == [s \in SUBSET (1..0) |-> base]
  <2>1. \A s \in SUBSET (1..0) : s = {}
    OBVIOUS
  <2>2. Iterates(f, c, base, seq, 1..0)
    BY <2>1 DEF Iterates
  <2> QED BY <2>2
<1>2. ASSUME NEW m \in Nat, m \in Reached
      PROVE  m + 1 \in Reached
  <2>1. PICK f : Iterates(f, c, base, seq, 1..m)
    BY <1>2
  <2> DEFINE g == [s \in SUBSET (1..(m + 1)) |->
                     IF m + 1 \in s THEN Op(c, f[s \ {m + 1}], seq[m + 1]) ELSE f[s]]
  <2>2. \A s \in SUBSET (1..(m + 1)) : m + 1 \notin s => s \in SUBSET (1..m)
    OBVIOUS
  <2>3. ASSUME NEW s \in SUBSET (1..(m + 1)), s # {}
        PROVE  g[s] = Op(c, g[s \ {Max(s)}], seq[Max(s)])
    <3>1. CASE m + 1 \in s
      <4>1. Max(s) = m + 1
        <5>1. m + 1 \in Nat /\ \A y \in s : y \in 1..(m + 1)
          OBVIOUS
        <5> HIDE DEF g, Reached
        <5> QED BY <3>1, <5>1, GreatestMember
      <4>2. s \ {m + 1} \in SUBSET (1..(m + 1)) /\ g[s \ {m + 1}] = f[s \ {m + 1}]
        OBVIOUS
      <4> QED BY <3>1, <4>1, <4>2
    <3>2. CASE m + 1 \notin s
      <4>1. s \in SUBSET (1..m) /\ s \ {Max(s)} \in SUBSET (1..(m + 1))
        BY <2>2, <3>2
      <4>2. f[s] = Op(c, f[s \ {Max(s)}], seq[Max(s)])
        BY <2>1, <2>3, <4>1 DEF Iterates
      <4>3. g[s] = f[s] /\ g[s \ {Max(s)}] = f[s \ {Max(s)}]
        BY <3>2, <4>1
      <4> QED BY <4>2, <4>3
    <3> QED BY <3>1, <3>2
  <2>4. g[{}] = base
    <3>1. {} \in SUBSET (1..m) /\ {} \in SUBSET (1..(m + 1))
      OBVIOUS
    <3>2. f[{}] = base
      BY <2>1, <3>1 DEF Iterates
    <3> QED BY <3>1, <3>2
  <2>5. Iterates(g, c, base, seq, 1..(m + 1))
    <3>1. \A s \in SUBSET (1..(m + 1)) :
            g[s] = IF s = {} THEN base ELSE Op(c, g[s \ {Max(s)}], seq[Max(s)])
      BY <2>3, <2>4
    <3>2. g = [s \in SUBSET (1..(m + 1)) |-> g[s]]
      OBVIOUS
    <3> HIDE DEF g
    <3> QED BY <3>1, <3>2 DEF Iterates
  <2> QED BY <2>5
<1> HIDE DEF Reached
<1>3. Nat \subseteq Reached
  BY <1>1, <1>2, Induction
<1> QED BY <1>3 DEF Reached

\* Each value comes from the one before.
LEMMA ProgressSteps ==
  ASSUME NEW c, NEW base, NEW seq, NEW n \in Nat, NEW f, IsProgress(f, c, base, seq, n)
  PROVE  f[0] = base /\ \A i \in Nat : i + 1 <= n => f[i + 1] = Op(c, f[i], seq[i + 1])
<1>1. f[0] = base
  BY DEF IsProgress
<1>2. ASSUME NEW i \in Nat, i + 1 <= n
      PROVE  f[i + 1] = Op(c, f[i], seq[i + 1])
  <2>1. i + 1 \in 0..n /\ i + 1 # 0 /\ (i + 1) - 1 = i
    BY <1>2
  <2> QED BY <2>1 DEF IsProgress
<1> QED BY <1>1, <1>2

\* A fold is the last of the values it goes through.
THEOREM FoldIsProgress ==
  ASSUME NEW c, NEW base, NEW seq, NEW n \in Nat, DOMAIN seq = 1..n
  PROVE  \E f : IsProgress(f, c, base, seq, n) /\ Folded(c, base, seq) = f[n]
<1> DEFINE F == CHOOSE f : Iterates(f, c, base, seq, DOMAIN seq)
           g == [i \in 0..n |-> F[1..i]]
<1>1. Folded(c, base, seq) = F[DOMAIN seq]
  BY Zenon DEF Folded, FoldLeft, MapThenFoldSet, Iterates
<1>2. Iterates(F, c, base, seq, 1..n)
  BY IterationExists, Zenon
<1> HIDE DEF F
<1>3. ASSUME NEW i \in 0..n
      PROVE  g[i] = IF i = 0 THEN base ELSE Op(c, g[i - 1], seq[i])
  <2>1. 1..i \in SUBSET (1..n)
    OBVIOUS
  <2>2. CASE i = 0
    <3>1. 1..i = {}
      BY <2>2
    <3> QED BY <1>2, <2>1, <2>2, <3>1 DEF Iterates
  <2>3. CASE i # 0
    <3>1. Max(1..i) = i
      BY <2>3, GreatestMember
    <3>2. (1..i) \ {i} = 1..(i - 1) /\ 1..i # {} /\ i - 1 \in 0..n
      BY <2>3
    <3>3. F[1..i] = Op(c, F[(1..i) \ {Max(1..i)}], seq[Max(1..i)])
      BY <1>2, <2>1, <3>2 DEF Iterates
    <3> QED BY <2>3, <3>1, <3>2, <3>3
  <2> QED BY <2>2, <2>3
<1>4. IsProgress(g, c, base, seq, n)
  <2>1. g = [i \in 0..n |-> g[i]]
    OBVIOUS
  <2> HIDE DEF g
  <2> QED BY <1>3, <2>1 DEF IsProgress
<1>5. g[n] = F[DOMAIN seq]
  OBVIOUS
<1> QED BY <1>1, <1>4, <1>5

\* Two functions that go through the same values are the same.
LEMMA ProgressIsUnique ==
  ASSUME NEW c, NEW base, NEW seq, NEW other, NEW m \in Nat, NEW n \in Nat, m <= n,
         \A i \in 1..m : seq[i] = other[i],
         NEW f, NEW g, IsProgress(f, c, base, seq, m), IsProgress(g, c, base, other, n)
  PROVE  \A i \in 0..m : f[i] = g[i]
<1> DEFINE Same == {i \in Nat : i <= m => f[i] = g[i]}
<1>1. 0 \in Same
  BY DEF IsProgress
<1>2. ASSUME NEW i \in Nat, i \in Same PROVE i + 1 \in Same
  <2> SUFFICES ASSUME i + 1 <= m PROVE f[i + 1] = g[i + 1]
    OBVIOUS
  <2>1. f[i + 1] = Op(c, f[i], seq[i + 1])
    BY DEF IsProgress
  <2>2. g[i + 1] = Op(c, g[i], other[i + 1])
    BY DEF IsProgress
  <2>3. f[i] = g[i] /\ seq[i + 1] = other[i + 1]
    BY <1>2
  <2> QED BY <2>1, <2>2, <2>3
<1> HIDE DEF Same
<1>3. Nat \subseteq Same
  BY <1>1, <1>2, Induction
<1> QED BY <1>3 DEF Same

\* Nothing to fold, and one more to fold.
THEOREM FoldOfNothing ==
  ASSUME NEW c, NEW base
  PROVE  Folded(c, base, <<>>) = base
<1>1. PICK f : IsProgress(f, c, base, <<>>, 0) /\ Folded(c, base, <<>>) = f[0]
  BY FoldIsProgress
<1> QED BY <1>1 DEF IsProgress

THEOREM FoldOfMore ==
  ASSUME NEW c, NEW base, NEW S, NEW seq \in Seq(S), NEW x \in S
  PROVE  Folded(c, base, Append(seq, x)) = Op(c, Folded(c, base, seq), x)
<1> DEFINE n == Len(seq)
           more == Append(seq, x)
<1>1. /\ n \in Nat /\ DOMAIN seq = 1..n /\ DOMAIN more = 1..(n + 1)
      /\ more[n + 1] = x /\ \A i \in 1..n : seq[i] = more[i]
  OBVIOUS
<1> HIDE DEF n, more
<1>2. PICK f : IsProgress(f, c, base, seq, n) /\ Folded(c, base, seq) = f[n]
  BY <1>1, FoldIsProgress
<1>3. PICK g : IsProgress(g, c, base, more, n + 1) /\ Folded(c, base, more) = g[n + 1]
  BY <1>1, FoldIsProgress
<1>4. f[n] = g[n]
  BY <1>1, <1>2, <1>3, ProgressIsUnique
<1>5. g[n + 1] = Op(c, g[n], more[n + 1])
  BY <1>1, <1>3 DEF IsProgress
<1> QED BY <1>1, <1>2, <1>3, <1>4, <1>5 DEF more

\* What every step keeps, all there is on the way keeps, and the fold.
THEOREM ProgressStaysIn ==
  ASSUME NEW c, NEW base, NEW S, NEW seq \in Seq(S), NEW T, base \in T,
         \A so \in T, next \in S : Op(c, so, next) \in T,
         NEW f, IsProgress(f, c, base, seq, Len(seq))
  PROVE  \A i \in 0..Len(seq) : f[i] \in T
<1> DEFINE Kept == {i \in Nat : i <= Len(seq) => f[i] \in T}
<1>1. 0 \in Kept
  BY DEF IsProgress
<1>2. ASSUME NEW i \in Nat, i \in Kept PROVE i + 1 \in Kept
  <2> SUFFICES ASSUME i + 1 <= Len(seq) PROVE f[i + 1] \in T
    OBVIOUS
  <2>1. f[i + 1] = Op(c, f[i], seq[i + 1]) /\ seq[i + 1] \in S
    BY DEF IsProgress
  <2> QED BY <1>2, <2>1
<1> HIDE DEF Kept
<1>3. Nat \subseteq Kept
  BY <1>1, <1>2, Induction
<1> QED BY <1>3 DEF Kept

THEOREM FoldStaysIn ==
  ASSUME NEW c, NEW base, NEW S, NEW seq \in Seq(S), NEW T, base \in T,
         \A so \in T, next \in S : Op(c, so, next) \in T
  PROVE  Folded(c, base, seq) \in T
<1>1. PICK f : IsProgress(f, c, base, seq, Len(seq)) /\ Folded(c, base, seq) = f[Len(seq)]
  BY FoldIsProgress
<1>2. \A i \in 0..Len(seq) : f[i] \in T
  BY <1>1, ProgressStaysIn
<1> QED BY <1>1, <1>2

\* Two contexts that no step tells apart fold to the same.
THEOREM FoldOfSame ==
  ASSUME NEW c, NEW d, NEW base, NEW seq, NEW n \in Nat, DOMAIN seq = 1..n,
         \A so, next : Op(c, so, next) = Op(d, so, next)
  PROVE  Folded(c, base, seq) = Folded(d, base, seq)
<1>1. PICK f : IsProgress(f, c, base, seq, n) /\ Folded(c, base, seq) = f[n]
  BY FoldIsProgress
<1>2. PICK g : IsProgress(g, d, base, seq, n) /\ Folded(d, base, seq) = g[n]
  BY FoldIsProgress
<1>3. IsProgress(f, d, base, seq, n)
  BY <1>1 DEF IsProgress
<1>4. \A i \in 0..n : f[i] = g[i]
  <2>1. n <= n /\ \A i \in 1..n : seq[i] = seq[i]
    OBVIOUS
  <2> QED BY ONLY n \in Nat, <1>2, <1>3, <2>1, ProgressIsUnique, SMTT(30)
<1> QED BY <1>1, <1>2, <1>4

\* Two contexts that no step over this sequence tells apart fold it to the same.
THEOREM FoldOfAgreeing ==
  ASSUME NEW c, NEW d, NEW base, NEW seq, NEW n \in Nat, DOMAIN seq = 1..n,
         \A i \in 1..n : \A so : Op(c, so, seq[i]) = Op(d, so, seq[i])
  PROVE  Folded(c, base, seq) = Folded(d, base, seq)
<1>1. PICK f : IsProgress(f, c, base, seq, n) /\ Folded(c, base, seq) = f[n]
  BY FoldIsProgress
<1>2. PICK g : IsProgress(g, d, base, seq, n) /\ Folded(d, base, seq) = g[n]
  BY FoldIsProgress
<1>3. IsProgress(f, d, base, seq, n)
  <2>1. \A i \in 0..n : f[i] = IF i = 0 THEN base ELSE Op(c, f[i - 1], seq[i])
    BY <1>1 DEF IsProgress
  <2>2. \A i \in 0..n : f[i] = IF i = 0 THEN base ELSE Op(d, f[i - 1], seq[i])
    BY <2>1
  <2>3. f = [i \in 0..n |-> f[i]]
    BY <1>1 DEF IsProgress
  <2> QED BY <2>2, <2>3 DEF IsProgress
<1>4. \A i \in 0..n : f[i] = g[i]
  <2>1. n <= n /\ \A i \in 1..n : seq[i] = seq[i]
    OBVIOUS
  <2> QED BY ONLY n \in Nat, <1>2, <1>3, <2>1, ProgressIsUnique, SMTT(30)
<1> QED BY <1>1, <1>2, <1>4

\* What changes nothing may be left out at the end.
THEOREM FoldOfIdle ==
  ASSUME NEW c, NEW base, NEW S, NEW seq \in Seq(S), NEW tail \in Seq(S),
         NEW so, so = Folded(c, base, seq), \A i \in DOMAIN tail : Op(c, so, tail[i]) = so
  PROVE  Folded(c, base, seq \o tail) = so
<1>1. PICK n \in Nat : n = Len(seq) /\ DOMAIN seq = 1..n
  OBVIOUS
<1>2. PICK m \in Nat : m = Len(tail) /\ DOMAIN tail = 1..m
  OBVIOUS
<1> DEFINE all == seq \o tail
<1>3. PICK k \in Nat : k = n + m
  OBVIOUS
<1>4. /\ all \in Seq(S) /\ DOMAIN all = 1..k
      /\ \A i \in 1..n : seq[i] = all[i]
      /\ \A i \in 1..m : all[n + i] = tail[i]
  BY <1>1, <1>2, <1>3
<1> HIDE DEF all
<1>5. PICK f : IsProgress(f, c, base, seq, n) /\ Folded(c, base, seq) = f[n]
  BY <1>1, FoldIsProgress
<1>6. PICK g : IsProgress(g, c, base, all, k) /\ Folded(c, base, all) = g[k]
  BY <1>4, FoldIsProgress
<1>7. g[n] = so
  <2>1. n <= k /\ n \in 0..n /\ n \in Nat /\ k \in Nat /\ \A i \in 1..n : seq[i] = all[i]
    BY <1>1, <1>3, <1>4
  <2>2. f[n] = g[n]
    <3>1. \A i \in 0..n : f[i] = g[i]
      BY ONLY <1>5, <1>6, <2>1, ProgressIsUnique, n \in Nat, k \in Nat, SMTT(30)
    <3> QED BY <3>1, <2>1
  <2> QED BY <1>5, <2>2
<1> DEFINE Same == {i \in Nat : i <= m => g[n + i] = so}
<1>8. 0 \in Same
  BY <1>7
<1>9. ASSUME NEW i \in Nat, i \in Same PROVE i + 1 \in Same
  <2> SUFFICES ASSUME i + 1 <= m PROVE g[n + (i + 1)] = so
    OBVIOUS
  <2>1. n + (i + 1) \in 0..k /\ n + (i + 1) # 0 /\ (n + (i + 1)) - 1 = n + i /\ i + 1 \in 1..m
    BY <1>3
  <2>2. g[n + (i + 1)] = Op(c, g[n + i], all[n + (i + 1)])
    BY <1>6, <2>1 DEF IsProgress
  <2>3. g[n + i] = so /\ all[n + (i + 1)] = tail[i + 1]
    BY <1>4, <1>9, <2>1
  <2> QED BY <1>2, <2>1, <2>2, <2>3
<1> HIDE DEF Same
<1>10. Nat \subseteq Same
  BY <1>8, <1>9, Induction
<1>11. g[k] = so
  <2>1. m \in Same
    BY <1>10
  <2> QED BY <1>3, <2>1 DEF Same
<1> QED BY <1>6, <1>11 DEF all
=============================================================================
