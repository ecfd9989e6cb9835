----------------------------- MODULE QueueLemmas -----------------------------
(***************************************************************************)
(* What the two sorted linked lists of the library (the input queue and    *)
(* the reader queue) need to know about least positions and about          *)
(* inserting into and cutting a sequence, what the operations on the       *)
(* input queue do to any set of inputs, and what a fold over a sequence    *)
(* goes through.                                                           *)
(***************************************************************************)
EXTENDS InputQueue, SequenceTheorems, WellFoundedInduction, TLAPS

\* A non-empty set of naturals has a least element, and Min is it: every scan
\* of a list "until the first element that ..." stops at such a position.
LEMMA MinNat ==
  ASSUME NEW T, T \subseteq Nat, T # {}
  PROVE  /\ Min(T) \in T
         /\ \A y \in T : Min(T) <= y
<1> DEFINE R == {ss \in Nat \X Nat : ss[1] < ss[2]}
<1>1. IsWellFoundedOn(R, Nat)
  BY NatLessThanWellFounded, Zenon DEF OpToRel
<1> HIDE DEF R
<1>2. PICK x \in T : \A y \in T : ~ (<<y, x>> \in R)
  BY <1>1, WFMin, Zenon
<1>3. ASSUME NEW y \in T
      PROVE  x =< y
  <2>1. x \in Nat /\ y \in Nat
    OBVIOUS
  <2>2. ~ (y < x)
    BY <1>2, <2>1 DEF R
  <2> QED
    BY <2>1, <2>2
<1> QED
  BY <1>3, Zenon DEF Min

\* Counting up to n: a set of naturals that has 0, and the next one of each, has
\* them all.
LEMMA CountingUp ==
  ASSUME NEW n \in Nat, NEW A, 0 \in A, \A i \in 1..n : i - 1 \in A => i \in A
  PROVE  \A i \in 0..n : i \in A
<1> SUFFICES ASSUME NEW k \in 0..n, k \notin A PROVE FALSE
  OBVIOUS
<1>1. PICK T : T = {i \in 0..n : i \notin A}
  OBVIOUS
<1>2. T \subseteq Nat /\ T # {}
  BY <1>1
<1>3. PICK m \in T : \A y \in T : m <= y
  BY <1>2, MinNat
<1>4. m \in 1..n /\ m \notin A /\ m - 1 \in 0..n
  BY <1>1, <1>3
<1>5. m - 1 \notin T
  BY <1>3, <1>4
<1> QED
  BY <1>1, <1>4, <1>5

-----------------------------------------------------------------------------
(* Folding over a sequence                                                 *)

\* A fold of elements of S, which makes something in R of them.
FoldType(R, S, base, G) == base \in R /\ G \in [R \X S -> R]

\* What a fold goes through: G takes what was made of the elements before the
\* i-th, and that one.
Steps(R, base, G, s) ==
  {f \in [0..Len(s) -> R] :
     f[0] = base /\ \A i \in 1..Len(s) : f[i] = G[<<f[i - 1], s[i]>>]}

Folded(R, base, G, s) == (CHOOSE f \in Steps(R, base, G, s) : TRUE)[Len(s)]

\* The least sequence without steps would have some: those up to its last
\* element, and one more.
LEMMA StepsExist ==
  ASSUME NEW R, NEW S, NEW base, NEW G, FoldType(R, S, base, G), NEW s \in Seq(S)
  PROVE  Steps(R, base, G, s) # {}
<1> USE DEF FoldType
<1> DEFINE P(n) == \E f \in [0..n -> R] :
                     f[0] = base /\ \A i \in 1..n : f[i] = G[<<f[i - 1], s[i]>>]
<1>0. Len(s) \in Nat /\ \A i \in 1..Len(s) : s[i] \in S
  BY LenProperties
<1>1. P(0)
  <2>1. PICK h : h = [j \in {0} |-> base]
    OBVIOUS
  <2>2. 0..0 = {0} /\ 1..0 = {}
    OBVIOUS
  <2>3. h \in [0..0 -> R] /\ h[0] = base
    BY <2>1, <2>2
  <2>4. \A i \in 1..0 : h[i] = G[<<h[i - 1], s[i]>>]
    BY <2>2
  <2> QED
    BY <2>3, <2>4
<1>2. ASSUME NEW n \in 1..Len(s), P(n - 1) PROVE P(n)
  <2>1. PICK f \in [0..(n - 1) -> R] :
          f[0] = base /\ \A i \in 1..(n - 1) : f[i] = G[<<f[i - 1], s[i]>>]
    BY <1>2
  <2> DEFINE g == [i \in 0..n |-> IF i = n THEN G[<<f[n - 1], s[n]>>] ELSE f[i]]
  <2>2. n - 1 \in 0..(n - 1) /\ s[n] \in S
    BY <1>0
  <2>3. G[<<f[n - 1], s[n]>>] \in R
    BY <2>2
  <2>4. g \in [0..n -> R]
    <3> SUFFICES ASSUME NEW i \in 0..n
                 PROVE  (IF i = n THEN G[<<f[n - 1], s[n]>>] ELSE f[i]) \in R
      OBVIOUS
    <3>1. i # n => i \in 0..(n - 1)
      BY <1>0
    <3> QED
      BY <2>3, <3>1
  <2>0. /\ n \in 0..n /\ 0 \in 0..(n - 1)
        /\ \A i \in 0..(n - 1) : i \in 0..n /\ i # n
        /\ \A i \in 1..n : i - 1 \in 0..(n - 1)
    BY <1>0
  <2>5. /\ \A i \in 0..(n - 1) : g[i] = f[i]
        /\ g[n] = G[<<f[n - 1], s[n]>>]
    BY <2>0
  <2> HIDE DEF g
  <2>6. g[0] = base
    BY <2>0, <2>1, <2>5
  <2>7. ASSUME NEW i \in 1..n PROVE g[i] = G[<<g[i - 1], s[i]>>]
    <3>1. i - 1 \in 0..(n - 1) /\ g[i - 1] = f[i - 1]
      BY <2>0, <2>5
    <3>2. CASE i = n
      BY <2>5, <3>1, <3>2
    <3>3. CASE i # n
      <4>1. i \in 1..(n - 1) /\ i \in 0..(n - 1)
        BY <1>0, <3>3
      <4> QED
        BY <2>1, <2>5, <3>1, <4>1
    <3> QED
      BY <3>2, <3>3
  <2> QED
    BY <2>4, <2>6, <2>7
<1> HIDE DEF P
<1>3. PICK A : A = {n \in 0..Len(s) : P(n)}
  OBVIOUS
<1>4. P(Len(s))
  <2>1. 0 \in A /\ \A n \in 1..Len(s) : n - 1 \in A => n \in A
    BY <1>0, <1>1, <1>2, <1>3
  <2>2. \A n \in 0..Len(s) : n \in A
    BY <1>0, <2>1, CountingUp
  <2> QED
    BY <1>0, <1>3, <2>2
<1> QED
  BY <1>4 DEF P, Steps

\* With one more element at the end, a fold goes through the same before.
LEMMA StepsAgree ==
  ASSUME NEW R, NEW S, NEW base, NEW G, NEW s \in Seq(S), NEW x \in S
  PROVE  \A f \in Steps(R, base, G, s) :
           \A g \in Steps(R, base, G, Append(s, x)) : f[Len(s)] = g[Len(s)]
<1> TAKE f \in Steps(R, base, G, s)
<1> TAKE g \in Steps(R, base, G, Append(s, x))
<1>0. /\ Len(s) \in Nat /\ Len(Append(s, x)) = Len(s) + 1
      /\ \A i \in 1..Len(s) : s[i] = Append(s, x)[i]
  BY LenProperties
<1> DEFINE n == Len(s)
           t == Append(s, x)
<1> HIDE DEF n, t
<1>1. PICK A : A = {m \in 0..n : f[m] = g[m]}
  OBVIOUS
<1>2. 0 \in A
  <2>1. f[0] = base /\ g[0] = base
    BY DEF Steps, t
  <2>3. 0 \in 0..n
    BY <1>0 DEF n
  <2> QED
    BY <1>1, <2>1, <2>3
<1>3. ASSUME NEW m \in 1..n, m - 1 \in A PROVE m \in A
  <2>1. m \in 1..Len(s) /\ m \in 1..Len(t) /\ s[m] = t[m]
    BY <1>0 DEF n, t
  <2>2. f[m] = G[<<f[m - 1], s[m]>>] /\ g[m] = G[<<g[m - 1], t[m]>>]
    BY <2>1 DEF Steps, t
  <2>3. f[m - 1] = g[m - 1] /\ m \in 0..n
    BY <1>1, <1>3
  <2>4. f[m] = g[m]
    BY <2>1, <2>2, <2>3
  <2> QED
    BY <1>1, <2>3, <2>4
<1>4. \A m \in 0..n : m \in A
  BY <1>0, <1>2, <1>3, CountingUp DEF n
<1> QED
  BY <1>0, <1>1, <1>4 DEF n

LEMMA FoldedEmpty ==
  ASSUME NEW R, NEW S, NEW base, NEW G, FoldType(R, S, base, G)
  PROVE  Folded(R, base, G, <<>>) = base
<1>1. <<>> \in Seq(S) /\ Len(<<>>) = 0
  OBVIOUS
<1>2. Steps(R, base, G, <<>>) # {}
  BY <1>1, StepsExist
<1>3. PICK f \in Steps(R, base, G, <<>>) : Folded(R, base, G, <<>>) = f[0]
  BY <1>1, <1>2 DEF Folded
<1> QED
  BY <1>3 DEF Steps

LEMMA FoldedType ==
  ASSUME NEW R, NEW S, NEW base, NEW G, FoldType(R, S, base, G), NEW s \in Seq(S)
  PROVE  Folded(R, base, G, s) \in R
<1>1. Steps(R, base, G, s) # {}
  BY StepsExist
<1>2. PICK f \in Steps(R, base, G, s) : Folded(R, base, G, s) = f[Len(s)]
  BY <1>1 DEF Folded
<1>3. Len(s) \in 0..Len(s) /\ f \in [0..Len(s) -> R]
  BY LenProperties DEF Steps
<1> QED
  BY <1>2, <1>3

LEMMA FoldedAppend ==
  ASSUME NEW R, NEW S, NEW base, NEW G, FoldType(R, S, base, G), NEW s \in Seq(S), NEW x \in S
  PROVE  Folded(R, base, G, Append(s, x)) = G[<<Folded(R, base, G, s), x>>]
<1>1. PICK u : u = Append(s, x)
  OBVIOUS
<1>2. /\ u \in Seq(S) /\ Len(s) \in Nat /\ Len(u) = Len(s) + 1
      /\ u[Len(s) + 1] = x
  BY <1>1, LenProperties
<1>3. Steps(R, base, G, s) # {} /\ Steps(R, base, G, u) # {}
  BY <1>2, StepsExist
<1>4. PICK f \in Steps(R, base, G, s) : Folded(R, base, G, s) = f[Len(s)]
  BY <1>3 DEF Folded
<1>5. PICK g \in Steps(R, base, G, Append(s, x)) : Folded(R, base, G, Append(s, x)) = g[Len(u)]
  BY <1>1, <1>3 DEF Folded
<1>6. f[Len(s)] = g[Len(s)]
  BY StepsAgree
<1>7. g[Len(u)] = G[<<g[Len(s)], x>>]
  <2>1. Len(u) \in 1..Len(u) /\ Len(u) - 1 = Len(s)
    BY <1>2
  <2>2. g[Len(u)] = G[<<g[Len(u) - 1], u[Len(u)]>>]
    BY <1>1, <2>1 DEF Steps
  <2> QED
    BY <1>2, <2>1, <2>2
<1> QED
  BY <1>4, <1>5, <1>6, <1>7

\* A fold of the community modules is one over a set of positions, the largest
\* last.
LEMMA MaxOfPositions ==
  ASSUME NEW n \in Nat, NEW u, u \subseteq 1..n, u # {}
  PROVE  /\ Max(u) \in u
         /\ \A y \in u : Max(u) >= y
<1>1. PICK T : T = {n - i : i \in u}
  OBVIOUS
<1>2. PICK m \in T : \A y \in T : m <= y
  <2>1. \A i \in u : n - i \in Nat
    OBVIOUS
  <2>2. T \subseteq Nat /\ T # {}
    BY <1>1, <2>1
  <2> QED
    BY <2>2, MinNat
<1>3. PICK x \in u : m = n - x
  BY <1>1, <1>2
<1>4. \A y \in u : x >= y
  <2> TAKE y \in u
  <2>1. n - x <= n - y
    BY <1>1, <1>2, <1>3
  <2> QED
    BY <2>1
<1> QED
  BY <1>4, Zenon DEF Max

SetFolds(R, base, G, s) ==
  {it \in [SUBSET DOMAIN s -> R] :
     \A u \in SUBSET DOMAIN s :
       it[u] = IF u = {} THEN base ELSE G[<<it[u \ {Max(u)}], s[Max(u)]>>]}

LEMMA SetFoldsExist ==
  ASSUME NEW R, NEW S, NEW base, NEW G, FoldType(R, S, base, G), NEW s \in Seq(S)
  PROVE  SetFolds(R, base, G, s) # {}
<1> USE DEF FoldType
<1> DEFINE Q(it, n) == \A u \in SUBSET (1..n) :
                         it[u] = IF u = {} THEN base ELSE G[<<it[u \ {Max(u)}], s[Max(u)]>>]
           P(n) == \E it \in [SUBSET (1..n) -> R] : Q(it, n)
<1>0. Len(s) \in Nat /\ DOMAIN s = 1..Len(s) /\ \A i \in 1..Len(s) : s[i] \in S
  BY LenProperties
<1>1. P(0)
  <2> DEFINE h == [u \in SUBSET (1..0) |-> base]
  <2>1. h \in [SUBSET (1..0) -> R]
    OBVIOUS
  <2>2. Q(h, 0)
    <3>1. \A u \in SUBSET (1..0) : u = {} /\ h[u] = base
      OBVIOUS
    <3> QED
      BY <3>1
  <2> QED
    BY <2>1, <2>2
<1>2. ASSUME NEW n \in 1..Len(s), P(n - 1) PROVE P(n)
  <2>1. PICK it \in [SUBSET (1..(n - 1)) -> R] : Q(it, n - 1)
    BY <1>2
  <2> DEFINE h == [u \in SUBSET (1..n) |->
                     IF n \in u THEN G[<<it[u \ {n}], s[n]>>] ELSE it[u]]
  <2>2. \A u \in SUBSET (1..n) : u \ {n} \in SUBSET (1..(n - 1))
    OBVIOUS
  <2>3. \A u \in SUBSET (1..n) : n \notin u => u \in SUBSET (1..(n - 1))
    BY <2>2
  <2>4. h \in [SUBSET (1..n) -> R]
    <3> SUFFICES ASSUME NEW u \in SUBSET (1..n)
                 PROVE  (IF n \in u THEN G[<<it[u \ {n}], s[n]>>] ELSE it[u]) \in R
      OBVIOUS
    <3>1. it[u \ {n}] \in R /\ s[n] \in S
      BY <1>0, <2>2
    <3> QED
      BY <2>3, <3>1
  <2>5. Q(h, n)
    <3> SUFFICES ASSUME NEW u \in SUBSET (1..n)
                 PROVE  h[u] = IF u = {} THEN base ELSE G[<<h[u \ {Max(u)}], s[Max(u)]>>]
      OBVIOUS
    <3>1. CASE n \in u
      <4>1. n \in Nat /\ u \subseteq 1..n /\ u # {}
        BY <1>0, <3>1
      <4>2. Max(u) = n
        <5>1. Max(u) \in u /\ \A y \in u : Max(u) >= y
          BY <4>1, MaxOfPositions
        <5>2. Max(u) \in 1..n /\ Max(u) >= n
          BY <3>1, <4>1, <5>1
        <5> QED
          BY <5>2
      <4>3. h[u] = G[<<it[u \ {n}], s[n]>>]
        BY <3>1
      <4>4. u \ {n} \in SUBSET (1..n) /\ h[u \ {n}] = it[u \ {n}]
        OBVIOUS
      <4> HIDE DEF h
      <4> QED
        BY <3>1, <4>2, <4>3, <4>4
    <3>2. CASE n \notin u
      <4>1. u \in SUBSET (1..(n - 1))
        BY <2>3, <3>2
      <4>2. h[u] = it[u]
        BY <3>2
      <4>3. it[u] = IF u = {} THEN base ELSE G[<<it[u \ {Max(u)}], s[Max(u)]>>]
        BY <2>1, <4>1
      <4>4. u \ {Max(u)} \in SUBSET (1..n) /\ n \notin u \ {Max(u)}
        BY <3>2
      <4>5. h[u \ {Max(u)}] = it[u \ {Max(u)}]
        BY <4>4
      <4> HIDE DEF h
      <4> QED
        BY <4>2, <4>3, <4>5
    <3> QED
      BY <3>1, <3>2
  <2> HIDE DEF h, Q
  <2> QED
    BY <2>4, <2>5
<1> HIDE DEF P
<1>3. PICK A : A = {n \in 0..Len(s) : P(n)}
  OBVIOUS
<1>4. P(Len(s))
  <2>1. 0 \in A /\ \A n \in 1..Len(s) : n - 1 \in A => n \in A
    BY <1>0, <1>1, <1>2, <1>3
  <2>2. \A n \in 0..Len(s) : n \in A
    BY <1>0, <2>1, CountingUp
  <2> QED
    BY <1>0, <1>3, <2>2
<1> QED
  BY <1>0, <1>4 DEF P, SetFolds

\* Such a fold over all positions is the fold over the sequence.
IsSetFold(it, R, base, G, s) ==
  /\ it[{}] = base
  /\ \A u \in SUBSET DOMAIN s :
       u # {} /\ it[u \ {Max(u)}] \in R => it[u] = G[<<it[u \ {Max(u)}], s[Max(u)]>>]

LEMMA SetFoldIsFolded ==
  ASSUME NEW R, NEW S, NEW base, NEW G, FoldType(R, S, base, G), NEW s \in Seq(S),
         NEW it, IsSetFold(it, R, base, G, s)
  PROVE  it[DOMAIN s] = Folded(R, base, G, s)
<1> USE DEF FoldType
<1>0. Len(s) \in Nat /\ DOMAIN s = 1..Len(s)
  BY LenProperties
<1>1. PICK f : f \in Steps(R, base, G, s) /\ Folded(R, base, G, s) = f[Len(s)]
  BY StepsExist DEF Folded
<1>2. f \in [0..Len(s) -> R] /\ f[0] = base
      /\ \A i \in 1..Len(s) : f[i] = G[<<f[i - 1], s[i]>>]
  BY <1>1 DEF Steps
<1>3. PICK A : A = {n \in 0..Len(s) : it[1..n] = f[n]}
  OBVIOUS
<1>4. 0 \in A
  <2>1. 1..0 = {} /\ 0 \in 0..Len(s)
    BY <1>0
  <2> QED
    BY <1>2, <1>3, <2>1 DEF IsSetFold
<1>5. ASSUME NEW n \in 1..Len(s), n - 1 \in A PROVE n \in A
  <2>1. n \in Nat /\ n - 1 \in 0..Len(s) /\ n \in 0..Len(s)
    BY <1>0
  <2>2. (1..n) \in SUBSET DOMAIN s /\ 1..n # {}
    <3>1. \A i \in 1..n : i \in 1..Len(s)
      BY <1>0
    <3>2. 1 \in 1..n
      BY <1>0
    <3> QED
      BY <1>0, <3>1, <3>2
  <2>3. Max(1..n) = n
    <3>1. 1..n \subseteq 1..n /\ n \in 1..n
      BY <1>0
    <3>2. Max(1..n) \in 1..n /\ \A y \in 1..n : Max(1..n) >= y
      BY <2>1, <2>2, <3>1, MaxOfPositions
    <3> QED
      BY <3>1, <3>2
  <2>4. (1..n) \ {n} = 1..(n - 1)
    BY <1>0
  <2>5. it[1..(n - 1)] = f[n - 1] /\ f[n - 1] \in R
    BY <1>2, <1>3, <1>5, <2>1
  <2>6. it[1..n] = G[<<it[1..(n - 1)], s[n]>>]
    <3>1. (1..n) # {} /\ it[(1..n) \ {Max(1..n)}] \in R
            => it[1..n] = G[<<it[(1..n) \ {Max(1..n)}], s[Max(1..n)]>>]
      BY <2>2, Zenon DEF IsSetFold
    <3> QED
      BY <2>2, <2>3, <2>4, <2>5, <3>1
  <2> QED
    BY <1>2, <1>3, <2>1, <2>5, <2>6
<1>6. \A n \in 0..Len(s) : n \in A
  BY <1>0, <1>4, <1>5, CountingUp
<1>7. it[1..Len(s)] = f[Len(s)]
  BY <1>0, <1>3, <1>6
<1> QED
  BY <1>0, <1>1, <1>7

-----------------------------------------------------------------------------
(* Inserting into a queue and cutting it                                   *)

\* Inserting e at position i of s shifts what stood at i and behind it, the
\* three-way pointer surgery (head, middle, tail) of the list code.
LEMMA InsertAtProperties ==
  ASSUME NEW S, NEW s \in Seq(S), NEW i \in 1..(Len(s) + 1), NEW e \in S
  PROVE  /\ InsertAt(s, i, e) \in Seq(S)
         /\ Len(InsertAt(s, i, e)) = Len(s) + 1
         /\ \A k \in 1..(Len(s) + 1) :
              InsertAt(s, i, e)[k] = IF k < i THEN s[k]
                                     ELSE IF k = i THEN e ELSE s[k - 1]
<1> DEFINE front == SubSeq(s, 1, i - 1)
           back  == SubSeq(s, i, Len(s))
           left  == front \o <<e>>
<1>0. Len(s) \in Nat /\ \A k \in 1..Len(s) : s[k] \in S
  BY LenProperties
<1>1. /\ front \in Seq(S)
      /\ Len(front) = i - 1
      /\ \A k \in 1..(i - 1) : front[k] = s[k]
  <2>1. \A k \in 1..(i - 1) : s[k] \in S
    BY <1>0
  <2>2. 1 \in Int /\ i - 1 \in Int
    BY <1>0
  <2> HIDE DEF front
  <2>3. /\ SubSeq(s, 1, i - 1) \in Seq(S)
        /\ Len(SubSeq(s, 1, i - 1)) = IF 1 <= i - 1 THEN (i - 1) - 1 + 1 ELSE 0
        /\ \A k \in 1..((i - 1) - 1 + 1) : SubSeq(s, 1, i - 1)[k] = s[1 + k - 1]
    BY <2>1, <2>2, SubSeqProperties
  <2> QED
    BY <2>3, <1>0 DEF front
<1>2. /\ back \in Seq(S)
      /\ Len(back) = Len(s) - i + 1
      /\ \A k \in 1..(Len(s) - i + 1) : back[k] = s[i + k - 1]
  <2>1. \A k \in i..Len(s) : s[k] \in S
    BY <1>0
  <2>3. /\ SubSeq(s, i, Len(s)) \in Seq(S)
        /\ Len(SubSeq(s, i, Len(s))) = IF i <= Len(s) THEN Len(s) - i + 1 ELSE 0
        /\ \A k \in 1..(Len(s) - i + 1) : SubSeq(s, i, Len(s))[k] = s[i + k - 1]
    BY <2>1, <1>0, SubSeqProperties
  <2> HIDE DEF back
  <2> QED
    BY <2>3, <1>0 DEF back
<1> HIDE DEF front, back
<1>3. <<e>> \in Seq(S) /\ Len(<<e>>) = 1 /\ <<e>>[1] = e
  OBVIOUS
<1>4. /\ left \in Seq(S)
      /\ Len(left) = i
      /\ \A k \in 1..i : left[k] = IF k < i THEN s[k] ELSE e
  <2>1. /\ left \in Seq(S)
        /\ Len(left) = Len(front) + Len(<<e>>)
        /\ \A k \in 1..(Len(front) + Len(<<e>>)) :
             left[k] = IF k <= Len(front) THEN front[k] ELSE <<e>>[k - Len(front)]
    BY <1>1, <1>3, ConcatProperties
  <2> HIDE DEF left
  <2>2. i \in Nat
    BY <1>0
  <2>3. ASSUME NEW k \in 1..i
        PROVE  left[k] = IF k < i THEN s[k] ELSE e
    <3>1. k \in 1..(Len(front) + Len(<<e>>))
      BY <2>2, <1>1, <1>3
    <3>2. CASE k < i
      BY <3>1, <3>2, <2>1, <2>2, <1>1
    <3>3. CASE k = i
      BY <3>1, <3>3, <2>1, <2>2, <1>1, <1>3
    <3> QED
      BY <3>2, <3>3, <2>2
  <2> QED
    BY <2>1, <2>2, <2>3, <1>1, <1>3
<1> HIDE DEF left
<1>5. /\ left \o back \in Seq(S)
      /\ Len(left \o back) = Len(left) + Len(back)
      /\ \A k \in 1..(Len(left) + Len(back)) :
           (left \o back)[k] = IF k <= Len(left) THEN left[k]
                               ELSE back[k - Len(left)]
  BY <1>2, <1>4, ConcatProperties
<1>6. InsertAt(s, i, e) = left \o back
  BY DEF InsertAt, left, front, back
<1>7. Len(left) + Len(back) = Len(s) + 1
  BY <1>0, <1>2, <1>4
<1>8. ASSUME NEW k \in 1..(Len(s) + 1)
      PROVE  (left \o back)[k] = IF k < i THEN s[k]
                                 ELSE IF k = i THEN e ELSE s[k - 1]
  <2>1. CASE k <= i
    BY <2>1, <1>0, <1>4, <1>5, <1>7
  <2>2. CASE k > i
    <3>1. k - i \in 1..(Len(s) - i + 1) /\ i + (k - i) - 1 = k - 1
      BY <2>2, <1>0
    <3>2. back[k - i] = s[k - 1]
      BY <1>2, <3>1
    <3> QED
      BY <2>2, <3>2, <1>0, <1>4, <1>5, <1>7
  <2>3. k <= i \/ k > i
    BY <1>0
  <2> QED
    BY <2>1, <2>2, <2>3, Zenon
<1> QED
  BY <1>5, <1>6, <1>7, <1>8

\* Where a scan over n elements stops: at the first position of T, or behind
\* the last element when there is none.
LEMMA ScanStops ==
  ASSUME NEW n \in Nat, NEW T, T \subseteq 1..n
  PROVE  /\ Min(T \cup {n + 1}) \in 1..(n + 1)
         /\ Min(T \cup {n + 1}) <= n => Min(T \cup {n + 1}) \in T
         /\ \A k \in 1..n : k < Min(T \cup {n + 1}) => k \notin T
<1> DEFINE U == T \cup {n + 1}
           m == Min(U)
<1>1. U \subseteq Nat /\ U # {}
  OBVIOUS
<1>2. m \in U /\ \A y \in U : m <= y
  BY <1>1, MinNat, Zenon
<1> HIDE DEF m
<1>3. m \in T \/ m = n + 1
  BY <1>2, Zenon
<1>4. m \in 1..(n + 1)
  <2>1. CASE m \in T
    <3>1. m \in 1..n
      BY <2>1, Zenon
    <3> HIDE DEF U
    <3> QED
      BY <3>1
  <2>2. CASE m = n + 1
    BY <2>2
  <2> QED
    BY <1>3, <2>1, <2>2, Zenon
<1>5. m <= n => m \in T
  BY <1>3
<1>6. ASSUME NEW k \in 1..n, k < m
      PROVE  k \notin T
  <2>1. k \in T => m <= k
    BY <1>2, Zenon
  <2>2. ~ (m <= k)
    BY <1>4, <1>6
  <2> QED
    BY <2>1, <2>2, Zenon
<1>7. /\ m \in 1..(n + 1)
      /\ m <= n => m \in T
      /\ \A k \in 1..n : k < m => k \notin T
  BY <1>4, <1>5, <1>6, Zenon
<1> QED
  BY <1>7, Zenon DEF m

\* Cutting a sequence in two at n: the batch taken from the front and the
\* rest that stays.
LEMMA CutProperties ==
  ASSUME NEW S, NEW s \in Seq(S), NEW n \in 0..Len(s)
  PROVE  /\ SubSeq(s, 1, n) \in Seq(S)
         /\ Len(SubSeq(s, 1, n)) = n
         /\ \A k \in 1..n : SubSeq(s, 1, n)[k] = s[k]
         /\ SubSeq(s, n + 1, Len(s)) \in Seq(S)
         /\ Len(SubSeq(s, n + 1, Len(s))) = Len(s) - n
         /\ \A k \in 1..(Len(s) - n) : SubSeq(s, n + 1, Len(s))[k] = s[n + k]
<1>0. Len(s) \in Nat /\ \A k \in 1..Len(s) : s[k] \in S
  BY LenProperties
<1>1. \A k \in 1..n : s[k] \in S
  BY <1>0
<1>2. \A k \in (n + 1)..Len(s) : s[k] \in S
  BY <1>0
<1>3. /\ SubSeq(s, 1, n) \in Seq(S)
      /\ Len(SubSeq(s, 1, n)) = IF 1 <= n THEN n - 1 + 1 ELSE 0
      /\ \A k \in 1..(n - 1 + 1) : SubSeq(s, 1, n)[k] = s[1 + k - 1]
  BY <1>0, <1>1, SubSeqProperties
<1>4. /\ SubSeq(s, n + 1, Len(s)) \in Seq(S)
      /\ Len(SubSeq(s, n + 1, Len(s)))
           = IF n + 1 <= Len(s) THEN Len(s) - (n + 1) + 1 ELSE 0
      /\ \A k \in 1..(Len(s) - (n + 1) + 1) :
           SubSeq(s, n + 1, Len(s))[k] = s[(n + 1) + k - 1]
  BY <1>0, <1>2, SubSeqProperties
<1>5. \A k \in 1..(Len(s) - n) : SubSeq(s, n + 1, Len(s))[k] = s[n + k]
  <2> TAKE k \in 1..(Len(s) - n)
  <2>1. k \in 1..(Len(s) - (n + 1) + 1) /\ (n + 1) + k - 1 = n + k
    BY <1>0
  <2> QED
    BY <2>1, <1>4
<1> QED
  BY <1>0, <1>3, <1>4, <1>5

-----------------------------------------------------------------------------
(* The queue of inputs                                                     *)

\* Inputs have a type and a time that the comparisons make sense for.
AreInputs(S) ==
  \A in \in S : in.filetype \in FileTypes /\ in.epoch_filetime \in Nat

\* The insertion point splits the queue into files that may stand before the
\* new input and files that may stand behind it.
LEMMA InsertPosSplits ==
  ASSUME NEW S, AreInputs(S), NEW q \in Seq(S), SortedQueue(q), NEW in \in S
  PROVE  /\ InsertPos(q, in) \in 1..(Len(q) + 1)
         /\ \A k \in 1..Len(q) : k < InsertPos(q, in) => InOrder(q[k], in)
         /\ \A k \in 1..Len(q) : k >= InsertPos(q, in) =>
              InOrder(in, q[k]) /\ ~ SameFile(q[k], in)
<1> DEFINE p == InsertPos(q, in)
           T == {i \in 1..Len(q) : StopsAt(q[i], in)}
<1>0. Len(q) \in Nat /\ \A k \in 1..Len(q) : q[k] \in S
  BY LenProperties
<1>1. /\ p \in 1..(Len(q) + 1)
      /\ p <= Len(q) => StopsAt(q[p], in)
      /\ \A k \in 1..Len(q) : k < p => ~ StopsAt(q[k], in)
  <2>1. T \subseteq 1..Len(q) /\ p = Min(T \cup {Len(q) + 1})
    BY DEF InsertPos
  <2> HIDE DEF p
  <2>2. /\ p \in 1..(Len(q) + 1)
        /\ p <= Len(q) => p \in T
        /\ \A k \in 1..Len(q) : k < p => k \notin T
    <3> HIDE DEF T
    <3> QED
      BY <1>0, <2>1, ScanStops
  <2> QED
    BY <2>2
<1> HIDE DEF p
<1>2. ASSUME NEW k \in 1..Len(q), k < p
      PROVE  InOrder(q[k], in)
  <2>1. ~ StopsAt(q[k], in)
    BY <1>1, <1>2
  <2>2. q[k] \in S
    BY <1>0
  <2> QED
    BY <2>1, <2>2 DEF AreInputs, StopsAt, InOrder, FileTypes
<1>3. ASSUME NEW k \in 1..Len(q), k >= p
      PROVE  InOrder(in, q[k]) /\ ~ SameFile(q[k], in)
  <2>1. p \in 1..Len(q)
    BY <1>0, <1>1, <1>3
  <2>2. StopsAt(q[p], in)
    BY <1>1, <2>1
  <2>3. q[k] \in S /\ q[p] \in S
    BY <1>0, <2>1
  <2>4. p = k \/ InOrder(q[p], q[k])
    BY <1>0, <1>3, <2>1 DEF SortedQueue
  <2>5. /\ q[k].filetype \in FileTypes /\ q[k].epoch_filetime \in Nat
        /\ q[p].filetype \in FileTypes /\ q[p].epoch_filetime \in Nat
        /\ in.filetype \in FileTypes /\ in.epoch_filetime \in Nat
    BY <2>3 DEF AreInputs
  <2> QED
    BY <2>2, <2>4, <2>5 DEF StopsAt, InOrder, SameFile, FileTypes
<1> QED
  BY <1>1, <1>2, <1>3 DEF p

\* A push keeps the queue sorted and free of duplicates, loses no file, and
\* leaves one in it that is the same as the new one.
LEMMA PushKeepsQueue ==
  ASSUME NEW S, AreInputs(S), NEW q \in Seq(S), SortedQueue(q), NoTwins(q), NEW in \in S
  PROVE  /\ PushSortedInput(q, in) \in Seq(S)
         /\ SortedQueue(PushSortedInput(q, in))
         /\ NoTwins(PushSortedInput(q, in))
         /\ Len(PushSortedInput(q, in)) >= Len(q)
         /\ \A k \in 1..Len(PushSortedInput(q, in)) :
              \/ PushSortedInput(q, in)[k] = in
              \/ \E l \in 1..Len(q) : PushSortedInput(q, in)[k] = q[l]
         /\ \A l \in 1..Len(q) : \E k \in 1..Len(PushSortedInput(q, in)) :
              PushSortedInput(q, in)[k] = q[l]
         /\ \E k \in 1..Len(PushSortedInput(q, in)) : SameFile(PushSortedInput(q, in)[k], in)
<1> DEFINE p == InsertPos(q, in)
           r == InsertAt(q, p, in)
<1>0. Len(q) \in Nat
  BY LenProperties
<1>1. CASE IsDuplicate(q, in)
  <2>1. InsertPos(q, in) \in 1..(Len(q) + 1)
    BY InsertPosSplits
  <2>2. PushSortedInput(q, in) = q
    BY <1>1 DEF PushSortedInput
  <2>3. \E k \in 1..Len(q) : SameFile(q[k], in)
    BY <1>0, <1>1, <2>1 DEF IsDuplicate
  <2> QED
    BY <1>0, <2>2, <2>3
<1>2. CASE ~ IsDuplicate(q, in)
  <2>1. /\ p \in 1..(Len(q) + 1)
        /\ \A k \in 1..Len(q) : k < p => InOrder(q[k], in)
        /\ \A k \in 1..Len(q) : k >= p => InOrder(in, q[k]) /\ ~ SameFile(q[k], in)
    BY InsertPosSplits
  <2>2. \A k \in 1..(p - 1) : ~ SameFile(q[k], in)
    BY <1>2 DEF IsDuplicate
  <2> HIDE DEF p
  <2>3. /\ r \in Seq(S)
        /\ Len(r) = Len(q) + 1
        /\ \A k \in 1..(Len(q) + 1) :
             r[k] = IF k < p THEN q[k] ELSE IF k = p THEN in ELSE q[k - 1]
    BY <2>1, InsertAtProperties
  <2>4. PushSortedInput(q, in) = r
    BY <1>2 DEF PushSortedInput, p
  <2> HIDE DEF r
  <2>5. ASSUME NEW i \in 1..Len(r), NEW j \in 1..Len(r), i < j
        PROVE  InOrder(r[i], r[j]) /\ ~ SameFile(r[i], r[j])
    <3>0. i \in Nat /\ j \in Nat /\ p \in Nat
      BY <1>0, <2>1, <2>3
    <3>1. CASE j < p
      <4>1. r[i] = q[i] /\ r[j] = q[j] /\ i \in 1..Len(q) /\ j \in 1..Len(q)
        BY <3>0, <3>1, <2>1, <2>3, <2>5, <1>0
      <4> QED
        BY <4>1, <2>5, <3>0 DEF SortedQueue, NoTwins
    <3>2. CASE j = p
      <4>1. r[i] = q[i] /\ r[j] = in /\ i \in 1..Len(q) /\ i < p /\ i \in 1..(p - 1)
        BY <3>0, <3>2, <2>1, <2>3, <2>5, <1>0
      <4> QED
        BY <4>1, <2>1, <2>2
    <3>3. CASE j > p /\ i = p
      <4>1. r[i] = in
        BY <3>0, <3>3, <2>1, <2>3, <1>0
      <4>2. r[j] = q[j - 1] /\ j - 1 \in 1..Len(q) /\ j - 1 >= p
        BY <3>0, <3>3, <2>3, <1>0
      <4> QED
        BY <4>1, <4>2, <2>1 DEF SameFile
    <3>4. CASE j > p /\ i < p
      <4>1. /\ r[i] = q[i] /\ r[j] = q[j - 1]
            /\ i \in 1..Len(q) /\ j - 1 \in 1..Len(q) /\ i < j - 1
        BY <3>0, <3>4, <2>1, <2>3, <1>0
      <4> QED
        BY <4>1, <3>0 DEF SortedQueue, NoTwins
    <3>5. CASE j > p /\ i > p
      <4>1. /\ r[i] = q[i - 1] /\ i - 1 \in 1..Len(q)
            /\ r[j] = q[j - 1] /\ j - 1 \in 1..Len(q)
        BY <3>0, <3>5, <2>1, <2>3, <1>0
      <4>2. i - 1 < j - 1
        BY <3>0, <2>5
      <4> QED
        BY <4>1, <4>2, <3>0 DEF SortedQueue, NoTwins
    <3> QED
      BY <3>0, <3>1, <3>2, <3>3, <3>4, <3>5
  <2>6. SortedQueue(r)
    BY <2>5 DEF SortedQueue
  <2>7. NoTwins(r)
    <3> SUFFICES ASSUME NEW i \in 1..Len(r), NEW j \in 1..Len(r), i # j
                 PROVE  ~ SameFile(r[i], r[j])
      BY DEF NoTwins
    <3>1. i < j \/ j < i
      BY <1>0, <2>3
    <3> QED
      BY <3>1, <2>5 DEF SameFile
  <2>8. \A k \in 1..Len(r) : r[k] = in \/ \E l \in 1..Len(q) : r[k] = q[l]
    <3> TAKE k \in 1..Len(r)
    <3>1. CASE k < p
      BY <1>0, <2>1, <2>3, <3>1
    <3>2. CASE k = p
      BY <1>0, <2>1, <2>3, <3>2
    <3>3. CASE k > p
      <4>1. k - 1 \in 1..Len(q) /\ r[k] = q[k - 1]
        BY <1>0, <2>1, <2>3, <3>3
      <4> QED
        BY <4>1
    <3> QED
      BY <1>0, <2>1, <2>3, <3>1, <3>2, <3>3
  <2>9. \A l \in 1..Len(q) : \E k \in 1..Len(r) : r[k] = q[l]
    <3> TAKE l \in 1..Len(q)
    <3>1. CASE l < p
      BY <1>0, <2>1, <2>3, <3>1
    <3>2. CASE l >= p
      <4>1. l + 1 \in 1..Len(r) /\ r[l + 1] = q[l]
        BY <1>0, <2>1, <2>3, <3>2
      <4> QED
        BY <4>1
    <3> QED
      BY <1>0, <2>1, <3>1, <3>2
  <2>10. p \in 1..Len(r) /\ r[p] = in
    BY <1>0, <2>1, <2>3
  <2>11. \E k \in 1..Len(r) : SameFile(r[k], in)
    BY <2>10 DEF SameFile
  <2>12. Len(r) >= Len(q)
    BY <1>0, <2>3
  <2> QED
    BY <2>3, <2>4, <2>6, <2>7, <2>8, <2>9, <2>11, <2>12
<1> QED
  BY <1>1, <1>2

-----------------------------------------------------------------------------

\* Where the batch is cut: within the queue, and, unless everything or the
\* cap was taken, in front of an input that starts a new batch.
LEMMA LastToProcessCuts ==
  ASSUME NEW S, NEW q \in Seq(S)
  PROVE  /\ LastToProcess(q) \in 0..Len(q)
         /\ LastToProcess(q) <= max_readers
         /\ LastToProcess(q) < Len(q) /\ LastToProcess(q) < max_readers =>
              StartsNewBatch(q, LastToProcess(q) + 1)
<1> DEFINE T == {i \in 1..Len(q) : StartsNewBatch(q, i)}
           U == T \cup {Len(q) + 1, max_readers + 1}
<1>0. Len(q) \in Nat /\ max_readers \in Nat \ {0}
  BY LenProperties, MaxReadersAssumption
<1>1. U \subseteq Nat \ {0} /\ U # {} /\ Len(q) + 1 \in U /\ max_readers + 1 \in U
  BY <1>0
<1>2. LastToProcess(q) = Min(U) - 1
  BY DEF LastToProcess
<1>3. \A x \in U : x \in T \/ x = Len(q) + 1 \/ x = max_readers + 1
  OBVIOUS
<1>4. \A x \in T : StartsNewBatch(q, x)
  OBVIOUS
<1> HIDE DEF U, T
<1>5. Min(U) \in U /\ \A y \in U : Min(U) <= y
  BY <1>1, MinNat
<1>6. Min(U) \in Nat \ {0} /\ Min(U) <= Len(q) + 1 /\ Min(U) <= max_readers + 1
  BY <1>1, <1>5
<1>7. Min(U) < Len(q) + 1 /\ Min(U) < max_readers + 1 => Min(U) \in T
  BY <1>0, <1>3, <1>5, <1>6
<1>8. LastToProcess(q) + 1 = Min(U)
  BY <1>2, <1>6
<1> QED
  BY <1>0, <1>2, <1>4, <1>6, <1>7, <1>8

\* Taking a batch leaves a queue that is a suffix of the old one.
LEMMA CutKeepsQueue ==
  ASSUME NEW S, NEW q \in Seq(S), SortedQueue(q), NoTwins(q)
  PROVE  /\ ToProcess(q) \in Seq(S)
         /\ Len(ToProcess(q)) = LastToProcess(q)
         /\ \A k \in 1..LastToProcess(q) : ToProcess(q)[k] = q[k]
         /\ Remaining(q) \in Seq(S)
         /\ Len(Remaining(q)) = Len(q) - LastToProcess(q)
         /\ \A k \in 1..(Len(q) - LastToProcess(q)) :
              Remaining(q)[k] = q[LastToProcess(q) + k]
         /\ SortedQueue(Remaining(q))
         /\ NoTwins(Remaining(q))
<1> DEFINE n == LastToProcess(q)
<1>0. Len(q) \in Nat /\ n \in 0..Len(q)
  BY LenProperties, LastToProcessCuts
<1> HIDE DEF n
<1>1. /\ ToProcess(q) \in Seq(S)
      /\ Len(ToProcess(q)) = n
      /\ \A k \in 1..n : ToProcess(q)[k] = q[k]
      /\ Remaining(q) \in Seq(S)
      /\ Len(Remaining(q)) = Len(q) - n
      /\ \A k \in 1..(Len(q) - n) : Remaining(q)[k] = q[n + k]
  BY <1>0, CutProperties DEF ToProcess, Remaining, n
<1>2. ASSUME NEW i \in 1..(Len(q) - n), NEW j \in 1..(Len(q) - n), i < j
      PROVE  InOrder(q[n + i], q[n + j])
  BY <1>0, <1>2 DEF SortedQueue
<1>3. ASSUME NEW i \in 1..(Len(q) - n), NEW j \in 1..(Len(q) - n), i # j
      PROVE  ~ SameFile(q[n + i], q[n + j])
  BY <1>0, <1>3 DEF NoTwins
<1>4. SortedQueue(Remaining(q))
  BY <1>1, <1>2 DEF SortedQueue
<1>5. NoTwins(Remaining(q))
  BY <1>1, <1>3 DEF NoTwins
<1> QED
  BY <1>1, <1>4, <1>5 DEF n

=============================================================================
