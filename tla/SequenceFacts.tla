--------------------------- MODULE SequenceFacts ---------------------------
(***************************************************************************)
(* Facts about sequences that the proofs about queues and logs share:      *)
(* where the elements are after an insertion, a removal or an append, and  *)
(* how often.                                                              *)
(***************************************************************************)
EXTENDS Integers, SequencesExt, SequenceTheorems,
        FiniteSetTheorems, WellFoundedInduction, TLAPS

\* Every nonempty set of naturals has a least element.
LEMMA LeastNatural ==
  ASSUME NEW T \in SUBSET Nat, T # {}
  PROVE  \E x \in T : \A y \in T : x <= y
<1> DEFINE R == OpToRel(<, Nat)
<1>1. IsWellFoundedOn(R, Nat)
  BY NatLessThanWellFounded
<1>2. \A x, y \in Nat : x < y => <<x, y>> \in R
  BY DEF OpToRel
<1> HIDE DEF R
<1>3. PICK x \in T : \A y \in T : <<y, x>> \notin R
  BY <1>1, WFMin
<1>4. ASSUME NEW y \in T
      PROVE  x <= y
  <2>1. x \in Nat /\ y \in Nat
    OBVIOUS
  <2>2. ~ (y < x)
    BY <1>2, <1>3, <2>1
  <2> QED
    BY <2>1, <2>2
<1> QED
  BY <1>4

\* What holds of 0 and goes over from each number to the next one holds up to n.
LEMMA InductionUpTo ==
  ASSUME NEW n \in Nat, NEW P, 0 \in P,
         \A k \in 0 .. n - 1 : k \in P => k + 1 \in P
  PROVE  \A k \in 0 .. n : k \in P
<1> DEFINE T == {k \in 0 .. n : k \notin P}
<1>1. T \in SUBSET Nat
  OBVIOUS
<1>2. SUFFICES ASSUME T # {}
               PROVE  FALSE
  OBVIOUS
<1> HIDE DEF T
<1>3. PICK k \in T : \A y \in T : k <= y
  BY <1>1, <1>2, LeastNatural
<1>4. k \in 0 .. n /\ k \notin P /\ k # 0
  BY <1>3 DEF T
<1>5. k - 1 \in 0 .. n - 1 /\ (k - 1) + 1 = k /\ k - 1 \in 0 .. n
  BY <1>4
<1>6. k - 1 \notin P
  BY <1>4, <1>5
<1>7. k - 1 \in T
  BY <1>5, <1>6 DEF T
<1>8. k <= k - 1
  BY <1>3, <1>7
<1> QED
  BY <1>4, <1>8

\* A function on 0 .. n can be defined by what its first value is and what each
\* further one makes of the one before it, at each place in its own way or not.
IteratesEach(f, n, start, steps) ==
  f[0] = start /\ \A k \in 1 .. n : f[k] = steps[k][f[k - 1]]
Iterates(f, n, start, step) ==
  f[0] = start /\ \A k \in 1 .. n : f[k] = step[f[k - 1]]

LEMMA EachRecursionUpTo ==
  ASSUME NEW n \in Nat, NEW X, NEW start \in X, NEW steps \in [1 .. n -> [X -> X]]
  PROVE  \E f \in [0 .. n -> X] : IteratesEach(f, n, start, steps)
<1> DEFINE Holds(f, m) == IteratesEach(f, m, start, steps)
           P == {m \in 0 .. n : \E f \in [0 .. m -> X] : Holds(f, m)}
<1>1. 0 \in P
  <2> DEFINE f == [k \in 0 .. 0 |-> start]
  <2>1. f \in [0 .. 0 -> X] /\ f[0] = start
    OBVIOUS
  <2> HIDE DEF f
  <2> QED
    BY <2>1 DEF IteratesEach
<1>2. ASSUME NEW m \in 0 .. n - 1, m \in P
      PROVE  m + 1 \in P
  <2>1. PICK f \in [0 .. m -> X] : Holds(f, m)
    BY <1>2
  <2> DEFINE last == steps[m + 1][f[m]]
             g == [k \in 0 .. m + 1 |-> IF k = m + 1 THEN last ELSE f[k]]
  <2>2. last \in X
    <3>1. f[m] \in X /\ m + 1 \in 1 .. n
      BY <2>1
    <3> QED
      BY <3>1
  <2> HIDE DEF last
  <2>3. g \in [0 .. m + 1 -> X]
    <3>1. \A k \in 0 .. m + 1 : k # m + 1 => f[k] \in X
      BY <2>1
    <3> QED
      BY <2>2, <3>1
  <2>4. /\ g[m + 1] = last
        /\ \A k \in 0 .. m : g[k] = f[k]
    OBVIOUS
  <2> HIDE DEF g
  <2>5. ASSUME NEW k \in 1 .. m + 1
        PROVE  g[k] = steps[k][g[k - 1]]
    <3>1. CASE k = m + 1
      BY <2>4, <3>1 DEF last
    <3>2. CASE k # m + 1
      <4>1. k \in 1 .. m /\ k - 1 \in 0 .. m /\ k \in 0 .. m
        BY <3>2
      <4> QED
        BY <2>1, <2>4, <4>1 DEF IteratesEach
    <3> QED
      BY <3>1, <3>2
  <2>6. g[0] = start
    BY <2>1, <2>4 DEF IteratesEach
  <2>7. m + 1 \in 0 .. n
    OBVIOUS
  <2> QED
    BY <2>3, <2>5, <2>6, <2>7 DEF IteratesEach
<1> HIDE DEF P
<1>3. n \in P
  <2>1. \A m \in 0 .. n - 1 : m \in P => m + 1 \in P
    BY <1>2
  <2>2. \A m \in 0 .. n : m \in P
    BY <1>1, <2>1, InductionUpTo
  <2> QED
    BY <2>2
<1>4. PICK f \in [0 .. n -> X] : Holds(f, n)
  BY <1>3 DEF P
<1> QED
  BY <1>4

LEMMA RecursionUpTo ==
  ASSUME NEW n \in Nat, NEW X, NEW start \in X, NEW step \in [X -> X]
  PROVE  \E f \in [0 .. n -> X] : Iterates(f, n, start, step)
<1> DEFINE steps == [k \in 1 .. n |-> step]
<1>1. steps \in [1 .. n -> [X -> X]] /\ \A k \in 1 .. n : steps[k] = step
  OBVIOUS
<1> HIDE DEF steps
<1>2. PICK f \in [0 .. n -> X] : IteratesEach(f, n, start, steps)
  BY <1>1, EachRecursionUpTo
<1>3. Iterates(f, n, start, step)
  BY <1>1, <1>2 DEF Iterates, IteratesEach
<1> QED
  BY <1>3

\* A set can be listed in any order that is total on it.
IsOrder(R, S) ==
  /\ \A x, y \in S : x # y => <<x, y>> \in R \/ <<y, x>> \in R
  /\ \A x, y, z \in S : <<x, y>> \in R /\ <<y, z>> \in R => <<x, z>> \in R
InOrder(q, R) == \A i, j \in DOMAIN q : i < j => <<q[i], q[j]>> \in R

LEMMA InsertKeepsOrder ==
  ASSUME NEW S, NEW e \in S, NEW R, IsOrder(R, S),
         NEW q \in Seq(S), InOrder(q, R), e \notin ToSet(q)
  PROVE  \E p \in Seq(S) : ToSet(p) = ToSet(q) \cup {e} /\ InOrder(p, R)
<1> DEFINE n == Len(q)
           T == {i \in 1 .. n + 1 : i = n + 1 \/ <<e, q[i]>> \in R}
<1>1. n \in Nat /\ DOMAIN q = 1 .. n /\ \A i \in 1 .. n : q[i] \in S /\ q[i] # e
  <2>1. n \in Nat /\ DOMAIN q = 1 .. n /\ \A i \in 1 .. n : q[i] \in S
    OBVIOUS
  <2> QED
    BY <2>1 DEF ToSet
<1> HIDE DEF n
<1>2. PICK i \in T : \A j \in T : i <= j
  <2>1. n + 1 \in T /\ T \in SUBSET Nat
    BY <1>1
  <2> HIDE DEF T
  <2> QED
    BY <2>1, LeastNatural
<1>3. i \in 1 .. n + 1 /\ (i # n + 1 => <<e, q[i]>> \in R)
  BY <1>1, <1>2
<1>4. ASSUME NEW j \in 1 .. n, j < i
      PROVE  <<q[j], e>> \in R
  <2>1. j \notin T
    BY <1>1, <1>2, <1>4
  <2>2. <<e, q[j]>> \notin R
    BY <1>1, <2>1
  <2> QED
    BY <1>1, <2>2 DEF IsOrder
<1>5. ASSUME NEW j \in 1 .. n, i <= j
      PROVE  <<e, q[j]>> \in R
  <2>1. i \in 1 .. n /\ <<e, q[i]>> \in R
    BY <1>1, <1>3, <1>5
  <2>2. CASE i = j
    BY <2>1, <2>2
  <2>3. CASE i # j
    <3>1. i < j
      BY <1>1, <1>3, <1>5, <2>3
    <3>2. <<q[i], q[j]>> \in R
      BY <1>1, <2>1, <3>1 DEF InOrder
    <3> QED
      BY <1>1, <2>1, <3>2 DEF IsOrder
  <2> QED
    BY <2>2, <2>3
<1> HIDE DEF T
<1> DEFINE p == [j \in 1 .. n + 1 |-> IF j < i THEN q[j]
                                     ELSE IF j = i THEN e ELSE q[j - 1]]
<1>6. /\ \A j \in 1 .. n + 1 : j < i => p[j] = q[j] /\ j \in 1 .. n
      /\ p[i] = e
      /\ \A j \in 1 .. n + 1 : i < j => p[j] = q[j - 1] /\ j - 1 \in 1 .. n
      /\ DOMAIN p = 1 .. n + 1
  BY <1>1, <1>3
<1>7. p \in Seq(S)
  <2>1. \A j \in 1 .. n + 1 : p[j] \in S
    BY <1>1, <1>3, <1>6
  <2> HIDE DEF p
  <2>2. p \in [1 .. n + 1 -> S]
    BY <1>6, <2>1 DEF p
  <2> QED
    BY <1>1, <2>2
<1> HIDE DEF p
<1>8. ToSet(p) = ToSet(q) \cup {e}
  <2>1. ASSUME NEW x \in ToSet(p)
        PROVE  x \in ToSet(q) \cup {e}
    <3>1. PICK j \in 1 .. n + 1 : x = p[j]
      BY <1>6 DEF ToSet
    <3>2. j < i \/ j = i \/ i < j
      BY <1>1, <1>3
    <3> QED
      BY <1>1, <1>6, <3>1, <3>2 DEF ToSet
  <2>2. ASSUME NEW j \in 1 .. n
        PROVE  q[j] \in ToSet(p)
    <3>1. CASE j < i
      <4>1. j \in 1 .. n + 1 /\ p[j] = q[j]
        BY <1>1, <1>6, <3>1
      <4> QED
        BY <1>6, <4>1 DEF ToSet
    <3>2. CASE ~ (j < i)
      <4>1. j + 1 \in 1 .. n + 1 /\ i < j + 1 /\ (j + 1) - 1 = j
        BY <1>1, <1>3, <3>2
      <4>2. p[j + 1] = q[j]
        BY <1>6, <4>1
      <4> QED
        BY <1>6, <4>1, <4>2 DEF ToSet
    <3> QED
      BY <3>1, <3>2
  <2>3. e \in ToSet(p)
    BY <1>3, <1>6 DEF ToSet
  <2>4. ToSet(q) \subseteq ToSet(p)
    BY <1>1, <2>2 DEF ToSet
  <2> QED
    BY <2>1, <2>3, <2>4
<1>9. InOrder(p, R)
  <2> SUFFICES ASSUME NEW j \in 1 .. n + 1, NEW k \in 1 .. n + 1, j < k
               PROVE  <<p[j], p[k]>> \in R
    BY <1>6 DEF InOrder
  <2>1. j \in Int /\ k \in Int /\ i \in Int
    BY <1>1, <1>3
  <2>2. CASE k < i
    <3>1. j < i
      BY <2>1, <2>2
    <3>2. p[j] = q[j] /\ p[k] = q[k] /\ j \in 1 .. n /\ k \in 1 .. n
      BY <1>6, <2>2, <3>1
    <3> QED
      BY <1>1, <3>2 DEF InOrder
  <2>3. CASE k = i
    BY <1>4, <1>6, <2>3
  <2>4. CASE i < k
    <3>1. p[k] = q[k - 1] /\ k - 1 \in 1 .. n
      BY <1>6, <2>4
    <3>2. CASE j < i
      <4>1. p[j] = q[j] /\ j \in 1 .. n /\ j < k - 1
        BY <1>6, <2>1, <2>4, <3>2
      <4> QED
        BY <1>1, <3>1, <4>1 DEF InOrder
    <3>3. CASE j = i
      <4>1. i <= k - 1
        BY <2>1, <2>4
      <4> QED
        BY <1>5, <1>6, <3>1, <3>3, <4>1
    <3>4. CASE i < j
      <4>1. p[j] = q[j - 1] /\ j - 1 \in 1 .. n /\ j - 1 < k - 1
        BY <1>6, <2>1, <3>4
      <4> QED
        BY <1>1, <3>1, <4>1 DEF InOrder
    <3> QED
      BY <2>1, <3>2, <3>3, <3>4
  <2> QED
    BY <2>1, <2>2, <2>3, <2>4
<1> QED
  BY <1>7, <1>8, <1>9

\* What inserting at a position and removing at one do to a sequence.
LEMMA InsertAtIndexes ==
  ASSUME NEW S, NEW q \in Seq(S), NEW i \in 1 .. Len(q) + 1, NEW e \in S
  PROVE  /\ InsertAt(q, i, e) \in Seq(S)
         /\ Len(InsertAt(q, i, e)) = Len(q) + 1
         /\ \A j \in 1 .. Len(q) + 1 :
              InsertAt(q, i, e)[j] =
                IF j < i THEN q[j] ELSE IF j = i THEN e ELSE q[j - 1]
<1> DEFINE a == SubSeq(q, 1, i - 1)
           b == SubSeq(q, i, Len(q))
<1>1. /\ a \in Seq(S)
      /\ Len(a) = i - 1
      /\ \A j \in 1 .. i - 1 : a[j] = q[j]
  BY SubSeqProperties
<1>2. /\ b \in Seq(S)
      /\ Len(b) = Len(q) - i + 1
      /\ \A j \in 1 .. Len(q) - i + 1 : b[j] = q[i + j - 1]
  BY SubSeqProperties
<1>3. /\ <<e>> \in Seq(S)
      /\ Len(<<e>>) = 1
      /\ <<e>>[1] = e
  OBVIOUS
<1>4. /\ a \o <<e>> \in Seq(S)
      /\ Len(a \o <<e>>) = i
      /\ \A j \in 1 .. i : (a \o <<e>>)[j] = IF j < i THEN q[j] ELSE e
  <2> HIDE DEF a
  <2> QED
    BY <1>1, <1>3, ConcatProperties
<1>5. /\ (a \o <<e>>) \o b \in Seq(S)
      /\ Len((a \o <<e>>) \o b) = Len(q) + 1
      /\ \A j \in 1 .. Len(q) + 1 :
           ((a \o <<e>>) \o b)[j] =
             IF j < i THEN q[j] ELSE IF j = i THEN e ELSE q[j - 1]
  <2> DEFINE c == a \o <<e>>
  <2>1. /\ c \o b \in Seq(S)
        /\ Len(c \o b) = Len(c) + Len(b)
        /\ \A j \in 1 .. Len(c) + Len(b) :
             (c \o b)[j] = IF j <= Len(c) THEN c[j] ELSE b[j - Len(c)]
    <3>1. c \in Seq(S)
      BY <1>4
    <3> HIDE DEF a, b, c
    <3> QED
      BY <3>1, <1>2, ConcatProperties
  <2>2. /\ Len(c) = i
        /\ Len(b) = Len(q) - i + 1
        /\ Len(q) \in Nat
        /\ \A j \in 1 .. i : c[j] = IF j < i THEN q[j] ELSE e
    BY <1>2, <1>4
  <2> HIDE DEF a, b, c
  <2>3. ASSUME NEW j \in 1 .. Len(q) + 1
        PROVE  (c \o b)[j] =
                 IF j < i THEN q[j] ELSE IF j = i THEN e ELSE q[j - 1]
    <3>1. CASE j <= i
      <4>1. (c \o b)[j] = c[j]
        BY <2>1, <2>2, <3>1
      <4> QED
        BY <4>1, <2>2, <3>1
    <3>2. CASE j > i
      <4>1. (c \o b)[j] = b[j - i]
        BY <2>1, <2>2, <3>2
      <4>2. j - i \in 1 .. Len(q) - i + 1 /\ i + (j - i) - 1 = j - 1
        BY <2>2, <3>2
      <4>3. b[j - i] = q[i + (j - i) - 1]
        BY <1>2, <4>2
      <4> QED
        BY <4>1, <4>2, <4>3, <3>2
    <3> QED
      BY <2>2, <3>1, <3>2
  <2> QED
    BY <2>1, <2>2, <2>3 DEF c
<1> QED
  BY <1>5 DEF InsertAt

LEMMA RemoveAtIndexes ==
  ASSUME NEW S, NEW q \in Seq(S), NEW i \in 1 .. Len(q)
  PROVE  /\ RemoveAt(q, i) \in Seq(S)
         /\ Len(RemoveAt(q, i)) = Len(q) - 1
         /\ \A j \in 1 .. Len(q) - 1 :
              RemoveAt(q, i)[j] = IF j < i THEN q[j] ELSE q[j + 1]
<1> DEFINE a == SubSeq(q, 1, i - 1)
           b == SubSeq(q, i + 1, Len(q))
<1>1. /\ a \in Seq(S)
      /\ Len(a) = i - 1
      /\ \A j \in 1 .. i - 1 : a[j] = q[j]
  BY SubSeqProperties
<1>2. /\ b \in Seq(S)
      /\ Len(b) = Len(q) - i
      /\ \A j \in 1 .. Len(q) - i : b[j] = q[i + j]
  BY SubSeqProperties
<1> HIDE DEF a, b
<1>3. /\ a \o b \in Seq(S)
      /\ Len(a \o b) = Len(a) + Len(b)
      /\ \A j \in 1 .. Len(a) + Len(b) :
           (a \o b)[j] = IF j <= Len(a) THEN a[j] ELSE b[j - Len(a)]
  BY <1>1, <1>2, ConcatProperties
<1>4. /\ a \o b \in Seq(S)
      /\ Len(a \o b) = Len(q) - 1
      /\ \A j \in 1 .. Len(q) - 1 :
           (a \o b)[j] = IF j < i THEN q[j] ELSE q[j + 1]
  BY <1>1, <1>2, <1>3
<1>5. RemoveAt(q, i) = a \o b
  BY DEF RemoveAt, a, b
<1> QED
  BY <1>4, <1>5

\* Appending an element to a sequence of one makes a sequence of two.
LEMMA AppendToOne ==
  ASSUME NEW S, NEW a \in S, NEW b \in S
  PROVE  Append(<<a>>, b) = <<a, b>>
<1> DEFINE l == Append(<<a>>, b)
           r == <<a, b>>
<1>1. l \in Seq(S) /\ r \in Seq(S) /\ Len(l) = 2 /\ Len(r) = 2
  OBVIOUS
<1>2. l[1] = a /\ l[2] = b /\ r[1] = a /\ r[2] = b
  OBVIOUS
<1> HIDE DEF l, r
<1>3. \A i \in 1 .. Len(l) : i = 1 \/ i = 2
  BY <1>1
<1>4. \A i \in 1 .. Len(l) : l[i] = r[i]
  BY <1>2, <1>3
<1>5. l = r
  BY <1>1, <1>4, SeqEqual
<1> QED
  BY <1>5 DEF l, r

\* An append leaves the elements where they are.
LEMMA AppendIndexes ==
  ASSUME NEW S, NEW q \in Seq(S), NEW e \in S
  PROVE  /\ Append(q, e) \in Seq(S)
         /\ Len(Append(q, e)) = Len(q) + 1
         /\ Append(q, e)[Len(q) + 1] = e
         /\ \A j \in 1 .. Len(q) : Append(q, e)[j] = q[j]
  BY AppendProperties

\* Removing from a sequence without repetitions removes one element, once.
LEMMA RemoveAtElements ==
  ASSUME NEW S, NEW q \in Seq(S), NEW i \in 1 .. Len(q), IsInjective(q)
  PROVE  /\ IsInjective(RemoveAt(q, i))
         /\ ToSet(RemoveAt(q, i)) = ToSet(q) \ {q[i]}
<1> DEFINE r == RemoveAt(q, i)
           old(j) == IF j < i THEN j ELSE j + 1
<1>1. /\ r \in Seq(S)
      /\ Len(r) = Len(q) - 1
      /\ \A j \in 1 .. Len(q) - 1 : r[j] = IF j < i THEN q[j] ELSE q[j + 1]
  BY RemoveAtIndexes
<1> HIDE DEF r
<1>2. /\ Len(q) \in Nat /\ DOMAIN q = 1 .. Len(q)
      /\ Len(r) \in Nat /\ DOMAIN r = 1 .. Len(r)
  BY <1>1
<1>3. \A j \in DOMAIN r :
        r[j] = q[old(j)] /\ old(j) \in DOMAIN q /\ old(j) # i
  BY <1>1, <1>2
<1>4. \A j, k \in DOMAIN r : old(j) = old(k) => j = k
  BY <1>1, <1>2
<1>5. \A m \in DOMAIN q : m # i => \E j \in DOMAIN r : old(j) = m
  <2> SUFFICES ASSUME NEW m \in DOMAIN q, m # i
               PROVE  \E j \in DOMAIN r : old(j) = m
    OBVIOUS
  <2>1. CASE m < i
    <3>1. m \in DOMAIN r /\ old(m) = m
      BY <1>1, <1>2, <2>1
    <3> QED
      BY <3>1
  <2>2. CASE m > i
    <3>1. m - 1 \in DOMAIN r /\ old(m - 1) = m
      BY <1>1, <1>2, <2>2
    <3> QED
      BY <3>1
  <2> QED
    BY <1>2, <2>1, <2>2
<1>6. i \in DOMAIN q
  BY <1>2
<1> HIDE DEF old
<1>7. IsInjective(r)
  BY <1>3, <1>4 DEF IsInjective
<1>8. ToSet(r) = ToSet(q) \ {q[i]}
  <2>1. ASSUME NEW j \in DOMAIN r
        PROVE  r[j] \in ToSet(q) /\ r[j] # q[i]
    BY <1>3, <1>6 DEF ToSet, IsInjective
  <2>2. ASSUME NEW k \in DOMAIN q, q[k] # q[i]
        PROVE  q[k] \in ToSet(r)
    <3>1. PICK j \in DOMAIN r : old(j) = k
      BY <1>5, <2>2
    <3> QED
      BY <1>3, <3>1 DEF ToSet
  <2> QED
    BY <2>1, <2>2 DEF ToSet
<1> QED
  BY <1>7, <1>8 DEF r

\* The same of an append of a new element.
LEMMA AppendElements ==
  ASSUME NEW S, NEW q \in Seq(S), NEW e \in S
  PROVE  /\ ToSet(Append(q, e)) = ToSet(q) \cup {e}
         /\ IsInjective(q) /\ e \notin ToSet(q) => IsInjective(Append(q, e))
<1> DEFINE r == Append(q, e)
<1>1. /\ r \in Seq(S)
      /\ Len(r) = Len(q) + 1
      /\ r[Len(q) + 1] = e
      /\ \A j \in 1 .. Len(q) : r[j] = q[j]
  BY AppendIndexes
<1> HIDE DEF r
<1>2. /\ Len(q) \in Nat /\ DOMAIN q = 1 .. Len(q)
      /\ DOMAIN r = 1 .. Len(q) + 1
  BY <1>1
<1>3. \A j \in DOMAIN r :
        \/ j \in DOMAIN q /\ r[j] = q[j]
        \/ j = Len(q) + 1 /\ r[j] = e
  <2> SUFFICES ASSUME NEW j \in DOMAIN r
               PROVE  \/ j \in DOMAIN q /\ r[j] = q[j]
                      \/ j = Len(q) + 1 /\ r[j] = e
    OBVIOUS
  <2>0. j \in 1 .. Len(q) + 1
    BY <1>2
  <2>1. CASE j = Len(q) + 1
    BY <1>1, <2>1
  <2>2. CASE j # Len(q) + 1
    <3>1. j \in 1 .. Len(q)
      BY <1>2, <2>0, <2>2
    <3> QED
      BY <1>1, <1>2, <3>1
  <2> QED
    BY <2>1, <2>2
<1>4. \A j \in DOMAIN q : j \in DOMAIN r /\ r[j] = q[j]
  BY <1>1, <1>2
<1>5. Len(q) + 1 \in DOMAIN r /\ r[Len(q) + 1] = e
  BY <1>1, <1>2
<1>6. ToSet(r) = ToSet(q) \cup {e}
  BY <1>3, <1>4, <1>5 DEF ToSet
<1>7. ASSUME IsInjective(q), e \notin ToSet(q)
      PROVE  IsInjective(r)
  <2>1. \A j \in DOMAIN q : q[j] # e
    BY <1>7 DEF ToSet
  <2>2. \A j, k \in DOMAIN q : q[j] = q[k] => j = k
    BY <1>7 DEF IsInjective
  <2> SUFFICES ASSUME NEW j \in DOMAIN r, NEW k \in DOMAIN r, r[j] = r[k]
               PROVE  j = k
    BY DEF IsInjective
  <2> QED
    BY <1>3, <2>1, <2>2
<1> QED
  BY <1>6, <1>7 DEF r

\* What is in the tail of a sequence without repetitions, and in the
\* concatenation of two that have no element in common.
LEMMA TailElements ==
  ASSUME NEW S, NEW q \in Seq(S), q # <<>>, IsInjective(q)
  PROVE  /\ Tail(q) \in Seq(S)
         /\ IsInjective(Tail(q))
         /\ ToSet(Tail(q)) = ToSet(q) \ {Head(q)}
         /\ Head(q) \in ToSet(q)
<1> DEFINE t == Tail(q)
<1>1. /\ t \in Seq(S) /\ Len(q) \in Nat \ {0} /\ Len(t) = Len(q) - 1
      /\ Head(q) = q[1]
      /\ \A i \in 1 .. Len(t) : t[i] = q[i + 1]
  BY HeadTailProperties, EmptySeq
<1>2. DOMAIN q = 1 .. Len(q) /\ DOMAIN t = 1 .. Len(q) - 1
  BY <1>1
<1> HIDE DEF t
<1>3. \A j \in DOMAIN t : j + 1 \in DOMAIN q /\ j + 1 # 1 /\ t[j] = q[j + 1]
  BY <1>1, <1>2
<1>4. \A j \in DOMAIN q : j # 1 => j - 1 \in DOMAIN t /\ t[j - 1] = q[j]
  BY <1>1, <1>2
<1>5. 1 \in DOMAIN q
  BY <1>1, <1>2
<1>6. IsInjective(t)
  <2> SUFFICES ASSUME NEW i \in DOMAIN t, NEW j \in DOMAIN t, t[i] = t[j]
               PROVE  i = j
    BY DEF IsInjective
  <2>1. i + 1 = j + 1
    BY <1>3 DEF IsInjective
  <2> QED
    BY <1>2, <2>1
<1>7. ASSUME NEW x \in ToSet(t)
      PROVE  x \in ToSet(q) \ {q[1]}
  <2>1. PICK j \in DOMAIN t : t[j] = x
    BY <1>7 DEF ToSet
  <2> QED
    BY <1>3, <1>5, <2>1 DEF ToSet, IsInjective
<1>8. ASSUME NEW x \in ToSet(q), x # q[1]
      PROVE  x \in ToSet(t)
  <2>1. PICK j \in DOMAIN q : q[j] = x
    BY DEF ToSet
  <2> QED
    BY <1>4, <1>8, <2>1 DEF ToSet
<1>9. q[1] \in ToSet(q)
  BY <1>5 DEF ToSet
<1> QED
  BY <1>1, <1>6, <1>7, <1>8, <1>9 DEF t

LEMMA ConcatElements ==
  ASSUME NEW S, NEW p \in Seq(S), NEW q \in Seq(S)
  PROVE  /\ p \o q \in Seq(S)
         /\ ToSet(p \o q) = ToSet(p) \cup ToSet(q)
         /\ IsInjective(p) /\ IsInjective(q) /\ ToSet(p) \cap ToSet(q) = {} =>
              IsInjective(p \o q)
<1> DEFINE r == p \o q
<1>1. /\ r \in Seq(S) /\ Len(p) \in Nat /\ Len(q) \in Nat
      /\ Len(r) = Len(p) + Len(q)
      /\ \A i \in 1 .. Len(p) + Len(q) :
           r[i] = IF i <= Len(p) THEN p[i] ELSE q[i - Len(p)]
  BY ConcatProperties
<1>2. /\ DOMAIN p = 1 .. Len(p) /\ DOMAIN q = 1 .. Len(q)
      /\ DOMAIN r = 1 .. Len(p) + Len(q)
  BY <1>1
<1> HIDE DEF r
<1>3. \A i \in DOMAIN p : i \in DOMAIN r /\ r[i] = p[i]
  BY <1>1, <1>2
<1>4. \A i \in DOMAIN q : i + Len(p) \in DOMAIN r /\ r[i + Len(p)] = q[i]
  BY <1>1, <1>2
<1>5. \A i \in DOMAIN r : \/ i \in DOMAIN p /\ r[i] = p[i]
                          \/ i - Len(p) \in DOMAIN q /\ r[i] = q[i - Len(p)]
  BY <1>1, <1>2
<1>6. ToSet(r) = ToSet(p) \cup ToSet(q)
  <2>1. ToSet(r) \subseteq ToSet(p) \cup ToSet(q)
    BY <1>5 DEF ToSet
  <2>2. ToSet(p) \subseteq ToSet(r)
    BY <1>3 DEF ToSet
  <2>3. ToSet(q) \subseteq ToSet(r)
    BY <1>4 DEF ToSet
  <2> QED
    BY <2>1, <2>2, <2>3
<1>7. ASSUME IsInjective(p), IsInjective(q), ToSet(p) \cap ToSet(q) = {}
      PROVE  IsInjective(r)
  <2> SUFFICES ASSUME NEW i \in DOMAIN r, NEW j \in DOMAIN r, r[i] = r[j]
               PROVE  i = j
    BY DEF IsInjective
  <2>1. \A k \in DOMAIN p, l \in DOMAIN q : p[k] # q[l]
    BY <1>7 DEF ToSet
  <2>2. \A k, l \in DOMAIN p : p[k] = p[l] => k = l
    BY <1>7 DEF IsInjective
  <2>3. \A k, l \in DOMAIN q : q[k] = q[l] => k = l
    BY <1>7 DEF IsInjective
  <2>4. i \in Int /\ j \in Int /\ Len(p) \in Int
    BY <1>1, <1>2
  <2>5. CASE i \in DOMAIN p /\ r[i] = p[i]
    BY <1>5, <2>1, <2>2, <2>5
  <2>6. CASE i - Len(p) \in DOMAIN q /\ r[i] = q[i - Len(p)]
    <3>1. j - Len(p) \in DOMAIN q /\ r[j] = q[j - Len(p)]
      BY <1>5, <2>1, <2>6
    <3>2. i - Len(p) = j - Len(p)
      BY <2>3, <2>6, <3>1
    <3> QED
      BY <2>4, <3>2
  <2> QED
    BY <1>5, <2>5, <2>6
<1> QED
  BY <1>1, <1>6, <1>7 DEF r

\* A sequence without repetitions is as long as it has elements.
LEMMA InjectiveLength ==
  ASSUME NEW S, NEW q \in Seq(S), IsInjective(q)
  PROVE  IsFiniteSet(ToSet(q)) /\ Cardinality(ToSet(q)) = Len(q)
<1>1. Len(q) \in Nat /\ DOMAIN q = 1 .. Len(q)
  OBVIOUS
<1>2. q \in Bijection(1 .. Len(q), ToSet(q))
  <2>1. q \in [1 .. Len(q) -> ToSet(q)]
    BY <1>1 DEF ToSet
  <2>2. \A x \in ToSet(q) : \E i \in 1 .. Len(q) : q[i] = x
    BY <1>1 DEF ToSet
  <2> QED
    BY <2>1, <2>2 DEF Bijection, Injection, Surjection
<1>3. ExistsBijection(1 .. Len(q), ToSet(q))
  BY <1>2 DEF ExistsBijection
<1>4. IsFiniteSet(1 .. Len(q)) /\ Cardinality(1 .. Len(q)) = Len(q)
  BY <1>1, FS_Interval
<1> QED
  BY <1>3, <1>4, FS_Bijection

LEMMA OrderIsInjective ==
  ASSUME NEW S, NEW R, \A x \in S : <<x, x>> \notin R,
         NEW q \in Seq(S), InOrder(q, R)
  PROVE  IsInjective(q)
<1> SUFFICES ASSUME NEW i \in DOMAIN q, NEW j \in DOMAIN q, q[i] = q[j], i # j
             PROVE  FALSE
  BY DEF IsInjective
<1>1. i \in Int /\ j \in Int /\ q[i] \in S
  <2>1. DOMAIN q = 1 .. Len(q) /\ Len(q) \in Nat
    OBVIOUS
  <2> QED
    BY <2>1, ElementOfSeq
<1>2. i < j \/ j < i
  BY <1>1
<1> QED
  BY <1>1, <1>2 DEF InOrder

\* Every set of positions can be listed in an order of them.
LEMMA OrderExists ==
  ASSUME NEW n \in Nat, NEW S \in SUBSET (1 .. n), NEW R, IsOrder(R, S),
         \A x \in S : <<x, x>> \notin R
  PROVE  \E q \in [1 .. Cardinality(S) -> S] : ToSet(q) = S /\ InOrder(q, R)
<1> DEFINE Listed(U, q) == ToSet(q) = U /\ InOrder(q, R)
           P == {m \in 0 .. n : \E q \in Seq(S) : Listed(S \cap (1 .. m), q)}
<1>1. 0 \in P
  <2>1. S \cap (1 .. 0) = {} /\ <<>> \in Seq(S) /\ DOMAIN <<>> = {}
    OBVIOUS
  <2>2. ToSet(<<>>) = {}
    BY <2>1 DEF ToSet
  <2>3. InOrder(<<>>, R)
    BY <2>1 DEF InOrder
  <2>4. 0 \in 0 .. n
    OBVIOUS
  <2> QED
    BY <2>1, <2>2, <2>3, <2>4
<1>2. ASSUME NEW m \in 0 .. n - 1, m \in P
      PROVE  m + 1 \in P
  <2>1. PICK q \in Seq(S) : Listed(S \cap (1 .. m), q)
    BY <1>2
  <2>2. m + 1 \in 0 .. n
    OBVIOUS
  <2>3. CASE m + 1 \notin S
    <3>1. S \cap (1 .. m) = S \cap (1 .. m + 1)
      BY <2>3
    <3> QED
      BY <2>1, <2>2, <3>1
  <2>4. CASE m + 1 \in S
    <3>1. S \cap (1 .. m + 1) = (S \cap (1 .. m)) \cup {m + 1}
      BY <2>4
    <3>2. m + 1 \notin ToSet(q)
      BY <2>1
    <3>3. PICK p \in Seq(S) : ToSet(p) = ToSet(q) \cup {m + 1} /\ InOrder(p, R)
      BY <2>1, <2>4, <3>2, InsertKeepsOrder
    <3>4. Listed(S \cap (1 .. m + 1), p)
      BY <2>1, <3>1, <3>3
    <3> QED
      BY <2>2, <3>4
  <2> QED
    BY <2>3, <2>4
<1> HIDE DEF P
<1>3. n \in P
  <2>1. \A m \in 0 .. n - 1 : m \in P => m + 1 \in P
    BY <1>2
  <2>2. \A m \in 0 .. n : m \in P
    BY <1>1, <2>1, InductionUpTo
  <2> QED
    BY <2>2
<1>4. PICK q \in Seq(S) : Listed(S, q)
  <2>1. S \cap (1 .. n) = S
    OBVIOUS
  <2> QED
    BY <1>3, <2>1 DEF P
<1>5. IsInjective(q)
  BY <1>4, OrderIsInjective
<1>6. Cardinality(S) = Len(q)
  BY <1>4, <1>5, InjectiveLength
<1>7. q \in [1 .. Cardinality(S) -> S]
  BY <1>6
<1> QED
  BY <1>4, <1>7

\* How often an element is in a sequence, and what an append makes of it.
Times(q, x) == Cardinality({i \in DOMAIN q : q[i] = x})

LEMMA TimesIsNat ==
  ASSUME NEW S, NEW q \in Seq(S), NEW x
  PROVE  /\ IsFiniteSet({i \in DOMAIN q : q[i] = x})
         /\ Times(q, x) \in Nat
<1>1. IsFiniteSet(1 .. Len(q))
  BY FS_Interval
<1>2. {i \in DOMAIN q : q[i] = x} \in SUBSET (1 .. Len(q))
  OBVIOUS
<1>3. IsFiniteSet({i \in DOMAIN q : q[i] = x})
  BY <1>1, <1>2, FS_Subset
<1> QED
  BY <1>3, FS_CardinalityType DEF Times

LEMMA AppendTimes ==
  ASSUME NEW S, NEW q \in Seq(S), NEW e \in S, NEW x
  PROVE  Times(Append(q, e), x) = Times(q, x) + IF x = e THEN 1 ELSE 0
<1> DEFINE r == Append(q, e)
           old == {i \in DOMAIN q : q[i] = x}
           new == {i \in DOMAIN r : r[i] = x}
<1>1. /\ r \in Seq(S) /\ Len(q) \in Nat
      /\ Len(r) = Len(q) + 1
      /\ r[Len(q) + 1] = e
      /\ \A j \in 1 .. Len(q) : r[j] = q[j]
  BY AppendIndexes
<1> HIDE DEF r
<1>2. DOMAIN q = 1 .. Len(q) /\ DOMAIN r = 1 .. Len(q) + 1
  BY <1>1
<1>3. IsFiniteSet(old) /\ Cardinality(old) \in Nat
  BY TimesIsNat DEF Times
<1> SUFFICES Cardinality(new) = Cardinality(old) + IF x = e THEN 1 ELSE 0
  BY DEF Times, r
<1>4. CASE x = e
  <2>1. new = old \cup {Len(q) + 1}
    BY <1>1, <1>2, <1>4
  <2>2. Len(q) + 1 \notin old
    BY <1>1, <1>2
  <2>3. Cardinality(new) = Cardinality(old) + 1
    BY <1>3, <2>1, <2>2, FS_AddElement
  <2> QED
    BY <1>4, <2>3
<1>5. CASE x # e
  <2>1. new = old
    BY <1>1, <1>2, <1>5
  <2> HIDE DEF new, old
  <2>2. Cardinality(new) = Cardinality(old)
    BY <2>1
  <2> QED
    BY <1>3, <1>5, <2>2
<1> QED
  BY <1>4, <1>5
=============================================================================
