------------------------ MODULE ComplianceReportProofs ------------------------
(***************************************************************************)
(* The compliance report proved for every number of virtual users, kind of *)
(* transaction, set of buckets and length of the run: what is counted is   *)
(* what ran, and the verdicts and the series are those of what was counted.*)
(***************************************************************************)
EXTENDS ComplianceReport, FiniteSetTheorems, WellFoundedInduction, TLAPS

-----------------------------------------------------------------------------
(* Induction over numbers, and over the subsets of a finite set. *)

\* The less-than relation is well-founded: a set of numbers has a least one.
LEMMA LeastNumber ==
    ASSUME NEW S, S \subseteq Nat, S # {}
    PROVE  \E x \in S : \A y \in S : x <= y
<1>1. \E x \in S : \A y \in S : ~(<<y, x>> \in OpToRel(<, Nat))
  BY NatLessThanWellFounded, WFMin
<1>2. PICK x \in S : \A y \in S : ~(<<y, x>> \in OpToRel(<, Nat))
  BY <1>1
<1>3. \A y \in S : ~(y < x)
  BY <1>2 DEF OpToRel
<1> QED
  BY <1>3

\* Induction over the first numbers.
LEMMA UpTo ==
    ASSUME NEW N \in Nat, NEW S, 0 \in S, \A n \in 0..(N - 1) : n \in S => n + 1 \in S
    PROVE  0..N \subseteq S
<1> SUFFICES ASSUME (0..N) \ S # {} PROVE FALSE
  OBVIOUS
<1>1. (0..N) \ S \subseteq Nat
  OBVIOUS
<1>2. PICK x \in (0..N) \ S : \A y \in (0..N) \ S : x <= y
  BY <1>1, LeastNumber
<1>3. x - 1 \in 0..(N - 1) /\ x - 1 \in S
  BY <1>2
<1> QED
  BY <1>2, <1>3

LEMMA LeastIsMin ==
    ASSUME NEW S, S \subseteq Nat, S # {}
    PROVE  Min(S) \in S /\ \A j \in S : Min(S) <= j
BY LeastNumber DEF Min

\* What holds of the empty set, and of a set when it holds of it without the element picked,
\* holds of every subset of a finite set.
Picks(pick, D) == \A s \in SUBSET D : s # {} => pick[s] \in s

LEMMA Picked ==
    ASSUME NEW D, IsFiniteSet(D), NEW pick, Picks(pick, D), NEW s \in SUBSET D, s # {}
    PROVE  /\ s \ {pick[s]} \in SUBSET D
           /\ Cardinality(s) \in Nat \ {0}
           /\ Cardinality(s \ {pick[s]}) = Cardinality(s) - 1
<1>1. IsFiniteSet(s)
  BY FS_Subset
<1>2. Cardinality(s) \in Nat /\ Cardinality(s) # 0
  BY <1>1, FS_CardinalityType, FS_EmptySet
<1>3. pick[s] \in s
  BY DEF Picks
<1>4. Cardinality(s \ {pick[s]}) = Cardinality(s) - 1
  BY <1>1, <1>3, FS_RemoveElement
<1> QED
  BY <1>2, <1>4

LEMMA Peel ==
    ASSUME NEW D, IsFiniteSet(D), NEW pick, Picks(pick, D),
           NEW P, {} \in P,
           \A s \in SUBSET D : s # {} /\ s \ {pick[s]} \in P => s \in P
    PROVE  SUBSET D \subseteq P
<1> DEFINE N == Cardinality(D)
           Small(n) == \A s \in SUBSET D : Cardinality(s) <= n => s \in P
           Good == {n \in 0..N : Small(n)}
<1>1. N \in Nat
  BY FS_CardinalityType
<1>2. \A s \in SUBSET D : IsFiniteSet(s) /\ Cardinality(s) \in Nat /\ Cardinality(s) <= N
  BY FS_Subset, FS_CardinalityType
<1> HIDE DEF N
<1>3. 0 \in Good
  <2>1. \A s \in SUBSET D : Cardinality(s) <= 0 => s = {}
    BY <1>2, FS_EmptySet
  <2> QED
    BY <1>1, <2>1
<1>4. ASSUME NEW n \in 0..(N - 1), n \in Good
      PROVE  n + 1 \in Good
  <2>1. ASSUME NEW s \in SUBSET D, Cardinality(s) <= n + 1, s # {}
        PROVE  s \in P
    <3>1. s \ {pick[s]} \in SUBSET D /\ Cardinality(s \ {pick[s]}) <= n
      BY <1>2, <2>1, Picked
    <3> QED
      BY <1>4, <2>1, <3>1
  <2>2. Small(n + 1)
    BY <2>1
  <2> HIDE DEF Small
  <2> QED
    BY <1>1, <2>2
<1>5. 0..N \subseteq Good
  <2> HIDE DEF Good
  <2> QED
    BY <1>1, <1>3, <1>4, UpTo
<1>6. Small(N)
  <2>1. N \in 0..N
    BY <1>1
  <2> QED
    BY <1>5, <2>1
<1> QED
  BY <1>2, <1>6

\* The sum the folds of the library describe exists.
SumsUp(f, D, w, pick) ==
    /\ f = [s \in SUBSET D |-> f[s]]
    /\ \A s \in SUBSET D : f[s] = IF s = {} THEN 0 ELSE w[pick[s]] + f[s \ {pick[s]}]

LEMMA SumExists ==
    ASSUME NEW D, IsFiniteSet(D), NEW pick, Picks(pick, D), NEW w
    PROVE  \E f : SumsUp(f, D, w, pick)
<1> DEFINE N == Cardinality(D)
           Step(f, s) == IF s = {} THEN 0 ELSE w[pick[s]] + f[s \ {pick[s]}]
           Built == {n \in 0..N : \E g : \A s \in SUBSET D : Cardinality(s) <= n => g[s] = Step(g, s)}
<1>1. N \in Nat
  BY FS_CardinalityType
<1>2. \A s \in SUBSET D : IsFiniteSet(s) /\ Cardinality(s) \in Nat /\ Cardinality(s) <= N
  BY FS_Subset, FS_CardinalityType
<1> HIDE DEF N
<1>3. 0 \in Built
  <2> DEFINE g == [s \in SUBSET D |-> 0]
  <2>1. \A s \in SUBSET D : Cardinality(s) <= 0 => s = {}
    BY <1>2, FS_EmptySet
  <2>2. \A s \in SUBSET D : Cardinality(s) <= 0 => g[s] = Step(g, s)
    BY <2>1
  <2> HIDE DEF g, Step
  <2> QED
    BY <1>1, <2>2
<1>4. ASSUME NEW n \in 0..(N - 1), n \in Built
      PROVE  n + 1 \in Built
  <2>1. PICK g : \A s \in SUBSET D : Cardinality(s) <= n => g[s] = Step(g, s)
    BY <1>4
  <2> DEFINE h == [s \in SUBSET D |-> IF Cardinality(s) <= n THEN g[s]
                                      ELSE w[pick[s]] + g[s \ {pick[s]}]]
  <2>2. ASSUME NEW s \in SUBSET D, Cardinality(s) <= n + 1
        PROVE  h[s] = Step(h, s)
    <3>1. CASE s = {}
      <4>1. Cardinality(s) = 0
        BY <3>1, FS_EmptySet
      <4> QED
        BY <2>1, <3>1, <4>1
    <3>2. CASE s # {}
      <4> DEFINE r == s \ {pick[s]}
      <4>1. r \in SUBSET D /\ Cardinality(r) = Cardinality(s) - 1 /\ Cardinality(r) <= n
        BY <1>2, <2>2, <3>2, Picked
      <4>2. h[r] = g[r]
        BY <4>1
      <4>3. h[s] = w[pick[s]] + g[r]
        <5>1. CASE Cardinality(s) <= n
          BY <2>1, <3>2, <5>1
        <5>2. CASE ~(Cardinality(s) <= n)
          BY <5>2
        <5> QED
          BY <5>1, <5>2
      <4> QED
        BY <3>2, <4>2, <4>3
    <3> QED
      BY <3>1, <3>2
  <2> HIDE DEF h, Step
  <2> QED
    BY <1>1, <2>2
<1>5. 0..N \subseteq Built
  <2> HIDE DEF Built
  <2> QED
    BY <1>1, <1>3, <1>4, UpTo
<1>6. PICK g : \A s \in SUBSET D : Cardinality(s) <= N => g[s] = Step(g, s)
  <2>1. N \in 0..N
    BY <1>1
  <2> QED
    BY <1>5, <2>1
<1> DEFINE f == [s \in SUBSET D |-> g[s]]
<1>7. ASSUME NEW s \in SUBSET D
      PROVE  f[s] = Step(f, s)
  <2>1. g[s] = Step(g, s)
    BY <1>2, <1>6
  <2>2. s \ {pick[s]} \in SUBSET D
    OBVIOUS
  <2> QED
    BY <2>1, <2>2
<1>8. f = [s \in SUBSET D |-> f[s]]
  OBVIOUS
<1> HIDE DEF f
<1>9. SumsUp(f, D, w, pick)
  BY <1>7, <1>8 DEF SumsUp
<1> QED
  BY <1>9

LEMMA SumIsNat ==
    ASSUME NEW D, IsFiniteSet(D), NEW pick, Picks(pick, D), NEW w \in [D -> Nat],
           NEW f, SumsUp(f, D, w, pick)
    PROVE  \A s \in SUBSET D : f[s] \in Nat
<1> DEFINE P == {s \in SUBSET D : f[s] \in Nat}
<1>1. {} \in P
  <2>1. f[{}] = 0
    BY DEF SumsUp
  <2> QED
    BY <2>1
<1>2. ASSUME NEW s \in SUBSET D, s # {}, s \ {pick[s]} \in P
      PROVE  s \in P
  <2>1. f[s] = w[pick[s]] + f[s \ {pick[s]}]
    BY <1>2 DEF SumsUp
  <2>2. w[pick[s]] \in Nat
    BY <1>2 DEF Picks
  <2> QED
    BY <1>2, <2>1, <2>2
<1> HIDE DEF P
<1>3. SUBSET D \subseteq P
  BY <1>1, <1>2, Peel
<1> QED
  BY <1>3 DEF P

-----------------------------------------------------------------------------
(* Count: the sum of a function. *)

SomeOf(s) == CHOOSE x \in s : TRUE

\* Count takes the elements of the domain one by one.
CountsUp(f, h, D) ==
    /\ Count(h) = f[D]
    /\ \A s \in SUBSET D : f[s] = IF s = {} THEN 0 ELSE h[SomeOf(s)] + f[s \ {SomeOf(s)}]

LEMMA CountUnfolds ==
    ASSUME NEW D, IsFiniteSet(D), NEW h, DOMAIN h = D
    PROVE  \E f : CountsUp(f, h, D)
<1> DEFINE pick == [s \in SUBSET D |-> SomeOf(s)]
           Body(f) == [s \in SUBSET D |-> IF s = {} THEN 0 ELSE h[SomeOf(s)] + f[s \ {SomeOf(s)}]]
           iter == CHOOSE f : f = Body(f)
<1>1. Picks(pick, D)
  BY DEF Picks, SomeOf
<1>2. \E f : SumsUp(f, D, h, pick)
  <2> HIDE DEF pick
  <2> QED
    BY <1>1, SumExists
<1>3. \E f : f = Body(f)
  <2>1. PICK f : SumsUp(f, D, h, pick)
    BY <1>2
  <2>2. f = Body(f)
    BY <2>1 DEF SumsUp
  <2> QED
    BY <2>2
<1>4. iter = Body(iter)
  <2> HIDE DEF Body
  <2> QED
    BY <1>3
<1>5. Count(h) = iter[D]
  BY DEF Count, FoldFunction, FoldFunctionOnSet, MapThenFoldSet, SomeOf
<1> HIDE DEF iter
<1>6. CountsUp(iter, h, D)
  BY <1>4, <1>5 DEF CountsUp
<1> QED
  BY <1>6

LEMMA SomeOfPicks ==
    ASSUME NEW D
    PROVE  Picks([s \in SUBSET D |-> SomeOf(s)], D)
BY DEF Picks, SomeOf

\* A sum of natural numbers is one, and is zero when they are.
LEMMA CountIsNat ==
    ASSUME NEW D, IsFiniteSet(D), NEW h \in [D -> Nat]
    PROVE  Count(h) \in Nat /\ ((\A x \in D : h[x] = 0) => Count(h) = 0)
<1> DEFINE pick == [s \in SUBSET D |-> SomeOf(s)]
<1>0. DOMAIN h = D
  OBVIOUS
<1>1. PICK f : CountsUp(f, h, D)
  BY <1>0, CountUnfolds
<1> DEFINE P == {s \in SUBSET D : f[s] \in Nat /\ ((\A x \in D : h[x] = 0) => f[s] = 0)}
<1>2. {} \in P
  BY <1>1 DEF CountsUp
<1>3. ASSUME NEW s \in SUBSET D, s # {}, s \ {pick[s]} \in P
      PROVE  s \in P
  <2>1. SomeOf(s) \in D /\ pick[s] = SomeOf(s)
    BY <1>3 DEF SomeOf
  <2>2. f[s] = h[SomeOf(s)] + f[s \ {SomeOf(s)}] /\ h[SomeOf(s)] \in Nat
    BY <1>1, <1>3, <2>1 DEF CountsUp
  <2> QED
    BY <1>3, <2>1, <2>2
<1>4. Picks(pick, D)
  BY SomeOfPicks
<1> HIDE DEF P, pick
<1>5. SUBSET D \subseteq P
  BY <1>2, <1>3, <1>4, Peel
<1> QED
  BY <1>1, <1>5 DEF P, CountsUp

OneMore(h, b) == [h EXCEPT ![b] = @ + 1]

\* One more at one place is one more in the sum.
LEMMA CountOneMore ==
    ASSUME NEW D, IsFiniteSet(D), NEW h \in [D -> Nat], NEW b \in D
    PROVE  Count(OneMore(h, b)) = Count(h) + 1
<1> DEFINE pick == [s \in SUBSET D |-> SomeOf(s)]
           more == OneMore(h, b)
<1>0. DOMAIN h = D /\ DOMAIN more = D
  BY DEF OneMore
<1>1. PICK f : CountsUp(f, h, D)
  BY <1>0, CountUnfolds
<1>2. PICK g : CountsUp(g, more, D)
  <2> HIDE DEF more
  <2> QED
    BY <1>0, CountUnfolds
<1> DEFINE P == {s \in SUBSET D : f[s] \in Nat /\ g[s] = f[s] + IF b \in s THEN 1 ELSE 0}
<1>3. {} \in P
  <2>1. f[{}] = 0
    BY <1>1 DEF CountsUp
  <2>2. g[{}] = 0
    BY <1>2 DEF CountsUp
  <2> QED
    BY <2>1, <2>2
<1>4. ASSUME NEW s \in SUBSET D, s # {}, s \ {pick[s]} \in P
      PROVE  s \in P
  <2> DEFINE x == SomeOf(s)
             r == s \ {x}
  <2>1. x \in s /\ x \in D /\ pick[s] = x
    BY <1>4 DEF SomeOf
  <2>2. f[s] = h[x] + f[r] /\ g[s] = more[x] + g[r]
    BY <1>1, <1>2, <1>4 DEF CountsUp
  <2>3. f[r] \in Nat /\ g[r] = f[r] + IF b \in r THEN 1 ELSE 0
    BY <1>4, <2>1
  <2>4. h[x] \in Nat /\ more[x] = h[x] + IF x = b THEN 1 ELSE 0
    BY <2>1 DEF OneMore
  <2> HIDE DEF x, r, more
  <2>5. b \in s <=> b \in r \/ b = x
    BY <2>1 DEF r
  <2>6. ~(b \in r /\ b = x)
    BY DEF r
  <2> QED
    BY <2>2, <2>3, <2>4, <2>5, <2>6
<1>5. Picks(pick, D)
  BY SomeOfPicks
<1> HIDE DEF P, pick
<1>6. SUBSET D \subseteq P
  BY <1>3, <1>4, <1>5, Peel
<1>7. D \in P
  BY <1>6
<1> QED
  BY <1>1, <1>2, <1>7 DEF P, CountsUp

Part(h, E) == [x \in E |-> h[x]]

\* A part of a function with one more at one place.
LEMMA PartOneMore ==
    ASSUME NEW D, NEW h \in [D -> Nat], NEW b \in D, NEW E \in SUBSET D, IsFiniteSet(E)
    PROVE  /\ b \in E => Count(Part(OneMore(h, b), E)) = Count(Part(h, E)) + 1
           /\ b \notin E => Count(Part(OneMore(h, b), E)) = Count(Part(h, E))
<1> DEFINE more == OneMore(h, b)
           part == Part(h, E)
<1>1. part \in [E -> Nat]
  BY DEF Part
<1>2. CASE b \in E
  <2>1. Part(more, E) = OneMore(part, b)
    BY <1>2 DEF OneMore, Part
  <2>2. Count(OneMore(part, b)) = Count(part) + 1
    <3> HIDE DEF part
    <3> QED
      BY <1>1, <1>2, CountOneMore
  <2> QED
    BY <1>2, <2>1, <2>2
<1>3. CASE b \notin E
  <2>1. Part(more, E) = part
    BY <1>3 DEF OneMore, Part
  <2>2. Count(part) \in Nat
    <3> HIDE DEF part
    <3> QED
      BY <1>1, CountIsNat
  <2> QED
    BY <1>3, <2>1, <2>2
<1> QED
  BY <1>2, <1>3

-----------------------------------------------------------------------------
(* Total: the sum of a sequence, from its beginning. *)

LEMMA GreatestIsMax ==
    ASSUME NEW N \in Nat, NEW S, S \subseteq 1..N, S # {}
    PROVE  Max(S) \in S /\ \A j \in S : j <= Max(S)
<1> DEFINE behind == {N - j : j \in S}
<1>1. behind \subseteq Nat /\ behind # {}
  <2>1. \A j \in S : N - j \in Nat
    OBVIOUS
  <2>2. behind \subseteq Nat
    BY <2>1
  <2>3. behind # {}
    OBVIOUS
  <2> QED
    BY <2>2, <2>3
<1>2. PICK k \in behind : \A j \in behind : k <= j
  <2> HIDE DEF behind
  <2> QED
    BY <1>1, LeastNumber
<1>3. N - k \in S /\ \A j \in S : j <= N - k
  BY <1>2
<1>4. \E i \in S : \A j \in S : i >= j
  BY <1>3
<1>5. Max(S) \in S /\ \A j \in S : Max(S) >= j
  BY <1>4 DEF Max
<1> QED
  BY <1>5

\* The sums of the beginnings of a sequence of n numbers.
Runs(p, s, n) ==
    /\ p \in [0..n -> Nat] /\ p[0] = 0
    /\ \A i \in 1..n : p[i] = p[i - 1] + s[i]

LEMMA TotalRuns ==
    ASSUME NEW n \in Nat, NEW s \in [1..n -> Nat]
    PROVE  \E p : Runs(p, s, n) /\ p[n] = Total(s)
<1> DEFINE D == 1..n
           pick == [t \in SUBSET D |-> Max(t)]
           Body(f) == [t \in SUBSET D |-> IF t = {} THEN 0 ELSE f[t \ {Max(t)}] + s[Max(t)]]
           iter == CHOOSE f : f = Body(f)
<1>1. IsFiniteSet(D)
  BY FS_Interval
<1>2. \A t \in SUBSET D : t # {} => Max(t) \in t /\ Max(t) \in D
  BY GreatestIsMax
<1>3. Picks(pick, D)
  BY <1>2 DEF Picks
<1>4. PICK f : SumsUp(f, D, s, pick)
  <2> HIDE DEF pick, D
  <2> QED
    BY <1>1, <1>3, SumExists
<1>5. \A t \in SUBSET D : f[t] \in Nat
  <2> HIDE DEF pick, D
  <2>1. s \in [D -> Nat]
    BY DEF D
  <2> QED
    BY <1>1, <1>3, <1>4, <2>1, SumIsNat
<1>6. f = Body(f)
  <2>1. ASSUME NEW t \in SUBSET D, t # {}
        PROVE  f[t] = f[t \ {Max(t)}] + s[Max(t)]
    <3>1. f[t] = s[Max(t)] + f[t \ {Max(t)}]
      BY <1>4, <2>1 DEF SumsUp
    <3>2. f[t \ {Max(t)}] \in Nat /\ s[Max(t)] \in Nat
      BY <1>2, <1>5, <2>1
    <3> QED
      BY <3>1, <3>2
  <2>2. f[{}] = 0
    BY <1>4 DEF SumsUp
  <2>3. f = [t \in SUBSET D |-> f[t]]
    BY <1>4 DEF SumsUp
  <2> QED
    BY <2>1, <2>2, <2>3
<1>7. iter = Body(iter)
  <2> HIDE DEF Body
  <2> QED
    BY <1>6
<1>8. DOMAIN s = D
  OBVIOUS
<1>9. Total(s) = iter[D]
  BY <1>8 DEF Total, FoldLeft, MapThenFoldSet
<1> HIDE DEF iter
<1>10. /\ iter[{}] = 0
       /\ \A t \in SUBSET D : t # {} => iter[t] = iter[t \ {Max(t)}] + s[Max(t)]
  BY <1>7
<1> DEFINE p == [m \in 0..n |-> iter[1..m]]
<1>11. \A i \in 1..n : iter[1..i] = iter[1..(i - 1)] + s[i]
  <2> TAKE i \in 1..n
  <2>1. Max(1..i) = i
    <3> DEFINE S == 1..i
    <3>1. i \in Nat /\ S \subseteq 1..i /\ i \in S
      OBVIOUS
    <3> HIDE DEF S
    <3>2. Max(S) \in S /\ \A j \in S : j <= Max(S)
      BY <3>1, GreatestIsMax
    <3> QED
      BY <3>1, <3>2 DEF S
  <2>2. (1..i) \ {i} = 1..(i - 1)
    OBVIOUS
  <2>3. 1..i # {} /\ 1..i \in SUBSET D
    <3>1. i \in 1..i
      OBVIOUS
    <3>2. 1..i \subseteq 1..n
      OBVIOUS
    <3> QED
      BY <3>1, <3>2
  <2> QED
    BY <1>10, <2>1, <2>2, <2>3
<1>12. iter[1..0] = 0
  <2>1. 1..0 = {}
    OBVIOUS
  <2> QED
    BY <1>10, <2>1
<1>13. \A m \in 0..n : iter[1..m] \in Nat
  <2> DEFINE P == {m \in 0..n : iter[1..m] \in Nat}
  <2>1. 0 \in P
    BY <1>12
  <2>2. \A m \in 0..(n - 1) : m \in P => m + 1 \in P
    <3> TAKE m \in 0..(n - 1)
    <3>1. iter[1..(m + 1)] = iter[1..m] + s[m + 1] /\ s[m + 1] \in Nat
      BY <1>11
    <3> QED
      BY <3>1
  <2> HIDE DEF P
  <2>3. 0..n \subseteq P
    BY <2>1, <2>2, UpTo
  <2> QED
    BY <2>3 DEF P
<1>14. Runs(p, s, n)
  BY <1>11, <1>12, <1>13 DEF Runs
<1>15. p[n] = Total(s)
  BY <1>9
<1> HIDE DEF p
<1> QED
  BY <1>14, <1>15

\* To know a total is to know the sums of the beginnings.
LEMMA TotalIs ==
    ASSUME NEW n \in Nat, NEW s \in [1..n -> Nat], NEW p, Runs(p, s, n)
    PROVE  Total(s) = p[n]
<1>1. PICK q : Runs(q, s, n) /\ q[n] = Total(s)
  BY TotalRuns
<1> DEFINE P == {m \in 0..n : p[m] = q[m]}
<1>2. 0 \in P
  BY <1>1 DEF Runs
<1>3. \A m \in 0..(n - 1) : m \in P => m + 1 \in P
  BY <1>1 DEF Runs
<1> HIDE DEF P
<1>4. 0..n \subseteq P
  BY <1>2, <1>3, UpTo
<1> QED
  BY <1>1, <1>4 DEF P

\* The total of a slice is the difference of two sums.
LEMMA TotalOfSlice ==
    ASSUME NEW n \in Nat, NEW s \in Seq(Nat), Len(s) = n, NEW p, Runs(p, s, n),
           NEW a \in 1..(n + 1), NEW b \in 0..n, a <= b + 1
    PROVE  Total(SubSeq(s, a, b)) = p[b] - p[a - 1]
<1> DEFINE m == b - a + 1
           t == SubSeq(s, a, b)
           q == [i \in 0..m |-> p[a - 1 + i] - p[a - 1]]
<1>1. m \in Nat /\ t \in [1..m -> Nat] /\ \A i \in 1..m : t[i] = s[a - 1 + i]
  <2>1. t = [i \in 1..m |-> s[a + i - 1]]
    OBVIOUS
  <2>2. \A i \in 1..m : s[a + i - 1] \in Nat /\ a + i - 1 = a - 1 + i
    OBVIOUS
  <2> QED
    BY <2>1, <2>2
<1>2. \A i \in 1..n : p[i] = p[i - 1] + s[i] /\ p[i - 1] \in Nat /\ s[i] \in Nat
  BY DEF Runs
<1>3. p \in [0..n -> Nat]
  BY DEF Runs
<1>4. \A i \in 1..m : p[a - 1 + i] = p[a - 1 + (i - 1)] + t[i]
  <2> TAKE i \in 1..m
  <2>1. a - 1 + i \in 1..n /\ (a - 1 + i) - 1 = a - 1 + (i - 1)
    OBVIOUS
  <2> HIDE DEF t, m
  <2> QED
    BY <1>1, <1>2, <2>1
<1> HIDE DEF t
<1>5. \A i \in 0..m : p[a - 1 + i] - p[a - 1] \in Nat
  <2> DEFINE P == {i \in 0..m : p[a - 1 + i] - p[a - 1] \in Nat}
  <2>1. 0 \in P
    BY <1>1, <1>3
  <2>2. \A i \in 0..(m - 1) : i \in P => i + 1 \in P
    <3> TAKE i \in 0..(m - 1)
    <3> HAVE i \in P
    <3>0. i + 1 \in 1..m /\ (i + 1) - 1 = i
      BY <1>1
    <3>1. p[a - 1 + (i + 1)] = p[a - 1 + i] + t[i + 1] /\ t[i + 1] \in Nat
      BY <1>1, <1>4, <3>0
    <3>2. p[a - 1 + i] \in Nat /\ p[a - 1] \in Nat
      BY <1>3
    <3>3. p[a - 1 + i] - p[a - 1] \in Nat
      OBVIOUS
    <3>4. p[a - 1 + (i + 1)] - p[a - 1] \in Nat
      BY <3>1, <3>2, <3>3
    <3> QED
      BY <3>0, <3>4
  <2> HIDE DEF P
  <2>3. 0..m \subseteq P
    BY <1>1, <2>1, <2>2, UpTo
  <2> QED
    BY <2>3 DEF P
<1>6. Runs(q, t, m)
  <2>1. q \in [0..m -> Nat]
    BY <1>5
  <2>2. q[0] = 0
    BY <1>1, <1>3
  <2>3. ASSUME NEW i \in 1..m
        PROVE  q[i] = q[i - 1] + t[i]
    <3>1. q[i] = p[a - 1 + i] - p[a - 1] /\ q[i - 1] = p[a - 1 + (i - 1)] - p[a - 1]
      BY <1>1
    <3>2. p[a - 1 + i] = p[a - 1 + (i - 1)] + t[i] /\ t[i] \in Nat
      BY <1>1, <1>4
    <3>3. p[a - 1 + (i - 1)] \in Nat /\ p[a - 1] \in Nat
      BY <1>3
    <3> QED
      BY <3>1, <3>2, <3>3
  <2> QED
    BY <2>1, <2>2, <2>3 DEF Runs
<1>7. q[m] = p[b] - p[a - 1]
  BY <1>1
<1>8. Total(t) = q[m]
  <2> HIDE DEF q, m
  <2> QED
    BY <1>1, <1>6, TotalIs
<1> QED
  BY <1>7, <1>8 DEF t

-----------------------------------------------------------------------------
(* The inductive invariant. *)

Busy == {"picked", "attempt", "steady", "record"}

\* Transactions take place in the run, of a kind of the mix, and begin before they end.
Placed ==
    /\ phase # "run" => \A v \in VUs : pc[v] \in {"idle", "stopped"}
    /\ phase \notin {"teardown", "over"} => clock <= MaxClock
    /\ \A v \in VUs : (pc[v] \in Busy => kind[v] \in Kinds) /\ start[v] <= clock
    /\ phase = "setup" => slots = <<>> /\ completed = <<>> /\ ~truncated

\* The buckets up to a bound hold what took no longer.
Below(h, c) == Count(Part(h, 1..c))
NoLonger(h, bound) == Count(Part(h, {e \in 0..MaxClock : e <= bound}))

Matches(h, w) ==
    /\ Count(h) = Count(w)
    /\ \A c \in 1..Len(Bounds) : Below(h, c) = NoLonger(w, Bounds[c])
    /\ \A b, c \in Buckets : b <= c => Below(h, b) <= Below(h, c)

Agree == \A k \in Kinds : Matches(hist[k], durations[k])

\* A slot holds the New-Orders that completed in it.
SlotOf(t) == ((t - measureStart) \div SlotWidth) + 1
In(m) == {i \in DOMAIN completed : SlotOf(completed[i]) = m}

Recorded ==
    slots # <<>> =>
        /\ measureStart \in 0..clock
        /\ \A i \in DOMAIN completed : completed[i] \in measureStart..clock
        /\ phase \in {"teardown", "over"} =>
              measureStart < clock /\ \A i \in DOMAIN completed : completed[i] < clock
        /\ \A m \in 1..SlotCount : slots[m] = Cardinality(In(m))
        /\ truncated <=> \E i \in DOMAIN completed : SlotOf(completed[i]) > SlotCount

\* The report is of what Teardown found, and nothing changes after it.
Told ==
    /\ phase # "over" => report = <<>>
    /\ phase = "over" => report \in {<<>>, <<Report(clock - measureStart)>>}

IInv == TypeOK /\ Placed /\ MeasuredOnce /\ Agree /\ Recorded /\ Told

-----------------------------------------------------------------------------
(* Ranges. *)

LEMMA Widths ==
    /\ {MaxAttempts, SlotWidth, SlotCount, BinCount} \subseteq Nat \ {0}
    /\ Len(Bounds) \in Nat \ {0} /\ MaxClock \in Nat
    /\ Buckets = 1..(Len(Bounds) + 1)
<1>1. Bounds \in Seq(Nat) /\ Bounds # <<>>
  BY ReportAssumption
<1>2. Len(Bounds) \in Nat \ {0}
  BY <1>1
<1> QED
  BY <1>2, ReportAssumption DEF Buckets

LEMMA BucketIsOne == \A d \in Nat : Bucket(d) \in Buckets
<1> TAKE d \in Nat
<1> DEFINE S == {i \in 1..Len(Bounds) : d <= Bounds[i]} \cup {Len(Bounds) + 1}
<1>1. S \subseteq Nat /\ S # {} /\ S \subseteq Buckets
  BY Widths
<1> HIDE DEF S
<1>2. Min(S) \in S
  BY <1>1, LeastIsMin
<1> QED
  BY <1>1, <1>2 DEF Bucket, S

\* One observation more in one of several histograms.
Observed(h, k, b) == [h EXCEPT ![k][b] = @ + 1]
OnlyAt(g, h, k, b) == g[k] = OneMore(h[k], b) /\ \A j \in DOMAIN h : j # k => g[j] = h[j]

LEMMA OneObservation ==
    ASSUME NEW K, NEW B, NEW h \in [K -> [B -> Nat]], NEW k \in K, NEW b \in B
    PROVE  /\ Observed(h, k, b) \in [K -> [B -> Nat]]
           /\ OnlyAt(Observed(h, k, b), h, k, b)
<1> DEFINE one == OneMore(h[k], b)
           g == Observed(h, k, b)
<1>1. h[k] \in [B -> Nat]
  OBVIOUS
<1>2. one \in [B -> Nat]
  BY <1>1 DEF OneMore
<1>3. g = [h EXCEPT ![k] = one]
  BY DEF Observed, OneMore
<1> HIDE DEF one, g
<1>4. g[k] = one /\ \A j \in K : j # k => g[j] = h[j]
  BY <1>3
<1>5. g \in [K -> [B -> Nat]]
  BY <1>2, <1>3
<1>6. OnlyAt(g, h, k, b)
  BY <1>4 DEF OnlyAt, one
<1> QED
  BY <1>5, <1>6 DEF g

LEMMA InitTyped == Init => TypeOK /\ Placed
<1> SUFFICES ASSUME Init PROVE TypeOK /\ Placed
  OBVIOUS
<1>1. TypeOK
  <2>0. pacing \in BOOLEAN /\ cancelled \in BOOLEAN /\ truncated \in BOOLEAN
    BY DEF Init
  <2>1. /\ variant \in Variants /\ phase \in {"setup", "run", "teardown", "over"}
        /\ slots \in {<<>>} \cup [1..SlotCount -> Nat]
    BY DEF Init
  <2>5. clock \in 0..(MaxClock + 1) /\ measureStart \in -1..MaxClock
    BY Widths DEF Init
  <2>2. /\ pc \in [VUs -> {"idle", "picked", "attempt", "steady", "record", "stopped"}]
        /\ kind \in [VUs -> Kinds \cup {"none"}] /\ {forced, seen} \subseteq [VUs -> BOOLEAN]
        /\ err \in [VUs -> {"nil", "error", "raised"}] /\ attempt \in [VUs -> 0..MaxAttempts]
        /\ start \in [VUs -> 0..MaxClock]
    BY Widths DEF Init
  <2>3. /\ {total, notes} \subseteq [Kinds -> Nat] /\ hist \in [Kinds -> [Buckets -> Nat]]
        /\ rollback \in [decided : Nat, done : Nat]
        /\ durations \in [Kinds -> [0..MaxClock -> Nat]]
    BY DEF Init
  <2>4. completed \in Seq(0..MaxClock)
    BY DEF Init
  <2> QED
    BY <2>0, <2>1, <2>2, <2>3, <2>4, <2>5 DEF TypeOK
<1>2. Placed
  BY Widths DEF Init, Placed, Busy
<1> QED
  BY <1>1, <1>2

\* What the steps of a VU leave alone.
LEMMA VUFrame ==
    ASSUME NEW v \in VUs, VU(v)
    PROVE  UNCHANGED run /\ (UNCHANGED history \/ RecordSteady(v) \/ RecordDuration(v))
BY DEF VU, Pick, Leave, StartTx, AttemptCanceled, Attempt, RecordSteady, RecordDuration, run,
       history, Looks

LEMMA RunTyped ==
    TypeOK /\ Placed /\ (SetupDone \/ SetupFails \/ Cancel \/ Tick \/ WorkersDone \/ EmitReport \/ Over)
        => TypeOK' /\ Placed'
<1> SUFFICES ASSUME TypeOK, Placed,
                    SetupDone \/ SetupFails \/ Cancel \/ Tick \/ WorkersDone \/ EmitReport \/ Over
             PROVE  TypeOK' /\ Placed'
  OBVIOUS
<1> USE Widths
<1>1. CASE SetupDone
  BY <1>1 DEF SetupDone, TypeOK, Placed, perVU, history
<1>2. CASE SetupFails
  BY <1>2 DEF SetupFails, TypeOK, Placed, perVU, measured, history
<1>3. CASE Cancel
  BY <1>3 DEF Cancel, TypeOK, Placed, perVU, measured, history
<1>4. CASE Tick
  BY <1>4 DEF Tick, TypeOK, Placed, perVU, measured, history
<1>5. CASE WorkersDone
  BY <1>5 DEF WorkersDone, TypeOK, Placed, perVU, measured, history
<1>6. CASE EmitReport
  BY <1>6 DEF EmitReport, TypeOK, Placed, perVU, measured, history
<1>7. CASE Over
  BY <1>7 DEF Over, vars, run, TypeOK, Placed, perVU, measured, history
<1> QED
  BY <1>1, <1>2, <1>3, <1>4, <1>5, <1>6, <1>7

\* Where an attempt leads.
LEMMA AttemptEffect ==
    ASSUME NEW v \in VUs, Attempt(v)
    PROVE  /\ pc[v] = "attempt" /\ UNCHANGED <<run, kind, forced, start, history>>
           /\ UNCHANGED <<total, hist, notes, slots, truncated>>
           /\ \E l \in {"attempt", "steady", "record"} : pc' = [pc EXCEPT ![v] = l] \/ pc' = pc
           /\ \E b \in BOOLEAN : seen' = [seen EXCEPT ![v] = b]
           /\ err' = err \/ \E e \in {"error", "raised"} : err' = [err EXCEPT ![v] = e]
           /\ \/ attempt' = attempt
              \/ attempt[v] < MaxAttempts /\ attempt' = [attempt EXCEPT ![v] = @ + 1]
           /\ rollback' = rollback \/ rollback' = [rollback EXCEPT !.done = @ + 1]
<1>1. \E b \in BOOLEAN : seen' = [seen EXCEPT ![v] = b]
  BY DEF Attempt, Looks
<1> DEFINE Ends == \/ ReturnsNil(v) \/ Returns(v, "error") \/ Returns(v, "raised") \/ Retries(v)
<1>2. Ends /\ (rollback' = rollback \/ DoneRollback)
  BY DEF Attempt, SentinelRollback, ProcedureRollback
<1>3. /\ \E l \in {"attempt", "steady", "record"} : pc' = [pc EXCEPT ![v] = l] \/ pc' = pc
      /\ err' = err \/ \E e \in {"error", "raised"} : err' = [err EXCEPT ![v] = e]
      /\ attempt' = attempt \/ (attempt[v] < MaxAttempts /\ attempt' = [attempt EXCEPT ![v] = @ + 1])
  BY <1>2 DEF ReturnsNil, Returns, Retries, Goto
<1> QED
  BY <1>1, <1>2, <1>3 DEF Attempt, DoneRollback

\* The ranges of what a VU's step changes, one group after the other.
VURanges ==
    /\ pc \in [VUs -> {"idle", "picked", "attempt", "steady", "record", "stopped"}]
    /\ kind \in [VUs -> Kinds \cup {"none"}]
    /\ {forced, seen} \subseteq [VUs -> BOOLEAN]
    /\ err \in [VUs -> {"nil", "error", "raised"}]
    /\ attempt \in [VUs -> 0..MaxAttempts]
    /\ start \in [VUs -> 0..MaxClock]
CountRanges ==
    /\ {total, notes} \subseteq [Kinds -> Nat]
    /\ hist \in [Kinds -> [Buckets -> Nat]]
    /\ rollback \in [decided : Nat, done : Nat]
    /\ durations \in [Kinds -> [0..MaxClock -> Nat]]
SeriesRanges ==
    /\ truncated \in BOOLEAN /\ slots \in {<<>>} \cup [1..SlotCount -> Nat]
    /\ completed \in Seq(0..MaxClock)

LEMMA RangesAreType ==
    /\ TypeOK => VURanges /\ CountRanges /\ SeriesRanges
    /\ TypeOK /\ UNCHANGED run /\ VURanges' /\ CountRanges' /\ SeriesRanges' => TypeOK'
<1>1. TypeOK => VURanges /\ CountRanges /\ SeriesRanges
  BY DEF TypeOK, VURanges, CountRanges, SeriesRanges
<1>2. TypeOK /\ UNCHANGED run /\ VURanges' /\ CountRanges' /\ SeriesRanges' => TypeOK'
  BY DEF TypeOK, VURanges, CountRanges, SeriesRanges, run
<1> QED
  BY <1>1, <1>2

LEMMA VUTyped ==
    ASSUME TypeOK, Placed, NEW v \in VUs, VU(v)
    PROVE  TypeOK' /\ Placed'
<1> USE Widths
<1>1. VURanges /\ CountRanges /\ SeriesRanges
  BY RangesAreType
<1>2. phase # "setup" /\ (pc[v] \in Busy => phase = "run" /\ clock \in 0..MaxClock /\ kind[v] \in Kinds)
  <2>1. phase = "run"
    BY DEF VU, Pick, Leave, StartTx, AttemptCanceled, Attempt, RecordSteady, RecordDuration, Placed
  <2>2. clock \in 0..(MaxClock + 1) /\ clock <= MaxClock
    BY <2>1 DEF TypeOK, Placed
  <2> QED
    BY <2>1, <2>2 DEF Placed
<1>3. UNCHANGED run
  BY VUFrame
<1>4. VURanges' /\ \A u \in VUs : (pc'[u] \in Busy => kind'[u] \in Kinds) /\ start'[u] <= clock'
  <2>0. \A u \in VUs : (pc[u] \in Busy => kind[u] \in Kinds) /\ start[u] <= clock
    BY DEF Placed
  <2>1. CASE Pick(v)
    <3>1. PICK k \in Kinds : kind' = [kind EXCEPT ![v] = k]
      BY <2>1 DEF Pick
    <3> QED
      BY <1>1, <2>0, <2>1, <3>1 DEF Pick, Goto, VURanges, Busy, run
  <2>2. CASE Leave(v)
    BY <1>1, <2>0, <2>2 DEF Leave, Goto, VURanges, Busy, run
  <2>3. CASE StartTx(v)
    <3>1. PICK f \in BOOLEAN : forced' = [forced EXCEPT ![v] = f]
      BY <2>3 DEF StartTx
    <3>2. kind[v] \in Kinds /\ clock \in 0..MaxClock /\ 1 \in 0..MaxAttempts
      BY <1>2, <2>3 DEF StartTx, Busy
    <3> QED
      BY <1>1, <2>0, <2>3, <3>1, <3>2 DEF StartTx, Goto, VURanges, Busy, run
  <2>4. CASE AttemptCanceled(v)
    BY <1>1, <2>0, <2>4 DEF AttemptCanceled, Returns, Goto, VURanges, Busy, run
  <2>5. CASE Attempt(v)
    <3>1. /\ pc[v] = "attempt" /\ UNCHANGED <<kind, forced, start, clock>>
          /\ \E l \in {"attempt", "steady", "record"} : pc' = [pc EXCEPT ![v] = l] \/ pc' = pc
      BY <2>5, AttemptEffect DEF run
    <3>2. kind[v] \in Kinds
      BY <1>2, <3>1 DEF Busy
    <3>3. /\ pc' \in [VUs -> {"idle", "picked", "attempt", "steady", "record", "stopped"}]
          /\ \A u \in VUs : pc'[u] \in Busy => kind'[u] \in Kinds
      BY <1>1, <2>0, <3>1, <3>2 DEF VURanges, Busy
    <3>4. seen' \in [VUs -> BOOLEAN]
      BY <1>1, <2>5, AttemptEffect DEF VURanges
    <3>5. err' \in [VUs -> {"nil", "error", "raised"}]
      BY <1>1, <2>5, AttemptEffect DEF VURanges
    <3>6. attempt' \in [VUs -> 0..MaxAttempts]
      <4>1. \/ attempt' = attempt
            \/ attempt[v] < MaxAttempts /\ attempt' = [attempt EXCEPT ![v] = @ + 1]
        BY <2>5, AttemptEffect
      <4>2. attempt[v] \in 0..MaxAttempts /\ attempt \in [VUs -> 0..MaxAttempts]
        BY <1>1 DEF VURanges
      <4> QED
        BY <4>1, <4>2
    <3> QED
      BY <1>1, <2>0, <3>1, <3>3, <3>4, <3>5, <3>6 DEF VURanges
  <2>6. CASE RecordSteady(v)
    BY <1>1, <1>2, <2>0, <2>6 DEF RecordSteady, Goto, VURanges, Busy, run
  <2>7. CASE RecordDuration(v)
    <3>1. clock \in 0..MaxClock
      BY <1>2, <2>7 DEF RecordDuration, Busy
    <3> QED
      BY <1>1, <2>0, <2>7, <3>1 DEF RecordDuration, Goto, VURanges, Busy, run
  <2> QED
    BY <2>1, <2>2, <2>3, <2>4, <2>5, <2>6, <2>7 DEF VU
<1>5. CountRanges'
  <2>1. CASE Pick(v) \/ Leave(v) \/ AttemptCanceled(v)
    BY <1>1, <2>1 DEF Pick, Leave, AttemptCanceled, CountRanges, measured, history
  <2>2. CASE StartTx(v)
    <3>1. kind[v] \in Kinds
      BY <1>2, <2>2 DEF StartTx, Busy
    <3>2. \E n \in {0, 1} : rollback' = [rollback EXCEPT !.decided = @ + n]
      BY <2>2 DEF StartTx
    <3>3. rollback' \in [decided : Nat, done : Nat]
      <4>1. rollback \in [decided : Nat, done : Nat]
        BY <1>1 DEF CountRanges
      <4> QED
        BY <3>2, <4>1
    <3>4. total' \in [Kinds -> Nat]
      <4>1. total \in [Kinds -> Nat]
        BY <1>1 DEF CountRanges
      <4>2. total' = [total EXCEPT ![kind[v]] = @ + 1]
        BY <2>2 DEF StartTx
      <4> QED
        BY <3>1, <4>1, <4>2
    <3> QED
      BY <1>1, <2>2, <3>3, <3>4 DEF StartTx, CountRanges, history
  <2>3. CASE Attempt(v)
    <3>1. rollback' \in [decided : Nat, done : Nat]
      <4>1. rollback \in [decided : Nat, done : Nat]
        BY <1>1 DEF CountRanges
      <4>2. rollback' = rollback \/ rollback' = [rollback EXCEPT !.done = @ + 1]
        BY <2>3, AttemptEffect
      <4> QED
        BY <4>1, <4>2
    <3>2. UNCHANGED <<total, notes, hist, durations>>
      BY <2>3, AttemptEffect DEF history
    <3> QED
      BY <1>1, <3>1, <3>2 DEF CountRanges
  <2>4. CASE RecordSteady(v)
    BY <1>1, <2>4 DEF RecordSteady, CountRanges
  <2>5. CASE RecordDuration(v)
    <3> DEFINE k == kind[v]
               d == clock - start[v]
    <3>1. k \in Kinds /\ d \in 0..MaxClock /\ d \in Nat
      <4>1. kind[v] \in Kinds /\ clock \in 0..MaxClock
        BY <1>2, <2>5 DEF RecordDuration, Busy
      <4>2. start[v] \in 0..MaxClock /\ start[v] <= clock
        BY <1>1 DEF VURanges, Placed
      <4> QED
        BY <4>1, <4>2
    <3>2. Bucket(d) \in Buckets
      <4> HIDE DEF d, k
      <4> QED
        BY <3>1, BucketIsOne
    <3>3. /\ hist' = Observed(hist, k, Bucket(d)) /\ durations' = Observed(durations, k, d)
          /\ notes' = [notes EXCEPT ![k] = @ + IF seen[v] THEN 1 ELSE 0]
          /\ UNCHANGED <<total, rollback>>
      BY <2>5 DEF RecordDuration, Observed
    <3> HIDE DEF k, d
    <3>0. /\ hist \in [Kinds -> [Buckets -> Nat]] /\ notes \in [Kinds -> Nat]
          /\ durations \in [Kinds -> [0..MaxClock -> Nat]]
      BY <1>1 DEF CountRanges
    <3>4. hist' \in [Kinds -> [Buckets -> Nat]]
      BY <3>0, <3>1, <3>2, <3>3, OneObservation
    <3>5. durations' \in [Kinds -> [0..MaxClock -> Nat]]
      BY <3>0, <3>1, <3>3, OneObservation
    <3>6. notes' \in [Kinds -> Nat]
      BY <3>0, <3>1, <3>3
    <3> QED
      BY <1>1, <3>3, <3>4, <3>5, <3>6 DEF CountRanges
  <2> QED
    BY <2>1, <2>2, <2>3, <2>4, <2>5 DEF VU
<1>6. SeriesRanges'
  <2>1. CASE UNCHANGED <<truncated, slots, completed>>
    BY <1>1, <2>1 DEF SeriesRanges
  <2>2. CASE RecordSteady(v)
    <3>1. clock \in 0..MaxClock
      BY <1>2, <2>2 DEF RecordSteady, Busy
    <3>2. completed' \in Seq(0..MaxClock)
      BY <1>1, <2>2, <3>1 DEF RecordSteady, SeriesRanges
    <3>3. \/ UNCHANGED <<slots, truncated>>
          \/ truncated' = TRUE /\ UNCHANGED slots
          \/ slots' = [slots EXCEPT ![Slot] = @ + 1] /\ UNCHANGED truncated /\ slots # <<>>
      BY <2>2 DEF RecordSteady
    <3>4. slots # <<>> => slots' \in {<<>>} \cup [1..SlotCount -> Nat]
      BY <1>1, <3>3 DEF SeriesRanges
    <3> QED
      BY <1>1, <3>2, <3>3, <3>4 DEF SeriesRanges
  <2>3. CASE ~RecordSteady(v)
    <3>1. UNCHANGED <<truncated, slots, completed>>
      BY <2>3 DEF VU, Pick, Leave, StartTx, AttemptCanceled, Attempt, RecordDuration, measured,
         history
    <3> QED
      BY <2>1, <3>1
  <2> QED
    BY <2>2, <2>3
<1>7. TypeOK'
  BY <1>3, <1>4, <1>5, <1>6, RangesAreType
<1>8. Placed'
  <2>1. phase \in {"run", "teardown", "over"}
    BY <1>2 DEF TypeOK
  <2>2. phase = "run"
    BY <2>1 DEF VU, Pick, Leave, StartTx, AttemptCanceled, Attempt, RecordSteady, RecordDuration,
                Placed
  <2> QED
    BY <1>3, <1>4, <2>2 DEF Placed, run
<1> QED
  BY <1>7, <1>8

-----------------------------------------------------------------------------
(* Every transaction is measured once. *)

Running(k) == {v \in VUs : kind[v] = k /\ pc[v] \in {"attempt", "steady", "record"}}

LEMMA RunningIsFinite == \A k : IsFiniteSet(Running(k)) /\ Cardinality(Running(k)) \in Nat
<1> TAKE k
<1>1. Running(k) \in SUBSET VUs /\ IsFiniteSet(VUs)
  BY ReportAssumption DEF Running
<1> QED
  BY <1>1, FS_Subset, FS_CardinalityType

LEMMA FiniteDomains == IsFiniteSet(Buckets) /\ IsFiniteSet(0..MaxClock)
BY FS_Interval, Widths

LEMMA InitMeasured == Init => MeasuredOnce
<1> SUFFICES ASSUME Init, NEW k \in Kinds
             PROVE  total[k] = Count(hist[k]) + Cardinality(Running(k))
  BY DEF MeasuredOnce, Running
<1>1. Running(k) = {} /\ total[k] = 0
  BY DEF Init, Running
<1>2. hist[k] \in [Buckets -> Nat] /\ \A b \in Buckets : hist[k][b] = 0
  BY DEF Init
<1>3. Count(hist[k]) = 0
  BY <1>2, CountIsNat, FiniteDomains
<1> QED
  BY <1>1, <1>3, FS_EmptySet

\* A transaction that is measured takes this long, of this kind.
LEMMA Durations ==
    ASSUME TypeOK, Placed, NEW v \in VUs, RecordDuration(v)
    PROVE  /\ kind[v] \in Kinds /\ clock - start[v] \in 0..MaxClock /\ clock - start[v] \in Nat
           /\ Bucket(clock - start[v]) \in Buckets
           /\ hist' = Observed(hist, kind[v], Bucket(clock - start[v]))
           /\ durations' = Observed(durations, kind[v], clock - start[v])
<1>1. phase = "run" /\ kind[v] \in Kinds
  BY DEF RecordDuration, Placed, Busy
<1>2. clock \in 0..MaxClock
  BY <1>1, Widths DEF TypeOK, Placed
<1>3. start[v] \in 0..MaxClock /\ start[v] <= clock
  BY DEF TypeOK, Placed
<1> DEFINE d == clock - start[v]
<1>4. d \in 0..MaxClock /\ d \in Nat
  BY <1>2, <1>3, Widths
<1>5. hist' = Observed(hist, kind[v], Bucket(d)) /\ durations' = Observed(durations, kind[v], d)
  BY DEF RecordDuration, Observed
<1> HIDE DEF d
<1>6. Bucket(d) \in Buckets
  BY <1>4, BucketIsOne
<1> QED
  BY <1>1, <1>4, <1>5, <1>6 DEF d

LEMMA MeasuredStep == TypeOK /\ Placed /\ MeasuredOnce /\ [Next]_vars => MeasuredOnce'
<1> SUFFICES ASSUME TypeOK, Placed, MeasuredOnce, [Next]_vars, NEW k \in Kinds
             PROVE  (total[k] = Count(hist[k]) + Cardinality(Running(k)))'
  BY DEF MeasuredOnce, Running
<1>1. total[k] = Count(hist[k]) + Cardinality(Running(k))
  BY DEF MeasuredOnce, Running
<1>2. /\ total \in [Kinds -> Nat] /\ hist \in [Kinds -> [Buckets -> Nat]]
      /\ pc \in [VUs -> {"idle", "picked", "attempt", "steady", "record", "stopped"}]
      /\ kind \in [VUs -> Kinds \cup {"none"}]
  BY DEF TypeOK
<1>3. ASSUME UNCHANGED <<total, hist>>, Running(k)' = Running(k)
      PROVE  (total[k] = Count(hist[k]) + Cardinality(Running(k)))'
  BY <1>1, <1>3
<1>4. CASE UNCHANGED <<total, hist, kind, pc>>
  BY <1>3, <1>4 DEF Running
<1>5. ASSUME NEW v \in VUs, VU(v)
      PROVE  (total[k] = Count(hist[k]) + Cardinality(Running(k)))'
  <2>1. CASE Pick(v)
    <3>1. PICK c : kind' = [kind EXCEPT ![v] = c]
      BY <2>1 DEF Pick
    <3> QED
      BY <1>2, <1>3, <2>1, <3>1 DEF Pick, Goto, measured, Running
  <2>2. CASE Leave(v)
    BY <1>2, <1>3, <2>2 DEF Leave, Goto, measured, Running
  <2>3. CASE StartTx(v)
    <3>1. /\ pc[v] = "picked" /\ pc' = [pc EXCEPT ![v] = "attempt"]
          /\ total' = [total EXCEPT ![kind[v]] = @ + 1] /\ UNCHANGED <<kind, hist>>
      BY <2>3 DEF StartTx, Goto
    <3>2. CASE kind[v] = k
      <4>1. v \notin Running(k) /\ Running(k)' = Running(k) \cup {v}
        BY <1>2, <3>1, <3>2 DEF Running
      <4>2. Cardinality(Running(k)') = Cardinality(Running(k)) + 1
        BY <4>1, RunningIsFinite, FS_AddElement
      <4>3. total'[k] = total[k] + 1
        BY <1>2, <3>1, <3>2
      <4>4. Count(hist[k]) \in Nat /\ Cardinality(Running(k)) \in Nat
        BY <1>2, CountIsNat, FiniteDomains, RunningIsFinite
      <4> QED
        BY <1>1, <3>1, <4>2, <4>3, <4>4
    <3>3. CASE kind[v] # k
      <4>1. Running(k)' = Running(k)
        BY <1>2, <3>1, <3>3 DEF Running
      <4>2. total'[k] = total[k]
        BY <1>2, <3>1, <3>3
      <4> QED
        BY <1>1, <3>1, <4>1, <4>2
    <3> QED
      BY <3>2, <3>3
  <2>4. CASE AttemptCanceled(v)
    BY <1>2, <1>3, <2>4 DEF AttemptCanceled, Returns, Goto, measured, Running
  <2>5. CASE Attempt(v)
    <3>1. /\ pc[v] = "attempt" /\ UNCHANGED <<kind, total, hist>>
          /\ \E l \in {"attempt", "steady", "record"} : pc' = [pc EXCEPT ![v] = l] \/ pc' = pc
      BY <2>5, AttemptEffect
    <3> QED
      BY <1>2, <1>3, <3>1 DEF Running
  <2>6. CASE RecordSteady(v)
    BY <1>2, <1>3, <2>6 DEF RecordSteady, Goto, Running
  <2>7. CASE RecordDuration(v)
    <3> DEFINE b == Bucket(clock - start[v])
    <3>1. /\ pc[v] = "record" /\ UNCHANGED total
          /\ pc' = [pc EXCEPT ![v] = IF err[v] = "nil" THEN "idle" ELSE "stopped"]
          /\ kind' = [kind EXCEPT ![v] = "none"]
      BY <2>7 DEF RecordDuration, Goto
    <3>2. kind[v] \in Kinds /\ b \in Buckets /\ hist' = Observed(hist, kind[v], b)
      BY <2>7, Durations
    <3> HIDE DEF b
    <3>3. /\ hist'[kind[v]] = OneMore(hist[kind[v]], b)
          /\ kind[v] # k => hist'[k] = hist[k]
      <4> DEFINE c == kind[v]
      <4>0. c \in Kinds /\ hist \in [Kinds -> [Buckets -> Nat]] /\ hist' = Observed(hist, c, b)
        BY <1>2, <3>2
      <4> HIDE DEF c
      <4>1. OnlyAt(Observed(hist, c, b), hist, c, b)
        BY <3>2, <4>0, OneObservation
      <4> QED
        BY <1>2, <4>0, <4>1 DEF c, OnlyAt
    <3>4. CASE kind[v] = k
      <4>1. v \in Running(k) /\ Running(k)' = Running(k) \ {v}
        BY <1>2, <3>1, <3>4 DEF Running
      <4>2. Cardinality(Running(k)') = Cardinality(Running(k)) - 1
        BY <4>1, RunningIsFinite, FS_RemoveElement
      <4>3. hist[k] \in [Buckets -> Nat]
        BY <1>2
      <4>4. Count(hist'[k]) = Count(hist[k]) + 1
        BY <3>2, <3>3, <3>4, <4>3, CountOneMore, FiniteDomains
      <4>5. Count(hist[k]) \in Nat /\ Cardinality(Running(k)) \in Nat
        BY <4>3, CountIsNat, FiniteDomains, RunningIsFinite
      <4> QED
        BY <1>1, <3>1, <4>2, <4>4, <4>5
    <3>5. CASE kind[v] # k
      <4>1. Running(k)' = Running(k)
        BY <1>2, <3>1, <3>5 DEF Running
      <4> QED
        BY <1>1, <3>1, <3>3, <3>5, <4>1
    <3> QED
      BY <3>4, <3>5
  <2> QED
    BY <1>5, <2>1, <2>2, <2>3, <2>4, <2>5, <2>6, <2>7 DEF VU
<1>6. CASE UNCHANGED vars
  BY <1>4, <1>6 DEF vars, measured, perVU
<1>7. CASE SetupDone \/ SetupFails \/ Cancel \/ Tick \/ WorkersDone \/ EmitReport \/ Over
  BY <1>4, <1>7 DEF SetupDone, SetupFails, Cancel, Tick, WorkersDone, EmitReport, Over, vars,
     measured, perVU
<1> QED
  BY <1>5, <1>6, <1>7 DEF Next

-----------------------------------------------------------------------------
(* The histograms agree with what was measured. *)

LEMMA Ascending ==
    /\ \A i \in 1..Len(Bounds) : Bounds[i] \in Nat
    /\ \A i, j \in 1..Len(Bounds) : i < j => Bounds[i] < Bounds[j]
<1> DEFINE N == Len(Bounds)
           S == {j \in 0..N : \A i \in 1..(j - 1) : Bounds[i] < Bounds[j]}
<1>1. N \in Nat /\ \A i \in 1..N : Bounds[i] \in Nat
  BY ReportAssumption
<1>2. \A i \in 2..N : Bounds[i - 1] < Bounds[i]
  BY ReportAssumption
<1> HIDE DEF N
<1>3. 0 \in S
  BY <1>1
<1>4. \A n \in 0..(N - 1) : n \in S => n + 1 \in S
  <2> SUFFICES ASSUME NEW n \in 0..(N - 1), n \in S, NEW i \in 1..n
               PROVE  n + 1 \in 0..N /\ Bounds[i] < Bounds[n + 1]
    BY <1>1
  <2>1. n + 1 \in 2..N /\ (n + 1) - 1 = n /\ n \in 1..N /\ i \in 1..N
    BY <1>1
  <2>2. Bounds[n] < Bounds[n + 1]
    BY <1>2, <2>1
  <2>3. Bounds[i] \in Nat /\ Bounds[n] \in Nat /\ Bounds[n + 1] \in Nat
    BY <1>1, <2>1
  <2>4. i < n => Bounds[i] < Bounds[n]
    BY <1>1, <2>1
  <2>5. i = n \/ i < n
    BY <2>1
  <2> QED
    BY <1>1, <2>1, <2>2, <2>3, <2>4, <2>5
<1> HIDE DEF S
<1>5. 0..N \subseteq S
  BY <1>1, <1>3, <1>4, UpTo
<1>6. \A i, j \in 1..N : i < j => Bounds[i] < Bounds[j]
  <2> TAKE i, j \in 1..N
  <2> HAVE i < j
  <2>1. j \in 0..N /\ i \in 1..(j - 1)
    BY <1>1
  <2> QED
    BY <1>5, <2>1 DEF S
<1> QED
  BY <1>1, <1>6 DEF N

\* An observation is in the buckets up to a bound when it does not exceed it.
LEMMA BucketBelow ==
    \A d \in Nat : \A c \in 1..Len(Bounds) : Bucket(d) <= c <=> d <= Bounds[c]
<1> TAKE d \in Nat
<1> DEFINE S == {i \in 1..Len(Bounds) : d <= Bounds[i]} \cup {Len(Bounds) + 1}
<1>1. S \subseteq Nat /\ S # {}
  BY Widths
<1>2. Bucket(d) = Min(S)
  BY DEF Bucket
<1>3. \A i \in 1..Len(Bounds) : i \in S <=> d <= Bounds[i]
  BY Widths
<1>4. \A i \in S : i \in 1..Len(Bounds) \/ i = Len(Bounds) + 1
  OBVIOUS
<1> HIDE DEF S
<1>5. Bucket(d) \in S /\ \A j \in S : Bucket(d) <= j
  BY <1>1, <1>2, LeastIsMin
<1> TAKE c \in 1..Len(Bounds)
<1>6. ASSUME d <= Bounds[c]
      PROVE  Bucket(d) <= c
  BY <1>3, <1>5, <1>6
<1>7. ASSUME Bucket(d) <= c
      PROVE  d <= Bounds[c]
  <2> DEFINE b == Bucket(d)
  <2>1. b \in 1..Len(Bounds)
    BY <1>4, <1>5, <1>7, Widths
  <2>2. d <= Bounds[b]
    BY <1>3, <1>5, <2>1
  <2>3. Bounds[b] \in Nat /\ Bounds[c] \in Nat /\ (b < c => Bounds[b] < Bounds[c])
    BY <2>1, Ascending
  <2>4. b = c \/ b < c
    BY <1>7, <2>1
  <2> HIDE DEF b
  <2> QED
    BY <2>2, <2>3, <2>4
<1> QED
  BY <1>6, <1>7

LEMMA BelowOneMore ==
    ASSUME NEW h \in [Buckets -> Nat], NEW b \in Buckets, NEW c \in Buckets
    PROVE  /\ Below(h, c) \in Nat
           /\ Below(OneMore(h, b), c) = Below(h, c) + IF b <= c THEN 1 ELSE 0
<1> DEFINE E == 1..c
           part == Part(h, E)
<1>1. c \in Nat /\ E \in SUBSET Buckets /\ IsFiniteSet(E) /\ (b \in E <=> b <= c)
  BY Widths, FS_Interval
<1>2. part \in [E -> Nat]
  BY <1>1 DEF Part
<1> HIDE DEF E
<1>3. /\ b \in E => Count(Part(OneMore(h, b), E)) = Count(part) + 1
      /\ b \notin E => Count(Part(OneMore(h, b), E)) = Count(part)
  BY <1>1, PartOneMore
<1>4. Count(part) \in Nat
  <2> HIDE DEF part
  <2> QED
    BY <1>1, <1>2, CountIsNat
<1> QED
  BY <1>1, <1>3, <1>4 DEF Below, E

Times == 0..MaxClock

LEMMA NoLongerOneMore ==
    ASSUME NEW w \in [Times -> Nat], NEW d \in Times, NEW bound \in Nat
    PROVE  /\ NoLonger(w, bound) \in Nat
           /\ NoLonger(OneMore(w, d), bound) = NoLonger(w, bound) + IF d <= bound THEN 1 ELSE 0
<1> DEFINE E == {e \in Times : e <= bound}
           part == Part(w, E)
<1>1. E \in SUBSET Times /\ (d \in E <=> d <= bound)
  BY DEF Times
<1>2. IsFiniteSet(E)
  BY <1>1, FiniteDomains, FS_Subset DEF Times
<1>3. part \in [E -> Nat] 
  BY DEF Part, Times
<1> HIDE DEF E
<1>4. /\ d \in E => Count(Part(OneMore(w, d), E)) = Count(Part(w, E)) + 1
      /\ d \notin E => Count(Part(OneMore(w, d), E)) = Count(Part(w, E))
  BY <1>1, <1>2, PartOneMore
<1>5. Count(part) \in Nat
  <2> HIDE DEF part
  <2> QED
    BY <1>2, <1>3, CountIsNat
<1> QED
  BY <1>1, <1>4, <1>5 DEF NoLonger, E, Times

LEMMA MatchesOneMore ==
    ASSUME NEW h \in [Buckets -> Nat], NEW w \in [0..MaxClock -> Nat], NEW d \in 0..MaxClock,
           Matches(h, w)
    PROVE  Matches(OneMore(h, Bucket(d)), OneMore(w, d))
<1> DEFINE b == Bucket(d)
           g == OneMore(h, b)
           u == OneMore(w, d)
<1>0. d \in Nat
  BY Widths
<1>1. d \in Nat /\ b \in Buckets
  BY <1>0, BucketIsOne
<1>2. \A c \in 1..Len(Bounds) : b <= c <=> d <= Bounds[c]
  BY <1>1, BucketBelow
<1> HIDE DEF b
<1>3. Count(g) = Count(h) + 1
  BY <1>1, FiniteDomains, CountOneMore
<1>4. Count(u) = Count(w) + 1
  <2> DEFINE D == 0..MaxClock
  <2>1. w \in [D -> Nat] /\ d \in D /\ IsFiniteSet(D)
    BY FiniteDomains
  <2> HIDE DEF D
  <2> QED
    BY <2>1, CountOneMore
<1>5. \A c \in Buckets : /\ Below(h, c) \in Nat
                         /\ Below(g, c) = Below(h, c) + IF b <= c THEN 1 ELSE 0
  BY <1>1, BelowOneMore
<1>6. \A n \in Nat : NoLonger(u, n) = NoLonger(w, n) + IF d <= n THEN 1 ELSE 0
  BY NoLongerOneMore DEF Times
<1> HIDE DEF g, u
<1>7. ASSUME NEW c \in 1..Len(Bounds)
      PROVE  Below(g, c) = NoLonger(u, Bounds[c])
  <2>1. c \in Buckets /\ Bounds[c] \in Nat
    BY Widths, Ascending
  <2>2. Below(h, c) = NoLonger(w, Bounds[c])
    BY DEF Matches
  <2> QED
    BY <1>2, <1>5, <1>6, <2>1, <2>2
<1>8. ASSUME NEW a \in Buckets, NEW c \in Buckets, a <= c
      PROVE  Below(g, a) <= Below(g, c)
  <2>1. Below(h, a) <= Below(h, c)
    BY <1>8 DEF Matches
  <2>2. b <= a => b <= c
    BY <1>1, <1>8, Widths
  <2> QED
    BY <1>5, <2>1, <2>2
<1>9. Count(h) = Count(w)
  BY DEF Matches
<1>10. Matches(g, u)
  BY <1>3, <1>4, <1>7, <1>8, <1>9 DEF Matches
<1> QED
  BY <1>10 DEF g, u, b

LEMMA InitAgree == Init => Agree
<1> SUFFICES ASSUME Init, NEW k \in Kinds
             PROVE  Matches(hist[k], durations[k])
  BY DEF Agree
<1> DEFINE h == hist[k]
           w == durations[k]
           D == 0..MaxClock
<1>1. /\ h \in [Buckets -> Nat] /\ \A b \in Buckets : h[b] = 0
      /\ w \in [D -> Nat] /\ \A d \in D : w[d] = 0
  BY DEF Init
<1>2. IsFiniteSet(Buckets) /\ IsFiniteSet(D)
  BY FiniteDomains
<1> HIDE DEF h, w
<1>3. Count(h) = 0
  BY <1>1, <1>2, CountIsNat
<1>4. Count(w) = 0
  <2> HIDE DEF D
  <2> QED
    BY <1>1, <1>2, CountIsNat
<1>5. ASSUME NEW c \in Buckets
      PROVE  Below(h, c) = 0
  <2> DEFINE E == 1..c
             part == Part(h, E)
  <2>1. E \subseteq Buckets /\ IsFiniteSet(E)
    BY Widths, FS_Interval
  <2>2. part \in [E -> Nat] /\ \A x \in E : part[x] = 0
    BY <1>1, <2>1 DEF Part
  <2>3. Count(part) = 0
    <3> HIDE DEF E, part
    <3> QED
      BY <2>1, <2>2, CountIsNat
  <2> QED
    BY <2>3 DEF Below
<1>6. ASSUME NEW n
      PROVE  NoLonger(w, n) = 0
  <2> DEFINE E == {e \in D : e <= n}
             part == Part(w, E)
  <2>1. E \subseteq D
    OBVIOUS
  <2>2. IsFiniteSet(E)
    BY <1>2, <2>1, FS_Subset
  <2>3. part \in [E -> Nat] /\ \A x \in E : part[x] = 0
    BY <1>1, <2>1 DEF Part
  <2>4. Count(part) = 0
    <3> HIDE DEF E, part
    <3> QED
      BY <2>2, <2>3, CountIsNat
  <2> QED
    BY <2>4 DEF NoLonger
<1>7. Matches(h, w)
  <2>1. \A c \in 1..Len(Bounds) : c \in Buckets
    BY Widths
  <2> QED
    BY <1>3, <1>4, <1>5, <1>6, <2>1 DEF Matches
<1> QED
  BY <1>7 DEF h, w

LEMMA AgreeStep == TypeOK /\ Placed /\ Agree /\ [Next]_vars => Agree'
<1> SUFFICES ASSUME TypeOK, Placed, Agree, [Next]_vars PROVE Agree'
  OBVIOUS
<1>1. CASE UNCHANGED <<hist, durations>>
  BY <1>1 DEF Agree, Below, NoLonger
<1>2. ASSUME NEW v \in VUs, RecordDuration(v)
      PROVE  Agree'
  <2> DEFINE c == kind[v]
             d == clock - start[v]
             b == Bucket(d)
  <2>1. /\ c \in Kinds /\ d \in 0..MaxClock /\ b \in Buckets
        /\ hist' = Observed(hist, c, b) /\ durations' = Observed(durations, c, d)
    BY <1>2, Durations
  <2>2. hist \in [Kinds -> [Buckets -> Nat]] /\ durations \in [Kinds -> [0..MaxClock -> Nat]]
    BY DEF TypeOK
  <2> HIDE DEF c, d
  <2>3. OnlyAt(hist', hist, c, b)
    <3> HIDE DEF b
    <3> QED
      BY <2>1, <2>2, OneObservation
  <2>4. OnlyAt(durations', durations, c, d)
    <3> DEFINE D == 0..MaxClock
    <3>1. durations \in [Kinds -> [D -> Nat]] /\ d \in D
      BY <2>1, <2>2
    <3> HIDE DEF D
    <3> QED
      BY <2>1, <3>1, OneObservation
  <2>5. ASSUME NEW k \in Kinds
        PROVE  Matches(hist'[k], durations'[k])
    <3>1. Matches(hist[k], durations[k])
      BY DEF Agree
    <3>2. CASE k = c
      <4> DEFINE h == hist[k]
                 w == durations[k]
      <4>1. h \in [Buckets -> Nat] /\ w \in [0..MaxClock -> Nat]
        BY <2>2
      <4> HIDE DEF h, w
      <4>2. Matches(h, w)
        BY <3>1 DEF h, w
      <4>3. Matches(OneMore(h, b), OneMore(w, d))
        BY <2>1, <4>1, <4>2, MatchesOneMore
      <4>4. hist'[k] = OneMore(h, b) /\ durations'[k] = OneMore(w, d)
        BY <2>3, <2>4, <3>2 DEF OnlyAt, h, w
      <4> QED
        BY <4>3, <4>4
    <3>3. CASE k # c
      BY <2>2, <2>3, <2>4, <3>1, <3>3 DEF OnlyAt
    <3> QED
      BY <3>2, <3>3
  <2> QED
    BY <2>5 DEF Agree, Matches, Below, NoLonger
<1>3. CASE \A v \in VUs : ~RecordDuration(v)
  <2>1. UNCHANGED <<hist, durations>>
    <3>1. ASSUME NEW v \in VUs, VU(v)
          PROVE  UNCHANGED <<hist, durations>>
      BY <1>3, <3>1 DEF VU, Pick, Leave, StartTx, AttemptCanceled, Attempt, RecordSteady, measured,
                        history
    <3>2. CASE SetupDone \/ SetupFails \/ Cancel \/ Tick \/ WorkersDone \/ EmitReport \/ Over
      BY <3>2 DEF SetupDone, SetupFails, Cancel, Tick, WorkersDone, EmitReport, Over, vars,
         measured, history
    <3>3. CASE UNCHANGED vars
      BY <3>3 DEF vars, measured, history
    <3> QED
      BY <3>1, <3>2, <3>3 DEF Next
  <2> QED
    BY <1>1, <2>1
<1> QED
  BY <1>2, <1>3

-----------------------------------------------------------------------------
(* The slots hold what was recorded. *)

LEMMA Divides ==
    ASSUME NEW a \in Int, NEW b \in Nat \ {0}
    PROVE  /\ a \div b \in Int
           /\ (a \div b) * b <= a /\ a < (a \div b) * b + b
           /\ a >= 0 => a \div b \in Nat
<1> DEFINE q == a \div b
<1>1. q \in Int /\ a = b * q + (a % b) /\ (a % b) \in 0..(b - 1)
  OBVIOUS
<1> HIDE DEF q
<1>2. q < 0 => b * q <= -b
  BY <1>1
<1>3. b * q = q * b /\ q * b \in Int
  BY <1>1
<1>4. a >= 0 => q >= 0
  BY <1>1, <1>2
<1>5. q * b <= a /\ a < q * b + b
  BY <1>1, <1>3
<1> QED
  BY <1>1, <1>4, <1>5 DEF q

LEMMA ProductGrows ==
    ASSUME NEW i \in Int, NEW j \in Int, NEW b \in Nat, i <= j
    PROVE  i * b <= j * b /\ i * b \in Int /\ j * b \in Int
<1>1. (j - i) \in Nat /\ (j - i) * b >= 0
  OBVIOUS
<1>2. (j - i) * b = j * b - i * b
  OBVIOUS
<1> QED
  BY <1>1, <1>2

\* The slot of a moment is at most m when the moment is within m slots.
LEMMA SlotBound ==
    ASSUME NEW a \in Int, NEW b \in Nat \ {0}, NEW m \in Int
    PROVE  (a \div b) + 1 <= m <=> a < m * b
<1> DEFINE q == a \div b
<1>1. q \in Int /\ q * b <= a /\ a < q * b + b
  BY Divides
<1> HIDE DEF q
<1>2. ASSUME q + 1 <= m PROVE a < m * b
  <2>1. (q + 1) * b <= m * b /\ (q + 1) * b \in Int /\ m * b \in Int
    BY <1>1, <1>2, ProductGrows
  <2>2. (q + 1) * b = q * b + b
    BY <1>1
  <2> QED
    BY <1>1, <2>1, <2>2
<1>3. ASSUME m <= q PROVE ~(a < m * b)
  <2>1. m * b <= q * b /\ m * b \in Int /\ q * b \in Int
    BY <1>1, <1>3, ProductGrows
  <2> QED
    BY <1>1, <2>1
<1>4. q + 1 <= m \/ m <= q
  BY <1>1
<1>5. q + 1 <= m <=> a < m * b
  BY <1>1, <1>2, <1>3, <1>4
<1> QED
  BY <1>5 DEF q

LEMMA VUInRun ==
    ASSUME TypeOK, Placed, NEW v \in VUs, VU(v)
    PROVE  phase = "run"
BY DEF VU, Pick, Leave, StartTx, AttemptCanceled, Attempt, RecordSteady, RecordDuration, Placed

LEMMA RecordedKept ==
    ASSUME TypeOK, Recorded, UNCHANGED <<slots, completed, truncated, measureStart>>,
           clock' \in Nat, clock <= clock',
           phase' \in {"teardown", "over"} =>
               clock < clock' \/ (clock' = clock /\ phase \in {"teardown", "over"})
    PROVE  Recorded'
<1> SUFFICES ASSUME slots # <<>> PROVE Recorded'
  BY DEF Recorded
<1>1. /\ clock \in Nat /\ measureStart \in Int
      /\ completed \in Seq(0..MaxClock)
  BY Widths DEF TypeOK
<1>2. /\ measureStart \in 0..clock
      /\ \A i \in DOMAIN completed : completed[i] \in measureStart..clock
  BY DEF Recorded
<1>3. /\ measureStart' \in 0..clock'
      /\ \A i \in DOMAIN completed' : completed'[i] \in measureStart'..clock'
  BY <1>1, <1>2
<1>4. phase' \in {"teardown", "over"} =>
          measureStart' < clock' /\ \A i \in DOMAIN completed' : completed'[i] < clock'
  <2>1. CASE clock < clock'
    BY <1>1, <1>2, <2>1
  <2>2. CASE clock' = clock /\ phase \in {"teardown", "over"}
    BY <2>2 DEF Recorded
  <2> QED
    BY <2>1, <2>2
<1>5. \A m \in 1..SlotCount : slots'[m] = Cardinality(In(m)')
  <2>1. \A m : In(m)' = In(m)
    BY DEF In, SlotOf
  <2> QED
    BY <2>1 DEF Recorded
<1>6. truncated' <=> \E i \in DOMAIN completed' : SlotOf(completed[i])' > SlotCount
  <2>1. \A i : SlotOf(completed[i])' = SlotOf(completed[i])
    BY DEF SlotOf
  <2> QED
    BY <2>1 DEF Recorded
<1> QED
  BY <1>3, <1>4, <1>5, <1>6 DEF Recorded

\* A New-Order completes now.
LEMMA SteadyRecorded ==
    ASSUME TypeOK, Placed, Recorded, NEW v \in VUs, RecordSteady(v)
    PROVE  Recorded'
<1> DEFINE n == Len(completed)
           s == SlotOf(clock)
<1>0. phase = "run"
  <2>1. VU(v)
    BY DEF VU
  <2> QED
    BY <2>1, VUInRun
<1>1. /\ completed' = Append(completed, clock)
      /\ UNCHANGED <<clock, measureStart, phase>> /\ phase = "run"
      /\ completed \in Seq(0..MaxClock)
      /\ slots \in {<<>>} \cup [1..SlotCount -> Nat]
      /\ clock \in Nat
  BY <1>0, Widths DEF RecordSteady, run, TypeOK
<1>2. SlotOf(clock) = Slot
  BY DEF SlotOf, Slot
<1>3. /\ slots = <<>> => slots' = <<>>
      /\ slots # <<>> /\ s > SlotCount => truncated' = TRUE /\ slots' = slots
      /\ slots # <<>> /\ ~(s > SlotCount) =>
             slots' = [slots EXCEPT ![s] = @ + 1] /\ truncated' = truncated
  BY <1>2 DEF RecordSteady
<1> SUFFICES ASSUME slots' # <<>> PROVE Recorded'
  BY DEF Recorded
<1>4. slots # <<>> /\ slots \in [1..SlotCount -> Nat]
  BY <1>1, <1>3
<1>5. /\ measureStart \in 0..clock
      /\ \A i \in DOMAIN completed : completed[i] \in measureStart..clock
      /\ \A m \in 1..SlotCount : slots[m] = Cardinality(In(m))
      /\ truncated <=> \E i \in DOMAIN completed : SlotOf(completed[i]) > SlotCount
  BY <1>4 DEF Recorded
<1>6. s \in Nat \ {0}
  <2>1. clock - measureStart \in Int /\ clock - measureStart >= 0
    BY <1>1, <1>5
  <2> DEFINE a == clock - measureStart
  <2>2. a \div SlotWidth \in Nat
    <3> HIDE DEF a
    <3> QED
      BY <2>1, Divides, Widths DEF a
  <2> QED
    BY <2>2 DEF SlotOf
<1> HIDE DEF s
<1>7. /\ n \in Nat /\ DOMAIN completed = 1..n /\ DOMAIN completed' = (1..n) \cup {n + 1}
      /\ \A i \in 1..n : completed'[i] = completed[i]
      /\ completed'[n + 1] = clock
  BY <1>1
<1> HIDE DEF n
<1>8. \A t : SlotOf(t)' = SlotOf(t)
  BY <1>1 DEF SlotOf
<1>9. \A m : In(m)' = IF s = m THEN In(m) \cup {n + 1} ELSE In(m)
  <2> TAKE m
  <2>1. In(m) = {i \in 1..n : SlotOf(completed[i]) = m}
    BY <1>7 DEF In
  <2>2. In(m)' = {i \in (1..n) \cup {n + 1} : SlotOf(completed'[i]) = m}
    BY <1>7, <1>8 DEF In
  <2>3. SlotOf(completed'[n + 1]) = s
    BY <1>7 DEF s
  <2> QED
    BY <1>7, <2>1, <2>2, <2>3
<1>10. \A m : IsFiniteSet(In(m)) /\ n + 1 \notin In(m) /\ Cardinality(In(m)) \in Nat
  <2> TAKE m
  <2>1. In(m) \subseteq 1..n /\ n + 1 \notin 1..n
    BY <1>7 DEF In
  <2>2. IsFiniteSet(1..n)
    <3>1. 1 \in Int /\ n \in Int
      BY <1>7
    <3> QED
      BY <3>1, FS_Interval
  <2>3. IsFiniteSet(In(m))
    BY <2>1, <2>2, FS_Subset
  <2> QED
    BY <2>1, <2>3, FS_CardinalityType
<1>11. ASSUME NEW m \in 1..SlotCount
       PROVE  slots'[m] = Cardinality(In(m)')
  <2>1. slots[m] = Cardinality(In(m)) /\ slots[m] \in Nat
    BY <1>4, <1>5
  <2>2. CASE s = m
    <3>1. slots'[m] = slots[m] + 1
      BY <1>3, <1>4, <2>2, Widths
    <3>2. Cardinality(In(m)') = Cardinality(In(m)) + 1
      BY <1>9, <1>10, <2>2, FS_AddElement
    <3> QED
      BY <2>1, <3>1, <3>2
  <2>3. CASE s # m
    <3>1. slots'[m] = slots[m]
      BY <1>3, <1>4, <2>3
    <3>2. In(m)' = In(m)
      BY <1>9, <2>3
    <3> QED
      BY <2>1, <3>1, <3>2
  <2> QED
    BY <2>2, <2>3
<1>12. truncated' <=> \E i \in DOMAIN completed' : SlotOf(completed[i])' > SlotCount
  <2>0. \A i : SlotOf(completed[i])' = SlotOf(completed'[i])
    BY <1>1 DEF SlotOf
  <2>1. SlotOf(completed'[n + 1]) = s /\ \A i \in 1..n : SlotOf(completed'[i]) = SlotOf(completed[i])
    BY <1>7 DEF s
  <2>2. (\E i \in DOMAIN completed' : SlotOf(completed[i])' > SlotCount)
            <=> (\E i \in 1..n : SlotOf(completed[i]) > SlotCount) \/ s > SlotCount
    BY <1>7, <2>0, <2>1
  <2>3. truncated <=> \E i \in 1..n : SlotOf(completed[i]) > SlotCount
    BY <1>5, <1>7
  <2>4. CASE s > SlotCount
    BY <1>3, <1>4, <2>2, <2>4
  <2>5. CASE ~(s > SlotCount)
    BY <1>3, <1>4, <2>2, <2>3, <2>5
  <2> QED
    BY <2>4, <2>5
<1>13. /\ measureStart' \in 0..clock'
       /\ \A i \in DOMAIN completed' : completed'[i] \in measureStart'..clock'
  BY <1>1, <1>5, <1>7
<1>14. phase' \notin {"teardown", "over"}
  BY <1>1
<1> QED
  BY <1>11, <1>12, <1>13, <1>14 DEF Recorded

LEMMA RecordedStep == TypeOK /\ Placed /\ Recorded /\ [Next]_vars => Recorded'
<1> SUFFICES ASSUME TypeOK, Placed, Recorded, [Next]_vars PROVE Recorded'
  OBVIOUS
<1>0. /\ clock \in Nat /\ phase \in {"setup", "run", "teardown", "over"}
      /\ measureStart \in Int
  BY Widths DEF TypeOK
<1>1. CASE SetupDone
  <2>1. completed' = <<>> /\ ~truncated' /\ UNCHANGED <<clock, truncated>>
    BY <1>1 DEF SetupDone, Placed, history
  <2>2. measureStart' = clock' /\ clock' \in Nat /\ phase' = "run"
    BY <1>0, <1>1 DEF SetupDone
  <2>3. slots' = <<>> \/ \A m \in 1..SlotCount : slots'[m] = 0
    BY <1>1 DEF SetupDone
  <2>4. \A m : In(m)' = {}
    BY <2>1 DEF In
  <2>5. truncated' = FALSE
    BY <1>1, <2>1 DEF TypeOK
  <2>6. /\ \A m \in 1..SlotCount : Cardinality(In(m)') = 0
        /\ DOMAIN completed' = {}
    BY <2>1, <2>4, FS_EmptySet
  <2> QED
    BY <2>2, <2>3, <2>5, <2>6 DEF Recorded
<1>2. CASE SetupFails
  BY <1>2 DEF SetupFails, Placed, measured, Recorded
<1>3. CASE Cancel \/ EmitReport \/ Over
  <2>1. /\ UNCHANGED <<slots, completed, truncated, measureStart, clock>>
        /\ phase' \in {"teardown", "over"} => phase \in {"teardown", "over"}
    BY <1>3 DEF Cancel, EmitReport, Over, vars, measured, history, run
  <2> QED
    BY <1>0, <2>1, RecordedKept
<1>4. CASE Tick \/ WorkersDone
  <2>1. UNCHANGED <<slots, completed, truncated, measureStart>> /\ clock' = clock + 1
    BY <1>4 DEF Tick, WorkersDone, measured, history
  <2> QED
    BY <1>0, <2>1, RecordedKept
<1>5. ASSUME NEW v \in VUs, VU(v) PROVE Recorded'
  <2>1. CASE RecordSteady(v)
    BY <2>1, SteadyRecorded
  <2>2. CASE ~RecordSteady(v)
    <3>1. UNCHANGED <<slots, completed, truncated>>
      BY <1>5, <2>2 DEF VU, Pick, Leave, StartTx, AttemptCanceled, Attempt, RecordDuration,
         measured, history
    <3>2. UNCHANGED <<clock, measureStart, phase>>
      BY <1>5, VUFrame DEF run
    <3> QED
      BY <1>0, <3>1, <3>2, RecordedKept
  <2> QED
    BY <2>1, <2>2
<1>6. CASE UNCHANGED vars
  <2>1. UNCHANGED <<slots, completed, truncated, measureStart, clock, phase>>
    BY <1>6 DEF vars, measured, history, run
  <2> QED
    BY <1>0, <2>1, RecordedKept
<1> QED
  BY <1>1, <1>2, <1>3, <1>4, <1>5, <1>6 DEF Next

-----------------------------------------------------------------------------
(* The report is of what Teardown found. *)

LEMMA SameReport ==
    ASSUME UNCHANGED <<pacing, hist, slots, truncated>>, NEW e
    PROVE  Report(e)' = Report(e)
<1>1. Measured' = Measured
  BY DEF Measured
<1>2. \A k : MixPass(k)' = MixPass(k)
  BY <1>1 DEF MixPass
<1>3. \A k : ResponsePass(k)' = ResponsePass(k)
  BY <1>1 DEF ResponsePass
<1>4. SeriesOf(e)' = SeriesOf(e)
  BY DEF SeriesOf
<1> QED
  BY <1>1, <1>2, <1>3, <1>4 DEF Report

LEMMA ToldStep == TypeOK /\ Placed /\ Told /\ [Next]_vars => Told'
<1> SUFFICES ASSUME TypeOK, Placed, Told, [Next]_vars PROVE Told'
  OBVIOUS
<1>1. CASE EmitReport
  <2>1. UNCHANGED <<pacing, hist, slots, truncated, clock, measureStart>> /\ phase' = "over"
    BY <1>1 DEF EmitReport, measured
  <2> DEFINE e == clock - measureStart
  <2>2. report' \in {<<>>, <<Report(e)>>}
    BY <1>1 DEF EmitReport
  <2>3. Report(e)' = Report(e)
    <3>1. e' = e
      BY <2>1
    <3> HIDE DEF e
    <3> QED
      BY <2>1, <3>1, SameReport
  <2> QED
    BY <2>1, <2>2, <2>3 DEF Told
<1>2. CASE Over \/ UNCHANGED vars
  <2>1. UNCHANGED <<pacing, hist, slots, truncated, clock, measureStart, phase, report>>
    BY <1>2 DEF Over, vars, measured, run
  <2> DEFINE e == clock - measureStart
  <2>2. e' = e
    BY <2>1
  <2>3. Report(e)' = Report(e)
    <3> HIDE DEF e
    <3> QED
      BY <2>1, <2>2, SameReport
  <2> QED
    BY <2>1, <2>3 DEF Told
<1>3. ASSUME phase # "over", phase' # "over", report' = report PROVE Told'
  BY <1>3 DEF Told
<1>4. CASE SetupDone \/ SetupFails \/ Cancel \/ Tick \/ WorkersDone
  BY <1>3, <1>4 DEF SetupDone, SetupFails, Cancel, Tick, WorkersDone
<1>5. ASSUME NEW v \in VUs, VU(v) PROVE Told'
  <2>1. phase = "run" /\ UNCHANGED <<phase, report>>
    BY <1>5, VUInRun, VUFrame DEF run
  <2> QED
    BY <1>3, <2>1
<1> QED
  BY <1>1, <1>2, <1>4, <1>5 DEF Next

THEOREM Invariance == Spec => []IInv
<1>1. Init => IInv
  <2>1. Init => Recorded /\ Told
    BY DEF Init, Recorded, Told
  <2> QED
    BY <2>1, InitTyped, InitMeasured, InitAgree DEF IInv
<1>2. IInv /\ [Next]_vars => IInv'
  <2> SUFFICES ASSUME IInv, [Next]_vars PROVE IInv'
    OBVIOUS
  <2>1. TypeOK /\ Placed /\ MeasuredOnce /\ Agree /\ Recorded /\ Told
    BY DEF IInv
  <2>2. TypeOK' /\ Placed'
    <3>1. CASE UNCHANGED vars
      BY <2>1, <3>1 DEF vars, run, perVU, measured, history, TypeOK, Placed
    <3> QED
      BY <2>1, <3>1, RunTyped, VUTyped DEF Next
  <2>3. MeasuredOnce' /\ Agree'
    BY <2>1, MeasuredStep, AgreeStep
  <2>4. Recorded' /\ Told'
    BY <2>1, RecordedStep, ToldStep
  <2> QED
    BY <2>2, <2>3, <2>4 DEF IInv
<1> QED
  BY <1>1, <1>2, PTL DEF Spec

\* The ranges of TypeOK hold throughout every run: counts that never go below zero, and slots
\* of a paced run only.
THEOREM TypeCorrect == Spec => []TypeOK
<1>1. IInv => TypeOK
  BY DEF IInv
<1> QED
  BY <1>1, Invariance, PTL

\* A transaction that was started is measured exactly once: RecordDuration is the one step that
\* observes it, however it was retried, rolled back or cancelled.
THEOREM EveryTxMeasured == Spec => []MeasuredOnce
<1>1. IInv => MeasuredOnce
  BY DEF IInv
<1> QED
  BY <1>1, Invariance, PTL

-----------------------------------------------------------------------------
(* The verdicts. *)

LEMMA ReportedIs ==
    ASSUME Told, Reported
    PROVE  report[1] = Report(clock - measureStart)
BY DEF Told, Reported

LEMMA CeilingIsBound ==
    \A k : \E c \in 1..Len(Bounds) : c < Len(Bounds) /\ Ceiling(k) = Bounds[c]
<1> TAKE k
<1> DEFINE N == Len(Bounds)
<1>1. N \in Nat \ {0} /\ Bounds \in Seq(Nat)
  BY Widths, ReportAssumption
<1>2. Ceiling(k) \in Range(Front(Bounds))
  BY ReportAssumption DEF Ceiling
<1>3. Front(Bounds) = [i \in 1..(N - 1) |-> Bounds[i]]
  BY <1>1 DEF Front
<1>4. PICK c \in 1..(N - 1) : Ceiling(k) = Bounds[c]
  BY <1>2, <1>3 DEF Range
<1> QED
  BY <1>1, <1>4

\* The rank asked for is among the observations, and nine tenths of them reach it.
LEMMA RankOfNinety ==
    ASSUME NEW n \in Nat, n > 0
    PROVE  /\ Rank(n, 90) \in 1..n
           /\ \A x \in Nat : 10 * x >= 9 * n => x >= Rank(n, 90)
           /\ \A x \in Nat : x >= Rank(n, 90) => 10 * (x + 1) >= 9 * n
<1> DEFINE a == (n - 1) * 90
           q == a \div 100
<1>1. a \in Nat
  OBVIOUS
<1>2. q \in Nat /\ q * 100 <= a /\ a < q * 100 + 100
  BY <1>1
<1>3. Rank(n, 90) = q + 1
  BY DEF Rank
<1> HIDE DEF q
<1> QED
  BY <1>2, <1>3

\* The quantile is within a bound, the last excepted, when the buckets up to it hold the rank.
LEMMA QuantileWithin ==
    ASSUME NEW h \in [Buckets -> Nat], Count(h) > 0,
           NEW c \in 1..Len(Bounds), c < Len(Bounds),
           \A x, y \in Buckets : x <= y => Below(h, x) <= Below(h, y)
    PROVE  Quantile(h, 90) <= Bounds[c] <=> Below(h, c) >= Rank(Count(h), 90)
<1> DEFINE N == Len(Bounds)
           r == Rank(Count(h), 90)
           Q == {x \in Buckets : Below(h, x) >= r}
           b == Min(Q)
           m == Min({b, N})
<1>1. Count(h) \in Nat
  BY FiniteDomains, CountIsNat
<1>2. r \in 1..Count(h)
  BY <1>1, RankOfNinety
<1>3. \A x \in Buckets : Below(h, x) \in Nat
  BY BelowOneMore
<1>4. Below(h, N + 1) = Count(h)
  <2>1. Part(h, 1..(N + 1)) = h
    BY Widths DEF Part
  <2> QED
    BY <2>1 DEF Below
<1>5. N + 1 \in Q /\ Q \subseteq Nat /\ Q \subseteq Buckets
  <2>1. N + 1 \in Buckets /\ Buckets \subseteq Nat
    BY Widths
  <2>2. r \in Nat /\ Below(h, N + 1) >= r
    BY <1>1, <1>2, <1>4
  <2> HIDE DEF r
  <2>3. N + 1 \in Q
    BY <2>1, <2>2
  <2>4. Q \subseteq Buckets
    OBVIOUS
  <2> QED
    BY <2>1, <2>3, <2>4
<1>6. b \in Q /\ \A x \in Q : b <= x
  <2> HIDE DEF Q
  <2> QED
    BY <1>5, LeastIsMin
<1>7. b \in Nat /\ N \in Nat /\ c \in Nat /\ c \in Buckets /\ N \in 1..N
  BY <1>5, <1>6, Widths
<1>8. (m = b \/ m = N) /\ m <= b /\ m <= N
  <2> DEFINE S == {b, N}
  <2>1. S \subseteq Nat /\ S # {} /\ b \in S /\ N \in S
    BY <1>7
  <2> HIDE DEF S
  <2>2. Min(S) \in S /\ \A x \in S : Min(S) <= x
    BY <2>1, LeastIsMin
  <2>3. m = Min(S)
    BY DEF S
  <2> HIDE DEF m, b
  <2> QED
    BY <2>1, <2>2, <2>3 DEF S
<1>9. Quantile(h, 90) = Bounds[m]
  BY <1>1 DEF Quantile, Below, Part
<1>10. m \in 1..N
  <2>1. b >= 1
    BY <1>5, <1>6, Widths
  <2> HIDE DEF m, b
  <2> QED
    BY <1>7, <1>8, <2>1
<1> HIDE DEF m, b
<1>11. Bounds[m] <= Bounds[c] <=> m <= c
  <2>1. Bounds[m] \in Nat /\ Bounds[c] \in Nat /\ c \in 1..N
    BY <1>10, Ascending
  <2>2. (m < c => Bounds[m] < Bounds[c]) /\ (c < m => Bounds[c] < Bounds[m])
    BY <1>10, Ascending
  <2>3. m < c \/ c < m \/ m = c
    BY <1>7, <1>10
  <2> QED
    BY <1>7, <1>10, <2>1, <2>2, <2>3
<1>12. m <= c <=> b <= c
  BY <1>7, <1>8, <1>10
<1>13. b <= c <=> Below(h, c) >= r
  <2>1. ASSUME Below(h, c) >= r PROVE b <= c
    BY <1>6, <1>7, <2>1
  <2>2. ASSUME b <= c PROVE Below(h, c) >= r
    <3>1. b \in Buckets /\ Below(h, b) >= r /\ Below(h, b) <= Below(h, c)
      BY <1>6, <1>7, <2>2
    <3>2. r \in Nat /\ Below(h, b) \in Nat /\ Below(h, c) \in Nat
      BY <1>2, <1>3, <1>7, <3>1
    <3> HIDE DEF r
    <3> QED
      BY <3>1, <3>2
  <2> QED
    BY <2>1, <2>2
<1> QED
  BY <1>9, <1>11, <1>12, <1>13 DEF r

\* The verdict of a type, from the transactions that ran.
LEMMA ResponseIsTrue ==
    ASSUME TypeOK, Agree, NEW k \in Kinds
    PROVE  LET n == Count(durations[k]) IN
           /\ n \in Nat /\ Measured[k] = n
           /\ n > 0 /\ 10 * Within(k) >= 9 * n => ResponsePass(k) = "pass"
           /\ ResponsePass(k) = "pass" => n > 0 /\ 10 * (Within(k) + 1) >= 9 * n
<1> DEFINE n == Count(durations[k])
           h == hist[k]
<1>1. h \in [Buckets -> Nat] /\ Matches(h, durations[k])
  BY DEF TypeOK, Agree
<1>2. n = Count(h) /\ Measured[k] = Count(h)
  BY <1>1 DEF Matches, Measured
<1>3. Count(h) \in Nat
  <2> HIDE DEF h
  <2> QED
    BY <1>1, FiniteDomains, CountIsNat
<1>4. PICK c \in 1..Len(Bounds) : c < Len(Bounds) /\ Ceiling(k) = Bounds[c]
  BY CeilingIsBound
<1>5. Within(k) = Below(h, c)
  BY <1>1, <1>4 DEF Within, Matches, NoLonger, Part
<1>6. Below(h, c) \in Nat
  <2>1. c \in Buckets
    BY Widths
  <2> HIDE DEF h
  <2> QED
    BY <1>1, <2>1, BelowOneMore
<1>7. n > 0 => (ResponsePass(k) = "pass" <=> Within(k) >= Rank(n, 90))
  <2> SUFFICES ASSUME n > 0
               PROVE  ResponsePass(k) = "pass" <=> Within(k) >= Rank(n, 90)
    OBVIOUS
  <2> HIDE DEF n, h
  <2>1. \A x, y \in Buckets : x <= y => Below(h, x) <= Below(h, y)
    BY <1>1 DEF Matches
  <2>2. Quantile(h, 90) <= Bounds[c] <=> Below(h, c) >= Rank(Count(h), 90)
    BY <1>1, <1>2, <1>4, <2>1, QuantileWithin
  <2>3. ResponsePass(k) = "pass" <=> Quantile(h, 90) <= Ceiling(k)
    BY <1>2, <1>3 DEF ResponsePass, h
  <2> QED
    BY <1>2, <1>4, <1>5, <2>2, <2>3
<1>8. n = 0 => ResponsePass(k) = "none"
  BY <1>2 DEF ResponsePass
<1>9. n > 0 => /\ \A x \in Nat : 10 * x >= 9 * n => x >= Rank(n, 90)
               /\ \A x \in Nat : x >= Rank(n, 90) => 10 * (x + 1) >= 9 * n
  <2> HIDE DEF n
  <2> QED
    BY <1>2, <1>3, RankOfNinety
<1>10. Within(k) \in Nat /\ n \in Nat /\ (n = 0 \/ n > 0)
  BY <1>2, <1>3, <1>5, <1>6
<1> HIDE DEF n, h
<1>11. /\ n > 0 /\ 10 * Within(k) >= 9 * n => ResponsePass(k) = "pass"
       /\ ResponsePass(k) = "pass" => n > 0 /\ 10 * (Within(k) + 1) >= 9 * n
  BY <1>7, <1>8, <1>9, <1>10
<1> QED
  BY <1>2, <1>10, <1>11 DEF n

\* A mix that passes measured every type.
LEMMA MixMeasures ==
    ASSUME TypeOK, \A k \in Kinds : MixPass(k), NEW k \in Kinds
    PROVE  Measured[k] \in Nat \ {0}
<1> DEFINE n == Count(Measured)
           floor == MixMinPct(k) - MixTolerancePct
<1>1. Measured \in [Kinds -> Nat]
  <2>1. \A j \in Kinds : Count(hist[j]) \in Nat
    <3> TAKE j \in Kinds
    <3> DEFINE h == hist[j]
    <3>1. h \in [Buckets -> Nat]
      BY DEF TypeOK
    <3> HIDE DEF h
    <3>2. Count(h) \in Nat
      BY <3>1, FiniteDomains, CountIsNat
    <3> QED
      BY <3>2 DEF h
  <2> QED
    BY <2>1 DEF Measured
<1>2. IsFiniteSet(Kinds)
  <2>1. Kinds \subseteq {"new_order", "payment", "order_status", "delivery", "stock_level"}
    BY ReportAssumption
  <2>2. IsFiniteSet({"new_order", "payment", "order_status", "delivery", "stock_level"})
    <3>1. IsFiniteSet({"new_order"}) /\ IsFiniteSet({"delivery"}) /\ IsFiniteSet({"stock_level"})
      BY FS_Singleton
    <3>2. IsFiniteSet({"payment"}) /\ IsFiniteSet({"order_status"})
      BY FS_Singleton
    <3>3. IsFiniteSet({"new_order"} \cup {"payment"})
      BY <3>1, <3>2, FS_Union
    <3>4. IsFiniteSet({"order_status"} \cup {"delivery"})
      BY <3>1, <3>2, FS_Union
    <3>5. IsFiniteSet(({"new_order"} \cup {"payment"}) \cup ({"order_status"} \cup {"delivery"}))
      BY <3>3, <3>4, FS_Union
    <3>6. IsFiniteSet((({"new_order"} \cup {"payment"}) \cup ({"order_status"} \cup {"delivery"}))
                      \cup {"stock_level"})
      BY <3>1, <3>5, FS_Union
    <3>7. (({"new_order"} \cup {"payment"}) \cup ({"order_status"} \cup {"delivery"}))
              \cup {"stock_level"}
              = {"new_order", "payment", "order_status", "delivery", "stock_level"}
      OBVIOUS
    <3> QED
      BY <3>6, <3>7
  <2> QED
    BY <2>1, <2>2, FS_Subset
<1>3. n \in Nat
  BY <1>1, <1>2, CountIsNat
<1>4. floor \in Nat /\ floor >= 1
  <2>1. MixMinPct(k) \in {45, 43, 4}
    BY DEF MixMinPct
  <2> QED
    BY <2>1 DEF MixTolerancePct
<1>5. IF n = 0 THEN 0 >= floor ELSE 100 * Measured[k] >= floor * n
  BY DEF MixPass
<1> HIDE DEF n, floor
<1>6. n > 0 /\ 100 * Measured[k] >= floor * n
  BY <1>3, <1>4, <1>5
<1>7. floor * n >= n
  <2>1. (floor - 1) * n >= 0
    BY <1>3, <1>4
  <2>2. (floor - 1) * n = floor * n - n
    BY <1>3, <1>4
  <2> QED
    BY <1>3, <1>4, <2>1, <2>2
<1>8. Measured[k] \in Nat /\ floor * n \in Int
  BY <1>1, <1>3, <1>4
<1> QED
  BY <1>3, <1>6, <1>7, <1>8

\* The verdicts are those of the transactions that ran, whatever the buckets, the ceilings and
\* the number of transactions: complianceReport reads only histograms and totals.
THEOREM Verdicts == Spec => []VerdictIsTrue
<1>1. ASSUME IInv PROVE VerdictIsTrue
  <2> SUFFICES ASSUME Reported PROVE VerdictIsTrue
    BY DEF VerdictIsTrue
  <2> DEFINE R == report[1]
  <2>1. TypeOK /\ Agree /\ pacing \in BOOLEAN /\ R = Report(clock - measureStart)
    BY <1>1, ReportedIs DEF IInv, TypeOK
  <2>2. /\ R.paced = pacing
        /\ R.mix = IF pacing THEN Verdict(\A k \in Kinds : MixPass(k)) ELSE "none"
        /\ R.response = IF pacing THEN Verdict(\A k \in Kinds : ResponsePass(k) # "fail") ELSE "none"
        /\ R.types = [k \in Kinds |-> IF pacing THEN ResponsePass(k) ELSE "none"]
    BY <2>1 DEF Report
  <2> HIDE DEF R
  <2>3. ASSUME pacing, NEW k \in Kinds
        PROVE  LET n == Count(durations[k]) IN
               /\ n > 0 /\ 10 * Within(k) >= 9 * n => R.types[k] = "pass"
               /\ R.types[k] = "pass" => n > 0 /\ 10 * (Within(k) + 1) >= 9 * n
    <3>1. R.types[k] = ResponsePass(k)
      BY <2>2, <2>3
    <3> QED
      BY <2>1, <3>1, ResponseIsTrue
  <2>4. ASSUME R.mix = "pass", R.response = "pass"
        PROVE  pacing /\ \A k \in Kinds : Count(durations[k]) > 0 /\ R.types[k] = "pass"
    <3>1. pacing
      BY <2>1, <2>2, <2>4
    <3>2. (\A k \in Kinds : MixPass(k)) /\ (\A k \in Kinds : ResponsePass(k) # "fail")
      BY <2>2, <2>4, <3>1 DEF Verdict
    <3>3. ASSUME NEW k \in Kinds
          PROVE  Count(durations[k]) > 0 /\ R.types[k] = "pass"
      <4>1. Measured[k] \in Nat \ {0}
        BY <2>1, <3>2, MixMeasures
      <4>2. Measured[k] = Count(durations[k])
        BY <2>1, ResponseIsTrue
      <4>3. ResponsePass(k) = "pass"
        BY <3>2, <4>1 DEF ResponsePass
      <4>4. R.types[k] = ResponsePass(k)
        BY <2>2, <3>1
      <4> QED
        BY <4>1, <4>2, <4>3, <4>4
    <3> QED
      BY <3>1, <3>3
  <2> QED
    BY <2>2, <2>3, <2>4 DEF VerdictIsTrue, R
<1> QED
  BY <1>1, Invariance, PTL

-----------------------------------------------------------------------------
(* The series and its windows. *)

LEMMA MinOfTwo ==
    ASSUME NEW a \in Nat, NEW b \in Nat
    PROVE  Min({a, b}) = IF a <= b THEN a ELSE b
<1> DEFINE S == {a, b}
<1>1. S \subseteq Nat /\ S # {} /\ \A x : x \in S <=> x = a \/ x = b
  OBVIOUS
<1> HIDE DEF S
<1>2. Min(S) \in S /\ \A x \in S : Min(S) <= x
  BY <1>1, LeastIsMin
<1>3. Min(S) = IF a <= b THEN a ELSE b
  <2> DEFINE m == Min(S)
  <2>1. (m = a \/ m = b) /\ m <= a /\ m <= b
    BY <1>1, <1>2
  <2> HIDE DEF m
  <2>2. m = IF a <= b THEN a ELSE b
    BY <2>1
  <2> QED
    BY <2>2 DEF m
<1> QED
  BY <1>3 DEF S

\* The quotient rounded up is the least number of widths that cover the length.
LEMMA CeilCovers ==
    ASSUME NEW n \in Nat \ {0}, NEW w \in Nat \ {0}
    PROVE  /\ CeilDiv(n, w) \in Nat \ {0}
           /\ n <= CeilDiv(n, w) * w
           /\ (CeilDiv(n, w) - 1) * w < n
<1> DEFINE q == (n + w - 1) \div w
<1>1. q \in Nat /\ q * w <= n + w - 1 /\ n + w - 1 < q * w + w
  <2> DEFINE a == n + w - 1
  <2>1. a \in Int /\ a >= 0
    OBVIOUS
  <2> HIDE DEF a
  <2>2. a \div w \in Nat /\ (a \div w) * w <= a /\ a < (a \div w) * w + w
    BY <2>1, Divides
  <2> QED
    BY <2>2 DEF a
<1>2. CeilDiv(n, w) = q
  BY DEF CeilDiv
<1> HIDE DEF q
<1>3. q # 0
  <2>1. q = 0 => q * w = 0
    OBVIOUS
  <2> QED
    BY <1>1, <2>1
<1>4. (q - 1) * w = q * w - w /\ q * w \in Nat
  BY <1>1
<1> QED
  BY <1>1, <1>2, <1>3, <1>4

LEMMA TotalIsNat ==
    ASSUME NEW s \in Seq(Nat)
    PROVE  Total(s) \in Nat
<1> DEFINE n == Len(s)
<1>1. n \in Nat /\ s \in [1..n -> Nat]
  OBVIOUS
<1> HIDE DEF n
<1>2. PICK p : Runs(p, s, n) /\ p[n] = Total(s)
  BY <1>1, TotalRuns
<1> QED
  BY <1>1, <1>2 DEF Runs

\* What the windows are, one by one.
Width(n) == CeilDiv(n, Min({BinCount, n}))
Wins(n) == CeilDiv(n, Width(n))
Start(i, n) == (i - 1) * Width(n)
EndOf(i, n) == Min({i * Width(n), n})

LEMMA WindowEnds ==
    ASSUME NEW n \in Nat \ {0}
    PROVE  /\ Wins(n) \in 1..BinCount
           /\ EndOf(0, n) = 0 /\ EndOf(Wins(n), n) = n
           /\ \A i \in 1..Wins(n) : /\ EndOf(i, n) \in 1..n
                                    /\ EndOf(i - 1, n) = Start(i, n)
                                    /\ Start(i, n) \in Nat /\ Start(i, n) < EndOf(i, n)
<1> DEFINE w == Width(n)
           b == Min({BinCount, n})
           c == CeilDiv(n, w)
<1>1. b \in Nat \ {0} /\ b <= BinCount /\ BinCount \in Nat
  <2>1. BinCount \in Nat \ {0}
    BY Widths
  <2>2. b = IF BinCount <= n THEN BinCount ELSE n
    BY <2>1, MinOfTwo
  <2> HIDE DEF b
  <2> QED
    BY <2>1, <2>2
<1>2. w \in Nat \ {0} /\ n <= w * b
  <2>1. w = CeilDiv(n, b)
    BY DEF Width
  <2> HIDE DEF w, b
  <2>2. w \in Nat \ {0} /\ n <= w * b
    BY <1>1, <2>1, CeilCovers
  <2> QED
    BY <2>2
<1> HIDE DEF w, b
<1>3. c \in Nat \ {0} /\ n <= c * w /\ (c - 1) * w < n
  BY <1>2, CeilCovers
<1> HIDE DEF c
<1>4. c <= b
  <2>1. ASSUME b <= c - 1 PROVE FALSE
    <3>1. b * w <= (c - 1) * w /\ b * w \in Int /\ (c - 1) * w \in Int
      BY <1>1, <1>2, <1>3, <2>1, ProductGrows
    <3>2. b * w = w * b
      BY <1>1, <1>2
    <3> QED
      BY <1>2, <1>3, <3>1, <3>2
  <2> QED
    BY <1>1, <1>3, <2>1
<1>5. \A i \in Nat : i * w \in Nat /\ EndOf(i, n) = IF i * w <= n THEN i * w ELSE n
  <2> TAKE i \in Nat
  <2> DEFINE a == i * w
  <2>1. a \in Nat
    BY <1>2
  <2>2. EndOf(i, n) = Min({a, n})
    BY DEF EndOf, w
  <2> HIDE DEF a
  <2>3. EndOf(i, n) = IF a <= n THEN a ELSE n
    BY <2>1, <2>2, MinOfTwo
  <2> QED
    BY <2>1, <2>3 DEF a
<1>6. EndOf(0, n) = 0
  <2>1. 0 * w = 0
    BY <1>2
  <2> QED
    BY <1>5, <2>1
<1>7. EndOf(c, n) = n
  BY <1>3, <1>5
<1>8. ASSUME NEW i \in 1..c
      PROVE  /\ EndOf(i, n) \in 1..n /\ EndOf(i - 1, n) = (i - 1) * w
             /\ (i - 1) * w \in Nat /\ (i - 1) * w < EndOf(i, n)
  <2>1. (i - 1) * w <= (c - 1) * w /\ (i - 1) * w \in Int /\ (c - 1) * w \in Int
    BY <1>2, <1>3, ProductGrows
  <2>2. (i - 1) * w \in Nat /\ i * w \in Nat /\ i * w = (i - 1) * w + w
    BY <1>2, <1>3, <1>5
  <2>3. /\ EndOf(i, n) = IF i * w <= n THEN i * w ELSE n
        /\ EndOf(i - 1, n) = IF (i - 1) * w <= n THEN (i - 1) * w ELSE n
    BY <1>3, <1>5
  <2> QED
    BY <1>2, <1>3, <2>1, <2>2, <2>3
<1>9. c \in 1..BinCount
  BY <1>1, <1>3, <1>4
<1> QED
  BY <1>2, <1>6, <1>7, <1>8, <1>9 DEF c, w, Wins, Start

LEMMA WindowsAre ==
    ASSUME NEW s \in Seq(Nat), Len(s) # 0
    PROVE  /\ Windows(s) \in Seq([orders : Nat, slots : Nat])
           /\ Len(Windows(s)) = Wins(Len(s))
           /\ \A i \in 1..Wins(Len(s)) :
                /\ Windows(s)[i].orders = Total(SubSeq(s, EndOf(i - 1, Len(s)) + 1, EndOf(i, Len(s))))
                /\ Windows(s)[i].slots = EndOf(i, Len(s)) - EndOf(i - 1, Len(s))
<1> DEFINE n == Len(s)
           c == Wins(n)
           t(i) == SubSeq(s, Start(i, n) + 1, EndOf(i, n))
           f == [i \in 1..c |-> [orders |-> Total(t(i)), slots |-> EndOf(i, n) - (Start(i, n) + 1) + 1]]
<1>1. n \in Nat \ {0}
  OBVIOUS
<1>2. Windows(s) = f
  BY DEF Windows, Width, EndOf, Wins, Start
<1> HIDE DEF n
<1>3. /\ c \in Nat
      /\ \A i \in 1..c : /\ EndOf(i, n) \in 1..n /\ EndOf(i - 1, n) = Start(i, n)
                         /\ Start(i, n) \in Nat /\ Start(i, n) < EndOf(i, n)
  <2>1. c \in 1..BinCount
    BY <1>1, WindowEnds
  <2>2. \A i \in 1..c : /\ EndOf(i, n) \in 1..n /\ EndOf(i - 1, n) = Start(i, n)
                        /\ Start(i, n) \in Nat /\ Start(i, n) < EndOf(i, n)
    BY <1>1, WindowEnds
  <2> QED
    BY <2>1, <2>2, Widths
<1> HIDE DEF c
<1>4. ASSUME NEW i \in 1..c
      PROVE  /\ Total(t(i)) \in Nat
             /\ t(i) = SubSeq(s, EndOf(i - 1, n) + 1, EndOf(i, n))
             /\ EndOf(i, n) - (Start(i, n) + 1) + 1 \in Nat
             /\ EndOf(i, n) - (Start(i, n) + 1) + 1 = EndOf(i, n) - EndOf(i - 1, n)
  <2> DEFINE a == Start(i, n)
             l == EndOf(i, n)
  <2>1. l \in 1..n /\ EndOf(i - 1, n) = a /\ a \in Nat /\ a < l
    BY <1>3
  <2> HIDE DEF a, l
  <2>2. SubSeq(s, a + 1, l) \in Seq(Nat)
    BY <1>1, <2>1 DEF n
  <2>3. Total(SubSeq(s, a + 1, l)) \in Nat
    BY <2>2, TotalIsNat
  <2>4. l - (a + 1) + 1 \in Nat /\ l - (a + 1) + 1 = l - a
    BY <1>1, <2>1
  <2> QED
    BY <2>1, <2>3, <2>4 DEF a, l
<1> HIDE DEF t
<1>5. /\ f \in [1..c -> [orders : Nat, slots : Nat]]
      /\ \A i \in 1..c : /\ f[i].orders = Total(SubSeq(s, EndOf(i - 1, n) + 1, EndOf(i, n)))
                         /\ f[i].slots = EndOf(i, n) - EndOf(i - 1, n)
  BY <1>4
<1> HIDE DEF f
<1>6. f \in Seq([orders : Nat, slots : Nat]) /\ Len(f) = c
  <2> DEFINE T == [orders : Nat, slots : Nat]
  <2>1. f \in [1..c -> T]
    BY <1>5
  <2> HIDE DEF T
  <2>2. f \in Seq(T) /\ Len(f) = c
    BY <1>3, <2>1
  <2> QED
    BY <2>2 DEF T
<1> QED
  BY <1>2, <1>5, <1>6 DEF c, n

\* The windows partition the series and are no more than BinCount.
Partition(s) ==
    /\ Len(Windows(s)) <= BinCount
    /\ Total([i \in DOMAIN Windows(s) |-> Windows(s)[i].orders]) = Total(s)
    /\ Total([i \in DOMAIN Windows(s) |-> Windows(s)[i].slots]) = Len(s)

LEMMA NoWindows ==
    ASSUME NEW s \in Seq(Nat), Len(s) = 0
    PROVE  Partition(s)
<1>1. Windows(s) = <<>>
  BY DEF Windows
<1>2. \A z : z \in [1..0 -> Nat] => Total(z) = 0
  <2> TAKE z
  <2> HAVE z \in [1..0 -> Nat]
  <2> DEFINE p == [m \in 0..0 |-> 0]
             N == 0
  <2>1. Runs(p, z, N)
    BY DEF Runs
  <2>2. z \in [1..N -> Nat] /\ N \in Nat /\ p[N] = 0
    OBVIOUS
  <2> HIDE DEF p, N
  <2> QED
    BY <2>1, <2>2, TotalIs
<1>3. s \in [1..0 -> Nat]
  OBVIOUS
<1>4. DOMAIN <<>> = 1..0 /\ Len(<<>>) = 0
  OBVIOUS
<1>5. \A g : DOMAIN g = 1..0 => g \in [1..0 -> Nat] \/ ~(g = [x \in DOMAIN g |-> g[x]])
  OBVIOUS
<1>6. /\ [i \in DOMAIN Windows(s) |-> Windows(s)[i].orders] \in [1..0 -> Nat]
      /\ [i \in DOMAIN Windows(s) |-> Windows(s)[i].slots] \in [1..0 -> Nat]
  BY <1>1, <1>4
<1>7. Len(Windows(s)) <= BinCount
  BY <1>1, <1>4, Widths
<1> QED
  BY <1>2, <1>3, <1>6, <1>7 DEF Partition

LEMMA WindowsPartition ==
    ASSUME NEW s \in Seq(Nat)
    PROVE  Partition(s)
<1> SUFFICES ASSUME Len(s) # 0 PROVE Partition(s)
  BY NoWindows
<1> DEFINE n == Len(s)
           c == Wins(n)
           orders == [i \in DOMAIN Windows(s) |-> Windows(s)[i].orders]
           lengths == [i \in DOMAIN Windows(s) |-> Windows(s)[i].slots]
<1>1. n \in Nat \ {0} /\ s \in [1..n -> Nat]
  OBVIOUS
<1>2. /\ c \in 1..BinCount /\ EndOf(0, n) = 0 /\ EndOf(c, n) = n
      /\ \A i \in 1..c : /\ EndOf(i, n) \in 1..n
                         /\ EndOf(i - 1, n) \in Nat /\ EndOf(i - 1, n) < EndOf(i, n)
  <2> HIDE DEF n
  <2> QED
    BY <1>1, WindowEnds
<1>3. /\ Windows(s) \in Seq([orders : Nat, slots : Nat]) /\ Len(Windows(s)) = c
      /\ \A i \in 1..c : /\ Windows(s)[i].orders = Total(SubSeq(s, EndOf(i - 1, n) + 1, EndOf(i, n)))
                         /\ Windows(s)[i].slots = EndOf(i, n) - EndOf(i - 1, n)
  BY WindowsAre
<1>4. BinCount \in Nat /\ c \in Nat
  BY <1>2, Widths
<1>5. DOMAIN Windows(s) = 1..c /\ \A i \in 1..c : Windows(s)[i] \in [orders : Nat, slots : Nat]
  <2> DEFINE F == Windows(s)
             T == [orders : Nat, slots : Nat]
  <2>1. F \in Seq(T) /\ Len(F) = c
    BY <1>3
  <2> HIDE DEF F, T, c
  <2> QED
    <3>1. DOMAIN F = 1..c /\ \A i \in 1..c : F[i] \in T
      BY <2>1
    <3> QED
      BY <3>1 DEF F, T
<1> HIDE DEF c, n
<1>6. /\ orders \in [1..c -> Nat] /\ lengths \in [1..c -> Nat]
      /\ \A i \in 1..c : orders[i] = Total(SubSeq(s, EndOf(i - 1, n) + 1, EndOf(i, n)))
      /\ \A i \in 1..c : lengths[i] = EndOf(i, n) - EndOf(i - 1, n)
  BY <1>3, <1>5
<1> HIDE DEF orders, lengths
<1>7. \A i \in 0..c : EndOf(i, n) \in 0..n
  <2> TAKE i \in 0..c
  <2>1. i = 0 \/ i \in 1..c
    BY <1>4
  <2> QED
    BY <1>1, <1>2, <2>1
<1>8. Total(lengths) = n
  <2> DEFINE q == [i \in 0..c |-> EndOf(i, n)]
  <2>1. q \in [0..c -> Nat] /\ q[0] = 0 /\ q[c] = n
    BY <1>1, <1>2, <1>4, <1>7
  <2>2. ASSUME NEW i \in 1..c
        PROVE  q[i] = q[i - 1] + lengths[i]
    <3>1. q[i] = EndOf(i, n) /\ q[i - 1] = EndOf(i - 1, n)
      BY <1>4
    <3>2. EndOf(i, n) \in 1..n /\ EndOf(i - 1, n) \in Nat
      BY <1>2
    <3>3. lengths[i] = EndOf(i, n) - EndOf(i - 1, n)
      BY <1>6
    <3> HIDE DEF q
    <3> QED
      BY <1>1, <3>1, <3>2, <3>3
  <2> HIDE DEF q
  <2>3. Runs(q, lengths, c)
    BY <2>1, <2>2 DEF Runs
  <2> QED
    BY <1>4, <1>6, <2>1, <2>3, TotalIs
<1>9. Total(orders) = Total(s)
  <2>1. PICK p : Runs(p, s, n) /\ p[n] = Total(s)
    BY <1>1, TotalRuns
  <2>2. p \in [0..n -> Nat] /\ p[0] = 0
    BY <2>1 DEF Runs
  <2> DEFINE q == [i \in 0..c |-> p[EndOf(i, n)]]
  <2>3. q \in [0..c -> Nat] /\ q[0] = 0 /\ q[c] = Total(s)
    BY <1>2, <1>4, <1>7, <2>1, <2>2
  <2>4. ASSUME NEW i \in 1..c
        PROVE  q[i] = q[i - 1] + orders[i]
    <3> DEFINE a == EndOf(i - 1, n) + 1
               b == EndOf(i, n)
    <3>0. b \in 1..n /\ EndOf(i - 1, n) \in Nat /\ EndOf(i - 1, n) < b
      BY <1>2
    <3>1. q[i] = p[b] /\ q[i - 1] = p[a - 1]
      <4>1. a - 1 = EndOf(i - 1, n)
        BY <3>0
      <4>2. q[i - 1] = p[EndOf(i - 1, n)] /\ q[i] = p[b]
        BY <1>4
      <4> QED
        BY <4>1, <4>2
    <3>2. a \in 1..(n + 1) /\ b \in 0..n /\ a <= b + 1 /\ a - 1 \in 0..n
      BY <1>1, <3>0
    <3>3. orders[i] = Total(SubSeq(s, a, b))
      BY <1>6
    <3> HIDE DEF a, b, q
    <3>4. Total(SubSeq(s, a, b)) = p[b] - p[a - 1]
      BY <1>1, <2>1, <3>2, TotalOfSlice DEF n
    <3>5. p[b] \in Nat /\ p[a - 1] \in Nat
      BY <2>2, <3>2
    <3> QED
      BY <3>1, <3>3, <3>4, <3>5
  <2> HIDE DEF q
  <2>5. Runs(q, orders, c)
    BY <2>3, <2>4 DEF Runs
  <2> QED
    BY <1>4, <1>6, <2>3, <2>5, TotalIs
<1>10. Len(Windows(s)) <= BinCount
  BY <1>2, <1>3, <1>4
<1> QED
  BY <1>8, <1>9, <1>10 DEF Partition, orders, lengths, n

\* The New-Orders that completed by the end of a slot.
By(m) == {i \in DOMAIN completed : SlotOf(completed[i]) <= m}

LEMMA CompletedTimes ==
    ASSUME TypeOK, NEW i \in DOMAIN completed
    PROVE  completed[i] - measureStart \in Int
<1> DEFINE D == 0..MaxClock
<1>1. completed \in Seq(D) /\ measureStart \in Int
  BY DEF TypeOK
<1>2. completed[i] \in D
  <2> HIDE DEF D
  <2> QED
    BY <1>1
<1> QED
  BY <1>1, <1>2

LEMMA SeriesHolds ==
    ASSUME TypeOK, Recorded, slots # <<>>, phase = "over"
    PROVE  /\ SeriesOf(clock - measureStart) \in Seq(Nat)
           /\ Total(SeriesOf(clock - measureStart)) = Cardinality(By(SlotCount))
<1> DEFINE e == clock - measureStart
           K == CeilDiv(e, SlotWidth)
           L == Min({K, Len(slots)})
           p == [m \in 0..SlotCount |-> Cardinality(By(m))]
<1>1. /\ slots \in [1..SlotCount -> Nat] /\ SlotCount \in Nat \ {0} /\ SlotWidth \in Nat \ {0}
      /\ clock \in Nat /\ completed \in Seq(0..MaxClock)
  BY Widths DEF TypeOK
<1>2. slots \in Seq(Nat) /\ Len(slots) = SlotCount
  BY <1>1
<1>3. /\ measureStart \in 0..clock /\ measureStart < clock
      /\ \A i \in DOMAIN completed : completed[i] \in measureStart..clock /\ completed[i] < clock
      /\ \A m \in 1..SlotCount : slots[m] = Cardinality(In(m))
  BY DEF Recorded
<1>4. e \in Nat \ {0}
  BY <1>1, <1>3
<1>5. K \in Nat \ {0} /\ e <= K * SlotWidth
  <2> HIDE DEF e
  <2> QED
    BY <1>1, <1>4, CeilCovers
<1> HIDE DEF K
<1>6. L = IF K <= SlotCount THEN K ELSE SlotCount
  BY <1>1, <1>2, <1>5, MinOfTwo
<1>7. L \in 1..SlotCount
  <2> HIDE DEF L
  <2> QED
    BY <1>1, <1>5, <1>6
<1>8. SeriesOf(e) = SubSeq(slots, 1, L)
  BY DEF SeriesOf, K
<1> HIDE DEF L
<1>9. ASSUME NEW i \in DOMAIN completed
      PROVE  SlotOf(completed[i]) \in Nat \ {0} /\ SlotOf(completed[i]) <= K
  <2> DEFINE a == completed[i] - measureStart
  <2>1. a \in Int /\ a >= 0 /\ a < e
    BY <1>1, <1>3
  <2>2. SlotOf(completed[i]) = (a \div SlotWidth) + 1
    BY DEF SlotOf
  <2>3. K * SlotWidth \in Int
    BY <1>1, <1>5
  <2> HIDE DEF a, e
  <2>4. a \div SlotWidth \in Nat
    BY <1>1, <2>1, Divides
  <2>5. a < K * SlotWidth
    BY <1>4, <1>5, <2>1, <2>3
  <2>6. (a \div SlotWidth) + 1 <= K
    <3>1. K \in Int /\ SlotWidth \in Nat \ {0} /\ a \in Int
      BY <1>1, <1>5, <2>1
    <3>2. (a \div SlotWidth) + 1 <= K <=> a < K * SlotWidth
      BY <3>1, SlotBound
    <3> QED
      BY <2>5, <3>2
  <2> QED
    BY <2>2, <2>4, <2>6
<1>10. \A m : IsFiniteSet(By(m)) /\ IsFiniteSet(In(m)) /\ Cardinality(By(m)) \in Nat
              /\ Cardinality(In(m)) \in Nat
  <2> TAKE m
  <2>1. DOMAIN completed = 1..Len(completed) /\ Len(completed) \in Nat
    BY <1>1
  <2>2. IsFiniteSet(DOMAIN completed)
    BY <2>1, FS_Interval
  <2>3. By(m) \subseteq DOMAIN completed /\ In(m) \subseteq DOMAIN completed
    BY DEF By, In
  <2>4. IsFiniteSet(By(m)) /\ IsFiniteSet(In(m))
    BY <2>2, <2>3, FS_Subset
  <2> QED
    BY <2>4, FS_CardinalityType
<1>11. Runs(p, slots, SlotCount)
  <2>1. p \in [0..SlotCount -> Nat]
    BY <1>10
  <2>2. p[0] = 0
    <3>1. By(0) = {}
      BY <1>9 DEF By
    <3>2. p[0] = Cardinality(By(0))
      BY <1>1
    <3> QED
      BY <3>1, <3>2, FS_EmptySet
  <2>3. ASSUME NEW m \in 1..SlotCount
        PROVE  p[m] = p[m - 1] + slots[m]
    <3>1. By(m) = By(m - 1) \cup In(m) /\ By(m - 1) \cap In(m) = {}
      <4>1. \A i \in DOMAIN completed :
                /\ SlotOf(completed[i]) <= m <=> SlotOf(completed[i]) <= m - 1 \/ SlotOf(completed[i]) = m
                /\ ~(SlotOf(completed[i]) <= m - 1 /\ SlotOf(completed[i]) = m)
        BY <1>1, <1>9
      <4> QED
        BY <4>1 DEF By, In
    <3>2. Cardinality(By(m)) = Cardinality(By(m - 1)) + Cardinality(In(m)) - Cardinality({})
      BY <1>10, <3>1, FS_Union
    <3>3. Cardinality(By(m)) = Cardinality(By(m - 1)) + Cardinality(In(m))
      BY <1>10, <3>2, FS_EmptySet
    <3>4. p[m] = Cardinality(By(m)) /\ p[m - 1] = Cardinality(By(m - 1))
      BY <1>1
    <3> QED
      BY <1>3, <3>3, <3>4
  <2> HIDE DEF p
  <2> QED
    BY <2>1, <2>2, <2>3 DEF Runs
<1>12. p[L] = Cardinality(By(L)) /\ p[0] \in Nat /\ p[L] \in Nat /\ p[0] = 0
  BY <1>1, <1>7, <1>10, <1>11 DEF Runs
<1>13. Total(SubSeq(slots, 1, L)) = p[L]
  <2> DEFINE n == SlotCount
             a == 1
  <2>1. /\ n \in Nat /\ slots \in Seq(Nat) /\ Len(slots) = n /\ Runs(p, slots, n)
        /\ a \in 1..(n + 1) /\ L \in 0..n /\ a <= L + 1
    BY <1>1, <1>2, <1>7, <1>11
  <2> HIDE DEF p, n, a
  <2>2. Total(SubSeq(slots, a, L)) = p[L] - p[a - 1]
    BY <2>1, TotalOfSlice
  <2>3. p[L] \in Nat /\ p[a - 1] = 0
    BY <1>12 DEF a
  <2> QED
    BY <2>2, <2>3 DEF a
<1>14. By(L) = By(SlotCount)
  <2>1. CASE K <= SlotCount
    <3>1. \A i \in DOMAIN completed : SlotOf(completed[i]) <= L /\ SlotOf(completed[i]) <= SlotCount
      BY <1>1, <1>5, <1>6, <1>9, <2>1
    <3> QED
      BY <3>1 DEF By
  <2>2. CASE ~(K <= SlotCount)
    BY <1>6, <2>2
  <2> QED
    BY <2>1, <2>2
<1>15. SubSeq(slots, 1, L) \in Seq(Nat)
  BY <1>1, <1>2, <1>7
<1> QED
  BY <1>8, <1>12, <1>13, <1>14, <1>15

\* The series a paced report judges is whole: its slots hold every New-Order that succeeded
\* within its capacity, the last slot included; it says when there were more; and the windows
\* that rebucketRates makes of it lose and repeat nothing.
THEOREM WholeSeries == Spec => []SeriesIsWhole
<1>1. ASSUME IInv PROVE SeriesIsWhole
  <2> SUFFICES ASSUME Reported, slots # <<>> PROVE SeriesIsWhole
    BY DEF SeriesIsWhole
  <2> DEFINE s == SeriesOf(clock - measureStart)
             early == {i \in DOMAIN completed : completed[i] - measureStart < SlotCount * SlotWidth}
  <2>1. TypeOK /\ Recorded /\ Told
    BY <1>1 DEF IInv
  <2>2. phase = "over"
    BY <2>1 DEF Told, Reported
  <2>3. report[1].series = s /\ report[1].truncated = truncated
    BY <2>1, ReportedIs DEF Report
  <2>4. s \in Seq(Nat) /\ Total(s) = Cardinality(By(SlotCount))
    BY <2>1, <2>2, SeriesHolds
  <2>5. early = By(SlotCount)
    <3>1. ASSUME NEW i \in DOMAIN completed
          PROVE  completed[i] - measureStart < SlotCount * SlotWidth <=> SlotOf(completed[i]) <= SlotCount
      <4> DEFINE a == completed[i] - measureStart
      <4>1. a \in Int /\ SlotWidth \in Nat \ {0} /\ SlotCount \in Int
        BY <2>1, CompletedTimes, Widths
      <4>2. SlotOf(completed[i]) = (a \div SlotWidth) + 1
        BY DEF SlotOf
      <4> HIDE DEF a
      <4>3. (a \div SlotWidth) + 1 <= SlotCount <=> a < SlotCount * SlotWidth
        BY <4>1, SlotBound
      <4> QED
        BY <4>2, <4>3 DEF a
    <3> QED
      BY <3>1 DEF By
  <2>6. truncated <=> early # DOMAIN completed
    <3>1. truncated <=> \E i \in DOMAIN completed : SlotOf(completed[i]) > SlotCount
      BY <2>1 DEF Recorded
    <3>2. \A i \in DOMAIN completed : SlotOf(completed[i]) > SlotCount <=> i \notin By(SlotCount)
      <4>1. \A i \in DOMAIN completed : SlotOf(completed[i]) \in Int
        <5> TAKE i \in DOMAIN completed
        <5> DEFINE a == completed[i] - measureStart
        <5>3. a \in Int /\ SlotWidth \in Nat \ {0}
          BY <2>1, CompletedTimes, Widths
        <5>4. SlotOf(completed[i]) = (a \div SlotWidth) + 1
          BY DEF SlotOf
        <5> HIDE DEF a
        <5>5. a \div SlotWidth \in Int
          BY <5>3, Divides
        <5> QED
          BY <5>4, <5>5
      <4> QED
        BY <4>1, Widths DEF By
    <3>3. By(SlotCount) \subseteq DOMAIN completed
      BY DEF By
    <3> QED
      BY <2>5, <3>1, <3>2, <3>3
  <2> HIDE DEF s, early
  <2>7. Partition(s)
    BY <2>4, WindowsPartition
  <2> QED
    BY <2>3, <2>4, <2>5, <2>6, <2>7 DEF SeriesIsWhole, Partition, early
<1> QED
  BY <1>1, Invariance, PTL

=============================================================================
