---------------------------- MODULE FoldTheorems ----------------------------
(***************************************************************************)
(* Loops and sums.  The code's loops over transactions, inputs and outputs *)
(* are left folds, its amounts are sums over finite sets, and both are     *)
(* recursive functions in the community modules.  What they compute is     *)
(* proved here once: a module that needs it for an operator of its own     *)
(* instantiates this one with that operator.                               *)
(***************************************************************************)
EXTENDS Integers, Sequences, SequencesExt, FiniteSetTheorems, WellFoundedInduction, TLAPS

CONSTANTS
  Op(_,_,_),  \* one round of a loop: its state, the next element, its context
  Value(_)    \* what an element adds to a sum

Fold(base, s, c) == FoldLeft(LAMBDA w, x : Op(w, x, c), base, s)

Total(S) == MapThenSumSet(Value, S)

-----------------------------------------------------------------------------
(* Induction.                                                              *)

\* A set of natural numbers that is not empty has a least element.
LEMMA LeastNatural ==
  ASSUME NEW T \in SUBSET Nat, T # {}
  PROVE  \E n \in T : \A m \in T : n <= m
  <1> DEFINE R == {ss \in Nat \X Nat : ss[1] < ss[2]}
  <1>1. IsWellFoundedOn(R, Nat)
    BY NatLessThanWellFounded DEF OpToRel
  <1>2. \E x \in T : \A y \in T : ~(<<y, x>> \in R)
    <2> HIDE DEF R
    <2> QED
      BY <1>1, WFMin
  <1>3. \A x, y \in Nat : <<y, x>> \in R <=> y < x
    OBVIOUS
  <1>4. \A x, y \in Nat : ~(y < x) => x <= y
    OBVIOUS
  <1> HIDE DEF R
  <1>5. PICK x \in T : \A y \in T : ~(<<y, x>> \in R)
    BY <1>2
  <1>6. \A y \in T : x <= y
    BY <1>3, <1>4, <1>5
  <1> QED
    BY <1>6

\* Induction over the natural numbers, for a property given as a set.
LEMMA SetInduction ==
  ASSUME NEW T, 0 \in T, \A n \in Nat : n \in T => n + 1 \in T
  PROVE  Nat \subseteq T
  <1> SUFFICES ASSUME Nat \ T # {} PROVE FALSE
    OBVIOUS
  <1>1. PICK n \in Nat \ T : \A m \in Nat \ T : n <= m
    BY LeastNatural
  <1>2. n # 0 /\ n - 1 \in Nat
    BY <1>1
  <1>3. n - 1 \in T
    BY <1>1, <1>2
  <1>4. (n - 1) + 1 = n
    BY <1>1
  <1> QED
    BY <1>1, <1>2, <1>3, <1>4

\* Max chooses the greatest element of a set of positions.
LEMMA MaxPosition ==
  ASSUME NEW n \in Nat, NEW s \in SUBSET (1 .. n), s # {}
  PROVE  Max(s) \in s /\ \A x \in s : x <= Max(s)
  <1> DEFINE T == {n - x : x \in s}
  <1>1. T \in SUBSET Nat /\ T # {}
    <2>1. \A x \in s : n - x \in Nat
      OBVIOUS
    <2>2. T \subseteq Nat
      BY <2>1
    <2>3. PICK x \in s : TRUE
      OBVIOUS
    <2>4. n - x \in T
      BY <2>3
    <2> QED
      BY <2>2, <2>4
  <1>2. PICK d \in T : \A e \in T : d <= e
    BY <1>1, LeastNatural
  <1>3. PICK m \in s : d = n - m
    BY <1>2
  <1>4. \A x \in s : m >= x
    <2> TAKE x \in s
    <2>1. n - m <= n - x
      BY <1>2, <1>3
    <2> QED
      BY <2>1
  <1> QED
    BY <1>3, <1>4 DEF Max

\* A statement that holds of no round and is passed on from each round to
\* the next holds of all n of them.
LEMMA RoundInduction ==
  ASSUME NEW n \in Nat, NEW T, 0 \in T, \A i \in 1 .. n : i - 1 \in T => i \in T
  PROVE  n \in T
  <1> DEFINE U == {i \in Nat : i <= n => i \in T}
  <1>1. 0 \in U
    OBVIOUS
  <1>2. ASSUME NEW i \in Nat, i \in U
        PROVE  i + 1 \in U
    <2>1. CASE i + 1 <= n
      <3>1. i \in T /\ i + 1 \in 1 .. n /\ (i + 1) - 1 = i
        BY <1>2, <2>1
      <3>2. i + 1 \in T
        BY <3>1
      <3> QED
        BY <3>2
    <2> QED
      BY <2>1
  <1>3. n \in U
    <2> HIDE DEF U
    <2> QED
      BY <1>1, <1>2, SetInduction
  <1> QED
    BY <1>3

-----------------------------------------------------------------------------
(* Loops.                                                                  *)

\* h follows the definition of FoldLeft on sets of the first n positions.
FoldsBy(h, base, s, c, n) ==
  \A A \in SUBSET (1 .. n) :
    h[A] = IF A = {} THEN base ELSE Op(h[A \ {Max(A)}], s[Max(A)], c)

\* The function that FoldLeft is defined by exists: for the first m elements
\* by induction on m.
LEMMA FoldExists ==
  ASSUME NEW c, NEW base, NEW s, NEW n \in Nat
  PROVE  \E h : h = [A \in SUBSET (1 .. n) |-> h[A]] /\ FoldsBy(h, base, s, c, n)
  <1> USE DEF FoldsBy
  <1> DEFINE Eq(f, k) == FoldsBy(f, base, s, c, k)
             P(k) == \E h : h = [A \in SUBSET (1 .. k) |-> h[A]] /\ Eq(h, k)
             T == {m \in Nat : P(m)}
  <1>1. P(0)
    <2> DEFINE h == [A \in SUBSET (1 .. 0) |-> base]
    <2>1. h = [A \in SUBSET (1 .. 0) |-> h[A]]
      OBVIOUS
    <2>2. \A A \in SUBSET (1 .. 0) : A = {}
      OBVIOUS
    <2>3. Eq(h, 0)
      BY <2>2
    <2> QED
      BY <2>1, <2>3
  <1>2. ASSUME NEW m \in Nat, P(m), m + 1 <= n
        PROVE  P(m + 1)
    <2>1. PICK h : Eq(h, m)
      BY <1>2
    <2> DEFINE k == m + 1
               g == [A \in SUBSET (1 .. k) |->
                       IF k \in A THEN Op(h[A \ {k}], s[k], c) ELSE h[A]]
    <2>2. \A A \in SUBSET (1 .. k) : A \ {k} \in SUBSET (1 .. m)
      OBVIOUS
    <2>3. \A A \in SUBSET (1 .. k) : k \notin A => A \in SUBSET (1 .. m)
      BY <2>2
    <2>4. g = [A \in SUBSET (1 .. k) |-> g[A]]
      OBVIOUS
    <2>5. ASSUME NEW A \in SUBSET (1 .. k)
          PROVE  g[A] = IF A = {} THEN base ELSE Op(g[A \ {Max(A)}], s[Max(A)], c)
      <3>1. CASE k \in A
        <4>1. Max(A) \in A /\ \A x \in A : x <= Max(A)
          <5>1. k \in Nat /\ A # {}
            BY <3>1
          <5> HIDE DEF k
          <5> QED
            BY <5>1, MaxPosition
        <4>2. Max(A) = k
          <5>1. Max(A) \in 1 .. k /\ k <= Max(A)
            BY <3>1, <4>1
          <5> QED
            BY <5>1
        <4>3. A \ {k} \in SUBSET (1 .. k) /\ k \notin A \ {k}
          OBVIOUS
        <4>4. g[A \ {k}] = h[A \ {k}]
          BY <4>3
        <4> QED
          BY <3>1, <4>2, <4>4
      <3>2. CASE k \notin A
        <4>1. A \in SUBSET (1 .. m)
          BY <2>3, <3>2
        <4>2. A \ {Max(A)} \in SUBSET (1 .. m) /\ k \notin A \ {Max(A)}
          BY <3>2, <4>1
        <4>3. A \ {Max(A)} \in SUBSET (1 .. k)
          OBVIOUS
        <4>4. g[A] = h[A] /\ g[A \ {Max(A)}] = h[A \ {Max(A)}]
          BY <3>2, <4>2, <4>3
        <4> QED
          BY <2>1, <4>1, <4>4
      <3> QED
        BY <3>1, <3>2
    <2> HIDE DEF g
    <2> QED
      BY <2>4, <2>5
  <1>3. P(n)
    <2> HIDE DEF P
    <2>1. 0 \in T
      BY <1>1
    <2>2. \A i \in 1 .. n : i - 1 \in T => i \in T
      <3> TAKE i \in 1 .. n
      <3>1. i - 1 \in Nat /\ (i - 1) + 1 = i /\ (i - 1) + 1 <= n
        OBVIOUS
      <3>2. P(i - 1) => P((i - 1) + 1)
        BY <1>2, <3>1
      <3> QED
        BY <3>1, <3>2
    <2>3. n \in T
      <3> HIDE DEF T
      <3> QED
        BY <2>1, <2>2, RoundInduction
    <2> QED
      BY <2>3
  <1> QED
    BY <1>3

\* g[i] is the state after i rounds.
Runs(g, base, s, c) ==
  /\ g[0] = base
  /\ \A i \in 1 .. Len(s) : g[i] = Op(g[i - 1], s[i], c)

\* A left fold goes through the elements in order and ends in the state
\* after the last round.
THEOREM FoldSteps ==
  ASSUME NEW c, NEW base, NEW Item, NEW s \in Seq(Item)
  PROVE  \E g : Runs(g, base, s, c) /\ Fold(base, s, c) = g[Len(s)]
  <1> DEFINE n == Len(s)
             Eq(h) == h = [A \in SUBSET (1 .. n) |->
                             IF A = {} THEN base ELSE Op(h[A \ {Max(A)}], s[Max(A)], c)]
             iter == CHOOSE h : Eq(h)
             g == [i \in 0 .. n |-> iter[1 .. i]]
  <1>1. n \in Nat /\ DOMAIN s = 1 .. n
    OBVIOUS
  <1>2. PICK h : h = [A \in SUBSET (1 .. n) |-> h[A]] /\ FoldsBy(h, base, s, c, n)
    <2> HIDE DEF n
    <2> QED
      BY <1>1, FoldExists
  <1>3. Eq(h)
    BY <1>2 DEF FoldsBy
  <1>4. Eq(iter)
    <2> HIDE DEF Eq
    <2> QED
      BY <1>3
  <1>5. Fold(base, s, c) = iter[1 .. n]
    BY <1>1 DEF Fold, FoldLeft, MapThenFoldSet
  <1>6. g[0] = base
    <2>1. 1 .. 0 = {} /\ {} \in SUBSET (1 .. n) /\ 0 \in 0 .. n
      BY <1>1
    <2> HIDE DEF iter
    <2> QED
      BY <1>4, <2>1
  <1>7. ASSUME NEW i \in 1 .. n
        PROVE  g[i] = Op(g[i - 1], s[i], c)
    <2> HIDE DEF iter, n
    <2>1. 1 .. i \in SUBSET (1 .. n) /\ 1 .. i # {} /\ i \in Nat
      <3>1. n \in Nat /\ i \in Nat /\ i >= 1
        BY <1>1
      <3>2. i \in 1 .. i
        BY <3>1
      <3>3. \A x \in 1 .. i : x \in 1 .. n
        BY <3>1
      <3>4. 1 .. i \subseteq 1 .. n /\ 1 .. i # {}
        BY <3>2, <3>3
      <3> QED
        BY <3>1, <3>4
    <2>2. Max(1 .. i) = i
      <3>1. Max(1 .. i) \in 1 .. i /\ \A x \in 1 .. i : x <= Max(1 .. i)
        BY <2>1, MaxPosition
      <3>2. i \in 1 .. i
        BY <2>1
      <3> QED
        BY <3>1, <3>2
    <2>3. (1 .. i) \ {i} = 1 .. (i - 1)
      BY <2>1
    <2>4. iter[1 .. i] = Op(iter[1 .. (i - 1)], s[i], c)
      BY <1>4, <2>1, <2>2, <2>3
    <2>5. i \in 0 .. n /\ i - 1 \in 0 .. n
      BY <1>1, <2>1
    <2> QED
      BY <2>4, <2>5
  <1>8. Fold(base, s, c) = g[n]
    <2> HIDE DEF iter
    <2> QED
      BY <1>1, <1>5
  <1> HIDE DEF g
  <1> QED
    BY <1>6, <1>7, <1>8 DEF Runs

\* The loop through s keeps its state in Work.
Loops(Work, Item, s, c) ==
  s \in Seq(Item) /\ \A w \in Work, x \in Item : Op(w, x, c) \in Work

RunsIn(Work, base, s, c) ==
  \E g \in [0 .. Len(s) -> Work] :
    Runs(g, base, s, c) /\ Fold(base, s, c) = g[Len(s)]

\* Every state of such a loop is in Work.
THEOREM FoldRun ==
  ASSUME NEW Work, NEW Item, NEW c, NEW base \in Work, NEW s,
         Loops(Work, Item, s, c)
  PROVE  RunsIn(Work, base, s, c)
  <1>0. s \in Seq(Item) /\ \A w \in Work, x \in Item : Op(w, x, c) \in Work
    BY DEF Loops
  <1> DEFINE n == Len(s)
  <1>1. n \in Nat /\ n \in 0 .. n
    BY <1>0
  <1>2. PICK f : Runs(f, base, s, c) /\ Fold(base, s, c) = f[n]
    BY <1>0, FoldSteps
  <1>3. f[0] = base /\ \A i \in 1 .. n : f[i] = Op(f[i - 1], s[i], c)
    BY <1>2 DEF Runs
  <1> DEFINE g == [i \in 0 .. n |-> f[i]]
  <1>4. ASSUME NEW k \in 0 .. n
        PROVE  f[k] \in Work
    <2> DEFINE T == {i \in Nat : f[i] \in Work}
    <2>1. k \in Nat /\ 0 \in T
      BY <1>1, <1>3
    <2>2. \A i \in 1 .. k : i - 1 \in T => i \in T
      <3> TAKE i \in 1 .. k
      <3>1. i \in 1 .. n /\ i \in Nat
        BY <1>1
      <3>2. s[i] \in Item
        BY <1>0, <3>1
      <3> QED
        BY <1>0, <1>3, <3>1, <3>2
    <2>3. k \in T
      <3> HIDE DEF T
      <3> QED
        BY <2>1, <2>2, RoundInduction
    <2> QED
      BY <2>3
  <1>5. g \in [0 .. n -> Work]
    BY <1>4
  <1>6. Runs(g, base, s, c)
    <2>1. \A i \in 1 .. n : i \in 0 .. n /\ i - 1 \in 0 .. n
      BY <1>1
    <2>2. 0 \in 0 .. n
      BY <1>1
    <2>3. \A i \in 1 .. n : g[i] = Op(g[i - 1], s[i], c)
      BY <1>3, <2>1
    <2> QED
      BY <1>3, <2>2, <2>3 DEF Runs
  <1>7. Fold(base, s, c) = g[n]
    BY <1>1, <1>2
  <1> HIDE DEF g
  <1> QED
    BY <1>5, <1>6, <1>7 DEF RunsIn

\* What G says of the states after i - 1 rounds makes true what it says of
\* them after i rounds.
Passes(Work, Item, s, c, G) ==
  /\ Loops(Work, Item, s, c)
  /\ \A i \in 1 .. Len(s) : \A w \in Work :
       <<i - 1, w>> \in G => <<i, Op(w, s[i], c)>> \in G

\* What is true before the first round and is passed on by every round is
\* true after the last.
THEOREM FoldInvariant ==
  ASSUME NEW Work, NEW Item, NEW c, NEW base \in Work, NEW s,
         NEW G, Passes(Work, Item, s, c, G), <<0, base>> \in G
  PROVE  Fold(base, s, c) \in Work /\ <<Len(s), Fold(base, s, c)>> \in G
  <1>0. /\ Loops(Work, Item, s, c)
        /\ s \in Seq(Item)
        /\ \A i \in 1 .. Len(s) : \A w \in Work :
             <<i - 1, w>> \in G => <<i, Op(w, s[i], c)>> \in G
    BY DEF Passes, Loops
  <1> USE DEF Runs
  <1>1. PICK g \in [0 .. Len(s) -> Work] :
          Runs(g, base, s, c) /\ Fold(base, s, c) = g[Len(s)]
    <2>1. RunsIn(Work, base, s, c)
      BY <1>0, FoldRun
    <2> QED
      BY <2>1 DEF RunsIn
  <1> DEFINE n == Len(s)
             T == {i \in Nat : <<i, g[i]>> \in G}
  <1>2. n \in Nat /\ n \in 0 .. n
    BY <1>0
  <1>3. 0 \in T
    BY <1>1
  <1>4. \A i \in 1 .. n : i - 1 \in T => i \in T
    <2> TAKE i \in 1 .. n
    <2>1. i \in Nat /\ i - 1 \in 0 .. n
      BY <1>2
    <2>2. g[i - 1] \in Work
      BY <1>1, <2>1
    <2>3. g[i] = Op(g[i - 1], s[i], c)
      BY <1>1
    <2>4. <<i - 1, g[i - 1]>> \in G => <<i, g[i]>> \in G
      BY <1>0, <2>2, <2>3
    <2> QED
      BY <2>1, <2>4
  <1>5. n \in T
    <2> HIDE DEF T, n
    <2> QED
      BY <1>2, <1>3, <1>4, RoundInduction
  <1>6. g[n] \in Work
    BY <1>1, <1>2
  <1> QED
    BY <1>1, <1>5, <1>6

\* The same, when what G says is all that is known of the states.
THEOREM FoldPasses ==
  ASSUME NEW c, NEW base, NEW Item, NEW s \in Seq(Item), NEW G, <<0, base>> \in G,
         \A i \in 1 .. Len(s) : \A w : <<i - 1, w>> \in G => <<i, Op(w, s[i], c)>> \in G
  PROVE  <<Len(s), Fold(base, s, c)>> \in G
  <1>1. PICK g : Runs(g, base, s, c) /\ Fold(base, s, c) = g[Len(s)]
    BY FoldSteps
  <1> DEFINE n == Len(s)
             T == {i \in Nat : <<i, g[i]>> \in G}
  <1>2. n \in Nat
    OBVIOUS
  <1>3. 0 \in T
    BY <1>1 DEF Runs
  <1>4. \A i \in 1 .. n : i - 1 \in T => i \in T
    <2> TAKE i \in 1 .. n
    <2>1. i \in Nat /\ g[i] = Op(g[i - 1], s[i], c)
      BY <1>1 DEF Runs
    <2>2. <<i - 1, g[i - 1]>> \in G => <<i, Op(g[i - 1], s[i], c)>> \in G
      OBVIOUS
    <2> QED
      BY <2>1, <2>2
  <1>5. n \in T
    <2> HIDE DEF T, n
    <2> QED
      BY <1>2, <1>3, <1>4, RoundInduction
  <1> QED
    BY <1>1, <1>5

-----------------------------------------------------------------------------
(* Finite sets.                                                            *)

\* What holds of the empty set, and of a set once it holds of the set without
\* any one of its elements, holds of every finite set.
LEMMA FiniteInduction ==
  ASSUME NEW S, IsFiniteSet(S), NEW T, {} \in T,
         \A A \in SUBSET S : A # {} /\ (\A x \in A : A \ {x} \in T) => A \in T
  PROVE  S \in T
  <1> DEFINE U == {n \in Nat : \A A \in SUBSET S : Cardinality(A) = n => A \in T}
  <1>1. \A A \in SUBSET S : IsFiniteSet(A) /\ Cardinality(A) \in Nat
    BY FS_Subset, FS_CardinalityType
  <1>2. 0 \in U
    BY <1>1, FS_EmptySet
  <1>3. ASSUME NEW n \in Nat, n \in U
        PROVE  n + 1 \in U
    <2>1. ASSUME NEW A \in SUBSET S, Cardinality(A) = n + 1
          PROVE  A \in T
      <3>1. A # {}
        BY <2>1, FS_EmptySet
      <3>2. ASSUME NEW x \in A
            PROVE  A \ {x} \in T
        <4>1. Cardinality(A \ {x}) = Cardinality(A) - 1
          BY <1>1, FS_RemoveElement
        <4>2. Cardinality(A \ {x}) = n
          BY <2>1, <4>1
        <4> QED
          BY <1>3, <4>2
      <3> QED
        BY <3>1, <3>2
    <2> QED
      BY <2>1
  <1>4. Cardinality(S) \in U
    <2>1. Nat \subseteq U
      <3> HIDE DEF U
      <3> QED
        BY <1>2, <1>3, SetInduction
    <2> QED
      BY <1>1, <2>1
  <1> QED
    BY <1>4

-----------------------------------------------------------------------------
(* Sums.                                                                   *)

\* h follows the definition of MapThenSumSet on the subsets of S.
SumsBy(h, S) ==
  \A A \in SUBSET S :
    h[A] = IF A = {} THEN 0
           ELSE LET x == CHOOSE y \in A : TRUE IN Value(x) + h[A \ {x}]

\* Two functions that do agree on the sets that both are defined on.
LEMMA SumsAgree ==
  ASSUME NEW S, NEW f, SumsBy(f, S), NEW U, NEW g, SumsBy(g, U),
         NEW A \in SUBSET (S \cap U), IsFiniteSet(A)
  PROVE  f[A] = g[A]
  <1> DEFINE T == {B \in SUBSET A : f[B] = g[B]}
  <1>1. {} \in T
    BY DEF SumsBy
  <1>2. ASSUME NEW B \in SUBSET A, B # {}, \A x \in B : B \ {x} \in T
        PROVE  B \in T
    <2> DEFINE c == CHOOSE y \in B : TRUE
    <2>1. c \in B
      BY <1>2
    <2>2. f[B] = Value(c) + f[B \ {c}] /\ g[B] = Value(c) + g[B \ {c}]
      BY <1>2 DEF SumsBy
    <2> HIDE DEF c
    <2> QED
      BY <1>2, <2>1, <2>2
  <1>3. A \in T
    <2> HIDE DEF T
    <2> QED
      BY <1>1, <1>2, FiniteInduction
  <1> QED
    BY <1>3

\* Over a finite set of integers there is one.
LEMMA SumExists ==
  ASSUME NEW S, IsFiniteSet(S), \A x \in S : Value(x) \in Int
  PROVE  \E h \in [SUBSET S -> Int] : SumsBy(h, S)
  <1> DEFINE Upto(h, n) == \A A \in SUBSET S : Cardinality(A) <= n =>
               h[A] = IF A = {} THEN 0
                      ELSE LET x == CHOOSE y \in A : TRUE IN Value(x) + h[A \ {x}]
             T == {n \in Nat : \E h \in [SUBSET S -> Int] : Upto(h, n)}
  <1>1. \A A \in SUBSET S : IsFiniteSet(A) /\ Cardinality(A) \in Nat
    BY FS_Subset, FS_CardinalityType
  <1>2. 0 \in T
    <2> DEFINE h == [A \in SUBSET S |-> 0]
    <2>1. h \in [SUBSET S -> Int]
      OBVIOUS
    <2>2. \A A \in SUBSET S : Cardinality(A) <= 0 => A = {}
      BY <1>1, FS_EmptySet
    <2>3. Upto(h, 0)
      BY <2>2
    <2> QED
      BY <2>1, <2>3
  <1>3. ASSUME NEW n \in Nat, n \in T
        PROVE  n + 1 \in T
    <2>1. PICK h \in [SUBSET S -> Int] : Upto(h, n)
      BY <1>3
    <2> DEFINE One(A) == LET x == CHOOSE y \in A : TRUE IN Value(x) + h[A \ {x}]
               g == [A \in SUBSET S |-> IF Cardinality(A) <= n THEN h[A] ELSE One(A)]
    <2>2. \A A \in SUBSET S : A # {} =>
            /\ (CHOOSE y \in A : TRUE) \in A
            /\ Cardinality(A \ {CHOOSE y \in A : TRUE}) = Cardinality(A) - 1
      <3> TAKE A \in SUBSET S
      <3> HAVE A # {}
      <3>1. (CHOOSE y \in A : TRUE) \in A
        OBVIOUS
      <3> QED
        BY <1>1, <3>1, FS_RemoveElement
    <2>3. \A A \in SUBSET S : ~(Cardinality(A) <= n) => A # {}
      <3>1. Cardinality({}) = 0 /\ 0 <= n
        BY FS_EmptySet
      <3> QED
        BY <3>1
    <2>4. g \in [SUBSET S -> Int]
      <3>1. ASSUME NEW A \in SUBSET S, ~(Cardinality(A) <= n)
            PROVE  One(A) \in Int
        <4> DEFINE c == CHOOSE y \in A : TRUE
        <4>1. c \in A
          BY <2>2, <2>3, <3>1
        <4>2. Value(c) \in Int /\ h[A \ {c}] \in Int
          BY <4>1
        <4> QED
          BY <4>2
      <3> HIDE DEF One
      <3> QED
        BY <3>1
    <2>5. ASSUME NEW A \in SUBSET S, Cardinality(A) <= n + 1
          PROVE  g[A] = IF A = {} THEN 0
                        ELSE LET x == CHOOSE y \in A : TRUE IN Value(x) + g[A \ {x}]
      <3> DEFINE c == CHOOSE y \in A : TRUE
      <3>1. CASE A = {}
        <4>1. Cardinality(A) <= n
          BY <3>1, FS_EmptySet
        <4>2. g[A] = h[A]
          BY <4>1
        <4> QED
          BY <2>1, <3>1, <4>1, <4>2
      <3>2. CASE A # {}
        <4>1. c \in A /\ Cardinality(A \ {c}) <= n /\ A \ {c} \in SUBSET S
          BY <1>1, <2>2, <2>5, <3>2
        <4>2. g[A \ {c}] = h[A \ {c}]
          BY <4>1
        <4>3. g[A] = Value(c) + h[A \ {c}]
          <5>1. CASE Cardinality(A) <= n
            BY <2>1, <3>2, <5>1
          <5>2. CASE ~(Cardinality(A) <= n)
            BY <5>2
          <5> QED
            BY <5>1, <5>2
        <4> QED
          BY <3>2, <4>2, <4>3
      <3> QED
        BY <3>1, <3>2
    <2>6. Upto(g, n + 1)
      BY <2>5
    <2> HIDE DEF g, Upto
    <2> QED
      BY <2>4, <2>6
  <1>4. PICK h \in [SUBSET S -> Int] : Upto(h, Cardinality(S))
    <2>1. Nat \subseteq T
      <3> HIDE DEF T
      <3> QED
        BY <1>2, <1>3, SetInduction
    <2> QED
      BY <1>1, <2>1
  <1>5. \A A \in SUBSET S : Cardinality(A) <= Cardinality(S)
    BY FS_Subset
  <1>6. SumsBy(h, S)
    BY <1>4, <1>5 DEF SumsBy
  <1> QED
    BY <1>6

\* Sum is such a function, of type integer.
LEMMA SumIs ==
  ASSUME NEW S, IsFiniteSet(S), \A x \in S : Value(x) \in Int
  PROVE  \E h \in [SUBSET S -> Int] : SumsBy(h, S) /\ Total(S) = h[S]
  <1> DEFINE Eq(h) == h = [A \in SUBSET S |->
                             IF A = {} THEN 0
                             ELSE LET x == CHOOSE y \in A : TRUE
                                  IN  Value(x) + h[A \ {x}]]
             iter == CHOOSE h : Eq(h)
  <1>1. PICK h \in [SUBSET S -> Int] : SumsBy(h, S)
    BY SumExists
  <1>2. Eq(h)
    BY <1>1 DEF SumsBy
  <1>3. Eq(iter)
    <2> HIDE DEF Eq
    <2> QED
      BY <1>2
  <1>4. Total(S) = iter[S]
    BY DEF Total, MapThenSumSet, MapThenFoldSet
  <1> HIDE DEF iter
  <1>5. SumsBy(iter, S)
    BY <1>3 DEF SumsBy
  <1>6. \A A \in SUBSET S : iter[A] = h[A]
    <2> TAKE A \in SUBSET S
    <2>1. IsFiniteSet(A) /\ A \in SUBSET (S \cap S)
      BY FS_Subset
    <2> QED
      BY <1>1, <1>5, <2>1, SumsAgree
  <1>7. Total(S) = h[S]
    BY <1>4, <1>6
  <1> QED
    BY <1>1, <1>7

\* The sum over no elements is zero.
LEMMA SumEmpty == Total({}) = 0
  <1>1. IsFiniteSet({})
    BY FS_EmptySet
  <1>2. PICK h \in [SUBSET {} -> Int] : SumsBy(h, {}) /\ Total({}) = h[{}]
    BY <1>1, SumIs
  <1> QED
    BY <1>2 DEF SumsBy

\* A sum of integers is one.
LEMMA SumType ==
  ASSUME NEW S, IsFiniteSet(S), \A x \in S : Value(x) \in Int
  PROVE  Total(S) \in Int
  <1>1. PICK h \in [SUBSET S -> Int] : SumsBy(h, S) /\ Total(S) = h[S]
    BY SumIs
  <1> QED
    BY <1>1

\* Any element can be taken out of a sum.
LEMMA SumRemove ==
  ASSUME NEW S, IsFiniteSet(S), \A x \in S : Value(x) \in Int, NEW z \in S
  PROVE  Total(S) = Value(z) + Total(S \ {z})
  <1>1. ASSUME NEW A \in SUBSET S, A # {}
        PROVE  /\ (CHOOSE y \in A : TRUE) \in A
               /\ Total(A) = Value(CHOOSE y \in A : TRUE) + Total(A \ {CHOOSE y \in A : TRUE})
    <2> DEFINE c == CHOOSE y \in A : TRUE
               B == A \ {c}
    <2>1. c \in A
      BY <1>1
    <2>2. IsFiniteSet(A) /\ IsFiniteSet(B)
      BY FS_Subset
    <2>3. PICK f \in [SUBSET A -> Int] : SumsBy(f, A) /\ Total(A) = f[A]
      BY <2>2, SumIs
    <2>4. PICK g \in [SUBSET B -> Int] : SumsBy(g, B) /\ Total(B) = g[B]
      <3>1. \A x \in B : Value(x) \in Int
        OBVIOUS
      <3> HIDE DEF B
      <3> QED
        BY <2>2, <3>1, SumIs
    <2>5. f[A] = Value(c) + f[B]
      BY <1>1, <2>3 DEF SumsBy
    <2>6. f[B] = g[B]
      <3>1. B \in SUBSET (A \cap B)
        OBVIOUS
      <3> HIDE DEF B
      <3> QED
        BY <2>2, <2>3, <2>4, <3>1, SumsAgree
    <2> QED
      BY <2>1, <2>3, <2>4, <2>5, <2>6
  <1> DEFINE T == {A \in SUBSET S : \A x \in A : Total(A) = Value(x) + Total(A \ {x})}
  <1>2. {} \in T
    OBVIOUS
  <1>3. ASSUME NEW A \in SUBSET S, A # {}, \A x \in A : A \ {x} \in T
        PROVE  A \in T
    <2> DEFINE c == CHOOSE y \in A : TRUE
    <2>1. c \in A /\ Total(A) = Value(c) + Total(A \ {c})
      BY <1>1, <1>3
    <2> HIDE DEF c
    <2>2. ASSUME NEW x \in A
          PROVE  Total(A) = Value(x) + Total(A \ {x})
      <3>1. CASE x = c
        BY <2>1, <3>1
      <3>2. CASE x # c
        <4>1. Total(A \ {c}) = Value(x) + Total((A \ {c}) \ {x})
          BY <1>3, <2>1, <3>2
        <4>2. Total(A \ {x}) = Value(c) + Total((A \ {x}) \ {c})
          BY <1>3, <2>1, <3>2
        <4>3. (A \ {x}) \ {c} = (A \ {c}) \ {x}
          OBVIOUS
        <4>4. IsFiniteSet((A \ {c}) \ {x})
          BY FS_Subset
        <4>5. Total((A \ {c}) \ {x}) \in Int /\ Value(x) \in Int /\ Value(c) \in Int
          BY <2>1, <4>4, SumType
        <4>6. Total(A) = Value(c) + (Value(x) + Total((A \ {c}) \ {x}))
          BY <2>1, <4>1
        <4>7. Total(A \ {x}) = Value(c) + Total((A \ {c}) \ {x})
          BY <4>2, <4>3
        <4> HIDE DEF c
        <4> QED
          BY <4>5, <4>6, <4>7
      <3> QED
        BY <3>1, <3>2
    <2> QED
      BY <2>2
  <1>4. S \in T
    <2> HIDE DEF T
    <2> QED
      BY <1>2, <1>3, FiniteInduction
  <1> QED
    BY <1>4

\* A new element adds its value.
LEMMA SumAdd ==
  ASSUME NEW S, IsFiniteSet(S), NEW z, z \notin S, \A x \in S \cup {z} : Value(x) \in Int
  PROVE  Total(S \cup {z}) = Value(z) + Total(S)
  <1>1. IsFiniteSet(S \cup {z})
    BY FS_AddElement
  <1>2. (S \cup {z}) \ {z} = S
    OBVIOUS
  <1>3. Total(S \cup {z}) = Value(z) + Total((S \cup {z}) \ {z})
    BY <1>1, SumRemove
  <1> QED
    BY <1>2, <1>3

\* A sum over two sets with no element in common is the two sums together.
LEMMA SumUnion ==
  ASSUME NEW A, IsFiniteSet(A), NEW B, IsFiniteSet(B), A \cap B = {},
         \A x \in A \cup B : Value(x) \in Int
  PROVE  Total(A \cup B) = Total(A) + Total(B)
  <1> DEFINE T == {C \in SUBSET B : Total(A \cup C) = Total(A) + Total(C)}
  <1>1. {} \in T
    <2>1. Total(A) \in Int
      BY SumType
    <2>2. A \cup {} = A
      OBVIOUS
    <2> QED
      BY <2>1, <2>2, SumEmpty
  <1>2. ASSUME NEW C \in SUBSET B, C # {}, \A x \in C : C \ {x} \in T
        PROVE  C \in T
    <2>1. PICK x \in C : TRUE
      BY <1>2
    <2>2. Total(A \cup (C \ {x})) = Total(A) + Total(C \ {x})
      BY <1>2, <2>1
    <2>3. IsFiniteSet(C) /\ IsFiniteSet(C \ {x}) /\ IsFiniteSet(A \cup C)
      BY FS_Subset, FS_Union
    <2>4. Total(C) = Value(x) + Total(C \ {x})
      BY <2>1, <2>3, SumRemove
    <2>5. Total(A \cup C) = Value(x) + Total(A \cup (C \ {x}))
      <3>1. (A \cup C) \ {x} = A \cup (C \ {x})
        BY <2>1
      <3>2. Total(A \cup C) = Value(x) + Total((A \cup C) \ {x})
        BY <2>1, <2>3, SumRemove
      <3> QED
        BY <3>1, <3>2
    <2>6. Total(A) \in Int /\ Total(C \ {x}) \in Int /\ Value(x) \in Int
      BY <2>1, <2>3, SumType
    <2> QED
      BY <2>2, <2>4, <2>5, <2>6
  <1>3. B \in T
    <2> HIDE DEF T
    <2> QED
      BY <1>1, <1>2, FiniteInduction
  <1> QED
    BY <1>3

\* Leaving a part out of a sum takes away the part's sum.
LEMMA SumWithout ==
  ASSUME NEW A, IsFiniteSet(A), NEW B \in SUBSET A, \A x \in A : Value(x) \in Int
  PROVE  Total(A \ B) = Total(A) - Total(B)
  <1>1. IsFiniteSet(B) /\ IsFiniteSet(A \ B)
    BY FS_Subset
  <1>2. (A \ B) \cup B = A /\ (A \ B) \cap B = {}
    OBVIOUS
  <1>3. Total((A \ B) \cup B) = Total(A \ B) + Total(B)
    BY <1>1, <1>2, SumUnion
  <1>4. Total(A) = Total(A \ B) + Total(B)
    BY <1>2, <1>3
  <1>5. Total(A \ B) \in Int /\ Total(B) \in Int
    BY <1>1, SumType
  <1> QED
    BY <1>4, <1>5

\* A sum of natural numbers is one, and it is zero only if they all are.
LEMMA SumNat ==
  ASSUME NEW S, IsFiniteSet(S), \A x \in S : Value(x) \in Nat
  PROVE  Total(S) \in Nat /\ \A x \in S : Value(x) <= Total(S)
  <1> DEFINE T == {A \in SUBSET S : Total(A) \in Nat}
  <1>1. {} \in T
    BY SumEmpty
  <1>2. ASSUME NEW A \in SUBSET S, A # {}, \A x \in A : A \ {x} \in T
        PROVE  A \in T
    <2>1. PICK x \in A : TRUE
      BY <1>2
    <2>2. IsFiniteSet(A)
      BY FS_Subset
    <2>3. Total(A) = Value(x) + Total(A \ {x})
      BY <2>1, <2>2, SumRemove
    <2> QED
      BY <1>2, <2>1, <2>3
  <1>3. ASSUME NEW A \in SUBSET S
        PROVE  A \in T
    <2>1. IsFiniteSet(A)
      BY FS_Subset
    <2> HIDE DEF T
    <2> QED
      BY <1>1, <1>2, <2>1, FiniteInduction
  <1>4. Total(S) \in Nat
    BY <1>3
  <1>5. ASSUME NEW x \in S
        PROVE  Value(x) <= Total(S)
    <2>1. Total(S) = Value(x) + Total(S \ {x})
      BY SumRemove
    <2>2. Total(S \ {x}) \in Nat
      BY <1>3
    <2> QED
      BY <2>1, <2>2
  <1> QED
    BY <1>4, <1>5
=============================================================================
