------------------------------- MODULE Folding -------------------------------
(***************************************************************************)
(* What a loop over a list computes. FoldLeft is defined by a function     *)
(* over sets of indices that is chosen for its equation, so that a proof   *)
(* about a fold needs that there is such a function, and its values along  *)
(* 1..0, 1..1, up to 1..n. The steps of the loop are given as a function F *)
(* here, F[k] taking what has been computed before the k-th element to     *)
(* what has been computed after it; a lemma about one loop turns its body  *)
(* into such an F.                                                         *)
(***************************************************************************)
EXTENDS Integers, Sequences, SequencesExt, FiniteSetsExt, Folds, Functions,
        WellFoundedInduction, TLAPS

\* Every set of naturals that is not empty has a least element.
LEMMA Least ==
    ASSUME NEW T \in SUBSET Nat, T # {}
    PROVE  \E x \in T : \A y \in T : x <= y
<1>. DEFINE Less == OpToRel(<, Nat)
<1>1. IsWellFoundedOn(Less, Nat)
  BY NatLessThanWellFounded
<1>2. \A x, y \in Nat : y < x => <<y, x>> \in Less
  BY DEF OpToRel
<1>. HIDE DEF Less
<1>3. PICK x \in T : \A y \in T : ~ (<<y, x>> \in Less)
  BY <1>1, WFMin
<1>4. x \in Nat /\ T \subseteq Nat
  OBVIOUS
<1>5. \A y \in T : ~ (y < x)
  BY <1>2, <1>3, <1>4
<1>6. \A y \in T : x <= y
  BY <1>4, <1>5, SMT
<1>. QED  BY <1>6

\* Induction on the steps of a loop.
LEMMA Along ==
    ASSUME NEW n \in Nat, NEW G, 0 \in G, \A k \in 1..n : k - 1 \in G => k \in G
    PROVE  \A k \in 0..n : k \in G
<1>. DEFINE Bad == {k \in 0..n : k \notin G}
<1>1. ASSUME Bad # {}  PROVE FALSE
  <2>1. Bad \in SUBSET Nat
    OBVIOUS
  <2>2. PICK m \in Bad : \A y \in Bad : m <= y
    <3>. HIDE DEF Bad
    <3>. QED  BY <1>1, <2>1, Least
  <2>3. m \in 1..n /\ m - 1 \in 0..n /\ ~(m <= m - 1)
    <3>1. m # 0
      OBVIOUS
    <3>. QED  BY <3>1
  <2>4. m - 1 \in G
    BY <2>2, <2>3
  <2>. QED  BY <2>3, <2>4
<1>. QED  BY <1>1

\* Max is what it says, for a set of indices.
LEMMA Greatest ==
    ASSUME NEW n \in Nat, NEW T \in SUBSET (1..n), T # {}
    PROVE  Max(T) \in T /\ \A y \in T : y <= Max(T)
<1>. DEFINE D == {d \in 0..n : n - d \in T}
<1>1. D \in SUBSET Nat /\ D # {}
  <2>1. PICK t \in T : TRUE
    OBVIOUS
  <2>2. n - t \in 0..n /\ n - (n - t) = t
    OBVIOUS
  <2>3. n - t \in D
    BY <2>2
  <2>4. D \in SUBSET Nat
    OBVIOUS
  <2>. HIDE DEF D
  <2>. QED  BY <2>3, <2>4
<1>2. PICK d \in D : \A y \in D : d <= y
  <2>. HIDE DEF D
  <2>. QED  BY <1>1, Least
<1>3. n - d \in T /\ d \in 0..n
  BY <1>2
<1>4. ASSUME NEW y \in T  PROVE y <= n - d
  <2>1. y \in 1..n /\ n - y \in 0..n /\ n - (n - y) = y
    OBVIOUS
  <2>2. n - y \in D
    BY <2>1
  <2>3. d <= n - y
    BY <1>2, <2>2
  <2>. HIDE DEF D
  <2>. QED  BY <1>3, <2>1, <2>3
<1>5. \E x \in T : \A y \in T : x >= y
  <2>. HIDE DEF D
  <2>. QED  BY <1>3, <1>4
<1>6. Max(T) \in T /\ \A y \in T : Max(T) >= y
  <2>. HIDE DEF D
  <2>. QED  BY <1>5 DEF Max
<1>7. \A y \in T : y \in Int
  OBVIOUS
<1>. QED  BY <1>6, <1>7

\* h is the fold of F over each of the sets of steps up to n.
IsFold(h, n, X, base, F) ==
    /\ h \in [SUBSET (1..n) -> X]
    /\ \A s \in SUBSET (1..n) :
          h[s] = IF s = {} THEN base ELSE F[Max(s)][h[s \ {Max(s)}]]

\* There is one, by induction on n.
LEMMA Exists ==
    ASSUME NEW n \in Nat, NEW X, NEW base \in X, NEW F \in [1..n -> [X -> X]]
    PROVE  \E h : IsFold(h, n, X, base, F)
<1>. DEFINE Good(m, h) == \A s \in SUBSET (1..m) :
                             h[s] = IF s = {} THEN base ELSE F[Max(s)][h[s \ {Max(s)}]]
            P(m) == \E h \in [SUBSET (1..m) -> X] : Good(m, h)
<1>1. P(0)
  <2>. DEFINE h == [s \in SUBSET (1..0) |-> base]
  <2>1. \A s \in SUBSET (1..0) : s = {}
    OBVIOUS
  <2>2. h \in [SUBSET (1..0) -> X]
    OBVIOUS
  <2>3. Good(0, h)
    BY <2>1
  <2>. QED  BY <2>2, <2>3
<1>2. ASSUME NEW m \in 1..n, P(m - 1)  PROVE P(m)
  <2>1. PICK g \in [SUBSET (1..(m-1)) -> X] : Good(m - 1, g)
    BY <1>2
  <2>2. m \in 1..m /\ 1..m \ {m} = 1..(m-1) /\ 1..(m-1) \subseteq 1..m /\ 1..m \subseteq 1..n
        /\ m \notin 1..(m-1) /\ (\A i \in 1..m : i <= m /\ (i # m => i \in 1..(m-1)))
    OBVIOUS
  <2>. DEFINE h == [s \in SUBSET (1..m) |-> IF m \in s THEN F[m][g[s \ {m}]] ELSE g[s]]
  <2>3. \A s \in SUBSET (1..m) : IF m \in s THEN s \ {m} \in SUBSET (1..(m-1)) ELSE s \in SUBSET (1..(m-1))
    BY <2>2
  <2>4. F[m] \in [X -> X]
    OBVIOUS
  <2>5. h \in [SUBSET (1..m) -> X]
    BY <2>3, <2>4
  <2>6. \A s \in SUBSET (1..(m-1)) : s \in SUBSET (1..m) /\ h[s] = g[s]
    BY <2>2
  <2>7. ASSUME NEW s \in SUBSET (1..m)
        PROVE  h[s] = IF s = {} THEN base ELSE F[Max(s)][h[s \ {Max(s)}]]
    <3>1. CASE s = {}
      <4>1. s \in SUBSET (1..(m-1))
        BY <3>1
      <4>. HIDE DEF h
      <4>. QED  BY <2>1, <2>6, <3>1, <4>1
    <3>2. CASE m \in s
      <4>1. s \in SUBSET (1..n) /\ s # {}
        BY <2>2, <3>2
      <4>2. Max(s) \in s /\ \A y \in s : y <= Max(s)
        BY <4>1, Greatest
      <4>3. Max(s) = m
        <5>1. Max(s) \in 1..m /\ m <= Max(s)
          BY <3>2, <4>2
        <5>. QED  BY <5>1
      <4>4. s \ {m} \in SUBSET (1..(m-1))
        BY <2>3, <3>2
      <4>5. h[s] = F[m][g[s \ {m}]] /\ h[s \ {m}] = g[s \ {m}]
        BY <2>6, <3>2, <4>4
      <4>. HIDE DEF h
      <4>. QED  BY <4>1, <4>3, <4>5
    <3>3. CASE s # {} /\ m \notin s
      <4>1. s \in SUBSET (1..(m-1)) /\ s \in SUBSET (1..n)
        BY <2>2, <2>3, <3>3
      <4>2. Max(s) \in s
        BY <3>3, <4>1, Greatest
      <4>3. s \ {Max(s)} \in SUBSET (1..(m-1))
        BY <4>1
      <4>4. h[s] = g[s] /\ h[s \ {Max(s)}] = g[s \ {Max(s)}]
        BY <2>6, <4>1, <4>3
      <4>. HIDE DEF h
      <4>. QED  BY <2>1, <3>3, <4>1, <4>4
    <3>. QED  BY <3>1, <3>2, <3>3
  <2>. HIDE DEF h
  <2>. QED  BY <2>5, <2>7
<1>. DEFINE G == {m \in 0..n : P(m)}
<1>. HIDE DEF P
<1>3. \A m \in 0..n : m \in G
  <2>1. 0 \in G /\ \A m \in 1..n : m - 1 \in G => m \in G
    BY <1>1, <1>2
  <2>. HIDE DEF G
  <2>. QED  BY <2>1, Along
<1>4. P(n)
  BY <1>3
<1>. QED  BY <1>4 DEF P, IsFold

\* The sets of indices that a loop comes by.
LEMMA UpTo ==
    ASSUME NEW n \in Nat, NEW k \in 1..n
    PROVE  /\ 1..k \in SUBSET (1..n) /\ 1..k # {}
           /\ Max(1..k) = k /\ (1..k) \ {k} = 1..(k-1)
<1>1. 1..k \in SUBSET (1..n) /\ k \in 1..k /\ (1..k) \ {k} = 1..(k-1)
  OBVIOUS
<1>2. Max(1..k) \in 1..k /\ k <= Max(1..k)
  BY <1>1, Greatest
<1>. QED  BY <1>1, <1>2

\* g is what the loop has computed after each of its n steps.
IsLoop(g, n, X, base, F) ==
    /\ g \in [0..n -> X] /\ g[0] = base
    /\ \A k \in 1..n : g[k] = F[k][g[k-1]]

\* iter satisfies the equation that FoldLeft's function is chosen for.
Iterates(iter, n, X, base, F) ==
    /\ iter[{}] = base
    /\ \A s \in SUBSET (1..n) :
          s # {} /\ iter[s \ {Max(s)}] \in X =>
              iter[s] = F[Max(s)][iter[s \ {Max(s)}]]

\* The values of a fold along the sets of indices are those of the loop.
LEMMA Loop ==
    ASSUME NEW n \in Nat, NEW X, NEW base \in X, NEW F \in [1..n -> [X -> X]],
           NEW iter, Iterates(iter, n, X, base, F)
    PROVE  \E g : IsLoop(g, n, X, base, F) /\ g[n] = iter[1..n]
<1>. DEFINE G == {k \in 0..n : iter[1..k] \in X}
            g == [k \in 0..n |-> iter[1..k]]
<1>1. iter[1..0] = base
  <2>1. 1..0 = {}
    OBVIOUS
  <2>. QED  BY <2>1 DEF Iterates
<1>2. \A k \in 1..n : iter[1..(k-1)] \in X => iter[1..k] = F[k][iter[1..(k-1)]]
  <2>. TAKE k \in 1..n
  <2>1. /\ 1..k \in SUBSET (1..n) /\ 1..k # {}
        /\ Max(1..k) = k /\ (1..k) \ {k} = 1..(k-1)
    BY UpTo
  <2>. QED  BY <2>1 DEF Iterates
<1>3. 0 \in G /\ \A k \in 1..n : k - 1 \in G => k \in G
  <2>1. \A k \in 1..n : k \in 0..n /\ k - 1 \in 0..n /\ F[k] \in [X -> X]
    OBVIOUS
  <2>. QED  BY <1>1, <1>2, <2>1
<1>4. \A k \in 0..n : iter[1..k] \in X
  <2>1. \A k \in 0..n : k \in G
    <3>. HIDE DEF G
    <3>. QED  BY <1>3, Along
  <2>. QED  BY <2>1
<1>5. g \in [0..n -> X] /\ g[0] = base
  BY <1>1, <1>4
<1>6. \A k \in 1..n : g[k] = F[k][g[k-1]]
  <2>1. \A k \in 1..n : k \in 0..n /\ k - 1 \in 0..n
    OBVIOUS
  <2>. QED  BY <1>2, <1>4, <2>1
<1>7. g[n] = iter[1..n]
  OBVIOUS
<1>. HIDE DEF g
<1>8. IsLoop(g, n, X, base, F)
  BY <1>5, <1>6 DEF IsLoop
<1>. QED  BY <1>7, <1>8
=============================================================================
