----------------------------- MODULE NatRecursion -----------------------------
(***************************************************************************)
(* Induction and recursion over the naturals, said of sets and functions   *)
(* and not of operators, for the proofs about what the models' recursive   *)
(* functions compute.                                                      *)
(***************************************************************************)
EXTENDS Integers, WellFoundedInduction, TLAPS

Less == {p \in Nat \X Nat : p[1] < p[2]}

LEMMA LessIsWellFounded == IsWellFoundedOn(Less, Nat)
  BY NatLessThanWellFounded DEF OpToRel, Less

\* A set that holds 0 and with n also n + 1 holds all naturals.
LEMMA BySteps ==
    ASSUME NEW S, 0 \in S, \A n \in Nat : n \in S => n + 1 \in S
    PROVE  \A n \in Nat : n \in S
  <1>. SUFFICES ASSUME Nat \ S # {} PROVE FALSE
    OBVIOUS
  <1>1. PICK x \in Nat \ S : \A y \in Nat \ S : ~ (<<y, x>> \in Less)
    <2>1. Nat \ S \subseteq Nat
      OBVIOUS
    <2>. QED  BY <2>1, LessIsWellFounded, WFMin
  <1>2. x # 0 /\ x - 1 \in Nat /\ <<x - 1, x>> \in Less
    BY <1>1 DEF Less
  <1>3. x - 1 \in S /\ (x - 1) + 1 = x
    BY <1>1, <1>2
  <1>. QED  BY <1>1, <1>2, <1>3

\* The functions on 0 .. k that begin with x0 and go on by next.
Starts(X, x0, next, k) ==
    {g \in [0 .. k -> X] : g[0] = x0 /\ \A n \in 0 .. k - 1 : g[n + 1] = next[n][g[n]]}

LEMMA StartExists ==
    ASSUME NEW X, NEW x0 \in X, NEW next \in [Nat -> [X -> X]]
    PROVE  \A k \in Nat : Starts(X, x0, next, k) # {}
  <1>. DEFINE S == {k \in Nat : Starts(X, x0, next, k) # {}}
  <1>1. 0 \in S
    <2>1. [n \in 0 .. 0 |-> x0] \in Starts(X, x0, next, 0)
      BY DEF Starts
    <2>. QED  BY <2>1
  <1>2. ASSUME NEW k \in Nat, k \in S PROVE k + 1 \in S
    <2>1. PICK g : g \in Starts(X, x0, next, k)
      BY <1>2
    <2>2. /\ g \in [0 .. k -> X] /\ g[0] = x0
          /\ \A n \in 0 .. k - 1 : g[n + 1] = next[n][g[n]]
      BY <2>1 DEF Starts
    <2>. DEFINE h == [n \in 0 .. k + 1 |-> IF n = k + 1 THEN next[k][g[k]] ELSE g[n]]
    <2>3. h \in [0 .. k + 1 -> X]
      <3>1. next[k][g[k]] \in X
        BY <2>2
      <3>2. \A n \in 0 .. k + 1 : n # k + 1 => g[n] \in X
        BY <2>2
      <3>. QED  BY <3>1, <3>2
    <2>4. h[0] = x0
      BY <2>2
    <2>5. ASSUME NEW n \in 0 .. (k + 1) - 1 PROVE h[n + 1] = next[n][h[n]]
      <3>1. h[n] = g[n]
        BY <2>2
      <3>2. CASE n = k
        BY <3>1, <3>2
      <3>3. CASE n # k
        <4>1. n \in 0 .. k - 1 /\ n + 1 \in 0 .. k + 1 /\ n + 1 # k + 1
          BY <3>3
        <4>2. h[n + 1] = g[n + 1]
          BY <4>1
        <4>. QED  BY <2>2, <3>1, <4>1, <4>2
      <3>. QED  BY <3>2, <3>3
    <2>. HIDE DEF h
    <2>6. h \in Starts(X, x0, next, k + 1)
      BY <2>3, <2>4, <2>5 DEF Starts
    <2>. QED  BY <2>6
  <1>. HIDE DEF S
  <1>3. \A k \in Nat : k \in S
    BY <1>1, <1>2, BySteps
  <1>. QED  BY <1>3 DEF S

\* Two of them agree as far as both go.
LEMMA StartsAgree ==
    ASSUME NEW X, NEW x0 \in X, NEW next \in [Nat -> [X -> X]], NEW k \in Nat, NEW m \in Nat,
           NEW g \in Starts(X, x0, next, k), NEW h \in Starts(X, x0, next, m)
    PROVE  \A n \in Nat : n <= k /\ n <= m => g[n] = h[n]
  <1>. DEFINE S == {n \in Nat : n <= k /\ n <= m => g[n] = h[n]}
  <1>0. /\ g[0] = x0 /\ \A n \in 0 .. k - 1 : g[n + 1] = next[n][g[n]]
        /\ h[0] = x0 /\ \A n \in 0 .. m - 1 : h[n + 1] = next[n][h[n]]
    BY DEF Starts
  <1>1. 0 \in S
    BY <1>0
  <1>2. ASSUME NEW n \in Nat, n \in S PROVE n + 1 \in S
    <2>. SUFFICES ASSUME n + 1 <= k, n + 1 <= m PROVE g[n + 1] = h[n + 1]
      OBVIOUS
    <2>1. n \in 0 .. k - 1 /\ n \in 0 .. m - 1 /\ g[n] = h[n]
      BY <1>2
    <2>. QED  BY <1>0, <2>1
  <1>. HIDE DEF S
  <1>3. \A n \in Nat : n \in S
    BY <1>1, <1>2, BySteps
  <1>. QED  BY <1>3 DEF S

\* A function that begins with x0 and goes on by next.
Recurses(h, X, x0, next) ==
    h \in [Nat -> X] /\ h[0] = x0 /\ \A n \in Nat : h[n + 1] = next[n][h[n]]

LEMMA Recursion ==
    ASSUME NEW X, NEW x0 \in X, NEW next \in [Nat -> [X -> X]]
    PROVE  \E h : Recurses(h, X, x0, next)
  <1>. DEFINE start == [k \in Nat |-> CHOOSE g : g \in Starts(X, x0, next, k)]
              h == [n \in Nat |-> start[n][n]]
  <1>1. ASSUME NEW k \in Nat PROVE start[k] \in Starts(X, x0, next, k)
    <2>1. \E g : g \in Starts(X, x0, next, k)
      BY StartExists
    <2>2. (CHOOSE g : g \in Starts(X, x0, next, k)) \in Starts(X, x0, next, k)
      BY <2>1
    <2>. QED  BY <2>2
  <1>. HIDE DEF start
  <1>2. h \in [Nat -> X]
    <2>1. ASSUME NEW n \in Nat PROVE start[n][n] \in X
      <3>1. start[n] \in [0 .. n -> X]
        BY <1>1 DEF Starts
      <3>. QED  BY <3>1
    <2>. QED  BY <2>1
  <1>3. h[0] = x0
    BY <1>1 DEF Starts
  <1>4. ASSUME NEW n \in Nat PROVE h[n + 1] = next[n][h[n]]
    <2>1. start[n + 1] \in Starts(X, x0, next, n + 1) /\ start[n] \in Starts(X, x0, next, n)
      BY <1>1
    <2>2. start[n + 1][n + 1] = next[n][start[n + 1][n]]
      <3>1. n \in 0 .. (n + 1) - 1
        OBVIOUS
      <3>. QED  BY <2>1, <3>1 DEF Starts
    <2>3. start[n + 1][n] = start[n][n]
      <3>1. n + 1 \in Nat /\ n <= n + 1 /\ n <= n
        OBVIOUS
      <3>. QED  BY <2>1, <3>1, StartsAgree
    <2>. QED  BY <2>2, <2>3
  <1>. HIDE DEF h
  <1>5. Recurses(h, X, x0, next)
    BY <1>2, <1>3, <1>4 DEF Recurses
  <1>. QED  BY <1>5

=============================================================================
