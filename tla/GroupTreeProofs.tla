--------------------------- MODULE GroupTreeProofs ---------------------------
(***************************************************************************)
(* Proofs about GroupTree, for any set of groups: while calls come one at  *)
(* a time, groups are moved to groups that exist and only groups without   *)
(* children are deleted, parent_id and the closure table tell of the same  *)
(* tree, and no move fails half-way.  When calls overlap, fail, or come    *)
(* with deletes of any group, the rows still name groups that exist.       *)
(***************************************************************************)
EXTENDS GroupTree, NatRecursion, TLAPS

Tables == [Groups -> [Groups -> Nat \cup {NoRow}]]
Parents == [Groups -> Groups \cup {None}]

\* Rows compose: what is above a group that is above d is above d.
Composes(C) ==
    \A a, b, d \in Groups :
        C[a][b] # NoRow /\ C[b][d] # NoRow => C[a][d] = C[a][b] + C[b][d]

\* A group above d is above d through one of its own children.
ThroughChild(G, par, C) ==
    \A a, d \in G :
        C[a][d] # NoRow /\ a # d => \E e \in G : par[e] = a /\ C[e][d] # NoRow

\* Of two groups above a third, one is above the other.
Chains(C) ==
    \A a, b, d \in Groups :
        C[a][d] # NoRow /\ C[b][d] # NoRow => C[a][b] # NoRow \/ C[b][a] # NoRow

\* Mirrors, with what induction over the depth of a row would conclude from it.
Forest(G, par, C) ==
    Mirrors(G, par, C) /\ Composes(C) /\ ThroughChild(G, par, C) /\ Chains(C)

-----------------------------------------------------------------------------
(* Cutting and linking a subtree.                                          *)

\* Without the links into its subtree, group g is a root.
LEMMA CutForest ==
    ASSUME closure \in Tables, NEW par \in Parents, NEW G \in SUBSET Groups,
           Forest(G, par, closure), NEW g \in G
    PROVE  /\ Forest(G, [par EXCEPT ![g] = None], Cut(Below(g)))
           /\ Cut(Below(g))[g] = closure[g]
  <1>. DEFINE C == closure
              D == Cut(Below(g))
              q == [par EXCEPT ![g] = None]
              S == Below(g)
  <1>1. \A d \in Groups : d \in S <=> C[g][d] # NoRow
    BY DEF Below, Row
  <1>2. \A a, d \in Groups : D[a][d] = IF d \in S /\ a \notin S THEN NoRow ELSE C[a][d]
    BY DEF Cut
  <1>3. g \in S /\ g \in Groups  BY <1>1 DEF Forest, Mirrors, NoRow
  <1>4. \A d \in Groups : q[d] = IF d = g THEN None ELSE par[d]
    BY DEF Parents
  <1>5. D[g] = C[g]
    BY <1>3 DEF Cut, Tables
  <1>6. \A b, d \in Groups : b \in S /\ C[b][d] # NoRow => d \in S
    <2>. TAKE b, d \in Groups
    <2>. HAVE b \in S /\ C[b][d] # NoRow
    <2>1. C[g][d] = C[g][b] + C[b][d]  BY <1>1, <1>3 DEF Forest, Composes
    <2>2. C[g][b] \in Nat /\ C[b][d] \in Nat
      BY <1>1, <1>3 DEF Tables
    <2>. QED  BY <1>1, <2>1, <2>2 DEF NoRow
  <1>. HIDE DEF C, D, q, S
  <1>7. /\ Mirrors(G, par, C) /\ Composes(C)
        /\ ThroughChild(G, par, C) /\ Chains(C)
    BY DEF Forest, C
  <1>8. Mirrors(G, q, D)
    <2>1. \A a, d \in Groups : D[a][d] # NoRow => a \in G /\ d \in G
      BY <1>2, <1>7 DEF Mirrors
    <2>2. \A k \in G : D[k][k] = 0
      BY <1>2, <1>7 DEF Mirrors
    <2>3. \A d \in G : q[d] \in (G \ {d}) \cup {None}
      BY <1>4, <1>7 DEF Mirrors
    <2>4. \A a, d \in G : D[a][d] # NoRow /\ D[d][a] # NoRow => a = d
      BY <1>2, <1>7 DEF Mirrors
    <2>5. ASSUME NEW a \in G, NEW d \in G, a # d
          PROVE  D[a][d] = IF q[d] # None /\ D[a][q[d]] # NoRow
                           THEN D[a][q[d]] + 1 ELSE NoRow
      <3>1. CASE d = g
        <4>1. a \in S => C[a][g] = NoRow
          BY <1>1, <1>3, <1>7, <2>5, <3>1 DEF Mirrors
        <4>. QED  BY <1>2, <1>3, <1>4, <3>1, <4>1
      <3>2. CASE d # g
        <4>1. q[d] = par[d]  BY <1>4, <3>2
        <4>2. C[a][d] = IF par[d] # None /\ C[a][par[d]] # NoRow
                        THEN C[a][par[d]] + 1 ELSE NoRow
          BY <1>7, <2>5 DEF Mirrors
        <4>3. CASE par[d] = None  BY <1>2, <4>1, <4>2, <4>3
        <4>4. CASE par[d] # None
          <5>1. par[d] \in G  BY <1>7, <4>4 DEF Mirrors
          <5>2. C[g][d] = IF C[g][par[d]] # NoRow THEN C[g][par[d]] + 1 ELSE NoRow
            BY <1>7, <3>2, <4>4 DEF Mirrors
          <5>3. C[g][par[d]] \in Nat \cup {NoRow}
            BY <1>3, <5>1 DEF Tables, C
          <5>4. d \in S <=> par[d] \in S
            BY <1>1, <5>1, <5>2, <5>3 DEF NoRow
          <5>. QED  BY <1>2, <4>1, <4>2, <4>4, <5>1, <5>4
        <4>. QED  BY <4>3, <4>4
      <3>. QED  BY <3>1, <3>2
    <2>. QED  BY <2>1, <2>2, <2>3, <2>4, <2>5 DEF Mirrors
  <1>9. Composes(D)
    <2>1. SUFFICES ASSUME NEW a \in Groups, NEW b \in Groups, NEW d \in Groups,
                          D[a][b] # NoRow, D[b][d] # NoRow
                   PROVE  D[a][d] = D[a][b] + D[b][d]
      BY DEF Composes
    <2>2. D[a][b] = C[a][b] /\ D[b][d] = C[b][d]
      BY <1>2, <2>1
    <2>3. d \in S => a \in S
      BY <1>2, <2>1
    <2>. QED  BY <1>2, <1>7, <2>1, <2>2, <2>3 DEF Composes
  <1>10. ThroughChild(G, q, D)
    <2>1. SUFFICES ASSUME NEW a \in G, NEW d \in G, D[a][d] # NoRow, a # d
                   PROVE  \E e \in G : q[e] = a /\ D[e][d] # NoRow
      BY DEF ThroughChild
    <2>2. C[a][d] # NoRow /\ (d \in S => a \in S)
      BY <1>2, <2>1
    <2>3. PICK e \in G : par[e] = a /\ C[e][d] # NoRow
      BY <1>7, <2>1, <2>2 DEF ThroughChild
    <2>4. a # None  BY NoneAssumption
    <2>5. e # a /\ C[a][e] # NoRow
      <3>1. e # a /\ C[a][a] = 0  BY <1>7, <2>3, <2>4 DEF Mirrors
      <3>2. C[a][e] = 1  BY <1>7, <2>3, <2>4, <3>1 DEF Mirrors, NoRow
      <3>. QED  BY <3>1, <3>2 DEF NoRow
    <2>6. d \in S => e \in S  BY <1>6, <2>2, <2>5
    <2>7. e # g
      <3>1. CASE d \in S
        BY <1>1, <1>7, <2>2, <2>5, <3>1 DEF Mirrors
      <3>2. CASE d \notin S
        BY <1>1, <2>3, <3>2
      <3>. QED  BY <3>1, <3>2
    <2>. QED  BY <1>2, <1>4, <2>3, <2>6, <2>7
  <1>11. Chains(D)
    <2>1. SUFFICES ASSUME NEW a \in Groups, NEW b \in Groups, NEW d \in Groups,
                          D[a][d] # NoRow, D[b][d] # NoRow
                   PROVE  D[a][b] # NoRow \/ D[b][a] # NoRow
      BY DEF Chains
    <2>2. C[a][d] # NoRow /\ C[b][d] # NoRow /\ (d \in S => a \in S /\ b \in S)
      BY <1>2, <2>1
    <2>3. CASE d \in S  BY <1>2, <1>7, <2>2, <2>3 DEF Chains
    <2>4. CASE d \notin S
      BY <1>2, <1>6, <1>7, <2>2, <2>4 DEF Chains
    <2>. QED  BY <2>3, <2>4
  <1>. QED  BY <1>5, <1>8, <1>9, <1>10, <1>11 DEF Forest, C, D, q, S

\* A root g with what is below it, hung under a group p that is not.
LEMMA LinkForest ==
    ASSUME closure \in Tables, NEW par \in Parents, NEW G \in SUBSET Groups,
           Forest(G, par, closure), NEW g \in G, NEW p \in G,
           par[g] = None, ~Row(g, p)
    PROVE  /\ Forest(G, [par EXCEPT ![g] = p], Linked(p, g, Below(g)))
           /\ ~Duplicates(p, Below(g))
           /\ Linked(p, g, Below(g)) \in Tables
  <1>. DEFINE C == closure
              D == Linked(p, g, Below(g))
              q == [par EXCEPT ![g] = p]
              S == Below(g)
              A == {a \in Groups : C[a][p] # NoRow}
  <1>1. \A d \in Groups : d \in S <=> C[g][d] # NoRow
    BY DEF Below, Row
  <1>2. \A a, d \in Groups :
            D[a][d] = IF a \in A /\ d \in S THEN C[a][p] + C[g][d] + 1 ELSE C[a][d]
    BY DEF Linked, Row
  <1>3. g \in S /\ C[g][g] = 0 /\ p \notin S /\ p \in A /\ C[p][p] = 0 /\ g # p
    BY <1>1 DEF Forest, Mirrors, NoRow, Row
  <1>4. \A d \in Groups : q[d] = IF d = g THEN p ELSE par[d]
    BY DEF Parents
  <1>5. \A a, d \in Groups : C[a][d] \in Nat \cup {NoRow}
    BY DEF Tables
  <1>6. \A a \in A, d \in S : C[a][p] \in Nat /\ C[g][d] \in Nat
    <2>1. S \subseteq Groups /\ g \in Groups /\ p \in Groups  BY DEF Below
    <2>. HIDE DEF C, S
    <2>. QED  BY <1>1, <1>5, <2>1
  <1>7. /\ Mirrors(G, par, C) /\ Composes(C)
        /\ ThroughChild(G, par, C) /\ Chains(C)
    BY DEF Forest
  <1>8. None \notin G  BY NoneAssumption
  <1>9. D \in Tables
    <2>1. \A a, d \in Groups : D[a][d] \in Nat \cup {NoRow}
      BY <1>2, <1>5, <1>6
    <2>. QED  BY <2>1 DEF Linked, Tables
  <1>10. ~Duplicates(p, S) <=> \A a \in A, d \in S : C[a][d] = NoRow
    BY DEF Duplicates, Row, Below
  <1>. HIDE DEF C, D, q, S
  <1>11. \A a \in A : a \in Groups /\ a \in G /\ C[a][p] # NoRow
    BY <1>7 DEF Mirrors
  <1>12. \A b, d \in Groups : b \in S /\ C[b][d] # NoRow =>
            d \in S /\ C[g][d] = C[g][b] + C[b][d]
    <2>. TAKE b, d \in Groups
    <2>. HAVE b \in S /\ C[b][d] # NoRow
    <2>1. C[g][d] = C[g][b] + C[b][d]  BY <1>1, <1>7 DEF Composes
    <2>2. C[g][b] \in Nat /\ C[b][d] \in Nat
      <3>1. g \in Groups /\ C[g][b] # NoRow  BY <1>1
      <3>. QED  BY <1>5, <3>1
    <2>. QED  BY <1>1, <2>1, <2>2 DEF NoRow
  <1>13. A \cap S = {}
    BY <1>3, <1>11, <1>12
  <1>14. \A a \in A, d \in S : C[a][d] = NoRow
    <2>. SUFFICES ASSUME NEW a \in A, NEW d \in S, C[a][d] # NoRow PROVE FALSE
      OBVIOUS
    <2>1. d \in Groups /\ C[g][d] # NoRow  BY <1>1, <1>7 DEF S, Below
    <2>2. a # g /\ a \in Groups /\ a \notin S  BY <1>3, <1>11, <1>13
    <2>3. C[a][g] = NoRow  BY <1>7, <1>11, <2>2 DEF Mirrors
    <2>4. C[g][a] # NoRow  BY <1>3, <1>7, <2>1, <2>2, <2>3 DEF Chains, S, Below
    <2>. QED  BY <1>1, <2>2, <2>4
  <1>15. Mirrors(G, q, D)
    <2>1. \A a, d \in Groups : D[a][d] # NoRow => a \in G /\ d \in G
      BY <1>1, <1>2, <1>7, <1>11 DEF Mirrors
    <2>2. \A k \in G : D[k][k] = 0
      BY <1>2, <1>7, <1>13 DEF Mirrors
    <2>3. \A d \in G : q[d] \in (G \ {d}) \cup {None}
      BY <1>3, <1>4, <1>7 DEF Mirrors
    <2>4. \A a, d \in G : D[a][d] # NoRow /\ D[d][a] # NoRow => a = d
      <3>. SUFFICES ASSUME NEW a \in G, NEW d \in G,
                           D[a][d] # NoRow, D[d][a] # NoRow
                    PROVE  a = d
        OBVIOUS
      <3>1. CASE C[a][d] # NoRow /\ C[d][a] # NoRow
        BY <1>7, <3>1 DEF Mirrors
      <3>2. ASSUME NEW x \in G, NEW y \in G, x \in A, y \in S, D[y][x] # NoRow
            PROVE  FALSE
        <4>1. C[y][x] # NoRow  BY <1>2, <1>13, <3>2
        <4>. QED  BY <1>12, <1>13, <3>2, <4>1
      <3>. QED  BY <1>2, <3>1, <3>2
    <2>5. ASSUME NEW a \in G, NEW d \in G, a # d
          PROVE  D[a][d] = IF q[d] # None /\ D[a][q[d]] # NoRow
                           THEN D[a][q[d]] + 1 ELSE NoRow
      <3>1. CASE d = g
        <4>1. C[a][g] = NoRow  BY <1>7, <2>5, <3>1 DEF Mirrors
        <4>2. D[a][p] = C[a][p]  BY <1>2, <1>3
        <4>3. a \in A => C[a][p] \in Nat /\ C[a][p] + C[g][g] + 1 = C[a][p] + 1
          BY <1>3, <1>6
        <4>. QED  BY <1>2, <1>3, <1>4, <1>8, <3>1, <4>1, <4>2, <4>3
      <3>2. CASE d # g
        <4>1. q[d] = par[d]  BY <1>4, <3>2
        <4>2. C[a][d] = IF par[d] # None /\ C[a][par[d]] # NoRow
                        THEN C[a][par[d]] + 1 ELSE NoRow
          BY <1>7, <2>5 DEF Mirrors
        <4>3. C[g][d] = IF par[d] # None /\ C[g][par[d]] # NoRow
                        THEN C[g][par[d]] + 1 ELSE NoRow
          BY <1>7, <3>2 DEF Mirrors
        <4>4. CASE par[d] = None
          BY <1>1, <1>2, <4>1, <4>2, <4>3, <4>4
        <4>5. CASE par[d] # None
          <5>1. par[d] \in G  BY <1>7, <4>5 DEF Mirrors
          <5>2. C[g][par[d]] \in Nat \cup {NoRow}  BY <1>5, <5>1
          <5>3. d \in S <=> par[d] \in S
            BY <1>1, <4>3, <4>5, <5>1, <5>2 DEF NoRow
          <5>4. CASE d \in S /\ a \in A
            <6>1. C[a][p] \in Nat /\ C[g][par[d]] \in Nat
              BY <1>6, <5>3, <5>4
            <6>2. D[a][par[d]] = C[a][p] + C[g][par[d]] + 1
              BY <1>2, <5>1, <5>3, <5>4
            <6>3. D[a][d] = C[a][p] + C[g][d] + 1
              BY <1>2, <5>4
            <6>4. C[g][d] = C[g][par[d]] + 1
              BY <1>1, <4>3, <4>5, <5>1, <5>3, <5>4
            <6>. QED  BY <4>1, <4>5, <6>1, <6>2, <6>3, <6>4 DEF NoRow
          <5>5. CASE ~(d \in S /\ a \in A)
            BY <1>2, <4>1, <4>2, <4>5, <5>1, <5>3, <5>5
          <5>. QED  BY <5>4, <5>5
        <4>. QED  BY <4>4, <4>5
      <3>. QED  BY <3>1, <3>2
    <2>. QED  BY <2>1, <2>2, <2>3, <2>4, <2>5 DEF Mirrors
  <1>16. Composes(D)
    <2>1. SUFFICES ASSUME NEW a \in Groups, NEW b \in Groups, NEW d \in Groups,
                          D[a][b] # NoRow, D[b][d] # NoRow
                   PROVE  D[a][d] = D[a][b] + D[b][d]
      BY DEF Composes
    <2>2. CASE a \in A /\ b \in S
      <3>1. D[b][d] = C[b][d]  BY <1>2, <1>13, <2>2
      <3>2. d \in S /\ C[g][d] = C[g][b] + C[b][d]  BY <1>12, <2>1, <2>2, <3>1
      <3>3. C[a][p] \in Nat /\ C[g][b] \in Nat /\ C[b][d] \in Nat
        BY <1>5, <1>6, <2>1, <2>2, <3>1
      <3>. QED  BY <1>2, <2>2, <3>1, <3>2, <3>3
    <2>3. CASE b \in A /\ d \in S
      <3>1. D[a][b] = C[a][b]  BY <1>2, <1>13, <2>3
      <3>2. p \in Groups  OBVIOUS
      <3>3. C[a][p] = C[a][b] + C[b][p]
        BY <1>7, <1>11, <2>1, <2>3, <3>1, <3>2 DEF Composes
      <3>4. C[a][b] \in Nat /\ C[b][p] \in Nat /\ C[g][d] \in Nat
        BY <1>5, <1>6, <2>1, <2>3, <3>1
      <3>5. a \in A  BY <3>3, <3>4 DEF NoRow
      <3>. QED  BY <1>2, <2>3, <3>1, <3>3, <3>4, <3>5
    <2>4. CASE ~(a \in A /\ b \in S) /\ ~(b \in A /\ d \in S)
      <3>1. D[a][b] = C[a][b] /\ D[b][d] = C[b][d]  BY <1>2, <2>4
      <3>2. C[a][d] = C[a][b] + C[b][d]  BY <1>7, <2>1, <3>1 DEF Composes
      <3>3. C[a][d] # NoRow
        BY <1>5, <2>1, <3>1, <3>2 DEF NoRow
      <3>. QED  BY <1>2, <1>14, <3>1, <3>2, <3>3
    <2>. QED  BY <2>2, <2>3, <2>4
  <1>17. ThroughChild(G, q, D)
    <2>1. SUFFICES ASSUME NEW a \in G, NEW d \in G, D[a][d] # NoRow, a # d
                   PROVE  \E e \in G : q[e] = a /\ D[e][d] # NoRow
      BY DEF ThroughChild
    <2>2. \A e, k \in Groups : C[e][k] # NoRow => D[e][k] = C[e][k]
      BY <1>2, <1>14
    <2>3. CASE a \in A /\ d \in S
      <3>1. CASE a = p
        <4>1. q[g] = a /\ C[g][d] # NoRow  BY <1>1, <1>4, <2>3, <3>1
        <4>. QED  BY <2>2, <4>1
      <3>2. CASE a # p
        <4>1. PICK e \in G : par[e] = a /\ C[e][p] # NoRow
          BY <1>7, <2>3, <3>2 DEF ThroughChild
        <4>2. e # g /\ e \in A  BY <1>1, <1>3, <4>1
        <4>3. C[e][p] \in Nat /\ C[g][d] \in Nat /\ D[e][d] = C[e][p] + C[g][d] + 1
          BY <1>2, <1>6, <2>3, <4>2
        <4>. QED  BY <1>4, <4>1, <4>2, <4>3 DEF NoRow
      <3>. QED  BY <3>1, <3>2
    <2>4. CASE ~(a \in A /\ d \in S)
      <3>1. C[a][d] # NoRow  BY <1>2, <2>1, <2>4
      <3>2. PICK e \in G : par[e] = a /\ C[e][d] # NoRow
        BY <1>7, <2>1, <3>1 DEF ThroughChild
      <3>3. e # g  BY <1>8, <3>2
      <3>. QED  BY <1>4, <2>2, <3>2, <3>3
    <2>. QED  BY <2>3, <2>4
  <1>18. Chains(D)
    <2>1. SUFFICES ASSUME NEW a \in Groups, NEW b \in Groups, NEW d \in Groups,
                          D[a][d] # NoRow, D[b][d] # NoRow
                   PROVE  D[a][b] # NoRow \/ D[b][a] # NoRow
      BY DEF Chains
    <2>2. \A e, k \in Groups : C[e][k] # NoRow => D[e][k] # NoRow
      BY <1>2, <1>14
    <2>3. \A e \in A, k \in S : D[e][k] # NoRow
      BY <1>1, <1>2, <1>6, <1>11 DEF NoRow, S, Below
    <2>4. ASSUME NEW x \in Groups, x \notin A, d \in S, C[x][d] # NoRow
          PROVE  x \in S
      <3>1. C[g][d] # NoRow  BY <1>1, <2>4
      <3>2. C[x][g] # NoRow \/ C[g][x] # NoRow  BY <1>7, <2>4, <3>1 DEF Chains
      <3>3. C[x][g] # NoRow => x = g  BY <1>7, <2>4 DEF Mirrors
      <3>. QED  BY <1>1, <1>3, <3>2, <3>3
    <2>5. CASE a \in A /\ b \in A
      BY <1>7, <1>11, <2>2, <2>5 DEF Chains
    <2>6. CASE d \notin S
      BY <1>2, <1>7, <2>1, <2>2, <2>6 DEF Chains
    <2>7. CASE d \in S /\ a \notin A /\ b \notin A
      BY <1>2, <1>7, <2>1, <2>2, <2>7 DEF Chains
    <2>8. CASE d \in S /\ a \in A /\ b \notin A
      BY <1>2, <2>1, <2>3, <2>4, <2>8
    <2>9. CASE d \in S /\ a \notin A /\ b \in A
      BY <1>2, <2>1, <2>3, <2>4, <2>9
    <2>. QED  BY <2>5, <2>6, <2>7, <2>8, <2>9
  <1>. QED
    BY <1>9, <1>10, <1>14, <1>15, <1>16, <1>17, <1>18 DEF Forest, C, D, q, S

\* A new root, whose own row is inserted.
LEMMA RootForest ==
    ASSUME closure \in Tables, NEW par \in Parents, NEW G \in SUBSET Groups,
           NEW g \in G, Forest(G \ {g}, par, closure)
    PROVE  /\ Forest(G, [par EXCEPT ![g] = None], [closure EXCEPT ![g][g] = 0])
           /\ [closure EXCEPT ![g][g] = 0] \in Tables
           /\ \A d \in Groups : [closure EXCEPT ![g][g] = 0][g][d] # NoRow <=> d = g
  <1>. DEFINE C == closure
              D == [closure EXCEPT ![g][g] = 0]
              q == [par EXCEPT ![g] = None]
  <1>1. g \in Groups  OBVIOUS
  <1>2. D \in Tables  BY DEF Tables
  <1>3. \A a, d \in Groups : D[a][d] = IF a = g /\ d = g THEN 0 ELSE C[a][d]
    BY DEF Tables
  <1>4. \A d \in Groups : q[d] = IF d = g THEN None ELSE par[d]
    BY DEF Parents
  <1>5. None \notin G  BY NoneAssumption
  <1>. HIDE DEF C, D, q
  <1>6. /\ Mirrors(G \ {g}, par, C) /\ Composes(C)
        /\ ThroughChild(G \ {g}, par, C) /\ Chains(C)
    BY DEF Forest, C
  <1>7. \A d \in Groups : C[g][d] = NoRow /\ C[d][g] = NoRow
    BY <1>1, <1>6 DEF Mirrors
  <1>8. \A a, d \in Groups : D[a][d] # NoRow => (a = g <=> d = g)
    BY <1>3, <1>7
  <1>9. Mirrors(G, q, D)
    <2>1. \A a, d \in Groups : D[a][d] # NoRow => a \in G /\ d \in G
      BY <1>3, <1>6 DEF Mirrors
    <2>2. \A k \in G : D[k][k] = 0
      BY <1>3, <1>6 DEF Mirrors
    <2>3. \A d \in G : q[d] \in (G \ {d}) \cup {None}
      BY <1>4, <1>6 DEF Mirrors
    <2>4. \A a, d \in G : D[a][d] # NoRow /\ D[d][a] # NoRow => a = d
      BY <1>3, <1>6, <1>7, <1>8 DEF Mirrors
    <2>5. ASSUME NEW a \in G, NEW d \in G, a # d
          PROVE  D[a][d] = IF q[d] # None /\ D[a][q[d]] # NoRow
                           THEN D[a][q[d]] + 1 ELSE NoRow
      <3>1. CASE d = g  BY <1>3, <1>4, <1>7, <2>5, <3>1
      <3>2. CASE d # g /\ a = g
        BY <1>3, <1>4, <1>6, <1>7, <2>5, <3>2 DEF Mirrors
      <3>3. CASE d # g /\ a # g
        BY <1>3, <1>4, <1>6, <2>5, <3>3 DEF Mirrors
      <3>. QED  BY <3>1, <3>2, <3>3
    <2>. QED  BY <2>1, <2>2, <2>3, <2>4, <2>5 DEF Mirrors
  <1>10. Composes(D)
    <2>1. \A d \in Groups : D[g][g] = 0 /\ (D[g][d] # NoRow => d = g)
      BY <1>1, <1>3, <1>8
    <2>. QED  BY <1>3, <1>6, <1>8, <2>1 DEF Composes
  <1>11. ThroughChild(G, q, D)
    <2>1. SUFFICES ASSUME NEW a \in G, NEW d \in G, D[a][d] # NoRow, a # d
                   PROVE  \E e \in G : q[e] = a /\ D[e][d] # NoRow
      BY DEF ThroughChild
    <2>2. a # g /\ d # g /\ C[a][d] # NoRow  BY <1>3, <1>8, <2>1
    <2>3. PICK e \in G \ {g} : par[e] = a /\ C[e][d] # NoRow
      BY <1>6, <2>1, <2>2 DEF ThroughChild
    <2>. QED  BY <1>3, <1>4, <2>2, <2>3
  <1>12. Chains(D)
    BY <1>1, <1>3, <1>6, <1>8 DEF Chains, NoRow
  <1>13. \A d \in Groups : D[g][d] # NoRow <=> d = g
    BY <1>1, <1>3, <1>7 DEF NoRow
  <1>. QED  BY <1>2, <1>9, <1>10, <1>11, <1>12, <1>13 DEF Forest, D, q

\* Without a group that has no child.
LEMMA LeafForest ==
    ASSUME closure \in Tables, NEW par \in Parents, NEW G \in SUBSET Groups,
           NEW g \in G, Forest(G, par, closure), \A k \in G : par[k] # g
    PROVE  Forest(G \ {g},
                  [k \in Groups |-> IF k = g \/ par[k] = g THEN None ELSE par[k]],
                  [a \in Groups |-> [d \in Groups |->
                      IF a = g \/ d = g THEN NoRow ELSE closure[a][d]]])
  <1>. DEFINE C == closure
              D == [a \in Groups |-> [d \in Groups |->
                      IF a = g \/ d = g THEN NoRow ELSE closure[a][d]]]
              q == [k \in Groups |-> IF k = g \/ par[k] = g THEN None ELSE par[k]]
  <1>1. \A a, d \in Groups : D[a][d] = IF a = g \/ d = g THEN NoRow ELSE C[a][d]
    OBVIOUS
  <1>2. \A k \in G \ {g} : q[k] = par[k]  OBVIOUS
  <1>3. None \notin G  BY NoneAssumption
  <1>4. \A a, d \in Groups : C[a][d] \in Nat \cup {NoRow}  BY DEF Tables
  <1>. HIDE DEF C, D, q
  <1>5. /\ Mirrors(G, par, C) /\ Composes(C)
        /\ ThroughChild(G, par, C) /\ Chains(C)
    BY DEF Forest, C
  <1>6. \A d \in Groups : C[g][d] # NoRow => d = g
    BY <1>5 DEF Mirrors, ThroughChild
  <1>7. Mirrors(G \ {g}, q, D)
    BY <1>1, <1>2, <1>3, <1>5 DEF Mirrors
  <1>8. Composes(D)
    <2>1. SUFFICES ASSUME NEW a \in Groups, NEW b \in Groups, NEW d \in Groups,
                          D[a][b] # NoRow, D[b][d] # NoRow
                   PROVE  D[a][d] = D[a][b] + D[b][d]
      BY DEF Composes
    <2>. QED  BY <1>1, <1>5, <2>1 DEF Composes
  <1>9. ThroughChild(G \ {g}, q, D)
    <2>1. SUFFICES ASSUME NEW a \in G \ {g}, NEW d \in G \ {g}, D[a][d] # NoRow, a # d
                   PROVE  \E e \in G \ {g} : q[e] = a /\ D[e][d] # NoRow
      BY DEF ThroughChild
    <2>2. PICK e \in G : par[e] = a /\ C[e][d] # NoRow
      BY <1>1, <1>5, <2>1 DEF ThroughChild
    <2>3. e # g  BY <1>6, <2>2
    <2>. QED  BY <1>1, <1>2, <2>2, <2>3
  <1>10. Chains(D)
    BY <1>1, <1>5 DEF Chains
  <1>. QED  BY <1>7, <1>8, <1>9, <1>10 DEF Forest, D, q

-----------------------------------------------------------------------------
(* Types.                                                                  *)

LEMMA IdleType == IdleCall \in CallStates
  BY DEF IdleCall, CallStates

LEMMA LinkedType ==
    ASSUME TypeOK, NEW p \in Groups, NEW g \in Groups, NEW D \in SUBSET Groups,
           \A d \in D : Row(g, d)
    PROVE  Linked(p, g, D) \in Tables
  <1>1. \A a, d \in Groups : closure[a][d] \in Nat \cup {NoRow}
    BY DEF TypeOK
  <1>2. \A a, d \in Groups : Row(a, p) /\ d \in D =>
            closure[a][p] + closure[g][d] + 1 \in Nat
    BY <1>1 DEF Row
  <1>. QED  BY <1>1, <1>2 DEF Linked, Tables

LEMMA CallType ==
    ASSUME TypeOK, NEW c \in Calls
    PROVE  /\ calls[c].id \in Groups \cup {None}
           /\ calls[c].target \in Groups \cup {None}
           /\ calls[c].subtree \subseteq Groups
  BY DEF TypeOK, CallStates

LEMMA StartType ==
    ASSUME TypeOK, NEW c \in Calls, NEW g \in Groups, NEW p \in Groups \cup {None},
           NEW pc \in {"self", "select"},
           calls' = [calls EXCEPT ![c] = [IdleCall EXCEPT !.pc = pc, !.id = g, !.target = p]]
    PROVE  calls' \in [Calls -> CallStates]
  BY DEF TypeOK, IdleCall, CallStates

LEMMA GotoType ==
    ASSUME TypeOK, NEW c \in Calls,
           NEW pc \in {"idle", "self", "paths", "select", "cut", "link", "set"},
           Goto(c, pc) \/ Finish(c)
    PROVE  calls' \in [Calls -> CallStates]
  <1>1. CASE Goto(c, pc)
    <2>1. [calls[c] EXCEPT !.pc = pc] \in CallStates  BY DEF TypeOK, CallStates
    <2>2. calls' = [calls EXCEPT ![c] = [calls[c] EXCEPT !.pc = pc]]
      BY <1>1 DEF Goto
    <2>. QED  BY <2>1, <2>2 DEF TypeOK
  <1>2. CASE Finish(c)  BY <1>2, IdleType DEF TypeOK, Finish
  <1>. QED  BY <1>1, <1>2

\* Besides: what a call works on are groups, and so is the parent it links to.
CallInv ==
    \A c \in Calls :
        /\ calls[c].pc # "idle" => calls[c].id \in Groups
        /\ calls[c].pc \in {"paths", "link"} => calls[c].target \in Groups

TypeInv == TypeOK /\ CallInv

LEMMA TypeInit == Init => TypeInv
  BY IdleType DEF Init, TypeInv, TypeOK, CallInv, IdleCall

LEMMA TypeNext == TypeInv /\ [Next]_vars => TypeInv'
  <1>. SUFFICES ASSUME TypeInv, [Next]_vars PROVE TypeInv'
    OBVIOUS
  <1>0. TypeOK /\ CallInv /\ closure \in Tables
    BY DEF TypeInv, TypeOK, Tables
  <1>1. ASSUME UNCHANGED <<groups, unused, parent>>,
               calls' \in [Calls -> CallStates], closure' \in Tables
        PROVE  TypeOK'
    BY <1>0, <1>1 DEF TypeOK, Tables
  <1>2. ASSUME NEW c \in Calls, NEW g \in Groups, NEW p \in Groups \cup {None},
               CreateRow(c, g, p) \/ MoveCheck(c, g, p)
        PROVE  TypeInv'
    <2>1. PICK pc \in {"self", "select"} :
            calls' = [calls EXCEPT ![c] =
                        [IdleCall EXCEPT !.pc = pc, !.id = g, !.target = p]]
      BY <1>2 DEF CreateRow, MoveCheck
    <2>2. calls' \in [Calls -> CallStates]  BY <1>0, <2>1, StartType
    <2>3. TypeOK'
      <3>1. CASE CreateRow(c, g, p)
        BY <1>0, <2>2, <3>1 DEF TypeOK, CreateRow
      <3>2. CASE MoveCheck(c, g, p)
        BY <1>0, <1>1, <2>2, <3>2 DEF MoveCheck
      <3>. QED  BY <1>2, <3>1, <3>2
    <2>4. CallInv'
      BY <1>0, <2>1 DEF TypeOK, CallInv, IdleCall
    <2>. QED  BY <2>3, <2>4 DEF TypeInv
  <1>3. ASSUME NEW c \in Calls, Continue(c) PROVE TypeInv'
    <2>. DEFINE g == calls[c].id
                p == calls[c].target
    <2>0. /\ calls[c].pc # "idle" => g \in Groups
          /\ calls[c].pc \in {"paths", "link"} => p \in Groups
          /\ p \in Groups \cup {None}
      BY <1>0, CallType DEF CallInv
    <2>1. CASE CreateSelf(c)
      <3>1. calls' \in [Calls -> CallStates]
        BY <1>0, <2>1, GotoType DEF CreateSelf
      <3>2. closure' \in Tables  BY <1>0, <2>1 DEF CreateSelf, Tables
      <3>3. CallInv'
        <4>1. CASE p = None
          BY <1>0, <2>1, <4>1 DEF TypeOK, CallInv, CreateSelf, Finish, IdleCall
        <4>2. CASE p # None
          BY <1>0, <2>0, <2>1, <4>2
             DEF TypeOK, CallInv, CreateSelf, Goto, CallStates, At
        <4>. QED  BY <4>1, <4>2
      <3>. QED  BY <1>1, <2>1, <3>1, <3>2, <3>3 DEF CreateSelf, TypeInv
    <2>2. CASE CreatePaths(c)
      <3>1. calls' \in [Calls -> CallStates]
        BY <1>0, <2>2, GotoType DEF CreatePaths
      <3>2. closure' \in Tables
        <4>1. \A a \in Groups : Row(a, p) => closure[a][p] + closure[g][g] + 1 \in Nat
          BY <1>0, <2>0, <2>2 DEF CreatePaths, At, Row, Tables, NoRow
        <4>. QED  BY <1>0, <2>2, <4>1 DEF CreatePaths, Linked, Tables
      <3>3. CallInv'
        BY <1>0, <2>2 DEF TypeOK, CallInv, CreatePaths, Finish, IdleCall
      <3>. QED  BY <1>1, <2>2, <3>1, <3>2, <3>3 DEF CreatePaths, TypeInv
    <2>3. CASE CreateFails(c) \/ MoveLinkFails(c) \/ MoveSetFails(c)
      <3>1. Finish(c) /\ UNCHANGED <<groups, unused, parent, closure>>
        BY <2>3 DEF CreateFails, MoveLinkFails, MoveSetFails
      <3>2. calls' \in [Calls -> CallStates]  BY <1>0, <3>1, GotoType
      <3>3. CallInv'  BY <1>0, <3>1 DEF TypeOK, CallInv, Finish, IdleCall
      <3>. QED  BY <1>0, <1>1, <3>1, <3>2, <3>3 DEF TypeInv
    <2>4. CASE MoveSelect(c)
      <3>1. Below(g) \subseteq Groups  BY DEF Below
      <3>4. [calls[c] EXCEPT !.pc = "cut", !.subtree = Below(g)] \in CallStates
        BY <1>0, <3>1 DEF TypeOK, CallStates
      <3>5. calls' = [calls EXCEPT ![c] =
                         [calls[c] EXCEPT !.pc = "cut", !.subtree = Below(g)]]
        BY <2>4 DEF MoveSelect
      <3>2. calls' \in [Calls -> CallStates]
        BY <1>0, <3>4, <3>5 DEF TypeOK
      <3>3. CallInv'
        BY <1>0, <2>0, <2>4 DEF TypeOK, CallInv, MoveSelect, CallStates, At
      <3>. QED  BY <1>0, <1>1, <2>4, <3>2, <3>3 DEF MoveSelect, TypeInv
    <2>5. CASE MoveCut(c)
      <3>1. calls' \in [Calls -> CallStates]
        BY <1>0, <2>5, GotoType DEF MoveCut
      <3>2. closure' \in Tables  BY <1>0, <2>5 DEF MoveCut, Cut, Tables
      <3>3. CallInv'
        BY <1>0, <2>0, <2>5 DEF TypeOK, CallInv, MoveCut, Goto, CallStates, At
      <3>. QED  BY <1>1, <2>5, <3>1, <3>2, <3>3 DEF MoveCut, TypeInv
    <2>6. CASE MoveLink(c)
      <3>1. calls' \in [Calls -> CallStates]
        BY <1>0, <2>6, GotoType DEF MoveLink
      <3>2. Linked(p, g, Below(g)) \in Tables
        BY <1>0, <2>0, <2>6, LinkedType DEF MoveLink, At, Below
      <3>3. CallInv'
        BY <1>0, <2>0, <2>6 DEF TypeOK, CallInv, MoveLink, Goto, CallStates, At
      <3>. QED  BY <1>1, <2>6, <3>1, <3>2, <3>3 DEF MoveLink, TypeInv
    <2>7. CASE MoveSet(c)
      <3>1. calls' \in [Calls -> CallStates]
        BY <1>0, <2>7, GotoType DEF MoveSet
      <3>2. parent' \in Parents
        BY <1>0, <2>0, <2>7 DEF TypeOK, MoveSet, Parents
      <3>3. CallInv'  BY <1>0, <2>7 DEF TypeOK, CallInv, MoveSet, Finish, IdleCall
      <3>. QED
        BY <1>0, <2>7, <3>1, <3>2, <3>3 DEF TypeOK, MoveSet, Parents, TypeInv
    <2>. QED
      BY <1>3, <2>1, <2>2, <2>3, <2>4, <2>5, <2>6, <2>7 DEF Continue
  <1>4. ASSUME NEW g \in Groups, Delete(g) PROVE TypeInv'
    BY <1>0, <1>4 DEF TypeOK, Delete, CallInv, TypeInv
  <1>5. CASE UNCHANGED vars  BY <1>0, <1>5 DEF TypeOK, vars, CallInv, TypeInv
  <1>. QED  BY <1>2, <1>3, <1>4, <1>5 DEF Next

\* The tables and the calls under way keep their types, depths are natural
\* numbers, and an id is given once.
THEOREM TypeCorrect == Spec => []TypeOK
  <1>1. TypeInv => TypeOK  BY DEF TypeInv
  <1>. QED  BY <1>1, TypeInit, TypeNext, PTL DEF Spec

-----------------------------------------------------------------------------
(* Calls that come one at a time.                                          *)

\* How far a call has come says which forest the closure table shows: that of
\* parent_id, or the one where the call's group is not hung yet.
Stage(c) ==
    LET g == calls[c].id
        p == calls[c].target
        pc == calls[c].pc
        Root == [parent EXCEPT ![g] = None]
    IN  /\ pc # "idle" => g \in groups /\ p \in groups \cup {None} /\ p # g
        /\ pc \in {"self", "paths"} => parent[g] = p
        /\ pc = "self" => Forest(groups \ {g}, parent, closure)
        /\ pc = "paths" => Below(g) = {g}
        /\ pc \in {"select", "cut"} => Forest(groups, parent, closure)
        /\ pc \in {"select", "cut", "paths", "link"} => (p # None => ~Row(g, p))
        /\ pc = "cut" => calls[c].subtree = Below(g)
        /\ pc \in {"paths", "link"} => p # None /\ Forest(groups, Root, closure)
        /\ pc = "set" => Forest(groups, [parent EXCEPT ![g] = p], closure)

OneCall == \A c, e \in Calls : ~At(c, "idle") /\ ~At(e, "idle") => c = e

CarefulInv ==
    /\ TypeInv
    /\ OneCall
    /\ \A c \in Calls : Stage(c)
    /\ Settled => Forest(groups, parent, closure)

\* It is enough to look at the call that made the step.
LEMMA StepOfCall ==
    ASSUME TypeInv', NEW c \in Calls,
           \A e \in Calls \ {c} : calls[e].pc = "idle" /\ calls'[e] = calls[e],
           Stage(c)',
           calls'[c].pc = "idle" => Forest(groups', parent', closure')
    PROVE  CarefulInv'
  <1>1. \A e \in Calls \ {c} : calls'[e].pc = "idle"  OBVIOUS
  <1>2. OneCall'  BY <1>1 DEF OneCall, At
  <1>3. \A e \in Calls : Stage(e)'
    <2>1. ASSUME NEW e \in Calls, e # c PROVE Stage(e)'
      BY <1>1, <2>1 DEF Stage
    <2>. QED  BY <2>1
  <1>4. Settled' => Forest(groups', parent', closure')  BY DEF Settled
  <1>. QED  BY <1>2, <1>3, <1>4 DEF CarefulInv

LEMMA OtherCalls ==
    ASSUME CarefulInv, NEW c \in Calls, Settled \/ ~At(c, "idle"),
           NEW new, calls' = [calls EXCEPT ![c] = new]
    PROVE  /\ \A e \in Calls \ {c} : calls[e].pc = "idle" /\ calls'[e] = calls[e]
           /\ calls'[c] = new
  BY DEF CarefulInv, TypeInv, TypeOK, OneCall, Settled, At

LEMMA CarefulInit == Init => CarefulInv
  <1>. SUFFICES ASSUME Init PROVE CarefulInv
    OBVIOUS
  <1>1. TypeInv  BY TypeInit
  <1>2. \A c \in Calls : calls[c].pc = "idle"  BY DEF Init, IdleCall
  <1>3. Forest(groups, parent, closure)
    BY DEF Init, Forest, Mirrors, Composes, ThroughChild, Chains
  <1>. QED  BY <1>1, <1>2, <1>3 DEF CarefulInv, OneCall, Stage, At

LEMMA CarefulStep == CarefulInv /\ [CarefulNext]_vars => CarefulInv'
  <1>. SUFFICES ASSUME CarefulInv, [CarefulNext]_vars PROVE CarefulInv'
    OBVIOUS
  <1>0. /\ TypeInv /\ TypeOK /\ CallInv /\ OneCall
        /\ closure \in Tables /\ parent \in Parents /\ groups \in SUBSET Groups
        /\ \A c \in Calls : Stage(c)
        /\ Settled => Forest(groups, parent, closure)
    BY DEF CarefulInv, TypeInv, TypeOK, Tables, Parents
  <1>1. CASE UNCHANGED vars
    BY <1>1 DEF vars, CarefulInv, TypeInv, TypeOK, CallInv, OneCall, Stage,
                Settled, At, Below, Row
  <1>2. CASE CarefulNext
    <2>1. SerialNext /\ \A g \in groups \ groups' : \A k \in groups : parent[k] # g
      BY <1>2 DEF CarefulNext
    <2>2. Next
      <3>1. groups \cup {None} \subseteq Groups \cup {None}  BY <1>0
      <3>2. ASSUME NEW c \in Calls, NEW g \in Groups, NEW p \in groups \cup {None},
                   CreateRow(c, g, p) \/ MoveCheck(c, g, p)
            PROVE  Next
        <4>1. p \in Groups \cup {None}  BY <3>1
        <4>. QED  BY <3>2, <4>1 DEF Next
      <3>3. (\E c \in Calls : Continue(c)) \/ (\E g \in Groups : Delete(g)) => Next
        BY DEF Next
      <3>. QED  BY <2>1, <3>2, <3>3 DEF SerialNext
    <2>3. TypeInv'  BY <1>0, <2>2, TypeNext
    <2>4. ASSUME NEW c \in Calls, NEW g \in Groups, NEW p \in groups \cup {None},
                 Settled, CreateRow(c, g, p)
          PROVE  CarefulInv'
      <3>. DEFINE new == [IdleCall EXCEPT !.pc = "self", !.id = g, !.target = p]
      <3>1. /\ calls' = [calls EXCEPT ![c] = new]
            /\ g \in unused /\ groups' = groups \cup {g}
            /\ parent' = [parent EXCEPT ![g] = p] /\ closure' = closure
        BY <2>4 DEF CreateRow
      <3>2. new.pc = "self" /\ new.id = g /\ new.target = p  BY DEF IdleCall
      <3>. HIDE DEF new
      <3>3. /\ \A e \in Calls \ {c} : calls[e].pc = "idle" /\ calls'[e] = calls[e]
            /\ calls'[c] = new
        BY <2>4, <3>1, OtherCalls
      <3>4. g \notin groups /\ groups' \ {g} = groups
        BY <1>0, <3>1 DEF TypeOK
      <3>5. Forest(groups, parent', closure)
        <4>1. \A k \in groups : parent'[k] = parent[k]
          BY <1>0, <3>1, <3>4 DEF Parents
        <4>2. Forest(groups, parent, closure)  BY <1>0, <2>4
        <4>3. Mirrors(groups, parent', closure)
          BY <4>1, <4>2 DEF Forest, Mirrors
        <4>4. ThroughChild(groups, parent', closure)
          BY <4>1, <4>2 DEF Forest, ThroughChild
        <4>. QED  BY <4>2, <4>3, <4>4 DEF Forest
      <3>6. p # g /\ parent'[g] = p /\ g \in groups' /\ p \in groups' \cup {None}
        BY <1>0, <2>4, <3>1, <3>4, NoneAssumption DEF Parents
      <3>7. Stage(c)'
        BY <3>1, <3>2, <3>3, <3>4, <3>5, <3>6 DEF Stage
      <3>. QED  BY <2>3, <3>2, <3>3, <3>7, StepOfCall
    <2>5. ASSUME NEW c \in Calls, NEW g \in Groups, NEW p \in groups \cup {None},
                 Settled, MoveCheck(c, g, p)
          PROVE  CarefulInv'
      <3>. DEFINE new == [IdleCall EXCEPT !.pc = "select", !.id = g, !.target = p]
      <3>1. /\ calls' = [calls EXCEPT ![c] = new]
            /\ g \in groups /\ (p # None => ~Row(g, p))
            /\ UNCHANGED <<groups, parent, closure>>
        BY <2>5 DEF MoveCheck
      <3>2. new.pc = "select" /\ new.id = g /\ new.target = p  BY DEF IdleCall
      <3>. HIDE DEF new
      <3>3. /\ \A e \in Calls \ {c} : calls[e].pc = "idle" /\ calls'[e] = calls[e]
            /\ calls'[c] = new
        BY <2>5, <3>1, OtherCalls
      <3>4. Forest(groups, parent, closure)  BY <1>0, <2>5
      <3>5. p # g
        BY <3>1, <3>4, NoneAssumption DEF Forest, Mirrors, Row, NoRow
      <3>6. Stage(c)'
        BY <3>1, <3>2, <3>3, <3>4, <3>5 DEF Stage, Row
      <3>. QED  BY <2>3, <3>2, <3>3, <3>6, StepOfCall
    <2>6. ASSUME NEW c \in Calls, Continue(c) PROVE CarefulInv'
      <3>. DEFINE g == calls[c].id
                  p == calls[c].target
                  Root == [parent EXCEPT ![g] = None]
      <3>0. /\ ~At(c, "idle") /\ Stage(c)
            /\ g \in groups /\ g \in Groups
            /\ p \in groups \cup {None} /\ p # g
        BY <1>0, <2>6 DEF Continue, CreateSelf, CreatePaths, CreateFails, MoveSelect,
           MoveCut, MoveLink, MoveLinkFails, MoveSet, MoveSetFails, At, Stage
      <3>1. ASSUME NEW new, calls' = [calls EXCEPT ![c] = new]
            PROVE  /\ \A e \in Calls \ {c} :
                         calls[e].pc = "idle" /\ calls'[e] = calls[e]
                   /\ calls'[c] = new
        BY <3>0, <3>1, OtherCalls
      <3>2. ASSUME NEW pc, Goto(c, pc)
            PROVE  /\ \A e \in Calls \ {c} :
                         calls[e].pc = "idle" /\ calls'[e] = calls[e]
                   /\ calls'[c].pc = pc /\ calls'[c].id = g /\ calls'[c].target = p
                   /\ calls'[c].subtree = calls[c].subtree
        <4>. DEFINE new == [calls[c] EXCEPT !.pc = pc]
        <4>1. calls' = [calls EXCEPT ![c] = new]
          BY <1>0, <3>2 DEF Goto, TypeOK, CallStates
        <4>2. calls[c] \in CallStates  BY <1>0 DEF TypeOK
        <4>3. new.pc = pc /\ new.id = g /\ new.target = p /\ new.subtree = calls[c].subtree
          BY <4>2 DEF CallStates
        <4>. HIDE DEF new
        <4>. QED  BY <3>1, <4>1, <4>3
      <3>3. ASSUME Finish(c), Forest(groups', parent', closure') PROVE CarefulInv'
        <4>1. /\ \A e \in Calls \ {c} :
                     calls[e].pc = "idle" /\ calls'[e] = calls[e]
              /\ calls'[c] = IdleCall
          BY <3>1, <3>3 DEF Finish
        <4>2. Stage(c)'  BY <4>1 DEF Stage, IdleCall
        <4>. QED  BY <2>3, <3>3, <4>1, <4>2, StepOfCall DEF IdleCall
      <3>4. CASE CreateSelf(c)
        <4>1. /\ parent[g] = p /\ Forest(groups \ {g}, parent, closure)
              /\ closure' = [closure EXCEPT ![g][g] = 0]
              /\ UNCHANGED <<groups, parent>>
          BY <3>0, <3>4 DEF CreateSelf, Stage, At
        <4>2. /\ Forest(groups, Root, closure')
              /\ \A d \in Groups : closure'[g][d] # NoRow <=> d = g
          <5>. HIDE DEF g
          <5>1. Forest(groups, Root, [closure EXCEPT ![g][g] = 0])
            BY <1>0, <3>0, <4>1, RootForest
          <5>2. \A d \in Groups : [closure EXCEPT ![g][g] = 0][g][d] # NoRow <=> d = g
            BY <1>0, <3>0, <4>1, RootForest
          <5>. QED  BY <4>1, <5>1, <5>2
        <4>3. CASE p = None
          <5>1. Root = parent  BY <1>0, <4>1, <4>3 DEF Parents
          <5>. QED  BY <3>3, <3>4, <4>1, <4>2, <4>3, <5>1 DEF CreateSelf
        <4>4. CASE p # None
          <5>1. Goto(c, "paths")  BY <3>4, <4>4 DEF CreateSelf
          <5>2. {d \in Groups : closure'[g][d] # NoRow} = {g}  BY <3>0, <4>2
          <5>3. closure'[g][p] = NoRow  BY <1>0, <3>0, <4>2, <4>4
          <5>4. Stage(c)'
            <6>1. /\ calls'[c].pc = "paths" /\ calls'[c].id = g /\ calls'[c].target = p
                  /\ g \in groups' /\ p \in groups' \cup {None} /\ p # g
                  /\ parent'[g] = p /\ Forest(groups', [parent' EXCEPT ![g] = None], closure')
              BY <3>0, <3>2, <4>1, <4>2, <5>1
            <6>. HIDE DEF g, p
            <6>. QED  BY <4>4, <5>2, <5>3, <6>1 DEF Stage, Below, Row
          <5>. QED  BY <2>3, <3>2, <5>1, <5>4, StepOfCall
        <4>. QED  BY <4>3, <4>4
      <3>5. CASE CreatePaths(c)
        <4>1. /\ parent[g] = p /\ Below(g) = {g} /\ p \in groups /\ ~Row(g, p)
              /\ Forest(groups, Root, closure)
              /\ closure' = Linked(p, g, {g}) /\ Finish(c)
              /\ UNCHANGED <<groups, parent>>
          BY <3>0, <3>5 DEF CreatePaths, Stage, At
        <4>2. Root \in Parents /\ Root[g] = None /\ [Root EXCEPT ![g] = p] = parent
          BY <1>0, <3>0, <4>1 DEF Parents
        <4>5. Forest(groups, [Root EXCEPT ![g] = p], Linked(p, g, Below(g)))
          BY <1>0, <3>0, <4>1, <4>2, LinkForest
        <4>3. Forest(groups, parent, closure')
          BY <4>1, <4>2, <4>5
        <4>. QED  BY <3>3, <4>1, <4>3
      <3>6. CASE CreateFails(c)
        <4>1. At(c, "paths") /\ Duplicates(p, {g})
          BY <3>0, <3>6 DEF CreateFails
        <4>2. /\ Below(g) = {g} /\ p \in groups /\ ~Row(g, p)
              /\ Forest(groups, Root, closure)
          BY <3>0, <4>1 DEF Stage, At
        <4>3. Root \in Parents /\ Root[g] = None
          BY <1>0, <3>0 DEF Parents
        <4>. QED  BY <1>0, <3>0, <4>1, <4>2, <4>3, LinkForest
      <3>7. CASE MoveSelect(c)
        <4>. DEFINE new == [calls[c] EXCEPT !.pc = "cut", !.subtree = Below(g)]
        <4>1. calls[c] \in CallStates  BY <1>0 DEF TypeOK
        <4>2. /\ calls' = [calls EXCEPT ![c] = new]
              /\ UNCHANGED <<groups, parent, closure>>
              /\ Forest(groups, parent, closure) /\ (p # None => ~Row(g, p))
          BY <1>0, <3>0, <3>7 DEF MoveSelect, TypeOK, CallStates, Stage, At
        <4>3. /\ new.pc = "cut" /\ new.subtree = Below(g)
              /\ new.id = g /\ new.target = p
          BY <4>1 DEF CallStates
        <4>. HIDE DEF new
        <4>4. /\ \A e \in Calls \ {c} :
                     calls[e].pc = "idle" /\ calls'[e] = calls[e]
              /\ calls'[c] = new
          BY <3>1, <4>2
        <4>5. Stage(c)'
          BY <3>0, <4>2, <4>3, <4>4 DEF Stage, Below, Row
        <4>. QED  BY <2>3, <4>3, <4>4, <4>5, StepOfCall
      <3>8. CASE MoveCut(c)
        <4>1. /\ Forest(groups, parent, closure) /\ calls[c].subtree = Below(g)
              /\ p # None => ~Row(g, p)
              /\ closure' = Cut(Below(g)) /\ UNCHANGED <<groups, parent>>
              /\ Goto(c, IF p = None THEN "set" ELSE "link")
          BY <3>0, <3>8 DEF MoveCut, Stage, At
        <4>2. Forest(groups, Root, closure') /\ closure'[g] = closure[g]
          BY <1>0, <3>0, <4>1, CutForest
        <4>3. CASE p = None
          <5>1. Goto(c, "set")  BY <4>1, <4>3
          <5>2. Stage(c)'
            <6>1. /\ calls'[c].pc = "set" /\ calls'[c].id = g /\ calls'[c].target = p
                  /\ g \in groups' /\ p \in groups' \cup {None} /\ p # g
                  /\ Forest(groups', [parent' EXCEPT ![g] = p], closure')
              BY <3>0, <3>2, <4>1, <4>2, <4>3, <5>1
            <6>. HIDE DEF g, p
            <6>. QED  BY <6>1 DEF Stage
          <5>. QED  BY <2>3, <3>2, <5>1, <5>2, StepOfCall
        <4>4. CASE p # None
          <5>1. Goto(c, "link")  BY <4>1, <4>4
          <5>2. Stage(c)'
            <6>1. /\ calls'[c].pc = "link" /\ calls'[c].id = g /\ calls'[c].target = p
                  /\ g \in groups' /\ p \in groups' \cup {None} /\ p # g
                  /\ Forest(groups', [parent' EXCEPT ![g] = None], closure')
              BY <3>0, <3>2, <4>1, <4>2, <5>1
            <6>2. closure'[g][p] = NoRow  BY <4>1, <4>2, <4>4 DEF Row
            <6>. HIDE DEF g, p
            <6>. QED  BY <4>4, <6>1, <6>2 DEF Stage, Row
          <5>. QED  BY <2>3, <3>2, <5>1, <5>2, StepOfCall
        <4>. QED  BY <4>3, <4>4
      <3>9. CASE MoveLink(c) \/ MoveLinkFails(c)
        <4>1. /\ p \in groups /\ ~Row(g, p) /\ Forest(groups, Root, closure)
          BY <3>0, <3>9 DEF MoveLink, MoveLinkFails, Stage, At
        <4>2. Root \in Parents /\ Root[g] = None
              /\ [Root EXCEPT ![g] = p] = [parent EXCEPT ![g] = p]
          BY <1>0, <3>0 DEF Parents
        <4>3. /\ Forest(groups, [parent EXCEPT ![g] = p], Linked(p, g, Below(g)))
              /\ ~Duplicates(p, Below(g))
          BY <1>0, <3>0, <4>1, <4>2, LinkForest
        <4>4. /\ closure' = Linked(p, g, Below(g)) /\ UNCHANGED <<groups, parent>>
              /\ Goto(c, "set")
          BY <3>9, <4>3 DEF MoveLink, MoveLinkFails
        <4>5. Stage(c)'
          BY <3>0, <3>2, <4>1, <4>3, <4>4 DEF Stage
        <4>. QED  BY <2>3, <3>2, <4>4, <4>5, StepOfCall
      <3>10. CASE MoveSet(c)
        <4>1. /\ Forest(groups, [parent EXCEPT ![g] = p], closure)
              /\ parent' = [parent EXCEPT ![g] = p] /\ UNCHANGED <<groups, closure>>
              /\ Finish(c)
          BY <3>0, <3>10 DEF MoveSet, Stage, At
        <4>. QED  BY <3>3, <4>1
      <3>11. CASE MoveSetFails(c)
        BY <3>0, <3>11 DEF MoveSetFails
      <3>. QED
        BY <2>6, <3>4, <3>5, <3>6, <3>7, <3>8, <3>9, <3>10, <3>11 DEF Continue
    <2>7. ASSUME NEW g \in Groups, Settled, Delete(g) PROVE CarefulInv'
      <3>1. /\ g \in groups /\ groups' = groups \ {g} /\ UNCHANGED calls
            /\ \A k \in groups : parent[k] # g
        BY <2>1, <2>7 DEF Delete
      <3>2. Forest(groups', parent', closure')
        BY <1>0, <2>7, <3>1, LeafForest DEF Delete
      <3>3. \A c \in Calls : calls'[c].pc = "idle"
        BY <2>7, <3>1 DEF Settled
      <3>4. OneCall' /\ \A c \in Calls : Stage(c)'
        BY <3>3 DEF OneCall, Stage, At
      <3>. QED  BY <2>3, <3>2, <3>4 DEF CarefulInv
    <2>. QED  BY <2>1, <2>4, <2>5, <2>6, <2>7 DEF SerialNext
  <1>. QED  BY <1>1, <1>2

LEMMA Inductive == CarefulSpec => []CarefulInv
  <1>. QED  BY CarefulInit, CarefulStep, PTL DEF CarefulSpec

\* Between calls, parent_id and the closure table tell of the same tree.
THEOREM TablesAgree == CarefulSpec => []ClosureMirrorsParents
  <1>1. CarefulInv => ClosureMirrorsParents
    BY DEF CarefulInv, ClosureMirrorsParents, Forest
  <1>. QED  BY <1>1, Inductive, PTL

\* The links a move is about to insert are never there already: it does not
\* stop with the old ones cut.
THEOREM MovesDoNotStopHalfWay == CarefulSpec => []MoveLinksFit
  <1>1. CarefulInv => MoveLinksFit
    <2>. SUFFICES ASSUME CarefulInv, NEW c \in Calls, At(c, "link")
                  PROVE  ~Duplicates(calls[c].target, Below(calls[c].id))
      BY DEF MoveLinksFit
    <2>. DEFINE g == calls[c].id
                p == calls[c].target
                Root == [parent EXCEPT ![g] = None]
    <2>1. /\ g \in groups /\ p \in groups /\ ~Row(g, p)
          /\ Forest(groups, Root, closure)
      BY DEF CarefulInv, Stage, At
    <2>2. /\ closure \in Tables /\ parent \in Parents /\ groups \in SUBSET Groups
      BY DEF CarefulInv, TypeInv, TypeOK, Tables, Parents
    <2>3. Root \in Parents /\ Root[g] = None
      BY <2>1, <2>2 DEF Parents
    <2>. QED  BY <2>1, <2>2, <2>3, LinkForest
  <1>. QED  BY <1>1, Inductive, PTL


-----------------------------------------------------------------------------
(* Depths and distances.                                                   *)

\* What Climb computes, one step up at a time.
LEMMA ClimbBySteps ==
    ASSUME parent \in Parents
    PROVE  /\ \A g \in Groups \cup {None} : Climb[0][g] = g
           /\ \A n \in Nat : Climb[n][None] = None
           /\ \A n \in Nat, g \in Groups : Climb[n + 1][g] = Climb[n][parent[g]]
  <1>. DEFINE GN == Groups \cup {None}
              Maps == [GN -> GN]
              id == [g \in GN |-> g]
              up == [f \in Maps |-> [g \in GN |-> IF g = None THEN g ELSE f[parent[g]]]]
              next == [n \in Nat |-> up]
              Unfold(f) == [n \in Nat |-> [g \in GN |-> IF g = None \/ n = 0 THEN g ELSE f[n - 1][parent[g]]]]
  <1>1. id \in Maps
    OBVIOUS
  <1>2. next \in [Nat -> [Maps -> Maps]]
    <2>1. up \in [Maps -> Maps]
      BY DEF Parents
    <2>. HIDE DEF up
    <2>. QED  BY <2>1
  <1>3. PICK h \in [Nat -> Maps] : h[0] = id /\ \A n \in Nat : h[n + 1] = next[n][h[n]]
    <2>. HIDE DEF Maps, id, next
    <2>1. PICK h : Recurses(h, Maps, id, next)
      BY <1>1, <1>2, Recursion
    <2>. QED  BY <2>1 DEF Recurses
  <1>4. \A n \in Nat : h[n + 1] = [g \in GN |-> IF g = None THEN g ELSE h[n][parent[g]]]
    <2>1. ASSUME NEW n \in Nat PROVE h[n + 1] = up[h[n]] /\ h[n] \in Maps
      BY <1>3
    <2>. QED  BY <2>1
  <1>5. h = Unfold(h)
    <2>1. ASSUME NEW n \in Nat PROVE h[n] = [g \in GN |-> IF g = None \/ n = 0 THEN g ELSE h[n - 1][parent[g]]]
      <3>1. CASE n = 0
        BY <1>3, <3>1
      <3>2. CASE n # 0
        <4>1. n - 1 \in Nat /\ (n - 1) + 1 = n
          BY <3>2
        <4>2. h[n] = [g \in GN |-> IF g = None THEN g ELSE h[n - 1][parent[g]]]
          BY <1>4, <4>1
        <4>. QED  BY <3>2, <4>2
      <3>. QED  BY <3>1, <3>2
    <2>2. h = [n \in Nat |-> h[n]]
      BY <1>3
    <2>. QED  BY <2>1, <2>2
  <1>6. \E u : u = Unfold(u) /\ Climb = u
    BY <1>5, Zenon DEF Climb
  <1>7. PICK u : u = Unfold(u) /\ Climb = u
    BY <1>6
  <1>8. ASSUME NEW n \in Nat, NEW g \in GN
        PROVE  u[n][g] = IF g = None \/ n = 0 THEN g ELSE u[n - 1][parent[g]]
    <2>. DEFINE v == Unfold(u)
    <2>1. v[n][g] = IF g = None \/ n = 0 THEN g ELSE u[n - 1][parent[g]]
      OBVIOUS
    <2>2. u = v
      BY <1>7
    <2>. HIDE DEF v
    <2>. QED  BY <2>1, <2>2
  <1>9. ASSUME NEW n \in Nat, NEW g \in Groups PROVE u[n + 1][g] = u[n][parent[g]]
    <2>1. n + 1 \in Nat /\ n + 1 # 0 /\ (n + 1) - 1 = n /\ g # None
      BY NoneAssumption
    <2>. QED  BY <1>8, <2>1
  <1>. QED  BY <1>7, <1>8, <1>9

\* In tables that mirror each other the depth of a row is the number of steps up,
\* for any number of steps.
LEMMA DepthCountsSteps ==
    ASSUME parent \in Parents, closure \in Tables, groups \in SUBSET Groups,
           Mirrors(groups, parent, closure)
    PROVE  \A n \in Nat : \A a, d \in groups : closure[a][d] = n <=> Climb[n][d] = a
  <1>. DEFINE S == {n \in Nat : \A a, d \in groups : closure[a][d] = n <=> Climb[n][d] = a}
  <1>0. \A a, d \in groups : closure[a][d] \in Nat \cup {-1}
    BY DEF Tables, NoRow
  <1>1. 0 \in S
    <2>. SUFFICES ASSUME NEW a \in groups, NEW d \in groups PROVE closure[a][d] = 0 <=> Climb[0][d] = a
      OBVIOUS
    <2>1. Climb[0][d] = d
      BY ClimbBySteps
    <2>2. CASE a = d
      BY <2>1, <2>2 DEF Mirrors
    <2>3. CASE a # d
      <3>1. closure[a][d] = IF parent[d] # None /\ closure[a][parent[d]] # NoRow
                            THEN closure[a][parent[d]] + 1 ELSE NoRow
        BY <2>3 DEF Mirrors
      <3>2. parent[d] # None => closure[a][parent[d]] \in Nat \cup {-1}
        BY <1>0 DEF Mirrors
      <3>. QED  BY <2>1, <2>3, <3>1, <3>2 DEF NoRow
    <2>. QED  BY <2>2, <2>3
  <1>2. ASSUME NEW n \in Nat, n \in S PROVE n + 1 \in S
    <2>. SUFFICES ASSUME NEW a \in groups, NEW d \in groups
                  PROVE  closure[a][d] = n + 1 <=> Climb[n + 1][d] = a
      OBVIOUS
    <2>1. Climb[n + 1][d] = Climb[n][parent[d]] /\ Climb[n][None] = None /\ a # None /\ closure[d][d] = 0
      BY ClimbBySteps, NoneAssumption DEF Mirrors
    <2>2. CASE parent[d] = None
      <3>1. a # d => closure[a][d] = NoRow
        BY <2>2 DEF Mirrors
      <3>. QED  BY <2>1, <2>2, <3>1 DEF NoRow
    <2>3. CASE parent[d] # None
      <3>1. PICK e \in groups : e = parent[d] /\ e # d
        BY <2>3 DEF Mirrors
      <3>2. closure[a][e] = n <=> Climb[n][e] = a
        BY <1>2, <3>1
      <3>3. CASE a # d
        <4>1. closure[a][d] = IF closure[a][e] # NoRow THEN closure[a][e] + 1 ELSE NoRow
          BY <2>3, <3>1, <3>3 DEF Mirrors
        <4>2. closure[a][e] \in Nat \cup {-1}
          BY <1>0
        <4>. QED  BY <2>1, <3>1, <3>2, <4>1, <4>2 DEF NoRow
      <3>4. CASE a = d
        <4>1. closure[e][d] = closure[e][e] + 1 /\ closure[e][e] = 0
          BY <2>3, <3>1 DEF Mirrors, NoRow
        <4>2. closure[d][e] = NoRow
          BY <3>1, <4>1 DEF Mirrors, NoRow
        <4>. QED  BY <2>1, <3>1, <3>2, <3>4, <4>2 DEF NoRow
      <3>. QED  BY <3>3, <3>4
    <2>. QED  BY <2>2, <2>3
  <1>. HIDE DEF S
  <1>3. \A n \in Nat : n \in S
    BY <1>1, <1>2, BySteps
  <1>. QED  BY <1>3 DEF S

LEMMA SettledTables ==
    CarefulInv /\ Settled =>
        /\ parent \in Parents /\ closure \in Tables /\ groups \in SUBSET Groups
        /\ Mirrors(groups, parent, closure)
  BY DEF CarefulInv, TypeInv, TypeOK, Tables, Parents, Forest

\* DepthIsDistance: sorting by the depth of the rows is sorting by the distance in
\* the tree that parent_id draws, however deep it is.
THEOREM DepthsAreDistances == CarefulSpec => []DepthIsDistance
  <1>1. CarefulInv => DepthIsDistance
    <2>. SUFFICES ASSUME CarefulInv, Settled, NEW a \in groups, NEW d \in groups,
                         NEW n \in 0 .. Cardinality(Groups)
                  PROVE  closure[a][d] = n <=> Climb[n][d] = a
      BY DEF DepthIsDistance
    <2>1. n \in Nat
      OBVIOUS
    <2>. QED  BY <2>1, SettledTables, DepthCountsSteps
  <1>. QED  BY <1>1, Inductive, PTL

\* Between calls, and while they come one at a time, no group is above itself, by
\* however many steps (NoCircularReference, which other calls break).
THEOREM NoCircleBetweenCalls == CarefulSpec => [](Settled => NoCircularReference)
  <1>1. CarefulInv /\ Settled => NoCircularReference
    <2>. SUFFICES ASSUME CarefulInv, Settled, NEW g \in groups, NEW n \in 1 .. Cardinality(Groups)
                  PROVE  Climb[n][g] # g
      BY DEF NoCircularReference
    <2>1. n \in Nat /\ n # 0
      OBVIOUS
    <2>2. closure[g][g] = 0
      BY SettledTables DEF Mirrors
    <2>. QED  BY <2>1, <2>2, SettledTables, DepthCountsSteps
  <1>. QED  BY <1>1, Inductive, PTL


-----------------------------------------------------------------------------
(* Calls that overlap, fail, or come with deletes of any group.            *)

\* The group that call c is creating; its rows in the closure table are not
\* all there yet.
Creating(c) == calls[c].pc \in {"self", "paths"}

\* An id is created by one call.
CreatesOnce ==
    \A c \in Calls : Creating(c) =>
        /\ calls[c].id \notin unused
        /\ \A e \in Calls : Creating(e) /\ calls[e].id = calls[c].id => e = c

\* Nothing is above or below a group without its own row.
NewIsAlone ==
    \A c \in Calls : calls[c].pc = "self" =>
        \A x \in Groups : ~Row(calls[c].id, x) /\ ~Row(x, calls[c].id)

DanglesInv == TypeInv /\ NothingDangles /\ CreatesOnce /\ NewIsAlone

LEMMA DanglesInit == Init => DanglesInv
  <1>. SUFFICES ASSUME Init PROVE DanglesInv
    OBVIOUS
  <1>1. TypeInv
    BY TypeInit
  <1>2. \A c \in Calls : calls[c].pc = "idle"
    BY DEF Init, IdleCall
  <1>3. NothingDangles
    BY DEF Init, NothingDangles, Row
  <1>4. CreatesOnce /\ NewIsAlone
    BY <1>2 DEF CreatesOnce, NewIsAlone, Creating
  <1>. QED  BY <1>1, <1>3, <1>4 DEF DanglesInv

\* A call that goes on: what its statement may do to the tables so that they
\* keep naming groups.
LEMMA DanglesStep ==
    ASSUME DanglesInv, TypeInv', NEW c \in Calls, NEW n,
           calls' = [calls EXCEPT ![c] = n],
           n.pc # "self",
           n.pc = "paths" => Creating(c) /\ n.id = calls[c].id,
           UNCHANGED <<groups, unused>>,
           \A g \in groups : parent'[g] \in groups \cup {None},
           \A a, d \in Groups : closure'[a][d] # NoRow => a \in groups /\ d \in groups,
           \A g \in groups : closure'[g][g] \in {0, closure[g][g]},
           \A e \in Calls \ {c} : calls[e].pc = "self" =>
               \A x \in Groups : /\ closure'[calls[e].id][x] = NoRow
                                 /\ closure'[x][calls[e].id] = NoRow,
           calls[c].pc = "self" /\ calls[c].id \in groups =>
               closure'[calls[c].id][calls[c].id] = 0
    PROVE  DanglesInv'
  <1>1. calls'[c] = n /\ \A e \in Calls \ {c} : calls'[e] = calls[e]
    BY DEF DanglesInv, TypeInv, TypeOK
  <1>2. CreatesOnce'
    <2>1. \A e \in Calls : Creating(e)' => Creating(e) /\ calls'[e].id = calls[e].id
      BY <1>1 DEF Creating
    <2>. QED  BY <2>1 DEF DanglesInv, CreatesOnce
  <1>3. NewIsAlone'
    BY <1>1 DEF NewIsAlone, Row
  <1>4. NothingDangles'
    <2>1. groups \subseteq Groups
      BY DEF DanglesInv, TypeInv, TypeOK
    <2>2. ASSUME NEW g \in groups
          PROVE  /\ closure'[g][g] \in {0, NoRow}
                 /\ closure'[g][g] = NoRow =>
                       \E e \in Calls : calls'[e].pc = "self" /\ calls'[e].id = g
      <3>1. closure[g][g] \in {0, NoRow} /\ closure'[g][g] \in {0, closure[g][g]}
        BY DEF DanglesInv, NothingDangles
      <3>2. ASSUME closure'[g][g] = NoRow
            PROVE  \E e \in Calls : calls'[e].pc = "self" /\ calls'[e].id = g
        <4>1. closure[g][g] = NoRow
          BY <3>1, <3>2 DEF NoRow
        <4>2. PICK e \in Calls : calls[e].pc = "self" /\ calls[e].id = g
          BY <4>1 DEF DanglesInv, NothingDangles, Row, At
        <4>3. e # c
          BY <3>2, <4>2 DEF NoRow
        <4>. QED  BY <1>1, <4>2, <4>3
      <3>. QED  BY <3>1, <3>2
    <2>. QED  BY <2>1, <2>2 DEF NothingDangles, Row, At
  <1>. QED  BY <1>2, <1>3, <1>4 DEF DanglesInv


LEMMA DanglesNext == DanglesInv /\ [Next]_vars => DanglesInv'
  <1>. SUFFICES ASSUME DanglesInv, [Next]_vars PROVE DanglesInv'
    OBVIOUS
  <1>0. /\ TypeInv /\ NothingDangles /\ CreatesOnce /\ NewIsAlone
        /\ groups \subseteq Groups /\ groups \cap unused = {}
        /\ closure \in Tables /\ parent \in Parents
    BY DEF DanglesInv, TypeInv, TypeOK, Tables, Parents
  <1>1. TypeInv'
    BY <1>0, TypeNext
  <1>2. ASSUME NEW c \in Calls, NEW g \in Groups, NEW p \in Groups \cup {None},
               CreateRow(c, g, p)
        PROVE  DanglesInv'
    <2>. DEFINE n == [IdleCall EXCEPT !.pc = "self", !.id = g, !.target = p]
    <2>1. calls' = [calls EXCEPT ![c] = n] /\ n.pc = "self" /\ n.id = g
      BY <1>2 DEF CreateRow, IdleCall
    <2>. HIDE DEF n
    <2>2. calls'[c] = n /\ \A e \in Calls : e # c => calls'[e] = calls[e]
      BY <1>0, <2>1 DEF TypeInv, TypeOK
    <2>3. /\ g \in unused /\ g \notin groups /\ calls[c].pc = "idle"
          /\ groups' = groups \cup {g} /\ unused' = unused \ {g}
          /\ parent' = [parent EXCEPT ![g] = p] /\ p \in groups \cup {None}
          /\ closure' = closure
      BY <1>0, <1>2 DEF CreateRow, At
    <2>4. \A e \in Calls : Creating(e) => calls[e].id # g /\ calls[e].id \notin unused
      BY <1>0, <2>3 DEF CreatesOnce
    <2>5. CreatesOnce'
      BY <1>0, <2>1, <2>2, <2>3, <2>4 DEF CreatesOnce, Creating
    <2>6. NewIsAlone'
      <3>1. \A x \in Groups : closure[g][x] = NoRow /\ closure[x][g] = NoRow
        BY <1>0, <2>3 DEF NothingDangles, Row
      <3>. QED  BY <1>0, <2>1, <2>2, <2>3, <3>1 DEF NewIsAlone, Row
    <2>7. NothingDangles'
      <3>1. \A k \in groups' : parent'[k] \in groups' \cup {None}
        BY <1>0, <2>3 DEF NothingDangles, Parents
      <3>2. \A a, d \in Groups : closure'[a][d] # NoRow => a \in groups' /\ d \in groups'
        BY <1>0, <2>3 DEF NothingDangles, Row
      <3>3. ASSUME NEW k \in groups'
            PROVE  /\ closure'[k][k] \in {0, NoRow}
                   /\ closure'[k][k] = NoRow =>
                         \E e \in Calls : calls'[e].pc = "self" /\ calls'[e].id = k
        <4>1. CASE k = g
          BY <1>0, <2>1, <2>2, <2>3, <4>1 DEF NothingDangles, Row
        <4>2. CASE k # g
          <5>1. k \in groups
            BY <2>3, <4>2
          <5>2. /\ closure[k][k] \in {0, NoRow}
                /\ closure[k][k] = NoRow =>
                      \E e \in Calls : calls[e].pc = "self" /\ calls[e].id = k
            BY <1>0, <5>1 DEF NothingDangles, Row, At
          <5>. QED  BY <2>2, <2>3, <5>2
        <4>. QED  BY <4>1, <4>2
      <3>. QED  BY <3>1, <3>2, <3>3 DEF NothingDangles, Row, At
    <2>. QED  BY <1>1, <2>5, <2>6, <2>7 DEF DanglesInv
  <1>3. ASSUME NEW c \in Calls, NEW g \in Groups, NEW p \in Groups \cup {None},
               MoveCheck(c, g, p)
        PROVE  DanglesInv'
    <2>. DEFINE m == [IdleCall EXCEPT !.pc = "select", !.id = g, !.target = p]
    <2>1. PICK n : n = m
      OBVIOUS
    <2>2. /\ calls' = [calls EXCEPT ![c] = n] /\ n.pc = "select"
          /\ calls[c].pc = "idle" /\ UNCHANGED <<groups, unused, parent, closure>>
      BY <1>3, <2>1 DEF MoveCheck, IdleCall, At
    <2>. HIDE DEF m
    <2>3. /\ \A k \in groups : parent'[k] \in groups \cup {None}
          /\ \A a, d \in Groups : closure'[a][d] # NoRow => a \in groups /\ d \in groups
          /\ \A k \in groups : closure'[k][k] \in {0, closure[k][k]}
      BY <1>0, <2>2 DEF NothingDangles, Row
    <2>4. \A e \in Calls : calls[e].pc = "self" =>
              \A x \in Groups : closure'[calls[e].id][x] = NoRow
                                /\ closure'[x][calls[e].id] = NoRow
      BY <1>0, <2>2 DEF NewIsAlone, Row
    <2>. QED  BY <1>1, <2>2, <2>3, <2>4, DanglesStep
  <1>4. ASSUME NEW c \in Calls, Continue(c) PROVE DanglesInv'
    <2>. DEFINE g == calls[c].id
                p == calls[c].target
    \* The calls' of every such step, by the place where the call is then.
    <2>1. ASSUME NEW pc \in {"paths", "cut", "link", "set"}, Goto(c, pc)
          PROVE  \E n : /\ calls' = [calls EXCEPT ![c] = n]
                        /\ n.pc = pc /\ n.id = g
      <3>1. calls[c] \in CallStates
        BY <1>0 DEF TypeInv, TypeOK
      <3>2. /\ [calls[c] EXCEPT !.pc = pc].pc = pc
            /\ [calls[c] EXCEPT !.pc = pc].id = g
        BY <3>1 DEF CallStates
      <3>3. calls' = [calls EXCEPT ![c] = [calls[c] EXCEPT !.pc = pc]]
        BY <2>1 DEF Goto
      <3>. QED  BY <3>2, <3>3
    <2>2. ASSUME Finish(c)
          PROVE  \E n : calls' = [calls EXCEPT ![c] = n] /\ n.pc = "idle"
      <3>1. IdleCall.pc = "idle"
        BY DEF IdleCall
      <3>. QED  BY <2>2, <3>1 DEF Finish
    <2>3. \A e \in Calls \ {c} : calls[e].pc = "self" =>
              /\ calls[e].id \in Groups
              /\ Creating(c) => calls[e].id # g
              /\ \A x \in Groups : closure[calls[e].id][x] = NoRow
                                   /\ closure[x][calls[e].id] = NoRow
      BY <1>0 DEF CreatesOnce, NewIsAlone, Creating, Row, TypeInv, CallInv
    <2>4. /\ \A k \in groups : parent[k] \in groups \cup {None}
          /\ \A a, d \in Groups : closure[a][d] # NoRow => a \in groups /\ d \in groups
          /\ \A k \in groups : closure[k][k] \in {0, NoRow}
          /\ \A k \in groups : closure[k][k] = NoRow =>
                \E e \in Calls : calls[e].pc = "self" /\ calls[e].id = k
      BY <1>0 DEF NothingDangles, Row, At
    <2>5. ASSUME UNCHANGED <<groups, unused, parent, closure>>,
                 NEW n, calls' = [calls EXCEPT ![c] = n],
                 n.pc \notin {"self", "paths"},
                 calls[c].pc = "self" => g \notin groups
          PROVE  DanglesInv'
      <3>1. /\ \A k \in groups : parent'[k] \in groups \cup {None}
            /\ \A a, d \in Groups : closure'[a][d] # NoRow => a \in groups /\ d \in groups
            /\ \A k \in groups : closure'[k][k] \in {0, closure[k][k]}
        BY <2>4, <2>5
      <3>2. \A e \in Calls \ {c} : calls[e].pc = "self" =>
                \A x \in Groups : closure'[calls[e].id][x] = NoRow
                                  /\ closure'[x][calls[e].id] = NoRow
        BY <2>3, <2>5
      <3>. QED  BY <1>1, <2>5, <3>1, <3>2, DanglesStep
    <2>6. CASE CreateFails(c) \/ MoveLinkFails(c) \/ MoveSetFails(c)
      <3>1. /\ Finish(c) /\ UNCHANGED <<groups, unused, parent, closure>>
            /\ calls[c].pc = "self" => g \notin groups
        BY <2>6 DEF CreateFails, MoveLinkFails, MoveSetFails, At
      <3>2. PICK n : calls' = [calls EXCEPT ![c] = n] /\ n.pc = "idle"
        BY <2>2, <3>1
      <3>. QED  BY <2>5, <3>1, <3>2
    <2>7. CASE MoveSelect(c)
      <3>. DEFINE m == [calls[c] EXCEPT !.pc = "cut", !.subtree = Below(g)]
      <3>1. calls[c] \in CallStates
        BY <1>0 DEF TypeInv, TypeOK
      <3>2. m.pc = "cut"
        BY <3>1 DEF CallStates
      <3>3. calls' = [calls EXCEPT ![c] = m] /\ calls[c].pc = "select"
            /\ UNCHANGED <<groups, unused, parent, closure>>
        BY <2>7 DEF MoveSelect, At
      <3>. HIDE DEF m
      <3>. QED  BY <2>5, <3>2, <3>3
    <2>8. CASE MoveSet(c)
      <3>1. PICK n : calls' = [calls EXCEPT ![c] = n] /\ n.pc = "idle"
        BY <2>2, <2>8 DEF MoveSet
      <3>2. \A k \in groups : parent'[k] \in groups \cup {None}
        BY <1>0, <2>4, <2>8 DEF MoveSet, Parents
      <3>3. calls[c].pc = "set" /\ UNCHANGED <<groups, unused, closure>>
        BY <2>8 DEF MoveSet, At
      <3>4. \A e \in Calls \ {c} : calls[e].pc = "self" =>
                \A x \in Groups : closure'[calls[e].id][x] = NoRow
                                  /\ closure'[x][calls[e].id] = NoRow
        BY <2>3, <3>3
      <3>5. /\ \A a, d \in Groups : closure'[a][d] # NoRow => a \in groups /\ d \in groups
            /\ \A k \in groups : closure'[k][k] \in {0, closure[k][k]}
        BY <2>4, <3>3
      <3>. QED  BY <1>1, <3>1, <3>2, <3>3, <3>4, <3>5, DanglesStep
    <2>9. ASSUME UNCHANGED <<groups, unused, parent>>,
                 NEW n, calls' = [calls EXCEPT ![c] = n], n.pc # "self",
                 n.pc = "paths" => Creating(c) /\ n.id = g,
                 \A a, d \in Groups : closure'[a][d] # NoRow => a \in groups /\ d \in groups,
                 \A k \in groups : closure'[k][k] \in {0, closure[k][k]},
                 \A e \in Calls \ {c} : calls[e].pc = "self" =>
                     \A x \in Groups : closure'[calls[e].id][x] = NoRow
                                       /\ closure'[x][calls[e].id] = NoRow,
                 calls[c].pc = "self" => closure'[g][g] = 0
          PROVE  DanglesInv'
      <3>1. \A k \in groups : parent'[k] \in groups \cup {None}
        BY <2>4, <2>9
      <3>. QED  BY <1>1, <2>9, <3>1, DanglesStep
    <2>10. CASE CreateSelf(c)
      <3>1. PICK n : /\ calls' = [calls EXCEPT ![c] = n]
                     /\ n.pc # "self"
                     /\ n.pc = "paths" => Creating(c) /\ n.id = g
        BY <2>1, <2>2, <2>10 DEF CreateSelf, Creating, At
      <3>2. /\ UNCHANGED <<groups, unused, parent>> /\ g \in groups /\ Creating(c)
            /\ closure' = [closure EXCEPT ![g][g] = 0]
        BY <2>10 DEF CreateSelf, Creating, At
      <3>3. PICK k : k = g
        OBVIOUS
      <3>4. \A a, d \in Groups :
                closure'[a][d] = IF a = k /\ d = k THEN 0 ELSE closure[a][d]
        BY <1>0, <3>2, <3>3 DEF Tables
      <3>5. \A a, d \in Groups : closure'[a][d] # NoRow => a \in groups /\ d \in groups
        BY <2>4, <3>2, <3>3, <3>4
      <3>6. /\ \A x \in groups : closure'[x][x] \in {0, closure[x][x]}
            /\ closure'[g][g] = 0
        BY <1>0, <3>2, <3>3, <3>4
      <3>7. \A e \in Calls \ {c} : calls[e].pc = "self" =>
                \A x \in Groups : closure'[calls[e].id][x] = NoRow
                                  /\ closure'[x][calls[e].id] = NoRow
        BY <2>3, <3>2, <3>3, <3>4
      <3>. QED  BY <2>9, <3>1, <3>2, <3>5, <3>6, <3>7
    <2>11. CASE CreatePaths(c)
      <3>1. PICK n : calls' = [calls EXCEPT ![c] = n] /\ n.pc = "idle"
        BY <2>2, <2>11 DEF CreatePaths
      <3>2. /\ UNCHANGED <<groups, unused, parent>> /\ g \in groups /\ p \in Groups
            /\ Creating(c) /\ calls[c].pc = "paths"
            /\ closure' = Linked(p, g, {g}) /\ ~Duplicates(p, {g})
        BY <1>0, <2>11 DEF CreatePaths, Creating, At, TypeInv, CallInv
      <3>3. PICK k \in groups : k = g
        BY <3>2
      <3>4. \A a, d \in Groups :
                closure'[a][d] = IF closure[a][p] # NoRow /\ d = k
                                 THEN closure[a][p] + closure[k][d] + 1
                                 ELSE closure[a][d]
        BY <3>2, <3>3 DEF Linked, Row
      <3>5. closure[k][p] = NoRow
        <4>1. closure[k][k] # NoRow
          BY <1>0, <2>4, <3>2, <3>3 DEF CreatesOnce, Creating
        <4>. QED  BY <1>0, <3>2, <3>3, <4>1 DEF Duplicates, Row
      <3>. HIDE DEF g, p
      <3>6. \A a, d \in Groups : closure'[a][d] # NoRow => a \in groups /\ d \in groups
        BY <2>4, <3>2, <3>3, <3>4
      <3>7. \A x \in groups : closure'[x][x] \in {0, closure[x][x]}
        BY <1>0, <3>4, <3>5
      <3>8. \A e \in Calls \ {c} : calls[e].pc = "self" =>
                \A x \in Groups : closure'[calls[e].id][x] = NoRow
                                  /\ closure'[x][calls[e].id] = NoRow
        <4>. SUFFICES ASSUME NEW e \in Calls \ {c}, calls[e].pc = "self", NEW x \in Groups
                      PROVE  closure'[calls[e].id][x] = NoRow
                             /\ closure'[x][calls[e].id] = NoRow
          OBVIOUS
        <4>1. PICK i \in Groups : /\ i = calls[e].id /\ i # k
                                  /\ closure[i][p] = NoRow /\ closure[i][x] = NoRow
                                  /\ closure[x][i] = NoRow
          BY <2>3, <3>2, <3>3
        <4>2. closure'[i][x] = NoRow /\ closure'[x][i] = NoRow
          BY <3>4, <4>1
        <4>. QED  BY <4>1, <4>2
      <3>. QED  BY <2>9, <3>1, <3>2, <3>6, <3>7, <3>8
    <2>12. CASE MoveCut(c)
      <3>1. PICK n : calls' = [calls EXCEPT ![c] = n] /\ n.pc \in {"set", "link"}
        BY <2>1, <2>12 DEF MoveCut
      <3>2. /\ UNCHANGED <<groups, unused, parent>> /\ calls[c].pc = "cut"
            /\ closure' = Cut(calls[c].subtree)
        BY <2>12 DEF MoveCut, At
      <3>3. \A a, d \in Groups : closure'[a][d] \in {NoRow, closure[a][d]}
        BY <3>2 DEF Cut
      <3>4. \A k \in Groups : closure'[k][k] = closure[k][k]
        BY <3>2 DEF Cut
      <3>5. \A a, d \in Groups : closure'[a][d] # NoRow => a \in groups /\ d \in groups
        BY <2>4, <3>3
      <3>6. \A e \in Calls \ {c} : calls[e].pc = "self" =>
                \A x \in Groups : closure'[calls[e].id][x] = NoRow
                                  /\ closure'[x][calls[e].id] = NoRow
        BY <2>3, <3>3
      <3>. QED  BY <1>0, <2>9, <3>1, <3>2, <3>4, <3>5, <3>6
    <2>13. CASE MoveLink(c)
      <3>1. PICK n : calls' = [calls EXCEPT ![c] = n] /\ n.pc = "set"
        BY <2>1, <2>13 DEF MoveLink
      <3>2. /\ UNCHANGED <<groups, unused, parent>> /\ calls[c].pc = "link"
            /\ g \in Groups /\ p \in Groups
            /\ closure' = Linked(p, g, Below(g)) /\ ~Duplicates(p, Below(g))
        BY <1>0, <2>13 DEF MoveLink, At, TypeInv, CallInv
      <3>3. \A a, d \in Groups :
                closure'[a][d] = IF closure[a][p] # NoRow /\ closure[g][d] # NoRow
                                 THEN closure[a][p] + closure[g][d] + 1
                                 ELSE closure[a][d]
        BY <3>2 DEF Linked, Row, Below
      <3>4. \A a, d \in Groups :
                closure[a][p] # NoRow /\ closure[g][d] # NoRow => closure[a][d] = NoRow
        BY <3>2 DEF Duplicates, Row, Below
      <3>. HIDE DEF g, p
      <3>5. \A a, d \in Groups : closure'[a][d] # NoRow => a \in groups /\ d \in groups
        BY <2>4, <3>2, <3>3
      \* A group without its own row is alone, and so it gets none here.
      <3>6. ASSUME NEW k \in groups PROVE closure'[k][k] = closure[k][k]
        <4>. SUFFICES ASSUME closure[k][p] # NoRow, closure[g][k] # NoRow PROVE FALSE
          BY <1>0, <3>3
        <4>1. closure[k][k] = NoRow
          BY <1>0, <3>4
        <4>2. PICK e \in Calls : calls[e].pc = "self" /\ calls[e].id = k
          BY <2>4, <4>1
        <4>. QED  BY <2>3, <3>2, <4>2
      <3>7. \A e \in Calls \ {c} : calls[e].pc = "self" =>
                \A x \in Groups : closure'[calls[e].id][x] = NoRow
                                  /\ closure'[x][calls[e].id] = NoRow
        BY <2>3, <3>2, <3>3
      <3>. QED  BY <2>9, <3>1, <3>2, <3>5, <3>6, <3>7
    <2>. QED
      BY <1>4, <2>6, <2>7, <2>8, <2>10, <2>11, <2>12, <2>13 DEF Continue
  <1>5. ASSUME NEW g \in Groups, Delete(g) PROVE DanglesInv'
    <2>1. /\ groups' = groups \ {g} /\ UNCHANGED <<unused, calls>>
          /\ \A k \in Groups : parent'[k] = IF k = g \/ parent[k] = g THEN None ELSE parent[k]
          /\ \A a, d \in Groups :
                closure'[a][d] = IF a = g \/ d = g THEN NoRow ELSE closure[a][d]
      BY <1>5 DEF Delete
    <2>2. CreatesOnce'
      BY <1>0, <2>1 DEF CreatesOnce, Creating
    <2>3. NewIsAlone'
      BY <1>0, <2>1 DEF NewIsAlone, Row, TypeInv, CallInv
    <2>4. NothingDangles'
      <3>1. \A k \in groups' : parent'[k] \in groups' \cup {None}
        BY <1>0, <2>1 DEF NothingDangles
      <3>2. \A a, d \in Groups : closure'[a][d] # NoRow => a \in groups' /\ d \in groups'
        BY <1>0, <2>1 DEF NothingDangles, Row
      <3>3. \A k \in groups' :
                /\ closure'[k][k] \in {0, NoRow}
                /\ closure'[k][k] = NoRow =>
                      \E e \in Calls : calls'[e].pc = "self" /\ calls'[e].id = k
        BY <1>0, <2>1 DEF NothingDangles, Row, At
      <3>. QED  BY <3>1, <3>2, <3>3 DEF NothingDangles, Row, At
    <2>. QED  BY <1>1, <2>2, <2>3, <2>4 DEF DanglesInv
  <1>6. CASE UNCHANGED vars
    <2>1. UNCHANGED <<groups, unused, parent, closure, calls>>
      BY <1>6 DEF vars
    <2>2. CreatesOnce' /\ NewIsAlone' /\ NothingDangles'
      BY <1>0, <2>1 DEF CreatesOnce, Creating, NewIsAlone, NothingDangles, Row, At
    <2>. QED  BY <1>1, <2>2 DEF DanglesInv
  <1>. QED  BY <1>2, <1>3, <1>4, <1>5, <1>6 DEF Next

\* Whatever calls overlap or fail, both tables name groups that exist, and a
\* group has its own row as soon as its create has inserted it: no links that
\* another call makes meanwhile give it one of another depth.
THEOREM RowsNameGroups == Spec => []NothingDangles
  <1>1. DanglesInv => NothingDangles
    BY DEF DanglesInv
  <1>. QED  BY <1>1, DanglesInit, DanglesNext, PTL DEF Spec
=============================================================================
