------------------------ MODULE SimpleBTBuilder_proofs ------------------------
(* What the builder makes of every plan: a graph whose arcs lead to later actions, *)
(* in which each action comes after what it needs, and a tree of that graph.       *)
EXTENDS SimpleBTBuilder, FiniteSetTheorems, TLAPS

-----------------------------------------------------------------------------
(* Induction: over numbers, and for functions that are defined by recursion. *)

\* What holds of 0, and of each number up to n if it holds of the one before, holds of
\* all of them.  Else the function that leaves the numbers of which it holds where they
\* are and moves the others down by one would have n + 1 values below n.
LEMMA Climb ==
  ASSUME NEW n \in Nat, NEW P, 0 \in P, \A k \in 1 .. n : k - 1 \in P => k \in P
  PROVE  0 .. n \subseteq P
<1> SUFFICES ASSUME NEW m \in 0 .. n, m \notin P PROVE FALSE
  OBVIOUS
<1> DEFINE f == [k \in 0 .. m |-> IF k \in P THEN k ELSE k - 1]
<1>1. m # 0 /\ \A k \in 1 .. m : k - 1 \in P => k \in P
  OBVIOUS
<1>2. f \in [0 .. m -> 0 .. m - 1]
  <2> SUFFICES ASSUME NEW k \in 0 .. m PROVE (IF k \in P THEN k ELSE k - 1) \in 0 .. m - 1
    OBVIOUS
  <2> QED BY <1>1
<1>3. \A i, j \in 0 .. m : f[i] = f[j] => i = j
  <2> SUFFICES ASSUME NEW i \in 0 .. m, NEW j \in 0 .. m,
                      (IF i \in P THEN i ELSE i - 1) = (IF j \in P THEN j ELSE j - 1)
               PROVE i = j
    OBVIOUS
  <2> QED BY <1>1
<1>4. /\ IsFiniteSet(0 .. m) /\ Cardinality(0 .. m) = m + 1
      /\ IsFiniteSet(0 .. m - 1) /\ Cardinality(0 .. m - 1) = m
  BY <1>1, FS_Interval
<1> HIDE DEF f
<1>5. Cardinality(0 .. m - 1) < Cardinality(0 .. m)
  BY <1>4
<1>6. \E x, y \in 0 .. m : x # y /\ f[x] = f[y]
  BY <1>2, <1>4, <1>5, FS_PigeonHole
<1> QED BY <1>3, <1>6

\* The same from the top.
LEMMA Descend ==
  ASSUME NEW n \in Nat, NEW P, \A i \in 1 .. n : (\A j \in i + 1 .. n : j \in P) => i \in P
  PROVE  1 .. n \subseteq P
<1> DEFINE Q == {m \in 0 .. n : \A j \in n - m + 1 .. n : j \in P}
<1>1. 0 \in Q
  OBVIOUS
<1>2. ASSUME NEW k \in 1 .. n, k - 1 \in Q PROVE k \in Q
  <2>1. n - k + 1 \in 1 .. n /\ \A j \in (n - k + 1) + 1 .. n : j \in P
    BY <1>2
  <2>2. n - k + 1 \in P
    BY <2>1
  <2>3. \A j \in n - k + 1 .. n : j = n - k + 1 \/ j \in (n - k + 1) + 1 .. n
    OBVIOUS
  <2> QED BY <2>1, <2>2, <2>3
<1> HIDE DEF Q
<1>3. n \in Q
  BY <1>1, <1>2, Climb
<1> QED BY <1>3 DEF Q

\* A set of numbers has a least one.
LEMMA Least ==
  ASSUME NEW S, S \subseteq Nat, S # {} PROVE \E k \in S : \A l \in S : k <= l
<1> SUFFICES ASSUME \A k \in S : \E l \in S : l < k PROVE FALSE
  OBVIOUS
<1>1. PICK n \in S : TRUE
  OBVIOUS
<1> DEFINE P == {k \in 0 .. n : \A l \in S : k <= l}
<1>2. 0 \in P
  OBVIOUS
<1>3. ASSUME NEW k \in 1 .. n, k - 1 \in P PROVE k \in P
  <2>1. k - 1 \in 0 .. n /\ \A l \in S : k - 1 <= l
    BY <1>3
  <2>2. k - 1 \notin S
    BY <2>1
  <2>3. ASSUME NEW l \in S PROVE k <= l
    <3>1. l \in Nat /\ k - 1 <= l /\ k - 1 # l
      BY <2>1, <2>2
    <3> QED BY <3>1
  <2>4. k \in 0 .. n
    OBVIOUS
  <2> QED BY <2>3, <2>4
<1> HIDE DEF P
<1>4. n \in Nat
  BY <1>1
<1>5. 0 .. n \subseteq P
  BY <1>2, <1>3, <1>4, Climb
<1>6. n \in P
  BY <1>4, <1>5
<1> QED BY <1>1, <1>6 DEF P

\* A recursion that stays in a set has a solution, and it is in that set.
Solutions(n, S, base, G) ==
  {g \in [0 .. n -> S] : g[0] = base /\ \A k \in 1 .. n : g[k] = G[k][g[k - 1]]}

LEMMA Recursion ==
  ASSUME NEW n \in Nat, NEW S, NEW base \in S, NEW G \in [1 .. n -> [S -> S]]
  PROVE  Solutions(n, S, base, G) # {}
<1> DEFINE P == {m \in 0 .. n : \E g \in [0 .. m -> S] :
                                  g[0] = base /\ \A k \in 1 .. m : g[k] = G[k][g[k - 1]]}
<1>1. 0 \in P
  <2> DEFINE g == [k \in 0 .. 0 |-> base]
  <2>1. g \in [0 .. 0 -> S] /\ g[0] = base /\ 1 .. 0 = {}
    OBVIOUS
  <2> HIDE DEF g
  <2> QED BY <2>1
<1>2. ASSUME NEW m \in 1 .. n, m - 1 \in P PROVE m \in P
  <2>1. PICK g \in [0 .. m - 1 -> S] : g[0] = base /\ \A k \in 1 .. m - 1 : g[k] = G[k][g[k - 1]]
    BY <1>2
  <2> DEFINE h == [k \in 0 .. m |-> IF k = m THEN G[m][g[m - 1]] ELSE g[k]]
  <2>2. g[m - 1] \in S /\ G[m][g[m - 1]] \in S
    OBVIOUS
  <2>3. \A k \in 0 .. m : h[k] = IF k = m THEN G[m][g[m - 1]] ELSE g[k]
    OBVIOUS
  <2>4. h \in [0 .. m -> S]
    BY <2>2
  <2> HIDE DEF h
  <2>5. h[0] = base
    BY <2>1, <2>3
  <2>6. ASSUME NEW k \in 1 .. m PROVE h[k] = G[k][h[k - 1]]
    <3>1. k - 1 \in 0 .. m - 1 /\ k - 1 # m /\ k \in 0 .. m
      OBVIOUS
    <3>2. h[k - 1] = g[k - 1]
      BY <2>3, <3>1
    <3> QED BY <2>1, <2>3, <3>1, <3>2
  <2>7. \E f \in [0 .. m -> S] : f[0] = base /\ \A k \in 1 .. m : f[k] = G[k][f[k - 1]]
    <3> WITNESS h \in [0 .. m -> S]
    <3> QED BY <2>5, <2>6
  <2>8. m \in 0 .. n
    OBVIOUS
  <2> QED BY <2>7, <2>8, Zenon
<1>3. n \in P
  <2> HIDE DEF P
  <2>1. 0 .. n \subseteq P
    BY <1>1, <1>2, Climb
  <2> QED BY <2>1
<1>4. \E g \in [0 .. n -> S] : g[0] = base /\ \A k \in 1 .. n : g[k] = G[k][g[k - 1]]
  BY <1>3, Zenon
<1> QED BY <1>4 DEF Solutions

-----------------------------------------------------------------------------
(* The builder's operators on sequences.                                   *)

\* What Append does, one fact at a time.
LEMMA AppendTyped ==
  ASSUME NEW T, NEW s \in Seq(T), NEW t \in T
  PROVE  /\ Append(s, t) \in Seq(T) /\ Len(Append(s, t)) = Len(s) + 1
         /\ \A i \in 1 .. Len(s) : Append(s, t)[i] = s[i]
         /\ Append(s, t)[Len(s) + 1] = t
OBVIOUS

\* How f comes to Only(s, S), to FirstOf(s) and to Joined(s).
OnlySteps(f, s, S) ==
  /\ f[0] = <<>>
  /\ \A k \in 1 .. Len(s) : f[k] = IF s[k] \in S THEN Append(f[k - 1], s[k]) ELSE f[k - 1]
  /\ Only(s, S) = f[Len(s)]
FirstOfSteps(f, s) ==
  /\ f[0] = <<>>
  /\ \A k \in 1 .. Len(s) :
       f[k] = IF s[k] \in Elements(f[k - 1]) THEN f[k - 1] ELSE Append(f[k - 1], s[k])
  /\ FirstOf(s) = f[Len(s)]
JoinedSteps(f, s) ==
  /\ f[0] = <<>>
  /\ \A k \in 1 .. Len(s) : f[k] = f[k - 1] \o s[k]
  /\ Joined(s) = f[Len(s)]

\* Only keeps what is in the set, one element after the other.
LEMMA OnlyDef ==
  ASSUME NEW T, NEW s \in Seq(T), NEW S
  PROVE  \E f \in [0 .. Len(s) -> Seq(T \intersect S)] : OnlySteps(f, s, S)
<1> DEFINE n == Len(s)
           U == Seq(T \intersect S)
           Step(x, k) == IF s[k] \in S THEN Append(x, s[k]) ELSE x
           f[k \in 0 .. n] == IF k = 0 THEN <<>> ELSE Step(f[k - 1], k)
           G == [k \in 1 .. n |-> [x \in U |-> Step(x, k)]]
<1>1. Only(s, S) = f[n]
  BY DEF Only
<1>2. f = CHOOSE g : g = [k \in 0 .. n |-> IF k = 0 THEN <<>> ELSE Step(g[k - 1], k)]
  BY DEF f
<1>3. n \in Nat /\ <<>> \in U
  OBVIOUS
<1>4. \A k \in 1 .. n, x \in U : Step(x, k) \in U
  <2>1. \A k \in 1 .. n : s[k] \in T
    OBVIOUS
  <2> QED BY <2>1, AppendTyped
<1>5. G \in [1 .. n -> [U -> U]]
  BY <1>4
<1> HIDE DEF n, U, f, Step
<1>6. PICK h \in Solutions(n, U, <<>>, G) : TRUE
  <2> HIDE DEF G
  <2> QED BY <1>3, <1>5, Recursion
<1>7. h = [k \in 0 .. n |-> IF k = 0 THEN <<>> ELSE Step(h[k - 1], k)]
  <2>1. h \in [0 .. n -> U] /\ h[0] = <<>> /\ \A k \in 1 .. n : h[k] = G[k][h[k - 1]]
    BY <1>6 DEF Solutions
  <2>2. \A k \in 1 .. n : h[k - 1] \in U
    BY <1>3, <2>1
  <2> QED BY <1>3, <2>1, <2>2
<1>8. f = [k \in 0 .. n |-> IF k = 0 THEN <<>> ELSE Step(f[k - 1], k)]
  BY <1>2, <1>7
<1> DEFINE P == {k \in 0 .. n : f[k] \in U}
<1>9. 0 \in P
  BY <1>3, <1>8
<1>10. ASSUME NEW k \in 1 .. n, k - 1 \in P PROVE k \in P
  <2>1. f[k] = Step(f[k - 1], k)
    <3>1. k \in 0 .. n /\ k # 0
      BY <1>3
    <3>2. f[k] = IF k = 0 THEN <<>> ELSE Step(f[k - 1], k)
      BY <1>8, <3>1, Zenon
    <3> QED BY <3>1, <3>2, Zenon
  <2>2. f[k - 1] \in U
    BY <1>10
  <2>3. f[k] \in U
    BY <1>4, <2>1, <2>2
  <2> QED BY <1>3, <2>3
<1>11. 0 .. n \subseteq P
  <2> HIDE DEF P
  <2> QED BY <1>3, <1>9, <1>10, Climb
<1>12. f \in [0 .. n -> U]
  BY <1>8, <1>11
<1>13. f[0] = <<>> /\ \A k \in 1 .. n : f[k] = Step(f[k - 1], k)
  <2>1. \A k \in 0 .. n : f[k] = IF k = 0 THEN <<>> ELSE Step(f[k - 1], k)
    BY <1>8, Zenon
  <2>2. 0 \in 0 .. n /\ \A k \in 1 .. n : k \in 0 .. n /\ k # 0
    BY <1>3
  <2> QED BY <2>1, <2>2
<1>14. OnlySteps(f, s, S)
  BY <1>1, <1>13, Zenon DEF n, Step, OnlySteps
<1> QED BY <1>12, <1>14, Zenon DEF n, U

LEMMA OnlyTyped == ASSUME NEW T, NEW s \in Seq(T), NEW S PROVE Only(s, S) \in Seq(T \intersect S)
<1>1. Len(s) \in 0 .. Len(s)
  OBVIOUS
<1>2. PICK f \in [0 .. Len(s) -> Seq(T \intersect S)] : OnlySteps(f, s, S)
  BY OnlyDef
<1> QED BY <1>1, <1>2 DEF OnlySteps

\* What is not there yet can be appended without a repetition.
LEMMA AppendInjective ==
  ASSUME NEW T, NEW s \in Seq(T), IsInjective(s), NEW t \in T, t \notin Elements(s)
  PROVE  IsInjective(Append(s, t))
<1>1. \A i, j \in 1 .. Len(s) : s[i] = s[j] => i = j
  BY DEF IsInjective
<1>2. \A i \in 1 .. Len(s) : s[i] # t
  BY DEF Elements
<1>3. DOMAIN Append(s, t) = 1 .. Len(s) + 1
  OBVIOUS
<1> QED BY <1>1, <1>2, <1>3, AppendTyped DEF IsInjective

\* FirstOf leaves out what has been there before, so nothing occurs twice.
LEMMA FirstOfDef ==
  ASSUME NEW T, NEW s \in Seq(T)
  PROVE  \E f \in [0 .. Len(s) -> {x \in Seq(T) : IsInjective(x)}] : FirstOfSteps(f, s)
<1> DEFINE n == Len(s)
           U == {x \in Seq(T) : IsInjective(x)}
           Step(x, k) == IF s[k] \in Elements(x) THEN x ELSE Append(x, s[k])
           f[k \in 0 .. n] == IF k = 0 THEN <<>> ELSE Step(f[k - 1], k)
           G == [k \in 1 .. n |-> [x \in U |-> Step(x, k)]]
<1>1. FirstOf(s) = f[n]
  BY DEF FirstOf
<1>2. f = CHOOSE g : g = [k \in 0 .. n |-> IF k = 0 THEN <<>> ELSE Step(g[k - 1], k)]
  BY DEF f
<1>3. n \in Nat /\ <<>> \in U
  BY DEF IsInjective
<1>4. \A k \in 1 .. n, x \in U : Step(x, k) \in U
  <2>1. \A k \in 1 .. n : s[k] \in T
    OBVIOUS
  <2> QED BY <2>1, AppendTyped, AppendInjective
<1>5. G \in [1 .. n -> [U -> U]]
  BY <1>4
<1> HIDE DEF n, U, f, Step
<1>6. PICK h \in Solutions(n, U, <<>>, G) : TRUE
  <2> HIDE DEF G
  <2> QED BY <1>3, <1>5, Recursion
<1>7. h = [k \in 0 .. n |-> IF k = 0 THEN <<>> ELSE Step(h[k - 1], k)]
  <2>1. h \in [0 .. n -> U] /\ h[0] = <<>> /\ \A k \in 1 .. n : h[k] = G[k][h[k - 1]]
    BY <1>6 DEF Solutions
  <2>2. \A k \in 1 .. n : h[k - 1] \in U
    BY <1>3, <2>1
  <2> QED BY <1>3, <2>1, <2>2
<1>8. f = [k \in 0 .. n |-> IF k = 0 THEN <<>> ELSE Step(f[k - 1], k)]
  BY <1>2, <1>7
<1> DEFINE P == {k \in 0 .. n : f[k] \in U}
<1>9. 0 \in P
  BY <1>3, <1>8
<1>10. ASSUME NEW k \in 1 .. n, k - 1 \in P PROVE k \in P
  <2>1. f[k] = Step(f[k - 1], k)
    <3>1. k \in 0 .. n /\ k # 0
      BY <1>3
    <3>2. f[k] = IF k = 0 THEN <<>> ELSE Step(f[k - 1], k)
      BY <1>8, <3>1, Zenon
    <3> QED BY <3>1, <3>2, Zenon
  <2>2. f[k - 1] \in U
    BY <1>10
  <2>3. f[k] \in U
    BY <1>4, <2>1, <2>2
  <2> QED BY <1>3, <2>3
<1>11. 0 .. n \subseteq P
  <2> HIDE DEF P
  <2> QED BY <1>3, <1>9, <1>10, Climb
<1>12. f \in [0 .. n -> U]
  BY <1>8, <1>11
<1>13. f[0] = <<>> /\ \A k \in 1 .. n : f[k] = Step(f[k - 1], k)
  <2>1. \A k \in 0 .. n : f[k] = IF k = 0 THEN <<>> ELSE Step(f[k - 1], k)
    BY <1>8, Zenon
  <2>2. 0 \in 0 .. n /\ \A k \in 1 .. n : k \in 0 .. n /\ k # 0
    BY <1>3
  <2> QED BY <2>1, <2>2
<1>14. FirstOfSteps(f, s)
  BY <1>1, <1>13, Zenon DEF n, Step, FirstOfSteps
<1> QED BY <1>12, <1>14, Zenon DEF n, U

LEMMA FirstOfTyped ==
  ASSUME NEW T, NEW s \in Seq(T) PROVE FirstOf(s) \in Seq(T) /\ IsInjective(FirstOf(s))
<1> DEFINE U == {x \in Seq(T) : IsInjective(x)}
<1>1. Len(s) \in 0 .. Len(s)
  OBVIOUS
<1>2. FirstOf(s) \in U
  <2>1. PICK f \in [0 .. Len(s) -> U] : FirstOfSteps(f, s)
    BY FirstOfDef
  <2> HIDE DEF U
  <2> QED BY <1>1, <2>1 DEF FirstOfSteps
<1> QED BY <1>2

\* Sequences one after the other.
LEMMA JoinedDef ==
  ASSUME NEW T, NEW s \in Seq(Seq(T))
  PROVE  \E f \in [0 .. Len(s) -> Seq(T)] : JoinedSteps(f, s)
<1> DEFINE n == Len(s)
           U == Seq(T)
           Step(x, k) == x \o s[k]
           f[k \in 0 .. n] == IF k = 0 THEN <<>> ELSE Step(f[k - 1], k)
           G == [k \in 1 .. n |-> [x \in U |-> Step(x, k)]]
<1>1. Joined(s) = f[n]
  BY DEF Joined
<1>2. f = CHOOSE g : g = [k \in 0 .. n |-> IF k = 0 THEN <<>> ELSE Step(g[k - 1], k)]
  BY DEF f
<1>3. n \in Nat /\ <<>> \in U
  OBVIOUS
<1>4. \A k \in 1 .. n, x \in U : Step(x, k) \in U
  <2>1. \A k \in 1 .. n : s[k] \in Seq(T)
    OBVIOUS
  <2> QED BY <2>1
<1>5. G \in [1 .. n -> [U -> U]]
  BY <1>4
<1> HIDE DEF n, U, f, Step
<1>6. PICK h \in Solutions(n, U, <<>>, G) : TRUE
  <2> HIDE DEF G
  <2> QED BY <1>3, <1>5, Recursion
<1>7. h = [k \in 0 .. n |-> IF k = 0 THEN <<>> ELSE Step(h[k - 1], k)]
  <2>1. h \in [0 .. n -> U] /\ h[0] = <<>> /\ \A k \in 1 .. n : h[k] = G[k][h[k - 1]]
    BY <1>6 DEF Solutions
  <2>2. \A k \in 1 .. n : h[k - 1] \in U
    BY <1>3, <2>1
  <2> QED BY <1>3, <2>1, <2>2
<1>8. f = [k \in 0 .. n |-> IF k = 0 THEN <<>> ELSE Step(f[k - 1], k)]
  BY <1>2, <1>7
<1> DEFINE P == {k \in 0 .. n : f[k] \in U}
<1>9. 0 \in P
  BY <1>3, <1>8
<1>10. ASSUME NEW k \in 1 .. n, k - 1 \in P PROVE k \in P
  <2>1. f[k] = Step(f[k - 1], k)
    <3>1. k \in 0 .. n /\ k # 0
      BY <1>3
    <3>2. f[k] = IF k = 0 THEN <<>> ELSE Step(f[k - 1], k)
      BY <1>8, <3>1, Zenon
    <3> QED BY <3>1, <3>2, Zenon
  <2>2. f[k - 1] \in U
    BY <1>10
  <2>3. f[k] \in U
    BY <1>4, <2>1, <2>2
  <2> QED BY <1>3, <2>3
<1>11. 0 .. n \subseteq P
  <2> HIDE DEF P
  <2> QED BY <1>3, <1>9, <1>10, Climb
<1>12. f \in [0 .. n -> U]
  BY <1>8, <1>11
<1>13. f[0] = <<>> /\ \A k \in 1 .. n : f[k] = Step(f[k - 1], k)
  <2>1. \A k \in 0 .. n : f[k] = IF k = 0 THEN <<>> ELSE Step(f[k - 1], k)
    BY <1>8, Zenon
  <2>2. 0 \in 0 .. n /\ \A k \in 1 .. n : k \in 0 .. n /\ k # 0
    BY <1>3
  <2> QED BY <2>1, <2>2
<1>14. JoinedSteps(f, s)
  BY <1>1, <1>13, Zenon DEF n, Step, JoinedSteps
<1> QED BY <1>12, <1>14, Zenon DEF n, U

LEMMA JoinedTyped == ASSUME NEW T, NEW s \in Seq(Seq(T)) PROVE Joined(s) \in Seq(T)
<1>1. Len(s) \in 0 .. Len(s)
  OBVIOUS
<1>2. PICK f \in [0 .. Len(s) -> Seq(T)] : JoinedSteps(f, s)
  BY JoinedDef
<1> QED BY <1>1, <1>2 DEF JoinedSteps

\* What a sequence is.
LEMMA SeqParts ==
  ASSUME NEW T, NEW s \in Seq(T)
  PROVE  /\ DOMAIN s = 1 .. Len(s) /\ Len(s) \in Nat
         /\ \A k \in DOMAIN s : s[k] \in T
OBVIOUS

\* A function on 1 .. n is a sequence.
LEMMA SeqOf == ASSUME NEW n \in Nat, NEW T, NEW s \in [1 .. n -> T] PROVE s \in Seq(T) /\ Len(s) = n
OBVIOUS

-----------------------------------------------------------------------------
(* Walks.                                                                  *)

\* Arcs lead from earlier to later positions of the plan.
In(n)  == {a \in [1 .. n -> Seq(1 .. n)] : \A i \in 1 .. n : a[i] \in Seq(1 .. i - 1)}
Out(n) == {a \in [1 .. n -> Seq(1 .. n)] : \A i \in 1 .. n : a[i] \in Seq(i + 1 .. n)}

\* Arcs lead to later positions, so the walk below a node is defined from the last one
\* back, and it stays within the graph.
LEMMA BelowDef ==
  ASSUME NEW n \in Nat, NEW g, g.out \in Out(n)
  PROVE  /\ Below(g) \in [1 .. n -> Seq(1 .. n)]
         /\ \A i \in 1 .. n :
              Below(g)[i] = <<i>> \o Joined([k \in DOMAIN g.out[i] |-> Below(g)[g.out[i][k]]])
<1> DEFINE U == Seq(1 .. n)
           out == g.out
           Step(w, i) == <<i>> \o Joined([k \in DOMAIN out[i] |-> w[out[i][k]]])
           walk[i \in 1 .. n] == Step(walk, i)
<1>1. Len(g.out) = n /\ \A i \in 1 .. n : out[i] \in Seq(i + 1 .. n)
  BY SeqOf DEF Out
<1>2. Below(g) = [i \in 1 .. n |-> walk[i]]
  BY <1>1 DEF Below
<1>3. walk = CHOOSE w : w = [i \in 1 .. n |-> Step(w, i)]
  BY DEF walk
<1> HIDE DEF walk, out
<1>4. ASSUME NEW i \in 1 .. n, NEW w, \A j \in i + 1 .. n : w[j] \in U PROVE Step(w, i) \in U
  <2> DEFINE s == [k \in DOMAIN out[i] |-> w[out[i][k]]]
  <2>1. /\ DOMAIN out[i] = 1 .. Len(out[i]) /\ Len(out[i]) \in Nat
        /\ \A k \in DOMAIN out[i] : out[i][k] \in i + 1 .. n
    <3>1. out[i] \in Seq(i + 1 .. n)
      BY <1>1
    <3> QED BY <3>1, SeqParts
  <2>2. s \in [1 .. Len(out[i]) -> U]
    BY <1>4, <2>1
  <2>3. s \in Seq(U)
    BY <2>1, <2>2, SeqOf
  <2>4. Joined(s) \in U
    BY <2>3, JoinedTyped
  <2> QED BY <2>4
<1>5. ASSUME NEW i \in 1 .. n, NEW w, NEW v, \A j \in i + 1 .. n : w[j] = v[j]
      PROVE  Step(w, i) = Step(v, i)
  <2>1. /\ DOMAIN out[i] = 1 .. Len(out[i]) /\ Len(out[i]) \in Nat
        /\ \A k \in DOMAIN out[i] : out[i][k] \in i + 1 .. n
    <3>1. out[i] \in Seq(i + 1 .. n)
      BY <1>1
    <3> QED BY <3>1, SeqParts
  <2> DEFINE A(x) == [k \in DOMAIN out[i] |-> x[out[i][k]]]
  <2>2. A(w) = A(v)
    <3>1. \A k \in DOMAIN out[i] : w[out[i][k]] = v[out[i][k]]
      BY <1>5, <2>1
    <3> QED BY <3>1
  <2>3. Step(w, i) = <<i>> \o Joined(A(w)) /\ Step(v, i) = <<i>> \o Joined(A(v))
    OBVIOUS
  <2> HIDE DEF A, Step
  <2> QED BY <2>2, <2>3
<1> HIDE DEF Step, U
<1> DEFINE Q == {m \in 0 .. n : \E w \in [n - m + 1 .. n -> U] :
                                  \A i \in n - m + 1 .. n : w[i] = Step(w, i)}
<1>6. 0 \in Q
  <2>1. n - 0 + 1 .. n = {}
    OBVIOUS
  <2>2. [i \in {} |-> i] \in [{} -> U]
    OBVIOUS
  <2>3. \E w \in [n - 0 + 1 .. n -> U] : \A i \in n - 0 + 1 .. n : w[i] = Step(w, i)
    BY <2>1, <2>2, Zenon
  <2>4. 0 \in 0 .. n
    OBVIOUS
  <2> QED BY <2>3, <2>4, Zenon
<1>7. ASSUME NEW m \in 1 .. n, m - 1 \in Q PROVE m \in Q
  <2> DEFINE low == n - m + 1
  <2>1. low \in 1 .. n /\ n - (m - 1) + 1 = low + 1
    OBVIOUS
  <2>2. PICK w \in [low + 1 .. n -> U] : \A i \in low + 1 .. n : w[i] = Step(w, i)
    BY <1>7, <2>1
  <2> DEFINE v == [i \in low .. n |-> IF i = low THEN Step(w, low) ELSE w[i]]
  <2> HIDE DEF low
  <2>3. \A i \in low .. n : i = low \/ i \in low + 1 .. n
    BY <2>1
  <2>4. v \in [low .. n -> U] /\ v[low] = Step(w, low) /\ \A j \in low + 1 .. n : v[j] = w[j]
    <3>1. Step(w, low) \in U
      BY <1>4, <2>1, <2>2
    <3> QED BY <2>1, <2>2, <2>3, <3>1
  <2> HIDE DEF v
  <2>5. ASSUME NEW i \in low .. n PROVE v[i] = Step(v, i)
    <3>1. i \in 1 .. n /\ \A j \in i + 1 .. n : j \in low + 1 .. n
      BY <2>1
    <3>2. Step(v, i) = Step(w, i)
      BY <1>5, <2>4, <3>1
    <3> QED BY <2>2, <2>3, <2>4, <3>2
  <2>6. \E x \in [low .. n -> U] : \A i \in low .. n : x[i] = Step(x, i)
    BY <2>4, <2>5, Zenon
  <2>7. m \in 0 .. n
    OBVIOUS
  <2> QED BY <2>6, <2>7, Zenon DEF low
<1>8. n \in Q
  <2> HIDE DEF Q
  <2> QED BY <1>6, <1>7, Climb
<1>9. PICK w \in [1 .. n -> U] : \A i \in 1 .. n : w[i] = Step(w, i)
  <2>1. n - n + 1 = 1
    OBVIOUS
  <2> QED BY <1>8, <2>1
<1>10. w = [i \in 1 .. n |-> Step(w, i)]
  BY <1>9
<1>11. walk = [i \in 1 .. n |-> Step(walk, i)]
  BY <1>3, <1>10
<1> DEFINE P == {i \in 1 .. n : walk[i] \in U}
<1>12. ASSUME NEW i \in 1 .. n, \A j \in i + 1 .. n : j \in P PROVE i \in P
  <2>1. walk[i] = Step(walk, i)
    BY <1>11, Zenon
  <2>2. \A j \in i + 1 .. n : walk[j] \in U
    BY <1>12
  <2> QED BY <1>4, <2>1, <2>2
<1>13. 1 .. n \subseteq P
  <2> HIDE DEF P
  <2> QED BY <1>12, Descend
<1>14. Below(g) = walk
  BY <1>2, <1>11, Zenon
<1>15. walk \in [1 .. n -> U]
  BY <1>11, <1>13
<1>16. \A i \in 1 .. n : walk[i] = Step(walk, i)
  BY <1>11, Zenon
<1> QED BY <1>14, <1>15, <1>16 DEF U, Step, out

LEMMA BelowTyped ==
  ASSUME NEW n \in Nat, NEW g, g.out \in Out(n) PROVE Below(g) \in [1 .. n -> Seq(1 .. n)]
BY BelowDef

\* The walk from all roots.
LEMMA WalkTyped ==
  ASSUME NEW n \in Nat, NEW g, g.out \in Out(n), g.roots \in 0 .. n PROVE Walk(g) \in Seq(1 .. n)
<1> DEFINE s == [r \in 1 .. g.roots |-> Below(g)[r]]
<1>1. g.roots \in Nat /\ \A r \in 1 .. g.roots : Below(g)[r] \in Seq(1 .. n)
  BY BelowTyped
<1>2. s \in [1 .. g.roots -> Seq(1 .. n)]
  BY <1>1
<1>3. Walk(g) = Joined(s)
  BY DEF Walk
<1> HIDE DEF s
<1>4. s \in Seq(Seq(1 .. n))
  BY <1>1, <1>2, SeqOf
<1> QED BY <1>3, <1>4, JoinedTyped

\* A sequence over a smaller set.
LEMMA SeqWithin == ASSUME NEW S, NEW T, S \subseteq T, NEW s \in Seq(S) PROVE s \in Seq(T)
OBVIOUS

LEMMA OnlyWithin == ASSUME NEW T, NEW s \in Seq(T), NEW S PROVE Only(s, S) \in Seq(T)
<1>1. T \intersect S \subseteq T
  OBVIOUS
<1> QED BY <1>1, OnlyTyped, SeqWithin

-----------------------------------------------------------------------------
(* Graphs.                                                                 *)

\* A graph that has been linked further, and one with n nodes.
Linked(g, n) == [roots : {g.roots}, failed : {g.failed}, state : {g.state}, in : In(n), out : Out(n)]
Shape(g, n) ==
  /\ g \in [roots : 0 .. n, failed : BOOLEAN, state : {g.state}, in : In(n), out : Out(n)]
  /\ Len(g.state) = n /\ \E X : g.state \in Seq(X)

\* prune_backwards, and the new arc, leave a graph with arcs to later positions.
LEMMA ConnectTyped ==
  ASSUME NEW n \in Nat, NEW b, NEW g \in Linked(b, n), NEW new \in 1 .. n, NEW parent \in 1 .. new - 1
  PROVE  Connect(g, parent, new) \in Linked(b, n)
<1> DEFINE above == Elements(Append(Above(g)[parent], parent))
           cut(s) == Only(s, DOMAIN g.in \ {new})
           into == Append(Only(g.in[new], DOMAIN g.in \ above), parent)
           out == [i \in DOMAIN g.out |-> IF i = parent THEN Append(cut(g.out[i]), new)
                                          ELSE IF i \in above THEN cut(g.out[i]) ELSE g.out[i]]
<1>1. Connect(g, parent, new) = [g EXCEPT !.in = [@ EXCEPT ![new] = into], !.out = out]
  BY DEF Connect
<1>2. g = [roots |-> b.roots, failed |-> b.failed, state |-> b.state, in |-> g.in, out |-> g.out]
      /\ g.in \in In(n) /\ g.out \in Out(n)
  BY DEF Linked
<1> HIDE DEF above
<1>3. [g.in EXCEPT ![new] = into] \in In(n)
  <2>1. /\ g.in \in [1 .. n -> Seq(1 .. n)]
        /\ \A i \in 1 .. n : g.in[i] \in Seq(1 .. i - 1)
    BY <1>2 DEF In
  <2>2. Only(g.in[new], DOMAIN g.in \ above) \in Seq(1 .. new - 1)
    BY <2>1, OnlyWithin
  <2>3. into \in Seq(1 .. new - 1)
    BY <2>2, AppendTyped
  <2>4. 1 .. new - 1 \subseteq 1 .. n
    OBVIOUS
  <2>5. into \in Seq(1 .. n)
    BY <2>3, <2>4, SeqWithin
  <2> HIDE DEF into
  <2> QED BY <2>1, <2>3, <2>5 DEF In
<1>4. out \in Out(n)
  <2>1. /\ g.out \in [1 .. n -> Seq(1 .. n)]
        /\ \A i \in 1 .. n : g.out[i] \in Seq(i + 1 .. n)
    BY <1>2 DEF Out
  <2>2. ASSUME NEW i \in 1 .. n PROVE out[i] \in Seq(i + 1 .. n)
    <3>1. cut(g.out[i]) \in Seq(i + 1 .. n)
      BY <2>1, OnlyWithin
    <3>2. ASSUME i = parent PROVE Append(cut(g.out[i]), new) \in Seq(i + 1 .. n)
      <4>1. new \in i + 1 .. n
        BY <3>2
      <4> HIDE DEF cut
      <4> QED BY <3>1, <4>1, AppendTyped
    <3> HIDE DEF cut
    <3> QED BY <2>1, <3>1, <3>2
  <2>3. ASSUME NEW i \in 1 .. n PROVE out[i] \in Seq(1 .. n)
    <3>1. i + 1 .. n \subseteq 1 .. n
      OBVIOUS
    <3> HIDE DEF out
    <3> QED BY <2>2, <3>1, SeqWithin
  <2>4. out = [i \in 1 .. n |-> out[i]]
    BY <2>1
  <2> HIDE DEF out
  <2>5. out \in [1 .. n -> Seq(1 .. n)]
    BY <2>3, <2>4
  <2> QED BY <2>2, <2>5 DEF Out
<1> HIDE DEF into, out
<1> QED BY <1>1, <1>2, <1>3, <1>4 DEF Linked

\* get_node_satisfy finds another node than the new one, or none.
LEMMA SatisfyTyped ==
  ASSUME NEW n \in Nat, NEW g, g.out \in Out(n), g.roots \in 0 .. n, NEW f, NEW new, NEW items
  PROVE  get_node_satisfy(f, g, new, items) \in {0} \union (DOMAIN g.state \ {new})
<1> DEFINE S == {i \in DOMAIN g.state \ {new} : f \notin g.state[i] /\ f \in Done(items[i], g.state[i])}
           s == Only(Walk(g), S)
<1>1. s \in Seq(1 .. n \intersect S)
  BY WalkTyped, OnlyTyped
<1>2. get_node_satisfy(f, g, new, items) = IF s = <<>> THEN 0 ELSE s[Len(s)]
  BY DEF get_node_satisfy, LastOr0
<1>3. S \subseteq DOMAIN g.state \ {new}
  OBVIOUS
<1> HIDE DEF s, S
<1>4. s # <<>> => s[Len(s)] \in S
  BY <1>1
<1> QED BY <1>2, <1>3, <1>4

\* get_node_contradict finds other nodes than the new one.
LEMMA ContradictTyped ==
  ASSUME NEW n \in Nat, NEW g, g.out \in Out(n), g.roots \in 0 .. n, NEW new, NEW items
  PROVE  get_node_contradict(g, new, items) \in Seq(DOMAIN g.state \ {new})
<1> DEFINE S == {i \in DOMAIN g.state \ {new} :
                   /\ is_action_executable(items[new], g.state[i])
                   /\ ~is_action_executable(items[i], Started(items[new], g.state[i]))}
<1>1. Only(Walk(g), S) \in Seq(1 .. n \intersect S)
  BY WalkTyped, OnlyTyped
<1>2. 1 .. n \intersect S \subseteq DOMAIN g.state \ {new}
  OBVIOUS
<1>3. get_node_contradict(g, new, items) = Only(Walk(g), S)
  BY DEF get_node_contradict
<1> HIDE DEF S
<1> QED BY <1>1, <1>2, <1>3, SeqWithin

\* The new node is separated from one after the other.
Separates(f, g, foes, new) ==
  /\ f[0] = g
  /\ \A k \in 1 .. Len(foes) : f[k] = Connect(f[k - 1], foes[k], new)
  /\ Separated(g, foes, new) = f[Len(foes)]

\* The arcs from those that the new action would disturb.
LEMMA SeparatedDef ==
  ASSUME NEW m \in Nat, NEW b, NEW g \in Linked(b, m), NEW new \in 1 .. m,
         NEW foes \in Seq(1 .. new - 1)
  PROVE  \E f \in [0 .. Len(foes) -> Linked(b, m)] : Separates(f, g, foes, new)
<1> DEFINE n == Len(foes)
           U == Linked(b, m)
           Step(x, k) == Connect(x, foes[k], new)
           f[k \in 0 .. n] == IF k = 0 THEN g ELSE Step(f[k - 1], k)
           G == [k \in 1 .. n |-> [x \in U |-> Step(x, k)]]
<1>1. Separated(g, foes, new) = f[n]
  BY DEF Separated
<1>2. f = CHOOSE h : h = [k \in 0 .. n |-> IF k = 0 THEN g ELSE Step(h[k - 1], k)]
  BY DEF f
<1>3. n \in Nat /\ g \in U
  OBVIOUS
<1>4. \A k \in 1 .. n, x \in U : Step(x, k) \in U
  <2>1. \A k \in 1 .. n : foes[k] \in 1 .. new - 1
    OBVIOUS
  <2> QED BY <2>1, ConnectTyped
<1>5. G \in [1 .. n -> [U -> U]]
  BY <1>4
<1> HIDE DEF n, U, f, Step
<1>6. PICK h \in Solutions(n, U, g, G) : TRUE
  <2> HIDE DEF G
  <2> QED BY <1>3, <1>5, Recursion
<1>7. h = [k \in 0 .. n |-> IF k = 0 THEN g ELSE Step(h[k - 1], k)]
  <2>1. h \in [0 .. n -> U] /\ h[0] = g /\ \A k \in 1 .. n : h[k] = G[k][h[k - 1]]
    BY <1>6 DEF Solutions
  <2>2. \A k \in 1 .. n : h[k - 1] \in U
    BY <1>3, <2>1
  <2>3. \A k \in 1 .. n : h[k] = Step(h[k - 1], k)
    BY <2>1, <2>2
  <2>4. \A k \in 0 .. n : h[k] = IF k = 0 THEN g ELSE Step(h[k - 1], k)
    BY <1>3, <2>1, <2>3
  <2> QED BY <2>1, <2>4
<1>8. f = [k \in 0 .. n |-> IF k = 0 THEN g ELSE Step(f[k - 1], k)]
  BY <1>2, <1>7
<1> DEFINE P == {k \in 0 .. n : f[k] \in U}
<1>9. 0 \in P
  BY <1>3, <1>8
<1>10. ASSUME NEW k \in 1 .. n, k - 1 \in P PROVE k \in P
  <2>1. f[k] = Step(f[k - 1], k)
    <3>1. k \in 0 .. n /\ k # 0
      BY <1>3
    <3>2. f[k] = IF k = 0 THEN g ELSE Step(f[k - 1], k)
      BY <1>8, <3>1, Zenon
    <3> QED BY <3>1, <3>2, Zenon
  <2>2. f[k - 1] \in U
    BY <1>10
  <2>3. f[k] \in U
    BY <1>4, <2>1, <2>2
  <2> QED BY <1>3, <2>3
<1>11. 0 .. n \subseteq P
  <2> HIDE DEF P
  <2> QED BY <1>3, <1>9, <1>10, Climb
<1>12. f \in [0 .. n -> U]
  BY <1>8, <1>11
<1>13. f[0] = g /\ \A k \in 1 .. n : f[k] = Step(f[k - 1], k)
  <2>1. \A k \in 0 .. n : f[k] = IF k = 0 THEN g ELSE Step(f[k - 1], k)
    BY <1>8, Zenon
  <2>2. 0 \in 0 .. n /\ \A k \in 1 .. n : k \in 0 .. n /\ k # 0
    BY <1>3
  <2> QED BY <2>1, <2>2
<1>14. Separates(f, g, foes, new)
  BY <1>1, <1>13, Zenon DEF n, Step, Separates
<1> QED BY <1>12, <1>14, Zenon DEF n, U

LEMMA SeparatedTyped ==
  ASSUME NEW m \in Nat, NEW b, NEW g \in Linked(b, m), NEW new \in 1 .. m,
         NEW foes \in Seq(1 .. new - 1)
  PROVE  Separated(g, foes, new) \in Linked(b, m)
<1>1. Len(foes) \in 0 .. Len(foes)
  OBVIOUS
<1>2. PICK f \in [0 .. Len(foes) -> Linked(b, m)] : Separates(f, g, foes, new)
  BY SeparatedDef
<1> QED BY <1>1, <1>2 DEF Separates

\* The arc from p, where one is found, to the new node; else the requirement is left open.
IsLinked(y, x, req, p, new) ==
  /\ y.graph = IF p = 0 THEN x.graph ELSE Connect(x.graph, p, new)
  /\ y.open = IF p = 0 THEN x.open \union {req} ELSE x.open

\* The new node is linked for one requirement after the other.
Linkings(b, m, T) == [graph : Linked(b, m), open : SUBSET T]
Links(f, g, reqs, new, items) ==
  /\ f[0].graph = g
  /\ \A k \in 1 .. Len(reqs) :
       IsLinked(f[k], f[k - 1], reqs[k], get_node_satisfy(reqs[k], f[k - 1].graph, new, items), new)
  /\ Satisfied(g, reqs, new, items) = f[Len(reqs)]

\* Nodes of which something is established come before the new one.
LEMMA SatisfiedDef ==
  ASSUME NEW m \in Nat, NEW b, NEW g \in Linked(b, m), b.roots \in 0 .. m,
         NEW new \in 1 .. m, DOMAIN b.state \subseteq 1 .. new, NEW T, NEW reqs \in Seq(T), NEW items
  PROVE  \E f \in [0 .. Len(reqs) -> Linkings(b, m, T)] : Links(f, g, reqs, new, items)
<1> DEFINE n == Len(reqs)
           U == [graph : Linked(b, m), open : SUBSET T]
           Link(r, req, p) == IF p = 0 THEN [r EXCEPT !.open = @ \union {req}]
                              ELSE [r EXCEPT !.graph = Connect(@, p, new)]
           Step(x, k) == Link(x, reqs[k], get_node_satisfy(reqs[k], x.graph, new, items))
           base == [graph |-> g, open |-> {}]
           f[k \in 0 .. n] == IF k = 0 THEN base ELSE Step(f[k - 1], k)
           G == [k \in 1 .. n |-> [x \in U |-> Step(x, k)]]
<1>1. Satisfied(g, reqs, new, items) = f[n]
  BY DEF Satisfied
<1>2. f = CHOOSE h : h = [k \in 0 .. n |-> IF k = 0 THEN base ELSE Step(h[k - 1], k)]
  BY DEF f
<1>3. n \in Nat /\ base \in U
  OBVIOUS
<1>4. ASSUME NEW k \in 1 .. n, NEW x \in U PROVE Step(x, k) \in U
  <2> DEFINE p == get_node_satisfy(reqs[k], x.graph, new, items)
  <2>1. reqs[k] \in T /\ x.graph \in Linked(b, m)
        /\ x = [graph |-> x.graph, open |-> x.open] /\ x.open \in SUBSET T
    OBVIOUS
  <2>2. x.graph.out \in Out(m) /\ x.graph.roots \in 0 .. m /\ x.graph.state = b.state
    BY <2>1 DEF Linked
  <2>3. p \in {0} \union (1 .. new \ {new})
    BY <2>2, SatisfyTyped
  <2> HIDE DEF p, U
  <2>4. p # 0 => Connect(x.graph, p, new) \in Linked(b, m)
    <3>1. p # 0 => p \in 1 .. new - 1
      BY <2>3
    <3> QED BY <2>1, <3>1, ConnectTyped
  <2>5. Step(x, k) = [graph |-> IF p = 0 THEN x.graph ELSE Connect(x.graph, p, new),
                      open |-> IF p = 0 THEN x.open \union {reqs[k]} ELSE x.open]
    BY <2>1 DEF p
  <2> HIDE DEF Step
  <2> QED BY <2>1, <2>4, <2>5 DEF U
<1>5. G \in [1 .. n -> [U -> U]]
  <2> HIDE DEF U, Step
  <2> QED BY <1>4
<1>6. \A x \in U : x.graph \in Linked(b, m)
  OBVIOUS
<1> HIDE DEF n, U, f, Step, base
<1>7. PICK h \in Solutions(n, U, base, G) : TRUE
  <2> HIDE DEF G
  <2> QED BY <1>3, <1>5, Recursion
<1>8. h = [k \in 0 .. n |-> IF k = 0 THEN base ELSE Step(h[k - 1], k)]
  <2>1. h \in [0 .. n -> U] /\ h[0] = base /\ \A k \in 1 .. n : h[k] = G[k][h[k - 1]]
    BY <1>7 DEF Solutions
  <2>2. \A k \in 1 .. n : h[k - 1] \in U
    BY <1>3, <2>1
  <2>3. \A k \in 1 .. n : h[k] = Step(h[k - 1], k)
    BY <2>1, <2>2
  <2>4. \A k \in 0 .. n : h[k] = IF k = 0 THEN base ELSE Step(h[k - 1], k)
    BY <1>3, <2>1, <2>3
  <2> QED BY <2>1, <2>4
<1>9. f = [k \in 0 .. n |-> IF k = 0 THEN base ELSE Step(f[k - 1], k)]
  BY <1>2, <1>8
<1> DEFINE P == {k \in 0 .. n : f[k] \in U}
<1>10. 0 \in P
  BY <1>3, <1>9
<1>11. ASSUME NEW k \in 1 .. n, k - 1 \in P PROVE k \in P
  <2>1. f[k] = Step(f[k - 1], k)
    <3>1. k \in 0 .. n /\ k # 0
      BY <1>3
    <3>2. f[k] = IF k = 0 THEN base ELSE Step(f[k - 1], k)
      BY <1>9, <3>1, Zenon
    <3> QED BY <3>1, <3>2, Zenon
  <2>2. f[k - 1] \in U
    BY <1>11
  <2>3. f[k] \in U
    BY <1>4, <2>1, <2>2
  <2> QED BY <1>3, <2>3
<1>12. 0 .. n \subseteq P
  <2> HIDE DEF P
  <2> QED BY <1>3, <1>10, <1>11, Climb
<1>13. f \in [0 .. n -> U]
  BY <1>9, <1>12
<1>14. f[0] = base /\ \A k \in 1 .. n : f[k] = Step(f[k - 1], k)
  <2>1. \A k \in 0 .. n : f[k] = IF k = 0 THEN base ELSE Step(f[k - 1], k)
    BY <1>9, Zenon
  <2>2. 0 \in 0 .. n /\ \A k \in 1 .. n : k \in 0 .. n /\ k # 0
    BY <1>3
  <2> QED BY <2>1, <2>2
<1>15. ASSUME NEW k \in 1 .. n
       PROVE  IsLinked(f[k], f[k - 1], reqs[k], get_node_satisfy(reqs[k], f[k - 1].graph, new, items), new)
  <2> DEFINE x == f[k - 1]
             p == get_node_satisfy(reqs[k], x.graph, new, items)
  <2>1. x \in U
    <3>1. k - 1 \in 0 .. n
      BY <1>3
    <3> QED BY <1>13, <3>1
  <2>2. f[k] = Step(x, k)
    BY <1>14
  <2> HIDE DEF x, f
  <2>3. Step(x, k) = [graph |-> IF p = 0 THEN x.graph ELSE Connect(x.graph, p, new),
                      open |-> IF p = 0 THEN x.open \union {reqs[k]} ELSE x.open]
    <3>1. x = [graph |-> x.graph, open |-> x.open]
      BY <2>1 DEF U
    <3>2. Step(x, k) = IF p = 0 THEN [x EXCEPT !.open = @ \union {reqs[k]}]
                       ELSE [x EXCEPT !.graph = Connect(@, p, new)]
      BY DEF Step
    <3> HIDE DEF p
    <3> QED BY <3>1, <3>2
  <2> HIDE DEF p
  <2>4. IsLinked(f[k], x, reqs[k], p, new)
    BY <2>2, <2>3 DEF IsLinked
  <2> QED BY <2>4 DEF x, p
<1>16. f[0].graph = g
  BY <1>14 DEF base
<1>17. Links(f, g, reqs, new, items)
  BY <1>1, <1>15, <1>16, Zenon DEF n, Links
<1>18. f \in [0 .. Len(reqs) -> Linkings(b, m, T)]
  BY <1>13, Zenon DEF n, U, Linkings
<1> QED BY <1>17, <1>18, Zenon

\* Some number of roots is the greatest that fits, so get_roots is one.
LEMMA RootsTyped ==
  ASSUME NEW T, NEW items \in Seq(T), NEW st
  PROVE  /\ get_roots(items, st) \in 0 .. Len(items)
         /\ \A i \in 1 .. get_roots(items, st) : is_action_executable(items[i], st)
<1> DEFINE n == Len(items)
           fit(k) == \A i \in 1 .. k : /\ is_action_executable(items[i], st)
                                       /\ \A j \in 1 .. i - 1 : is_parallelizable(items[i], items[j], st)
           K == {k \in 0 .. n : fit(k) /\ (k < n => ~fit(k + 1))}
<1>1. get_roots(items, st) = CHOOSE k \in 0 .. n : fit(k) /\ (k < n => ~fit(k + 1))
  BY DEF get_roots
<1>2. n \in Nat /\ fit(0)
  OBVIOUS
<1> HIDE DEF n, fit
<1>3. \E k \in 0 .. n : fit(k) /\ (k < n => ~fit(k + 1))
  <2> SUFFICES ASSUME \A k \in 0 .. n : fit(k) => k < n /\ fit(k + 1) PROVE FALSE
    BY <1>2
  <2> DEFINE P == {k \in 0 .. n : fit(k)}
  <2>1. 0 \in P
    BY <1>2
  <2>2. ASSUME NEW k \in 1 .. n, k - 1 \in P PROVE k \in P
    <3>1. k - 1 \in 0 .. n /\ fit(k - 1) /\ (k - 1) + 1 = k
      BY <1>2, <2>2
    <3>2. fit((k - 1) + 1)
      BY <3>1
    <3>3. fit(k)
      BY <3>1, <3>2
    <3> QED BY <1>2, <3>3
  <2> HIDE DEF P
  <2>3. 0 .. n \subseteq P
    BY <1>2, <2>1, <2>2, Climb
  <2> QED BY <1>2, <2>3 DEF P
<1> DEFINE r == get_roots(items, st)
<1>4. r \in 0 .. n /\ fit(r)
  BY <1>1, <1>3
<1> HIDE DEF r
<1>5. \A i \in 1 .. r : is_action_executable(items[i], st)
  BY <1>4, Zenon DEF fit
<1> QED BY <1>4, <1>5 DEF n, r

\* A graph with one more node.
Grows(b, a, n) == b[n + 1] = <<>> /\ \A i \in 1 .. n : b[i] = a[i]

LEMMA ArcsGrow ==
  ASSUME NEW n \in Nat
  PROVE  /\ \A a \in In(n) : Append(a, <<>>) \in In(n + 1) /\ Grows(Append(a, <<>>), a, n)
         /\ \A a \in Out(n) : Append(a, <<>>) \in Out(n + 1) /\ Grows(Append(a, <<>>), a, n)
<1>1. ASSUME NEW a \in [1 .. n -> Seq(1 .. n)]
      PROVE  /\ Append(a, <<>>) \in [1 .. n + 1 -> Seq(1 .. n + 1)]
             /\ \A i \in 1 .. n : Append(a, <<>>)[i] = a[i]
             /\ Append(a, <<>>)[n + 1] = <<>>
  <2>1. 1 .. n \subseteq 1 .. n + 1
    OBVIOUS
  <2>2. \A i \in 1 .. n : a[i] \in Seq(1 .. n + 1)
    BY <2>1, SeqWithin
  <2>3. a \in [1 .. n -> Seq(1 .. n + 1)]
    BY <2>2
  <2>4. a \in Seq(Seq(1 .. n + 1)) /\ Len(a) = n /\ <<>> \in Seq(1 .. n + 1)
    BY <2>3, SeqOf
  <2>5. /\ Append(a, <<>>) \in Seq(Seq(1 .. n + 1)) /\ Len(Append(a, <<>>)) = n + 1
        /\ \A i \in 1 .. n : Append(a, <<>>)[i] = a[i]
        /\ Append(a, <<>>)[n + 1] = <<>>
    BY <2>4, AppendTyped
  <2> DEFINE b == Append(a, <<>>)
  <2> HIDE DEF b
  <2>6. b \in Seq(Seq(1 .. n + 1)) /\ Len(b) = n + 1
    BY <2>5 DEF b
  <2>7. b \in [1 .. n + 1 -> Seq(1 .. n + 1)]
    BY <2>6
  <2> QED BY <2>5, <2>7 DEF b
<1>2. ASSUME NEW a \in In(n) PROVE Append(a, <<>>) \in In(n + 1) /\ Grows(Append(a, <<>>), a, n)
  <2>1. a \in [1 .. n -> Seq(1 .. n)] /\ \A i \in 1 .. n : a[i] \in Seq(1 .. i - 1)
    BY DEF In
  <2> DEFINE b == Append(a, <<>>)
  <2>2. b \in [1 .. n + 1 -> Seq(1 .. n + 1)] /\ b[n + 1] = <<>> /\ \A i \in 1 .. n : b[i] = a[i]
    BY <1>1, <2>1
  <2> HIDE DEF b
  <2>3. \A i \in 1 .. n + 1 : b[i] \in Seq(1 .. i - 1)
    <3>1. \A i \in 1 .. n + 1 : i = n + 1 \/ i \in 1 .. n
      OBVIOUS
    <3>2. b[n + 1] \in Seq(1 .. (n + 1) - 1)
      BY <2>2
    <3> QED BY <2>1, <2>2, <3>1, <3>2
  <2> QED BY <2>2, <2>3 DEF In, b, Grows
<1>3. ASSUME NEW a \in Out(n) PROVE Append(a, <<>>) \in Out(n + 1) /\ Grows(Append(a, <<>>), a, n)
  <2>1. a \in [1 .. n -> Seq(1 .. n)] /\ \A i \in 1 .. n : a[i] \in Seq(i + 1 .. n)
    BY DEF Out
  <2> DEFINE b == Append(a, <<>>)
  <2>2. b \in [1 .. n + 1 -> Seq(1 .. n + 1)] /\ b[n + 1] = <<>> /\ \A i \in 1 .. n : b[i] = a[i]
    BY <1>1, <2>1
  <2> HIDE DEF b
  <2>3. ASSUME NEW i \in 1 .. n PROVE b[i] \in Seq(i + 1 .. n + 1)
    <3>1. i + 1 .. n \subseteq i + 1 .. n + 1
      OBVIOUS
    <3> QED BY <2>1, <2>2, <3>1, SeqWithin
  <2>4. b[n + 1] \in Seq((n + 1) + 1 .. n + 1)
    BY <2>2
  <2>5. \A i \in 1 .. n + 1 : b[i] \in Seq(i + 1 .. n + 1)
    <3>1. \A i \in 1 .. n + 1 : i = n + 1 \/ i \in 1 .. n
      OBVIOUS
    <3> QED BY <2>3, <2>4, <3>1
  <2> QED BY <2>2, <2>5 DEF Out, b, Grows
<1> QED BY <1>2, <1>3

-----------------------------------------------------------------------------
(* What the operators on sequences keep, and in which order.               *)

\* The elements of the first k places.
Until(s, k) == {s[i] : i \in 1 .. k}

LEMMA UntilGrows ==
  ASSUME NEW T, NEW s \in Seq(T)
  PROVE  /\ Until(s, 0) = {} /\ Until(s, Len(s)) = Elements(s)
         /\ \A k \in 1 .. Len(s) : Until(s, k) = Until(s, k - 1) \union {s[k]}
<1>1. ASSUME NEW k \in 1 .. Len(s) PROVE Until(s, k) = Until(s, k - 1) \union {s[k]}
  <2>1. \A i : i \in 1 .. k <=> i \in 1 .. k - 1 \/ i = k
    OBVIOUS
  <2> QED BY <2>1 DEF Until
<1>2. 1 .. 0 = {} /\ DOMAIN s = 1 .. Len(s)
  OBVIOUS
<1> QED BY <1>1, <1>2 DEF Until, Elements

LEMMA ElementsAppend ==
  ASSUME NEW T, NEW s \in Seq(T), NEW t \in T
  PROVE  Elements(Append(s, t)) = Elements(s) \union {t}
<1> DEFINE a == Append(s, t)
<1>1. /\ a \in Seq(T) /\ Len(a) = Len(s) + 1
      /\ \A i \in 1 .. Len(s) : a[i] = s[i]
      /\ a[Len(s) + 1] = t
  BY AppendTyped
<1> HIDE DEF a
<1>2. DOMAIN a = 1 .. Len(s) + 1 /\ DOMAIN s = 1 .. Len(s) /\ Len(s) \in Nat
  BY <1>1, SeqParts
<1>3. \A i : i \in DOMAIN a <=> i \in DOMAIN s \/ i = Len(s) + 1
  BY <1>2
<1>4. Elements(a) = Elements(s) \union {t}
  BY <1>1, <1>2, <1>3 DEF Elements
<1> QED BY <1>4 DEF a

\* What \o does, one fact at a time.
LEMMA ConcatTyped ==
  ASSUME NEW T, NEW s \in Seq(T), NEW t \in Seq(T)
  PROVE  /\ s \o t \in Seq(T) /\ Len(s \o t) = Len(s) + Len(t)
         /\ \A i \in 1 .. Len(s) : (s \o t)[i] = s[i]
         /\ \A i \in 1 .. Len(t) : (s \o t)[Len(s) + i] = t[i]
OBVIOUS

\* A place of two sequences, one after the other, is one of either.
LEMMA ConcatPlaces ==
  ASSUME NEW T, NEW s \in Seq(T), NEW t \in Seq(T)
  PROVE  \A i : i \in DOMAIN (s \o t) <=>
                i \in DOMAIN s \/ \E j \in DOMAIN t : i = Len(s) + j
<1>1. /\ DOMAIN s = 1 .. Len(s) /\ DOMAIN t = 1 .. Len(t) /\ Len(s) \in Nat /\ Len(t) \in Nat
      /\ DOMAIN (s \o t) = 1 .. Len(s) + Len(t)
  OBVIOUS
<1>2. ASSUME NEW i \in Len(s) + 1 .. Len(s) + Len(t) PROVE \E j \in 1 .. Len(t) : i = Len(s) + j
  <2>1. i - Len(s) \in 1 .. Len(t) /\ i = Len(s) + (i - Len(s))
    BY <1>1
  <2> QED BY <2>1
<1>3. \A i : i \in 1 .. Len(s) + Len(t) <=> i \in 1 .. Len(s) \/ i \in Len(s) + 1 .. Len(s) + Len(t)
  BY <1>1
<1>4. \A j \in 1 .. Len(t) : Len(s) + j \in 1 .. Len(s) + Len(t)
  BY <1>1
<1> QED BY <1>1, <1>2, <1>3, <1>4

LEMMA ElementsConcat ==
  ASSUME NEW T, NEW s \in Seq(T), NEW t \in Seq(T)
  PROVE  Elements(s \o t) = Elements(s) \union Elements(t)
<1> DEFINE a == s \o t
<1>1. /\ \A i \in DOMAIN s : a[i] = s[i]
      /\ \A i \in DOMAIN t : a[Len(s) + i] = t[i]
  BY ConcatTyped, SeqParts
<1>2. \A i : i \in DOMAIN a <=> i \in DOMAIN s \/ \E j \in DOMAIN t : i = Len(s) + j
  BY ConcatPlaces
<1> HIDE DEF a
<1>3. Elements(a) = Elements(s) \union Elements(t)
  BY <1>1, <1>2 DEF Elements
<1> QED BY <1>3 DEF a

LEMMA EmptyElements == ASSUME NEW s, s = <<>> PROVE Elements(s) = {}
<1>1. DOMAIN s = {}
  OBVIOUS
<1> QED BY <1>1 DEF Elements

LEMMA LastAppended ==
  ASSUME NEW T, NEW s \in Seq(T), NEW t \in T
  PROVE  Append(s, t) # <<>> /\ LastOr0(Append(s, t)) = t
<1>a. Len(s) \in Nat /\ \A a : a = <<>> => Len(a) = 0
  OBVIOUS
<1>b. Len(Append(s, t)) = Len(s) + 1 /\ Append(s, t)[Len(s) + 1] = t
  BY AppendTyped
<1>1. Append(s, t) # <<>>
  BY <1>a, <1>b
<1>2. Append(s, t)[Len(Append(s, t))] = t
  BY <1>b
<1> QED BY <1>1, <1>2 DEF LastOr0

\* Only keeps the elements that are in the set.
LEMMA OnlyElements ==
  ASSUME NEW T, NEW s \in Seq(T), NEW S PROVE Elements(Only(s, S)) = Elements(s) \intersect S
<1> DEFINE n == Len(s)
           U == Seq(T \intersect S)
<1>a. PICK f \in [0 .. n -> U] : OnlySteps(f, s, S)
  BY OnlyDef
<1>1. /\ f[0] = <<>>
      /\ \A k \in 1 .. n : f[k] = IF s[k] \in S THEN Append(f[k - 1], s[k]) ELSE f[k - 1]
      /\ Only(s, S) = f[n]
  BY <1>a DEF OnlySteps
<1>2. n \in Nat /\ \A k \in 1 .. n : s[k] \in T /\ k - 1 \in 0 .. n
  OBVIOUS
<1> HIDE DEF n
<1> DEFINE P == {k \in 0 .. n : Elements(f[k]) = Until(s, k) \intersect S}
<1>3. 0 \in P
  <2>1. Elements(f[0]) = {}
    BY <1>1, EmptyElements
  <2> QED BY <1>2, <2>1, UntilGrows
<1>4. ASSUME NEW k \in 1 .. n, k - 1 \in P PROVE k \in P
  <2>1. Elements(f[k - 1]) = Until(s, k - 1) \intersect S /\ f[k - 1] \in U
    BY <1>2, <1>4, <1>1
  <2>2. Until(s, k) = Until(s, k - 1) \union {s[k]}
    BY UntilGrows DEF n
  <2>3. s[k] \in S => Elements(Append(f[k - 1], s[k])) = Elements(f[k - 1]) \union {s[k]}
    <3>1. s[k] \in S => s[k] \in T \intersect S
      BY <1>2
    <3> QED BY <2>1, <3>1, ElementsAppend
  <2> HIDE DEF U
  <2>4. Elements(f[k]) = Until(s, k) \intersect S
    BY <1>1, <2>1, <2>2, <2>3
  <2> QED BY <1>2, <2>4
<1>5. n \in P
  <2> HIDE DEF P
  <2>1. n \in Nat /\ n \in 0 .. n
    BY <1>2
  <2>2. 0 .. n \subseteq P
    BY <1>3, <1>4, <2>1, Climb
  <2> QED BY <2>1, <2>2
<1> QED BY <1>1, <1>5, UntilGrows DEF n

\* The last element that Only keeps is the last one that is in the set.
LEMMA OnlyLast ==
  ASSUME NEW T, NEW s \in Seq(T), NEW S, Only(s, S) # <<>>
  PROVE  \E x \in DOMAIN s : /\ LastOr0(Only(s, S)) = s[x] /\ s[x] \in S
                             /\ \A y \in DOMAIN s : y > x => s[y] \notin S
<1> DEFINE n == Len(s)
           U == Seq(T \intersect S)
<1>a. PICK f \in [0 .. n -> U] : OnlySteps(f, s, S)
  BY OnlyDef
<1>1. /\ f[0] = <<>>
      /\ \A k \in 1 .. n : f[k] = IF s[k] \in S THEN Append(f[k - 1], s[k]) ELSE f[k - 1]
      /\ Only(s, S) = f[n]
  BY <1>a DEF OnlySteps
<1>2. n \in Nat /\ DOMAIN s = 1 .. n /\ \A k \in 1 .. n : s[k] \in T /\ k - 1 \in 0 .. n
  OBVIOUS
<1> HIDE DEF n
<1> DEFINE Ends(k) == \E x \in 1 .. k : /\ LastOr0(f[k]) = s[x] /\ s[x] \in S
                                        /\ \A y \in x + 1 .. k : s[y] \notin S
           P == {k \in 0 .. n : f[k] # <<>> => Ends(k)}
<1>3. 0 \in P
  BY <1>1, <1>2
<1>4. ASSUME NEW k \in 1 .. n, k - 1 \in P PROVE k \in P
  <2>1. f[k - 1] \in U
    BY <1>1, <1>2
  <2>2. CASE s[k] \in S
    <3>1. f[k] = Append(f[k - 1], s[k])
      BY <1>1, <2>2
    <3>2. s[k] \in T \intersect S
      BY <1>2, <2>2
    <3>3. LastOr0(f[k]) = s[k]
      BY <2>1, <3>1, <3>2, LastAppended
    <3>4. k + 1 .. k = {}
      BY <1>2
    <3>5. Ends(k)
      <4>1. k \in 1 .. k
        OBVIOUS
      <4> QED BY <2>2, <3>3, <3>4, <4>1
    <3> QED BY <1>2, <3>5
  <2>3. CASE s[k] \notin S
    <3>1. f[k] = f[k - 1]
      BY <1>1, <2>3
    <3>2. ASSUME f[k] # <<>> PROVE Ends(k)
      <4>1. PICK x \in 1 .. k - 1 : /\ LastOr0(f[k - 1]) = s[x] /\ s[x] \in S
                                    /\ \A y \in x + 1 .. k - 1 : s[y] \notin S
        BY <1>4, <3>1, <3>2
      <4>2. \A y \in x + 1 .. k : y = k \/ y \in x + 1 .. k - 1
        BY <1>2
      <4>3. x \in 1 .. k
        BY <1>2
      <4> QED BY <2>3, <3>1, <4>1, <4>2, <4>3
    <3> HIDE DEF Ends
    <3> QED BY <1>2, <3>2
  <2> QED BY <2>2, <2>3
<1>5. n \in P
  <2> HIDE DEF P
  <2>1. n \in Nat /\ n \in 0 .. n
    BY <1>2
  <2>2. 0 .. n \subseteq P
    BY <1>3, <1>4, <2>1, Climb
  <2> QED BY <2>1, <2>2
<1>6. PICK x \in 1 .. n : /\ LastOr0(f[n]) = s[x] /\ s[x] \in S
                          /\ \A y \in x + 1 .. n : s[y] \notin S
  BY <1>1, <1>5
<1>7. \A y \in DOMAIN s : y > x => y \in x + 1 .. n
  BY <1>2
<1> QED BY <1>1, <1>2, <1>6, <1>7

\* Whatever comes before t according to R is there before each t.
Sorted(s, R) ==
  \A x \in DOMAIN s : \A w : <<w, s[x]>> \in R => \E y \in 1 .. x - 1 : s[y] = w

LEMMA SortedAppend ==
  ASSUME NEW T, NEW s \in Seq(T), NEW t \in T, NEW R, Sorted(s, R),
         \A w : <<w, t>> \in R => w \in Elements(s)
  PROVE  Sorted(Append(s, t), R)
<1> DEFINE a == Append(s, t)
<1>1. /\ a \in Seq(T) /\ Len(a) = Len(s) + 1
      /\ \A i \in 1 .. Len(s) : a[i] = s[i]
      /\ a[Len(s) + 1] = t
  BY AppendTyped
<1> HIDE DEF a
<1>2. DOMAIN a = 1 .. Len(s) + 1 /\ DOMAIN s = 1 .. Len(s) /\ Len(s) \in Nat
  BY <1>1, SeqParts
<1>3. ASSUME NEW x \in DOMAIN a, NEW w, <<w, a[x]>> \in R PROVE \E y \in 1 .. x - 1 : a[y] = w
  <2>1. CASE x \in 1 .. Len(s)
    <3>1. <<w, s[x]>> \in R
      BY <1>1, <1>3, <2>1
    <3>2. PICK y \in 1 .. x - 1 : s[y] = w
      BY <1>2, <2>1, <3>1 DEF Sorted
    <3>3. y \in 1 .. Len(s)
      BY <1>2, <2>1
    <3> QED BY <1>1, <3>2, <3>3
  <2>2. CASE x = Len(s) + 1
    <3>1. w \in Elements(s)
      BY <1>1, <1>3, <2>2
    <3>2. PICK y \in 1 .. Len(s) : s[y] = w
      BY <1>2, <3>1 DEF Elements
    <3>3. y \in 1 .. x - 1
      BY <1>2, <2>2
    <3> QED BY <1>1, <3>2, <3>3
  <2> QED BY <1>2, <2>1, <2>2
<1>4. Sorted(a, R)
  BY <1>3 DEF Sorted
<1> QED BY <1>4 DEF a

LEMMA SortedConcat ==
  ASSUME NEW T, NEW s \in Seq(T), NEW t \in Seq(T), NEW R, Sorted(s, R), Sorted(t, R)
  PROVE  Sorted(s \o t, R)
<1> DEFINE a == s \o t
<1>1. /\ \A i \in DOMAIN s : a[i] = s[i]
      /\ \A i \in DOMAIN t : a[Len(s) + i] = t[i]
  BY ConcatTyped, SeqParts
<1>2. \A i \in DOMAIN a : i \in DOMAIN s \/ \E j \in DOMAIN t : i = Len(s) + j
  BY ConcatPlaces
<1>3. DOMAIN s = 1 .. Len(s) /\ DOMAIN t = 1 .. Len(t) /\ Len(s) \in Nat /\ Len(t) \in Nat
  BY SeqParts
<1> HIDE DEF a
<1>4. ASSUME NEW x \in DOMAIN a, NEW w, <<w, a[x]>> \in R PROVE \E y \in 1 .. x - 1 : a[y] = w
  <2>1. CASE x \in DOMAIN s
    <3>1. PICK y \in 1 .. x - 1 : s[y] = w
      BY <1>1, <1>4, <2>1 DEF Sorted
    <3>2. y \in DOMAIN s
      BY <1>3, <2>1
    <3> QED BY <1>1, <3>1, <3>2
  <2>2. CASE \E j \in DOMAIN t : x = Len(s) + j
    <3>1. PICK j \in DOMAIN t : x = Len(s) + j
      BY <2>2
    <3>2. <<w, t[j]>> \in R
      BY <1>1, <1>4, <3>1
    <3>3. PICK y \in 1 .. j - 1 : t[y] = w
      BY <3>2 DEF Sorted
    <3>4. y \in DOMAIN t /\ Len(s) + y \in 1 .. x - 1
      BY <1>3, <3>1
    <3>5. a[Len(s) + y] = w
      BY <1>1, <3>3, <3>4
    <3> QED BY <3>4, <3>5
  <2> QED BY <1>2, <2>1, <2>2
<1>5. Sorted(a, R)
  BY <1>4 DEF Sorted
<1> QED BY <1>5 DEF a

LEMMA SortedEmpty == ASSUME NEW s, s = <<>>, NEW R PROVE Sorted(s, R)
<1>1. DOMAIN s = {}
  OBVIOUS
<1> QED BY <1>1 DEF Sorted

\* FirstOf keeps all elements, in an order in which nothing comes too early.
LEMMA FirstOfSorted ==
  ASSUME NEW T, NEW s \in Seq(T), NEW R, Sorted(s, R)
  PROVE  Elements(FirstOf(s)) = Elements(s) /\ Sorted(FirstOf(s), R)
<1> DEFINE n == Len(s)
           U == {x \in Seq(T) : IsInjective(x)}
<1>a. PICK f \in [0 .. n -> U] : FirstOfSteps(f, s)
  BY FirstOfDef
<1>1. /\ f[0] = <<>>
      /\ \A k \in 1 .. n :
           f[k] = IF s[k] \in Elements(f[k - 1]) THEN f[k - 1] ELSE Append(f[k - 1], s[k])
      /\ FirstOf(s) = f[n]
  BY <1>a DEF FirstOfSteps
<1>2. n \in Nat /\ DOMAIN s = 1 .. n /\ \A k \in 1 .. n : s[k] \in T /\ k - 1 \in 0 .. n
  OBVIOUS
<1>3. \A k \in 0 .. n : f[k] \in Seq(T)
  OBVIOUS
<1> HIDE DEF n, U
<1> DEFINE P == {k \in 0 .. n : Elements(f[k]) = Until(s, k) /\ Sorted(f[k], R)}
<1>4. 0 \in P
  <2>1. Elements(f[0]) = {} /\ Sorted(f[0], R)
    BY <1>1, EmptyElements, SortedEmpty
  <2> QED BY <1>2, <2>1, UntilGrows
<1>5. ASSUME NEW k \in 1 .. n, k - 1 \in P PROVE k \in P
  <2>1. Elements(f[k - 1]) = Until(s, k - 1) /\ Sorted(f[k - 1], R) /\ f[k - 1] \in Seq(T)
    BY <1>2, <1>3, <1>5
  <2>2. Until(s, k) = Until(s, k - 1) \union {s[k]}
    BY UntilGrows DEF n
  <2>3. CASE s[k] \in Elements(f[k - 1])
    <3>1. f[k] = f[k - 1]
      BY <1>1, <2>3
    <3> QED BY <1>2, <2>1, <2>2, <2>3, <3>1
  <2>4. CASE s[k] \notin Elements(f[k - 1])
    <3>1. f[k] = Append(f[k - 1], s[k])
      BY <1>1, <2>4
    <3>2. Elements(f[k]) = Elements(f[k - 1]) \union {s[k]}
      BY <1>2, <2>1, <3>1, ElementsAppend
    <3>3. ASSUME NEW w, <<w, s[k]>> \in R PROVE w \in Elements(f[k - 1])
      <4>1. \E y \in 1 .. k - 1 : s[y] = w
        BY <1>2, <3>3 DEF Sorted
      <4> QED BY <2>1, <4>1 DEF Until
    <3>4. Sorted(f[k], R)
      BY <1>2, <2>1, <3>1, <3>3, SortedAppend
    <3> QED BY <1>2, <2>1, <2>2, <3>2, <3>4
  <2> QED BY <2>3, <2>4
<1>6. n \in P
  <2> HIDE DEF P
  <2>1. n \in Nat /\ n \in 0 .. n
    BY <1>2
  <2>2. 0 .. n \subseteq P
    BY <1>4, <1>5, <2>1, Climb
  <2> QED BY <2>1, <2>2
<1>7. Elements(f[n]) = Until(s, n) /\ Sorted(f[n], R)
  BY <1>6
<1> QED BY <1>1, <1>7, UntilGrows DEF n

\* What holds of sequences that are joined, and of every two of which it holds one after
\* the other, holds of all of them together.
LEMMA JoinedWithin ==
  ASSUME NEW T, NEW U, U \subseteq Seq(T), <<>> \in U, \A x, y \in U : x \o y \in U,
         NEW s \in Seq(U)
  PROVE  Joined(s) \in U
<1> DEFINE n == Len(s)
<1>a. n \in Nat /\ DOMAIN s = 1 .. n /\ \A k \in 1 .. n : s[k] \in U
  BY SeqParts
<1>b. s \in Seq(Seq(T))
  BY SeqWithin
<1>c. PICK f \in [0 .. n -> Seq(T)] : JoinedSteps(f, s)
  BY <1>b, JoinedDef
<1>1. f[0] = <<>> /\ (\A k \in 1 .. n : f[k] = f[k - 1] \o s[k]) /\ Joined(s) = f[n]
  BY <1>c DEF JoinedSteps
<1> HIDE DEF n
<1> DEFINE P == {k \in 0 .. n : f[k] \in U}
<1>2. 0 \in P
  BY <1>1, <1>a
<1>3. ASSUME NEW k \in 1 .. n, k - 1 \in P PROVE k \in P
  <2>1. f[k] = f[k - 1] \o s[k] /\ s[k] \in U /\ f[k - 1] \in U
    BY <1>1, <1>a, <1>3
  <2>2. f[k] \in U
    BY <2>1
  <2> QED BY <1>a, <2>2
<1>4. n \in P
  <2> HIDE DEF P
  <2>1. n \in Nat /\ n \in 0 .. n
    BY <1>a
  <2>2. 0 .. n \subseteq P
    BY <1>2, <1>3, <2>1, Climb
  <2> QED BY <2>1, <2>2
<1> QED BY <1>1, <1>4

LEMMA JoinedElements ==
  ASSUME NEW T, NEW s \in Seq(Seq(T))
  PROVE  Elements(Joined(s)) = UNION {Elements(s[k]) : k \in DOMAIN s}
<1> DEFINE n == Len(s)
           All(m) == UNION {Elements(s[k]) : k \in 1 .. m}
<1>a. n \in Nat /\ DOMAIN s = 1 .. n /\ \A k \in 1 .. n : s[k] \in Seq(T)
  BY SeqParts
<1>c. PICK f \in [0 .. n -> Seq(T)] : JoinedSteps(f, s)
  BY JoinedDef
<1>1. f[0] = <<>> /\ (\A k \in 1 .. n : f[k] = f[k - 1] \o s[k]) /\ Joined(s) = f[n]
  BY <1>c DEF JoinedSteps
<1> HIDE DEF n
<1> DEFINE P == {k \in 0 .. n : Elements(f[k]) = All(k)}
<1>2. 0 \in P
  <2>1. Elements(f[0]) = {}
    BY <1>1, EmptyElements
  <2>2. All(0) = {}
    OBVIOUS
  <2> QED BY <1>a, <2>1, <2>2
<1>3. ASSUME NEW k \in 1 .. n, k - 1 \in P PROVE k \in P
  <2>1. f[k] = f[k - 1] \o s[k] /\ s[k] \in Seq(T) /\ Elements(f[k - 1]) = All(k - 1)
    BY <1>1, <1>a, <1>3
  <2>2. f[k - 1] \in Seq(T)
    BY <1>a
  <2>3. Elements(f[k]) = All(k - 1) \union Elements(s[k])
    BY <2>1, <2>2, ElementsConcat
  <2>4. \A i : i \in 1 .. k <=> i \in 1 .. k - 1 \/ i = k
    OBVIOUS
  <2>5. All(k) = All(k - 1) \union Elements(s[k])
    BY <2>4
  <2> HIDE DEF All
  <2>6. k \in 0 .. n /\ Elements(f[k]) = All(k)
    BY <1>a, <2>3, <2>5
  <2> QED BY <2>6
<1>4. n \in P
  <2> HIDE DEF P
  <2>1. n \in Nat /\ n \in 0 .. n
    BY <1>a
  <2>2. 0 .. n \subseteq P
    BY <1>2, <1>3, <2>1, Climb
  <2> QED BY <2>1, <2>2
<1>5. Elements(f[n]) = All(n)
  BY <1>4
<1> QED BY <1>1, <1>5, <1>a

-----------------------------------------------------------------------------
(* What is above a node.                                                   *)

\* Induction from the bottom, from all that is below.
LEMMA Ascend ==
  ASSUME NEW n \in Nat, NEW P, \A i \in 1 .. n : (\A j \in 1 .. i - 1 : j \in P) => i \in P
  PROVE  1 .. n \subseteq P
<1> DEFINE Q == {m \in 0 .. n : \A j \in 1 .. m : j \in P}
<1>1. 0 \in Q
  OBVIOUS
<1>2. ASSUME NEW k \in 1 .. n, k - 1 \in Q PROVE k \in Q
  <2>1. \A j \in 1 .. k - 1 : j \in P
    BY <1>2
  <2>2. k \in P
    BY <2>1
  <2>3. \A j \in 1 .. k : j = k \/ j \in 1 .. k - 1
    OBVIOUS
  <2> QED BY <2>1, <2>2, <2>3
<1> HIDE DEF Q
<1>3. n \in Q
  BY <1>1, <1>2, Climb
<1> QED BY <1>3 DEF Q

\* A recursion that goes back to smaller numbers has a solution.
GoesBack(G, n, U) ==
  /\ U # {} /\ G \in [1 .. n -> [[1 .. n -> U] -> U]]
  /\ \A i \in 1 .. n : \A w, v \in [1 .. n -> U] :
       (\A j \in 1 .. i - 1 : w[j] = v[j]) => G[i][w] = G[i][v]

LEMMA Recourse ==
  ASSUME NEW n \in Nat, NEW U, NEW G, GoesBack(G, n, U)
  PROVE  \E w \in [1 .. n -> U] : \A i \in 1 .. n : w[i] = G[i][w]
<1> DEFINE Q == {m \in 0 .. n : \E w \in [1 .. n -> U] : \A i \in 1 .. m : w[i] = G[i][w]}
<1>0. U # {} /\ G \in [1 .. n -> [[1 .. n -> U] -> U]]
  BY DEF GoesBack
<1>1. 0 \in Q
  <2>1. PICK u \in U : TRUE
    BY <1>0
  <2>2. [i \in 1 .. n |-> u] \in [1 .. n -> U] /\ 1 .. 0 = {} /\ 0 \in 0 .. n
    OBVIOUS
  <2>3. \E w \in [1 .. n -> U] : \A i \in 1 .. 0 : w[i] = G[i][w]
    BY <2>2
  <2> QED BY <2>2, <2>3, Zenon
<1>2. ASSUME NEW m \in 1 .. n, m - 1 \in Q PROVE m \in Q
  <2>1. PICK w \in [1 .. n -> U] : \A i \in 1 .. m - 1 : w[i] = G[i][w]
    BY <1>2
  <2> DEFINE u == G[m][w]
             v == [w EXCEPT ![m] = u]
  <2>2. u \in U
    BY <1>0
  <2> HIDE DEF u
  <2>3. v \in [1 .. n -> U] /\ v[m] = u /\ \A i \in 1 .. m - 1 : v[i] = w[i]
    BY <2>2
  <2> HIDE DEF v
  <2>4. ASSUME NEW i \in 1 .. m PROVE v[i] = G[i][v]
    <3>1. i \in 1 .. n /\ \A j \in 1 .. i - 1 : j \in 1 .. m - 1
      OBVIOUS
    <3>2. G[i][v] = G[i][w]
      BY <2>3, <3>1 DEF GoesBack
    <3>3. i = m \/ i \in 1 .. m - 1
      OBVIOUS
    <3> QED BY <2>1, <2>3, <3>2, <3>3 DEF u
  <2>5. \E x \in [1 .. n -> U] : \A i \in 1 .. m : x[i] = G[i][x]
    BY <2>3, <2>4, Zenon
  <2>6. m \in 0 .. n
    OBVIOUS
  <2> QED BY <2>5, <2>6, Zenon
<1>3. n \in Q
  <2> HIDE DEF Q
  <2>1. n \in 0 .. n
    OBVIOUS
  <2>2. 0 .. n \subseteq Q
    BY <1>1, <1>2, Climb
  <2> QED BY <2>1, <2>2
<1> QED BY <1>3, Zenon

\* What the walk up from a node comes to, given the walks from those it comes after.
Paths(in, w) == [k \in DOMAIN in |-> Append(w[in[k]], in[k])]

LEMMA PathsTyped ==
  ASSUME NEW n \in Nat, NEW i \in 1 .. n, NEW in \in Seq(1 .. i - 1), NEW w,
         \A j \in 1 .. i - 1 : w[j] \in Seq(1 .. i - 1)
  PROVE  /\ Paths(in, w) \in Seq(Seq(1 .. i - 1))
         /\ DOMAIN Paths(in, w) = DOMAIN in
         /\ \A k \in DOMAIN in : Paths(in, w)[k] = Append(w[in[k]], in[k])
<1> DEFINE p(k) == Append(w[in[k]], in[k])
           S == Seq(1 .. i - 1)
<1>1. DOMAIN in = 1 .. Len(in) /\ Len(in) \in Nat /\ \A k \in DOMAIN in : in[k] \in 1 .. i - 1
  BY SeqParts
<1>2. \A k \in DOMAIN in : p(k) \in S
  BY <1>1, AppendTyped
<1>3. Paths(in, w) = [k \in DOMAIN in |-> p(k)]
  BY DEF Paths
<1> HIDE DEF p, S
<1>4. Paths(in, w) \in [1 .. Len(in) -> S]
  BY <1>1, <1>2, <1>3
<1>5. DOMAIN Paths(in, w) = DOMAIN in /\ \A k \in DOMAIN in : Paths(in, w)[k] = p(k)
  BY <1>3
<1>6. Paths(in, w) \in Seq(S)
  BY <1>1, <1>4, SeqOf
<1> QED BY <1>5, <1>6 DEF p, S

\* The walks on which Above(g) rests.
AboveSteps(w, g, n) ==
  /\ \A i \in 1 .. n : w[i] \in Seq(1 .. i - 1) /\ w[i] = Joined(Paths(g.in[i], w))
  /\ \A i \in 1 .. n : Above(g)[i] = FirstOf(w[i])

LEMMA AboveDef ==
  ASSUME NEW n \in Nat, NEW g, g.in \in In(n) PROVE \E w : AboveSteps(w, g, n)
<1> DEFINE U == Seq(1 .. n)
           Step(w, i) == Joined([k \in DOMAIN g.in[i] |-> Append(w[g.in[i][k]], g.in[i][k])])
           walk[i \in 1 .. n] == Step(walk, i)
           low(w) == [j \in 1 .. n |-> IF w[j] \in Seq(1 .. j - 1) THEN w[j] ELSE <<>>]
           G == [i \in 1 .. n |-> [w \in [1 .. n -> U] |-> Step(low(w), i)]]
<1>1. Len(g.in) = n /\ \A i \in 1 .. n : g.in[i] \in Seq(1 .. i - 1)
  BY SeqOf DEF In
<1>2. Above(g) = [i \in 1 .. n |-> FirstOf(walk[i])]
  BY <1>1 DEF Above
<1>3. walk = CHOOSE w : w = [i \in 1 .. n |-> Step(w, i)]
  BY DEF walk
<1> HIDE DEF walk
<1>4. \A w, i : Step(w, i) = Joined(Paths(g.in[i], w))
  BY DEF Paths
<1> HIDE DEF Step
<1>5. ASSUME NEW i \in 1 .. n, NEW w, \A j \in 1 .. i - 1 : w[j] \in Seq(1 .. j - 1)
      PROVE  Step(w, i) \in Seq(1 .. i - 1)
  <2>1. ASSUME NEW j \in 1 .. i - 1 PROVE w[j] \in Seq(1 .. i - 1)
    <3>1. 1 .. j - 1 \subseteq 1 .. i - 1
      OBVIOUS
    <3> QED BY <1>5, <3>1, SeqWithin
  <2>2. Paths(g.in[i], w) \in Seq(Seq(1 .. i - 1))
    BY <1>1, <2>1, PathsTyped
  <2> QED BY <1>4, <2>2, JoinedTyped
<1>6. ASSUME NEW i \in 1 .. n, NEW w, NEW v, \A j \in 1 .. i - 1 : w[j] = v[j]
      PROVE  Step(w, i) = Step(v, i)
  <2>1. \A k \in DOMAIN g.in[i] : g.in[i][k] \in 1 .. i - 1
    BY <1>1, SeqParts
  <2>2. \A k \in DOMAIN g.in[i] : w[g.in[i][k]] = v[g.in[i][k]]
    BY <1>6, <2>1
  <2>3. Paths(g.in[i], w) = Paths(g.in[i], v)
    BY <2>2 DEF Paths
  <2> QED BY <1>4, <2>3
<1>7. ASSUME NEW w \in [1 .. n -> U]
      PROVE  \A j \in 1 .. n : /\ low(w)[j] \in Seq(1 .. j - 1)
                               /\ w[j] \in Seq(1 .. j - 1) => low(w)[j] = w[j]
  <2>1. \A j \in 1 .. n : low(w)[j] = IF w[j] \in Seq(1 .. j - 1) THEN w[j] ELSE <<>>
    BY Zenon
  <2>2. \A j \in 1 .. n : <<>> \in Seq(1 .. j - 1)
    OBVIOUS
  <2> HIDE DEF low
  <2> QED BY <2>1, <2>2
<1>8. ASSUME NEW i \in 1 .. n PROVE Seq(1 .. i - 1) \subseteq U
  <2>1. 1 .. i - 1 \subseteq 1 .. n
    OBVIOUS
  <2> QED BY <2>1, SeqWithin
<1>9. \A i \in 1 .. n, w \in [1 .. n -> U] : Step(low(w), i) \in Seq(1 .. i - 1)
  <2> HIDE DEF low, U
  <2>1. ASSUME NEW i \in 1 .. n, NEW w \in [1 .. n -> U] PROVE Step(low(w), i) \in Seq(1 .. i - 1)
    <3>1. \A j \in 1 .. i - 1 : j \in 1 .. n
      OBVIOUS
    <3> QED BY <1>5, <1>7, <3>1
  <2> QED BY <2>1
<1>10. ASSUME NEW i \in 1 .. n, NEW w \in [1 .. n -> U], NEW v \in [1 .. n -> U],
              \A j \in 1 .. i - 1 : w[j] = v[j]
       PROVE  Step(low(w), i) = Step(low(v), i)
  <2>1. \A j \in 1 .. i - 1 : j \in 1 .. n
    OBVIOUS
  <2>2. \A j \in 1 .. i - 1 : low(w)[j] = low(v)[j]
    BY <1>10, <2>1
  <2> HIDE DEF low
  <2> QED BY <1>6, <2>2
<1>11. \E w \in [1 .. n -> U] : \A i \in 1 .. n : w[i] = Step(low(w), i)
  <2>1. \A i \in 1 .. n, w \in [1 .. n -> U] : Step(low(w), i) \in U
    BY <1>8, <1>9
  <2>2. U # {}
    <3>1. <<>> \in U
      OBVIOUS
    <3> QED BY <3>1
  <2> HIDE DEF U, low
  <2>3. G \in [1 .. n -> [[1 .. n -> U] -> U]]
    BY <2>1
  <2>4. \A i \in 1 .. n, w \in [1 .. n -> U] : G[i][w] = Step(low(w), i)
    OBVIOUS
  <2> HIDE DEF G
  <2>5. GoesBack(G, n, U)
    <3>1. ASSUME NEW i \in 1 .. n, NEW w \in [1 .. n -> U], NEW v \in [1 .. n -> U],
                 \A j \in 1 .. i - 1 : w[j] = v[j]
          PROVE  G[i][w] = G[i][v]
      BY <1>10, <2>4, <3>1
    <3> QED BY <2>2, <2>3, <3>1 DEF GoesBack
  <2>6. \E w \in [1 .. n -> U] : \A i \in 1 .. n : w[i] = G[i][w]
    BY <2>5, Recourse
  <2> QED BY <2>4, <2>6
<1>12. PICK w \in [1 .. n -> U] : \A i \in 1 .. n : w[i] = Step(low(w), i)
  BY <1>11
<1>13. \A i \in 1 .. n : w[i] \in Seq(1 .. i - 1)
  BY <1>9, <1>12
<1>14. \A i \in 1 .. n : w[i] = Step(w, i)
  <2>1. ASSUME NEW i \in 1 .. n PROVE w[i] = Step(w, i)
    <3>1. \A j \in 1 .. i - 1 : j \in 1 .. n
      OBVIOUS
    <3>2. \A j \in 1 .. i - 1 : low(w)[j] = w[j]
      BY <1>7, <1>13, <3>1
    <3> HIDE DEF low
    <3>3. Step(low(w), i) = Step(w, i)
      BY <1>6, <3>2
    <3> QED BY <1>12, <3>3
  <2> QED BY <2>1
<1>15. w = [i \in 1 .. n |-> Step(w, i)]
  BY <1>14
<1>16. walk = [i \in 1 .. n |-> Step(walk, i)]
  BY <1>3, <1>15
<1>17. \A i \in 1 .. n : walk[i] = Step(walk, i)
  BY <1>16, Zenon
<1> DEFINE P == {i \in 1 .. n : walk[i] \in Seq(1 .. i - 1)}
<1>18. 1 .. n \subseteq P
  <2>1. ASSUME NEW i \in 1 .. n, \A j \in 1 .. i - 1 : j \in P PROVE i \in P
    <3>1. Step(walk, i) \in Seq(1 .. i - 1)
      BY <1>5, <2>1
    <3> QED BY <1>17, <3>1
  <2> HIDE DEF P
  <2> QED BY <2>1, Ascend
<1>19. \A i \in 1 .. n : Above(g)[i] = FirstOf(walk[i])
  BY <1>2, Zenon
<1>20. AboveSteps(walk, g, n)
  BY <1>4, <1>17, <1>18, <1>19 DEF AboveSteps
<1> QED BY <1>20

\* The nodes above a node.
Up(g, i) == Elements(Above(g)[i])

LEMMA WithinElements ==
  ASSUME NEW T, NEW s \in Seq(T) PROVE Elements(s) \subseteq T
BY SeqParts DEF Elements

\* What the walks up consist of.
PassesBy(w, g, i) ==
  /\ w[i] \in Seq(1 .. i - 1) /\ g.in[i] \in Seq(1 .. i - 1)
  /\ Paths(g.in[i], w) \in Seq(Seq(1 .. i - 1))
  /\ \A j \in Elements(g.in[i]) : j \in 1 .. i - 1 /\ w[j] \in Seq(1 .. i - 1)
  /\ \A x : x \in Elements(w[i]) <=> \E j \in Elements(g.in[i]) : x \in Elements(w[j]) \/ x = j

LEMMA StepsElements ==
  ASSUME NEW n \in Nat, NEW g, g.in \in In(n), NEW w, AboveSteps(w, g, n), NEW i \in 1 .. n
  PROVE  PassesBy(w, g, i)
<1> DEFINE in == g.in[i]
           S == 1 .. i - 1
           ps == Paths(in, w)
<1>1. in \in Seq(S) /\ w[i] \in Seq(S) /\ w[i] = Joined(ps)
  BY DEF In, AboveSteps
<1>2. ASSUME NEW j \in S PROVE w[j] \in Seq(S)
  <2>1. j \in 1 .. n /\ 1 .. j - 1 \subseteq S
    OBVIOUS
  <2>2. w[j] \in Seq(1 .. j - 1)
    BY <2>1, Zenon DEF AboveSteps
  <2> QED BY <2>1, <2>2, SeqWithin
<1>3. /\ ps \in Seq(Seq(S)) /\ DOMAIN ps = DOMAIN in
      /\ \A k \in DOMAIN in : ps[k] = Append(w[in[k]], in[k])
  BY <1>1, <1>2, PathsTyped
<1>4. \A k \in DOMAIN in : in[k] \in S
  BY <1>1, SeqParts
<1> HIDE DEF in, S, ps
<1>5. ASSUME NEW k \in DOMAIN in PROVE Elements(ps[k]) = Elements(w[in[k]]) \union {in[k]}
  <2>1. w[in[k]] \in Seq(S) /\ in[k] \in S /\ ps[k] = Append(w[in[k]], in[k])
    BY <1>2, <1>3, <1>4
  <2> QED BY <2>1, ElementsAppend
<1>6. Elements(w[i]) = UNION {Elements(ps[k]) : k \in DOMAIN in}
  BY <1>1, <1>3, JoinedElements
<1>7. \A x : x \in Elements(w[i]) <=> \E j \in Elements(in) : x \in Elements(w[j]) \/ x = j
  <2>1. \A x : x \in Elements(w[i]) <=> \E k \in DOMAIN in : x \in Elements(ps[k])
    BY <1>6
  <2>2. \A j : j \in Elements(in) <=> \E k \in DOMAIN in : j = in[k]
    BY DEF Elements
  <2> QED BY <1>5, <2>1, <2>2
<1>8. \A j \in Elements(in) : j \in S /\ w[j] \in Seq(S)
  BY <1>2, <1>4 DEF Elements
<1> QED BY <1>1, <1>3, <1>7, <1>8 DEF in, S, ps, PassesBy

\* Each node that is above another.
Over(g, n) == {e \in (1 .. n) \X (1 .. n) : e[1] \in Up(g, e[2])}

\* Above lists, once each and in an order in which nothing comes too early, what a node
\* comes after and what is above that.
Reaches(g, n, i) ==
  /\ Above(g)[i] \in Seq(1 .. i - 1) /\ IsInjective(Above(g)[i])
  /\ Sorted(Above(g)[i], Over(g, n))
  /\ Up(g, i) \subseteq 1 .. i - 1 /\ Elements(g.in[i]) \subseteq 1 .. i - 1
  /\ \A x : x \in Up(g, i) <=> \E j \in Elements(g.in[i]) : x \in Up(g, j) \/ x = j

LEMMA AboveIs ==
  ASSUME NEW n \in Nat, NEW g, g.in \in In(n), NEW i \in 1 .. n PROVE Reaches(g, n, i)
<1>1. PICK w : AboveSteps(w, g, n)
  BY AboveDef
<1> DEFINE R == Over(g, n)
<1>2. ASSUME NEW j \in 1 .. n PROVE Up(g, j) = Elements(w[j]) /\ Up(g, j) \subseteq 1 .. j - 1
  <2> DEFINE S == 1 .. j - 1
             none == {}
  <2>1. w[j] \in Seq(S)
    BY <1>1 DEF AboveSteps
  <2> HIDE DEF S, none
  <2>2. Sorted(w[j], none)
    BY DEF Sorted, none
  <2>3. Elements(FirstOf(w[j])) = Elements(w[j])
    BY <2>1, <2>2, FirstOfSorted
  <2>4. Above(g)[j] = FirstOf(w[j])
    BY <1>1 DEF AboveSteps
  <2>5. Up(g, j) = Elements(w[j])
    BY <2>3, <2>4 DEF Up
  <2>6. Elements(w[j]) \subseteq S
    BY <2>1, WithinElements
  <2> QED BY <2>5, <2>6 DEF S
<1> HIDE DEF R
<1> DEFINE P == {j \in 1 .. n : Sorted(w[j], R)}
<1>3. ASSUME NEW j \in 1 .. n, \A l \in 1 .. j - 1 : l \in P PROVE j \in P
  <2> DEFINE S == 1 .. j - 1
             U == {s \in Seq(S) : Sorted(s, R)}
             in == g.in[j]
             ps == Paths(in, w)
  <2>1. /\ in \in Seq(S) /\ ps \in Seq(Seq(S)) /\ w[j] = Joined(ps)
        /\ \A l \in S : w[l] \in Seq(S)
    <3>1. ASSUME NEW l \in S PROVE w[l] \in Seq(S)
      <4>1. l \in 1 .. n /\ 1 .. l - 1 \subseteq S
        OBVIOUS
      <4>2. w[l] \in Seq(1 .. l - 1)
        BY <1>1, <4>1 DEF AboveSteps
      <4> QED BY <4>1, <4>2, SeqWithin
    <3> QED BY <1>1, <3>1, StepsElements DEF AboveSteps, PassesBy
  <2>2. /\ DOMAIN ps = DOMAIN in
        /\ \A k \in DOMAIN in : ps[k] = Append(w[in[k]], in[k])
    BY <2>1, PathsTyped
  <2>3. \A k \in DOMAIN in : in[k] \in S /\ in[k] \in 1 .. n
    <3>1. S \subseteq 1 .. n
      OBVIOUS
    <3> QED BY <2>1, <3>1, SeqParts
  <2>4. \A l \in S : Sorted(w[l], R)
    BY <1>3
  <2>5. \A l \in S : \A x : <<x, l>> \in R => x \in Elements(w[l])
    <3>1. \A l \in S : l \in 1 .. n
      OBVIOUS
    <3> QED BY <1>2, <3>1 DEF R, Over
  <2> HIDE DEF S, in, ps
  <2>6. \A k \in DOMAIN ps : ps[k] \in U
    <3>1. ASSUME NEW k \in DOMAIN in PROVE ps[k] \in U
      <4>1. in[k] \in S /\ w[in[k]] \in Seq(S) /\ Sorted(w[in[k]], R)
        BY <2>1, <2>3, <2>4
      <4>2. ps[k] = Append(w[in[k]], in[k])
        BY <2>2
      <4>3. Sorted(ps[k], R)
        BY <2>5, <4>1, <4>2, SortedAppend
      <4>4. ps[k] \in Seq(S)
        BY <4>1, <4>2, AppendTyped
      <4> QED BY <4>3, <4>4
    <3> QED BY <2>2, <3>1
  <2>7. ps \in Seq(U)
    <3>1. DOMAIN ps = 1 .. Len(ps) /\ Len(ps) \in Nat
      BY <2>1, SeqParts
    <3> HIDE DEF U
    <3>2. ps \in [1 .. Len(ps) -> U]
      <4>1. ps = [k \in 1 .. Len(ps) |-> ps[k]]
        BY <2>1, <3>1
      <4> QED BY <2>6, <3>1, <4>1
    <3> QED BY <3>1, <3>2, SeqOf
  <2>8. <<>> \in U
    <3>1. <<>> \in Seq(S)
      OBVIOUS
    <3> QED BY <3>1, SortedEmpty
  <2>9. \A x, y \in U : x \o y \in U
    <3>1. \A x, y \in Seq(S) : x \o y \in Seq(S)
      OBVIOUS
    <3>2. ASSUME NEW x \in U, NEW y \in U PROVE x \o y \in U
      <4>1. Sorted(x \o y, R)
        BY SortedConcat
      <4> QED BY <3>1, <4>1
    <3> QED BY <3>2
  <2>10. U \subseteq Seq(S)
    OBVIOUS
  <2>11. Joined(ps) \in U
    <3> HIDE DEF U
    <3> QED BY <2>7, <2>8, <2>9, <2>10, JoinedWithin
  <2> QED BY <2>1, <2>11
<1>4. 1 .. n \subseteq P
  <2> HIDE DEF P
  <2> QED BY <1>3, Ascend
<1>5. Above(g)[i] = FirstOf(w[i]) /\ w[i] \in Seq(1 .. i - 1) /\ Sorted(w[i], R)
  BY <1>1, <1>4 DEF AboveSteps
<1>6. Above(g)[i] \in Seq(1 .. i - 1) /\ IsInjective(Above(g)[i])
  BY <1>5, FirstOfTyped
<1>7. Sorted(Above(g)[i], R)
  <2> DEFINE S == 1 .. i - 1
  <2>1. w[i] \in Seq(S)
    BY <1>5
  <2> HIDE DEF S
  <2> QED BY <1>5, <2>1, FirstOfSorted
<1>8. \A x : x \in Up(g, i) <=> \E j \in Elements(g.in[i]) : x \in Up(g, j) \/ x = j
  <2>1. /\ \A x : x \in Elements(w[i]) <=> \E j \in Elements(g.in[i]) : x \in Elements(w[j]) \/ x = j
        /\ \A j \in Elements(g.in[i]) : j \in 1 .. i - 1
    <3>1. PassesBy(w, g, i)
      BY <1>1, StepsElements
    <3> QED BY <3>1 DEF PassesBy
  <2>2. \A j \in Elements(g.in[i]) : Up(g, j) = Elements(w[j])
    <3>1. \A j \in Elements(g.in[i]) : j \in 1 .. n
      BY <2>1
    <3> QED BY <1>2, <3>1
  <2>3. Up(g, i) = Elements(w[i])
    BY <1>2
  <2> QED BY <2>1, <2>2, <2>3
<1>9. Elements(g.in[i]) \subseteq 1 .. i - 1
  BY <1>1, StepsElements DEF PassesBy
<1> QED BY <1>2, <1>6, <1>7, <1>8, <1>9 DEF R, Reaches

\* What is above something above is above.
LEMMA UpTransitive ==
  ASSUME NEW n \in Nat, NEW g, g.in \in In(n), NEW i \in 1 .. n, NEW j \in Up(g, i)
  PROVE  j \in 1 .. n /\ Up(g, j) \subseteq Up(g, i)
<1> DEFINE P == {k \in 1 .. n : \A l \in Up(g, k) : Up(g, l) \subseteq Up(g, k)}
<1>1. ASSUME NEW k \in 1 .. n, \A l \in 1 .. k - 1 : l \in P PROVE k \in P
  <2>1. /\ \A x : x \in Up(g, k) <=> \E l \in Elements(g.in[k]) : x \in Up(g, l) \/ x = l
        /\ Elements(g.in[k]) \subseteq 1 .. k - 1
    <3>1. Reaches(g, n, k)
      BY AboveIs
    <3> QED BY <3>1 DEF Reaches
  <2>2. ASSUME NEW l \in Up(g, k) PROVE Up(g, l) \subseteq Up(g, k)
    <3>1. PICK m \in Elements(g.in[k]) : l \in Up(g, m) \/ l = m
      BY <2>1
    <3>2. Up(g, m) \subseteq Up(g, k)
      BY <2>1
    <3>3. m \in P
      BY <1>1, <2>1
    <3>4. Up(g, l) \subseteq Up(g, m)
      BY <3>1, <3>3
    <3> QED BY <3>2, <3>4
  <2> QED BY <2>2
<1>2. 1 .. n \subseteq P
  <2> HIDE DEF P
  <2> QED BY <1>1, Ascend
<1>3. Up(g, i) \subseteq 1 .. i - 1
  BY AboveIs DEF Reaches
<1> QED BY <1>2, <1>3

\* What is above a node depends on the arcs into it and into earlier nodes alone.
LEMMA AboveSame ==
  ASSUME NEW n \in Nat, NEW g, g.in \in In(n), NEW m \in Nat, NEW h, h.in \in In(m),
         NEW i \in 1 .. n, i \in 1 .. m, \A j \in 1 .. i : g.in[j] = h.in[j]
  PROVE  Above(g)[i] = Above(h)[i]
<1>1. PICK w : AboveSteps(w, g, n)
  BY AboveDef
<1>2. PICK v : AboveSteps(v, h, m)
  BY AboveDef
<1> DEFINE P == {j \in 1 .. i : w[j] = v[j]}
<1>3. ASSUME NEW j \in 1 .. i, \A l \in 1 .. j - 1 : l \in P PROVE j \in P
  <2> DEFINE in == g.in[j]
  <2>1. j \in 1 .. n /\ j \in 1 .. m /\ h.in[j] = in
    OBVIOUS
  <2>2. in \in Seq(1 .. j - 1)
    BY <2>1 DEF In
  <2>3. w[j] = Joined(Paths(in, w)) /\ v[j] = Joined(Paths(in, v))
    BY <1>1, <1>2, <2>1 DEF AboveSteps
  <2>4. \A k \in DOMAIN in : w[in[k]] = v[in[k]]
    <3>1. \A k \in DOMAIN in : in[k] \in 1 .. j - 1
      BY <2>2, SeqParts
    <3> QED BY <1>3, <3>1
  <2> HIDE DEF in
  <2>5. Paths(in, w) = Paths(in, v)
    BY <2>4 DEF Paths
  <2> QED BY <2>3, <2>5
<1>4. i \in P
  <2>1. i \in Nat /\ i \in 1 .. i
    OBVIOUS
  <2> HIDE DEF P
  <2>2. 1 .. i \subseteq P
    BY <1>3, <2>1, Ascend
  <2> QED BY <2>1, <2>2
<1>5. Above(g)[i] = FirstOf(w[i]) /\ Above(h)[i] = FirstOf(v[i])
  BY <1>1, <1>2 DEF AboveSteps
<1> QED BY <1>4, <1>5

-----------------------------------------------------------------------------
(* What is below a node, and the walk.                                     *)

\* The two are one after the other in a.
IsConcat(a, s, t) ==
  /\ \A i \in DOMAIN s : a[i] = s[i]
  /\ \A i \in DOMAIN t : a[Len(s) + i] = t[i]

LEMMA ConcatAt == ASSUME NEW T, NEW s \in Seq(T), NEW t \in Seq(T) PROVE IsConcat(s \o t, s, t)
BY ConcatTyped, SeqParts DEF IsConcat

\* The walks on which every arc from a node is followed later on.
Follows(g, s, x, b) == \E y \in DOMAIN s : y > x /\ s[y] = b
Downward(g, n) ==
  {s \in Seq(1 .. n) : \A x \in DOMAIN s : \A b \in Elements(g.out[s[x]]) : Follows(g, s, x, b)}

LEMMA DownwardConcat ==
  ASSUME NEW n \in Nat, NEW g, NEW s \in Downward(g, n), NEW t \in Downward(g, n)
  PROVE  s \o t \in Downward(g, n)
<1> DEFINE a == s \o t
<1>1. s \in Seq(1 .. n) /\ t \in Seq(1 .. n)
  BY DEF Downward
<1>2. /\ a \in Seq(1 .. n)
      /\ \A i \in DOMAIN s : a[i] = s[i]
      /\ \A i \in DOMAIN t : a[Len(s) + i] = t[i]
  BY <1>1, ConcatTyped, SeqParts
<1>3. \A i : i \in DOMAIN a <=> i \in DOMAIN s \/ \E j \in DOMAIN t : i = Len(s) + j
  BY <1>1, ConcatPlaces
<1>4. /\ DOMAIN s = 1 .. Len(s) /\ DOMAIN t = 1 .. Len(t) /\ Len(s) \in Nat /\ Len(t) \in Nat
  BY <1>1, SeqParts
<1> HIDE DEF a
<1>5. ASSUME NEW x \in DOMAIN a, NEW b \in Elements(g.out[a[x]]) PROVE Follows(g, a, x, b)
  <2>1. CASE x \in DOMAIN s
    <3>1. Follows(g, s, x, b)
      BY <1>2, <1>5, <2>1 DEF Downward
    <3> QED BY <1>2, <1>3, <3>1 DEF Follows
  <2>2. CASE \E j \in DOMAIN t : x = Len(s) + j
    <3>1. PICK j \in DOMAIN t : x = Len(s) + j
      BY <2>2
    <3>2. a[x] = t[j]
      BY <1>2, <3>1
    <3>3. Follows(g, t, j, b)
      BY <1>5, <3>2 DEF Downward
    <3>4. PICK y \in DOMAIN t : y > j /\ t[y] = b
      BY <3>3 DEF Follows
    <3>5. Len(s) + y \in DOMAIN a /\ a[Len(s) + y] = b
      BY <1>2, <1>3, <3>4
    <3>6. Len(s) + y > x
      BY <1>4, <3>1, <3>4
    <3> QED BY <3>5, <3>6 DEF Follows
  <2> QED BY <1>3, <2>1, <2>2
<1> QED BY <1>2, <1>5 DEF Downward, a

\* Walks below several nodes, one after the other, are such a walk, and they come by
\* whatever one of them comes by.
LEMMA DownwardJoined ==
  ASSUME NEW n \in Nat, NEW g, NEW s, NEW m \in Nat, DOMAIN s = 1 .. m,
         \A k \in 1 .. m : s[k] \in Downward(g, n), \E X : s \in Seq(X)
  PROVE  /\ Joined(s) \in Downward(g, n)
         /\ \A k \in 1 .. m : Elements(s[k]) \subseteq Elements(Joined(s))
<1> DEFINE U == Downward(g, n)
<1>0. <<>> \in U
  <2>1. <<>> \in Seq(1 .. n) /\ DOMAIN <<>> = {}
    OBVIOUS
  <2> QED BY <2>1 DEF Downward
<1>1. U \subseteq Seq(1 .. n)
  BY DEF Downward
<1>2. \A x, y \in U : x \o y \in U
  BY DownwardConcat
<1> HIDE DEF U
<1>3. s \in [1 .. m -> U]
  <2>1. s = [k \in DOMAIN s |-> s[k]]
    OBVIOUS
  <2> QED BY <2>1 DEF U
<1>4. s \in Seq(U)
  BY <1>3, SeqOf
<1>5. Joined(s) \in U
  <2> DEFINE T == 1 .. n
  <2>1. U \subseteq Seq(T)
    BY <1>1
  <2> HIDE DEF T
  <2> QED BY <1>0, <1>2, <1>4, <2>1, JoinedWithin
<1>6. s \in Seq(Seq(1 .. n))
  BY <1>1, <1>4, SeqWithin
<1>7. Elements(Joined(s)) = UNION {Elements(s[k]) : k \in DOMAIN s}
  BY <1>6, JoinedElements
<1> QED BY <1>5, <1>7 DEF U

\* The walk below a node begins with it.
LEMMA BelowDownward ==
  ASSUME NEW n \in Nat, NEW g, g.out \in Out(n)
  PROVE  \A i \in 1 .. n : Below(g)[i] \in Downward(g, n) /\ i \in Elements(Below(g)[i])
<1> DEFINE B == Below(g)
           P == {i \in 1 .. n : B[i] \in Downward(g, n) /\ i \in Elements(B[i])}
           down(i) == [k \in DOMAIN g.out[i] |-> B[g.out[i][k]]]
<1>1. /\ B \in [1 .. n -> Seq(1 .. n)]
      /\ \A i \in 1 .. n : B[i] = <<i>> \o Joined(down(i))
  BY BelowDef
<1> HIDE DEF B
<1>2. ASSUME NEW i \in 1 .. n, \A j \in i + 1 .. n : j \in P PROVE i \in P
  <2> DEFINE out == g.out[i]
             d == down(i)
             J == Joined(d)
  <2>1. out \in Seq(i + 1 .. n) /\ out \in Seq(1 .. n)
    BY DEF Out
  <2>2. DOMAIN out = 1 .. Len(out) /\ Len(out) \in Nat /\ \A k \in DOMAIN out : out[k] \in i + 1 .. n
    BY <2>1, SeqParts
  <2>3. DOMAIN d = 1 .. Len(out) /\ \A k \in 1 .. Len(out) : d[k] = B[out[k]]
    BY <2>2
  <2> HIDE DEF out, d
  <2>4. \A k \in 1 .. Len(out) : d[k] \in Downward(g, n) /\ out[k] \in Elements(d[k])
    BY <1>2, <2>2, <2>3
  <2>5. d \in Seq(Downward(g, n))
    <3>1. d = [k \in DOMAIN d |-> d[k]]
      BY DEF d
    <3>2. d \in [1 .. Len(out) -> Downward(g, n)]
      BY <2>3, <2>4, <3>1
    <3> QED BY <2>2, <3>2, SeqOf
  <2>6. J \in Downward(g, n) /\ \A k \in 1 .. Len(out) : Elements(d[k]) \subseteq Elements(J)
    BY <2>2, <2>3, <2>4, <2>5, DownwardJoined
  <2>7. \A b \in Elements(out) : b \in Elements(J)
    BY <2>2, <2>4, <2>6 DEF Elements
  <2>8. B[i] = <<i>> \o J
    BY <1>1 DEF d
  <2>9. J \in Seq(1 .. n)
    BY <2>6 DEF Downward
  <2> HIDE DEF J
  <2>10. <<i>> \in Seq(1 .. n) /\ Len(<<i>>) = 1 /\ DOMAIN <<i>> = {1} /\ <<i>>[1] = i
    OBVIOUS
  <2> DEFINE u == <<i>>
  <2> HIDE DEF u
  <2>11. u \in Seq(1 .. n) /\ Len(u) = 1 /\ DOMAIN u = {1} /\ u[1] = i /\ B[i] = u \o J
    BY <2>8, <2>10 DEF u
  <2>12. /\ B[i][1] = i
         /\ \A x \in DOMAIN J : B[i][1 + x] = J[x]
    <3>1. IsConcat(u \o J, u, J)
      BY <2>9, <2>11, ConcatAt
    <3> QED BY <2>11, <3>1 DEF IsConcat
  <2>13. \A x : x \in DOMAIN B[i] <=> x = 1 \/ \E y \in DOMAIN J : x = 1 + y
    <3>1. \A x : x \in DOMAIN (u \o J) <=> x \in DOMAIN u \/ \E y \in DOMAIN J : x = Len(u) + y
      BY <2>9, <2>11, ConcatPlaces
    <3> QED BY <2>11, <3>1
  <2>14. \A x \in DOMAIN J : x \in Nat /\ x >= 1
    BY <2>9, SeqParts
  <2> DEFINE s == B[i]
  <2>15. s \in Seq(1 .. n)
    BY <1>1
  <2> HIDE DEF s, P
  <2>16. ASSUME NEW x \in DOMAIN s, NEW b \in Elements(g.out[s[x]]) PROVE Follows(g, s, x, b)
    <3>1. CASE x = 1
      <4>1. b \in Elements(J)
        BY <2>7, <2>12, <2>16, <3>1 DEF s, out
      <4>2. PICK y \in DOMAIN J : J[y] = b
        BY <4>1 DEF Elements
      <4>3. 1 + y \in DOMAIN s /\ s[1 + y] = b /\ 1 + y > x
        BY <2>12, <2>13, <2>14, <3>1, <4>2 DEF s
      <4> QED BY <4>3 DEF Follows
    <3>2. CASE \E y \in DOMAIN J : x = 1 + y
      <4>1. PICK y \in DOMAIN J : x = 1 + y
        BY <3>2
      <4>2. s[x] = J[y]
        BY <2>12, <4>1 DEF s
      <4>3. Follows(g, J, y, b)
        BY <2>6, <2>16, <4>2 DEF Downward
      <4>4. PICK z \in DOMAIN J : z > y /\ J[z] = b
        BY <4>3 DEF Follows
      <4>5. 1 + z \in DOMAIN s /\ s[1 + z] = b /\ 1 + z > x
        BY <2>12, <2>13, <2>14, <4>1, <4>4 DEF s
      <4> QED BY <4>5 DEF Follows
    <3> QED BY <2>13, <3>1, <3>2 DEF s
  <2>17. s \in Downward(g, n)
    BY <2>15, <2>16 DEF Downward
  <2>18. i \in Elements(s)
    BY <2>12, <2>13 DEF Elements, s
  <2> QED BY <2>17, <2>18 DEF s, P
<1>3. 1 .. n \subseteq P
  <2> HIDE DEF P
  <2> QED BY <1>2, Descend
<1> QED BY <1>3 DEF B

LEMMA WalkDownward ==
  ASSUME NEW n \in Nat, NEW g, g.out \in Out(n), g.roots \in 0 .. n PROVE Walk(g) \in Downward(g, n)
<1> DEFINE B == Below(g)
           s == [r \in 1 .. g.roots |-> B[r]]
<1>1. \A i \in 1 .. n : B[i] \in Downward(g, n)
  BY BelowDownward
<1>2. Walk(g) = Joined(s)
  BY DEF Walk
<1> HIDE DEF B
<1>3. DOMAIN s = 1 .. g.roots /\ g.roots \in Nat /\ \A r \in 1 .. g.roots : s[r] \in Downward(g, n)
  BY <1>1
<1>4. s \in [1 .. g.roots -> Downward(g, n)]
  BY <1>3
<1> HIDE DEF s
<1>5. s \in Seq(Downward(g, n))
  BY <1>3, <1>4, SeqOf
<1>6. Joined(s) \in Downward(g, n)
  BY <1>3, <1>5, DownwardJoined
<1> QED BY <1>2, <1>6

\* An arc into a node is one out of the other.
Arrives(g, n) == \A i \in 1 .. n : \A j \in Elements(g.in[i]) : i \in Elements(g.out[j])

\* Wherever the walk comes by a node, it comes later by what the node is above.
LEMMA WalkGoesDown ==
  ASSUME NEW n \in Nat, NEW g, g.in \in In(n), g.out \in Out(n), g.roots \in 0 .. n, Arrives(g, n),
         NEW x \in DOMAIN Walk(g), NEW i \in 1 .. n, Walk(g)[x] \in Up(g, i)
  PROVE  \E y \in DOMAIN Walk(g) : y > x /\ Walk(g)[y] = i
<1> DEFINE s == Walk(g)
           p == s[x]
           P == {k \in 1 .. n : p \in Up(g, k) => Follows(g, s, x, k)}
<1>1. s \in Downward(g, n)
  BY WalkDownward
<1>2. DOMAIN s \subseteq Nat
  <2>1. s \in Seq(1 .. n)
    BY <1>1 DEF Downward
  <2> HIDE DEF s
  <2> QED BY <2>1, SeqParts
<1> HIDE DEF s
<1>3. ASSUME NEW k \in 1 .. n, \A l \in 1 .. k - 1 : l \in P PROVE k \in P
  <2>1. Reaches(g, n, k)
    BY AboveIs
  <2>2. ASSUME p \in Up(g, k) PROVE Follows(g, s, x, k)
    <3>1. PICK j \in Elements(g.in[k]) : p \in Up(g, j) \/ p = j
      BY <2>1, <2>2 DEF Reaches
    <3>2. k \in Elements(g.out[j]) /\ j \in 1 .. k - 1
      BY <2>1, <3>1 DEF Arrives, Reaches
    <3>3. PICK y \in DOMAIN s : (y > x \/ y = x) /\ s[y] = j
      <4>1. CASE p = j
        BY <4>1 DEF s
      <4>2. CASE p \in Up(g, j)
        <5>1. Follows(g, s, x, j)
          BY <1>3, <3>2, <4>2
        <5> QED BY <5>1 DEF Follows
      <4> QED BY <3>1, <4>1, <4>2
    <3>4. Follows(g, s, y, k)
      BY <1>1, <3>2, <3>3 DEF Downward
    <3>5. PICK z \in DOMAIN s : z > y /\ s[z] = k
      BY <3>4 DEF Follows
    <3>6. x \in DOMAIN s
      BY DEF s
    <3>7. z > x
      BY <1>2, <3>3, <3>5, <3>6
    <3> QED BY <3>5, <3>7 DEF Follows
  <2> QED BY <2>2
<1>4. 1 .. n \subseteq P
  <2> HIDE DEF P
  <2> QED BY <1>3, Ascend
<1>5. Follows(g, s, x, i)
  BY <1>4 DEF s
<1> QED BY <1>5 DEF Follows, s

-----------------------------------------------------------------------------
(* What the arcs into the last node establish.                             *)

\* A graph that differs from g in what is above the last node, and has more there.
Wider(h, g, n) ==
  /\ Arrives(h, n)
  /\ \A i \in 1 .. n - 1 : h.in[i] = g.in[i] /\ Above(h)[i] = Above(g)[i]
  /\ Up(g, n) \subseteq Up(h, n)

LEMMA WiderSame == ASSUME NEW n, NEW g, Arrives(g, n) PROVE Wider(g, g, n)
BY DEF Wider

LEMMA WiderTransitive ==
  ASSUME NEW n, NEW f, NEW g, NEW h, Wider(f, g, n), Wider(h, f, n) PROVE Wider(h, g, n)
BY DEF Wider

\* What Connect does to the arcs.
Connects(h, g, parent, new, n) ==
  LET above == Up(g, parent) \union {parent} IN
  /\ \A i \in 1 .. n : i # new => h.in[i] = g.in[i]
  /\ Elements(h.in[new]) = (Elements(g.in[new]) \ above) \union {parent}
  /\ \A i \in 1 .. n : Elements(h.out[i]) =
                         IF i = parent THEN (Elements(g.out[i]) \ {new}) \union {new}
                         ELSE IF i \in above THEN Elements(g.out[i]) \ {new} ELSE Elements(g.out[i])

LEMMA ConnectArcs ==
  ASSUME NEW n \in Nat, NEW b, NEW g \in Linked(b, n), NEW new \in 1 .. n, NEW parent \in 1 .. new - 1
  PROVE  Connects(Connect(g, parent, new), g, parent, new, n)
<1> DEFINE above == Elements(Append(Above(g)[parent], parent))
           cut(s) == Only(s, DOMAIN g.in \ {new})
           rest == Only(g.in[new], DOMAIN g.in \ above)
           into == Append(rest, parent)
           out == [i \in DOMAIN g.out |-> IF i = parent THEN Append(cut(g.out[i]), new)
                                          ELSE IF i \in above THEN cut(g.out[i]) ELSE g.out[i]]
           h == Connect(g, parent, new)
<1>1. h = [g EXCEPT !.in = [@ EXCEPT ![new] = into], !.out = out]
  BY DEF Connect
<1>2. g = [roots |-> b.roots, failed |-> b.failed, state |-> b.state, in |-> g.in, out |-> g.out]
      /\ g.in \in In(n) /\ g.out \in Out(n)
  BY DEF Linked
<1>3. parent \in 1 .. n
  OBVIOUS
<1>4. above = Up(g, parent) \union {parent}
  <2> DEFINE T == 1 .. n
             s == Above(g)[parent]
  <2>1. Reaches(g, n, parent)
    BY <1>2, <1>3, AboveIs
  <2>2. s \in Seq(1 .. parent - 1) /\ 1 .. parent - 1 \subseteq 1 .. n
    BY <1>3, <2>1 DEF Reaches
  <2>3. s \in Seq(T) /\ parent \in T
    BY <1>3, <2>2, SeqWithin
  <2> HIDE DEF s, T
  <2>4. Elements(Append(s, parent)) = Elements(s) \union {parent}
    BY <2>3, ElementsAppend
  <2> QED BY <2>4 DEF s, Up
<1> HIDE DEF above
<1>5. /\ DOMAIN g.in = 1 .. n /\ DOMAIN g.out = 1 .. n
      /\ \A i \in 1 .. n : g.in[i] \in Seq(1 .. n) /\ g.out[i] \in Seq(1 .. n)
  BY <1>2 DEF In, Out
<1>6. ASSUME NEW s \in Seq(1 .. n) PROVE Elements(s) \subseteq 1 .. n
  <2> DEFINE T == 1 .. n
  <2>1. s \in Seq(T)
    OBVIOUS
  <2> HIDE DEF T
  <2>2. Elements(s) \subseteq T
    BY <2>1, WithinElements
  <2> QED BY <2>2 DEF T
<1>7. ASSUME NEW s \in Seq(1 .. n)
      PROVE cut(s) \in Seq(1 .. n) /\ Elements(cut(s)) = Elements(s) \ {new}
  <2>1. cut(s) \in Seq(1 .. n)
    BY OnlyWithin
  <2> DEFINE S == DOMAIN g.in \ {new}
  <2> HIDE DEF S
  <2>2. Elements(Only(s, S)) = Elements(s) \intersect S
    BY OnlyElements
  <2>3. Elements(s) \intersect S = Elements(s) \ {new}
    BY <1>5, <1>6 DEF S
  <2> QED BY <2>1, <2>2, <2>3 DEF S
<1>8. rest \in Seq(1 .. n) /\ Elements(rest) = Elements(g.in[new]) \ above
  <2>1. g.in[new] \in Seq(1 .. n)
    BY <1>5
  <2>2. rest \in Seq(1 .. n)
    BY <2>1, OnlyWithin
  <2> DEFINE S == DOMAIN g.in \ above
             s == g.in[new]
  <2>3. Elements(s) \subseteq 1 .. n
    BY <1>6, <2>1
  <2> HIDE DEF S
  <2>4. Elements(Only(s, S)) = Elements(s) \intersect S
    BY <2>1, OnlyElements
  <2>5. Elements(s) \intersect S = Elements(s) \ above
    BY <1>5, <2>3 DEF S
  <2> QED BY <2>2, <2>4, <2>5 DEF S
<1> HIDE DEF rest
<1>9. Elements(into) = (Elements(g.in[new]) \ above) \union {parent}
  <2>1. Elements(Append(rest, parent)) = Elements(rest) \union {parent}
    BY <1>3, <1>8, ElementsAppend
  <2> QED BY <1>8, <2>1
<1>10. ASSUME NEW i \in 1 .. n
       PROVE  Elements(out[i]) =
                IF i = parent THEN (Elements(g.out[i]) \ {new}) \union {new}
                ELSE IF i \in above THEN Elements(g.out[i]) \ {new} ELSE Elements(g.out[i])
  <2> DEFINE s == g.out[i]
             c == cut(s)
  <2>1. c \in Seq(1 .. n) /\ Elements(c) = Elements(s) \ {new}
    BY <1>5, <1>7
  <2>2. out[i] = IF i = parent THEN Append(c, new) ELSE IF i \in above THEN c ELSE s
    BY <1>5
  <2> HIDE DEF c
  <2>3. Elements(Append(c, new)) = Elements(c) \union {new}
    BY <2>1, ElementsAppend
  <2> HIDE DEF out, s
  <2>4. Elements(out[i]) = IF i = parent THEN (Elements(s) \ {new}) \union {new}
                           ELSE IF i \in above THEN Elements(s) \ {new} ELSE Elements(s)
    BY <2>1, <2>2, <2>3, Zenon
  <2> QED BY <2>4 DEF s
<1> HIDE DEF into, out, cut
<1>11. h.in = [g.in EXCEPT ![new] = into] /\ h.out = out
  <2> HIDE DEF h
  <2>1. h = [g EXCEPT !.in = [@ EXCEPT ![new] = into], !.out = out]
    BY <1>1
  <2> QED BY <1>2, <2>1
<1> HIDE DEF h
<1>12. h.in[new] = into /\ \A i \in 1 .. n : i # new => h.in[i] = g.in[i]
  BY <1>5, <1>11
<1>13. Connects(h, g, parent, new, n)
  <2>1. \A i \in 1 .. n : Elements(h.out[i]) =
                         IF i = parent THEN (Elements(g.out[i]) \ {new}) \union {new}
                         ELSE IF i \in above THEN Elements(g.out[i]) \ {new} ELSE Elements(g.out[i])
    BY <1>10, <1>11, Zenon
  <2>2. Elements(h.in[new]) = (Elements(g.in[new]) \ above) \union {parent}
    BY <1>9, <1>12
  <2> QED BY <1>4, <1>12, <2>1, <2>2, Zenon DEF Connects
<1> QED BY <1>13 DEF h

\* Connect makes the parent, and what is above it, come before the last node.
LEMMA ConnectWider ==
  ASSUME NEW n \in Nat \ {0}, NEW b, NEW g \in Linked(b, n), Arrives(g, n), NEW parent \in 1 .. n - 1
  PROVE  Wider(Connect(g, parent, n), g, n) /\ parent \in Up(Connect(g, parent, n), n)
<1> DEFINE h == Connect(g, parent, n)
           above == Up(g, parent) \union {parent}
<1>1. n \in Nat /\ n \in 1 .. n
  OBVIOUS
<1>2. h \in Linked(b, n) /\ Connects(h, g, parent, n, n)
  BY <1>1, ConnectTyped, ConnectArcs
<1> HIDE DEF h
<1>3. g.in \in In(n) /\ h.in \in In(n)
  BY <1>2 DEF Linked
<1>4. /\ \A i \in 1 .. n - 1 : h.in[i] = g.in[i]
      /\ Elements(h.in[n]) = (Elements(g.in[n]) \ above) \union {parent}
  BY <1>1, <1>2 DEF Connects
<1>5. \A i \in 1 .. n : Elements(h.out[i]) =
                         IF i = parent THEN (Elements(g.out[i]) \ {n}) \union {n}
                         ELSE IF i \in above THEN Elements(g.out[i]) \ {n} ELSE Elements(g.out[i])
  BY <1>2, Zenon DEF Connects
<1>6. ASSUME NEW i \in 1 .. n - 1 PROVE Above(h)[i] = Above(g)[i]
  <2>1. i \in 1 .. n /\ \A j \in 1 .. i : h.in[j] = g.in[j]
    BY <1>4
  <2> QED BY <1>1, <1>3, <2>1, AboveSame
<1>7. \A i \in 1 .. n - 1 : Up(h, i) = Up(g, i)
  BY <1>6 DEF Up
<1>8. Reaches(g, n, n) /\ Reaches(h, n, n)
  BY <1>1, <1>3, AboveIs
<1>9. /\ \A x : x \in Up(g, n) <=> \E j \in Elements(g.in[n]) : x \in Up(g, j) \/ x = j
      /\ \A x : x \in Up(h, n) <=> \E j \in Elements(h.in[n]) : x \in Up(h, j) \/ x = j
      /\ Elements(g.in[n]) \subseteq 1 .. n - 1
      /\ Elements(h.in[n]) \subseteq 1 .. n - 1
  BY <1>8 DEF Reaches
<1>10. ASSUME NEW x \in above PROVE x \in Up(h, n)
  <2>1. parent \in Elements(h.in[n])
    BY <1>4
  <2>2. x \in Up(h, parent) \/ x = parent
    BY <1>7
  <2> QED BY <1>9, <2>1, <2>2
<1>11. ASSUME NEW x \in Up(g, n) PROVE x \in Up(h, n)
  <2>1. PICK j \in Elements(g.in[n]) : x \in Up(g, j) \/ x = j
    BY <1>9
  <2>2. CASE j \in above
    <3>1. Up(g, j) \subseteq Up(g, parent) \/ j = parent
      <4>1. parent \in 1 .. n
        OBVIOUS
      <4> QED BY <1>1, <1>3, <2>2, <4>1, UpTransitive
    <3>2. x \in above
      BY <2>1, <2>2, <3>1
    <3> QED BY <1>10, <3>2
  <2>3. CASE j \notin above
    <3>1. j \in Elements(h.in[n]) /\ j \in 1 .. n - 1
      BY <1>4, <1>9, <2>1, <2>3
    <3>2. Up(h, j) = Up(g, j)
      BY <1>7, <3>1
    <3> QED BY <1>9, <2>1, <3>1, <3>2
  <2> QED BY <2>2, <2>3
<1>12. ASSUME NEW i \in 1 .. n, NEW j \in Elements(h.in[i]) PROVE i \in Elements(h.out[j])
  <2>1. CASE i = n
    <3>1. j \in 1 .. n
      BY <1>9, <1>12, <2>1
    <3>2. j = parent \/ (j \in Elements(g.in[n]) /\ j \notin above)
      BY <1>4, <1>12, <2>1
    <3>3. j \in Elements(g.in[n]) => n \in Elements(g.out[j])
      BY <1>1 DEF Arrives
    <3> QED BY <1>5, <2>1, <3>1, <3>2, <3>3
  <2>2. CASE i # n
    <3>1. i \in 1 .. n - 1
      BY <2>2
    <3>2. j \in Elements(g.in[i])
      BY <1>4, <1>12, <3>1
    <3>3. i \in Elements(g.out[j])
      BY <3>2 DEF Arrives
    <3>4. j \in 1 .. n
      <4>1. Reaches(g, n, i)
        BY <1>1, <1>3, AboveIs
      <4> QED BY <3>2, <4>1 DEF Reaches
    <3> QED BY <1>5, <2>2, <3>3, <3>4
  <2> QED BY <2>1, <2>2
<1>13. Wider(h, g, n)
  BY <1>4, <1>6, <1>11, <1>12 DEF Wider, Arrives
<1>14. parent \in Up(h, n)
  BY <1>10
<1> QED BY <1>13, <1>14 DEF h

LEMMA SeparatedWider ==
  ASSUME NEW n \in Nat \ {0}, NEW b, NEW g \in Linked(b, n), Arrives(g, n),
         NEW foes \in Seq(1 .. n - 1)
  PROVE  Wider(Separated(g, foes, n), g, n)
<1> DEFINE m == Len(foes)
<1>1. n \in Nat /\ n \in 1 .. n
  OBVIOUS
<1>2. PICK f \in [0 .. m -> Linked(b, n)] : Separates(f, g, foes, n)
  BY <1>1, SeparatedDef
<1>3. f[0] = g /\ (\A k \in 1 .. m : f[k] = Connect(f[k - 1], foes[k], n)) /\ Separated(g, foes, n) = f[m]
  BY <1>2 DEF Separates
<1>4. m \in Nat /\ \A k \in 1 .. m : foes[k] \in 1 .. n - 1
  BY SeqParts
<1> HIDE DEF m
<1> DEFINE P == {k \in 0 .. m : Wider(f[k], g, n)}
<1>5. 0 \in P
  BY <1>3, <1>4, WiderSame
<1>6. ASSUME NEW k \in 1 .. m, k - 1 \in P PROVE k \in P
  <2> DEFINE x == f[k - 1]
  <2>1. k - 1 \in 0 .. m /\ k \in 0 .. m
    BY <1>4
  <2>2. x \in Linked(b, n) /\ Wider(x, g, n) /\ foes[k] \in 1 .. n - 1
    BY <1>2, <1>4, <1>6, <2>1
  <2>3. f[k] = Connect(x, foes[k], n)
    BY <1>3
  <2> HIDE DEF x
  <2>4. Arrives(x, n)
    BY <2>2 DEF Wider
  <2>5. Wider(f[k], x, n)
    BY <2>2, <2>3, <2>4, ConnectWider
  <2>6. Wider(f[k], g, n)
    BY <2>2, <2>5, WiderTransitive
  <2> QED BY <2>1, <2>6
<1>7. m \in P
  <2> HIDE DEF P
  <2>1. m \in Nat /\ m \in 0 .. m
    BY <1>4
  <2>2. 0 .. m \subseteq P
    BY <1>5, <1>6, <2>1, Climb
  <2> QED BY <2>1, <2>2
<1> QED BY <1>3, <1>7

\* A node that makes a fact true that was not, and one of which no other such node is below.
Source(g, items, p, r) == r \notin g.state[p] /\ r \in Done(items[p], g.state[p])
LastSource(g, items, p, r, n) ==
  /\ Source(g, items, p, r)
  /\ \A b \in 1 .. n : Source(g, items, b, r) => p \notin Up(g, b)

\* get_node_satisfy finds one, if it finds any.
LEMMA SatisfyIs ==
  ASSUME NEW n \in Nat \ {0}, NEW g, g.in \in In(n), g.out \in Out(n), g.roots \in 0 .. n, Arrives(g, n),
         DOMAIN g.state = 1 .. n - 1, NEW r, NEW items, get_node_satisfy(r, g, n, items) # 0
  PROVE  /\ get_node_satisfy(r, g, n, items) \in 1 .. n - 1
         /\ LastSource(g, items, get_node_satisfy(r, g, n, items), r, n - 1)
<1> DEFINE S == {i \in DOMAIN g.state \ {n} : r \notin g.state[i] /\ r \in Done(items[i], g.state[i])}
           p == get_node_satisfy(r, g, n, items)
           s == Walk(g)
<1>1. n \in Nat /\ p = LastOr0(Only(s, S))
  BY DEF get_node_satisfy
<1>2. s \in Seq(1 .. n)
  BY <1>1, WalkTyped
<1>3. \A i : i \in S <=> i \in 1 .. n - 1 /\ Source(g, items, i, r)
  BY DEF Source
<1>4. \A x \in DOMAIN s, i \in 1 .. n : s[x] \in Up(g, i) => \E y \in DOMAIN s : y > x /\ s[y] = i
  BY <1>1, WalkGoesDown
<1> HIDE DEF S, s
<1>5. Only(s, S) # <<>>
  BY <1>1 DEF LastOr0
<1>6. PICK x \in DOMAIN s : /\ LastOr0(Only(s, S)) = s[x] /\ s[x] \in S
                            /\ \A y \in DOMAIN s : y > x => s[y] \notin S
  <2> DEFINE T == 1 .. n
  <2>1. s \in Seq(T)
    BY <1>2
  <2> HIDE DEF T
  <2> QED BY <1>5, <2>1, OnlyLast
<1> HIDE DEF p
<1>7. p = s[x] /\ p \in S
  BY <1>1, <1>6
<1>8. ASSUME NEW i \in 1 .. n - 1, Source(g, items, i, r), p \in Up(g, i) PROVE FALSE
  <2>1. i \in S /\ i \in 1 .. n
    BY <1>3, <1>8
  <2>2. PICK y \in DOMAIN s : y > x /\ s[y] = i
    BY <1>4, <1>7, <1>8, <2>1
  <2> QED BY <1>6, <2>1, <2>2
<1>9. p \in 1 .. n - 1 /\ LastSource(g, items, p, r, n - 1)
  BY <1>3, <1>7, <1>8 DEF LastSource
<1> QED BY <1>9 DEF p

\* A requirement is met by a source above the node such that no other source between the
\* two comes after it.
Met(g, items, r, n) == \E p \in Up(g, n) : p \in 1 .. n - 1 /\ LastSource(g, items, p, r, n - 1)

LEMMA MetWider ==
  ASSUME NEW n \in Nat, NEW g, NEW h, Wider(h, g, n), h.state = g.state, NEW items, NEW r,
         Met(g, items, r, n)
  PROVE  Met(h, items, r, n)
<1>1. \A i \in 1 .. n - 1 : Up(h, i) = Up(g, i)
  BY DEF Wider, Up
<1>2. \A i : Source(h, items, i, r) <=> Source(g, items, i, r)
  BY DEF Source
<1>3. Up(g, n) \subseteq Up(h, n)
  BY DEF Wider
<1> QED BY <1>1, <1>2, <1>3 DEF Met, LastSource

\* Each requirement is met or left open.
Meets(s, reqs, n, items, k) ==
  \A j \in 1 .. k : reqs[j] \in s.open \/ Met(s.graph, items, reqs[j], n)

LEMMA SatisfiedMeets ==
  ASSUME NEW n \in Nat \ {0}, NEW b, b.roots \in 0 .. n, DOMAIN b.state = 1 .. n - 1,
         NEW g \in Linked(b, n), Arrives(g, n), NEW T, NEW reqs \in Seq(T), NEW items
  PROVE  /\ Satisfied(g, reqs, n, items).graph \in Linked(b, n)
         /\ Wider(Satisfied(g, reqs, n, items).graph, g, n)
         /\ Meets(Satisfied(g, reqs, n, items), reqs, n, items, Len(reqs))
<1> DEFINE m == Len(reqs)
<1>1. n \in Nat /\ n \in 1 .. n /\ DOMAIN b.state \subseteq 1 .. n /\ m \in Nat
  OBVIOUS
<1>2. PICK f \in [0 .. m -> Linkings(b, n, T)] : Links(f, g, reqs, n, items)
  BY <1>1, SatisfiedDef
<1> HIDE DEF m
<1>3. /\ f[0].graph = g
      /\ \A k \in 1 .. m :
           IsLinked(f[k], f[k - 1], reqs[k], get_node_satisfy(reqs[k], f[k - 1].graph, n, items), n)
      /\ Satisfied(g, reqs, n, items) = f[m]
  BY <1>2 DEF Links, m
<1>4. \A k \in 0 .. m : f[k].graph \in Linked(b, n)
  BY <1>2 DEF Linkings
<1> DEFINE P == {k \in 0 .. m : Wider(f[k].graph, g, n) /\ Meets(f[k], reqs, n, items, k)}
<1>5. 0 \in P
  <2>1. Meets(f[0], reqs, n, items, 0)
    BY DEF Meets
  <2> QED BY <1>1, <1>3, <2>1, WiderSame
<1>6. ASSUME NEW k \in 1 .. m, k - 1 \in P PROVE k \in P
  <2> DEFINE x == f[k - 1]
             y == f[k]
             r == reqs[k]
             p == get_node_satisfy(r, x.graph, n, items)
  <2>1. k - 1 \in 0 .. m /\ k \in 0 .. m /\ \A j \in 1 .. k : j = k \/ j \in 1 .. k - 1
    BY <1>1
  <2>2. x.graph \in Linked(b, n) /\ y.graph \in Linked(b, n) /\ IsLinked(y, x, r, p, n)
    BY <1>3, <1>4, <2>1
  <2>3. Wider(x.graph, g, n) /\ Meets(x, reqs, n, items, k - 1)
    BY <1>6
  <2> HIDE DEF x, y, r, p
  <2>4. Arrives(x.graph, n)
    BY <2>3 DEF Wider
  <2>5. /\ x.graph.in \in In(n) /\ x.graph.out \in Out(n) /\ x.graph.roots \in 0 .. n
        /\ x.graph.state = b.state /\ y.graph.state = b.state
    BY <2>2 DEF Linked
  <2>6. Wider(y.graph, x.graph, n) /\ x.open \subseteq y.open
        /\ (r \in y.open \/ Met(y.graph, items, r, n))
    <3>1. CASE p = 0
      <4>1. y.graph = x.graph /\ y.open = x.open \union {r}
        BY <2>2, <3>1 DEF IsLinked
      <4> QED BY <2>4, <4>1, WiderSame
    <3>2. CASE p # 0
      <4>1. y.graph = Connect(x.graph, p, n) /\ y.open = x.open
        BY <2>2, <3>2 DEF IsLinked
      <4>2. p \in 1 .. n - 1 /\ LastSource(x.graph, items, p, r, n - 1)
        BY <2>4, <2>5, <3>2, SatisfyIs DEF p
      <4>3. Wider(y.graph, x.graph, n) /\ p \in Up(y.graph, n)
        BY <2>2, <2>4, <4>1, <4>2, ConnectWider
      <4>4. LastSource(y.graph, items, p, r, n - 1)
        <5>1. \A i \in 1 .. n - 1 : Up(y.graph, i) = Up(x.graph, i)
          BY <4>3 DEF Wider, Up
        <5>2. \A i : Source(y.graph, items, i, r) <=> Source(x.graph, items, i, r)
          BY <2>5 DEF Source
        <5> QED BY <4>2, <5>1, <5>2 DEF LastSource
      <4>5. Met(y.graph, items, r, n)
        BY <4>2, <4>3, <4>4 DEF Met
      <4> QED BY <4>1, <4>3, <4>5
    <3> QED BY <3>1, <3>2
  <2>7. Wider(y.graph, g, n)
    BY <1>1, <2>3, <2>6, WiderTransitive
  <2>8. ASSUME NEW j \in 1 .. k - 1, Met(x.graph, items, reqs[j], n) PROVE Met(y.graph, items, reqs[j], n)
    BY <1>1, <2>5, <2>6, <2>8, MetWider
  <2>9. Meets(y, reqs, n, items, k)
    BY <2>1, <2>3, <2>6, <2>8 DEF Meets, r
  <2> QED BY <2>1, <2>7, <2>9 DEF y
<1>7. m \in P
  <2> HIDE DEF P
  <2>1. m \in Nat /\ m \in 0 .. m
    BY <1>1 DEF m
  <2>2. 0 .. m \subseteq P
    BY <1>5, <1>6, <2>1, Climb
  <2> QED BY <2>1, <2>2
<1>8. m \in 0 .. m
  BY <1>1 DEF m
<1> QED BY <1>3, <1>4, <1>7, <1>8 DEF m

-----------------------------------------------------------------------------
(* What the builder establishes.                                           *)

\* The state before a node is the one after all that is above it; each of its
\* requirements holds there or is met.
Stands(g, items, st, i) == g.state[i] = get_state(g, i, items, st)
Earned(g, items, i) == \A r \in Elements(Requirements(items[i])) : r \in g.state[i] \/ Met(g, items, r, i)

Built(g, n, items, st) ==
  /\ Shape(g, n) /\ Arrives(g, n)
  /\ \A i \in 1 .. n : Stands(g, items, st, i) /\ Earned(g, items, i)

\* That depends on the nodes up to the one in question alone.
LEMMA BuiltSame ==
  ASSUME NEW n \in Nat, NEW g, g.in \in In(n), NEW m \in Nat, NEW h, h.in \in In(m),
         NEW i \in 1 .. n, i \in 1 .. m, \A j \in 1 .. i : g.in[j] = h.in[j] /\ g.state[j] = h.state[j],
         NEW items, NEW st, Stands(g, items, st, i), Earned(g, items, i)
  PROVE  Stands(h, items, st, i) /\ Earned(h, items, i)
<1>1. ASSUME NEW j \in 1 .. i PROVE Above(h)[j] = Above(g)[j]
  <2>1. j \in 1 .. n /\ j \in 1 .. m /\ \A l \in 1 .. j : g.in[l] = h.in[l]
    OBVIOUS
  <2> QED BY <2>1, AboveSame
<1>2. i \in 1 .. i /\ i - 1 \in Nat
  OBVIOUS
<1>3. \A j \in 1 .. i : Up(h, j) = Up(g, j)
  BY <1>1 DEF Up
<1>4. get_state(h, i, items, st) = get_state(g, i, items, st)
  BY <1>1, <1>2 DEF get_state
<1>5. \A j \in 1 .. i : \A r : Source(h, items, j, r) <=> Source(g, items, j, r)
  BY DEF Source
<1>6. ASSUME NEW r, Met(g, items, r, i) PROVE Met(h, items, r, i)
  <2>1. PICK p \in Up(g, i) : p \in 1 .. i - 1 /\ LastSource(g, items, p, r, i - 1)
    BY <1>6 DEF Met
  <2>2. \A j \in 1 .. i - 1 : j \in 1 .. i
    OBVIOUS
  <2>3. LastSource(h, items, p, r, i - 1)
    BY <1>3, <1>5, <2>1, <2>2 DEF LastSource
  <2> QED BY <1>2, <1>3, <2>1, <2>3 DEF Met
<1> QED BY <1>2, <1>4, <1>6 DEF Stands, Earned

\* The new node before any arc leads to it.
Bare(g) == [g EXCEPT !.in = Append(@, <<>>), !.out = Append(@, <<>>)]

LEMMA BareGrows ==
  ASSUME NEW n \in Nat, NEW g, Shape(g, n), Arrives(g, n)
  PROVE  Bare(g) \in Linked(g, n + 1) /\ Arrives(Bare(g), n + 1) /\ Grows(Bare(g).in, g.in, n)
<1> DEFINE in == Append(g.in, <<>>)
           out == Append(g.out, <<>>)
           b == Bare(g)
<1>1. /\ g = [roots |-> g.roots, failed |-> g.failed, state |-> g.state, in |-> g.in, out |-> g.out]
      /\ g.in \in In(n) /\ g.out \in Out(n)
  BY DEF Shape
<1>2. b = [g EXCEPT !.in = in, !.out = out]
  BY DEF Bare
<1>3. in \in In(n + 1) /\ out \in Out(n + 1) /\ Grows(in, g.in, n) /\ Grows(out, g.out, n)
  BY <1>1, ArcsGrow, Zenon
<1> HIDE DEF b, in, out
<1>4. b = [roots |-> g.roots, failed |-> g.failed, state |-> g.state, in |-> in, out |-> out]
  BY <1>1, <1>2
<1>5. ASSUME NEW i \in 1 .. n + 1, NEW j \in Elements(in[i]) PROVE i \in Elements(out[j])
  <2>1. i # n + 1
    BY <1>3, <1>5, EmptyElements DEF Grows
  <2>2. i \in 1 .. n
    BY <2>1
  <2>3. j \in Elements(g.in[i])
    BY <1>3, <1>5, <2>2 DEF Grows
  <2>4. i \in Elements(g.out[j])
    BY <2>2, <2>3 DEF Arrives
  <2>5. j \in 1 .. n
    <3>1. Reaches(g, n, i)
      BY <1>1, <2>2, AboveIs
    <3> QED BY <2>2, <2>3, <3>1 DEF Reaches
  <2>6. out[j] = g.out[j]
    BY <1>3, <2>5 DEF Grows
  <2> QED BY <2>4, <2>6
<1>6. b \in Linked(g, n + 1)
  BY <1>3, <1>4 DEF Linked
<1>7. Arrives(b, n + 1) /\ Grows(b.in, g.in, n)
  BY <1>3, <1>4, <1>5 DEF Arrives
<1> QED BY <1>6, <1>7 DEF b

\* The next action becomes a node, or the graph has failed.
LEMMA ExtendBuilt ==
  ASSUME NEW n \in Nat, NEW items \in Seq(Actions), n < Len(items), NEW st,
         NEW g, Built(g, n, items, st)
  PROVE  \/ Built(Extend(g, items, st), n + 1, items, st) /\ Extend(g, items, st).failed = g.failed
         \/ Built(Extend(g, items, st), n, items, st) /\ Extend(g, items, st).failed
<1> DEFINE new == n + 1
           reqs == Requirements(items[new])
           linked == Satisfied(Bare(g), reqs, new, items)
           foes == get_node_contradict(linked.graph, new, items)
           graph == Separated(linked.graph, foes, new)
           after == get_state(graph, new, items, st)
<1>0. /\ Shape(g, n) /\ Arrives(g, n)
      /\ \A i \in 1 .. n : Stands(g, items, st, i) /\ Earned(g, items, i)
  BY DEF Built
<1>1. /\ g = [roots |-> g.roots, failed |-> g.failed, state |-> g.state, in |-> g.in, out |-> g.out]
      /\ g.in \in In(n) /\ g.out \in Out(n) /\ g.roots \in 0 .. n /\ g.failed \in BOOLEAN
      /\ Len(g.state) = n /\ DOMAIN g.state = 1 .. n
  BY <1>0 DEF Shape
<1>2. Extend(g, items, st) = IF linked.open \subseteq after THEN [graph EXCEPT !.state = Append(@, after)]
                             ELSE [g EXCEPT !.failed = TRUE]
  BY <1>1 DEF Extend, Bare
<1>3. Bare(g) \in Linked(g, new) /\ Arrives(Bare(g), new) /\ Grows(Bare(g).in, g.in, n)
  BY <1>0, BareGrows
<1>4. /\ new \in 1 .. new /\ new \in Nat /\ new \in Nat \ {0} /\ new \in 1 .. Len(items)
      /\ new - 1 = n /\ g.roots \in 0 .. new /\ DOMAIN g.state = 1 .. new - 1
  BY <1>1
<1>5. reqs \in Seq(Facts)
  <2>1. items[new] \in Actions
    BY <1>4
  <2> HIDE DEF new
  <2> QED BY <2>1, ActionAssumption DEF Requirements
<1> HIDE DEF new, reqs
<1>6. /\ linked.graph \in Linked(g, new) /\ Wider(linked.graph, Bare(g), new)
      /\ Meets(linked, reqs, new, items, Len(reqs))
  BY <1>3, <1>4, <1>5, SatisfiedMeets
<1> HIDE DEF linked
<1>7. linked.graph.out \in Out(new) /\ linked.graph.roots \in 0 .. new /\ linked.graph.state = g.state
  BY <1>4, <1>6 DEF Linked
<1>8. foes \in Seq(1 .. new - 1)
  <2> DEFINE others == DOMAIN g.state \ {new}
             before == 1 .. new - 1
  <2>1. foes \in Seq(others)
    BY <1>4, <1>7, ContradictTyped
  <2>2. others \subseteq before
    BY <1>4
  <2> HIDE DEF foes, others, before
  <2>3. foes \in Seq(before)
    BY <2>1, <2>2, SeqWithin
  <2> QED BY <2>3 DEF before
<1> HIDE DEF foes
<1>9. graph \in Linked(g, new) /\ Wider(graph, linked.graph, new)
  <2> DEFINE h == linked.graph
  <2>1. h \in Linked(g, new) /\ Arrives(h, new)
    BY <1>6 DEF Wider
  <2> HIDE DEF h
  <2>2. Separated(h, foes, new) \in Linked(g, new) /\ Wider(Separated(h, foes, new), h, new)
    BY <1>4, <1>8, <2>1, SeparatedTyped, SeparatedWider
  <2> QED BY <2>2 DEF h
<1> HIDE DEF graph
<1>10. PICK X : g.state \in Seq(X)
  BY <1>0 DEF Shape
<1>11. Wider(graph, Bare(g), new)
  BY <1>4, <1>6, <1>9, WiderTransitive
<1>12. after = After([k \in DOMAIN Above(graph)[new] |-> items[Above(graph)[new][k]]], st)
  BY DEF get_state
<1> HIDE DEF after
<1>13. ASSUME linked.open \subseteq after
       PROVE  Built(Extend(g, items, st), n + 1, items, st) /\ Extend(g, items, st).failed = g.failed
  <2> DEFINE states == Append(g.state, after)
             e == [graph EXCEPT !.state = Append(@, after)]
  <2>1. e = [roots |-> g.roots, failed |-> g.failed, state |-> states,
             in |-> graph.in, out |-> graph.out]
        /\ graph.in \in In(new) /\ graph.out \in Out(new) /\ graph.state = g.state
    <3>1. graph = [roots |-> g.roots, failed |-> g.failed, state |-> g.state,
                   in |-> graph.in, out |-> graph.out]
          /\ graph.in \in In(new) /\ graph.out \in Out(new)
      BY <1>9 DEF Linked
    <3>2. graph.state = g.state
      BY <1>9 DEF Linked
    <3>3. e = [graph EXCEPT !.state = states]
      BY <3>2, Zenon
    <3> HIDE DEF states, e
    <3> QED BY <3>1, <3>2, <3>3
  <2>2. g.state \in Seq(X \union {after})
    <3>1. X \subseteq X \union {after}
      OBVIOUS
    <3> QED BY <1>10, <3>1, SeqWithin
  <2>3. /\ states \in Seq(X \union {after}) /\ Len(states) = new
        /\ \A i \in 1 .. n : states[i] = g.state[i]
        /\ states[new] = after
    <3> DEFINE Y == X \union {after}
               s == g.state
    <3>1. s \in Seq(Y) /\ after \in Y /\ Len(s) = n
      BY <1>1, <2>2
    <3> HIDE DEF Y, s
    <3>2. /\ Append(s, after) \in Seq(Y) /\ Len(Append(s, after)) = n + 1
          /\ \A i \in 1 .. n : Append(s, after)[i] = s[i]
          /\ Append(s, after)[n + 1] = after
      BY <3>1, AppendTyped
    <3> QED BY <3>2 DEF Y, s, new
  <2>5. Extend(g, items, st) = e
    BY <1>2, <1>13
  <2> HIDE DEF e, states
  <2>6. /\ e.roots = g.roots /\ e.failed = g.failed /\ e.state = states
        /\ e.in = graph.in /\ e.out = graph.out
    BY <2>1
  <2>7. Shape(e, new)
    <3>1. e \in [roots : 0 .. new, failed : BOOLEAN, state : {e.state}, in : In(new), out : Out(new)]
      BY <1>1, <1>4, <2>1, <2>6
    <3>2. e.state \in Seq(X \union {after}) /\ Len(e.state) = new
      BY <2>3, <2>6
    <3> QED BY <3>1, <3>2 DEF Shape
  <2>8. Arrives(e, new)
    BY <1>9, <2>6 DEF Wider, Arrives
  <2>9. ASSUME NEW i \in 1 .. n PROVE Stands(e, items, st, i) /\ Earned(e, items, i)
    <3>1. \A j \in 1 .. n : graph.in[j] = g.in[j]
      BY <1>3, <1>4, <1>11 DEF Wider, Grows
    <3>2. \A j \in 1 .. i : g.in[j] = e.in[j] /\ g.state[j] = e.state[j]
      BY <2>3, <2>6, <3>1
    <3>3. i \in 1 .. new /\ e.in \in In(new)
      BY <2>1, <2>6 DEF new
    <3> QED BY <1>0, <1>1, <1>4, <3>2, <3>3, BuiltSame
  <2>10. \A i : Above(e)[i] = Above(graph)[i]
    BY <2>6 DEF Above
  <2>11. Stands(e, items, st, new)
    <3>1. get_state(e, new, items, st) = after
      BY <1>12, <2>10 DEF get_state
    <3> QED BY <2>3, <2>6, <3>1 DEF Stands
  <2>12. ASSUME NEW r \in Elements(reqs) PROVE r \in e.state[new] \/ Met(e, items, r, new)
    <3>1. PICK k \in 1 .. Len(reqs) : r = reqs[k]
      BY <1>5, SeqParts DEF Elements
    <3>2. r \in linked.open \/ Met(linked.graph, items, r, new)
      BY <1>6, <3>1 DEF Meets
    <3>3. r \in linked.open => r \in e.state[new]
      BY <1>13, <2>3, <2>6
    <3>4. ASSUME Met(linked.graph, items, r, new) PROVE Met(e, items, r, new)
      <4>1. graph.state = linked.graph.state
        BY <1>7, <2>1
      <4>2. Met(graph, items, r, new)
        BY <1>4, <1>9, <3>4, <4>1, MetWider
      <4>3. \A i : Up(e, i) = Up(graph, i)
        BY <2>10 DEF Up
      <4>4. \A i \in 1 .. new - 1 : Source(e, items, i, r) <=> Source(graph, items, i, r)
        BY <1>4, <2>1, <2>3, <2>6 DEF Source
      <4> QED BY <4>2, <4>3, <4>4 DEF Met, LastSource
    <3> QED BY <3>2, <3>3, <3>4
  <2>13. Earned(e, items, new)
    BY <2>12 DEF Earned, reqs
  <2>14. \A i \in 1 .. new : i = new \/ i \in 1 .. n
    BY <1>4
  <2>15. Built(e, new, items, st)
    BY <2>7, <2>8, <2>9, <2>11, <2>13, <2>14 DEF Built
  <2> QED BY <2>5, <2>6, <2>15 DEF new
<1>14. ASSUME ~(linked.open \subseteq after)
       PROVE  Built(Extend(g, items, st), n, items, st) /\ Extend(g, items, st).failed
  <2> DEFINE e == Extend(g, items, st)
  <2>1. e = [roots |-> g.roots, failed |-> TRUE, state |-> g.state, in |-> g.in, out |-> g.out]
    BY <1>1, <1>2, <1>14
  <2> HIDE DEF e
  <2>2. /\ e.failed /\ e.in = g.in /\ e.out = g.out /\ e.state = g.state
    BY <2>1
  <2>3. Shape(e, n)
    BY <1>1, <1>10, <2>1 DEF Shape
  <2>4. Arrives(e, n)
    BY <1>0, <2>2 DEF Arrives
  <2>5. ASSUME NEW i \in 1 .. n PROVE Stands(e, items, st, i) /\ Earned(e, items, i)
    BY <1>0, <1>1, <2>2, BuiltSame
  <2> QED BY <2>2, <2>3, <2>4, <2>5 DEF Built, e
<1> QED BY <1>13, <1>14

LEMMA AfterNone == ASSUME NEW st PROVE After(<<>>, st) = st
<1> DEFINE f[k \in 0 .. Len(<<>>)] == IF k = 0 THEN st ELSE Done(<<>>[k], f[k - 1])
<1>1. After(<<>>, st) = f[Len(<<>>)]
  BY DEF After
<1>2. Len(<<>>) = 0 /\ 0 .. 0 = {0}
  OBVIOUS
<1>3. f = CHOOSE h : h = [k \in 0 .. Len(<<>>) |-> IF k = 0 THEN st ELSE Done(<<>>[k], h[k - 1])]
  BY DEF f
<1> HIDE DEF f
<1> DEFINE h == [k \in 0 .. 0 |-> st]
<1>4. h = [k \in 0 .. Len(<<>>) |-> IF k = 0 THEN st ELSE Done(<<>>[k], h[k - 1])]
  BY <1>2
<1>5. f = [k \in 0 .. Len(<<>>) |-> IF k = 0 THEN st ELSE Done(<<>>[k], f[k - 1])]
  BY <1>3, <1>4
<1>6. f[0] = st
  BY <1>2, <1>5
<1> QED BY <1>1, <1>2, <1>6

\* A graph of the first k actions, or one that has failed before.
Good(g, k, items, st) == \E m \in 0 .. k : Built(g, m, items, st) /\ (g.failed <=> m # k)

\* build_action_graph, for every plan: one node for each action, and arcs to later ones only.
LEMMA BuildBuilt ==
  ASSUME NEW items \in Seq(Actions), NEW st
  PROVE  Good(build_action_graph(items, st), Len(items), items, st)
<1> DEFINE N == Len(items)
           roots == get_roots(items, st)
           none == [i \in 1 .. roots |-> <<>>]
           base == [roots |-> roots, failed |-> FALSE, state |-> [i \in 1 .. roots |-> st],
                    in |-> none, out |-> none]
           Step(x) == IF x.failed THEN x ELSE Extend(x, items, st)
           f[k \in roots .. N] == IF k = roots THEN base ELSE Step(f[k - 1])
<1>1. build_action_graph(items, st) = f[N]
  BY DEF build_action_graph
<1>2. f = CHOOSE h : h = [k \in roots .. N |-> IF k = roots THEN base ELSE Step(h[k - 1])]
  BY DEF f
<1>3. N \in Nat /\ roots \in 0 .. N /\ \A i \in 1 .. roots : is_action_executable(items[i], st)
  BY RootsTyped
<1> HIDE DEF f, roots
<1>4. Good(base, roots, items, st)
  <2>1. none \in [1 .. roots -> Seq(1 .. roots)] /\ \A i \in 1 .. roots : none[i] = <<>>
    OBVIOUS
  <2> HIDE DEF none
  <2>2. none \in In(roots) /\ none \in Out(roots)
    BY <2>1 DEF In, Out
  <2>3. [i \in 1 .. roots |-> st] \in Seq({st}) /\ Len([i \in 1 .. roots |-> st]) = roots
    <3>1. roots \in Nat /\ [i \in 1 .. roots |-> st] \in [1 .. roots -> {st}]
      BY <1>3
    <3> QED BY <3>1, SeqOf
  <2>4. base.state = [i \in 1 .. roots |-> st]
    OBVIOUS
  <2>5. base \in [roots : 0 .. roots, failed : BOOLEAN, state : {base.state},
                  in : In(roots), out : Out(roots)]
    BY <1>3, <2>2
  <2>6. base.in = none /\ ~base.failed /\ \A i \in 1 .. roots : base.state[i] = st
    OBVIOUS
  <2> HIDE DEF base
  <2>7. Shape(base, roots)
    BY <2>3, <2>4, <2>5 DEF Shape
  <2>8. Arrives(base, roots)
    BY <2>1, <2>6, EmptyElements DEF Arrives
  <2>9. ASSUME NEW i \in 1 .. roots PROVE Stands(base, items, st, i) /\ Earned(base, items, i)
    <3>1. Up(base, i) = {}
      <4>1. Reaches(base, roots, i)
        BY <1>3, <2>2, <2>6, AboveIs
      <4>2. Elements(base.in[i]) = {}
        BY <2>1, <2>6, EmptyElements
      <4> QED BY <4>1, <4>2 DEF Reaches
    <3>2. get_state(base, i, items, st) = st
      <4> DEFINE s == Above(base)[i]
                 acts == [k \in DOMAIN s |-> items[s[k]]]
      <4>1. DOMAIN s = {}
        BY <3>1 DEF Up, Elements
      <4>2. acts = <<>>
        BY <4>1
      <4>3. get_state(base, i, items, st) = After(acts, st)
        BY DEF get_state
      <4> QED BY <4>2, <4>3, AfterNone
    <3>3. Elements(Requirements(items[i])) \subseteq st
      BY <1>3 DEF is_action_executable, check
    <3> QED BY <2>6, <3>2, <3>3 DEF Stands, Earned
  <2>10. Built(base, roots, items, st)
    BY <2>7, <2>8, <2>9 DEF Built
  <2> QED BY <1>3, <2>6, <2>10 DEF Good
<1>5. ASSUME NEW x, NEW k \in Nat, k < N, Good(x, k, items, st) PROVE Good(Step(x), k + 1, items, st)
  <2>1. PICK m \in 0 .. k : Built(x, m, items, st) /\ (x.failed <=> m # k)
    BY <1>5 DEF Good
  <2>2. CASE x.failed
    <3>1. Step(x) = x /\ m \in 0 .. k + 1 /\ m # k + 1
      BY <1>5, <2>1, <2>2
    <3> QED BY <2>1, <2>2, <3>1 DEF Good
  <2>3. CASE ~x.failed
    <3>1. \/ Built(Extend(x, items, st), k + 1, items, st) /\ ~Extend(x, items, st).failed
          \/ Built(Extend(x, items, st), k, items, st) /\ Extend(x, items, st).failed
      BY <1>5, <2>1, <2>3, ExtendBuilt DEF N
    <3>2. Step(x) = Extend(x, items, st)
      BY <2>3
    <3>3. k \in 0 .. k + 1 /\ k + 1 \in 0 .. k + 1 /\ k # k + 1
      BY <1>5
    <3> QED BY <3>1, <3>2, <3>3 DEF Good
  <2> QED BY <2>2, <2>3
<1> HIDE DEF base, Step, N
<1> DEFINE Q == {m \in 0 .. N - roots : \E w : /\ w[roots] = base
                                              /\ \A k \in roots + 1 .. roots + m : w[k] = Step(w[k - 1])}
<1>6. N - roots \in Nat /\ roots + (N - roots) = N
  BY <1>3
<1>7. 0 \in Q
  <2> DEFINE w == [k \in {roots} |-> base]
  <2>1. w[roots] = base /\ roots + 1 .. roots + 0 = {}
    BY <1>3
  <2> HIDE DEF w
  <2>2. \E v : v[roots] = base /\ \A k \in roots + 1 .. roots + 0 : v[k] = Step(v[k - 1])
    BY <2>1, Zenon
  <2>3. 0 \in 0 .. N - roots
    BY <1>6
  <2> QED BY <2>2, <2>3, Zenon
<1>8. ASSUME NEW m \in 1 .. N - roots, m - 1 \in Q PROVE m \in Q
  <2> DEFINE top == roots + m
  <2>1. top \in Nat /\ roots < top /\ roots + (m - 1) = top - 1 /\ top - 1 \in roots .. top
    BY <1>3, <1>6
  <2>2. PICK w : w[roots] = base /\ \A k \in roots + 1 .. top - 1 : w[k] = Step(w[k - 1])
    BY <1>8, <2>1
  <2> DEFINE v == [k \in roots .. top |-> IF k = top THEN Step(w[top - 1]) ELSE w[k]]
  <2> HIDE DEF top
  <2>3. v[top] = Step(w[top - 1]) /\ \A k \in roots .. top - 1 : v[k] = w[k]
    BY <1>3, <2>1
  <2> HIDE DEF v
  <2>4. v[roots] = base
    BY <1>3, <2>1, <2>2, <2>3
  <2>5. ASSUME NEW k \in roots + 1 .. top PROVE v[k] = Step(v[k - 1])
    <3>1. k - 1 \in roots .. top - 1 /\ (k = top \/ k \in roots + 1 .. top - 1)
      BY <1>3, <2>1
    <3>2. v[k - 1] = w[k - 1]
      BY <2>3, <3>1
    <3>3. CASE k = top
      BY <2>3, <3>2, <3>3
    <3>4. CASE k \in roots + 1 .. top - 1
      <4>1. v[k] = w[k]
        BY <1>3, <2>1, <2>3, <3>4
      <4> QED BY <2>2, <3>2, <3>4, <4>1
    <3> QED BY <3>1, <3>3, <3>4
  <2>6. \E x : x[roots] = base /\ \A k \in roots + 1 .. top : x[k] = Step(x[k - 1])
    BY <2>4, <2>5, Zenon
  <2>7. m \in 0 .. N - roots
    BY <1>6
  <2> QED BY <2>6, <2>7, Zenon DEF top
<1>9. N - roots \in Q
  <2> HIDE DEF Q
  <2>1. 0 .. N - roots \subseteq Q
    BY <1>6, <1>7, <1>8, Climb
  <2> QED BY <1>6, <2>1
<1>10. PICK w : w[roots] = base /\ \A k \in roots + 1 .. N : w[k] = Step(w[k - 1])
  BY <1>6, <1>9
<1>11. f = [k \in roots .. N |-> IF k = roots THEN base ELSE Step(f[k - 1])]
  <2> DEFINE h == [k \in roots .. N |-> w[k]]
  <2>1. \A k \in roots .. N : h[k] = w[k]
    OBVIOUS
  <2>2. \A k \in roots .. N : k = roots \/ (k \in roots + 1 .. N /\ k - 1 \in roots .. N)
    BY <1>3
  <2>3. \A k \in roots .. N : h[k] = IF k = roots THEN base ELSE Step(h[k - 1])
    <3> HIDE DEF h
    <3> QED BY <1>10, <2>1, <2>2
  <2>4. h = [k \in roots .. N |-> IF k = roots THEN base ELSE Step(h[k - 1])]
    BY <2>3
  <2> HIDE DEF h
  <2> QED BY <1>2, <2>4
<1> DEFINE P == {m \in 0 .. N - roots : Good(f[roots + m], roots + m, items, st)}
<1>12. 0 \in P
  <2>1. f[roots] = base
    BY <1>3, <1>11
  <2>2. roots + 0 = roots /\ 0 \in 0 .. N - roots
    BY <1>3
  <2> QED BY <1>4, <2>1, <2>2
<1>13. ASSUME NEW m \in 1 .. N - roots, m - 1 \in P PROVE m \in P
  <2> DEFINE k == roots + m
  <2>1. k \in roots .. N /\ k # roots /\ k - 1 \in Nat /\ k - 1 < N /\ roots + (m - 1) = k - 1
        /\ (k - 1) + 1 = k /\ m \in 0 .. N - roots
    BY <1>3
  <2> HIDE DEF k
  <2>2. f[k] = IF k = roots THEN base ELSE Step(f[k - 1])
    BY <1>11, <2>1, Zenon
  <2>3. Good(f[k - 1], k - 1, items, st)
    BY <1>13, <2>1
  <2>4. Good(f[k], k, items, st)
    BY <1>5, <2>1, <2>2, <2>3
  <2> QED BY <2>1, <2>4 DEF k
<1>14. N - roots \in P
  <2> HIDE DEF P
  <2>1. 0 .. N - roots \subseteq P
    BY <1>6, <1>12, <1>13, Climb
  <2> QED BY <1>6, <2>1
<1> QED BY <1>1, <1>6, <1>14 DEF N

-----------------------------------------------------------------------------
(* The tree that is made of a graph.                                       *)

Precedes(p, b, a) == \E i, j \in DOMAIN p : i < j /\ p[i] = b /\ p[j] = a

\* A tree of a plan: it comes by actions of the plan, by each once; the block that one is
\* nested in is one of those that it comes after, and those are earlier ones of the plan.
Fits(t, p) ==
  /\ t.order \in Seq(Elements(p)) /\ IsInjective(t.order)
  /\ \A a \in Elements(t.order) :
       /\ t.under[a] \subseteq t.waits[a]
       /\ \A b \in t.waits[a] : Precedes(p, b, a)
       /\ \A b \in t.under[a] : Precedes(t.order, b, a)

\* The tree that is rendered of such a graph, when it comes by no node twice.
LEMMA RenderedFits ==
  ASSUME NEW p \in Seq(Actions), IsInjective(p), NEW m \in 0 .. Len(p), NEW g, Shape(g, m),
         NEW order \in Seq(1 .. m), IsInjective(order)
  PROVE  Fits(Rendered(g, order, p), p)
<1> DEFINE t == Rendered(g, order, p)
           place(i) == CHOOSE k \in DOMAIN order : order[k] = i
           earlier(i) == {k \in 1 .. place(i) - 1 : order[k] \in Elements(g.in[i])}
           node(a) == CHOOSE i \in DOMAIN p : p[i] = a
           names == {p[i] : i \in Elements(order)}
           under == [a \in names |-> {p[order[k]] : k \in Greatest(earlier(node(a)))}]
           waits == [a \in names |-> {p[j] : j \in Elements(g.in[node(a)])}]
           ord == [k \in DOMAIN order |-> p[order[k]]]
<1>1. t.order = ord /\ t.under = under /\ t.waits = waits
  BY DEF Rendered
<1> HIDE DEF t
<1>2. /\ DOMAIN order = 1 .. Len(order) /\ Len(order) \in Nat
      /\ \A k \in DOMAIN order : order[k] \in 1 .. m
      /\ DOMAIN p = 1 .. Len(p) /\ Len(p) \in Nat /\ \A i \in 1 .. m : i \in DOMAIN p
  OBVIOUS
<1>3. DOMAIN ord = 1 .. Len(order) /\ \A k \in 1 .. Len(order) : ord[k] = p[order[k]]
  BY <1>2
<1>4. ord \in Seq(Elements(p))
  <2>1. \A k \in DOMAIN order : p[order[k]] \in Elements(p)
    BY <1>2 DEF Elements
  <2>2. ord \in [1 .. Len(order) -> Elements(p)]
    BY <1>2, <2>1
  <2> HIDE DEF ord
  <2> QED BY <1>2, <2>2, SeqOf
<1>5. \A i, j \in DOMAIN p : p[i] = p[j] => i = j
  BY DEF IsInjective
<1>6. \A k, l \in DOMAIN order : order[k] = order[l] => k = l
  BY DEF IsInjective
<1>7. IsInjective(ord)
  <2> HIDE DEF ord
  <2> QED BY <1>2, <1>3, <1>5, <1>6 DEF IsInjective
<1>8. ASSUME NEW a \in Elements(ord)
      PROVE  /\ under[a] \subseteq waits[a]
             /\ \A b \in waits[a] : Precedes(p, b, a)
             /\ \A b \in under[a] : Precedes(ord, b, a)
  <2>1. PICK k \in DOMAIN order : a = p[order[k]]
    <3> HIDE DEF ord
    <3> QED BY <1>2, <1>3 DEF Elements
  <2> DEFINE i == order[k]
  <2>2. i \in 1 .. m /\ i \in DOMAIN p /\ p[i] = a
    BY <1>2, <2>1
  <2>3. i \in Elements(order)
    BY DEF Elements
  <2> HIDE DEF i
  <2>4. a \in names
    BY <2>2, <2>3
  <2>5. node(a) = i
    BY <1>5, <2>2
  <2>6. place(i) = k
    BY <1>6 DEF i
  <2>7. g.in[i] \in Seq(1 .. i - 1)
    BY <2>2 DEF Shape, In
  <2>8. under[a] = {p[order[l]] : l \in Greatest(earlier(i))}
    <3>1. under[a] = {p[order[l]] : l \in Greatest(earlier(node(a)))}
      BY <2>4, Zenon
    <3> QED BY <2>5, <3>1, Zenon
  <2>9. waits[a] = {p[j] : j \in Elements(g.in[i])}
    <3>1. waits[a] = {p[j] : j \in Elements(g.in[node(a)])}
      BY <2>4, Zenon
    <3> QED BY <2>5, <3>1, Zenon
  <2>10. \A l \in Greatest(earlier(i)) : l \in 1 .. k - 1 /\ order[l] \in Elements(g.in[i])
    <3> HIDE DEF node, place
    <3> QED BY <2>6 DEF Greatest
  <2>11. \A j \in Elements(g.in[i]) : j \in 1 .. i - 1
    <3>1. ASSUME NEW T, NEW s \in Seq(T), NEW j \in Elements(s) PROVE j \in T
      BY <3>1 DEF Elements
    <3> QED BY <2>7, <3>1
  <2> HIDE DEF under, waits, names, node, earlier
  <2>12. under[a] \subseteq waits[a]
    BY <2>8, <2>9, <2>10
  <2>13. ASSUME NEW b \in waits[a] PROVE Precedes(p, b, a)
    <3>1. PICK j \in Elements(g.in[i]) : b = p[j]
      BY <2>9
    <3>2. j \in DOMAIN p /\ j < i
      BY <1>2, <2>2, <2>11
    <3> QED BY <2>2, <3>1, <3>2 DEF Precedes
  <2>14. ASSUME NEW b \in under[a] PROVE Precedes(ord, b, a)
    <3>1. PICK l \in Greatest(earlier(i)) : b = p[order[l]]
      BY <2>8
    <3>2. l \in DOMAIN ord /\ k \in DOMAIN ord /\ l < k
      BY <1>2, <1>3, <2>10
    <3>3. ord[l] = b /\ ord[k] = a
      BY <1>3, <2>1, <3>1, <3>2
    <3> HIDE DEF ord
    <3> QED BY <3>2, <3>3 DEF Precedes
  <2> QED BY <2>12, <2>13, <2>14
<1> HIDE DEF under, waits, ord
<1> QED BY <1>1, <1>4, <1>7, <1>8 DEF Fits, t

\* get_tree, for every plan in which no action occurs twice and in every state.
LEMMA TreeFits ==
  ASSUME NEW p \in Seq(Actions), IsInjective(p), NEW st PROVE Fits(get_tree(p, st), p)
<1> DEFINE g == build_action_graph(p, st)
<1>1. PICK m \in 0 .. Len(p) : Shape(g, m)
  BY BuildBuilt DEF Good, Built
<1> HIDE DEF g
<1>2. m \in Nat /\ g.out \in Out(m) /\ g.roots \in 0 .. m
  BY <1>1 DEF Shape
<1>3. Visits(g) \in Seq(1 .. m) /\ IsInjective(Visits(g))
  BY <1>2, WalkTyped, FirstOfTyped DEF Visits
<1>4. Fits(Rendered(g, Visits(g), p), p)
  BY <1>1, <1>3, RenderedFits
<1> QED BY <1>4 DEF get_tree, TreeOf, g
=============================================================================
