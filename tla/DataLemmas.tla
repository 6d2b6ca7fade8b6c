------------------------------ MODULE DataLemmas ------------------------------
(***************************************************************************)
(* Induction over the naturals without an operator parameter, and by it    *)
(* what SelectAt of Subsequences returns for every sequence, and SumOver   *)
(* of Sums for every finite set.                                           *)
(***************************************************************************)
EXTENDS Subsequences, Sums, FiniteSetTheorems, TLAPS

\* A set of naturals that contains 0 and, with a number, the next one is Nat:
\* otherwise k |-> k + 1 would map those below a missing number, one by one,
\* to fewer.
LEMMA SetInduction ==
  ASSUME NEW S \in SUBSET Nat, 0 \in S, \A n \in S : n + 1 \in S
  PROVE  S = Nat
<1> SUFFICES ASSUME NEW n \in Nat, n \notin S PROVE FALSE
  OBVIOUS
<1> DEFINE A == {k \in S : k <= n}
           B == A \ {0}
           next == [k \in A |-> k + 1]
<1>1. IsFiniteSet(A) /\ Cardinality(A) \in Nat /\ A \in SUBSET Nat /\ 0 \in A
  <2>1. A \in SUBSET Nat /\ \A k \in A : k <= n
    OBVIOUS
  <2>2. IsFiniteSet(A)
    <3> HIDE DEF A
    <3> QED
      BY <2>1, FS_BoundedSetOfNaturals
  <2> QED
    BY <2>1, <2>2, FS_CardinalityType
<1>2. IsFiniteSet(B) /\ Cardinality(B) < Cardinality(A)
  <2> HIDE DEF A
  <2>1. Cardinality(B) = Cardinality(A) - 1 /\ IsFiniteSet(B)
    BY <1>1, FS_RemoveElement
  <2> QED
    BY <1>1, <2>1
<1>3. next \in [A -> B]
  <2>1. \A k \in A : k + 1 \in S /\ k + 1 # n + 1 /\ k + 1 <= n /\ k + 1 # 0
    OBVIOUS
  <2> QED
    BY <2>1
<1>4. \E k, m \in A : k # m /\ next[k] = next[m]
  <2> HIDE DEF A, B, next
  <2> QED
    BY <1>1, <1>2, <1>3, FS_PigeonHole
<1> QED
  BY <1>4

\* By it, a set of naturals that is not empty has a least element.
LEMMA LeastNatural ==
  ASSUME NEW S \in SUBSET Nat, S # {}
  PROVE  \E n \in S : \A m \in S : n <= m
<1> SUFFICES ASSUME \A n \in S : \E m \in S : m < n PROVE FALSE
  OBVIOUS
<1> DEFINE I == {k \in Nat : \A m \in S : k < m}
<1>1. 0 \in I
  <2>1. ASSUME NEW m \in S PROVE 0 < m
    <3>1. m = 0 => \E p \in S : p < 0
      OBVIOUS
    <3> QED
      BY <3>1
  <2> QED
    BY <2>1
<1>2. ASSUME NEW k \in I PROVE k + 1 \in I
  <2>1. ASSUME NEW m \in S PROVE k + 1 < m
    <3>1. k < m
      OBVIOUS
    <3>2. k + 1 = m => \E p \in S : p < k + 1 /\ k < p
      OBVIOUS
    <3> QED
      BY <3>1, <3>2
  <2> QED
    BY <2>1
<1>3. I = Nat
  <2>1. I \in SUBSET Nat
    OBVIOUS
  <2> HIDE DEF I
  <2> QED
    BY <1>1, <1>2, <2>1, SetInduction
<1>4. PICK m \in S : TRUE
  OBVIOUS
<1>5. m \in I
  <2> HIDE DEF I
  <2> QED
    BY <1>3
<1> QED
  BY <1>5

-----------------------------------------------------------------------------
LEMMA FunctionIsSequence ==
  ASSUME NEW S, NEW n \in Nat, NEW f \in [1 .. n -> S]
  PROVE  f \in Seq(S) /\ Len(f) = n
OBVIOUS

LEMMA AppendIs ==
  ASSUME NEW S, NEW s \in Seq(S), NEW d \in S
  PROVE  Append(s, d) = [i \in 1 .. Len(s) + 1 |-> IF i <= Len(s) THEN s[i] ELSE d]
<1> DEFINE t == Append(s, d)
           u == [i \in 1 .. Len(s) + 1 |-> IF i <= Len(s) THEN s[i] ELSE d]
<1>1. t \in [1 .. Len(s) + 1 -> S]
  <2>1. t \in Seq(S) /\ Len(t) = Len(s) + 1
    OBVIOUS
  <2> HIDE DEF t
  <2> QED
    BY <2>1
<1>2. u \in [1 .. Len(s) + 1 -> S]
  <2>1. ASSUME NEW i \in 1 .. Len(s) + 1 PROVE (IF i <= Len(s) THEN s[i] ELSE d) \in S
    OBVIOUS
  <2> QED
    BY <2>1
<1>3. \A i \in 1 .. Len(s) + 1 : t[i] = u[i]
  OBVIOUS
<1> HIDE DEF t, u
<1>4. t = u
  BY <1>1, <1>2, <1>3
<1> QED
  BY <1>4 DEF t, u

\* What the recursion of SelectAt computes for the first n elements of s.
Kept(kept, s, positions, n) ==
  kept = [i \in 0 .. n |->
            IF i = 0 THEN <<>>
            ELSE IF i \in positions THEN Append(kept[i - 1], s[i])
            ELSE kept[i - 1]]

LEMMA KeptStep ==
  ASSUME NEW kept, NEW s, NEW positions, NEW n \in Nat, Kept(kept, s, positions, n)
  PROVE  /\ kept[0] = <<>>
         /\ \A i \in Nat : i + 1 <= n =>
              kept[i + 1] = IF i + 1 \in positions THEN Append(kept[i], s[i + 1]) ELSE kept[i]
<1>1. \A i \in 0 .. n : kept[i] = IF i = 0 THEN <<>>
                                 ELSE IF i \in positions THEN Append(kept[i - 1], s[i])
                                 ELSE kept[i - 1]
  BY DEF Kept
<1>2. ASSUME NEW i \in Nat, i + 1 <= n
      PROVE  kept[i + 1] = IF i + 1 \in positions THEN Append(kept[i], s[i + 1]) ELSE kept[i]
  <2>1. i + 1 \in 0 .. n /\ i + 1 # 0 /\ (i + 1) - 1 = i
    BY <1>2
  <2>2. kept[i + 1] = IF i + 1 \in positions THEN Append(kept[(i + 1) - 1], s[i + 1])
                                             ELSE kept[(i + 1) - 1]
    BY <1>1, <2>1, Zenon
  <2> QED
    BY <2>1, <2>2, Zenon
<1>3. kept[0] = <<>>
  BY <1>1
<1> QED
  BY <1>2, <1>3

LEMMA KeptExists ==
  ASSUME NEW s, NEW positions, NEW n \in Nat
  PROVE  \E kept : Kept(kept, s, positions, n)
<1> DEFINE S == {k \in Nat : \E kept : Kept(kept, s, positions, k)}
<1>1. 0 \in S
  <2>1. Kept([i \in 0 .. 0 |-> <<>>], s, positions, 0)
    BY DEF Kept
  <2> QED
    BY <2>1
<1>2. ASSUME NEW k \in S PROVE k + 1 \in S
  <2>1. PICK kept : Kept(kept, s, positions, k)
    OBVIOUS
  <2> DEFINE step(f, i) == IF i \in positions THEN Append(f[i - 1], s[i]) ELSE f[i - 1]
             more == [i \in 0 .. k + 1 |-> IF i \in 0 .. k THEN kept[i] ELSE step(kept, i)]
  <2>2. ASSUME NEW i \in 0 .. k + 1
        PROVE  more[i] = IF i = 0 THEN <<>> ELSE step(more, i)
    <3>1. \A j \in 0 .. k : kept[j] = IF j = 0 THEN <<>> ELSE step(kept, j)
      BY <2>1 DEF Kept
    <3>2. i = 0 \/ (i - 1 \in 0 .. k /\ more[i - 1] = kept[i - 1])
      OBVIOUS
    <3> HIDE DEF more
    <3>3. step(more, i) = step(kept, i) \/ i = 0
      BY <3>2
    <3>4. more[i] = IF i \in 0 .. k THEN kept[i] ELSE step(kept, i)
      BY DEF more
    <3>5. i \notin 0 .. k => i # 0
      OBVIOUS
    <3> HIDE DEF step
    <3> QED
      BY <3>1, <3>3, <3>4, <3>5, Zenon
  <2>3. Kept(more, s, positions, k + 1)
    <3>1. more = [i \in 0 .. k + 1 |-> more[i]]
      OBVIOUS
    <3> HIDE DEF more
    <3> QED
      BY <2>2, <3>1 DEF Kept
  <2> QED
    BY <2>3
<1>3. S = Nat
  <2>1. S \subseteq Nat
    OBVIOUS
  <2> HIDE DEF S
  <2> QED
    BY <1>1, <1>2, <2>1, SetInduction
<1> QED
  BY <1>3

LEMMA SelectRecursion ==
  ASSUME NEW s, NEW positions, Len(s) \in Nat
  PROVE  \E kept : Kept(kept, s, positions, Len(s)) /\ SelectAt(s, positions) = kept[Len(s)]
<1> DEFINE kept == CHOOSE f : Kept(f, s, positions, Len(s))
<1>1. Kept(kept, s, positions, Len(s))
  BY KeptExists
<1>2. SelectAt(s, positions) = kept[Len(s)]
  BY DEF SelectAt, Kept
<1> QED
  BY <1>1, <1>2

\* What is selected has every type the selected elements have.
LEMMA SelectType ==
  ASSUME NEW T, NEW s, NEW positions, Len(s) \in Nat,
         \A i \in 1 .. Len(s) : i \in positions => s[i] \in T
  PROVE  SelectAt(s, positions) \in Seq(T)
<1>1. PICK kept : Kept(kept, s, positions, Len(s)) /\ SelectAt(s, positions) = kept[Len(s)]
  BY SelectRecursion
<1> DEFINE I == {k \in Nat : k <= Len(s) => kept[k] \in Seq(T)}
<1>2. 0 \in I
  <2>1. kept[0] = <<>>
    BY <1>1, KeptStep
  <2>2. kept[0] \in Seq(T)
    BY <2>1
  <2> QED
    BY <2>2
<1>3. ASSUME NEW k \in I PROVE k + 1 \in I
  <2> SUFFICES ASSUME k + 1 <= Len(s) PROVE kept[k + 1] \in Seq(T)
    OBVIOUS
  <2>1. kept[k] \in Seq(T) /\ (k + 1 \in positions => s[k + 1] \in T)
    OBVIOUS
  <2>2. kept[k + 1] = IF k + 1 \in positions THEN Append(kept[k], s[k + 1]) ELSE kept[k]
    BY <1>1, KeptStep
  <2> QED
    BY <2>1, <2>2
<1>4. I = Nat
  <2>1. I \subseteq Nat
    OBVIOUS
  <2> HIDE DEF I
  <2> QED
    BY <1>2, <1>3, <2>1, SetInduction
<1> QED
  BY <1>1, <1>4

\* Selecting every position selects the sequence.
LEMMA SelectAll ==
  ASSUME NEW S, NEW s \in Seq(S), NEW positions, 1 .. Len(s) \subseteq positions
  PROVE  SelectAt(s, positions) = s
<1>1. PICK kept : Kept(kept, s, positions, Len(s)) /\ SelectAt(s, positions) = kept[Len(s)]
  BY SelectRecursion
<1> DEFINE I == {k \in Nat : k <= Len(s) =>
                    kept[k] \in Seq(S) /\ Len(kept[k]) = k /\ \A i \in 1 .. k : kept[k][i] = s[i]}
<1>2. 0 \in I
  <2>1. kept[0] = <<>>
    BY <1>1, KeptStep
  <2>2. kept[0] \in Seq(S) /\ Len(kept[0]) = 0
    BY <2>1
  <2> QED
    BY <2>2
<1>3. ASSUME NEW k \in I PROVE k + 1 \in I
  <2> SUFFICES ASSUME k + 1 <= Len(s)
               PROVE  /\ kept[k + 1] \in Seq(S) /\ Len(kept[k + 1]) = k + 1
                      /\ \A i \in 1 .. k + 1 : kept[k + 1][i] = s[i]
    OBVIOUS
  <2>1. kept[k] \in Seq(S) /\ Len(kept[k]) = k /\ \A i \in 1 .. k : kept[k][i] = s[i]
    OBVIOUS
  <2>2. k + 1 \in 1 .. Len(s) /\ s[k + 1] \in S /\ k + 1 \in positions
    OBVIOUS
  <2>3. kept[k + 1] = Append(kept[k], s[k + 1])
    <3>1. kept[k + 1] = IF k + 1 \in positions THEN Append(kept[k], s[k + 1]) ELSE kept[k]
      BY <1>1, KeptStep
    <3> QED
      BY <2>2, <3>1
  <2>4. kept[k + 1] \in Seq(S) /\ Len(kept[k + 1]) = k + 1
    BY <2>1, <2>2, <2>3
  <2>5. ASSUME NEW i \in 1 .. k + 1 PROVE kept[k + 1][i] = s[i]
    <3> DEFINE q == kept[k]
               d == s[k + 1]
    <3>1. q \in Seq(S) /\ Len(q) = k /\ d \in S
      BY <2>1, <2>2
    <3> HIDE DEF q, d
    <3>2. Append(q, d)[i] = IF i = k + 1 THEN d ELSE q[i]
      BY <3>1
    <3>3. i # k + 1 => i \in 1 .. k
      OBVIOUS
    <3> QED
      BY <2>1, <2>3, <3>2, <3>3 DEF q, d
  <2> QED
    BY <2>4, <2>5
<1>4. I = Nat
  <2>1. I \subseteq Nat
    OBVIOUS
  <2> HIDE DEF I
  <2> QED
    BY <1>2, <1>3, <2>1, SetInduction
<1>5. SelectAt(s, positions) \in Seq(S) /\ Len(SelectAt(s, positions)) = Len(s)
      /\ \A i \in 1 .. Len(s) : SelectAt(s, positions)[i] = s[i]
  BY <1>1, <1>4
<1> QED
  BY <1>5

\* What is selected depends on the elements and positions there are.
LEMMA SelectBeginning ==
  ASSUME NEW S, NEW s \in Seq(S), NEW t \in Seq(S), Len(s) <= Len(t),
         NEW P, NEW Q, NEW f, Kept(f, t, Q, Len(t)),
         \A i \in 1 .. Len(s) : s[i] = t[i] /\ (i \in P <=> i \in Q)
  PROVE  SelectAt(s, P) = f[Len(s)] /\ f[Len(s)] \in Seq(S)
<1>1. PICK e : Kept(e, s, P, Len(s)) /\ SelectAt(s, P) = e[Len(s)]
  BY SelectRecursion
<1> DEFINE I == {k \in Nat : k <= Len(s) => e[k] = f[k] /\ e[k] \in Seq(S)}
<1>2. 0 \in I
  <2>1. e[0] = <<>> /\ f[0] = <<>>
    BY <1>1, KeptStep
  <2>2. e[0] = f[0] /\ e[0] \in Seq(S)
    BY <2>1
  <2> QED
    BY <2>2
<1>3. ASSUME NEW k \in I PROVE k + 1 \in I
  <2> SUFFICES ASSUME k + 1 <= Len(s) PROVE e[k + 1] = f[k + 1] /\ e[k + 1] \in Seq(S)
    OBVIOUS
  <2>1. /\ e[k] = f[k] /\ e[k] \in Seq(S) /\ s[k + 1] = t[k + 1] /\ s[k + 1] \in S
        /\ k + 1 \in P <=> k + 1 \in Q
    OBVIOUS
  <2>2. /\ e[k + 1] = IF k + 1 \in P THEN Append(e[k], s[k + 1]) ELSE e[k]
        /\ f[k + 1] = IF k + 1 \in Q THEN Append(f[k], t[k + 1]) ELSE f[k]
    BY <1>1, KeptStep
  <2> QED
    BY <2>1, <2>2
<1>4. I = Nat
  <2>1. I \subseteq Nat
    OBVIOUS
  <2> HIDE DEF I
  <2> QED
    BY <1>2, <1>3, <2>1, SetInduction
<1> QED
  BY <1>1, <1>4

LEMMA SelectAlike ==
  ASSUME NEW S, NEW s \in Seq(S), NEW P, NEW Q, \A i \in 1 .. Len(s) : i \in P <=> i \in Q
  PROVE  SelectAt(s, P) = SelectAt(s, Q)
<1>1. PICK f : Kept(f, s, Q, Len(s)) /\ SelectAt(s, Q) = f[Len(s)]
  BY SelectRecursion
<1> QED
  BY <1>1, SelectBeginning

\* One more element is selected last, or not at all.
LEMMA SelectAppend ==
  ASSUME NEW S, NEW s \in Seq(S), NEW d \in S, NEW P
  PROVE  SelectAt(Append(s, d), P)
           = IF Len(s) + 1 \in P THEN Append(SelectAt(s, P), d) ELSE SelectAt(s, P)
<1> DEFINE t == Append(s, d)
<1>1. /\ t \in Seq(S) /\ Len(s) \in Nat /\ Len(t) = Len(s) + 1 /\ t[Len(s) + 1] = d
      /\ \A i \in 1 .. Len(s) : s[i] = t[i]
  OBVIOUS
<1> HIDE DEF t
<1>2. PICK f : Kept(f, t, P, Len(t)) /\ SelectAt(t, P) = f[Len(t)]
  BY <1>1, SelectRecursion
<1>3. SelectAt(s, P) = f[Len(s)]
  BY <1>1, <1>2, SelectBeginning
<1>4. f[Len(s) + 1] = IF Len(s) + 1 \in P THEN Append(f[Len(s)], t[Len(s) + 1]) ELSE f[Len(s)]
  BY <1>1, <1>2, KeptStep
<1> QED
  BY <1>1, <1>2, <1>3, <1>4 DEF t

\* What is selected of the beginning of a sequence begins what is selected of it.
LEMMA SelectPrefix ==
  ASSUME NEW S, NEW s \in Seq(S), NEW t \in Seq(S), Len(s) <= Len(t), NEW P, NEW Q,
         \A i \in 1 .. Len(s) : s[i] = t[i] /\ (i \in P <=> i \in Q)
  PROVE  LET p == SelectAt(s, P)
             q == SelectAt(t, Q)
         IN p \in Seq(S) /\ q \in Seq(S) /\ Len(p) <= Len(q) /\ \A i \in 1 .. Len(p) : p[i] = q[i]
<1>1. PICK f : Kept(f, t, Q, Len(t)) /\ SelectAt(t, Q) = f[Len(t)]
  BY SelectRecursion
<1>2. SelectAt(s, P) = f[Len(s)] /\ f[Len(s)] \in Seq(S)
  BY <1>1, SelectBeginning
<1> DEFINE p == f[Len(s)]
           Extends(q) == q \in Seq(S) /\ Len(p) <= Len(q) /\ \A i \in 1 .. Len(p) : p[i] = q[i]
           J == {k \in Nat : Len(s) + k <= Len(t) => Extends(f[Len(s) + k])}
<1>3. 0 \in J
  BY <1>2
<1>4. ASSUME NEW k \in J PROVE k + 1 \in J
  <2> SUFFICES ASSUME Len(s) + (k + 1) <= Len(t) PROVE Extends(f[Len(s) + (k + 1)])
    OBVIOUS
  <2> DEFINE j == Len(s) + k
  <2>1. j \in Nat /\ j + 1 \in 1 .. Len(t) /\ Extends(f[j]) /\ t[j + 1] \in S
    OBVIOUS
  <2>2. f[j + 1] = IF j + 1 \in Q THEN Append(f[j], t[j + 1]) ELSE f[j]
    <3> HIDE DEF j
    <3> QED
      BY <1>1, <2>1, KeptStep
  <2>3. Extends(f[j + 1])
    <3> HIDE DEF j, p
    <3>1. p \in Seq(S)
      BY <1>2 DEF p
    <3> QED
      BY <2>1, <2>2, <3>1
  <2>4. Len(s) + (k + 1) = j + 1
    OBVIOUS
  <2> QED
    BY <2>3, <2>4
<1>5. J = Nat
  <2>1. J \subseteq Nat
    OBVIOUS
  <2> HIDE DEF J
  <2> QED
    BY <1>3, <1>4, <2>1, SetInduction
<1>6. Extends(f[Len(t)])
  <2>1. Len(t) - Len(s) \in Nat /\ Len(s) + (Len(t) - Len(s)) = Len(t)
    OBVIOUS
  <2>2. \A k \in Nat : Len(s) + k <= Len(t) => Extends(f[Len(s) + k])
    BY <1>5
  <2> HIDE DEF J, Extends
  <2>3. Len(s) + (Len(t) - Len(s)) <= Len(t) => Extends(f[Len(s) + (Len(t) - Len(s))])
    BY <2>1, <2>2
  <2> QED
    BY <2>1, <2>3
<1> QED
  BY <1>1, <1>2, <1>6

-----------------------------------------------------------------------------
\* Without keeps elements of s that are not null.
LEMMA WithoutType ==
  ASSUME NEW S, NEW null, NEW s \in Seq(S)
  PROVE  Without(s, null) \in Seq(S \ {null})
BY SelectType DEF Without

\* Where there is no null, Without drops nothing.
LEMMA WithoutNothing ==
  ASSUME NEW S, NEW null, NEW s \in Seq(S), null \notin S
  PROVE  Without(s, null) = s
<1>1. 1 .. Len(s) \subseteq {i \in DOMAIN s : s[i] # null}
  OBVIOUS
<1> QED
  BY <1>1, SelectAll DEF Without

\* What is kept of the beginning of a sequence begins what is kept of it all.
LEMMA WithoutPrefix ==
  ASSUME NEW S, NEW null, NEW s \in Seq(S), NEW t \in Seq(S), Len(s) <= Len(t),
         \A i \in 1 .. Len(s) : s[i] = t[i]
  PROVE  LET p == Without(s, null)
             q == Without(t, null)
         IN p \in Seq(S) /\ q \in Seq(S) /\ Len(p) <= Len(q) /\ \A i \in 1 .. Len(p) : p[i] = q[i]
<1> DEFINE P == {i \in DOMAIN s : s[i] # null}
           Q == {i \in DOMAIN t : t[i] # null}
<1>1. \A i \in 1 .. Len(s) : s[i] = t[i] /\ (i \in P <=> i \in Q)
  OBVIOUS
<1> HIDE DEF P, Q
<1>2. LET p == SelectAt(s, P)
          q == SelectAt(t, Q)
      IN p \in Seq(S) /\ q \in Seq(S) /\ Len(p) <= Len(q) /\ \A i \in 1 .. Len(p) : p[i] = q[i]
  BY <1>1, SelectPrefix
<1> QED
  BY <1>2 DEF Without, P, Q
LEMMA LastAppended ==
  ASSUME NEW S, NEW n \in Nat, NEW s \in Seq(S), Len(s) = n + 1
  PROVE  \E t \in Seq(S), d \in S : Len(t) = n /\ s = Append(t, d)
<1> DEFINE front == [i \in 1 .. n |-> s[i]]
           last == s[n + 1]
<1>1. \A i \in 1 .. n + 1 : s[i] \in S
  OBVIOUS
<1>2. front \in Seq(S) /\ Len(front) = n
  BY <1>1, FunctionIsSequence
<1>3. last \in S
  BY <1>1
<1>4. \A i \in 1 .. n + 1 : s[i] = IF i <= n THEN front[i] ELSE last
  <2>1. \A i \in 1 .. n + 1 : i <= n \/ i = n + 1
    OBVIOUS
  <2>2. \A i \in 1 .. n + 1 : i <= n => i \in 1 .. n
    OBVIOUS
  <2> QED
    BY <2>1, <2>2
<1> HIDE DEF front, last
<1>5. /\ Append(front, last) \in Seq(S) /\ Len(Append(front, last)) = n + 1
      /\ \A i \in 1 .. n + 1 : Append(front, last)[i] = IF i <= n THEN front[i] ELSE last
  BY <1>2, <1>3
<1> DEFINE more == Append(front, last)
<1> HIDE DEF more
<1>6. more \in Seq(S) /\ Len(more) = n + 1 /\ \A i \in 1 .. n + 1 : s[i] = more[i]
  BY <1>4, <1>5 DEF more
<1>7. s = more
  BY <1>6
<1> QED
  BY <1>2, <1>3, <1>7 DEF more

\* F has the empty sequence and, with a sequence, each that is one longer.
Reaches(F, S) == <<>> \in F /\ \A s \in F : \A d \in S : Append(s, d) \in F

\* What is so of the empty sequence, and of every sequence with one more
\* element whenever it is so of the sequence, is so of all.
LEMMA SequenceInduction ==
  ASSUME NEW S, NEW F \in SUBSET Seq(S), Reaches(F, S)
  PROVE  F = Seq(S)
<1> DEFINE N == {n \in Nat : \A s \in Seq(S) : Len(s) = n => s \in F}
<1>1. 0 \in N
  <2>1. \A s \in Seq(S) : Len(s) = 0 => s = <<>>
    OBVIOUS
  <2> QED
    BY <2>1 DEF Reaches
<1>2. ASSUME NEW n \in N PROVE n + 1 \in N
  <2> SUFFICES ASSUME NEW s \in Seq(S), Len(s) = n + 1 PROVE s \in F
    OBVIOUS
  <2>1. PICK t \in Seq(S), d \in S : Len(t) = n /\ s = Append(t, d)
    BY LastAppended
  <2>2. t \in F
    BY <2>1
  <2> QED
    BY <2>1, <2>2 DEF Reaches
<1>3. N = Nat
  <2>1. N \in SUBSET Nat
    OBVIOUS
  <2> HIDE DEF N
  <2> QED
    BY <1>1, <1>2, <2>1, SetInduction
<1>4. \A n \in Nat : \A s \in Seq(S) : Len(s) = n => s \in F
  BY <1>3
<1> QED
  BY <1>4

-----------------------------------------------------------------------------
\* What is so of the empty set, and of a set with one more element of a
\* finite set S whenever it is so of the set, is so of S.
LEMMA FiniteInduction ==
  ASSUME NEW S, IsFiniteSet(S), NEW F \in SUBSET SUBSET S, {} \in F,
         \A T \in F : \A x \in S \ T : T \cup {x} \in F
  PROVE  S \in F
<1> DEFINE N == {n \in Nat : \A T \in SUBSET S : Cardinality(T) = n => T \in F}
<1>1. \A T \in SUBSET S : IsFiniteSet(T) /\ Cardinality(T) \in Nat
  BY FS_Subset, FS_CardinalityType
<1>2. 0 \in N
  <2>1. \A T \in SUBSET S : Cardinality(T) = 0 => T = {}
    BY <1>1, FS_EmptySet
  <2> QED
    BY <2>1
<1>3. ASSUME NEW n \in N PROVE n + 1 \in N
  <2> SUFFICES ASSUME NEW T \in SUBSET S, Cardinality(T) = n + 1 PROVE T \in F
    OBVIOUS
  <2>1. T # {}
    <3>1. n + 1 # 0
      OBVIOUS
    <3> QED
      BY <3>1, FS_EmptySet
  <2>2. PICK x \in T : TRUE
    BY <2>1
  <2>3. Cardinality(T \ {x}) = n
    <3>1. Cardinality(T \ {x}) = Cardinality(T) - 1
      BY <1>1, FS_RemoveElement
    <3>2. (n + 1) - 1 = n
      OBVIOUS
    <3> QED
      BY <3>1, <3>2
  <2>4. T \ {x} \in F
    BY <2>3
  <2>5. (T \ {x}) \cup {x} = T
    OBVIOUS
  <2> QED
    BY <2>4, <2>5
<1>4. N = Nat
  <2>1. N \in SUBSET Nat
    OBVIOUS
  <2> HIDE DEF N
  <2> QED
    BY <1>2, <1>3, <2>1, SetInduction
<1>5. \A n \in Nat : \A T \in SUBSET S : Cardinality(T) = n => T \in F
  BY <1>4
<1> QED
  BY <1>1, <1>5

\* What a recursion over the subsets of S computes.
Chosen(T) == CHOOSE x \in T : TRUE
Summand(sum, f, T) == IF T = {} THEN 0 ELSE f[Chosen(T)] + sum[T \ {Chosen(T)}]
IsSum(sum, f, S) == sum = [T \in SUBSET S |-> Summand(sum, f, T)]

LEMMA ChosenElement ==
  ASSUME NEW T, T # {}
  PROVE  Chosen(T) \in T
BY DEF Chosen

LEMMA SumExists ==
  ASSUME NEW f, NEW S, IsFiniteSet(S)
  PROVE  \E sum : IsSum(sum, f, S)
<1> DEFINE Right(sum, n) == \A T \in SUBSET S : Cardinality(T) <= n => sum[T] = Summand(sum, f, T)
           N == {n \in Nat : \E sum : sum = [T \in SUBSET S |-> sum[T]] /\ Right(sum, n)}
<1>1. \A T \in SUBSET S : IsFiniteSet(T) /\ Cardinality(T) \in Nat
  BY FS_Subset, FS_CardinalityType
<1>2. \A T \in SUBSET S : T # {} => /\ T \ {Chosen(T)} \in SUBSET S
                                    /\ Cardinality(T) = Cardinality(T \ {Chosen(T)}) + 1
  <2> SUFFICES ASSUME NEW T \in SUBSET S, T # {}
               PROVE  Cardinality(T) = Cardinality(T \ {Chosen(T)}) + 1
    OBVIOUS
  <2>1. Chosen(T) \in T
    BY ChosenElement
  <2>2. Cardinality(T \ {Chosen(T)}) = Cardinality(T) - 1
    BY <1>1, <2>1, FS_RemoveElement
  <2> QED
    BY <1>1, <2>2
<1>3. 0 \in N
  <2> DEFINE sum == [T \in SUBSET S |-> 0]
  <2>1. \A T \in SUBSET S : Cardinality(T) <= 0 => T = {}
    <3>1. \A T \in SUBSET S : Cardinality(T) <= 0 => Cardinality(T) = 0
      BY <1>1
    <3> QED
      BY <1>1, <3>1, FS_EmptySet
  <2>2. Right(sum, 0)
    BY <2>1 DEF Summand
  <2>3. sum = [T \in SUBSET S |-> sum[T]]
    OBVIOUS
  <2> HIDE DEF sum
  <2> QED
    BY <2>2, <2>3
<1>4. ASSUME NEW n \in N PROVE n + 1 \in N
  <2>1. PICK sum : sum = [T \in SUBSET S |-> sum[T]] /\ Right(sum, n)
    OBVIOUS
  <2> DEFINE more == [T \in SUBSET S |-> IF Cardinality(T) <= n THEN sum[T] ELSE Summand(sum, f, T)]
  <2>2. \A T \in SUBSET S : more[T] = Summand(sum, f, T)
    BY <2>1
  <2>3. \A T \in SUBSET S : Cardinality(T) <= n => more[T] = sum[T]
    OBVIOUS
  <2>4. more = [T \in SUBSET S |-> more[T]]
    OBVIOUS
  <2> HIDE DEF more
  <2>5. Right(more, n + 1)
    <3> SUFFICES ASSUME NEW T \in SUBSET S, Cardinality(T) <= n + 1
                 PROVE  more[T] = Summand(more, f, T)
      OBVIOUS
    <3>1. CASE T = {}
      BY <2>2, <3>1 DEF Summand
    <3>2. CASE T # {}
      <4>1. T \ {Chosen(T)} \in SUBSET S /\ Cardinality(T) = Cardinality(T \ {Chosen(T)}) + 1
        BY <1>2, <3>2
      <4>2. Cardinality(T \ {Chosen(T)}) <= n
        BY <1>1, <4>1
      <4>3. more[T \ {Chosen(T)}] = sum[T \ {Chosen(T)}]
        BY <2>3, <4>1, <4>2
      <4> QED
        BY <2>2, <4>3 DEF Summand
    <3> QED
      BY <3>1, <3>2
  <2> HIDE DEF Right
  <2>6. \E g : g = [T \in SUBSET S |-> g[T]] /\ Right(g, n + 1)
    BY <2>4, <2>5
  <2> QED
    BY <2>6
<1>5. N = Nat
  <2>1. N \in SUBSET Nat
    OBVIOUS
  <2> HIDE DEF N
  <2> QED
    BY <1>3, <1>4, <2>1, SetInduction
<1>6. PICK sum : sum = [T \in SUBSET S |-> sum[T]] /\ Right(sum, Cardinality(S))
  BY <1>1, <1>5
<1>7. \A T \in SUBSET S : sum[T] = Summand(sum, f, T)
  BY <1>6, FS_Subset
<1> QED
  BY <1>6, <1>7 DEF IsSum

LEMMA SumIs ==
  ASSUME NEW f, NEW S, IsFiniteSet(S)
  PROVE  \E sum : IsSum(sum, f, S) /\ SumOver(f, S) = sum[S]
<1> DEFINE sum == CHOOSE g : IsSum(g, f, S)
<1>1. IsSum(sum, f, S)
  BY SumExists
<1>2. SumOver(f, S) = sum[S]
  BY DEF SumOver, IsSum, Summand, Chosen
<1> QED
  BY <1>1, <1>2

\* Functions that agree on a set have the same sums over its subsets.
LEMMA SumsAgree ==
  ASSUME NEW S, IsFiniteSet(S), NEW f, NEW g, \A x \in S : f[x] = g[x],
         NEW A, NEW B, S \subseteq A, S \subseteq B,
         NEW sum, IsSum(sum, f, A), NEW other, IsSum(other, g, B)
  PROVE  sum[S] = other[S]
<1> DEFINE N == {n \in Nat : \A T \in SUBSET S : Cardinality(T) = n => sum[T] = other[T]}
<1>1. \A T \in SUBSET S : IsFiniteSet(T) /\ Cardinality(T) \in Nat
  BY FS_Subset, FS_CardinalityType
<1>2. \A T \in SUBSET S : sum[T] = Summand(sum, f, T) /\ other[T] = Summand(other, g, T)
  BY DEF IsSum
<1>3. 0 \in N
  <2>1. \A T \in SUBSET S : Cardinality(T) = 0 => T = {}
    BY <1>1, FS_EmptySet
  <2> QED
    BY <1>2, <2>1 DEF Summand
<1>4. ASSUME NEW n \in N PROVE n + 1 \in N
  <2> SUFFICES ASSUME NEW T \in SUBSET S, Cardinality(T) = n + 1 PROVE sum[T] = other[T]
    OBVIOUS
  <2>1. T # {}
    <3>1. n + 1 # 0
      OBVIOUS
    <3> QED
      BY <3>1, FS_EmptySet
  <2>2. Chosen(T) \in T
    BY <2>1, ChosenElement
  <2>3. Cardinality(T \ {Chosen(T)}) = n
    <3>1. Cardinality(T \ {Chosen(T)}) = Cardinality(T) - 1
      BY <1>1, <2>2, FS_RemoveElement
    <3>2. (n + 1) - 1 = n
      OBVIOUS
    <3> QED
      BY <3>1, <3>2
  <2>4. sum[T \ {Chosen(T)}] = other[T \ {Chosen(T)}]
    BY <2>3
  <2>5. f[Chosen(T)] = g[Chosen(T)]
    BY <2>2
  <2> QED
    BY <1>2, <2>4, <2>5 DEF Summand
<1>5. N = Nat
  <2>1. N \in SUBSET Nat
    OBVIOUS
  <2> HIDE DEF N
  <2> QED
    BY <1>3, <1>4, <2>1, SetInduction
<1>6. \A n \in Nat : \A T \in SUBSET S : Cardinality(T) = n => sum[T] = other[T]
  BY <1>5
<1> QED
  BY <1>1, <1>6

LEMMA SumCongruent ==
  ASSUME NEW S, IsFiniteSet(S), NEW f, NEW g, \A x \in S : f[x] = g[x]
  PROVE  SumOver(f, S) = SumOver(g, S)
<1>1. PICK sum : IsSum(sum, f, S) /\ SumOver(f, S) = sum[S]
  BY SumIs
<1>2. PICK other : IsSum(other, g, S) /\ SumOver(g, S) = other[S]
  BY SumIs
<1> QED
  BY <1>1, <1>2, SumsAgree

LEMMA SumRecursion ==
  ASSUME NEW f, NEW S, IsFiniteSet(S)
  PROVE  /\ S = {} => SumOver(f, S) = 0
         /\ S # {} => SumOver(f, S) = f[Chosen(S)] + SumOver(f, S \ {Chosen(S)})
<1>1. PICK sum : IsSum(sum, f, S) /\ SumOver(f, S) = sum[S]
  BY SumIs
<1>2. sum[S] = Summand(sum, f, S)
  BY <1>1 DEF IsSum
<1> DEFINE R == S \ {Chosen(S)}
<1>3. IsFiniteSet(R)
  BY FS_RemoveElement
<1> HIDE DEF R
<1>4. PICK other : IsSum(other, f, R) /\ SumOver(f, R) = other[R]
  BY <1>3, SumIs
<1>5. R \subseteq S
  BY DEF R
<1>6. sum[R] = other[R]
  BY <1>1, <1>3, <1>4, <1>5, SumsAgree
<1> QED
  BY <1>1, <1>2, <1>4, <1>6 DEF Summand, R

LEMMA SumType ==
  ASSUME NEW f, NEW S, IsFiniteSet(S), \A x \in S : f[x] \in Nat
  PROVE  SumOver(f, S) \in Nat
<1> DEFINE N == {n \in Nat : \A T \in SUBSET S : Cardinality(T) = n => SumOver(f, T) \in Nat}
<1>1. \A T \in SUBSET S : IsFiniteSet(T) /\ Cardinality(T) \in Nat
  BY FS_Subset, FS_CardinalityType
<1>2. 0 \in N
  <2>1. \A T \in SUBSET S : Cardinality(T) = 0 => T = {}
    BY <1>1, FS_EmptySet
  <2>2. SumOver(f, {}) \in Nat
    <3>1. SumOver(f, {}) = 0
      BY SumRecursion, FS_EmptySet
    <3> QED
      BY <3>1
  <2> QED
    BY <2>1, <2>2
<1>3. ASSUME NEW n \in N PROVE n + 1 \in N
  <2> SUFFICES ASSUME NEW T \in SUBSET S, Cardinality(T) = n + 1 PROVE SumOver(f, T) \in Nat
    OBVIOUS
  <2>1. T # {}
    <3>1. n + 1 # 0
      OBVIOUS
    <3> QED
      BY <3>1, FS_EmptySet
  <2>2. Chosen(T) \in T
    BY <2>1, ChosenElement
  <2>3. Cardinality(T \ {Chosen(T)}) = n
    <3>1. Cardinality(T \ {Chosen(T)}) = Cardinality(T) - 1
      BY <1>1, <2>2, FS_RemoveElement
    <3>2. (n + 1) - 1 = n
      OBVIOUS
    <3> QED
      BY <3>1, <3>2
  <2>4. SumOver(f, T \ {Chosen(T)}) \in Nat
    BY <2>3
  <2>5. f[Chosen(T)] \in Nat
    BY <2>2
  <2>6. SumOver(f, T) = f[Chosen(T)] + SumOver(f, T \ {Chosen(T)})
    BY <1>1, <2>1, SumRecursion
  <2> QED
    BY <2>4, <2>5, <2>6
<1>4. N = Nat
  <2>1. N \in SUBSET Nat
    OBVIOUS
  <2> HIDE DEF N
  <2> QED
    BY <1>2, <1>3, <2>1, SetInduction
<1>5. \A n \in Nat : \A T \in SUBSET S : Cardinality(T) = n => SumOver(f, T) \in Nat
  BY <1>4
<1> QED
  BY <1>1, <1>5

\* Any element may be the last one added: the order does not matter.
LEMMA SumSplit ==
  ASSUME NEW f, NEW S, IsFiniteSet(S), \A x \in S : f[x] \in Nat, NEW y \in S
  PROVE  SumOver(f, S) = f[y] + SumOver(f, S \ {y})
<1> DEFINE Splits(T) == \A z \in T : SumOver(f, T) = f[z] + SumOver(f, T \ {z})
           N == {n \in Nat : \A T \in SUBSET S : Cardinality(T) = n => Splits(T)}
<1>1. \A T \in SUBSET S : IsFiniteSet(T) /\ Cardinality(T) \in Nat
  BY FS_Subset, FS_CardinalityType
<1>2. 0 \in N
  <2>1. \A T \in SUBSET S : Cardinality(T) = 0 => T = {}
    BY <1>1, FS_EmptySet
  <2> QED
    BY <2>1
<1>3. ASSUME NEW n \in N PROVE n + 1 \in N
  <2> SUFFICES ASSUME NEW T \in SUBSET S, Cardinality(T) = n + 1, NEW z \in T
               PROVE  SumOver(f, T) = f[z] + SumOver(f, T \ {z})
    OBVIOUS
  <2> DEFINE x == Chosen(T)
  <2>1. x \in T
    BY ChosenElement
  <2>2. SumOver(f, T) = f[x] + SumOver(f, T \ {x})
    BY <1>1, SumRecursion
  <2> HIDE DEF x
  <2>3. \A w \in T : Cardinality(T \ {w}) = n
    <3>1. \A w \in T : Cardinality(T \ {w}) = Cardinality(T) - 1
      BY <1>1, FS_RemoveElement
    <3>2. (n + 1) - 1 = n
      OBVIOUS
    <3> QED
      BY <3>1, <3>2
  <2>4. \A w \in T : Splits(T \ {w})
    BY <2>3
  <2>5. CASE x = z
    BY <2>2, <2>5
  <2>6. CASE x # z
    <3>1. SumOver(f, T \ {x}) = f[z] + SumOver(f, (T \ {x}) \ {z})
      BY <2>1, <2>4, <2>6
    <3>2. SumOver(f, T \ {z}) = f[x] + SumOver(f, (T \ {z}) \ {x})
      BY <2>1, <2>4, <2>6
    <3>3. (T \ {x}) \ {z} = (T \ {z}) \ {x}
      OBVIOUS
    <3> DEFINE rest == SumOver(f, (T \ {z}) \ {x})
    <3>4. rest \in Nat
      <4>1. (T \ {z}) \ {x} \in SUBSET S
        OBVIOUS
      <4> QED
        BY <1>1, <4>1, SumType
    <3>5. f[x] \in Nat /\ f[z] \in Nat
      BY <2>1
    <3>6. SumOver(f, T) = f[x] + (f[z] + rest)
      BY <2>2, <3>1, <3>3
    <3>7. f[z] + SumOver(f, T \ {z}) = f[z] + (f[x] + rest)
      BY <3>2
    <3> HIDE DEF rest
    <3> QED
      BY <3>4, <3>5, <3>6, <3>7
  <2> QED
    BY <2>5, <2>6
<1>4. N = Nat
  <2>1. N \in SUBSET Nat
    OBVIOUS
  <2> HIDE DEF N
  <2> QED
    BY <1>2, <1>3, <2>1, SetInduction
<1>5. \A n \in Nat : \A T \in SUBSET S : Cardinality(T) = n => Splits(T)
  BY <1>4
<1> QED
  BY <1>1, <1>5

LEMMA SumEmpty ==
  ASSUME NEW f
  PROVE  SumOver(f, {}) = 0
BY SumRecursion, FS_EmptySet

LEMMA SumAdd ==
  ASSUME NEW f, NEW S, IsFiniteSet(S), \A x \in S : f[x] \in Nat, NEW y, y \notin S, f[y] \in Nat
  PROVE  SumOver(f, S \cup {y}) = f[y] + SumOver(f, S)
<1> DEFINE T == S \cup {y}
<1>1. IsFiniteSet(T) /\ y \in T /\ T \ {y} = S /\ \A x \in T : f[x] \in Nat
  BY FS_AddElement
<1> HIDE DEF T
<1>2. SumOver(f, T) = f[y] + SumOver(f, T \ {y})
  BY <1>1, SumSplit
<1> QED
  BY <1>1, <1>2 DEF T

\* A sum over two disjoint sets.
LEMMA SumApart ==
  ASSUME NEW f, NEW A, NEW B, IsFiniteSet(A), IsFiniteSet(B), A \cap B = {},
         \A x \in A \cup B : f[x] \in Nat
  PROVE  SumOver(f, A \cup B) = SumOver(f, A) + SumOver(f, B)
<1> DEFINE F == {T \in SUBSET B : SumOver(f, A \cup T) = SumOver(f, A) + SumOver(f, T)}
<1>1. \A T \in SUBSET B : IsFiniteSet(T) /\ IsFiniteSet(A \cup T)
  BY FS_Subset, FS_Union
<1>2. SumOver(f, A) \in Nat /\ \A T \in SUBSET B : SumOver(f, T) \in Nat
  BY <1>1, SumType
<1>3. {} \in F
  <2>1. A \cup {} = A
    OBVIOUS
  <2>2. SumOver(f, A \cup {}) = SumOver(f, A) + SumOver(f, {})
    BY <1>2, <2>1, SumEmpty
  <2> QED
    BY <2>2
<1>4. ASSUME NEW T \in F, NEW x \in B \ T PROVE T \cup {x} \in F
  <2>1. SumOver(f, T \cup {x}) = f[x] + SumOver(f, T)
    BY <1>1, SumAdd
  <2>2. SumOver(f, (A \cup T) \cup {x}) = f[x] + SumOver(f, A \cup T)
    <3>1. x \notin A \cup T
      OBVIOUS
    <3>2. \A z \in A \cup T : f[z] \in Nat
      OBVIOUS
    <3>3. f[x] \in Nat /\ IsFiniteSet(A \cup T)
      BY <1>1
    <3> QED
      BY <3>1, <3>2, <3>3, SumAdd
  <2>3. SumOver(f, A \cup T) = SumOver(f, A) + SumOver(f, T)
    OBVIOUS
  <2>4. A \cup (T \cup {x}) = (A \cup T) \cup {x}
    OBVIOUS
  <2>5. f[x] \in Nat /\ SumOver(f, A) \in Nat /\ SumOver(f, T) \in Nat
    BY <1>2
  <2>6. SumOver(f, A \cup (T \cup {x})) = SumOver(f, A) + SumOver(f, T \cup {x})
    <3>1. \A a, b, c \in Nat : c + (a + b) = a + (c + b)
      OBVIOUS
    <3>2. f[x] + (SumOver(f, A) + SumOver(f, T)) = SumOver(f, A) + (f[x] + SumOver(f, T))
      BY <2>5, <3>1
    <3> QED
      BY <2>1, <2>2, <2>3, <2>4, <3>2
  <2> QED
    BY <2>6
<1>5. B \in F
  <2>1. F \in SUBSET SUBSET B
    OBVIOUS
  <2> HIDE DEF F
  <2> QED
    BY <1>3, <1>4, <2>1, FiniteInduction
<1> QED
  BY <1>5

\* A sum of smaller summands is smaller.
LEMMA SumBelow ==
  ASSUME NEW f, NEW g, NEW S, IsFiniteSet(S),
         \A x \in S : f[x] \in Nat /\ g[x] \in Nat /\ f[x] <= g[x]
  PROVE  SumOver(f, S) <= SumOver(g, S)
<1> DEFINE F == {T \in SUBSET S : SumOver(f, T) <= SumOver(g, T)}
<1>1. \A T \in SUBSET S : IsFiniteSet(T) /\ SumOver(f, T) \in Nat /\ SumOver(g, T) \in Nat
  <2>1. ASSUME NEW T \in SUBSET S
        PROVE  IsFiniteSet(T) /\ SumOver(f, T) \in Nat /\ SumOver(g, T) \in Nat
    <3>1. IsFiniteSet(T) /\ \A x \in T : f[x] \in Nat /\ g[x] \in Nat
      BY FS_Subset
    <3> QED
      BY <3>1, SumType
  <2> QED
    BY <2>1
<1>2. {} \in F
  BY SumEmpty
<1>3. ASSUME NEW T \in F, NEW x \in S \ T PROVE T \cup {x} \in F
  <2>1. /\ IsFiniteSet(T) /\ SumOver(f, T) \in Nat /\ SumOver(g, T) \in Nat
        /\ SumOver(f, T) <= SumOver(g, T)
    BY <1>1
  <2>2. /\ f[x] \in Nat /\ g[x] \in Nat /\ f[x] <= g[x] /\ x \notin T
        /\ \A y \in T : f[y] \in Nat /\ g[y] \in Nat
    OBVIOUS
  <2>3. SumOver(f, T \cup {x}) = f[x] + SumOver(f, T)
    BY <2>1, <2>2, SumAdd
  <2>4. SumOver(g, T \cup {x}) = g[x] + SumOver(g, T)
    BY <2>1, <2>2, SumAdd
  <2>5. SumOver(f, T \cup {x}) <= SumOver(g, T \cup {x})
    BY <2>1, <2>2, <2>3, <2>4
  <2> QED
    BY <2>5
<1>4. S \in F
  <2>1. F \in SUBSET SUBSET S
    OBVIOUS
  <2> HIDE DEF F
  <2> QED
    BY <1>2, <1>3, <2>1, FiniteInduction
<1> QED
  BY <1>4

\* A sum of summands that are within two others is within the two sums.
LEMMA SumWithin ==
  ASSUME NEW f, NEW g, NEW h, NEW S, IsFiniteSet(S),
         \A x \in S : f[x] \in Nat /\ g[x] \in Nat /\ h[x] \in Nat /\ f[x] <= g[x] + h[x]
  PROVE  SumOver(f, S) <= SumOver(g, S) + SumOver(h, S)
<1> DEFINE F == {T \in SUBSET S : SumOver(f, T) <= SumOver(g, T) + SumOver(h, T)}
<1>1. ASSUME NEW T \in SUBSET S
      PROVE  /\ IsFiniteSet(T) /\ SumOver(f, T) \in Nat
             /\ SumOver(g, T) \in Nat /\ SumOver(h, T) \in Nat
  <2>1. IsFiniteSet(T) /\ \A x \in T : f[x] \in Nat /\ g[x] \in Nat /\ h[x] \in Nat
    BY FS_Subset
  <2> QED
    BY <2>1, SumType
<1>2. {} \in F
  BY SumEmpty
<1>3. ASSUME NEW T \in F, NEW x \in S \ T PROVE T \cup {x} \in F
  <2>1. /\ IsFiniteSet(T) /\ SumOver(f, T) \in Nat /\ SumOver(g, T) \in Nat
        /\ SumOver(h, T) \in Nat /\ SumOver(f, T) <= SumOver(g, T) + SumOver(h, T)
    BY <1>1
  <2>2. /\ f[x] \in Nat /\ g[x] \in Nat /\ h[x] \in Nat /\ f[x] <= g[x] + h[x] /\ x \notin T
        /\ \A y \in T : f[y] \in Nat /\ g[y] \in Nat /\ h[y] \in Nat
    OBVIOUS
  <2>3. SumOver(f, T \cup {x}) = f[x] + SumOver(f, T)
    BY <2>1, <2>2, SumAdd
  <2>4. SumOver(g, T \cup {x}) = g[x] + SumOver(g, T)
    BY <2>1, <2>2, SumAdd
  <2>5. SumOver(h, T \cup {x}) = h[x] + SumOver(h, T)
    BY <2>1, <2>2, SumAdd
  <2>6. SumOver(f, T \cup {x}) <= SumOver(g, T \cup {x}) + SumOver(h, T \cup {x})
    BY <2>1, <2>2, <2>3, <2>4, <2>5
  <2> QED
    BY <2>6
<1>4. S \in F
  <2>1. F \in SUBSET SUBSET S
    OBVIOUS
  <2> HIDE DEF F
  <2> QED
    BY <1>2, <1>3, <2>1, FiniteInduction
<1> QED
  BY <1>4

\* Summands that are nothing add up to nothing.
LEMMA SumNothing ==
  ASSUME NEW f, NEW S, IsFiniteSet(S), \A x \in S : f[x] = 0
  PROVE  SumOver(f, S) = 0
<1> DEFINE F == {T \in SUBSET S : SumOver(f, T) = 0}
<1>1. {} \in F
  BY SumEmpty
<1>2. ASSUME NEW T \in F, NEW x \in S \ T PROVE T \cup {x} \in F
  <2>1. IsFiniteSet(T) /\ SumOver(f, T) = 0
    BY FS_Subset
  <2>2. f[x] = 0 /\ x \notin T /\ \A y \in T : f[y] \in Nat
    OBVIOUS
  <2>3. SumOver(f, T \cup {x}) = 0 + 0
    BY <2>1, <2>2, SumAdd
  <2> QED
    BY <2>3
<1>3. S \in F
  <2>1. F \in SUBSET SUBSET S
    OBVIOUS
  <2> HIDE DEF F
  <2> QED
    BY <1>1, <1>2, <2>1, FiniteInduction
<1> QED
  BY <1>3
===============================================================================
