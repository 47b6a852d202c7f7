----------------------------- MODULE FoldLemmas -----------------------------
(***************************************************************************)
(* Facts about the community modules' Min, Max and FoldLeft that the proofs *)
(* of the models share: least elements, induction over the naturals as a   *)
(* fact about sets, and what a fold over a sequence goes through.          *)
(***************************************************************************)
EXTENDS Integers, SequencesExt, FiniteSetTheorems, WellFoundedInduction, TLAPS

\* Min(S) is the least element of a non-empty set of naturals.
LEMMA MinExists ==
    ASSUME NEW S, S \in SUBSET Nat, S # {}
    PROVE  Min(S) \in S /\ \A y \in S : Min(S) <= y
<1> DEFINE Below(x) == {y \in S : y < x}
           Cuts == {Below(x) : x \in S}
<1>1. Cuts \subseteq FiniteSubsetsOf(S)
  <2> SUFFICES ASSUME NEW x \in S PROVE IsFiniteSet(Below(x))
    BY DEF FiniteSubsetsOf
  <2> QED
    BY FS_BoundedSetOfNaturals, \A y \in Below(x) : y <= x, Below(x) \in SUBSET Nat, x \in Nat
<1>2. PICK c \in Cuts : \A d \in Cuts : ~ (<<d, c>> \in StrictSubsetOrdering(S))
  <2>1. Cuts # {}
    OBVIOUS
  <2> HIDE DEF Cuts
  <2> QED
    BY <1>1, <2>1, FS_StrictSubsetOrderingWellFounded, WFMin
<1>3. PICK x \in S : c = Below(x)
  BY <1>2
<1>4. ASSUME NEW y \in S PROVE x =< y
  <2> SUFFICES ASSUME y < x PROVE FALSE
    OBVIOUS
  <2>1. y \in Below(x) /\ y \notin Below(y)
    OBVIOUS
  <2>2. \A z \in Below(y) : z \in Below(x)
    OBVIOUS
  <2>3. <<Below(y), Below(x)>> \in StrictSubsetOrdering(S)
    BY <2>1, <2>2 DEF StrictSubsetOrdering
  <2>4. Below(y) \in Cuts
    OBVIOUS
  <2> QED
    BY <1>2, <1>3, <2>3, <2>4
<1> QED
  BY <1>4 DEF Min

\* Induction: a set of naturals with 0 that each member extends has them all.
LEMMA Naturals ==
    ASSUME NEW S, 0 \in S, \A n \in Nat : n \in S => n + 1 \in S
    PROVE  Nat \subseteq S
<1> DEFINE Rest == Nat \ S
<1> SUFFICES ASSUME Rest # {} PROVE FALSE
  OBVIOUS
<1>1. Min(Rest) \in Rest /\ \A y \in Rest : Min(Rest) <= y
  BY MinExists
<1>2. Min(Rest) # 0 /\ Min(Rest) \in Nat
  BY <1>1
<1> DEFINE m == Min(Rest) - 1
<1>3. m \in Nat /\ m + 1 = Min(Rest) /\ m < Min(Rest)
  BY <1>2
<1>4. m \in S
  BY <1>1, <1>3
<1> QED
  BY <1>1, <1>3, <1>4

-----------------------------------------------------------------------------
(* Folds.                                                                  *)

\* g folds every set of positions among the first n, from the last to the first.
FoldTable(g, E, e, n, step) ==
    /\ g \in [SUBSET (1 .. n) -> E] /\ g[{}] = e
    /\ \A s \in SUBSET (1 .. n) : s # {} =>
          /\ Max(s) \in 1 .. n /\ s \ {Max(s)} \in SUBSET (1 .. n)
          /\ g[s] = step[Max(s)][g[s \ {Max(s)}]]

LEMMA FoldExists ==
    ASSUME NEW E, NEW e \in E, NEW n \in Nat, NEW step \in [1 .. n -> [E -> E]]
    PROVE  \E g : FoldTable(g, E, e, n, step)
<1> DEFINE Good(m, g) ==
              /\ g \in [SUBSET (1 .. m) -> E] /\ g[{}] = e
              /\ \A s \in SUBSET (1 .. m) : s # {} =>
                    /\ Max(s) \in 1 .. m /\ s \ {Max(s)} \in SUBSET (1 .. m)
                    /\ g[s] = step[Max(s)][g[s \ {Max(s)}]]
           S == {m \in Nat : m <= n => \E g : Good(m, g)}
<1>1. 0 \in S
  <2> DEFINE g == [s \in {{}} |-> e]
  <2>1. SUBSET (1 .. 0) = {{}}
    OBVIOUS
  <2>2. Good(0, g)
    BY <2>1
  <2> QED
    BY <2>2
<1>2. ASSUME NEW m \in Nat, m \in S, m + 1 <= n PROVE \E h : Good(m + 1, h)
  <2>0. \E g : Good(m, g)
    <3> HIDE DEF Good
    <3> QED
      BY <1>2
  <2>1. PICK g : Good(m, g)
    BY <2>0
  <2> DEFINE k == m + 1
             h == [s \in SUBSET (1 .. k) |->
                     IF k \in s THEN step[k][g[s \ {k}]] ELSE g[s]]
  <2>2. k \in 1 .. n /\ 1 .. k = (1 .. m) \cup {k} /\ k \notin 1 .. m
    BY <1>2
  <2>3. step[k] \in [E -> E]
    BY <2>2
  <2>4. \A s \in SUBSET (1 .. k) : s \ {k} \in SUBSET (1 .. m) /\ (k \notin s => s \in SUBSET (1 .. m))
    BY <2>2
  <2>5. ASSUME NEW s \in SUBSET (1 .. k), k \in s PROVE Max(s) = k
    <3>1. \A y \in s : k >= y
      BY <2>2
    <3>2. \A x \in s : (\A y \in s : x >= y) => x = k
      BY <2>2, <2>5
    <3> QED
      BY <2>5, <3>1, <3>2 DEF Max
  <2> HIDE DEF k
  <2>6. h \in [SUBSET (1 .. k) -> E] /\ h[{}] = e
    BY <2>1, <2>3, <2>4
  <2>7. ASSUME NEW s \in SUBSET (1 .. k), s # {}
        PROVE  /\ Max(s) \in 1 .. k /\ s \ {Max(s)} \in SUBSET (1 .. k)
               /\ h[s] = step[Max(s)][h[s \ {Max(s)}]]
    <3>1. CASE k \in s
      BY <2>2, <2>4, <2>5, <3>1
    <3>2. CASE k \notin s
      <4>1. s \in SUBSET (1 .. m)
        BY <2>4, <3>2
      <4>2. /\ Max(s) \in 1 .. m /\ s \ {Max(s)} \in SUBSET (1 .. m)
            /\ g[s] = step[Max(s)][g[s \ {Max(s)}]]
        BY <2>1, <2>7, <4>1
      <4> QED
        BY <2>2, <3>2, <4>1, <4>2
    <3> QED
      BY <3>1, <3>2
  <2>8. Good(k, h)
    BY <2>6, <2>7
  <2> QED
    BY <2>8 DEF k
<1>3. n \in S
  <2> HIDE DEF Good
  <2>1. \A m \in Nat : m \in S => m + 1 \in S
    BY <1>2
  <2> HIDE DEF S
  <2> QED
    BY <1>1, <2>1, Naturals
<1>4. PICK g : Good(n, g)
  <2>1. \E g : Good(n, g)
    <3> HIDE DEF Good
    <3> QED
      BY <1>3
  <2> QED
    BY <2>1
<1> QED
  BY <1>4 DEF FoldTable

LEMMA MaxOfInterval == ASSUME NEW i \in Nat \ {0} PROVE Max(1 .. i) = i
<1>1. i \in 1 .. i /\ \A y \in 1 .. i : i >= y
  OBVIOUS
<1>2. \A x \in 1 .. i : (\A y \in 1 .. i : x >= y) => x = i
  OBVIOUS
<1> QED
  BY <1>1, <1>2 DEF Max

\* f is what FoldLeft chooses: step[i] is what the fold does with the element at i.
FoldsBy(f, E, e, n, step) ==
    /\ f[{}] = e
    /\ \A s \in SUBSET (1 .. n) : s # {} /\ f[s \ {Max(s)}] \in E =>
          f[s] = step[Max(s)][f[s \ {Max(s)}]]

\* at goes from e through the states that the steps lead to.
Through(at, E, e, n, step) ==
    /\ at \in [0 .. n -> E] /\ at[0] = e
    /\ \A i \in 1 .. n : at[i] = step[i][at[i - 1]]

\* A fold over a sequence goes through its elements one by one.
LEMMA FoldReaches ==
    ASSUME NEW E, NEW e \in E, NEW n \in Nat, NEW step \in [1 .. n -> [E -> E]], NEW f,
           FoldsBy(f, E, e, n, step)
    PROVE  \E at : Through(at, E, e, n, step) /\ at[n] = f[1 .. n]
<1> DEFINE P(i) == i <= n => f[1 .. i] \in E
           S == {i \in Nat : P(i)}
           at == [i \in 0 .. n |-> f[1 .. i]]
<1>1. ASSUME NEW i \in Nat, i + 1 <= n, f[1 .. i] \in E
      PROVE  f[1 .. (i + 1)] = step[i + 1][f[1 .. i]] /\ f[1 .. (i + 1)] \in E
  <2> DEFINE s == 1 .. (i + 1)
  <2>1. Max(s) = i + 1 /\ s # {}
    BY MaxOfInterval, i + 1 \in Nat \ {0}, i + 1 \in s
  <2>2. s \ {i + 1} = 1 .. i /\ s \in SUBSET (1 .. n) /\ i + 1 \in 1 .. n
    BY <1>1
  <2> HIDE DEF s
  <2>3. f[s] = step[i + 1][f[1 .. i]]
    BY <1>1, <2>1, <2>2 DEF FoldsBy
  <2> QED
    BY <1>1, <2>2, <2>3 DEF s
<1>2. 0 \in S
  BY 1 .. 0 = {} DEF FoldsBy
<1>3. \A i \in Nat : i \in S => i + 1 \in S
  BY <1>1
<1>4. \A i \in 0 .. n : f[1 .. i] \in E
  <2> HIDE DEF S
  <2>1. Nat \subseteq S
    BY <1>2, <1>3, Naturals
  <2> QED
    BY <2>1 DEF S
<1>5. at \in [0 .. n -> E] /\ at[0] = e /\ at[n] = f[1 .. n]
  BY <1>4, 1 .. 0 = {} DEF FoldsBy
<1>6. ASSUME NEW i \in 1 .. n PROVE at[i] = step[i][at[i - 1]]
  <2>1. i - 1 \in Nat /\ (i - 1) + 1 = i /\ i - 1 \in 0 .. n /\ i \in 0 .. n
    OBVIOUS
  <2> QED
    BY <1>1, <1>4, <2>1
<1> HIDE DEF at
<1> QED
  BY <1>5, <1>6 DEF Through

\* The first k steps of f are those of g; those of g are f's after the first.
SameSteps(f, g, k) == \A i \in 1 .. k : f[i] = g[i]
NextSteps(f, g, k) == \A i \in 1 .. k : g[i] = f[i + 1]

LEMMA ThroughAlike ==
    ASSUME NEW E, NEW e, NEW n \in Nat, NEW m \in Nat, NEW k \in Nat, k <= n, k <= m,
           NEW f, NEW g, NEW at, NEW bt,
           Through(at, E, e, n, f), Through(bt, E, e, m, g), SameSteps(f, g, k)
    PROVE  at[k] = bt[k] /\ at[k] \in E
<1> DEFINE P(i) == i <= k => at[i] = bt[i]
           S == {i \in Nat : P(i)}
<1>1. 0 \in S
  BY DEF Through
<1>2. ASSUME NEW i \in Nat, i \in S PROVE i + 1 \in S
  <2> SUFFICES ASSUME i + 1 <= k PROVE at[i + 1] = bt[i + 1]
    OBVIOUS
  <2>1. /\ i + 1 \in 1 .. n /\ i + 1 \in 1 .. m /\ i + 1 \in 1 .. k
        /\ (i + 1) - 1 = i /\ at[i] = bt[i]
    BY <1>2
  <2> QED
    BY <2>1 DEF Through, SameSteps
<1>3. at[k] = bt[k]
  <2> HIDE DEF S
  <2>1. Nat \subseteq S
    BY <1>1, <1>2, Naturals
  <2> QED
    BY <2>1 DEF S
<1>4. at[k] \in E
  BY k \in 0 .. n DEF Through
<1> QED
  BY <1>3, <1>4

\* Without its first element, a sequence is folded from where that one leads.
LEMMA ThroughTail ==
    ASSUME NEW E, NEW e \in E, NEW n \in Nat \ {0}, NEW f, NEW g, NEW at, NEW bt,
           Through(at, E, e, n, f), Through(bt, E, f[1][e], n - 1, g),
           NextSteps(f, g, n - 1)
    PROVE  bt[n - 1] = at[n]
<1> DEFINE P(i) == i <= n - 1 => bt[i] = at[i + 1]
           S == {i \in Nat : P(i)}
<1>1. 0 \in S
  <2>1. 1 \in 1 .. n /\ 1 - 1 = 0 /\ 0 + 1 = 1
    OBVIOUS
  <2>2. bt[0] = f[1][e] /\ at[1] = f[1][at[0]] /\ at[0] = e
    BY <2>1 DEF Through
  <2> QED
    BY <2>1, <2>2
<1>2. ASSUME NEW i \in Nat, i \in S PROVE i + 1 \in S
  <2> SUFFICES ASSUME i + 1 <= n - 1 PROVE bt[i + 1] = at[(i + 1) + 1]
    OBVIOUS
  <2>1. /\ i + 1 \in 1 .. n - 1 /\ (i + 1) + 1 \in 1 .. n
        /\ (i + 1) - 1 = i /\ ((i + 1) + 1) - 1 = i + 1 /\ bt[i] = at[i + 1]
    BY <1>2
  <2>2. bt[i + 1] = g[i + 1][bt[i]] /\ at[(i + 1) + 1] = f[(i + 1) + 1][at[i + 1]]
    BY <2>1 DEF Through
  <2> QED
    BY <2>1, <2>2 DEF NextSteps
<1>3. P(n - 1)
  <2> HIDE DEF S
  <2>1. Nat \subseteq S
    BY <1>1, <1>2, Naturals
  <2> QED
    BY <2>1, n - 1 \in Nat DEF S
<1> QED
  BY <1>3
-----------------------------------------------------------------------------
(* Sequences.                                                              *)

LEMMA Appended ==
    ASSUME NEW S, NEW q \in Seq(S), NEW c \in S
    PROVE  /\ Append(q, c) \in Seq(S)
           /\ Len(Append(q, c)) = Len(q) + 1 /\ Len(q) \in Nat
           /\ DOMAIN q = 1 .. Len(q) /\ DOMAIN Append(q, c) = 1 .. Len(q) + 1
           /\ \A i \in DOMAIN q : Append(q, c)[i] = q[i]
           /\ Append(q, c)[Len(q) + 1] = c
OBVIOUS

LEMMA Tailed ==
    ASSUME NEW S, NEW q \in Seq(S), q # <<>>
    PROVE  /\ Head(q) \in S /\ Head(q) = q[1]
           /\ Tail(q) \in Seq(S)
           /\ Len(Tail(q)) = Len(q) - 1 /\ Len(q) \in Nat \ {0}
           /\ DOMAIN q = 1 .. Len(q) /\ DOMAIN Tail(q) = 1 .. Len(q) - 1
           /\ \A i \in 1 .. Len(q) - 1 : Tail(q)[i] = q[i + 1]
OBVIOUS
-----------------------------------------------------------------------------
(* Folds over sequences of S, where h[c][x] is what c makes of x.          *)

StepsOf(h, q) == [i \in 1 .. Len(q) |-> h[q[i]]]
Folded(h, E, e, q) == (CHOOSE at : Through(at, E, e, Len(q), StepsOf(h, q)))[Len(q)]

LEMMA StepsTyped ==
    ASSUME NEW E, NEW S, NEW h \in [S -> [E -> E]], NEW q \in Seq(S)
    PROVE  /\ Len(q) \in Nat /\ StepsOf(h, q) \in [1 .. Len(q) -> [E -> E]]
           /\ \A i \in 1 .. Len(q) : q[i] \in S /\ StepsOf(h, q)[i] = h[q[i]]
BY DEF StepsOf

LEMMA ThroughExists ==
    ASSUME NEW E, NEW e \in E, NEW n \in Nat, NEW step \in [1 .. n -> [E -> E]]
    PROVE  \E at : Through(at, E, e, n, step)
<1>1. PICK g : FoldTable(g, E, e, n, step)
  BY FoldExists
<1>2. FoldsBy(g, E, e, n, step)
  BY <1>1 DEF FoldTable, FoldsBy
<1> QED
  BY <1>2, FoldReaches

\* Whatever goes through the steps ends where the fold does.
LEMMA FoldedIs ==
    ASSUME NEW E, NEW S, NEW h \in [S -> [E -> E]], NEW e \in E, NEW q \in Seq(S),
           NEW at, Through(at, E, e, Len(q), StepsOf(h, q))
    PROVE  Folded(h, E, e, q) = at[Len(q)] /\ at[Len(q)] \in E
<1> DEFINE n == Len(q)
           step == StepsOf(h, q)
           P(bt) == Through(bt, E, e, n, step)
           chosen == CHOOSE bt : P(bt)
<1>1. P(chosen)
  <2> HIDE DEF P
  <2>1. P(at)
    BY DEF P
  <2> QED
    BY <2>1
<1>2. n \in Nat
  OBVIOUS
<1>3. Folded(h, E, e, q) = chosen[n]
  BY DEF Folded
<1> HIDE DEF chosen, n, step
<1>4. SameSteps(step, step, n)
  BY DEF SameSteps
<1>5. at[n] = chosen[n] /\ at[n] \in E
  <2> DEFINE st == StepsOf(h, q)
  <2>1. Through(at, E, e, n, st) /\ Through(chosen, E, e, n, st) /\ SameSteps(st, st, n) /\ n <= n
    BY <1>1, <1>2, <1>4 DEF n, step
  <2> HIDE DEF st
  <2> QED
    BY <1>2, <2>1, ThroughAlike
<1> QED
  BY <1>2, <1>3, <1>5 DEF n

LEMMA FoldedEmpty ==
    ASSUME NEW E, NEW S, NEW h \in [S -> [E -> E]], NEW e \in E
    PROVE  Folded(h, E, e, <<>>) = e
<1> DEFINE q == <<>>
<1>1. q \in Seq(S) /\ Len(q) = 0
  OBVIOUS
<1> HIDE DEF q
<1>2. PICK at : Through(at, E, e, Len(q), StepsOf(h, q))
  BY <1>1, StepsTyped, ThroughExists
<1> QED
  BY <1>1, <1>2, FoldedIs DEF Through, q

LEMMA FoldedTyped ==
    ASSUME NEW E, NEW S, NEW h \in [S -> [E -> E]], NEW e \in E, NEW q \in Seq(S)
    PROVE  Folded(h, E, e, q) \in E
<1>1. PICK at : Through(at, E, e, Len(q), StepsOf(h, q))
  BY StepsTyped, ThroughExists
<1> QED
  BY <1>1, FoldedIs

LEMMA FoldedAppend ==
    ASSUME NEW E, NEW S, NEW h \in [S -> [E -> E]], NEW e \in E, NEW q \in Seq(S), NEW c \in S
    PROVE  Folded(h, E, e, Append(q, c)) = h[c][Folded(h, E, e, q)]
<1> DEFINE r == Append(q, c)
           n == Len(q)
<1>1. /\ r \in Seq(S) /\ n \in Nat /\ Len(r) = n + 1 /\ r[n + 1] = c
      /\ \A i \in 1 .. n : r[i] = q[i]
  BY Appended
<1> HIDE DEF r
<1>2. PICK at : Through(at, E, e, Len(q), StepsOf(h, q))
  BY StepsTyped, ThroughExists
<1>3. PICK bt : Through(bt, E, e, Len(r), StepsOf(h, r))
  BY <1>1, StepsTyped, ThroughExists
<1>4. SameSteps(StepsOf(h, q), StepsOf(h, r), n) /\ StepsOf(h, r)[n + 1] = h[c]
  BY <1>1 DEF StepsOf, SameSteps
<1>5. at[n] = bt[n]
  <2>1. n <= Len(q) /\ n <= Len(r) /\ Len(r) \in Nat
    BY <1>1
  <2> QED
    BY <1>1, <1>2, <1>3, <1>4, <2>1, ThroughAlike
<1>6. bt[n + 1] = h[c][bt[n]]
  <2>1. n + 1 \in 1 .. Len(r) /\ (n + 1) - 1 = n
    BY <1>1
  <2> QED
    BY <1>3, <1>4, <2>1 DEF Through
<1>7. Folded(h, E, e, q) = at[n] /\ Folded(h, E, e, r) = bt[n + 1]
  BY <1>1, <1>2, <1>3, FoldedIs
<1> QED
  BY <1>5, <1>6, <1>7 DEF r

LEMMA FoldedTail ==
    ASSUME NEW E, NEW S, NEW h \in [S -> [E -> E]], NEW e \in E, NEW q \in Seq(S), q # <<>>
    PROVE  Folded(h, E, e, q) = Folded(h, E, h[Head(q)][e], Tail(q))
<1> DEFINE t == Tail(q)
           n == Len(q)
           d == h[Head(q)][e]
<1>1. /\ Head(q) \in S /\ Head(q) = q[1] /\ t \in Seq(S) /\ Len(t) = n - 1
      /\ n \in Nat \ {0} /\ \A i \in 1 .. n - 1 : t[i] = q[i + 1]
  BY Tailed
<1>2. d \in E
  BY <1>1
<1> HIDE DEF t, d
<1>3. PICK at : Through(at, E, e, Len(q), StepsOf(h, q))
  BY StepsTyped, ThroughExists
<1>4. PICK bt : Through(bt, E, d, Len(t), StepsOf(h, t))
  BY <1>1, <1>2, StepsTyped, ThroughExists
<1>5. /\ StepsOf(h, q)[1][e] = d
      /\ NextSteps(StepsOf(h, q), StepsOf(h, t), n - 1)
  BY <1>1 DEF StepsOf, NextSteps, d
<1>6. bt[n - 1] = at[n]
  BY <1>1, <1>3, <1>4, <1>5, ThroughTail
<1>7. Folded(h, E, e, q) = at[n] /\ Folded(h, E, d, t) = bt[n - 1]
  BY <1>1, <1>2, <1>3, <1>4, FoldedIs
<1> QED
  BY <1>6, <1>7 DEF t, d

\* v carries every step of h over to one of k, and so it does the folds.
Carries(v, h, k, E, F, S) ==
    /\ h \in [S -> [E -> E]] /\ k \in [S -> [F -> F]] /\ v \in [E -> F]
    /\ \A x \in E, c \in S : v[h[c][x]] = k[c][v[x]]

LEMMA FoldedAlong ==
    ASSUME NEW E, NEW F, NEW S, NEW h, NEW k, NEW v, NEW e \in E, NEW q \in Seq(S),
           Carries(v, h, k, E, F, S)
    PROVE  v[Folded(h, E, e, q)] = Folded(k, F, v[e], q)
<1>0. h \in [S -> [E -> E]] /\ k \in [S -> [F -> F]] /\ v \in [E -> F]
  BY DEF Carries
<1> DEFINE n == Len(q)
<1>1. PICK at : Through(at, E, e, Len(q), StepsOf(h, q))
  BY <1>0, StepsTyped, ThroughExists
<1>2. n \in Nat
  OBVIOUS
<1> DEFINE bt == [i \in 0 .. n |-> v[at[i]]]
<1>3. bt \in [0 .. n -> F] /\ bt[0] = v[e]
  BY <1>0, <1>1 DEF Through
<1>4. ASSUME NEW i \in 1 .. n PROVE bt[i] = StepsOf(k, q)[i][bt[i - 1]]
  <2>1. /\ i \in 0 .. n /\ i - 1 \in 0 .. n
        /\ at[i] = StepsOf(h, q)[i][at[i - 1]] /\ at[i - 1] \in E
    BY <1>0, <1>1 DEF Through
  <2>2. q[i] \in S /\ StepsOf(h, q)[i] = h[q[i]] /\ StepsOf(k, q)[i] = k[q[i]]
    BY DEF StepsOf
  <2>3. v[h[q[i]][at[i - 1]]] = k[q[i]][v[at[i - 1]]]
    BY <2>1, <2>2 DEF Carries
  <2> QED
    BY <2>1, <2>2, <2>3
<1> HIDE DEF bt
<1>5. Through(bt, F, v[e], Len(q), StepsOf(k, q))
  BY <1>0, <1>3, <1>4 DEF Through
<1>6. Folded(k, F, v[e], q) = bt[n] /\ Folded(h, E, e, q) = at[n]
  BY <1>0, <1>1, <1>5, FoldedIs
<1> QED
  BY <1>2, <1>6 DEF bt
\* G[i] holds what may come of the first i elements.
LeadsOn(G, h, E, q) ==
    /\ G \in [0 .. Len(q) -> SUBSET E]
    /\ \A i \in 1 .. Len(q) : \A x \in G[i - 1] : h[q[i]][x] \in G[i]

LEMMA FoldedWithin ==
    ASSUME NEW E, NEW S, NEW h \in [S -> [E -> E]], NEW q \in Seq(S),
           NEW G, NEW e \in G[0], LeadsOn(G, h, E, q)
    PROVE  e \in E /\ Folded(h, E, e, q) \in G[Len(q)]
<1> DEFINE n == Len(q)
<1>1. /\ n \in Nat
      /\ \A i \in 1 .. n : q[i] \in S /\ StepsOf(h, q)[i] = h[q[i]]
  BY DEF StepsOf
<1>2. e \in E
  BY <1>1 DEF LeadsOn
<1>3. PICK at : Through(at, E, e, Len(q), StepsOf(h, q))
  BY <1>2, StepsTyped, ThroughExists
<1>4. Folded(h, E, e, q) = at[n]
  BY <1>2, <1>3, FoldedIs
<1> DEFINE P(i) == i <= n => at[i] \in G[i]
           R == {i \in Nat : P(i)}
<1>5. P(0)
  BY <1>3 DEF Through
<1>6. ASSUME NEW i \in Nat, P(i) PROVE P(i + 1)
  <2> SUFFICES ASSUME i + 1 <= n PROVE at[i + 1] \in G[i + 1]
    OBVIOUS
  <2>1. i + 1 \in 1 .. n /\ (i + 1) - 1 = i /\ at[i] \in G[i]
    BY <1>1, <1>6
  <2>2. at[i + 1] = h[q[i + 1]][at[i]]
    BY <1>1, <1>3, <2>1 DEF Through
  <2> QED
    BY <2>1, <2>2 DEF LeadsOn
<1>7. n \in R
  <2> HIDE DEF P
  <2>1. 0 \in R /\ \A i \in Nat : i \in R => i + 1 \in R
    BY <1>5, <1>6
  <2> HIDE DEF R
  <2> QED
    BY <1>1, <2>1, Naturals
<1> QED
  BY <1>1, <1>2, <1>4, <1>7
=============================================================================
