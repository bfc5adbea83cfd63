-------------------------- MODULE Conversation_proofs --------------------------
(***************************************************************************)
(* What a conversation shows and keeps, for any values of the constants.     *)
(*                                                                         *)
(* Forward: the history is typed, no pack is longer than its budget and no   *)
(* hot set longer than it may be, what is left out as known was shown whole, *)
(* and a sample that says nothing had nothing to correct.                    *)
(*                                                                         *)
(* Memory: scans and chunks of a message of any length, the pooling of the   *)
(* matrix to any KMax, and which paths stay facts through any prunes.        *)
(*                                                                         *)
(* They share the lemmas on folds and on sets in order.                      *)
(***************************************************************************)
EXTENDS Forward, Memory, TLAPS, FiniteSetTheorems, SequenceTheorems, WellFoundedInduction

-----------------------------------------------------------------------------
(* Folds.  The prover has no induction over an operator, so a loop is unrolled *)
(* by hand: FoldLeft is the value, at the whole domain, of a function it of    *)
(* sets of places, and step[k] is what the loop does with the k-th element.    *)

\* What holds at 0, and at each number behind one where it holds, holds up to n.
LEMMA Induct ==
  ASSUME NEW n \in Nat, NEW S \in SUBSET (0..n), 0 \in S,
         \A k \in 1..n : k - 1 \in S => k \in S
  PROVE  \A k \in 0..n : k \in S
<1> DEFINE T == (0..n) \ S
<1>1. SUFFICES ASSUME T # {} PROVE FALSE
  OBVIOUS
<1>2. T \subseteq Nat
  OBVIOUS
<1>3. PICK m \in T : \A k \in T : <<k, m>> \notin OpToRel(<, Nat)
  BY <1>1, <1>2, WFMin, NatLessThanWellFounded, Zenon
<1>4. \A k \in T : ~(k < m)
  BY <1>2, <1>3, Zenon DEF OpToRel
<1>5. m \in T
  BY <1>3
<1>6. m \in 1..n /\ m - 1 \in 0..n /\ m - 1 < m
  BY <1>5
<1>7. m - 1 \in S
  BY <1>4, <1>6
<1>8. m \in S
  BY <1>6, <1>7
<1> QED BY <1>5, <1>8

\* A set of places has its last one.
LEMMA MaxIs ==
  ASSUME NEW n \in Nat, NEW s \in SUBSET (1..n), s # {}
  PROVE  Max(s) \in s /\ \A k \in s : k <= Max(s)
<1>1. \E k \in s : \A j \in s : j <= k
  <2> DEFINE T == {k \in 0..n : \A j \in s : j <= n - k}
  <2>1. T \subseteq 0..n /\ 0 \in T
    OBVIOUS
  <2>2. n \notin T
    <3>1. PICK j \in s : j \in 1..n
      OBVIOUS
    <3> QED BY <3>1
  <2>3. PICK k \in 1..n : k - 1 \in T /\ k \notin T
    <3> HIDE DEF T
    <3>1. n \in 0..n
      OBVIOUS
    <3> QED BY <2>1, <2>2, <3>1, Induct
  <2> QED BY <2>3
<1> QED BY <1>1 DEF Max

\* The last of the first k places is k.
LEMMA Intervals ==
  ASSUME NEW k \in Nat \ {0}
  PROVE  Max(1..k) = k /\ (1..k) \ {k} = 1..(k-1) /\ 1..k # {}
<1>1. 1..k \in SUBSET (1..k) /\ 1..k # {} /\ k \in 1..k /\ k \in Nat
  OBVIOUS
<1>2. Max(1..k) \in 1..k /\ k <= Max(1..k)
  BY <1>1, MaxIs
<1>3. Max(1..k) = k
  BY <1>2
<1> QED BY <1>1, <1>3

\* g solves the equation that defines a fold.
Steps(g, n, base, step) ==
  \A s \in SUBSET (1..n) : g[s] = IF s = {} THEN base ELSE step[Max(s)][g[s \ {Max(s)}]]

\* A fold whose steps stay in T exists: the solution for k - 1 places is extended by one step.
LEMMA FoldExists ==
  ASSUME NEW n \in Nat, NEW T, NEW base \in T, NEW step \in [1..n -> [T -> T]]
  PROVE  \E g \in [SUBSET (1..n) -> T] : Steps(g, n, base, step)
<1> DEFINE Sol(k) == {g \in [SUBSET (1..k) -> T] :
                        \A s \in SUBSET (1..k) :
                          g[s] = IF s = {} THEN base ELSE step[Max(s)][g[s \ {Max(s)}]]}
           S == {k \in 0..n : Sol(k) # {}}
<1>1. 0 \in S
  <2> DEFINE g == [s \in SUBSET (1..0) |-> base]
  <2>1. \A s \in SUBSET (1..0) : s = {} /\ g[s] = base
    OBVIOUS
  <2>2. g \in [SUBSET (1..0) -> T]
    OBVIOUS
  <2> HIDE DEF g
  <2>3. g \in Sol(0)
    BY <2>1, <2>2
  <2> HIDE DEF Sol
  <2> QED BY <2>3
<1>2. ASSUME NEW k \in 1..n, k - 1 \in S PROVE k \in S
  <2>1. PICK g : g \in Sol(k - 1)
    BY <1>2
  <2>6. k \in Nat /\ k - 1 \in Nat
    OBVIOUS
  <2> DEFINE h == [s \in SUBSET (1..k) |-> IF k \in s THEN step[k][g[s \ {k}]] ELSE g[s]]
  <2>2. \A s \in SUBSET (1..k) : s \ {k} \in SUBSET (1..(k-1)) /\ (k \notin s => s \in SUBSET (1..(k-1)))
    OBVIOUS
  <2>3. h \in [SUBSET (1..k) -> T]
    BY <2>1, <2>2
  <2>4. ASSUME NEW s \in SUBSET (1..k)
        PROVE  h[s] = IF s = {} THEN base ELSE step[Max(s)][h[s \ {Max(s)}]]
    <3>1. CASE k \in s
      <4>1. Max(s) = k
        <5>1. Max(s) \in s /\ k <= Max(s)
          BY <2>6, <3>1, MaxIs
        <5>2. Max(s) \in 1..k
          BY <5>1
        <5> QED BY <2>6, <5>1, <5>2
      <4>2. h[s \ {k}] = g[s \ {k}]
        BY <2>2
      <4> QED BY <3>1, <4>1, <4>2
    <3>2. CASE k \notin s /\ s # {}
      <4>1. s \in SUBSET (1..(k-1)) /\ Max(s) \in s
        BY <2>6, <2>2, <3>2, MaxIs
      <4>2. h[s] = g[s] /\ h[s \ {Max(s)}] = g[s \ {Max(s)}]
        BY <3>2, <4>1
      <4> QED BY <2>1, <3>2, <4>1, <4>2
    <3>3. CASE s = {}
      BY <2>1, <2>2, <3>3
    <3> HIDE DEF h
    <3> QED BY <3>1, <3>2, <3>3
  <2>5. h \in Sol(k)
    <3> HIDE DEF h
    <3> QED BY <2>3, <2>4
  <2> HIDE DEF h, Sol
  <2> QED BY <2>5
<1>3. S \in SUBSET (0..n) /\ n \in 0..n
  OBVIOUS
<1>4. n \in S
  <2> HIDE DEF S
  <2> QED BY <1>1, <1>2, <1>3, Induct
<1>5. Sol(n) # {}
  BY <1>4
<1> QED BY <1>5 DEF Steps

\* it takes a step wherever it was in T before.
Follows(it, n, T, base, step) ==
  /\ it[{}] = base
  /\ \A u \in SUBSET (1..n) :
       (u # {} /\ it[u \ {Max(u)}] \in T) => it[u] = step[Max(u)][it[u \ {Max(u)}]]
Runs(r, n, base, step) == r[0] = base /\ \A k \in 1..n : r[k] = step[k][r[k-1]]
Led(it, n, T, base, step) == \E r \in [0..n -> T] : Runs(r, n, base, step) /\ it[1..n] = r[n]

\* Its value at all places is where n steps lead.
LEMMA FoldRuns ==
  ASSUME NEW n \in Nat, NEW T, NEW base \in T, NEW step \in [1..n -> [T -> T]],
         NEW it, Follows(it, n, T, base, step)
  PROVE  Led(it, n, T, base, step)
<1> USE DEF Follows
<1> DEFINE S == {k \in 0..n : it[1..k] \in T}
<1>1. 0 \in S /\ S \in SUBSET (0..n) /\ it[1..0] = base
  <2>1. 1..0 = {}
    OBVIOUS
  <2> QED BY <2>1
<1>2. ASSUME NEW k \in 1..n, k - 1 \in S
      PROVE  it[1..k] = step[k][it[1..(k-1)]] /\ k \in S
  <2>1. 1..k \in SUBSET (1..n) /\ k \in Nat \ {0}
    OBVIOUS
  <2>2. Max(1..k) = k /\ (1..k) \ {k} = 1..(k-1) /\ 1..k # {}
    BY <2>1, Intervals
  <2>3. it[1..(k-1)] \in T
    BY <1>2
  <2>4. it[1..k] = step[k][it[1..(k-1)]]
    BY <2>1, <2>2, <2>3
  <2> QED BY <2>3, <2>4
<1>3. \A k \in 0..n : k \in S
  <2> HIDE DEF S
  <2> QED BY <1>1, <1>2, Induct
<1> DEFINE r == [k \in 0..n |-> it[1..k]]
<1>4. r \in [0..n -> T]
  BY <1>3
<1>5. \A k \in 1..n : k - 1 \in 0..n /\ r[k] = step[k][r[k-1]]
  BY <1>2, <1>3
<1>6. r[0] = base /\ it[1..n] = r[n]
  BY <1>1
<1> HIDE DEF r
<1> QED BY <1>4, <1>5, <1>6 DEF Runs, Led

-----------------------------------------------------------------------------
(* Sums, and the order of a set.                                             *)

Sums(r, w) == /\ r \in [0..Len(w) -> Nat] /\ r[0] = 0
              /\ \A k \in 1..Len(w) : r[k] = r[k-1] + w[k]

\* A total is reached by adding one number after the other.
LEMMA TotalRuns ==
  ASSUME NEW w \in Seq(Nat)
  PROVE  \E r : Sums(r, w) /\ Total(w) = r[Len(w)]
<1> DEFINE T == Nat
           base == 0
           n == Len(w)
           step == [k \in 1..n |-> [x \in T |-> x + w[k]]]
           F(h) == [u \in SUBSET (DOMAIN w) |->
                      IF u = {} THEN 0 ELSE LET x == Max(u) IN h[u \ {x}] + w[x]]
           it == CHOOSE h : h = F(h)
<1>1. n \in Nat /\ DOMAIN w = 1..n /\ base \in T /\ step \in [1..n -> [T -> T]]
  OBVIOUS
<1>2. PICK g \in [SUBSET (1..n) -> T] : Steps(g, n, base, step)
  <2> HIDE DEF T, base, n, step
  <2> QED BY <1>1, FoldExists
<1>3. \A u \in SUBSET (1..n) : u # {} => Max(u) \in 1..n /\ u \ {Max(u)} \in SUBSET (1..n)
  BY <1>1, MaxIs
<1>4. g = F(g)
  BY <1>1, <1>2, <1>3 DEF Steps
<1>5. it = F(it)
  BY <1>4
<1>6. Total(w) = it[1..n]
  BY <1>1 DEF Total, FoldLeft, MapThenFoldSet
<1> HIDE DEF it
<1>7. Follows(it, n, T, base, step)
  <2>1. \A u \in SUBSET (1..n) : it[u] = IF u = {} THEN 0 ELSE it[u \ {Max(u)}] + w[Max(u)]
    BY <1>1, <1>5
  <2> QED BY <1>3, <2>1 DEF Follows
<1>8. PICK r \in [0..n -> T] : Runs(r, n, base, step) /\ it[1..n] = r[n]
  <2> HIDE DEF T, base, n, step
  <2>1. Led(it, n, T, base, step)
    BY ONLY <1>1, <1>7, FoldRuns
  <2> QED BY ONLY <2>1 DEF Led
<1>9. \A k \in 1..n : k - 1 \in 0..n /\ r[k-1] \in T /\ r[k] = step[k][r[k-1]]
  <2>1. \A k \in 1..n : k - 1 \in 0..n
    BY <1>1
  <2> HIDE DEF T, step, n
  <2> QED BY <1>8, <2>1 DEF Runs
<1>10. \A k \in 1..n : r[k] = r[k-1] + w[k]
  BY <1>9
<1>11. r[0] = 0
  BY <1>8 DEF Runs
<1> QED BY <1>6, <1>8, <1>10, <1>11 DEF Sums

\* One number more.
LEMMA TotalAppend ==
  ASSUME NEW w \in Seq(Nat), NEW x \in Nat
  PROVE  Total(Append(w, x)) = Total(w) + x /\ Total(w) \in Nat
<1> DEFINE n == Len(w)
           v == Append(w, x)
<1>1. /\ n \in Nat /\ v \in Seq(Nat) /\ Len(v) = n + 1 /\ v[n+1] = x
      /\ \A k \in 1..n : v[k] = w[k]
  OBVIOUS
<1>2. PICK r : Sums(r, w) /\ Total(w) = r[n]
  BY TotalRuns
<1>3. PICK q : Sums(q, v) /\ Total(v) = q[n+1]
  BY <1>1, TotalRuns
<1> HIDE DEF n, v
<1>4. \A k \in 1..n : k - 1 \in 0..n /\ k - 1 \in 0..(n+1) /\ k \in 1..(n+1)
  BY <1>1
<1>5. r \in [0..n -> Nat] /\ q \in [0..(n+1) -> Nat] /\ r[0] = 0 /\ q[0] = 0
  BY <1>1, <1>2, <1>3 DEF Sums, n
<1>6. \A k \in 1..n : r[k] = r[k-1] + w[k] /\ q[k] = q[k-1] + w[k]
  BY <1>1, <1>2, <1>3, <1>4 DEF Sums, n
<1>7. \A k \in 0..n : r[k] = q[k]
  <2> DEFINE S == {k \in 0..n : r[k] = q[k]}
  <2>1. S \in SUBSET (0..n) /\ 0 \in S
    BY <1>1, <1>5
  <2>2. \A k \in 1..n : k - 1 \in S => k \in S
    BY <1>4, <1>6
  <2>3. \A k \in 0..n : k \in S
    <3> HIDE DEF S
    <3> QED BY <1>1, <2>1, <2>2, Induct
  <2> QED BY <2>3
<1>8. q[n+1] = q[n] + x
  <2>1. n + 1 \in 1..Len(v) /\ (n + 1) - 1 = n
    BY <1>1
  <2> QED BY <1>1, <1>3, <2>1 DEF Sums
<1>9. n \in 0..n
  BY <1>1
<1>10. r[n] = q[n] /\ r[n] \in Nat
  BY <1>5, <1>7, <1>9
<1>11. Total(v) = Total(w) + x
  BY <1>2, <1>3, <1>8, <1>10
<1> QED BY <1>2, <1>10, <1>11 DEF v

\* No number.
LEMMA TotalEmpty == Total(<<>>) = 0
<1>1. <<>> \in Seq(Nat) /\ Len(<<>>) = 0
  OBVIOUS
<1>2. PICK r : Sums(r, <<>>) /\ Total(<<>>) = r[Len(<<>>)]
  BY <1>1, TotalRuns
<1> QED BY <1>1, <1>2 DEF Sums

\* What RemoveAt leaves.
LEMMA Removed ==
  ASSUME NEW S, NEW s \in Seq(S), NEW i \in 1..Len(s)
  PROVE  /\ RemoveAt(s, i) \in Seq(S) /\ Len(RemoveAt(s, i)) = Len(s) - 1
         /\ \A k \in 1..(Len(s) - 1) : RemoveAt(s, i)[k] = IF k < i THEN s[k] ELSE s[k+1]
<1> DEFINE a == SubSeq(s, 1, i-1)
           b == SubSeq(s, i+1, Len(s))
<1>1. i \in Nat /\ Len(s) \in Nat /\ 1 <= i /\ i <= Len(s)
  OBVIOUS
<1>2. a \in Seq(S) /\ Len(a) = i - 1 /\ \A k \in 1..(i-1) : a[k] = s[k]
  OBVIOUS
<1>3. b \in Seq(S) /\ Len(b) = Len(s) - i /\ \A k \in 1..(Len(s) - i) : b[k] = s[k+i]
  OBVIOUS
<1> HIDE DEF a, b
<1>4. a \o b \in Seq(S) /\ Len(a \o b) = Len(s) - 1
  <2>1. Len(a) + Len(b) = Len(s) - 1
    BY <1>1, <1>2, <1>3
  <2> QED BY <1>2, <1>3, <2>1, ConcatProperties
<1>5. ASSUME NEW k \in 1..(Len(s) - 1) PROVE (a \o b)[k] = IF k < i THEN s[k] ELSE s[k+1]
  <2>1. CASE k < i
    <3>1. k \in 1..(i-1) /\ k <= Len(a) /\ k \in 1..(Len(a) + Len(b))
      BY <1>1, <1>2, <1>3, <2>1
    <3>2. (a \o b)[k] = a[k]
      BY <1>2, <1>3, <3>1, ConcatProperties
    <3> QED BY <1>2, <2>1, <3>1, <3>2
  <2>2. CASE ~(k < i)
    <3>1. k - (i - 1) \in 1..(Len(s) - i) /\ (k - (i - 1)) + i = k + 1
      BY <1>1, <2>2
    <3>2. (a \o b)[k] = b[k - (i - 1)]
      BY <1>1, <1>2, <1>3, <2>2
    <3> QED BY <1>3, <2>2, <3>1, <3>2
  <2> QED BY <2>1, <2>2
<1> QED BY <1>4, <1>5 DEF RemoveAt, a, b

\* One number less.
LEMMA TotalRemove ==
  ASSUME NEW w \in Seq(Nat), NEW i \in 1..Len(w)
  PROVE  Total(RemoveAt(w, i)) = Total(w) - w[i] /\ Total(w) \in Nat
<1> DEFINE n == Len(w)
           v == RemoveAt(w, i)
<1>1. /\ n \in Nat /\ i \in 1..n /\ v \in Seq(Nat) /\ Len(v) = n - 1 /\ n - 1 \in Nat /\ i \in Nat
      /\ \A k \in 1..(n-1) : v[k] = IF k < i THEN w[k] ELSE w[k+1]
      /\ \A k \in 1..n : w[k] \in Nat
  BY Removed
<1>2. PICK r : Sums(r, w) /\ Total(w) = r[n]
  BY TotalRuns
<1>3. PICK q : Sums(q, v) /\ Total(v) = q[n-1]
  BY <1>1, TotalRuns
<1> HIDE DEF v
<1>4. r \in [0..n -> Nat] /\ q \in [0..(n-1) -> Nat] /\ r[0] = 0 /\ q[0] = 0
  BY <1>1, <1>2, <1>3 DEF Sums
<1> HIDE DEF n
<1>5. /\ \A k \in 1..n : r[k] = r[k-1] + w[k]
      /\ \A k \in 1..(n-1) : q[k] = q[k-1] + v[k]
  BY <1>1, <1>2, <1>3 DEF Sums, n
<1> DEFINE S == {k \in 0..(n-1) : q[k] = IF k < i THEN r[k] ELSE r[k+1] - w[i]}
<1>6. S \in SUBSET (0..(n-1)) /\ 0 \in S
  <2>1. 0 \in 0..(n-1) /\ 0 < i
    BY <1>1
  <2> QED BY <1>4, <2>1
<1>7. ASSUME NEW k \in 1..(n-1), k - 1 \in S PROVE k \in S
  <2>1. k - 1 \in 0..(n-1) /\ k \in 1..n /\ k + 1 \in 1..n /\ k \in 0..(n-1) /\ (k + 1) - 1 = k
          /\ (k - 1) + 1 = k
    BY <1>1
  <2>2. r[k] = r[k-1] + w[k] /\ r[k+1] = r[k] + w[k+1] /\ q[k] = q[k-1] + v[k]
    BY <1>5, <2>1
  <2>3. /\ r[k] \in Nat /\ r[k-1] \in Nat /\ r[k+1] \in Nat /\ q[k-1] \in Nat /\ q[k] \in Nat
        /\ w[k] \in Nat /\ w[k+1] \in Nat /\ w[i] \in Nat
    <3>1. k \in 0..n /\ k - 1 \in 0..n /\ k + 1 \in 0..n
      BY <1>1
    <3>2. r[k] \in Nat /\ r[k-1] \in Nat /\ r[k+1] \in Nat
      BY ONLY <1>4, <3>1
    <3>3. q[k-1] \in Nat /\ q[k] \in Nat
      BY <1>4, <2>1
    <3> QED BY <1>1, <2>1, <3>2, <3>3
  <2>4. q[k-1] = IF k - 1 < i THEN r[k-1] ELSE r[k] - w[i]
    <3>1. q[k-1] = IF k - 1 < i THEN r[k-1] ELSE r[(k-1)+1] - w[i]
      BY <1>7
    <3>2. (k - 1) + 1 = k
      BY <2>1
    <3> QED BY ONLY <3>1, <3>2
  <2>5. v[k] = IF k < i THEN w[k] ELSE w[k+1]
    BY <1>1
  <2>9. q[k] = IF k < i THEN r[k] ELSE r[k+1] - w[i]
    <3> HIDE DEF S
    <3>1. k \in Nat /\ i \in Nat
      BY <1>1
    <3>2. CASE k < i
      <4>1. k - 1 < i
        BY <3>1, <3>2
      <4> QED BY <2>1, <2>2, <2>3, <2>4, <2>5, <3>1, <3>2, <4>1
    <3>3. CASE k = i
      <4>1. k - 1 < i /\ ~(k < i)
        BY <3>1, <3>3
      <4>2. q[k-1] = r[k-1] /\ v[k] = w[k+1] /\ w[k] = w[i]
        BY <2>4, <2>5, <3>3, <4>1
      <4>3. q[k] = r[k-1] + w[k+1] /\ r[k+1] - w[i] = ((r[k-1] + w[i]) + w[k+1]) - w[i]
        BY ONLY <2>2, <4>2
      <4>4. r[k-1] + w[k+1] = ((r[k-1] + w[i]) + w[k+1]) - w[i]
        <5> DEFINE a == r[k-1]
                   b == w[k+1]
                   c == w[i]
        <5>1. a \in Nat /\ b \in Nat /\ c \in Nat
          BY ONLY <2>3
        <5> HIDE DEF a, b, c
        <5>2. a + b = ((a + c) + b) - c
          BY ONLY <5>1
        <5> QED BY ONLY <5>2 DEF a, b, c
      <4> QED BY ONLY <4>1, <4>3, <4>4
    <3>4. CASE i < k
      <4>1. ~(k - 1 < i) /\ ~(k < i)
        BY <3>1, <3>4
      <4>2. q[k-1] = r[k] - w[i] /\ v[k] = w[k+1]
        BY <2>4, <2>5, <4>1
      <4>3. q[k] = (r[k] - w[i]) + w[k+1] /\ r[k+1] - w[i] = (r[k] + w[k+1]) - w[i]
        BY ONLY <2>2, <4>2
      <4>4. (r[k] - w[i]) + w[k+1] = (r[k] + w[k+1]) - w[i]
        <5> DEFINE a == r[k]
                   b == w[k+1]
                   c == w[i]
        <5>1. a \in Nat /\ b \in Nat /\ c \in Nat
          BY ONLY <2>3
        <5> HIDE DEF a, b, c
        <5>2. (a - c) + b = (a + b) - c
          BY ONLY <5>1
        <5> QED BY ONLY <5>2 DEF a, b, c
      <4> QED BY ONLY <4>1, <4>3, <4>4
    <3> QED BY <3>1, <3>2, <3>3, <3>4
  <2> QED BY <2>1, <2>9
<1>8. n - 1 \in S
  <2>1. \A k \in 0..(n-1) : k \in S
    <3> HIDE DEF S
    <3> QED BY <1>1, <1>6, <1>7, Induct
  <2> QED BY <1>1, <2>1
<1>9. q[n-1] = r[n] - w[i]
  <2>1. n \in 1..n /\ r[n-1] \in Nat /\ r[n] = r[n-1] + w[n] /\ w[n] \in Nat
    BY <1>1, <1>4, <1>5
  <2> QED BY <1>1, <1>8, <2>1
<1>10. r[n] \in Nat
  BY <1>1, <1>4
<1> QED BY <1>2, <1>3, <1>9, <1>10 DEF v

\* Among the members of a finite set in order, for each place there is one with so many before it.
LEMMA RanksExist ==
  ASSUME NEW S, IsFiniteSet(S), NEW before \in [S -> SUBSET S],
         \A i \in S : i \notin before[i],
         \A i, j \in S : i # j => (j \in before[i] \/ i \in before[j]),
         \A i, j \in S : j \in before[i] => before[j] \subseteq before[i]
  PROVE  \A n \in 1..Cardinality(S) : \E i \in S : Cardinality(before[i]) = n - 1
<1> DEFINE c == Cardinality(S)
           f == [i \in S |-> Cardinality(before[i]) + 1]
<1>1. c \in Nat
  BY FS_CardinalityType
<1>2. \A i \in S : IsFiniteSet(before[i]) /\ Cardinality(before[i]) \in Nat
  BY FS_Subset, FS_CardinalityType
<1>3. ASSUME NEW i \in S PROVE f[i] \in 1..c
  <2>1. before[i] \in SUBSET (S \ {i})
    OBVIOUS
  <2>2. IsFiniteSet(S \ {i}) /\ Cardinality(S \ {i}) = c - 1
    BY FS_RemoveElement
  <2>3. Cardinality(before[i]) <= c - 1
    BY <2>1, <2>2, FS_Subset
  <2> QED BY <1>1, <1>2, <2>3
<1>4. ASSUME NEW i \in S, NEW j \in S, j \in before[i] PROVE f[j] < f[i]
  <2>1. before[j] \in SUBSET before[i] /\ before[j] # before[i]
    BY <1>4
  <2>2. Cardinality(before[j]) <= Cardinality(before[i]) /\ Cardinality(before[j]) # Cardinality(before[i])
    BY <1>2, <2>1, FS_Subset
  <2> QED BY <1>2, <2>2
<1>5. \A i, j \in S : i # j => f[i] # f[j]
  <2> SUFFICES ASSUME NEW i \in S, NEW j \in S, i # j PROVE f[i] # f[j]
    OBVIOUS
  <2>1. f[i] \in 1..c /\ f[j] \in 1..c
    BY <1>3
  <2>2. f[i] < f[j] \/ f[j] < f[i]
    BY <1>4
  <2> HIDE DEF f
  <2> QED BY <2>1, <2>2
<1>6. f \in Injection(S, 1..c)
  BY <1>3, <1>5 DEF Injection, IsInjective
<1>7. IsFiniteSet(1..c) /\ Cardinality(1..c) = c
  <2>1. 1 \in Int /\ c \in Int
    BY <1>1
  <2> QED BY <1>1, <2>1, FS_Interval
<1>8. f \in Surjection(S, 1..c)
  <2> HIDE DEF f
  <2> QED BY <1>6, <1>7, FS_Injection
<1>9. \A n \in 1..c : \E i \in S : f[i] = n
  BY <1>8 DEF Surjection
<1> QED BY <1>1, <1>2, <1>9

-----------------------------------------------------------------------------
(* Sets in order.                                                            *)

\* A finite set of numbers in order.
LEMMA AscendingSeq ==
  ASSUME NEW S, IsFiniteSet(S), S \subseteq Nat
  PROVE  /\ Ascending(S) \in Seq(S) /\ Len(Ascending(S)) = Cardinality(S)
         /\ \A n, m \in 1..Cardinality(S) : n < m => Ascending(S)[n] < Ascending(S)[m]
<1> DEFINE before == [i \in S |-> {j \in S : j < i}]
           c == Cardinality(S)
<1>1. c \in Nat
  BY FS_CardinalityType
<1>2. \A n \in 1..c : \E i \in S : Cardinality(before[i]) = n - 1
  <2>1. before \in [S -> SUBSET S]
    OBVIOUS
  <2>2. \A i \in S : i \notin before[i]
    OBVIOUS
  <2>3. \A i, j \in S : i # j => (j \in before[i] \/ i \in before[j])
    OBVIOUS
  <2>4. \A i, j \in S : j \in before[i] => before[j] \subseteq before[i]
    <3>1. \A i, j, k \in S : j < i /\ k < j => k < i
      OBVIOUS
    <3> QED BY <3>1
  <2> HIDE DEF before
  <2> QED BY <2>1, <2>2, <2>3, <2>4, RanksExist
<1>3. \A n \in 1..c : \E i \in S : Cardinality({j \in S : j < i}) = n - 1
  BY <1>2
<1>4. \A n \in 1..c : (CHOOSE i \in S : Cardinality({j \in S : j < i}) = n - 1) \in S
  BY <1>3
<1>5. Ascending(S) = [n \in 1..c |-> CHOOSE i \in S : Cardinality({j \in S : j < i}) = n - 1]
  BY DEF Ascending, Ranked
<1>6. Ascending(S) \in [1..c -> S]
  BY <1>4, <1>5
<1>7. \A n \in 1..c : Cardinality(before[Ascending(S)[n]]) = n - 1
  <2>1. \A n \in 1..c :
          Cardinality({j \in S : j < (CHOOSE i \in S : Cardinality({m \in S : m < i}) = n - 1)}) = n - 1
    BY <1>3
  <2> QED BY <1>5, <1>6, <2>1
<1>8. ASSUME NEW n \in 1..c, NEW m \in 1..c, n < m PROVE Ascending(S)[n] < Ascending(S)[m]
  <2> DEFINE a == Ascending(S)[n]
             b == Ascending(S)[m]
  <2>1. a \in S /\ b \in S /\ a \in Nat /\ b \in Nat
    BY <1>6
  <2>2. CASE b <= a
    <3>1. before[b] \in SUBSET before[a] /\ before[a] \in SUBSET S
      <4> HIDE DEF a, b
      <4>1. \A j \in S : j < b => j < a
        BY <2>1, <2>2
      <4> QED BY <2>1, <4>1
    <3>2. IsFiniteSet(before[a])
      BY <3>1, FS_Subset
    <3>3. Cardinality(before[b]) <= Cardinality(before[a])
      BY <3>1, <3>2, FS_Subset
    <3>4. Cardinality(before[a]) = n - 1 /\ Cardinality(before[b]) = m - 1
      BY <1>7
    <3> HIDE DEF before, a, b
    <3> QED BY <1>1, <1>8, <3>3, <3>4
  <2> QED BY <2>1, <2>2
<1> HIDE DEF before
<1> QED BY <1>1, <1>6, <1>8

\* Items by rank: the order is total, so none is missing.
LEMMA ByRankSeq ==
  ASSUME NEW S \in SUBSET Items, IsFiniteSet(S), NEW query
  PROVE  ByRank(S, query) \in Seq(S)
<1> DEFINE score == [i \in S |-> Score(i, query)]
           before == [i \in S |-> {j \in S : Ahead(j, i, query)}]
           c == Cardinality(S)
<1>1. c \in Nat
  BY FS_CardinalityType
<1>2. \A i \in S : i \in Nat /\ score[i] \in Nat
  BY HotAssumption DEF Score
<1>3. \A i, j \in S : Ahead(j, i, query) <=> (score[j] > score[i] \/ (score[j] = score[i] /\ j > i))
  BY DEF Ahead
<1> HIDE DEF score
<1>4. \A n \in 1..c : \E i \in S : Cardinality(before[i]) = n - 1
  <2>1. before \in [S -> SUBSET S]
    OBVIOUS
  <2>2. \A i \in S : i \notin before[i]
    BY <1>2, <1>3
  <2>3. \A i, j \in S : i # j => (j \in before[i] \/ i \in before[j])
    BY <1>2, <1>3
  <2>4. \A i, j \in S : j \in before[i] => before[j] \subseteq before[i]
    <3>1. \A i, j, k \in S : Ahead(j, i, query) /\ Ahead(k, j, query) => Ahead(k, i, query)
      BY <1>2, <1>3
    <3> QED BY <3>1
  <2> HIDE DEF before
  <2> QED BY <2>1, <2>2, <2>3, <2>4, RanksExist
<1>5. \A n \in 1..c : \E i \in S : Cardinality({j \in S : Ahead(j, i, query)}) = n - 1
  BY <1>4
<1>6. ByRank(S, query) = [n \in 1..c |-> CHOOSE i \in S : Cardinality({j \in S : Ahead(j, i, query)}) = n - 1]
  BY DEF ByRank, Ranked
<1>7. ByRank(S, query) \in [1..c -> S]
  BY <1>5, <1>6
<1> QED BY <1>1, <1>7

\* A part of a sequence: each element from a later place than the one before.
LEMMA ThoseOf ==
  ASSUME NEW T, NEW s \in Seq(T), NEW at \in SUBSET (DOMAIN s)
  PROVE  /\ Those(s, at) \in Seq(T)
         /\ \E place \in Seq(DOMAIN s) :
              /\ Len(place) = Len(Those(s, at))
              /\ \A n \in 1..Len(place) : Those(s, at)[n] = s[place[n]]
              /\ \A n, m \in 1..Len(place) : n < m => place[n] < place[m]
<1> DEFINE place == Ascending(at)
<1>1. DOMAIN s \subseteq Nat /\ IsFiniteSet(DOMAIN s)
  <2>1. DOMAIN s = 1..Len(s) /\ Len(s) \in Int /\ 1 \in Int
    OBVIOUS
  <2> QED BY <2>1, FS_Interval
<1>2. IsFiniteSet(at)
  BY <1>1, FS_Subset
<1>3. /\ place \in Seq(at) /\ Len(place) = Cardinality(at)
      /\ \A n, m \in 1..Cardinality(at) : n < m => place[n] < place[m]
  BY <1>1, <1>2, AscendingSeq
<1>4. Those(s, at) = [n \in DOMAIN place |-> s[place[n]]]
  BY DEF Those
<1> HIDE DEF place
<1>5. place \in Seq(DOMAIN s) /\ DOMAIN place = 1..Len(place) /\ Len(place) \in Nat
  BY <1>3
<1>6. \A n \in 1..Len(place) : s[place[n]] \in T
  BY <1>5
<1>7. Those(s, at) \in Seq(T) /\ Len(Those(s, at)) = Len(place)
  BY <1>4, <1>5, <1>6
<1>8. \A n \in 1..Len(place) : Those(s, at)[n] = s[place[n]]
  BY <1>4, <1>5
<1> QED BY <1>3, <1>5, <1>7, <1>8

-----------------------------------------------------------------------------
(* The hot set.                                                              *)

BucketNames == {"decision", "open", "path", "other"}
Candidates == [bucket : BucketNames, item : Items]
\* A hot set as it is filled.
Filling == {s \in [parts : Seq(Items), used : Nat, seen : SUBSET Items, stop : BOOLEAN,
                   taken : [BucketNames -> Nat]] :
              s.used = HotChars(s.parts) /\ s.used <= HotMax}

\* A line has a length.
LEMMA LineCharsNat == \A i \in Items : LineChars(i) \in Nat
BY HotAssumption DEF LineChars, AtMost

\* The lengths a hot set adds up.
LEMMA CharsOfHot ==
  ASSUME NEW parts \in Seq(Items)
  PROVE  [n \in DOMAIN parts |-> LineChars(parts[n]) + 1] \in Seq(Nat)
<1>1. \A n \in 1..Len(parts) : LineChars(parts[n]) + 1 \in Nat
  BY LineCharsNat
<1> QED BY <1>1

\* An item that fits is put.
LEMMA PutsFills ==
  ASSUME NEW s \in Filling, NEW i \in Items, Fits(s, i)
  PROVE  Puts(s, i) \in Filling
<1> DEFINE w == [n \in DOMAIN s.parts |-> LineChars(s.parts[n]) + 1]
           p == Append(s.parts, i)
<1>1. /\ s.parts \in Seq(Items) /\ s.used \in Nat /\ s.seen \in SUBSET Items /\ LineChars(i) \in Nat
      /\ s.used = HotChars(s.parts) /\ s.used + LineChars(i) + 1 <= HotMax
  BY LineCharsNat DEF Filling, Fits
<1>2. w \in Seq(Nat)
  BY <1>1, CharsOfHot
<1>3. [n \in DOMAIN p |-> LineChars(p[n]) + 1] = Append(w, LineChars(i) + 1)
  <2>1. p \in Seq(Items) /\ Len(p) = Len(s.parts) + 1 /\ DOMAIN p = 1..(Len(s.parts) + 1)
    BY <1>1
  <2>2. p[Len(s.parts) + 1] = i /\ \A n \in 1..Len(s.parts) : p[n] = s.parts[n]
    BY <1>1
  <2> HIDE DEF p
  <2> QED BY <1>1, <2>1, <2>2
<1>4. HotChars(p) = HotChars(s.parts) + (LineChars(i) + 1)
  <2>1. LineChars(i) + 1 \in Nat
    BY <1>1
  <2> HIDE DEF w, p
  <2> QED BY <1>2, <1>3, <2>1, TotalAppend DEF HotChars, w
<1>5. Puts(s, i) = [parts |-> p, used |-> s.used + LineChars(i) + 1, seen |-> s.seen \cup {i},
                    stop |-> s.stop, taken |-> s.taken]
  BY DEF Puts
<1>6. p \in Seq(Items) /\ s.used + LineChars(i) + 1 \in Nat /\ s.seen \cup {i} \in SUBSET Items
      /\ s.used + LineChars(i) + 1 = HotChars(p)
  BY <1>1, <1>4
<1> HIDE DEF p
<1> QED BY <1>1, <1>5, <1>6 DEF Filling

\* A candidate is put, or not.
LEMMA EmitFills ==
  ASSUME NEW s \in Filling, NEW b \in Candidates
  PROVE  Emit(s, b) \in Filling
<1>1. b.item \in Items /\ b.bucket \in BucketNames
  BY DEF Candidates
<1>2. CASE Fits(s, b.item)
  <2> DEFINE q == Puts(s, b.item)
  <2>1. q \in Filling
    BY <1>1, <1>2, PutsFills
  <2> HIDE DEF q
  <2>2. [q EXCEPT !.taken[b.bucket] = @ + 1] \in Filling
    <3>1. q.taken[b.bucket] + 1 \in Nat
      BY <1>1, <2>1 DEF Filling
    <3> QED BY <1>1, <2>1, <3>1 DEF Filling
  <2> QED BY <2>2 DEF Emit, q
<1>3. CASE ~Fits(s, b.item)
  BY <1>3 DEF Emit
<1> QED BY <1>2, <1>3

\* A line that is dropped takes its length with it.
LEMMA DropFills ==
  ASSUME NEW s \in Filling, NEW n \in DOMAIN s.parts
  PROVE  Drop(s, n) \in Filling
<1> DEFINE w == [k \in DOMAIN s.parts |-> LineChars(s.parts[k]) + 1]
           p == RemoveAt(s.parts, n)
<1>1. /\ s.parts \in Seq(Items) /\ s.used \in Nat /\ s.used = HotChars(s.parts) /\ s.used <= HotMax
      /\ n \in 1..Len(s.parts) /\ s.parts[n] \in Items /\ Len(s.parts) \in Nat /\ HotMax \in Nat
  BY HotAssumption DEF Filling
<1>2. w \in Seq(Nat) /\ n \in 1..Len(w) /\ LineChars(s.parts[n]) \in Nat
  BY <1>1, CharsOfHot, LineCharsNat
<1>3. [k \in DOMAIN p |-> LineChars(p[k]) + 1] = RemoveAt(w, n)
  <2>1. p \in Seq(Items) /\ Len(p) = Len(s.parts) - 1 /\ DOMAIN p = 1..(Len(s.parts) - 1)
        /\ \A k \in 1..(Len(s.parts) - 1) : p[k] = IF k < n THEN s.parts[k] ELSE s.parts[k+1]
    BY <1>1, Removed
  <2>2. RemoveAt(w, n) \in Seq(Nat) /\ Len(RemoveAt(w, n)) = Len(w) - 1
        /\ DOMAIN RemoveAt(w, n) = 1..(Len(w) - 1)
        /\ \A k \in 1..(Len(w) - 1) : RemoveAt(w, n)[k] = IF k < n THEN w[k] ELSE w[k+1]
    <3> HIDE DEF w
    <3>1. Len(w) \in Nat
      BY <1>2
    <3>2. /\ RemoveAt(w, n) \in Seq(Nat) /\ Len(RemoveAt(w, n)) = Len(w) - 1
          /\ \A k \in 1..(Len(w) - 1) : RemoveAt(w, n)[k] = IF k < n THEN w[k] ELSE w[k+1]
      BY <1>2, Removed
    <3>3. DOMAIN RemoveAt(w, n) = 1..(Len(w) - 1)
      BY <3>2
    <3> QED BY <3>2, <3>3
  <2>3. Len(w) = Len(s.parts)
    BY <1>1
  <2>4. ASSUME NEW k \in 1..(Len(s.parts) - 1) PROVE LineChars(p[k]) + 1 = RemoveAt(w, n)[k]
    <3>1. k \in DOMAIN s.parts /\ k + 1 \in DOMAIN s.parts
      BY <1>1
    <3>2. w[k] = LineChars(s.parts[k]) + 1 /\ w[k+1] = LineChars(s.parts[k+1]) + 1
      BY <3>1
    <3> HIDE DEF p, w
    <3> QED BY <2>1, <2>2, <2>3, <3>2
  <2> HIDE DEF p, w
  <2> QED BY <2>1, <2>2, <2>3, <2>4
<1>4. HotChars(p) = HotChars(s.parts) - (LineChars(s.parts[n]) + 1)
  <2>1. w[n] = LineChars(s.parts[n]) + 1
    BY <1>1
  <2>2. Total(RemoveAt(w, n)) = Total(w) - w[n]
    <3> HIDE DEF w
    <3> QED BY <1>2, TotalRemove
  <2> HIDE DEF w, p
  <2> QED BY <1>3, <2>1, <2>2 DEF HotChars, w
<1>5. HotChars(p) \in Nat /\ p \in Seq(Items)
  <2>1. p \in Seq(Items)
    BY <1>1, Removed
  <2> HIDE DEF p
  <2>2. [k \in DOMAIN p |-> LineChars(p[k]) + 1] \in Seq(Nat)
    BY <2>1, CharsOfHot
  <2> QED BY <2>1, <2>2, TotalAppend DEF HotChars
<1>6. s.used - LineChars(s.parts[n]) - 1 = HotChars(p) /\ HotChars(p) <= HotMax
  <2> HIDE DEF p
  <2> QED BY <1>1, <1>2, <1>4, <1>5
<1>7. Drop(s, n) = [parts |-> p, used |-> HotChars(p), seen |-> s.seen, stop |-> s.stop, taken |-> s.taken]
  <2> HIDE DEF p
  <2> QED BY <1>6 DEF Drop, p
<1> HIDE DEF p
<1> QED BY <1>1, <1>5, <1>6, <1>7 DEF Filling

\* There is a first of the lines to drop.
LEMMA LeastExists ==
  ASSUME NEW S \in SUBSET Nat, S # {}
  PROVE  \E n \in S : \A m \in S : n <= m
<1>1. PICK n \in S : \A m \in S : <<m, n>> \notin OpToRel(<, Nat)
  BY WFMin, NatLessThanWellFounded, Zenon
<1>2. n \in S /\ \A m \in S : ~(m < n)
  BY <1>1, Zenon DEF OpToRel
<1> QED BY ONLY <1>2, S \in SUBSET Nat

\* Nothing more is put.
LEMMA StopFills ==
  ASSUME NEW s \in Filling
  PROVE  [s EXCEPT !.stop = TRUE] \in Filling
BY DEF Filling

\* An identifier is forced in, perhaps in the place of a fact.
LEMMA ForceFills ==
  ASSUME NEW s \in Filling, NEW i \in Items, NEW here
  PROVE  ForceIn(s, i, here) \in Filling
<1> DEFINE room == Droppable(s, here)
           first == CHOOSE n \in room : \A m \in room : n <= m
           cleared == IF Fits(s, i) THEN s ELSE Drop(s, first)
<1>1. room \subseteq DOMAIN s.parts /\ room \in SUBSET Nat
  <2>1. s.parts \in Seq(Items)
    BY DEF Filling
  <2> QED BY <2>1 DEF Droppable
<1>2. [s EXCEPT !.stop = TRUE] \in Filling
  BY StopFills
<1>3. ASSUME Fits(s, i) \/ room # {} PROVE cleared \in Filling
  <2>1. CASE Fits(s, i)
    BY <2>1
  <2>2. CASE ~Fits(s, i) /\ room # {}
    <3>1. first \in room
      <4> HIDE DEF room
      <4> QED BY <1>1, <2>2, LeastExists
    <3> HIDE DEF first, room
    <3> QED BY <1>1, <2>2, <3>1, DropFills
  <2> QED BY <1>3, <2>1, <2>2
<1>4. ForceIn(s, i, here) =
        IF s.stop \/ i \in s.seen THEN s
        ELSE IF s.used >= HotMax \/ (~Fits(s, i) /\ room = {}) THEN [s EXCEPT !.stop = TRUE]
        ELSE IF Fits(cleared, i) THEN Puts(cleared, i) ELSE [cleared EXCEPT !.stop = TRUE]
  BY DEF ForceIn
<1> HIDE DEF cleared, room
<1>5. CASE s.stop \/ i \in s.seen
  BY <1>4, <1>5
<1>6. CASE ~(s.stop \/ i \in s.seen) /\ (s.used >= HotMax \/ (~Fits(s, i) /\ room = {}))
  BY <1>2, <1>4, <1>6
<1>7. CASE ~(s.stop \/ i \in s.seen) /\ ~(s.used >= HotMax \/ (~Fits(s, i) /\ room = {}))
  <2>1. cleared \in Filling
    BY <1>3, <1>7
  <2>2. [cleared EXCEPT !.stop = TRUE] \in Filling
    BY <2>1, StopFills
  <2>3. Fits(cleared, i) => Puts(cleared, i) \in Filling
    BY <2>1, PutsFills
  <2> QED BY <1>4, <1>7, <2>2, <2>3
<1> QED BY <1>5, <1>6, <1>7

\* The empty hot set.
LEMMA NothingFills == Nothing \in Filling
<1>1. HotChars(<<>>) = 0
  <2>1. [n \in DOMAIN <<>> |-> LineChars(<<>>[n]) + 1] = <<>>
    OBVIOUS
  <2> QED BY <2>1, TotalEmpty DEF HotChars
<1>2. HotMax \in Nat
  BY HotAssumption
<1> QED BY <1>1, <1>2 DEF Nothing, Filling, BucketNames

\* The candidates one after the other (FoldExists, FoldRuns).
LEMMA EmitsFill ==
  ASSUME NEW w \in Seq(Candidates)
  PROVE  Filled(w) \in Filling
<1> DEFINE T == Filling
           base == Nothing
           n == Len(w)
           step == [k \in 1..n |-> [s \in T |-> Emit(s, w[k])]]
           F(h) == [u \in SUBSET (DOMAIN w) |->
                      IF u = {} THEN Nothing ELSE LET x == Max(u) IN Emit(h[u \ {x}], w[x])]
           it == CHOOSE h : h = F(h)
<1>1. n \in Nat /\ DOMAIN w = 1..n /\ base \in T /\ \A k \in 1..n : w[k] \in Candidates
  BY NothingFills
<1>2. step \in [1..n -> [T -> T]]
  <2> HIDE DEF T
  <2>1. \A k \in 1..n : \A s \in T : Emit(s, w[k]) \in T
    BY <1>1, EmitFills DEF T
  <2> QED BY <2>1
<1>3. PICK g \in [SUBSET (1..n) -> T] : Steps(g, n, base, step)
  <2> HIDE DEF T, base, n, step
  <2> QED BY <1>1, <1>2, FoldExists
<1>4. \A u \in SUBSET (1..n) : u # {} => Max(u) \in 1..n /\ u \ {Max(u)} \in SUBSET (1..n)
  BY <1>1, MaxIs
<1>5. g = F(g)
  <2> HIDE DEF T, base
  <2>1. \A u \in SUBSET (1..n) : u # {} => step[Max(u)][g[u \ {Max(u)}]] = Emit(g[u \ {Max(u)}], w[Max(u)])
    BY <1>3, <1>4
  <2> HIDE DEF step, n
  <2> QED BY <1>1, <1>3, <2>1 DEF Steps, base
<1>6. it = F(it)
  BY <1>5
<1>7. Filled(w) = it[1..n]
  BY <1>1 DEF Filled, FoldLeft, MapThenFoldSet
<1> HIDE DEF it
<1>8. Follows(it, n, T, base, step)
  <2>1. \A u \in SUBSET (1..n) : it[u] = IF u = {} THEN base ELSE Emit(it[u \ {Max(u)}], w[Max(u)])
    BY <1>1, <1>6
  <2> HIDE DEF T, base
  <2> QED BY <1>4, <2>1 DEF Follows
<1> HIDE DEF T, base, n, step
<1>9. PICK r \in [0..n -> T] : Runs(r, n, base, step) /\ it[1..n] = r[n]
  <2>1. n \in Nat /\ base \in T
    BY <1>1
  <2>2. Led(it, n, T, base, step)
    BY ONLY <1>2, <1>8, <2>1, FoldRuns
  <2> QED BY ONLY <2>2 DEF Led
<1>10. n \in 0..n
  BY <1>1
<1> QED BY <1>7, <1>9, <1>10 DEF T

\* The missing identifiers one after the other.
LEMMA ForcesFill ==
  ASSUME NEW w \in Seq(Items), NEW base \in Filling, NEW here
  PROVE  Vault(base, w, here) \in Filling
<1> DEFINE T == Filling
           n == Len(w)
           step == [k \in 1..n |-> [s \in T |-> ForceIn(s, w[k], here)]]
           F(h) == [u \in SUBSET (DOMAIN w) |->
                      IF u = {} THEN base ELSE LET x == Max(u) IN ForceIn(h[u \ {x}], w[x], here)]
           it == CHOOSE h : h = F(h)
<1>1. n \in Nat /\ DOMAIN w = 1..n /\ base \in T /\ \A k \in 1..n : w[k] \in Items
  OBVIOUS
<1>2. step \in [1..n -> [T -> T]]
  <2> HIDE DEF T
  <2>1. \A k \in 1..n : \A s \in T : ForceIn(s, w[k], here) \in T
    BY <1>1, ForceFills DEF T
  <2> QED BY <2>1
<1>3. PICK g \in [SUBSET (1..n) -> T] : Steps(g, n, base, step)
  <2> HIDE DEF T, n, step
  <2> QED BY <1>1, <1>2, FoldExists
<1>4. \A u \in SUBSET (1..n) : u # {} => Max(u) \in 1..n /\ u \ {Max(u)} \in SUBSET (1..n)
  BY <1>1, MaxIs
<1>5. g = F(g)
  <2> HIDE DEF T
  <2>1. \A u \in SUBSET (1..n) : u # {} => step[Max(u)][g[u \ {Max(u)}]]
          = ForceIn(g[u \ {Max(u)}], w[Max(u)], here)
    BY <1>3, <1>4
  <2> HIDE DEF step, n
  <2> QED BY <1>1, <1>3, <2>1 DEF Steps
<1>6. it = F(it)
  BY <1>5
<1>7. Vault(base, w, here) = it[1..n]
  BY <1>1 DEF Vault, FoldLeft, MapThenFoldSet
<1> HIDE DEF it
<1>8. Follows(it, n, T, base, step)
  <2>1. \A u \in SUBSET (1..n) : it[u] = IF u = {} THEN base ELSE ForceIn(it[u \ {Max(u)}], w[Max(u)], here)
    BY <1>1, <1>6
  <2> HIDE DEF T
  <2> QED BY <1>4, <2>1 DEF Follows
<1> HIDE DEF T, n, step
<1>9. PICK r \in [0..n -> T] : Runs(r, n, base, step) /\ it[1..n] = r[n]
  <2>1. n \in Nat /\ base \in T
    BY <1>1
  <2>2. Led(it, n, T, base, step)
    BY ONLY <1>2, <1>8, <2>1, FoldRuns
  <2> QED BY ONLY <2>2 DEF Led
<1>10. n \in 0..n
  BY <1>1
<1> QED BY <1>7, <1>9, <1>10 DEF T

\* The candidates are items of the graph.
LEMMA BucketsOf ==
  ASSUME NEW here \in SUBSET Items, IsFiniteSet(here), NEW query
  PROVE  Buckets(here, query) \in Seq(Candidates)
<1> DEFINE In(b, S) == LET r == ByRank(S, query) IN [n \in 1..Len(r) |-> [bucket |-> b, item |-> r[n]]]
<1>1. ASSUME NEW b \in BucketNames, NEW S \in SUBSET here PROVE In(b, S) \in Seq(Candidates)
  <2>1. IsFiniteSet(S) /\ S \in SUBSET Items
    BY FS_Subset
  <2>2. ByRank(S, query) \in Seq(S)
    BY <2>1, ByRankSeq
  <2>3. Len(ByRank(S, query)) \in Nat /\ \A n \in 1..Len(ByRank(S, query)) : ByRank(S, query)[n] \in Items
    BY <2>1, <2>2
  <2> QED BY <2>3 DEF Candidates
<1>2. /\ "decision" \in BucketNames /\ "open" \in BucketNames /\ "path" \in BucketNames
      /\ "other" \in BucketNames
  BY DEF BucketNames
<1>3. Buckets(here, query) =
        In("decision", {i \in here : IsDecision(i)})
        \o In("open", {i \in here : IsOpen(i)})
        \o In("path", {i \in here : IsPathOrHeading(i)})
        \o In("path", {i \in here : IsIdentifier(i)})
        \o In("other", {i \in here : IsOther(i)})
  BY DEF Buckets
<1> HIDE DEF In
<1>4. \A a, b \in Seq(Candidates) : a \o b \in Seq(Candidates)
  OBVIOUS
<1> QED BY <1>1, <1>2, <1>3, <1>4

\* The hot set is a sequence of items, of no more than its length.
LEMMA HotSetFits ==
  ASSUME NEW here \in SUBSET Items, IsFiniteSet(here), NEW query
  PROVE  hot_set(here, query) \in Seq(Items) /\ HotChars(hot_set(here, query)) <= HotMax
<1> DEFINE ids == {i \in here : IsIdentifier(i)}
           filled == Filled(Buckets(here, query))
<1>1. filled \in Filling
  BY BucketsOf, EmitsFill
<1>2. ByRank(ids, query) \in Seq(Items)
  <2>1. IsFiniteSet(ids) /\ ids \in SUBSET Items
    BY FS_Subset
  <2>2. ByRank(ids, query) \in Seq(ids)
    BY <2>1, ByRankSeq
  <2> HIDE DEF ids
  <2> QED BY <2>1, <2>2
<1> DEFINE full == Vault(filled, ByRank(ids, query), here)
<1>3. full \in Filling
  <2> HIDE DEF filled, ids
  <2> QED BY <1>1, <1>2, ForcesFill
<1>4. hot_set(here, query) = full.parts
  BY DEF hot_set
<1> HIDE DEF full
<1> QED BY <1>3, <1>4 DEF Filling

-----------------------------------------------------------------------------
(* Lines and their lengths.                                                      *)

TextForms == {"head", "hot", "fact", "typed", "chunk", "fence", "code", "end of code", "gist", "cut"}
AnyText == [form : TextForms, of : Nat]
\* Texts that are put forward; one that is cut is none of them.
Texts == [form : {"hot", "fact", "typed", "chunk", "fence"}, of : Items] \cup {HotHead}
         \cup [form : {"gist"}, of : Nat]
CodeTexts == [form : {"code", "end of code"}, of : Items]
BodyLines == [text : AnyText, chars : Nat, gap : Nat]
\* The first line is behind no gap and the others are behind one; there is something in it.
Bodies == {body \in Seq(BodyLines) :
             /\ body # <<>> => body[1].gap = 0
             /\ \A n \in DOMAIN body : n > 1 => body[n].gap > 0
             /\ Len(body) = 1 => body[1].chars > 0}

\* Texts are not cut.
LEMMA TextsAre ==
  /\ \A x \in Texts : x \in AnyText /\ x.form # "cut"
  /\ \A x \in CodeTexts : x \in AnyText
<1>1. Items \subseteq Nat
  BY HotAssumption
<1>2. HotHead = [form |-> "head", of |-> 0]
  BY DEF HotHead, Text
<1>3. HotHead \in AnyText /\ HotHead.form # "cut"
  BY <1>2 DEF AnyText, TextForms
<1>4. \A x \in [form : {"gist"}, of : Nat] : x \in AnyText /\ x.form # "cut"
  BY DEF AnyText, TextForms
<1>5. \A x \in [form : {"hot", "fact", "typed", "chunk", "fence"}, of : Items] :
        x \in AnyText /\ x.form # "cut"
  BY <1>1 DEF AnyText, TextForms
<1>6. \A x \in CodeTexts : x \in AnyText
  BY <1>1 DEF AnyText, TextForms, CodeTexts
<1> QED BY <1>3, <1>4, <1>5, <1>6 DEF Texts

\* A text is not empty; half a block of code may be.
LEMMA CharsNat ==
  /\ \A x \in Texts : Chars(x) \in Nat \ {0}
  /\ \A x \in CodeTexts : Chars(x) \in Nat
<1>1. ASSUME NEW x \in Texts, x = HotHead PROVE Chars(x) \in Nat \ {0}
  <2>1. x.form = "head"
    BY <1>1 DEF HotHead, Text
  <2> QED BY <2>1 DEF Chars
<1>2. ASSUME NEW x \in [form : {"gist"}, of : Nat] PROVE Chars(x) \in Nat \ {0}
  <2>1. x.form = "gist" /\ GistChars \in Nat \ {0}
    BY <1>2, PackAssumption
  <2> QED BY <2>1 DEF Chars
<1>3. ASSUME NEW x \in [form : {"hot", "fact", "typed", "chunk", "fence"}, of : Items]
      PROVE  Chars(x) \in Nat \ {0}
  <2>1. /\ x.of \in Items /\ Size[x.of] \in Nat \ {0} /\ Prefix \in Nat /\ HotCut \in Nat
        /\ Prefix + Size[x.of] \in Nat \ {0}
    <3>1. x.of \in Items
      BY <1>3
    <3>2. Size[x.of] \in Nat \ {0} /\ Prefix \in Nat /\ HotCut \in Nat
      BY <3>1, HotAssumption
    <3>3. Prefix + Size[x.of] \in Nat \ {0}
      BY <3>2
    <3> QED BY <3>1, <3>2, <3>3
  <2>2. LineChars(x.of) \in Nat \ {0}
    BY <2>1 DEF LineChars, AtMost
  <2>3. CASE x.form = "hot"
    BY <2>2, <2>3 DEF Chars
  <2>4. CASE x.form \in {"fact", "typed"}
    <3>1. Chars(x) = Prefix + Size[x.of]
      BY <2>4 DEF Chars
    <3> QED BY <2>1, <3>1
  <2>5. CASE x.form \in {"chunk", "fence"}
    BY <2>1, <2>5 DEF Chars
  <2> QED BY <1>3, <2>3, <2>4, <2>5
<1>4. ASSUME NEW x \in CodeTexts PROVE Chars(x) \in Nat
  <2>1. x.of \in Items /\ Size[x.of] \in Nat \ {0} /\ x.form \in {"code", "end of code"}
    BY <1>4, HotAssumption DEF CodeTexts
  <2>2. Half(x.of) \in Nat /\ Size[x.of] - 1 - Half(x.of) \in Nat
    <3>1. ASSUME NEW c \in Nat PROVE c \div 2 \in Nat /\ c \div 2 <= c
      OBVIOUS
    <3>2. Size[x.of] - 1 \in Nat
      <4>1. ASSUME NEW c \in Nat \ {0} PROVE c - 1 \in Nat
        OBVIOUS
      <4> QED BY <2>1, <4>1
    <3>3. (Size[x.of] - 1) \div 2 \in Nat /\ (Size[x.of] - 1) \div 2 <= Size[x.of] - 1
      BY <3>1, <3>2
    <3> QED BY <3>2, <3>3 DEF Half
  <2>3. CASE x.form = "code"
    BY <2>2, <2>3 DEF Chars
  <2>4. CASE x.form = "end of code"
    BY <2>2, <2>4 DEF Chars
  <2> QED BY <2>1, <2>3, <2>4
<1> QED BY <1>1, <1>2, <1>3, <1>4 DEF Texts

\* What estimate_tokens rounds.
LEMMA EstimateNat ==
  /\ \A c \in Nat : estimate_tokens(c) \in Nat
  /\ \A b, c \in Nat : c <= 4 * b => estimate_tokens(c) <= b
  /\ \A b, c \in Nat : c <= b => estimate_tokens(c) <= estimate_tokens(b)
  /\ \A c \in Nat : c > 0 => estimate_tokens(c) > 0
<1>1. ASSUME NEW c \in Nat PROVE (c + 3) \div 4 \in Nat
  OBVIOUS
<1>2. ASSUME NEW b \in Nat, NEW c \in Nat, c <= 4 * b PROVE (c + 3) \div 4 <= b
  BY <1>2
<1>3. ASSUME NEW b \in Nat, NEW c \in Nat, c <= b PROVE (c + 3) \div 4 <= (b + 3) \div 4
  BY <1>3
<1>4. ASSUME NEW c \in Nat, c > 0 PROVE (c + 3) \div 4 > 0
  BY <1>4
<1>5. \A c : estimate_tokens(c) = (c + 3) \div 4
  BY DEF estimate_tokens
<1> QED BY <1>1, <1>2, <1>3, <1>4, <1>5

\* Where the lines start, for as many lines as there are.
LEMMA Starts ==
  ASSUME NEW body \in Seq(BodyLines)
  PROVE  \A n \in 1..Len(body) :
           /\ Start(body, n) \in Nat
           /\ n = 1 => Start(body, n) = body[1].gap
           /\ n > 1 => Start(body, n) = Start(body, n-1) + body[n-1].chars + body[n].gap
<1> DEFINE w(n) == [m \in 1..(n-1) |-> body[m].chars + body[m].gap]
<1>1. \A m \in 1..Len(body) : body[m].chars \in Nat /\ body[m].gap \in Nat
  <2>1. \A m \in 1..Len(body) : body[m] \in BodyLines
    OBVIOUS
  <2> QED BY <2>1 DEF BodyLines
<1>2. ASSUME NEW n \in 1..Len(body) PROVE w(n) \in Seq(Nat) /\ Total(w(n)) \in Nat
  <2>1. n - 1 \in Nat /\ \A m \in 1..(n-1) : m \in 1..Len(body)
    OBVIOUS
  <2>2. w(n) \in Seq(Nat)
    BY <1>1, <2>1
  <2> HIDE DEF w
  <2> QED BY <2>2, TotalAppend
<1>3. w(1) = <<>>
  OBVIOUS
<1>4. ASSUME NEW n \in 1..Len(body), n > 1
      PROVE  Total(w(n)) = Total(w(n-1)) + (body[n-1].chars + body[n-1].gap)
  <2>1. n - 1 \in 1..Len(body)
    BY <1>4
  <2>2. body[n-1].chars + body[n-1].gap \in Nat
    BY <1>1, <2>1
  <2>3. w(n) = Append(w(n-1), body[n-1].chars + body[n-1].gap)
    BY <2>1, <2>2
  <2>4. w(n-1) \in Seq(Nat)
    BY <1>2, <2>1
  <2> HIDE DEF w
  <2> QED BY <2>2, <2>3, <2>4, TotalAppend
<1>5. \A n : Start(body, n) = Total(w(n)) + body[n].gap
  BY DEF Start
<1> HIDE DEF w
<1> SUFFICES ASSUME NEW n \in 1..Len(body)
             PROVE  /\ Start(body, n) \in Nat
                    /\ n = 1 => Start(body, n) = body[1].gap
                    /\ n > 1 => Start(body, n) = Start(body, n-1) + body[n-1].chars + body[n].gap
  OBVIOUS
<1>6. Start(body, n) \in Nat
  <2>1. Total(w(n)) \in Nat /\ body[n].gap \in Nat
    BY <1>1, <1>2
  <2>2. Start(body, n) = Total(w(n)) + body[n].gap
    BY <1>5
  <2> QED BY ONLY <2>1, <2>2
<1>7. n = 1 => Start(body, n) = body[1].gap
  BY <1>1, <1>3, <1>5, TotalEmpty
<1>8. ASSUME n > 1 PROVE Start(body, n) = Start(body, n-1) + body[n-1].chars + body[n].gap
  <2>1. n - 1 \in 1..Len(body)
    BY <1>8
  <2>2. Total(w(n-1)) \in Nat /\ body[n-1].chars \in Nat /\ body[n-1].gap \in Nat /\ body[n].gap \in Nat
    BY <1>1, <1>2, <2>1
  <2>3. /\ Start(body, n) = (Total(w(n-1)) + (body[n-1].chars + body[n-1].gap)) + body[n].gap
        /\ Start(body, n-1) = Total(w(n-1)) + body[n-1].gap
    BY <1>4, <1>5, <1>8
  <2> QED BY <2>2, <2>3
<1> QED BY <1>6, <1>7, <1>8

\* A body has a length.
LEMMA LengthNat ==
  ASSUME NEW body \in Seq(BodyLines)
  PROVE  Length(body) \in Nat
<1>1. CASE body = <<>>
  BY <1>1 DEF Length
<1>2. CASE body # <<>>
  <2>1. Len(body) \in 1..Len(body) /\ body[Len(body)] \in BodyLines
    BY <1>2
  <2>2. Start(body, Len(body)) \in Nat /\ body[Len(body)].chars \in Nat
    BY <2>1, Starts DEF BodyLines
  <2> QED BY <1>2, <2>2 DEF Length
<1> QED BY <1>1, <1>2

\* Each line starts behind the end of those before it.
LEMMA StartsGrow ==
  ASSUME NEW body \in Bodies, NEW n \in 1..Len(body)
  PROVE  \A m \in 1..Len(body) : m < n => Start(body, m) + body[m].chars < Start(body, n)
<1> DEFINE S == {k \in 0..Len(body) : \A m, j \in 1..k : m < j
      => Start(body, m) + body[m].chars < Start(body, j)}
<1>1. body \in Seq(BodyLines) /\ Len(body) \in Nat /\ S \in SUBSET (0..Len(body)) /\ 0 \in S
  BY DEF Bodies
<1>2. \A m \in 1..Len(body) : body[m].chars \in Nat /\ body[m].gap \in Nat /\ Start(body, m) \in Nat
  <2>1. \A m \in 1..Len(body) : body[m] \in BodyLines
    BY <1>1
  <2> QED BY <1>1, <2>1, Starts DEF BodyLines
<1>3. ASSUME NEW k \in 1..Len(body), k - 1 \in S PROVE k \in S
  <2> SUFFICES ASSUME NEW m \in 1..k, NEW j \in 1..k, m < j
               PROVE  Start(body, m) + body[m].chars < Start(body, j)
    BY <1>1
  <2>1. CASE j < k
    <3>1. m \in 1..(k-1) /\ j \in 1..(k-1)
      BY <2>1
    <3> QED BY <1>3, <3>1
  <2>2. CASE j = k
    <3>1. k > 1 /\ k - 1 \in 1..Len(body) /\ k \in DOMAIN body /\ m \in 1..Len(body)
      BY <1>1, <2>2
    <3>2. Start(body, k) = Start(body, k-1) + body[k-1].chars + body[k].gap /\ body[k].gap > 0
      BY <1>1, <3>1, Starts DEF Bodies
    <3>3. Start(body, k-1) + body[k-1].chars < Start(body, k)
      BY <1>2, <3>1, <3>2
    <3>4. CASE m = k - 1
      BY <2>2, <3>3, <3>4
    <3>5. CASE m < k - 1
      <4>1. m \in 1..(k-1) /\ k - 1 \in 1..(k-1)
        BY <3>1, <3>5
      <4>2. Start(body, m) + body[m].chars < Start(body, k-1)
        BY <1>3, <3>5, <4>1
      <4> QED BY <1>2, <2>2, <3>1, <3>3, <4>2
    <3> QED BY <2>2, <3>1, <3>4, <3>5
  <2> QED BY <2>1, <2>2
<1>4. n \in S
  <2> HIDE DEF S
  <2>1. n \in 0..Len(body)
    OBVIOUS
  <2> QED BY <1>1, <1>3, <2>1, Induct
<1> QED BY <1>4

\* The length of a body is where its last line ends, and no line ends later.
LEMMA LengthIs ==
  ASSUME NEW body \in Bodies
  PROVE  /\ body # <<>> => Length(body) > 0
         /\ \A n \in 1..Len(body) : Start(body, n) + body[n].chars <= Length(body)
<1> DEFINE L == Len(body)
<1>1. body \in Seq(BodyLines) /\ L \in Nat /\ DOMAIN body = 1..L
  BY DEF Bodies
<1>2. \A m \in 1..L : body[m].chars \in Nat /\ body[m].gap \in Nat /\ Start(body, m) \in Nat
  <2>1. \A m \in 1..L : body[m] \in BodyLines
    BY <1>1
  <2> QED BY <1>1, <2>1, Starts DEF BodyLines
<1>3. body # <<>> => L \in 1..L /\ Length(body) = Start(body, L) + body[L].chars
  BY <1>1 DEF Length
<1>4. ASSUME body # <<>> PROVE Length(body) > 0
  <2>1. CASE L = 1
    <3>1. Start(body, 1) = 0 /\ body[1].chars > 0
      BY <1>1, <1>4, <2>1, Starts DEF Bodies
    <3> QED BY <1>2, <1>3, <1>4, <2>1, <3>1
  <2>2. CASE L > 1
    <3>1. 1 \in 1..L /\ L \in 1..L
      BY <1>1, <2>2
    <3>2. Start(body, 1) + body[1].chars < Start(body, L)
      <4> HIDE DEF L
      <4> QED BY <1>1, <2>2, <3>1, StartsGrow DEF L
    <3> QED BY <1>2, <1>3, <1>4, <3>1, <3>2
  <2> QED BY <1>1, <1>3, <1>4, <2>1, <2>2
<1>5. ASSUME NEW n \in 1..L PROVE Start(body, n) + body[n].chars <= Length(body)
  <2>1. body # <<>> /\ L \in 1..L
    BY <1>1
  <2>2. CASE n = L
    BY <1>2, <1>3, <2>1, <2>2
  <2>3. CASE n < L
    <3>1. Start(body, n) + body[n].chars < Start(body, L)
      BY <2>1, <2>3, StartsGrow
    <3> QED BY <1>2, <1>3, <2>1, <3>1
  <2>4. n \in Nat /\ n <= L
    BY <1>1
  <2> HIDE DEF L
  <2> QED BY <1>1, <2>2, <2>3, <2>4
<1> QED BY <1>4, <1>5

\* The lines that are begun are the first ones, and the last of them is begun.
LEMMA BegunAre ==
  ASSUME NEW body \in Bodies, body # <<>>, NEW end \in Nat \ {0},
         NEW begun, begun = {n \in DOMAIN body : Start(body, n) < end}
  PROVE  Cardinality(begun) \in begun
<1> DEFINE L == Len(body)
           m == Max(begun)
<1>1. body \in Seq(BodyLines) /\ body[1].gap = 0 /\ L \in Nat \ {0} /\ DOMAIN body = 1..L
  BY DEF Bodies
<1>2. begun \in SUBSET (1..L) /\ 1 \in begun
  <2>1. Start(body, 1) = 0
    BY <1>1, Starts
  <2> QED BY <1>1, <2>1
<1>3. m \in begun /\ \A k \in begun : k <= m
  <2> HIDE DEF L
  <2> QED BY <1>1, <1>2, MaxIs
<1> HIDE DEF m
<1>4. m \in 1..L
  BY <1>2, <1>3
<1>5. ASSUME NEW n \in begun, n > 1 PROVE n - 1 \in begun
  <2>1. n \in 1..L /\ n - 1 \in 1..L /\ Start(body, n) < end
    BY <1>1, <1>5
  <2>2. body[n] \in BodyLines /\ body[n-1] \in BodyLines
    BY <1>1, <2>1
  <2>3. body[n].gap \in Nat /\ body[n-1].chars \in Nat
    BY <2>2 DEF BodyLines
  <2>4. /\ Start(body, n) \in Nat /\ Start(body, n-1) \in Nat
        /\ Start(body, n) = Start(body, n-1) + body[n-1].chars + body[n].gap
    BY <1>1, <1>5, <2>1, Starts
  <2>5. Start(body, n-1) < end
    BY <2>1, <2>3, <2>4
  <2> QED BY <1>1, <2>1, <2>5
<1> DEFINE S == {k \in 0..(m-1) : m - k \in begun}
<1>6. \A k \in 0..(m-1) : k \in S
  <2>1. m - 1 \in Nat /\ m \in Nat /\ S \in SUBSET (0..(m-1)) /\ 0 \in S
    BY <1>3, <1>4
  <2>2. ASSUME NEW k \in 1..(m-1), k - 1 \in S PROVE k \in S
    <3>1. m - (k - 1) \in begun
      BY <2>2
    <3>2. m - (k - 1) > 1 /\ (m - (k - 1)) - 1 = m - k /\ k \in 0..(m-1)
      BY <1>4
    <3>3. m - k \in begun
      BY <1>5, <3>1, <3>2
    <3> QED BY <3>2, <3>3
  <2> HIDE DEF S
  <2> QED BY <2>1, <2>2, Induct
<1>7. begun = 1..m
  <2>1. ASSUME NEW j \in 1..m PROVE j \in begun
    <3>1. m - j \in 0..(m-1) /\ m - (m - j) = j
      BY <1>4
    <3>2. m - j \in S
      BY <1>6, <3>1
    <3> QED BY <3>1, <3>2
  <2>2. ASSUME NEW j \in begun PROVE j \in 1..m
    BY <1>2, <1>3, <1>4
  <2> QED BY <2>1, <2>2
<1>8. Cardinality(begun) = m
  <2>1. m \in Nat /\ 1 \in Int /\ m \in Int /\ 1 <= m
    BY <1>4
  <2>2. Cardinality(1..m) = m
    BY <2>1, FS_Interval
  <2> QED BY <1>7, <2>2
<1> QED BY <1>3, <1>8

\* Whatever is cut fits the budget, and still starts behind no gap.
LEMMA TruncateFits ==
  ASSUME NEW body \in Bodies, NEW budget \in Nat \ {0}
  PROVE  /\ Truncate(body, budget) \in Bodies
         /\ estimate_tokens(Length(Truncate(body, budget))) <= budget
<1> DEFINE end == 4 * budget - 3
           begun == {n \in DOMAIN body : Start(body, n) < end}
           cutAt == Cardinality(begun)
           line == body[cutAt]
           cut == [text |-> Text("cut", line.text.of), gap |-> line.gap,
                   chars |-> AtMost(line.chars, end - Start(body, cutAt)) + 3]
           head == SubSeq(body, 1, cutAt - 1)
<1>1. body \in Seq(BodyLines) /\ DOMAIN body = 1..Len(body) /\ Len(body) \in Nat /\ end \in Nat \ {0}
  BY DEF Bodies
<1>2. Truncate(body, budget) = IF estimate_tokens(Length(body)) <= budget THEN body ELSE Append(head, cut)
  <2>1. AtLeast(1, budget) = budget
    BY DEF AtLeast
  <2> QED BY <2>1 DEF Truncate
<1>3. CASE estimate_tokens(Length(body)) <= budget
  BY <1>2, <1>3
<1>4. CASE ~(estimate_tokens(Length(body)) <= budget)
  <2>1. body # <<>>
    <3>1. Length(<<>>) = 0
      BY DEF Length
    <3>2. estimate_tokens(0) <= budget
      BY EstimateNat
    <3> QED BY <1>4, <3>1, <3>2
  <2>2. cutAt \in begun
    <3> HIDE DEF end
    <3> QED BY <1>1, <2>1, BegunAre
  <2>3. cutAt \in 1..Len(body) /\ Start(body, cutAt) < end
    BY <1>1, <2>2
  <2>4. Start(body, cutAt) \in Nat
    <3> HIDE DEF cutAt
    <3> QED BY <1>1, <2>3, Starts
  <2> HIDE DEF cutAt, end
  <2>5. line \in BodyLines /\ line.gap \in Nat /\ line.chars \in Nat /\ line.text \in AnyText
    <3>1. line \in BodyLines
      BY <1>1, <2>3
    <3> HIDE DEF line
    <3> QED BY <3>1 DEF BodyLines
  <2> DEFINE more == AtMost(line.chars, end - Start(body, cutAt))
  <2>6. more \in Nat /\ Start(body, cutAt) + more <= end
    <3> HIDE DEF line
    <3> QED BY <1>1, <2>3, <2>4, <2>5 DEF AtMost
  <2>7. cut = [text |-> Text("cut", line.text.of), gap |-> line.gap, chars |-> more + 3]
    OBVIOUS
  <2>8. cut \in BodyLines /\ cut.gap = line.gap /\ cut.chars = more + 3
    <3>1. Text("cut", line.text.of) \in AnyText
      BY <2>5 DEF Text, AnyText, TextForms
    <3> HIDE DEF cut, more, line
    <3> QED BY <2>5, <2>6, <2>7, <3>1 DEF BodyLines
  <2> HIDE DEF cut, more
  <2> DEFINE new == Append(head, cut)
  <2>9. /\ head \in Seq(BodyLines) /\ Len(head) = cutAt - 1 /\ new \in Seq(BodyLines) /\ Len(new) = cutAt
        /\ new[cutAt] = cut /\ \A n \in 1..(cutAt - 1) : new[n] = body[n]
    <3>1. head \in Seq(BodyLines) /\ Len(head) = cutAt - 1 /\ \A n \in 1..(cutAt - 1) : head[n] = body[n]
      BY <1>1, <2>3
    <3> HIDE DEF head
    <3> QED BY <2>3, <2>8, <3>1
  <2> HIDE DEF new
  <2>10. Start(new, cutAt) = Start(body, cutAt)
    <3>1. [m \in 1..(cutAt - 1) |-> new[m].chars + new[m].gap]
            = [m \in 1..(cutAt - 1) |-> body[m].chars + body[m].gap]
      BY <2>9
    <3>2. new[cutAt].gap = body[cutAt].gap
      BY <2>8, <2>9
    <3> QED BY <3>1, <3>2 DEF Start
  <2>11. Length(new) = Start(body, cutAt) + (more + 3)
    <3>1. new # <<>>
      BY <2>3, <2>9
    <3> QED BY <2>8, <2>9, <2>10, <3>1 DEF Length
  <2>12. Length(new) \in Nat /\ Length(new) <= 4 * budget
    <3>1. end + 3 = 4 * budget
      BY DEF end
    <3> QED BY <1>1, <2>4, <2>6, <2>11, <3>1
  <2>13. new[1].gap = 0
    <3>1. body[1].gap = 0
      BY <2>1 DEF Bodies
    <3>2. CASE cutAt = 1
      BY <2>8, <2>9, <3>1, <3>2
    <3>3. CASE cutAt # 1
      BY <2>3, <2>9, <3>1, <3>3
    <3> QED BY <3>2, <3>3
  <2>14. estimate_tokens(Length(new)) <= budget
    BY <2>12, EstimateNat
  <2>16. \A n \in DOMAIN new : n > 1 => new[n].gap > 0
    <3> SUFFICES ASSUME NEW n \in 1..cutAt, n > 1 PROVE new[n].gap > 0
      BY <2>9
    <3>1. n \in DOMAIN body /\ body[n].gap > 0
      BY <1>1, <2>3 DEF Bodies
    <3>2. CASE n = cutAt
      BY <2>8, <2>9, <3>1, <3>2
    <3>3. CASE n # cutAt
      <4>1. n \in 1..(cutAt - 1)
        BY <2>3, <3>3
      <4> QED BY <2>9, <3>1, <4>1
    <3> QED BY <3>2, <3>3
  <2>17. Len(new) = 1 => new[1].chars > 0
    <3>1. more + 3 > 0
      BY <2>6
    <3> QED BY <2>8, <2>9, <3>1
  <2>15. Truncate(body, budget) = new
    BY <1>2, <1>4 DEF new
  <2> QED BY <2>9, <2>13, <2>14, <2>15, <2>16, <2>17 DEF Bodies
<1> QED BY <1>3, <1>4

-----------------------------------------------------------------------------
(* What is gathered for a pack.                                              *)

Gathering(suppress) ==
  [body : Bodies, used : Nat, extra : Seq(AnyText), blocked : SUBSET (suppress \cap Texts),
   norm : SUBSET AnyText]

\* A line of a text.
LEMMA LineIs ==
  /\ \A x \in Texts : \A gap \in Nat :
       Line(x, gap) \in BodyLines /\ Line(x, gap).gap = gap /\ Line(x, gap).chars > 0
  /\ \A x \in CodeTexts : \A gap \in Nat : Line(x, gap) \in BodyLines /\ Line(x, gap).gap = gap
<1>1. ASSUME NEW x \in AnyText, NEW gap \in Nat, Chars(x) \in Nat
      PROVE  Line(x, gap) \in BodyLines /\ Line(x, gap).gap = gap /\ Line(x, gap).chars = Chars(x)
  BY <1>1 DEF Line, BodyLines
<1>2. ASSUME NEW x \in Texts, NEW gap \in Nat
      PROVE  Line(x, gap) \in BodyLines /\ Line(x, gap).gap = gap /\ Line(x, gap).chars > 0
  <2>1. x \in AnyText /\ Chars(x) \in Nat /\ Chars(x) > 0
    BY TextsAre, CharsNat
  <2> QED BY <1>1, <2>1
<1>3. ASSUME NEW x \in CodeTexts, NEW gap \in Nat
      PROVE  Line(x, gap) \in BodyLines /\ Line(x, gap).gap = gap
  <2>1. x \in AnyText /\ Chars(x) \in Nat
    BY TextsAre, CharsNat
  <2> QED BY <1>1, <2>1
<1> QED BY <1>2, <1>3

\* BodyLines that may follow others.
Blocks(gap) == {more \in Seq(BodyLines) :
                  /\ more # <<>> /\ more[1].gap = gap
                  /\ \A n \in DOMAIN more : n > 1 => more[n].gap > 0
                  /\ Len(more) = 1 => more[1].chars > 0}

\* The lines of a text.
LEMMA LinesOfAre ==
  ASSUME NEW x \in Texts, NEW gap \in Nat
  PROVE  LinesOf(x, gap) \in Blocks(gap)
<1>1. CASE x.form # "fence"
  <2>1. Line(x, gap) \in BodyLines /\ Line(x, gap).gap = gap /\ Line(x, gap).chars > 0
    BY LineIs
  <2>2. LinesOf(x, gap) = <<Line(x, gap)>>
    BY <1>1 DEF LinesOf
  <2> QED BY <2>1, <2>2 DEF Blocks
<1>2. CASE x.form = "fence"
  <2> DEFINE a == Text("code", x.of)
             b == Text("end of code", x.of)
  <2>1. x.of \in Items
    <3>1. x # HotHead
      BY <1>2 DEF HotHead, Text
    <3>2. x \notin [form : {"gist"}, of : Nat]
      BY <1>2
    <3>3. x \in [form : {"hot", "fact", "typed", "chunk", "fence"}, of : Items]
      BY <3>1, <3>2 DEF Texts
    <3> QED BY <3>3
  <2>2. a \in CodeTexts /\ b \in CodeTexts
    BY <2>1 DEF CodeTexts, Text
  <2> HIDE DEF a, b
  <2>3. Line(a, gap) \in BodyLines /\ Line(b, 1) \in BodyLines /\ Line(a, gap).gap = gap /\ Line(b, 1).gap = 1
    BY <2>2, LineIs
  <2>4. LinesOf(x, gap) = <<Line(a, gap), Line(b, 1)>>
    BY <1>2 DEF LinesOf, a, b
  <2>5. \A n \in DOMAIN LinesOf(x, gap) : n > 1 => LinesOf(x, gap)[n].gap > 0
    BY <2>3, <2>4
  <2> QED BY <2>3, <2>4, <2>5 DEF Blocks
<1> QED BY <1>1, <1>2

\* A text behind a body.
LEMMA BodiesGrow ==
  ASSUME NEW body \in Bodies, NEW more \in Blocks(IF body = <<>> THEN 0 ELSE 2)
  PROVE  body \o more \in Bodies
<1> DEFINE new == body \o more
           k == Len(body)
<1>1. /\ body \in Seq(BodyLines) /\ (body # <<>> => body[1].gap = 0) /\ k \in Nat
      /\ \A n \in DOMAIN body : n > 1 => body[n].gap > 0
  BY DEF Bodies
<1>2. /\ more \in Seq(BodyLines) /\ more # <<>> /\ more[1].gap = (IF body = <<>> THEN 0 ELSE 2)
      /\ \A n \in DOMAIN more : n > 1 => more[n].gap > 0
      /\ Len(more) = 1 => more[1].chars > 0
  BY DEF Blocks
<1>3. CASE body = <<>>
  <2>1. new = more
    BY <1>2, <1>3
  <2> HIDE DEF new
  <2> QED BY <1>2, <1>3, <2>1 DEF Bodies, new
<1>4. CASE body # <<>>
  <2>1. /\ new \in Seq(BodyLines) /\ Len(new) = k + Len(more) /\ k > 0 /\ Len(more) > 0
        /\ DOMAIN new = 1..(k + Len(more))
    BY <1>1, <1>2, <1>4
  <2>2. \A n \in 1..k : new[n] = body[n]
    BY <1>1, <1>2
  <2>3. \A n \in 1..(k + Len(more)) : n > k => n - k \in DOMAIN more /\ new[n] = more[n-k]
    BY <1>1, <1>2
  <2> HIDE DEF new
  <2>4. new[1].gap = 0
    BY <1>1, <1>4, <2>1, <2>2
  <2>5. Len(new) # 1
    BY <1>1, <1>2, <2>1
  <2>6. ASSUME NEW n \in DOMAIN new, n > 1 PROVE new[n].gap > 0
    <3>1. CASE n <= k
      <4>1. n \in DOMAIN body /\ n \in 1..k
        BY <1>1, <2>1, <2>6, <3>1
      <4> QED BY <1>1, <2>2, <2>6, <4>1
    <3>2. CASE n = k + 1
      <4>1. n > k /\ n - k = 1
        BY <1>1, <3>2
      <4>2. new[n] = more[1]
        BY <2>1, <2>3, <4>1
      <4> QED BY <1>2, <1>4, <4>2
    <3>3. CASE n > k + 1
      <4>1. n > k /\ n - k > 1
        BY <1>1, <2>1, <3>3
      <4> QED BY <1>2, <2>1, <2>3, <4>1
    <3> QED BY <1>1, <2>1, <3>1, <3>2, <3>3
  <2> QED BY <2>1, <2>4, <2>5, <2>6 DEF Bodies, new
<1> QED BY <1>3, <1>4

\* One typed line or chunk, taken or not.
LEMMA TakeGathers ==
  ASSUME NEW suppress, NEW s \in Gathering(suppress), NEW x \in Texts, NEW hot, NEW cap
  PROVE  Take(s, x, hot, suppress, cap) \in Gathering(suppress)
<1> DEFINE gap == IF s.body = <<>> THEN 0 ELSE 2
           new == [body |-> s.body \o LinesOf(x, gap), extra |-> Append(s.extra, x),
                   used |-> s.used + Tokens(x), blocked |-> s.blocked, norm |-> s.norm \cup {x}]
           out == [s EXCEPT !.blocked = @ \cup {x}]
<1>1. /\ s.body \in Bodies /\ s.used \in Nat /\ s.extra \in Seq(AnyText)
      /\ s.blocked \in SUBSET (suppress \cap Texts) /\ s.norm \in SUBSET AnyText
      /\ x \in AnyText /\ gap \in Nat
  BY TextsAre DEF Gathering
<1>2. Tokens(x) \in Nat
  BY CharsNat, EstimateNat DEF Tokens
<1>3. new \in Gathering(suppress)
  <2>1. s.body \o LinesOf(x, gap) \in Bodies
    <3>1. LinesOf(x, gap) \in Blocks(gap)
      <4> HIDE DEF gap
      <4> QED BY <1>1, LinesOfAre
    <3> QED BY <1>1, <3>1, BodiesGrow
  <2> HIDE DEF gap
  <2>2. Append(s.extra, x) \in Seq(AnyText) /\ s.used + Tokens(x) \in Nat
          /\ s.norm \cup {x} \in SUBSET AnyText
    BY <1>1, <1>2
  <2> QED BY <1>1, <2>1, <2>2 DEF Gathering
<1>4. x \in suppress => out \in Gathering(suppress)
  <2> SUFFICES ASSUME x \in suppress PROVE out \in Gathering(suppress)
    OBVIOUS
  <2>1. s.blocked \cup {x} \in SUBSET (suppress \cap Texts)
    BY <1>1
  <2> QED BY <1>1, <2>1 DEF Gathering
<1>5. Take(s, x, hot, suppress, cap) =
        IF x \in s.norm \/ InHot(x, hot) THEN s
        ELSE IF x \in suppress THEN out
        ELSE IF Marginal(x, s.extra) \/ s.used + Tokens(x) > cap THEN s
        ELSE new
  BY DEF Take
<1> HIDE DEF new, out
<1> QED BY <1>3, <1>4, <1>5

\* The typed lines and chunks one after the other.
LEMMA TakesGather ==
  ASSUME NEW w \in Seq(Texts), NEW suppress, NEW base \in Gathering(suppress), NEW hot, NEW cap
  PROVE  Taken(base, w, hot, suppress, cap) \in Gathering(suppress)
<1> DEFINE T == Gathering(suppress)
           n == Len(w)
           step == [k \in 1..n |-> [s \in T |-> Take(s, w[k], hot, suppress, cap)]]
           F(h) == [u \in SUBSET (DOMAIN w) |->
                      IF u = {} THEN base
                      ELSE LET x == Max(u) IN Take(h[u \ {x}], w[x], hot, suppress, cap)]
           it == CHOOSE h : h = F(h)
<1>1. n \in Nat /\ DOMAIN w = 1..n /\ base \in T /\ \A k \in 1..n : w[k] \in Texts
  OBVIOUS
<1>2. step \in [1..n -> [T -> T]]
  <2> HIDE DEF T
  <2>1. \A k \in 1..n : \A s \in T : Take(s, w[k], hot, suppress, cap) \in T
    BY <1>1, TakeGathers DEF T
  <2> QED BY <2>1
<1>3. PICK g \in [SUBSET (1..n) -> T] : Steps(g, n, base, step)
  <2> HIDE DEF T, n, step
  <2> QED BY <1>1, <1>2, FoldExists
<1>4. \A u \in SUBSET (1..n) : u # {} => Max(u) \in 1..n /\ u \ {Max(u)} \in SUBSET (1..n)
  BY <1>1, MaxIs
<1>5. g = F(g)
  <2> HIDE DEF T
  <2>1. \A u \in SUBSET (1..n) :
          u # {} => step[Max(u)][g[u \ {Max(u)}]] = Take(g[u \ {Max(u)}], w[Max(u)], hot, suppress, cap)
    BY <1>3, <1>4
  <2> HIDE DEF step, n
  <2> QED BY <1>1, <1>3, <2>1 DEF Steps
<1>6. it = F(it)
  BY <1>5
<1>7. Taken(base, w, hot, suppress, cap) = it[1..n]
  BY <1>1 DEF Taken, FoldLeft, MapThenFoldSet
<1> HIDE DEF it
<1>8. Follows(it, n, T, base, step)
  <2>1. \A u \in SUBSET (1..n) :
          it[u] = IF u = {} THEN base ELSE Take(it[u \ {Max(u)}], w[Max(u)], hot, suppress, cap)
    BY <1>1, <1>6
  <2> HIDE DEF T
  <2> QED BY <1>4, <2>1 DEF Follows
<1> HIDE DEF T, n, step
<1>9. PICK r \in [0..n -> T] : Runs(r, n, base, step) /\ it[1..n] = r[n]
  <2>1. n \in Nat /\ base \in T
    BY <1>1
  <2>2. Led(it, n, T, base, step)
    BY ONLY <1>2, <1>8, <2>1, FoldRuns
  <2> QED BY ONLY <2>2 DEF Led
<1>10. n \in 0..n
  BY <1>1
<1> QED BY <1>7, <1>9, <1>10 DEF T

\* The texts of an item.
LEMMA ItemTexts ==
  ASSUME NEW i \in Items
  PROVE  HotText(i) \in Texts /\ TypedText(i) \in Texts /\ ChunkText(i) \in Texts
BY DEF HotText, TypedText, ChunkText, Texts, Text

\* What is gathered first.
LEMMA HotPieceGathers ==
  ASSUME NEW hot \in Seq(Items), NEW cap \in Nat \ {0}, NEW suppress
  PROVE  HotPiece(hot, cap) \in Gathering(suppress)
<1> DEFINE rest == [n \in 1..Len(hot) |-> Line(HotText(hot[n]), 1)]
           lines == <<Line(HotHead, 0)>> \o rest
           piece == IF hot = <<>> THEN <<>> ELSE Truncate(lines, cap)
           texts == {HotText(hot[n]) : n \in DOMAIN hot}
<1>1. lines \in Bodies
  <2>1. HotHead \in Texts
    BY DEF Texts
  <2>2. Line(HotHead, 0) \in BodyLines /\ Line(HotHead, 0).gap = 0 /\ Line(HotHead, 0).chars > 0
    BY <2>1, LineIs
  <2>3. \A n \in 1..Len(hot) : Line(HotText(hot[n]), 1) \in BodyLines
    <3>1. \A n \in 1..Len(hot) : HotText(hot[n]) \in Texts
      BY ItemTexts
    <3> QED BY <3>1, LineIs
  <2>4. rest \in Seq(BodyLines)
    BY <2>3
  <2> HIDE DEF rest
  <2>5. lines \in Seq(BodyLines) /\ lines[1] = Line(HotHead, 0)
    BY <2>2, <2>4
  <2>6. Len(lines) = Len(hot) + 1 /\ \A n \in 2..(Len(hot) + 1) : lines[n] = rest[n-1]
    BY <2>2, <2>4 DEF rest
  <2>7. \A n \in 1..Len(hot) : rest[n].gap = 1
    <3>1. \A n \in 1..Len(hot) : Line(HotText(hot[n]), 1).gap = 1
      BY DEF Line
    <3> QED BY <3>1 DEF rest
  <2>8. \A n \in DOMAIN lines : n > 1 => lines[n].gap > 0
    <3> SUFFICES ASSUME NEW n \in DOMAIN lines, n > 1 PROVE lines[n].gap > 0
      OBVIOUS
    <3>1. n \in 2..(Len(hot) + 1) /\ n - 1 \in 1..Len(hot)
      BY <2>5, <2>6
    <3> QED BY <2>6, <2>7, <3>1
  <2> HIDE DEF lines
  <2> QED BY <2>2, <2>5, <2>8 DEF Bodies
<1> HIDE DEF lines
<1>2. piece \in Bodies
  <2>1. <<>> \in Bodies
    BY DEF Bodies
  <2> QED BY <1>1, <2>1, TruncateFits
<1> HIDE DEF piece
<1>3. estimate_tokens(Length(piece)) \in Nat
  <2>1. piece \in Seq(BodyLines)
    BY <1>2 DEF Bodies
  <2> QED BY <2>1, LengthNat, EstimateNat
<1>4. texts \in SUBSET AnyText
  BY ItemTexts, TextsAre
<1>5. HotPiece(hot, cap) =
        [body |-> piece, used |-> estimate_tokens(Length(piece)), extra |-> <<>>,
         blocked |-> {}, norm |-> texts]
  BY DEF HotPiece, piece, lines
<1> HIDE DEF texts
<1> QED BY <1>2, <1>3, <1>4, <1>5 DEF Gathering

\* What is gathered.
LEMMA GatherGathers ==
  ASSUME NEW hot \in Seq(Items), NEW typed \in Seq(Texts), NEW chunks \in Seq(Texts),
         NEW suppress, NEW cap \in Nat \ {0}
  PROVE  Gather(hot, typed, chunks, suppress, cap) \in Gathering(suppress)
<1>1. typed \o chunks \in Seq(Texts)
  OBVIOUS
<1>2. HotPiece(hot, cap) \in Gathering(suppress)
  BY HotPieceGathers
<1> QED BY <1>1, <1>2, TakesGather DEF Gather

\* What is new in a pack is never more than the pack.
LEMMA NovelFits ==
  ASSUME NEW body \in Bodies, NEW recent
  PROVE  Novel(body, recent) \in Nat /\ Novel(body, recent) <= estimate_tokens(Length(body))
<1> DEFINE at == {n \in DOMAIN body : body[n].text \notin recent}
           new == Those(body, at)
           joined == [n \in DOMAIN new |-> [new[n] EXCEPT !.gap = IF n = 1 THEN 0 ELSE 1]]
           L == Len(body)
           J == Len(joined)
<1>1. body \in Seq(BodyLines) /\ L \in Nat /\ DOMAIN body = 1..L
  BY DEF Bodies
<1>2. /\ new \in Seq(BodyLines)
      /\ \E place \in Seq(DOMAIN body) :
           /\ Len(place) = Len(new)
           /\ \A n \in 1..Len(place) : new[n] = body[place[n]]
           /\ \A n, m \in 1..Len(place) : n < m => place[n] < place[m]
  <2>1. at \in SUBSET (DOMAIN body)
    OBVIOUS
  <2> HIDE DEF at, L
  <2> QED BY <1>1, <2>1, ThoseOf
<1>3. Novel(body, recent) = estimate_tokens(Length(joined))
  BY DEF Novel, new
<1> HIDE DEF new, L
<1>4. \A n \in DOMAIN new : /\ joined[n] \in BodyLines /\ joined[n].chars = new[n].chars
                            /\ joined[n].gap = IF n = 1 THEN 0 ELSE 1
  <2> SUFFICES ASSUME NEW n \in DOMAIN new
               PROVE  LET line == [new[n] EXCEPT !.gap = IF n = 1 THEN 0 ELSE 1]
                      IN line \in BodyLines /\ line.chars = new[n].chars /\ line.gap = IF n = 1 THEN 0 ELSE 1
    OBVIOUS
  <2>1. new[n] \in BodyLines
    BY <1>2
  <2> QED BY <2>1 DEF BodyLines
<1>5. joined \in Seq(BodyLines) /\ J = Len(new) /\ J \in Nat
  <2>1. DOMAIN new = 1..Len(new) /\ Len(new) \in Nat
    BY <1>2
  <2>2. joined \in [1..Len(new) -> BodyLines]
    BY <1>4, <2>1
  <2> HIDE DEF joined
  <2> QED BY <2>1, <2>2
<1>6. PICK place \in Seq(DOMAIN body) :
        /\ Len(place) = J
        /\ \A n \in 1..J : new[n] = body[place[n]]
        /\ \A n, m \in 1..J : n < m => place[n] < place[m]
  BY <1>2, <1>5
<1>7. \A n \in 1..J : /\ place[n] \in 1..L /\ joined[n].chars = body[place[n]].chars
                      /\ joined[n].gap = IF n = 1 THEN 0 ELSE 1
  BY <1>1, <1>2, <1>4, <1>5, <1>6
<1> HIDE DEF joined, J
<1>8. \A m \in 1..L : body[m].chars \in Nat /\ Start(body, m) \in Nat
  <2>1. \A m \in 1..L : body[m] \in BodyLines
    BY <1>1
  <2> QED BY <1>1, <2>1, Starts DEF BodyLines, L
<1>9. \A n \in 1..J : /\ Start(joined, n) \in Nat
                      /\ n = 1 => Start(joined, n) = 0
                      /\ n > 1 => Start(joined, n) = Start(joined, n-1) + joined[n-1].chars + 1
  <2>1. \A n \in 1..J : /\ Start(joined, n) \in Nat
                        /\ n = 1 => Start(joined, n) = joined[1].gap
                        /\ n > 1 => Start(joined, n) = Start(joined, n-1) + joined[n-1].chars + joined[n].gap
    BY <1>5, Starts DEF J
  <2> QED BY <1>5, <1>7, <2>1
<1> DEFINE S == {k \in 0..J : k > 0 => Start(joined, k) <= Start(body, place[k])}
<1>10. ASSUME NEW k \in 1..J, k - 1 \in S PROVE k \in S
  <2>1. CASE k = 1
    <3>1. Start(joined, 1) = 0 /\ Start(body, place[1]) \in Nat
      BY <1>7, <1>8, <1>9, <2>1
    <3> QED BY <2>1, <3>1
  <2>2. CASE k > 1
    <3>1. k - 1 \in 1..J /\ k - 1 < k
      BY <1>5, <2>2
    <3>2. Start(joined, k-1) <= Start(body, place[k-1])
      BY <1>10, <2>2, <3>1
    <3>3. place[k-1] < place[k] /\ place[k-1] \in 1..L /\ place[k] \in 1..L
      BY <1>6, <1>7, <3>1
    <3>4. Start(body, place[k-1]) + body[place[k-1]].chars < Start(body, place[k])
      BY <3>3, StartsGrow DEF L
    <3>5. Start(joined, k) = Start(joined, k-1) + body[place[k-1]].chars + 1
      BY <1>7, <1>9, <2>2, <3>1
    <3>6. /\ Start(joined, k-1) \in Nat /\ Start(body, place[k-1]) \in Nat /\ Start(body, place[k]) \in Nat
          /\ body[place[k-1]].chars \in Nat /\ Start(joined, k) \in Nat
      BY <1>8, <1>9, <3>1, <3>3
    <3>7. Start(joined, k) <= Start(body, place[k])
      BY <3>2, <3>4, <3>5, <3>6
    <3> QED BY <1>5, <3>7
  <2> QED BY <1>5, <2>1, <2>2
<1>11. \A k \in 0..J : k \in S
  <2>1. S \in SUBSET (0..J) /\ 0 \in S
    BY <1>5
  <2> HIDE DEF S
  <2> QED BY <1>5, <1>10, <2>1, Induct
<1>12. Length(joined) \in Nat /\ Length(body) \in Nat
  BY <1>1, <1>5, LengthNat
<1>13. Length(joined) <= Length(body)
  <2>1. CASE joined = <<>>
    <3>1. Length(joined) = 0
      BY <2>1 DEF Length
    <3> QED BY <1>12, <3>1
  <2>2. CASE joined # <<>>
    <3>1. J \in 1..J /\ J \in 0..J /\ Length(joined) = Start(joined, J) + joined[J].chars
      BY <1>5, <2>2 DEF Length, J
    <3>2. Start(joined, J) <= Start(body, place[J])
      BY <1>11, <3>1
    <3>3. place[J] \in 1..L /\ joined[J].chars = body[place[J]].chars
      BY <1>7, <3>1
    <3>4. Start(body, place[J]) + body[place[J]].chars <= Length(body)
      BY <3>3, LengthIs DEF L
    <3>5. Start(joined, J) \in Nat /\ Start(body, place[J]) \in Nat /\ body[place[J]].chars \in Nat
      BY <1>8, <1>9, <3>1, <3>3
    <3> QED BY <1>12, <3>1, <3>2, <3>3, <3>4, <3>5
  <2> QED BY <2>1, <2>2
<1> QED BY <1>3, <1>12, <1>13, EstimateNat

\* What a pack is: a body within the budget, texts that are left out for having been packed
\* lately, and nothing at all only if nothing changed.
PackHolds(p, budget, recent, changed, superseded) ==
  /\ p.body \in Bodies /\ p.packed \in Nat /\ p.novel \in 0..p.packed
  /\ p.hashes # {} => p.packed > 0
  /\ estimate_tokens(Length(p.body)) <= AtLeast(1, budget)
  /\ p.blocked \subseteq recent \cap Texts
  /\ p.hashes = TextsOf(p.body)
  /\ p.skip \in BOOLEAN /\ (p.skip => ~changed /\ ~superseded)

LEMMA PackIs ==
  ASSUME NEW hot \in Seq(Items), NEW typed \in Seq(Texts), NEW chunks \in Seq(Texts),
         NEW budget \in Nat, NEW recent, NEW changed, NEW superseded, NEW allowSkip
  PROVE  PackHolds(pack_forward(hot, typed, chunks, budget, recent, changed, superseded, allowSkip),
                   budget, recent, changed, superseded)
<1> DEFINE p == pack_forward(hot, typed, chunks, budget, recent, changed, superseded, allowSkip)
           cap == AtLeast(1, budget)
           suppress == IF superseded THEN {} ELSE recent
           s == Gather(hot, typed, chunks, suppress, cap)
           body == Truncate(s.body, cap)
           packed == estimate_tokens(Length(body))
           skip == allowSkip /\ ~changed /\ ~superseded /\ packed < SkipFloor
           nothing == [skip |-> TRUE, body |-> <<>>, packed |-> 0, blocked |-> {}, hashes |-> {}, novel |-> 0]
           pack == [skip |-> FALSE, body |-> body, packed |-> packed, blocked |-> s.blocked,
                    hashes |-> TextsOf(body),
                    novel |-> IF suppress # {} /\ body # <<>> THEN Novel(body, recent) ELSE packed]
<1>1. cap \in Nat \ {0}
  BY DEF AtLeast
<1>2. p = IF skip THEN nothing ELSE pack
  BY DEF pack_forward
<1> HIDE DEF p
<1>3. s \in Gathering(suppress)
  <2> HIDE DEF cap, suppress
  <2> QED BY <1>1, GatherGathers
<1>4. s.body \in Bodies /\ s.blocked \subseteq recent \cap Texts
  <2> HIDE DEF s
  <2> QED BY <1>3 DEF Gathering
<1> HIDE DEF s
<1>5. body \in Bodies /\ estimate_tokens(Length(body)) <= cap
  <2> HIDE DEF cap
  <2> QED BY <1>1, <1>4, TruncateFits
<1> HIDE DEF body
<1>6. body \in Seq(BodyLines)
  BY <1>5 DEF Bodies
<1>7. /\ packed \in Nat /\ Novel(body, recent) \in 0..packed
      /\ TextsOf(body) # {} => packed > 0
  <2>1. packed \in Nat /\ Length(body) \in Nat
    BY <1>6, LengthNat, EstimateNat
  <2>2. Novel(body, recent) \in 0..packed
    BY <1>5, <2>1, NovelFits
  <2>3. TextsOf(body) # {} => body # <<>>
    BY DEF TextsOf
  <2> QED BY <1>5, <2>1, <2>2, <2>3, LengthIs, EstimateNat
<1>8. ASSUME skip PROVE PackHolds(p, budget, recent, changed, superseded)
  <2>1. p = nothing
    BY <1>2, <1>8
  <2>2. /\ p.body = <<>> /\ p.packed = 0 /\ p.novel = 0 /\ p.blocked = {} /\ p.hashes = {} /\ p.skip = TRUE
    BY <2>1
  <2>3. <<>> \in Bodies /\ TextsOf(<<>>) = {} /\ Length(<<>>) = 0
    BY DEF Bodies, TextsOf, Length
  <2>4. estimate_tokens(0) <= cap
    <3> HIDE DEF cap
    <3> QED BY <1>1, EstimateNat
  <2>5. p.skip \in BOOLEAN /\ ~changed /\ ~superseded
    BY <1>8, <2>2
  <2>6. /\ p.body \in Bodies /\ p.packed \in Nat /\ p.novel \in 0..p.packed /\ p.hashes = {}
        /\ estimate_tokens(Length(p.body)) <= cap /\ p.hashes = TextsOf(p.body)
        /\ p.blocked \subseteq recent \cap Texts
    BY <2>2, <2>3, <2>4
  <2> HIDE DEF skip, nothing, pack
  <2> QED BY <2>5, <2>6 DEF PackHolds
<1>9. ASSUME ~skip PROVE PackHolds(p, budget, recent, changed, superseded)
  <2>1. p = pack
    BY <1>2, <1>9
  <2>2. /\ p.body = body /\ p.packed = packed /\ p.blocked = s.blocked /\ p.hashes = TextsOf(body)
        /\ p.skip = FALSE /\ (p.novel = packed \/ p.novel = Novel(body, recent))
    BY <2>1
  <2> HIDE DEF cap, packed
  <2>3. p.novel \in 0..p.packed /\ p.packed \in Nat
    BY <1>7, <2>2
  <2>4. (p.hashes # {} => p.packed > 0) /\ p.skip \in BOOLEAN /\ ~p.skip
    BY <1>7, <2>2
  <2>5. /\ p.body \in Bodies /\ estimate_tokens(Length(p.body)) <= cap
        /\ p.blocked \subseteq recent \cap Texts /\ p.hashes = TextsOf(p.body)
    BY <1>4, <1>5, <2>2
  <2> HIDE DEF pack, skip, nothing
  <2> QED BY <2>3, <2>4, <2>5 DEF cap, PackHolds
<1> QED BY <1>8, <1>9 DEF p

-----------------------------------------------------------------------------
(* The invariant.                                                            *)

Rows == {row \in [hashes : SUBSET AnyText, sig : SUBSET Items, gone : Nat, packed : Nat, novel : Nat] :
           row.packed > 0 /\ row.novel <= row.packed}
Typed ==
  /\ t \in 0..MaxT /\ faults \in 0..MaxFaults /\ said \in SUBSET Items /\ IsFiniteSet(said)
        /\ active \in SUBSET said
  /\ gone \in Nat /\ lost \in BOOLEAN
  /\ history \in Seq(Rows) /\ given \in Seq(SUBSET AnyText) /\ Len(given) = Len(history)
  /\ Len(history) <= Keep
Uncut(texts) == {x \in texts : x.form # "cut"}
\* What a row remembers as shown was shown, except for the line the pack was cut in.
Shown == \A n \in DOMAIN history : Uncut(history[n].hashes) \subseteq given[n]
\* What became stale since the last row was counted, unless the graph was lost with its count.
Marked == history # <<>> /\ ~lost => LastRow.gone <= gone /\ (stale # {} => LastRow.gone < gone)
ForwardInv == Typed /\ Shown /\ Marked

\* The last rows: at most k, the newest among them.
LEMMA TailingIs ==
  ASSUME NEW T, NEW s \in Seq(T), s # <<>>, NEW k \in Nat \ {0}
  PROVE  /\ Tailing(s, k) \in Seq(T) /\ Tailing(s, k) # <<>>
         /\ Tailing(s, k)[Len(Tailing(s, k))] = s[Len(s)]
         /\ Len(Tailing(s, k)) = Len(s) - AtLeast(1, Len(s) - k + 1) + 1
         /\ Len(Tailing(s, k)) <= k
         /\ \A n \in DOMAIN Tailing(s, k) :
              /\ n + AtLeast(1, Len(s) - k + 1) - 1 \in DOMAIN s
              /\ Tailing(s, k)[n] = s[n + AtLeast(1, Len(s) - k + 1) - 1]
<1> DEFINE first == AtLeast(1, Len(s) - k + 1)
           new == SubSeq(s, first, Len(s))
<1>1. Len(s) \in Nat /\ Len(s) >= 1
  OBVIOUS
<1>2. first \in Nat /\ 1 <= first /\ first <= Len(s)
  BY <1>1 DEF AtLeast
<1> HIDE DEF first
<1>3. new \in Seq(T) /\ Len(new) = Len(s) - first + 1
  BY <1>1, <1>2
<1>4. \A n \in 1..(Len(s) - first + 1) : n + first - 1 \in 1..Len(s) /\ new[n] = s[n + first - 1]
  <2> SUFFICES ASSUME NEW n \in 1..(Len(s) - first + 1)
               PROVE  n + first - 1 \in 1..Len(s) /\ new[n] = s[n + first - 1]
    OBVIOUS
  <2>1. n + first - 1 \in 1..Len(s) /\ n + first - 1 = first + n - 1
    BY <1>1, <1>2
  <2>2. new[n] = s[first + n - 1]
    BY <1>1, <1>2
  <2> QED BY <2>1, <2>2
<1> HIDE DEF new
<1>5. DOMAIN new = 1..(Len(s) - first + 1) /\ DOMAIN s = 1..Len(s)
  BY <1>3
<1>6. Len(s) - first + 1 \in 1..(Len(s) - first + 1) /\ (Len(s) - first + 1) + first - 1 = Len(s)
  BY <1>1, <1>2
<1>7. new[Len(new)] = s[Len(s)] /\ new # <<>>
  BY <1>3, <1>4, <1>5, <1>6
<1>8. Tailing(s, k) = new
  BY DEF Tailing, new, first
<1>9. Len(new) <= k
  <2>1. first >= Len(s) - k + 1
    BY <1>1 DEF first, AtLeast
  <2> QED BY <1>1, <1>2, <1>3, <2>1
<1> QED BY <1>9, <1>3, <1>4, <1>5, <1>7, <1>8 DEF first

\* The rows looked back at.
LEMMA LatelyIs ==
  ASSUME Typed
  PROVE  Lately \in Seq(Rows)
<1>1. history \in Seq(Rows) /\ DedupK \in Nat \ {0}
  BY ForwardAssumption DEF Typed
<1>2. CASE history = <<>>
  <2>1. Lately = SubSeq(<<>>, AtLeast(1, 0 - DedupK + 1), 0)
    BY <1>2 DEF Lately, Tailing
  <2>2. AtLeast(1, 0 - DedupK + 1) = 1
    BY <1>1 DEF AtLeast
  <2> QED BY <2>1, <2>2
<1>3. CASE history # <<>>
  BY <1>1, <1>3, TailingIs DEF Lately
<1> QED BY <1>2, <1>3

LEMMA DivNat ==
  ASSUME NEW a \in Nat, NEW b \in Nat \ {0}
  PROVE  a \div b \in Nat
OBVIOUS

LEMMA ProductNat ==
  ASSUME NEW a \in Nat, NEW b \in Nat
  PROVE  a * b \in Nat
OBVIOUS

\* The adapted budget is a number.
LEMMA BudgetNat ==
  ASSUME Typed, NEW limit \in Limits
  PROVE  adaptive_budget(limit) \in Nat
<1> DEFINE packed == Total([n \in DOMAIN Lately |-> Lately[n].packed])
           novel == Total([n \in DOMAIN Lately |-> Lately[n].novel])
           byNovelty == (limit * AtMost(novel, packed)) \div packed
           byFloor == (limit * Floor) \div 100
           scaled == AtLeast(byFloor, IF packed = 0 THEN limit ELSE byNovelty)
<1>1. limit \in Nat /\ Floor \in Nat /\ SkipFloor \in Nat /\ Warm \in Nat /\ t \in Nat
  BY ForwardAssumption, PackAssumption DEF Typed
<1>2. packed \in Nat /\ novel \in Nat
  <2>1. Lately \in Seq(Rows)
    BY LatelyIs
  <2>2. \A n \in 1..Len(Lately) : Lately[n].packed \in Nat /\ Lately[n].novel \in Nat
    <3>1. \A n \in 1..Len(Lately) : Lately[n] \in Rows
      BY <2>1
    <3> QED BY <3>1 DEF Rows
  <2>3. /\ [n \in DOMAIN Lately |-> Lately[n].packed] \in Seq(Nat)
        /\ [n \in DOMAIN Lately |-> Lately[n].novel] \in Seq(Nat)
    BY <2>1, <2>2
  <2> QED BY <2>3, TotalAppend
<1> HIDE DEF packed, novel
<1>3. byFloor \in Nat
  BY <1>1, ProductNat, DivNat
<1>4. packed # 0 => byNovelty \in Nat
  <2>1. AtMost(novel, packed) \in Nat
    BY <1>2 DEF AtMost
  <2>2. limit * AtMost(novel, packed) \in Nat
    BY <1>1, <2>1, ProductNat
  <2> QED BY <1>2, <2>2, DivNat
<1> HIDE DEF byFloor, byNovelty
<1>5. scaled \in Nat
  BY <1>1, <1>3, <1>4 DEF AtLeast
<1>6. adaptive_budget(limit) = IF t <= Warm THEN limit ELSE AtLeast(SkipFloor, AtMost(limit, scaled))
  BY DEF adaptive_budget, packed, novel, byFloor, byNovelty
<1> HIDE DEF scaled
<1>7. AtLeast(SkipFloor, AtMost(limit, scaled)) \in Nat
  BY <1>1, <1>5 DEF AtLeast, AtMost
<1> QED BY <1>1, <1>6, <1>7

\* The first elements of a sequence.
LEMMA SeqParts ==
  ASSUME NEW T, NEW s \in Seq(T), NEW k \in Nat
  PROVE  SubSeq(s, 1, AtMost(k, Len(s))) \in Seq(T)
<1>1. AtMost(k, Len(s)) \in Nat /\ AtMost(k, Len(s)) <= Len(s)
  BY DEF AtMost
<1> QED BY <1>1

\* Items in order.
LEMMA AscendingItems ==
  ASSUME NEW S \in SUBSET Items, IsFiniteSet(S)
  PROVE  Ascending(S) \in Seq(Items)
<1>1. S \subseteq Nat
  BY HotAssumption
<1>2. Ascending(S) \in Seq(S)
  BY <1>1, AscendingSeq
<1> QED BY <1>2

\* The typed projection is made of items.
LEMMA ProjectionIs ==
  ASSUME NEW here \in SUBSET Items, IsFiniteSet(here), NEW query
  PROVE  typed_projection(here, query) \in Seq(Items)
<1>1. IsFiniteSet(here \cap query) /\ IsFiniteSet(here \ query)
  BY FS_Subset
<1>2. Ascending(here \cap query) \in Seq(Items) /\ Ascending(here \ query) \in Seq(Items)
  BY <1>1, AscendingItems
<1> DEFINE all == Ascending(here \cap query) \o Ascending(here \ query)
<1>3. all \in Seq(Items) /\ TopK \in Nat
  BY <1>2, HotAssumption
<1>4. typed_projection(here, query) = SubSeq(all, 1, AtMost(TopK, Len(all)))
  BY DEF typed_projection
<1> HIDE DEF all
<1> QED BY <1>3, <1>4, SeqParts

\* Chunks, spans and gist are texts.
LEMMA ChunksAre ==
  ASSUME Typed, NEW query
  PROVE  Chunks(query) \in Seq(Texts)
<1> DEFINE near == said \cap query
           all == Ascending(said)
           two == Ascending(said \cap query) \o Ascending(said \ query)
           ranked == rank_relevant_chunks(query)
           spans == expand_spans(query)
           rest == Those(spans, {n \in DOMAIN spans : \A m \in DOMAIN ranked : ranked[m] # spans[n]})
           both == ranked \o rest
<1>1. said \in SUBSET Items /\ IsFiniteSet(said) /\ FallbackK \in Nat /\ SpanK \in Nat
  BY ForwardAssumption DEF Typed
<1>2. /\ Ascending(said \cap query) \in Seq(Items) /\ Ascending(said \ query) \in Seq(Items)
      /\ Ascending(said) \in Seq(Items)
  <2>1. IsFiniteSet(said \cap query) /\ IsFiniteSet(said \ query)
    BY <1>1, FS_Subset
  <2> QED BY <1>1, <2>1, AscendingItems
<1>3. ranked \in Seq(Items)
  <2>1. SubSeq(Ascending(said), 1, AtMost(FallbackK, Len(Ascending(said)))) \in Seq(Items)
    BY <1>1, <1>2, SeqParts
  <2> QED BY <1>2, <2>1 DEF rank_relevant_chunks
<1>4. spans \in Seq(Items)
  <2>1. two \in Seq(Items)
    BY <1>2
  <2>2. spans = SubSeq(two, 1, AtMost(SpanK, Len(two)))
    BY DEF expand_spans
  <2> HIDE DEF two
  <2> QED BY <1>1, <2>1, <2>2, SeqParts
<1> HIDE DEF ranked, spans
<1>5. rest \in Seq(Items)
  <2> DEFINE at == {n \in DOMAIN spans : \A m \in DOMAIN ranked : ranked[m] # spans[n]}
  <2>1. at \in SUBSET (DOMAIN spans)
    OBVIOUS
  <2> HIDE DEF at
  <2>2. Those(spans, at) \in Seq(Items)
    BY <1>4, <2>1, ThoseOf
  <2> QED BY <2>2 DEF at
<1> HIDE DEF rest
<1>6. both \in Seq(Items)
  BY <1>3, <1>5
<1>7. Chunks(query) = IF query # {} THEN [n \in DOMAIN both |-> ChunkText(both[n])]
                      ELSE IF said = {} THEN <<>> ELSE <<Text("gist", Cardinality(said))>>
  BY DEF Chunks, ranked, spans, rest
<1> HIDE DEF both
<1>8. [n \in DOMAIN both |-> ChunkText(both[n])] \in Seq(Texts)
  <2>1. \A n \in 1..Len(both) : ChunkText(both[n]) \in Texts
    <3>1. \A n \in 1..Len(both) : both[n] \in Items
      BY <1>6
    <3> QED BY <3>1, ItemTexts
  <2> QED BY <1>6, <2>1
<1>9. <<Text("gist", Cardinality(said))>> \in Seq(Texts)
  <2>1. Cardinality(said) \in Nat
    BY <1>1, FS_CardinalityType
  <2>2. Text("gist", Cardinality(said)) \in Texts
    BY <2>1 DEF Text, Texts
  <2> QED BY <2>2
<1> QED BY <1>7, <1>8, <1>9

\* What one sample says of the state before it.
LEMMA SampleIs ==
  ASSUME Typed, NEW query \in Queries, NEW limit \in Limits,
         NEW s, s = sample_text(query, limit)
  PROVE  /\ s.body \in Bodies /\ s.packed \in Nat /\ s.novel \in 0..s.packed
         /\ s.hashes # {} => s.packed > 0
         /\ estimate_tokens(Length(s.body)) <= s.budget
         /\ HotChars(s.hot) <= HotMax
         /\ s.blocked \subseteq recent_line_hashes \cap Texts
         /\ s.hashes = TextsOf(s.body)
         /\ s.skip \in BOOLEAN /\ (s.skip => ~openitem_changed /\ ~node_superseded)
<1> DEFINE hot == hot_set(active, query)
           lines == typed_projection(active, query)
           typed == [n \in DOMAIN lines |-> TypedText(lines[n])]
           budget == adaptive_budget(limit)
           pack == pack_forward(hot, typed, Chunks(query), budget, recent_line_hashes,
                                openitem_changed, node_superseded, t > Warm)
<1>1. active \in SUBSET Items /\ IsFiniteSet(active)
  BY FS_Subset DEF Typed
<1>2. hot \in Seq(Items) /\ HotChars(hot) <= HotMax
  BY <1>1, HotSetFits
<1>3. typed \in Seq(Texts)
  <2>1. lines \in Seq(Items)
    BY <1>1, ProjectionIs
  <2> HIDE DEF lines
  <2>2. \A n \in 1..Len(lines) : TypedText(lines[n]) \in Texts
    <3>1. \A n \in 1..Len(lines) : lines[n] \in Items
      BY <2>1
    <3> QED BY <3>1, ItemTexts
  <2> QED BY <2>1, <2>2
<1>4. Chunks(query) \in Seq(Texts) /\ budget \in Nat
  BY ChunksAre, BudgetNat
<1>5. s = [skip |-> pack.skip, body |-> pack.body, packed |-> pack.packed, blocked |-> pack.blocked,
           hashes |-> pack.hashes, novel |-> pack.novel, budget |-> AtLeast(1, budget), hot |-> hot]
  BY DEF sample_text
<1> HIDE DEF hot, typed, budget
<1>6. /\ pack.body \in Bodies /\ pack.packed \in Nat /\ pack.novel \in 0..pack.packed
      /\ pack.hashes # {} => pack.packed > 0
      /\ estimate_tokens(Length(pack.body)) <= AtLeast(1, budget)
      /\ pack.blocked \subseteq recent_line_hashes \cap Texts
      /\ pack.hashes = TextsOf(pack.body)
      /\ pack.skip \in BOOLEAN /\ (pack.skip => ~openitem_changed /\ ~node_superseded)
  BY <1>2, <1>3, <1>4, PackIs DEF PackHolds
<1> HIDE DEF pack
<1>7. /\ s.skip = pack.skip /\ s.body = pack.body /\ s.packed = pack.packed /\ s.blocked = pack.blocked
      /\ s.hashes = pack.hashes /\ s.novel = pack.novel /\ s.budget = AtLeast(1, budget) /\ s.hot = hot
  BY <1>5
<1> QED BY <1>2, <1>6, <1>7

\* What is remembered of a body, but for the cut line, is what it shows whole.
LEMMA TextsOfBody ==
  ASSUME NEW body \in Bodies
  PROVE  TextsOf(body) \in SUBSET AnyText /\ Uncut(TextsOf(body)) = WholeLines(body)
<1>1. \A n \in DOMAIN body : body[n].text \in AnyText
  <2>1. body \in Seq(BodyLines)
    BY DEF Bodies
  <2>2. \A n \in DOMAIN body : body[n] \in BodyLines
    BY <2>1
  <2> QED BY <2>2 DEF BodyLines
<1> QED BY <1>1 DEF TextsOf, Uncut, WholeLines

\* A row of the history.
LEMMA RowIs ==
  ASSUME Typed, NEW s, s.body \in Bodies, s.packed \in Nat, s.packed > 0,
         s.novel \in 0..s.packed, s.hashes = TextsOf(s.body)
  PROVE  /\ NewRow(s) \in Rows /\ NewRow(s).hashes = s.hashes /\ NewRow(s).gone = gone
         /\ WholeLines(s.body) \cup Fences(s.body) \in SUBSET AnyText
<1>1. s.hashes \in SUBSET AnyText /\ WholeLines(s.body) \in SUBSET AnyText
  BY TextsOfBody DEF WholeLines
<1>2. OpenItems \in SUBSET Items /\ gone \in Nat
  BY DEF OpenItems, Typed
<1>3. Fences(s.body) \in SUBSET AnyText
  BY PackAssumption, ItemTexts, TextsAre DEF Fences
<1> QED BY <1>1, <1>2, <1>3 DEF NewRow, Rows

LEMMA FirstState == Init => ForwardInv
<1> SUFFICES ASSUME Init PROVE ForwardInv
  OBVIOUS
<1>1. Typed
  <2>1. IsFiniteSet({})
    BY FS_EmptySet
  <2>2. <<>> \in Seq(Rows) /\ <<>> \in Seq(SUBSET AnyText)
    OBVIOUS
  <2>3. Len(<<>>) = 0 /\ 0 <= Keep /\ 0 \in 0..MaxT /\ 0 \in 0..MaxFaults
    BY ForwardAssumption
  <2> QED BY <2>1, <2>2, <2>3 DEF Init, Typed
<1> QED BY <1>1 DEF Init, Shown, Marked, ForwardInv

\* A sample keeps the invariant: its row is the newest, and the rows before it move together with what they gave.
LEMMA SampleKeeps ==
  ASSUME ForwardInv, NEW query \in Queries, NEW limit \in Limits, Sample(query, limit)
  PROVE  ForwardInv'
<1> DEFINE s == sample_text(query, limit)
           row == NewRow(s)
           shown == WholeLines(s.body) \cup Fences(s.body)
           h == Append(history, row)
           g == Append(given, shown)
<1> USE DEF ForwardInv
<1>1. /\ s.body \in Bodies /\ s.packed \in Nat /\ s.novel \in 0..s.packed /\ s.hashes = TextsOf(s.body)
      /\ s.hashes # {} => s.packed > 0
      /\ s.skip \in BOOLEAN
  BY SampleIs
<1>2. last' = s /\ UNCHANGED <<t, said, active, gone, faults>>
  BY DEF Sample
<1>3. CASE s.skip \/ s.hashes = {}
  <2>1. UNCHANGED <<history, given, stale, lost>>
    BY <1>2, <1>3 DEF Sample
  <2> QED BY <1>2, <2>1 DEF Typed, Shown, Marked, LastRow
<1>4. CASE ~(s.skip \/ s.hashes = {})
  <2>1. history' = Tailing(h, Keep) /\ given' = Tailing(g, Keep) /\ stale' = {} /\ lost' = FALSE
    BY <1>2, <1>4 DEF Sample
  <2>2. row \in Rows /\ row.hashes = s.hashes /\ row.gone = gone /\ shown \in SUBSET AnyText
    BY <1>1, <1>4, RowIs
  <2>3. Uncut(row.hashes) \subseteq shown
    BY <1>1, <2>2, TextsOfBody
  <2> HIDE DEF s, row, shown
  <2>4. /\ history \in Seq(Rows) /\ given \in Seq(SUBSET AnyText) /\ Len(given) = Len(history)
        /\ Keep \in Nat \ {0}
    BY ForwardAssumption DEF Typed
  <2>5. /\ h \in Seq(Rows) /\ g \in Seq(SUBSET AnyText) /\ Len(g) = Len(h) /\ h # <<>> /\ g # <<>>
        /\ h[Len(h)] = row /\ DOMAIN g = DOMAIN h
    BY <2>2, <2>4
  <2>6. \A n \in DOMAIN h : Uncut(h[n].hashes) \subseteq g[n]
    <3> SUFFICES ASSUME NEW n \in DOMAIN h PROVE Uncut(h[n].hashes) \subseteq g[n]
      OBVIOUS
    <3>1. CASE n \in DOMAIN history
      <4>1. h[n] = history[n] /\ g[n] = given[n]
        BY <2>2, <2>4, <3>1
      <4> QED BY <3>1, <4>1 DEF Shown
    <3>2. CASE n \notin DOMAIN history
      <4>1. n = Len(history) + 1
        BY <2>2, <2>4, <3>2
      <4>2. h[n] = row /\ g[n] = shown
        BY <2>2, <2>4, <4>1
      <4> QED BY <2>3, <4>2
    <3> QED BY <3>1, <3>2
  <2> HIDE DEF h, g
  <2> DEFINE off == AtLeast(1, Len(h) - Keep + 1)
  <2>7. /\ history' \in Seq(Rows) /\ history' # <<>> /\ history'[Len(history')] = row
        /\ Len(history') = Len(h) - off + 1 /\ Len(history') <= Keep
        /\ \A n \in DOMAIN history' : n + off - 1 \in DOMAIN h /\ history'[n] = h[n + off - 1]
    <3>1. Tailing(h, Keep)[Len(Tailing(h, Keep))] = row
      BY <2>4, <2>5, TailingIs
    <3> QED BY <2>1, <2>4, <2>5, <3>1, TailingIs
  <2>8. /\ given' \in Seq(SUBSET AnyText) /\ Len(given') = Len(h) - off + 1
        /\ \A n \in DOMAIN given' : given'[n] = g[n + off - 1]
    <3>1. /\ Tailing(g, Keep) \in Seq(SUBSET AnyText)
               /\ Len(Tailing(g, Keep)) = Len(g) - AtLeast(1, Len(g) - Keep + 1) + 1
          /\ \A n \in DOMAIN Tailing(g, Keep) : Tailing(g, Keep)[n] = g[n + AtLeast(1, Len(g) - Keep + 1) - 1]
      BY ONLY <2>4, <2>5, TailingIs
    <3>2. off = AtLeast(1, Len(g) - Keep + 1)
      BY <2>5
    <3>3. given' = Tailing(g, Keep) /\ Len(g) = Len(h)
      BY <2>1, <2>5
    <3> HIDE DEF off
    <3> QED BY ONLY <3>1, <3>2, <3>3
  <2>9. Len(given') = Len(history') /\ DOMAIN given' = DOMAIN history'
    BY <2>7, <2>8
  <2>10. Typed'
    BY <1>2, <2>1, <2>7, <2>8, <2>9 DEF Typed
  <2>11. Shown'
    BY <2>6, <2>7, <2>8, <2>9 DEF Shown
  <2>12. Marked'
    <3>1. LastRow'.gone = gone /\ gone' = gone /\ gone \in Nat
      BY <1>2, <2>2, <2>7 DEF LastRow, Typed
    <3> QED BY <2>1, <3>1 DEF Marked
  <2> QED BY <2>10, <2>11, <2>12
<1> QED BY <1>3, <1>4

\* A turn keeps it: what it supersedes is counted.
LEMMA TurnKeeps ==
  ASSUME ForwardInv, Turn
  PROVE  ForwardInv'
<1> USE DEF ForwardInv
<1>1. UNCHANGED <<history, given, lost, faults>> /\ t' \in 0..MaxT
  BY ForwardAssumption DEF Turn, Typed
<1>2. LastRow' = LastRow
  BY <1>1 DEF LastRow
<1>3. Shown'
  BY <1>1 DEF Shown
<1>4. history # <<>> => LastRow.gone \in Nat
  <2>1. history # <<>> => LastRow \in Rows
    BY DEF LastRow, Typed
  <2> QED BY <2>1 DEF Rows
<1>5. CASE UNCHANGED <<said, active, gone, stale>>
  BY <1>1, <1>2, <1>3, <1>5 DEF Typed, Marked
<1>6. ASSUME NEW i \in Items \ said, said' = said \cup {i}, active' = active \cup {i},
             UNCHANGED <<gone, stale>>
      PROVE  ForwardInv'
  <2>1. IsFiniteSet(said')
    BY <1>6, FS_AddElement DEF Typed
  <2>2. Typed'
    BY <1>1, <1>6, <2>1 DEF Typed
  <2>3. Marked'
    BY <1>1, <1>2, <1>6 DEF Marked
  <2> QED BY <1>3, <2>2, <2>3
<1>7. ASSUME NEW i \in OpenItems, active' = active \ {i}, gone' = gone + 1,
             stale' = stale \cup {i}, UNCHANGED said
      PROVE  ForwardInv'
  <2>1. Typed'
    BY <1>1, <1>7 DEF Typed
  <2>2. Marked'
    <3>1. gone \in Nat
      BY DEF Typed
    <3> QED BY <1>1, <1>2, <1>4, <1>7, <3>1 DEF Marked
  <2> QED BY <1>3, <2>1, <2>2
<1> QED BY <1>5, <1>6, <1>7 DEF Turn

\* A history that reads as none.
LEMMA TearKeeps ==
  ASSUME ForwardInv, TearHistory
  PROVE  ForwardInv'
BY ForwardAssumption DEF ForwardInv, Typed, Shown, Marked, TearHistory

\* A graph that is lost.
LEMMA LoseKeeps ==
  ASSUME ForwardInv, LoseGraph
  PROVE  ForwardInv'
BY ForwardAssumption DEF ForwardInv, Typed, Shown, Marked, LoseGraph

LEMMA NextKeeps ==
  ASSUME ForwardInv, [Next]_vars
  PROVE  ForwardInv'
<1>1. CASE Next
  BY <1>1, TurnKeeps, TearKeeps, LoseKeeps, SampleKeeps DEF Next
<1>2. CASE UNCHANGED vars
  BY <1>2 DEF vars, ForwardInv, Typed, Shown, Marked, LastRow
<1> QED BY <1>1, <1>2

\* The invariant holds whatever is sampled, superseded, torn or lost.
THEOREM ForwardInvHolds == Spec => []ForwardInv
<1>1. ForwardInv /\ [Next]_vars => ForwardInv'
  BY NextKeeps
<1> QED BY <1>1, FirstState, PTL DEF Spec

\* The history has no more rows than it keeps, and no row tells of more news than
\* was packed (store.py inject history, pack.py novel_tokens).
THEOREM ForwardIsTyped == Spec => []ForwardTypes
<1>1. ForwardInv => ForwardTypes
  <2> SUFFICES ASSUME Typed PROVE ForwardTypes
    BY DEF ForwardInv
  <2>1. \A n \in DOMAIN history : history[n] \in Rows
    BY DEF Typed
  <2>2. \A n \in DOMAIN history :
          /\ history[n].packed > 0 /\ history[n].novel \in 0..history[n].packed
          /\ history[n].sig \subseteq Items /\ history[n].gone \in Nat
    BY <2>1 DEF Rows
  <2> QED BY <2>2 DEF Typed, ForwardTypes
<1> QED BY <1>1, ForwardInvHolds, PTL

\* Only a sample changes what was told last.
LEMMA OnlySampleTells ==
  ASSUME [Next]_vars
  PROVE  last' = last \/ \E query \in Queries, limit \in Limits : Sample(query, limit)
BY DEF Next, vars, Turn, TearHistory, LoseGraph

\* No pack is longer than its budget, whatever its parts are (pack_forward,
\* _truncate_to_budget).
THEOREM PacksFit == Spec => []PackFits
<1>1. Init => PackFits
  <2> SUFFICES ASSUME Init PROVE PackFits
    OBVIOUS
  <2>1. last.body = <<>> /\ last.budget = 0
    BY DEF Init, NoSample
  <2>2. Length(<<>>) = 0
    BY DEF Length
  <2>3. estimate_tokens(0) <= 0
    BY EstimateNat
  <2> QED BY <2>1, <2>2, <2>3 DEF PackFits
<1>2. ForwardInv /\ PackFits /\ [Next]_vars => PackFits'
  <2> SUFFICES ASSUME ForwardInv, PackFits, [Next]_vars PROVE PackFits'
    OBVIOUS
  <2>1. CASE last' = last
    BY <2>1 DEF PackFits
  <2>2. ASSUME NEW query \in Queries, NEW limit \in Limits, Sample(query, limit) PROVE PackFits'
    <3>1. last' = sample_text(query, limit)
      BY <2>2 DEF Sample
    <3>2. estimate_tokens(Length(last'.body)) <= last'.budget
      BY <3>1, SampleIs DEF ForwardInv
    <3> QED BY <3>2 DEF PackFits
  <2> QED BY <2>1, <2>2, OnlySampleTells
<1> QED BY <1>1, <1>2, ForwardInvHolds, PTL DEF Spec

\* The hot set keeps to its length, also when identifiers push facts out of it (hot_set).
THEOREM HotSetsFit == Spec => []HotFits
<1>1. Init => HotFits
  <2> SUFFICES ASSUME Init PROVE HotFits
    OBVIOUS
  <2>1. last.hot = <<>> /\ HotMax \in Nat
    BY HotAssumption DEF Init, NoSample
  <2>2. HotChars(<<>>) = 0
    BY NothingFills DEF Filling, Nothing
  <2> QED BY <2>1, <2>2 DEF HotFits
<1>2. ForwardInv /\ HotFits /\ [Next]_vars => HotFits'
  <2> SUFFICES ASSUME ForwardInv, HotFits, [Next]_vars PROVE HotFits'
    OBVIOUS
  <2>1. CASE last' = last
    BY <2>1 DEF HotFits
  <2>2. ASSUME NEW query \in Queries, NEW limit \in Limits, Sample(query, limit) PROVE HotFits'
    <3>1. last' = sample_text(query, limit)
      BY <2>2 DEF Sample
    <3>2. HotChars(last'.hot) <= HotMax
      BY <3>1, SampleIs DEF ForwardInv
    <3> QED BY <3>2 DEF HotFits
  <2> QED BY <2>1, <2>2, OnlySampleTells
<1> QED BY <1>1, <1>2, ForwardInvHolds, PTL DEF Spec

\* A line is left out as known only if one of the last packs held the whole of it
\* (cross-turn dedup against the rows of the history).
THEOREM LeftOutWasSeen == Spec => NothingSuppressedUnseen
<1> DEFINE Seen == last' # last => last'.blocked \subseteq
                     UNION {given[n] : n \in (Len(given) - DedupK + 1)..Len(given) \cap DOMAIN given}
<1>1. ForwardInv /\ [Next]_vars => [Seen]_vars
  <2> SUFFICES ASSUME ForwardInv, [Next]_vars, last' # last PROVE Seen
    OBVIOUS
  <2>1. PICK query \in Queries, limit \in Limits : Sample(query, limit)
    BY OnlySampleTells
  <2>2. last' = sample_text(query, limit)
    BY <2>1 DEF Sample
  <2>3. last'.blocked \subseteq recent_line_hashes \cap Texts
    BY <2>2, SampleIs DEF ForwardInv
  <2>4. ASSUME NEW x \in last'.blocked
        PROVE  \E n \in (Len(given) - DedupK + 1)..Len(given) \cap DOMAIN given : x \in given[n]
    <3>1. PICK n \in (Len(history) - DedupK + 1)..Len(history) \cap DOMAIN history : x \in history[n].hashes
      BY <2>3 DEF recent_line_hashes
    <3>2. x.form # "cut"
      BY <2>3, TextsAre
    <3>3. x \in given[n]
      BY <3>1, <3>2 DEF ForwardInv, Shown, Uncut
    <3>4. Len(given) = Len(history) /\ DOMAIN given = DOMAIN history
      BY DEF ForwardInv, Typed
    <3> QED BY <3>1, <3>3, <3>4
  <2> QED BY <2>4
<1> QED BY <1>1, ForwardInvHolds, PTL DEF Spec, NothingSuppressedUnseen

\* Nothing is told only if, since the last pack that was told, no open item came or was
\* done, unless the graph itself was lost in between (the skip of pack_forward).
THEOREM SkippedHadNoChange == Spec => SkipHidesNoChange
<1> DEFINE Same == (last' # last /\ last'.skip /\ ~lost) => (stale = {} /\ OpenItems = LastRow.sig)
<1>1. ForwardInv /\ [Next]_vars => [Same]_vars
  <2> SUFFICES ASSUME ForwardInv, [Next]_vars, last' # last, last'.skip, ~lost
               PROVE  stale = {} /\ OpenItems = LastRow.sig
    OBVIOUS
  <2>1. PICK query \in Queries, limit \in Limits : Sample(query, limit)
    BY OnlySampleTells
  <2>2. last' = sample_text(query, limit)
    BY <2>1 DEF Sample
  <2>3. ~openitem_changed /\ ~node_superseded
    BY <2>2, SampleIs DEF ForwardInv
  <2>4. history # <<>> /\ OpenItems = LastRow.sig
    BY <2>3 DEF openitem_changed
  <2>5. ~(gone > LastRow.gone)
    BY <2>3, <2>4 DEF node_superseded
  <2>6. gone \in Nat /\ LastRow.gone \in Nat
    <3>1. LastRow \in Rows
      BY <2>4 DEF LastRow, ForwardInv, Typed
    <3> QED BY <3>1 DEF Rows, ForwardInv, Typed
  <2>7. stale = {}
    BY <2>4, <2>5, <2>6 DEF ForwardInv, Marked
  <2> QED BY <2>4, <2>7
<1> QED BY <1>1, ForwardInvHolds, PTL DEF Spec, SkipHidesNoChange

-----------------------------------------------------------------------------
(* Memory.                                                                    *)

\* A recursive function on 0..n exists.
LEMMA LoopExists ==
  ASSUME NEW n \in Nat, NEW T, NEW base \in T, NEW step \in [1..n -> [T -> T]]
  PROVE  \E r \in [0..n -> T] : Runs(r, n, base, step)
<1>1. PICK g \in [SUBSET (1..n) -> T] : Steps(g, n, base, step)
  BY FoldExists
<1>2. Follows(g, n, T, base, step)
  <2>1. \A u \in SUBSET (1..n) : g[u] = IF u = {} THEN base ELSE step[Max(u)][g[u \ {Max(u)}]]
    BY <1>1 DEF Steps
  <2> QED BY <2>1 DEF Follows
<1>3. Led(g, n, T, base, step)
  BY ONLY <1>2, FoldRuns, n \in Nat, base \in T, step \in [1..n -> [T -> T]]
<1> QED BY <1>3 DEF Led

-----------------------------------------------------------------------------
(* The pooling of rows.                                                       *)

AnyRow == [of : SUBSET Nat, tags : SUBSET {"identifier", "link", "path", "decision"}]
Listed == Seq(AnyRow)

\* What is merged, or what is left.
LEMMA MergeIs ==
  ASSUME NEW rows \in Listed, NEW i \in 1..(Len(rows) - 1)
  PROVE  /\ Merge(rows, i) \in Listed /\ Len(Merge(rows, i)) = Len(rows) - 1
         /\ \A k \in 1..(Len(rows) - 1) : Merge(rows, i)[k] =
              IF k < i THEN rows[k]
              ELSE IF k = i THEN Row(rows[i].of \cup rows[i+1].of, {}) ELSE rows[k+1]
<1> DEFINE L == Len(rows)
           both == Row(rows[i].of \cup rows[i+1].of, {})
           a == SubSeq(rows, 1, i - 1)
           b == SubSeq(rows, i + 2, L)
           ab == a \o <<both>>
<1>1. L \in Nat /\ i \in Nat /\ 1 <= i /\ i + 1 <= L /\ i \in 1..L /\ i + 1 \in 1..L
  BY DEF Listed
<1>2. both \in AnyRow
  <2>1. rows[i] \in AnyRow /\ rows[i+1] \in AnyRow
    BY <1>1 DEF Listed
  <2> QED BY <2>1 DEF AnyRow, Row
<1>3. a \in Seq(AnyRow) /\ Len(a) = i - 1 /\ \A k \in 1..(i-1) : a[k] = rows[k]
  BY <1>1 DEF Listed
<1>4. b \in Seq(AnyRow) /\ Len(b) = L - i - 1 /\ \A k \in 1..(L - i - 1) : b[k] = rows[k+i+1]
  BY <1>1 DEF Listed
<1> HIDE DEF a, b, both
<1>5. /\ ab \in Seq(AnyRow) /\ Len(ab) = i /\ ab[i] = both
      /\ \A k \in 1..(i-1) : ab[k] = rows[k]
  BY <1>1, <1>2, <1>3
<1>6. Merge(rows, i) = ab \o b
  BY DEF Merge, a, b, both
<1> HIDE DEF ab, L
<1>7. ab \o b \in Seq(AnyRow) /\ Len(ab \o b) = L - 1
  <2>1. Len(ab) + Len(b) = L - 1
    BY <1>1, <1>4, <1>5
  <2> QED BY <1>4, <1>5, <2>1, ConcatProperties
<1>8. ASSUME NEW k \in 1..(L - 1)
      PROVE (ab \o b)[k] = IF k < i THEN rows[k] ELSE IF k = i THEN both ELSE rows[k+1]
  <2>4. \A m \in 1..(Len(ab) + Len(b)) : (ab \o b)[m] = IF m <= Len(ab) THEN ab[m] ELSE b[m - Len(ab)]
    <3>1. ab \in Seq(AnyRow) /\ b \in Seq(AnyRow)
      BY <1>4, <1>5
    <3> QED BY ONLY <3>1, ConcatProperties, Zenon
  <2>5. k \in 1..(Len(ab) + Len(b)) /\ Len(ab) = i
    BY <1>1, <1>4, <1>5
  <2>6. (ab \o b)[k] = IF k <= i THEN ab[k] ELSE b[k - i]
    BY <2>4, <2>5
  <2>1. CASE k <= i
    <3>3. k < i => k \in 1..(i-1)
      BY <1>1
    <3>4. ~(k < i) => k = i
      BY <1>1, <2>1
    <3> QED BY <1>5, <2>1, <2>6, <3>3, <3>4
  <2>2. CASE k > i
    <3>1. ~(k <= i) /\ k - i \in 1..(L - i - 1) /\ (k - i) + i + 1 = k + 1 /\ k # i /\ ~(k < i)
      BY <1>1, <2>2
    <3> QED BY <1>4, <2>6, <3>1
  <2>3. k <= i \/ k > i
    BY <1>1
  <2> QED BY <2>1, <2>2, <2>3
<1> QED BY <1>6, <1>7, <1>8 DEF Listed, L, both

\* The row that goes: one without tags if there is one, else one without an identifier.
LEMMA PickIs ==
  ASSUME NEW rows \in Listed, Len(rows) > 0
  PROVE  LET p == _pick_eviction_index(rows) IN
         /\ p \in 1..Len(rows)
         /\ rows[p].tags # {} => \A k \in 1..Len(rows) : rows[k].tags # {}
         /\ "identifier" \in rows[p].tags => \A k \in 1..Len(rows) : "identifier" \in rows[k].tags
<1> DEFINE bare == {i \in DOMAIN rows : rows[i].tags = {}}
           common == {i \in DOMAIN rows : "identifier" \notin rows[i].tags}
           oldest(S) == CHOOSE i \in S : \A j \in S : i <= j
           p == _pick_eviction_index(rows)
<1>1. Len(rows) \in Nat /\ DOMAIN rows = 1..Len(rows) /\ bare \in SUBSET (1..Len(rows))
        /\ common \in SUBSET (1..Len(rows))
  BY DEF Listed
<1>2. ASSUME NEW S \in SUBSET (1..Len(rows)), S # {} PROVE oldest(S) \in S
  <2>1. \E i \in S : \A j \in S : i <= j
    BY <1>1, <1>2, LeastExists
  <2> QED BY <2>1
<1>3. p = IF bare # {} THEN oldest(bare) ELSE IF common # {} THEN oldest(common) ELSE 1
  BY DEF _pick_eviction_index
<1> HIDE DEF oldest, p
<1>4. CASE bare # {}
  <2>1. p \in bare
    BY <1>1, <1>2, <1>3, <1>4
  <2> QED BY <1>1, <2>1 DEF p
<1>5. CASE bare = {} /\ common # {}
  <2>1. p \in common
    BY <1>1, <1>2, <1>3, <1>5
  <2> QED BY <1>1, <1>5, <2>1 DEF p
<1>6. CASE bare = {} /\ common = {}
  <2>1. p = 1
    BY <1>3, <1>6
  <2> QED BY <1>1, <1>6, <2>1 DEF p
<1> QED BY <1>4, <1>5, <1>6

\* Rows in order, with the tags of the last message's chunks.
InOrder(rows) == \A i, j \in 1..Len(rows) : i < j => \A c \in rows[i].of, d \in rows[j].of : c < d
Tagged(rows, tagsOf) == \A i \in 1..Len(rows) :
                          rows[i].tags # {} => \E d \in DOMAIN tagsOf : rows[i] = Row({d}, tagsOf[d])
\* No chunk is later than the last message's.
Within(rows, tagsOf) == \A i \in 1..Len(rows) : \A c \in rows[i].of : \E d \in DOMAIN tagsOf : c <= d
Alone(rows, c, tags) == \E i \in 1..Len(rows) : rows[i] = Row({c}, tags)
Shielded(rows, tagsOf) ==
  \A c \in DOMAIN tagsOf :
    ~Alone(rows, c, tagsOf[c]) =>
       /\ tagsOf[c] # {} => \A i \in 1..Len(rows) : rows[i].tags # {}
       /\ "identifier" \in tagsOf[c] => \A i \in 1..Len(rows) : "identifier" \in rows[i].tags
Pooling(tagsOf) ==
  {rows \in Listed : InOrder(rows) /\ Within(rows, tagsOf) /\ Tagged(rows, tagsOf) /\ Shielded(rows, tagsOf)}

\* Two neighbours without tags are merged.
LEMMA MergedPools ==
  ASSUME NEW tagsOf, NEW rows \in Pooling(tagsOf), NEW i \in Mergeable(rows)
  PROVE  Merge(rows, i) \in Pooling(tagsOf) /\ Len(Merge(rows, i)) = Len(rows) - 1
<1> DEFINE L == Len(rows)
           r == Merge(rows, i)
           both == Row(rows[i].of \cup rows[i+1].of, {})
<1>1. /\ rows \in Listed /\ L \in Nat /\ i \in Nat /\ i \in 1..(L - 1) /\ i \in 1..L /\ i + 1 \in 1..L
      /\ rows[i].tags = {} /\ rows[i+1].tags = {}
  BY DEF Pooling, Mergeable, Listed
<1>2. /\ r \in Listed /\ Len(r) = L - 1
      /\ \A k \in 1..(L - 1) : r[k] = IF k < i THEN rows[k] ELSE IF k = i THEN both ELSE rows[k+1]
  BY <1>1, MergeIs
<1>3. both.of = rows[i].of \cup rows[i+1].of /\ both.tags = {}
  BY DEF Row
<1> HIDE DEF r, both, L
<1>4. ASSUME NEW k \in 1..(L - 1), NEW c \in r[k].of
      PROVE  \E m \in 1..L : c \in rows[m].of /\ (k <= i => m <= k + 1) /\ (k < i => m = k)
                             /\ (k = i => m \in {i, i + 1}) /\ (k > i => m = k + 1)
  <2>1. CASE k < i
    <3>1. k \in 1..L /\ r[k] = rows[k] /\ k <= k + 1 /\ ~(k = i) /\ ~(k > i)
      BY <1>1, <1>2, <2>1
    <3> QED BY <1>4, <2>1, <3>1
  <2>2. CASE k = i
    <3>1. c \in rows[i].of \/ c \in rows[i+1].of
      BY <1>2, <1>3, <1>4, <2>2
    <3>2. i <= i + 1 /\ i + 1 <= i + 1 /\ ~(i < i) /\ ~(i > i)
      BY <1>1
    <3> QED BY <1>1, <2>2, <3>1, <3>2
  <2>3. CASE k > i
    <3>1. k + 1 \in 1..L /\ r[k] = rows[k+1] /\ ~(k = i) /\ ~(k < i) /\ ~(k <= i)
      BY <1>1, <1>2, <2>3
    <3> QED BY <1>4, <2>3, <3>1
  <2>4. k < i \/ k = i \/ k > i
    BY <1>1
  <2> QED BY <2>1, <2>2, <2>3, <2>4
<1>5. InOrder(r)
  <2> SUFFICES ASSUME NEW k \in 1..(L - 1), NEW j \in 1..(L - 1), k < j, NEW c \in r[k].of, NEW d \in r[j].of
               PROVE  c < d
    BY <1>2 DEF InOrder
  <2>1. PICK m \in 1..L : c \in rows[m].of /\ (k < i => m = k)
                             /\ (k = i => m \in {i, i + 1}) /\ (k > i => m = k + 1)
    BY <1>4
  <2>2. PICK n \in 1..L : d \in rows[n].of /\ (j < i => n = j)
                             /\ (j = i => n \in {i, i + 1}) /\ (j > i => n = j + 1)
    BY <1>4
  <2>3. m < n
    BY <1>1, <2>1, <2>2
  <2> QED BY <2>1, <2>2, <2>3 DEF Pooling, InOrder, L
<1>6. Tagged(r, tagsOf)
  <2> SUFFICES ASSUME NEW k \in 1..(L - 1), r[k].tags # {}
               PROVE  \E d \in DOMAIN tagsOf : r[k] = Row({d}, tagsOf[d])
    BY <1>2 DEF Tagged
  <2>1. \E m \in 1..L : r[k] = rows[m]
    <3>1. k # i /\ k \in 1..L /\ k + 1 \in 1..L
      BY <1>1, <1>2, <1>3
    <3> QED BY <1>2, <3>1
  <2> QED BY <2>1 DEF Pooling, Tagged, L
<1>7. ASSUME NEW m \in 1..L, rows[m].tags # {}
      PROVE  \E k \in 1..(L - 1) : r[k] = rows[m]
  <2>1. m # i /\ m # i + 1
    BY <1>1, <1>7
  <2>2. CASE m < i
    BY <1>1, <1>2, <2>2
  <2>3. CASE m > i + 1
    <3>1. m - 1 \in 1..(L - 1) /\ ~(m - 1 < i) /\ m - 1 # i /\ (m - 1) + 1 = m
      BY <1>1, <2>3
    <3> QED BY <1>2, <3>1
  <2> QED BY <1>1, <2>1, <2>2, <2>3
<1>8. Shielded(r, tagsOf)
  <2> SUFFICES ASSUME NEW c \in DOMAIN tagsOf, tagsOf[c] # {}
               PROVE  Alone(r, c, tagsOf[c])
    BY DEF Shielded
  <2>1. Alone(rows, c, tagsOf[c])
    BY <1>1 DEF Pooling, Shielded, L
  <2>2. PICK m \in 1..L : rows[m] = Row({c}, tagsOf[c])
    BY <2>1 DEF Alone, L
  <2>3. rows[m].tags # {}
    BY <2>2 DEF Row
  <2> QED BY <1>2, <1>7, <2>2, <2>3 DEF Alone
<1>9. Within(r, tagsOf)
  <2> SUFFICES ASSUME NEW k \in 1..(L - 1), NEW c \in r[k].of PROVE \E d \in DOMAIN tagsOf : c <= d
    BY <1>2 DEF Within
  <2>1. PICK m \in 1..L : c \in rows[m].of
    BY <1>4
  <2> QED BY <2>1 DEF Pooling, Within, L
<1> QED BY <1>2, <1>5, <1>6, <1>8, <1>9 DEF Pooling, r, L

\* No two neighbours are without tags, and one row goes.
LEMMA EvictedPools ==
  ASSUME NEW tagsOf, NEW rows \in Pooling(tagsOf), Len(rows) > 0
  PROVE  LET r == RemoveAt(rows, _pick_eviction_index(rows))
         IN r \in Pooling(tagsOf) /\ Len(r) = Len(rows) - 1
<1> DEFINE L == Len(rows)
           p == _pick_eviction_index(rows)
           r == RemoveAt(rows, p)
<1>1. rows \in Listed /\ L \in Nat /\ p \in 1..L /\ p \in Nat
  BY PickIs DEF Pooling, Listed
<1>2. /\ rows[p].tags # {} => \A k \in 1..L : rows[k].tags # {}
      /\ "identifier" \in rows[p].tags => \A k \in 1..L : "identifier" \in rows[k].tags
  BY <1>1, PickIs
<1> HIDE DEF p
<1>3. /\ r \in Listed /\ Len(r) = L - 1
      /\ \A k \in 1..(L - 1) : r[k] = IF k < p THEN rows[k] ELSE rows[k+1]
  BY <1>1, Removed DEF Listed
<1> HIDE DEF r, L
<1>4. \A k \in 1..(L - 1) : \E m \in 1..L : r[k] = rows[m] /\ m = IF k < p THEN k ELSE k + 1
  <2>1. \A k \in 1..(L - 1) : k \in 1..L /\ k + 1 \in 1..L
    BY <1>1
  <2> QED BY <1>3, <2>1
<1>5. InOrder(r)
  <2> SUFFICES ASSUME NEW k \in 1..(L - 1), NEW j \in 1..(L - 1), k < j, NEW c \in r[k].of, NEW d \in r[j].of
               PROVE  c < d
    BY <1>3 DEF InOrder
  <2>1. PICK m \in 1..L : r[k] = rows[m] /\ m = IF k < p THEN k ELSE k + 1
    BY <1>4
  <2>2. PICK n \in 1..L : r[j] = rows[n] /\ n = IF j < p THEN j ELSE j + 1
    BY <1>4
  <2>3. m < n
    BY <1>1, <2>1, <2>2
  <2> QED BY <2>1, <2>2, <2>3 DEF Pooling, InOrder, L
<1>6. Tagged(r, tagsOf)
  <2> SUFFICES ASSUME NEW k \in 1..(L - 1), r[k].tags # {}
               PROVE  \E d \in DOMAIN tagsOf : r[k] = Row({d}, tagsOf[d])
    BY <1>3 DEF Tagged
  <2>1. \E m \in 1..L : r[k] = rows[m]
    BY <1>4
  <2> QED BY <2>1 DEF Pooling, Tagged, L
<1>7. ASSUME NEW m \in 1..L, m # p PROVE \E k \in 1..(L - 1) : r[k] = rows[m]
  <2>1. CASE m < p
    BY <1>1, <1>3, <2>1
  <2>2. CASE m > p
    <3>1. m - 1 \in 1..(L - 1) /\ ~(m - 1 < p) /\ (m - 1) + 1 = m
      BY <1>1, <2>2
    <3> QED BY <1>3, <3>1
  <2> QED BY <1>1, <1>7, <2>1, <2>2
<1>8. Shielded(r, tagsOf)
  <2> SUFFICES ASSUME NEW c \in DOMAIN tagsOf, ~Alone(r, c, tagsOf[c])
               PROVE  /\ tagsOf[c] # {} => \A k \in 1..Len(r) : r[k].tags # {}
                      /\ "identifier" \in tagsOf[c] => \A k \in 1..Len(r) : "identifier" \in r[k].tags
    BY DEF Shielded
  <2>1. CASE ~Alone(rows, c, tagsOf[c])
    BY <1>3, <1>4, <2>1 DEF Pooling, Shielded, L
  <2>2. CASE Alone(rows, c, tagsOf[c])
    <3>1. PICK m \in 1..L : rows[m] = Row({c}, tagsOf[c])
      BY <2>2 DEF Alone, L
    <3>2. m = p
      BY <1>3, <1>7, <3>1 DEF Alone
    <3>3. rows[p].tags = tagsOf[c]
      BY <3>1, <3>2 DEF Row
    <3> QED BY <1>2, <1>3, <1>4, <3>3
  <2> QED BY <2>1, <2>2
<1>9. Within(r, tagsOf)
  <2> SUFFICES ASSUME NEW k \in 1..(L - 1), NEW c \in r[k].of PROVE \E d \in DOMAIN tagsOf : c <= d
    BY <1>3 DEF Within
  <2>1. PICK m \in 1..L : r[k] = rows[m]
    BY <1>4
  <2> QED BY <2>1 DEF Pooling, Within, L
<1> QED BY <1>3, <1>5, <1>6, <1>8, <1>9 DEF Pooling, r, L, p

\* One row less.
LEMMA OncePools ==
  ASSUME NEW tagsOf, NEW rows \in Pooling(tagsOf)
  PROVE  /\ PoolOnce(rows) \in SUBSET Pooling(tagsOf)
         /\ Len(rows) > 0 => \A r \in PoolOnce(rows) : Len(r) = Len(rows) - 1
<1>1. CASE Mergeable(rows) # {}
  <2>1. PoolOnce(rows) = {Merge(rows, i) : i \in Mergeable(rows)}
    BY <1>1 DEF PoolOnce
  <2> QED BY <2>1, MergedPools
<1>2. CASE Mergeable(rows) = {} /\ Len(rows) > 0
  <2>1. PoolOnce(rows) = {RemoveAt(rows, _pick_eviction_index(rows))}
    BY <1>2 DEF PoolOnce
  <2> QED BY <1>2, <2>1, EvictedPools
<1>3. CASE Mergeable(rows) = {} /\ ~(Len(rows) > 0)
  <2>1. PoolOnce(rows) = {RemoveAt(rows, _pick_eviction_index(rows))}
    BY <1>3 DEF PoolOnce
  <2>2. rows = <<>> /\ DOMAIN rows = {}
    BY <1>3 DEF Pooling, Listed
  <2>3. _pick_eviction_index(rows) = 1
    BY <2>2 DEF _pick_eviction_index
  <2>4. RemoveAt(<<>>, 1) = <<>>
    <3>1. SubSeq(<<>>, 1, 0) = <<>> /\ SubSeq(<<>>, 2, 0) = <<>>
      OBVIOUS
    <3> QED BY <3>1 DEF RemoveAt
  <2> QED BY <1>3, <2>1, <2>2, <2>3, <2>4
<1> QED BY <1>1, <1>2, <1>3

\* So many rows less.
LEMMA PooledPools ==
  ASSUME NEW tagsOf, NEW rows \in Pooling(tagsOf), NEW over \in 0..Len(rows)
  PROVE  \A r \in Pooled(rows, over) : r \in Pooling(tagsOf) /\ Len(r) = Len(rows) - over
<1> DEFINE T == SUBSET Pooling(tagsOf)
           base == {rows}
           L == Len(rows)
           step == [k \in 1..over |-> [X \in T |-> UNION {PoolOnce(r) : r \in X}]]
           F(h) == [k \in 0..over |-> IF k = 0 THEN base ELSE UNION {PoolOnce(r) : r \in h[k - 1]}]
           it == CHOOSE h : h = F(h)
<1>1. L \in Nat /\ over \in Nat /\ over <= L /\ base \in T
  BY DEF Pooling, Listed
<1>2. step \in [1..over -> [T -> T]]
  <2>1. \A X \in T : UNION {PoolOnce(r) : r \in X} \in T
    BY OncePools
  <2> HIDE DEF T
  <2> QED BY <2>1
<1>3. PICK g \in [0..over -> T] : Runs(g, over, base, step)
  <2> HIDE DEF T, base, step
  <2> QED BY <1>1, <1>2, LoopExists
<1>4. g = F(g)
  <2>1. \A k \in 1..over : k - 1 \in 0..over /\ g[k-1] \in T
    BY <1>1, <1>3
  <2> HIDE DEF T
  <2>2. \A k \in 1..over : g[k] = UNION {PoolOnce(r) : r \in g[k - 1]}
    BY <1>3, <2>1 DEF Runs
  <2>3. \A k \in 0..over : g[k] = IF k = 0 THEN base ELSE UNION {PoolOnce(r) : r \in g[k - 1]}
    <3>1. \A k \in 0..over : k = 0 \/ k \in 1..over
      BY <1>1
    <3>2. g[0] = base
      BY <1>3 DEF Runs
    <3>3. \A k \in 1..over : k # 0
      OBVIOUS
    <3> HIDE DEF base
    <3> QED BY <2>2, <3>1, <3>2, <3>3
  <2> HIDE DEF base, step
  <2> QED BY <1>3, <2>3
<1>5. it = F(it)
  BY <1>4
<1>6. Pooled(rows, over) = it[over]
  BY DEF Pooled
<1> HIDE DEF it
<1>7. it[0] = base /\ \A k \in 1..over : it[k] = UNION {PoolOnce(r) : r \in it[k - 1]}
  <2>1. 0 \in 0..over /\ \A k \in 1..over : k \in 0..over /\ k # 0
    BY <1>1
  <2> HIDE DEF base
  <2> QED BY <1>5, <2>1
<1> DEFINE S == {k \in 0..over : \A r \in it[k] : r \in Pooling(tagsOf) /\ Len(r) = L - k}
<1>8. S \in SUBSET (0..over) /\ 0 \in S
  BY <1>1, <1>7
<1>9. ASSUME NEW k \in 1..over, k - 1 \in S PROVE k \in S
  <2> SUFFICES ASSUME NEW r \in it[k] PROVE r \in Pooling(tagsOf) /\ Len(r) = L - k
    OBVIOUS
  <2>1. PICK q \in it[k - 1] : r \in PoolOnce(q)
    BY <1>7
  <2>2. q \in Pooling(tagsOf) /\ Len(q) = L - (k - 1)
    BY <1>9
  <2>3. Len(q) > 0 /\ L - (k - 1) - 1 = L - k
    BY <1>1, <2>2
  <2> HIDE DEF L
  <2> QED BY <2>1, <2>2, <2>3, OncePools
<1>10. \A k \in 0..over : k \in S
  <2> HIDE DEF S
  <2> QED BY <1>1, <1>8, <1>9, Induct
<1>11. over \in 0..over
  BY <1>1
<1> QED BY <1>6, <1>10, <1>11

-----------------------------------------------------------------------------
(* Sets in order, once more.                                                  *)

\* Each member of a finite set of numbers has its place.
LEMMA AscendingAll ==
  ASSUME NEW S, IsFiniteSet(S), S \subseteq Nat
  PROVE  /\ \A i \in S : \E n \in 1..Cardinality(S) : Ascending(S)[n] = i
         /\ Ascending(S) \in [1..Cardinality(S) -> S] /\ Cardinality(S) \in Nat
<1> DEFINE c == Cardinality(S)
           a == Ascending(S)
<1>1. c \in Nat
  BY FS_CardinalityType
<1>2. a \in Seq(S) /\ Len(a) = c /\ \A n, m \in 1..c : n < m => a[n] < a[m]
  BY AscendingSeq
<1> HIDE DEF a, c
<1>3. a \in [1..c -> S]
  BY <1>1, <1>2
<1>4. \A n, m \in 1..c : n # m => a[n] # a[m]
  <2> SUFFICES ASSUME NEW n \in 1..c, NEW m \in 1..c, n # m PROVE a[n] # a[m]
    OBVIOUS
  <2>1. n < m \/ m < n
    BY <1>1
  <2>2. a[n] \in Nat /\ a[m] \in Nat
    BY <1>3
  <2> QED BY <1>2, <2>1, <2>2
<1>5. a \in Injection(1..c, S)
  BY <1>3, <1>4 DEF Injection, IsInjective
<1>6. IsFiniteSet(1..c) /\ Cardinality(1..c) = c
  <2>1. 1 \in Int /\ c \in Int
    BY <1>1
  <2> QED BY <1>1, <2>1, FS_Interval
<1>7. a \in Surjection(1..c, S)
  BY <1>5, <1>6, FS_Injection DEF c
<1> QED BY <1>1, <1>3, <1>7 DEF Surjection, a, c

\* Rising sequences of the same numbers are the same.
LEMMA AscendingIs ==
  ASSUME NEW S, IsFiniteSet(S), S \subseteq Nat, NEW s \in Seq(S),
         \A i \in S : \E n \in 1..Len(s) : s[n] = i,
         \A n, m \in 1..Len(s) : n < m => s[n] < s[m]
  PROVE  s = Ascending(S)
<1> DEFINE a == Ascending(S)
           c == Cardinality(S)
           L == Len(s)
<1>1. /\ c \in Nat /\ a \in [1..c -> S] /\ a \in Seq(S) /\ Len(a) = c
      /\ \A i \in S : \E n \in 1..c : a[n] = i
      /\ \A n, m \in 1..c : n < m => a[n] < a[m]
  BY AscendingAll, AscendingSeq
<1>2. L \in Nat /\ s \in [1..L -> S]
  OBVIOUS
<1>3. L = c
  <2>1. s \in Injection(1..L, S)
    <3>1. \A n, m \in 1..L : n # m => s[n] # s[m]
      <4> SUFFICES ASSUME NEW n \in 1..L, NEW m \in 1..L, n # m PROVE s[n] # s[m]
        OBVIOUS
      <4>1. n < m \/ m < n
        BY <1>2
      <4>2. s[n] \in Nat /\ s[m] \in Nat
        BY <1>2
      <4> QED BY <4>1, <4>2
    <3> HIDE DEF L
    <3> QED BY <1>2, <3>1 DEF Injection, IsInjective
  <2>2. s \in Surjection(1..L, S)
    BY <1>2 DEF Surjection
  <2>3. s \in Bijection(1..L, S)
    BY <2>1, <2>2 DEF Bijection
  <2>4. IsFiniteSet(1..L) /\ Cardinality(1..L) = L
    <3>1. 1 \in Int /\ L \in Int
      BY <1>2
    <3> QED BY <1>2, <3>1, FS_Interval
  <2>5. Cardinality(1..L) = Cardinality(S)
    BY <2>3, <2>4, FS_Bijection DEF ExistsBijection
  <2> QED BY <2>4, <2>5
<1> HIDE DEF a, c, L
<1> DEFINE T == {k \in 0..c : \A n \in 1..k : s[n] = a[n]}
<1>4. T \in SUBSET (0..c) /\ 0 \in T
  BY <1>1
<1>5. ASSUME NEW k \in 1..c, k - 1 \in T PROVE k \in T
  <2>1. k \in Nat /\ \A n \in 1..(k-1) : s[n] = a[n]
    BY <1>5
  <2>2. PICK n \in 1..c : a[n] = s[k]
    BY <1>1, <1>2, <1>3
  <2>3. PICK m \in 1..c : s[m] = a[k]
    BY <1>1, <1>2, <1>3 DEF L
  <2>4. \A i \in 1..c : s[i] \in Nat /\ a[i] \in Nat
    BY <1>1, <1>2, <1>3
  <2>5. ~(n < k)
    <3> SUFFICES ASSUME n < k PROVE FALSE
      OBVIOUS
    <3>1. n \in 1..(k-1) /\ s[n] < s[k]
      BY <1>1, <1>3 DEF L
    <3> QED BY <2>1, <2>2, <2>4, <3>1
  <2>6. ~(m < k)
    <3> SUFFICES ASSUME m < k PROVE FALSE
      OBVIOUS
    <3>1. m \in 1..(k-1) /\ a[m] < a[k]
      BY <1>1
    <3> QED BY <2>1, <2>3, <2>4, <3>1
  <2>7. a[k] <= s[k]
    <3>1. n = k \/ k < n
      BY <1>1, <2>5
    <3>2. k < n => a[k] < a[n]
      BY <1>1
    <3> QED BY <2>2, <2>4, <3>1, <3>2
  <2>8. s[k] <= a[k]
    <3>1. m = k \/ k < m
      BY <1>1, <2>6
    <3>2. k < m => s[k] < s[m]
      BY <1>3 DEF L
    <3> QED BY <2>3, <2>4, <3>1, <3>2
  <2>9. s[k] = a[k]
    BY <2>4, <2>7, <2>8
  <2>10. \A i \in 1..k : i \in 1..(k-1) \/ i = k
    BY <2>1
  <2> QED BY <2>1, <2>9, <2>10
<1>6. \A k \in 0..c : k \in T
  <2> HIDE DEF T
  <2> QED BY <1>1, <1>4, <1>5, Induct
<1>7. \A n \in 1..c : s[n] = a[n]
  BY <1>1, <1>6
<1> QED BY <1>1, <1>2, <1>3, <1>7 DEF a

\* Nothing in order.
LEMMA AscendingEmpty == Ascending({}) = <<>>
<1>1. IsFiniteSet({}) /\ {} \subseteq Nat /\ Cardinality({}) = 0
  BY FS_EmptySet
<1>2. Ascending({}) \in Seq({}) /\ Len(Ascending({})) = 0
  BY <1>1, AscendingSeq
<1> QED BY <1>2

\* A greater number is the last.
LEMMA AscendingGrows ==
  ASSUME NEW S, IsFiniteSet(S), S \subseteq Nat, NEW x \in Nat, \A i \in S : i < x
  PROVE  Ascending(S \cup {x}) = Append(Ascending(S), x)
<1> DEFINE s == Append(Ascending(S), x)
           a == Ascending(S)
           c == Cardinality(S)
           U == S \cup {x}
<1>1. /\ c \in Nat /\ a \in Seq(S) /\ Len(a) = c /\ a \in [1..c -> S]
      /\ \A i \in S : \E n \in 1..c : a[n] = i
      /\ \A n, m \in 1..c : n < m => a[n] < a[m]
  BY AscendingAll, AscendingSeq
<1> HIDE DEF a, c
<1>2. a \in Seq(U)
  BY <1>1
<1>3. s \in Seq(U) /\ Len(s) = c + 1 /\ s[c+1] = x /\ \A n \in 1..c : s[n] = a[n]
  BY <1>1, <1>2 DEF a
<1> HIDE DEF s
<1>4. IsFiniteSet(U) /\ U \subseteq Nat
  BY FS_AddElement
<1>5. \A i \in U : \E n \in 1..Len(s) : s[n] = i
  <2>1. c + 1 \in 1..(c+1) /\ \A n \in 1..c : n \in 1..(c+1)
    BY <1>1
  <2> QED BY <1>1, <1>3, <2>1
<1>6. \A n, m \in 1..Len(s) : n < m => s[n] < s[m]
  <2> SUFFICES ASSUME NEW n \in 1..(c+1), NEW m \in 1..(c+1), n < m PROVE s[n] < s[m]
    BY <1>3
  <2>1. n \in 1..c /\ (m \in 1..c \/ m = c + 1)
    BY <1>1
  <2>2. s[n] = a[n] /\ a[n] \in S
    BY <1>1, <1>3, <2>1
  <2> QED BY <1>1, <1>3, <2>1, <2>2
<1>7. s = Ascending(U)
  <2> HIDE DEF U
  <2> QED BY <1>3, <1>4, <1>5, <1>6, AscendingIs
<1> QED BY <1>7 DEF s

-----------------------------------------------------------------------------
(* What is read out of a message.                                             *)

\* The lines of a message.
LEMMA LinesAre ==
  ASSUME NEW m \in Seq(Lines)
  PROVE  /\ Len(m) \in Nat /\ DOMAIN m = 1..Len(m) /\ IsFiniteSet(DOMAIN m) /\ DOMAIN m \subseteq Nat
         /\ \A n \in 1..Len(m) : /\ m[n].is \in LineKinds /\ m[n].level \in 0..6 /\ m[n].fenced \in BOOLEAN
                                 /\ IsHeading(m[n]) => m[n].level \in 1..6
<1>1. Len(m) \in Nat /\ DOMAIN m = 1..Len(m) /\ \A n \in 1..Len(m) : m[n] \in Lines
  OBVIOUS
<1>2. IsFiniteSet(1..Len(m))
  BY <1>1, FS_Interval
<1>3. ASSUME NEW n \in 1..Len(m)
      PROVE  /\ m[n].is \in LineKinds /\ m[n].level \in 0..6 /\ m[n].fenced \in BOOLEAN
             /\ IsHeading(m[n]) => m[n].level \in 1..6
  <2>1. m[n] \in Lines
    BY <1>1
  <2>2. m[n].is \in LineKinds /\ m[n].level \in 0..6 /\ m[n].fenced \in BOOLEAN
    BY <2>1, ReadingAssumption
  <2>3. IsHeading(m[n]) => m[n].level > 0
    BY <2>1, ReadingAssumption DEF IsHeading
  <2>4. \A k \in 0..6 : k > 0 => k \in 1..6
    OBVIOUS
  <2> QED BY <2>2, <2>3, <2>4
<1> QED BY <1>1, <1>2, <1>3

DeferredState == [level : 0..6, at : Seq(Nat)]
DesignState == [within : BOOLEAN, at : Seq(Nat)]

\* One line of the scan for deferred items.
LEMMA DeferredStep ==
  ASSUME NEW m \in Seq(Lines), NEW s \in DeferredState, NEW n \in 1..Len(m)
  PROVE  ScanDeferred(m, s, n) \in DeferredState
<1>1. m[n].level \in 0..6 /\ n \in Nat
  BY LinesAre
<1>2. s.level \in 0..6 /\ s.at \in Seq(Nat)
  BY DEF DeferredState
<1>3. Append(s.at, n) \in Seq(Nat)
  BY <1>1, <1>2
<1>4. CASE m[n].is = "deferred heading"
  <2>1. ScanDeferred(m, s, n) = [s EXCEPT !.level = m[n].level]
    BY <1>4 DEF ScanDeferred
  <2> QED BY <1>1, <2>1 DEF DeferredState
<1>5. CASE m[n].is = "heading"
  <2>1. ScanDeferred(m, s, n) = IF m[n].level <= s.level THEN [s EXCEPT !.level = 0] ELSE s
    BY <1>5 DEF ScanDeferred
  <2> QED BY <1>1, <2>1 DEF DeferredState
<1>6. CASE m[n].is # "deferred heading" /\ m[n].is # "heading"
  <2>1. ScanDeferred(m, s, n) = IF s.level > 0 /\ m[n].is \in {"bullet", "unchecked", "checked", "hint"}
                                THEN [s EXCEPT !.at = Append(@, n)] ELSE s
    BY <1>6 DEF ScanDeferred
  <2> QED BY <1>3, <2>1 DEF DeferredState
<1> QED BY <1>4, <1>5, <1>6

\* One line of the scan for designs.
LEMMA DesignStep ==
  ASSUME NEW m \in Seq(Lines), NEW s \in DesignState, NEW n \in 1..Len(m)
  PROVE  ScanDesigns(m, s, n) \in DesignState
<1>1. s.within \in BOOLEAN /\ s.at \in Seq(Nat) /\ n \in Nat
  BY DEF DesignState
<1>2. Append(s.at, n) \in Seq(Nat)
  BY <1>1
<1> QED BY <1>1, <1>2 DEF ScanDesigns, DesignState

\* The scan for deferred items goes line by line.
LEMMA DeferredRuns ==
  ASSUME NEW m \in Seq(Lines)
  PROVE  \E r \in [0..Len(m) -> DeferredState] :
           /\ r[0] = [level |-> 0, at |-> <<>>] /\ DeferredScan(m) = r[Len(m)]
           /\ \A k \in 1..Len(m) : r[k] = ScanDeferred(m, r[k-1], k)
<1> DEFINE T == DeferredState
           base == [level |-> 0, at |-> <<>>]
           w == [k \in DOMAIN m |-> k]
           n == Len(m)
           step == [k \in 1..n |-> [s \in T |-> ScanDeferred(m, s, w[k])]]
           F(h) == [u \in SUBSET (DOMAIN w) |->
                      IF u = {} THEN base ELSE LET x == Max(u) IN ScanDeferred(m, h[u \ {x}], w[x])]
           it == CHOOSE h : h = F(h)
<1>1. n \in Nat /\ DOMAIN w = 1..n /\ base \in T /\ \A k \in 1..n : w[k] = k
  BY DEF DeferredState
<1>2. step \in [1..n -> [T -> T]]
  <2>1. \A k \in 1..n : \A s \in T : ScanDeferred(m, s, w[k]) \in T
    BY <1>1, DeferredStep DEF T
  <2> HIDE DEF T
  <2> QED BY <2>1
<1>3. PICK g \in [SUBSET (1..n) -> T] : Steps(g, n, base, step)
  <2> HIDE DEF T, base, n, step
  <2> QED BY <1>1, <1>2, FoldExists
<1>4. \A u \in SUBSET (1..n) : u # {} => Max(u) \in 1..n /\ u \ {Max(u)} \in SUBSET (1..n)
  BY <1>1, MaxIs
<1>5. g = F(g)
  <2> HIDE DEF T, base, w
  <2>1. \A u \in SUBSET (1..n) :
          u # {} => step[Max(u)][g[u \ {Max(u)}]] = ScanDeferred(m, g[u \ {Max(u)}], w[Max(u)])
    BY <1>3, <1>4
  <2> HIDE DEF step, n
  <2> QED BY <1>1, <1>3, <2>1 DEF Steps
<1>6. it = F(it)
  BY <1>5
<1>7. DeferredScan(m) = it[1..n]
  BY <1>1 DEF DeferredScan, FoldLeft, MapThenFoldSet
<1> HIDE DEF it
<1>8. Follows(it, n, T, base, step)
  <2>1. \A u \in SUBSET (1..n) : it[u] = IF u = {} THEN base ELSE ScanDeferred(m, it[u \ {Max(u)}], w[Max(u)])
    BY <1>1, <1>6
  <2> HIDE DEF T, base, w
  <2> QED BY <1>4, <2>1 DEF Follows
<1>9. PICK r \in [0..n -> T] : Runs(r, n, base, step) /\ it[1..n] = r[n]
  <2> HIDE DEF T, base, n, step
  <2>1. n \in Nat /\ base \in T
    BY <1>1
  <2>2. Led(it, n, T, base, step)
    BY ONLY <1>2, <1>8, <2>1, FoldRuns
  <2> QED BY ONLY <2>2 DEF Led
<1>10. \A k \in 1..n : r[k] = ScanDeferred(m, r[k-1], w[k])
  <2>1. \A k \in 1..n : k - 1 \in 0..n
    BY <1>1
  <2> HIDE DEF T, w, n
  <2>2. \A k \in 1..n : r[k-1] \in T /\ r[k] = step[k][r[k-1]]
    BY <1>9, <2>1 DEF Runs
  <2> QED BY <2>2
<1>11. r[0] = base
  BY <1>9 DEF Runs
<1> QED BY <1>1, <1>7, <1>9, <1>10, <1>11

\* So does the scan for designs.
LEMMA DesignRuns ==
  ASSUME NEW m \in Seq(Lines)
  PROVE  \E r \in [0..Len(m) -> DesignState] :
           /\ r[0] = [within |-> FALSE, at |-> <<>>] /\ DesignScan(m) = r[Len(m)]
           /\ \A k \in 1..Len(m) : r[k] = ScanDesigns(m, r[k-1], k)
<1> DEFINE T == DesignState
           base == [within |-> FALSE, at |-> <<>>]
           w == [k \in DOMAIN m |-> k]
           n == Len(m)
           step == [k \in 1..n |-> [s \in T |-> ScanDesigns(m, s, w[k])]]
           F(h) == [u \in SUBSET (DOMAIN w) |->
                      IF u = {} THEN base ELSE LET x == Max(u) IN ScanDesigns(m, h[u \ {x}], w[x])]
           it == CHOOSE h : h = F(h)
<1>1. n \in Nat /\ DOMAIN w = 1..n /\ base \in T /\ \A k \in 1..n : w[k] = k
  BY DEF DesignState
<1>2. step \in [1..n -> [T -> T]]
  <2>1. \A k \in 1..n : \A s \in T : ScanDesigns(m, s, w[k]) \in T
    BY <1>1, DesignStep DEF T
  <2> HIDE DEF T
  <2> QED BY <2>1
<1>3. PICK g \in [SUBSET (1..n) -> T] : Steps(g, n, base, step)
  <2> HIDE DEF T, base, n, step
  <2> QED BY <1>1, <1>2, FoldExists
<1>4. \A u \in SUBSET (1..n) : u # {} => Max(u) \in 1..n /\ u \ {Max(u)} \in SUBSET (1..n)
  BY <1>1, MaxIs
<1>5. g = F(g)
  <2> HIDE DEF T, base, w
  <2>1. \A u \in SUBSET (1..n) :
          u # {} => step[Max(u)][g[u \ {Max(u)}]] = ScanDesigns(m, g[u \ {Max(u)}], w[Max(u)])
    BY <1>3, <1>4
  <2> HIDE DEF step, n
  <2> QED BY <1>1, <1>3, <2>1 DEF Steps
<1>6. it = F(it)
  BY <1>5
<1>7. DesignScan(m) = it[1..n]
  BY <1>1 DEF DesignScan, FoldLeft, MapThenFoldSet
<1> HIDE DEF it
<1>8. Follows(it, n, T, base, step)
  <2>1. \A u \in SUBSET (1..n) : it[u] = IF u = {} THEN base ELSE ScanDesigns(m, it[u \ {Max(u)}], w[Max(u)])
    BY <1>1, <1>6
  <2> HIDE DEF T, base, w
  <2> QED BY <1>4, <2>1 DEF Follows
<1>9. PICK r \in [0..n -> T] : Runs(r, n, base, step) /\ it[1..n] = r[n]
  <2> HIDE DEF T, base, n, step
  <2>1. n \in Nat /\ base \in T
    BY <1>1
  <2>2. Led(it, n, T, base, step)
    BY ONLY <1>2, <1>8, <2>1, FoldRuns
  <2> QED BY ONLY <2>2 DEF Led
<1>10. \A k \in 1..n : r[k] = ScanDesigns(m, r[k-1], w[k])
  <2>1. \A k \in 1..n : k - 1 \in 0..n
    BY <1>1
  <2> HIDE DEF T, w, n
  <2>2. \A k \in 1..n : r[k-1] \in T /\ r[k] = step[k][r[k-1]]
    BY <1>9, <2>1 DEF Runs
  <2> QED BY <2>2
<1>11. r[0] = base
  BY <1>9 DEF Runs
<1> QED BY <1>1, <1>7, <1>9, <1>10, <1>11

\* One line more in a set of places.
LEMMA PlacesGrow ==
  ASSUME NEW m \in Seq(Lines), NEW k \in 1..Len(m), NEW S
  PROVE  LET upTo(j) == {n \in 1..j : n \in S}
         IN /\ k \in S => Ascending(upTo(k)) = Append(Ascending(upTo(k - 1)), k)
            /\ k \notin S => upTo(k) = upTo(k - 1)
<1> DEFINE upTo(j) == {n \in 1..j : n \in S}
<1>1. k \in Nat /\ k - 1 \in Nat /\ upTo(k) = upTo(k - 1) \cup {n \in {k} : n \in S}
  BY LinesAre
<1>2. upTo(k - 1) \subseteq 1..(k - 1) /\ IsFiniteSet(1..(k - 1))
  BY <1>1, FS_Interval
<1>3. IsFiniteSet(upTo(k - 1))
  BY <1>2, FS_Subset
<1>4. CASE k \in S
  <2>1. upTo(k) = upTo(k - 1) \cup {k}
    BY <1>1, <1>4
  <2>2. upTo(k - 1) \subseteq Nat /\ \A i \in upTo(k - 1) : i < k
    BY <1>1
  <2>3. Ascending(upTo(k - 1) \cup {k}) = Append(Ascending(upTo(k - 1)), k)
    <3> HIDE DEF upTo
    <3> QED BY <1>1, <1>3, <2>2, AscendingGrows
  <2> QED BY <1>4, <2>1, <2>3
<1>5. CASE k \notin S
  BY <1>1, <1>5
<1> QED BY <1>4, <1>5

\* Line n is under the deferred heading h; it is an item put off.
Under(m, n, h) ==
  /\ m[h].is = "deferred heading"
  /\ \A k \in (h+1)..(n-1) : /\ m[k].is # "deferred heading"
                             /\ m[k].is = "heading" => m[k].level > m[h].level
PutOff(m, n) == /\ m[n].is \in {"bullet", "unchecked", "checked", "hint"}
                /\ \E h \in 1..(n-1) : Under(m, n, h)

\* The scan for deferred items holds the level of the heading the next line is under, and finds
\* every item put off.
LEMMA DeferredFound ==
  ASSUME NEW m \in Seq(Lines)
  PROVE  _deferred_section_items(m) = Ascending({n \in DOMAIN m : PutOff(m, n)})
<1> DEFINE L == Len(m)
           S == {n \in 1..L : PutOff(m, n)}
           upTo(k) == {n \in 1..k : n \in S}
<1>1. PICK r \in [0..L -> DeferredState] :
        /\ r[0] = [level |-> 0, at |-> <<>>] /\ DeferredScan(m) = r[L]
        /\ \A k \in 1..L : r[k] = ScanDeferred(m, r[k-1], k)
  BY DeferredRuns
<1>2. L \in Nat /\ DOMAIN m = 1..L
  BY LinesAre
<1>3. \A k \in 1..L : IsHeading(m[k]) => m[k].level \in 1..6
  BY LinesAre
<1> DEFINE Right(k) ==
             /\ r[k].at = Ascending(upTo(k))
             /\ r[k].level > 0 => \E h \in 1..k : Under(m, k + 1, h) /\ m[h].level = r[k].level
             /\ r[k].level = 0 => \A h \in 1..k : ~Under(m, k + 1, h)
           P == {k \in 0..L : Right(k)}
<1>4. P \in SUBSET (0..L) /\ 0 \in P
  <2>1. upTo(0) = {}
    OBVIOUS
  <2>2. Right(0)
    BY <1>1, <2>1, AscendingEmpty
  <2> QED BY <1>2, <2>2
<1>5. ASSUME NEW k \in 1..L, k - 1 \in P PROVE k \in P
  <2> DEFINE s == r[k-1]
             Goes(h) == m[k].is # "deferred heading" /\ (m[k].is = "heading" => m[k].level > m[h].level)
  <2>1. k \in Nat /\ k - 1 \in 0..L /\ s \in DeferredState /\ s.level \in 0..6
          /\ s.at = Ascending(upTo(k - 1))
    BY <1>1, <1>2, <1>5 DEF DeferredState
  <2>2. /\ s.level > 0 => \E h \in 1..(k-1) : Under(m, k, h) /\ m[h].level = s.level
        /\ s.level = 0 => \A h \in 1..(k-1) : ~Under(m, k, h)
    <3>1. (k - 1) + 1 = k
      BY <2>1
    <3> QED BY <1>5, <3>1
  <2>3. r[k] = ScanDeferred(m, s, k)
    BY <1>1
  <2>4. ASSUME NEW h \in 1..(k-1)
        PROVE  Under(m, k + 1, h) <=> Under(m, k, h) /\ Goes(h)
    <3>1. /\ h + 1 \in Int /\ k \in (h+1)..((k+1)-1)
          /\ \A j \in (h+1)..((k+1)-1) : j \in (h+1)..(k-1) \/ j = k
          /\ \A j \in (h+1)..(k-1) : j \in (h+1)..((k+1)-1)
      BY <2>1
    <3> QED BY <3>1 DEF Under
  <2>5. Under(m, k + 1, k) <=> m[k].is = "deferred heading"
    <3>1. \A j \in (k+1)..((k+1)-1) : FALSE
      BY <2>1
    <3> QED BY <3>1 DEF Under
  <2>6. \A h \in 1..k : h \in 1..(k-1) \/ h = k
    BY <2>1
  <2>7. ASSUME NEW h \in 1..(k-1), NEW g \in 1..(k-1), Under(m, k, h), Under(m, k, g)
        PROVE  h = g
    <3>1. ~(h < g)
      <4> SUFFICES ASSUME h < g PROVE FALSE
        OBVIOUS
      <4>1. g \in (h+1)..(k-1)
        BY <2>1
      <4> QED BY <2>7, <4>1 DEF Under
    <3>2. ~(g < h)
      <4> SUFFICES ASSUME g < h PROVE FALSE
        OBVIOUS
      <4>1. h \in (g+1)..(k-1)
        BY <2>1
      <4> QED BY <2>7, <4>1 DEF Under
    <3> QED BY <2>1, <3>1, <3>2
  <2>8. /\ k \in S => Ascending(upTo(k)) = Append(Ascending(upTo(k - 1)), k)
        /\ k \notin S => upTo(k) = upTo(k - 1)
    BY PlacesGrow
  <2>9. k \in S <=> m[k].is \in {"bullet", "unchecked", "checked", "hint"} /\ s.level > 0
    <3>1. s.level > 0 \/ s.level = 0
      BY <2>1
    <3>2. ~(0 > 0)
      OBVIOUS
    <3> QED BY <2>2, <3>1, <3>2 DEF PutOff
  <2> HIDE DEF S, upTo, s
  <2>10. CASE m[k].is = "deferred heading"
    <3>1. r[k] = [s EXCEPT !.level = m[k].level]
      BY <2>3, <2>10 DEF ScanDeferred
    <3>2. r[k].at = s.at /\ r[k].level = m[k].level
      BY <2>1, <3>1 DEF DeferredState
    <3>3. m[k].level \in 1..6
      BY <1>3, <2>10 DEF IsHeading
    <3>4. k \notin S
      BY <2>9, <2>10
    <3>5. k \in 1..k /\ ~(m[k].level = 0)
      BY <2>1, <3>3
    <3>6. \E h \in 1..k : Under(m, k + 1, h) /\ m[h].level = r[k].level
      BY <2>5, <2>10, <3>2, <3>5
    <3>7. r[k].at = Ascending(upTo(k))
      BY <2>1, <2>8, <3>2, <3>4
    <3> QED BY <3>2, <3>5, <3>6, <3>7
  <2>11. CASE m[k].is = "heading"
    <3>1. r[k] = IF m[k].level <= s.level THEN [s EXCEPT !.level = 0] ELSE s
      BY <2>3, <2>11 DEF ScanDeferred
    <3>2. m[k].level \in 1..6 /\ k \notin S
      BY <1>3, <2>9, <2>11 DEF IsHeading
    <3>3. ~Under(m, k + 1, k)
      BY <2>5, <2>11
    <3>4. CASE m[k].level <= s.level
      <4>1. r[k].at = s.at /\ r[k].level = 0 /\ s.level > 0
        BY <2>1, <3>1, <3>2, <3>4 DEF DeferredState
      <4>2. PICK h \in 1..(k-1) : Under(m, k, h) /\ m[h].level = s.level
        BY <2>2, <4>1
      <4>3. ~Goes(h)
        BY <2>1, <2>11, <3>2, <3>4, <4>2
      <4>4. \A g \in 1..(k-1) : ~Under(m, k + 1, g)
        BY <2>4, <2>7, <4>2, <4>3
      <4>5. ~(0 > 0)
        OBVIOUS
      <4> HIDE DEF Goes
      <4> QED BY <2>1, <2>6, <2>8, <3>2, <3>3, <4>1, <4>4, <4>5
    <3>5. CASE ~(m[k].level <= s.level)
      <4>1. r[k] = s
        BY <3>1, <3>5
      <4>2. ASSUME s.level > 0 PROVE \E h \in 1..k : Under(m, k + 1, h) /\ m[h].level = s.level
        <5>1. PICK h \in 1..(k-1) : Under(m, k, h) /\ m[h].level = s.level
          BY <2>2, <4>2
        <5>2. Goes(h) /\ h \in 1..k
          BY <2>1, <2>11, <3>2, <3>5, <5>1
        <5> HIDE DEF Goes
        <5> QED BY <2>4, <5>1, <5>2
      <4>3. s.level = 0 => \A h \in 1..k : ~Under(m, k + 1, h)
        BY <2>2, <2>4, <2>6, <3>3
      <4> QED BY <2>1, <2>8, <3>2, <4>1, <4>2, <4>3
    <3> QED BY <3>4, <3>5
  <2>12. CASE m[k].is # "deferred heading" /\ m[k].is # "heading"
    <3>1. r[k] = IF s.level > 0 /\ m[k].is \in {"bullet", "unchecked", "checked", "hint"}
                 THEN [s EXCEPT !.at = Append(@, k)] ELSE s
      BY <2>3, <2>12 DEF ScanDeferred
    <3>2. r[k].level = s.level /\ r[k].at = IF k \in S THEN Append(s.at, k) ELSE s.at
      BY <2>1, <2>9, <3>1 DEF DeferredState
    <3>3. \A h \in 1..(k-1) : Under(m, k + 1, h) <=> Under(m, k, h)
      BY <2>4, <2>12
    <3>4. ~Under(m, k + 1, k)
      BY <2>5, <2>12
    <3>5. \A h \in 1..(k-1) : h \in 1..k
      BY <2>1
    <3>6. r[k].at = Ascending(upTo(k))
      BY <2>1, <2>8, <3>2
    <3>7. r[k].level > 0 => \E h \in 1..k : Under(m, k + 1, h) /\ m[h].level = r[k].level
      BY <2>2, <3>2, <3>3, <3>5
    <3>8. r[k].level = 0 => \A h \in 1..k : ~Under(m, k + 1, h)
      BY <2>2, <2>6, <3>2, <3>3, <3>4
    <3> QED BY <3>6, <3>7, <3>8
  <2>13. Right(k)
    BY <2>10, <2>11, <2>12
  <2> HIDE DEF Right
  <2> QED BY <2>13
<1>6. \A k \in 0..L : k \in P
  <2> HIDE DEF P
  <2> QED BY <1>2, <1>4, <1>5, Induct
<1>7. r[L].at = Ascending(upTo(L))
  BY <1>2, <1>6
<1>8. upTo(L) = {n \in DOMAIN m : PutOff(m, n)}
  BY <1>2
<1> QED BY <1>1, <1>7, <1>8 DEF _deferred_section_items

\* Line n is under the heading h; it is a line of a design.
Near(m, n, h) == IsHeading(m[h]) /\ \A k \in (h+1)..(n-1) : m[k].is # "blank"
Designed(m, n) == /\ ~IsHeading(m[n]) /\ m[n].is # "blank"
                  /\ m[n].is = "decision" \/ \E h \in 1..(n-1) : Near(m, n, h)

\* The scan for designs knows whether the next line is under a heading, and finds every line
\* of a design.
LEMMA DesignFound ==
  ASSUME NEW m \in Seq(Lines)
  PROVE  DesignScan(m).at = Ascending({n \in DOMAIN m : Designed(m, n)})
<1> DEFINE L == Len(m)
           S == {n \in 1..L : Designed(m, n)}
           upTo(k) == {n \in 1..k : n \in S}
<1>1. PICK r \in [0..L -> DesignState] :
        /\ r[0] = [within |-> FALSE, at |-> <<>>] /\ DesignScan(m) = r[L]
        /\ \A k \in 1..L : r[k] = ScanDesigns(m, r[k-1], k)
  BY DesignRuns
<1>2. L \in Nat /\ DOMAIN m = 1..L
  BY LinesAre
<1> DEFINE Right(k) == /\ r[k].at = Ascending(upTo(k))
                       /\ r[k].within <=> \E h \in 1..k : Near(m, k + 1, h)
           P == {k \in 0..L : Right(k)}
<1>3. P \in SUBSET (0..L) /\ 0 \in P
  <2>1. upTo(0) = {}
    OBVIOUS
  <2>2. Right(0)
    BY <1>1, <2>1, AscendingEmpty
  <2> QED BY <1>2, <2>2
<1>4. ASSUME NEW k \in 1..L, k - 1 \in P PROVE k \in P
  <2> DEFINE s == r[k-1]
  <2>1. k \in Nat /\ k - 1 \in 0..L /\ s \in DesignState /\ s.within \in BOOLEAN
          /\ s.at = Ascending(upTo(k - 1))
    BY <1>1, <1>2, <1>4 DEF DesignState
  <2>2. s.within <=> \E h \in 1..(k-1) : Near(m, k, h)
    <3>1. (k - 1) + 1 = k
      BY <2>1
    <3> QED BY <1>4, <3>1
  <2>3. r[k] = ScanDesigns(m, s, k)
    BY <1>1
  <2>4. ASSUME NEW h \in 1..(k-1)
        PROVE  Near(m, k + 1, h) <=> Near(m, k, h) /\ m[k].is # "blank"
    <3>1. /\ h + 1 \in Int /\ k \in (h+1)..((k+1)-1)
          /\ \A j \in (h+1)..((k+1)-1) : j \in (h+1)..(k-1) \/ j = k
          /\ \A j \in (h+1)..(k-1) : j \in (h+1)..((k+1)-1)
      BY <2>1
    <3> QED BY <3>1 DEF Near
  <2>5. Near(m, k + 1, k) <=> IsHeading(m[k])
    <3>1. \A j \in (k+1)..((k+1)-1) : FALSE
      BY <2>1
    <3> QED BY <3>1 DEF Near
  <2>6. k \in 1..k /\ (\A h \in 1..k : h \in 1..(k-1) \/ h = k) /\ \A h \in 1..(k-1) : h \in 1..k
    BY <2>1
  <2>7. /\ k \in S => Ascending(upTo(k)) = Append(Ascending(upTo(k - 1)), k)
        /\ k \notin S => upTo(k) = upTo(k - 1)
    BY PlacesGrow
  <2>8. k \in S <=> ~IsHeading(m[k]) /\ m[k].is # "blank" /\ (m[k].is = "decision" \/ s.within)
    BY <2>2 DEF Designed
  <2> HIDE DEF S, upTo, s
  <2>9. CASE m[k].is = "blank"
    <3>1. r[k] = [s EXCEPT !.within = FALSE]
      BY <2>3, <2>9 DEF ScanDesigns, IsHeading
    <3>2. r[k].at = s.at /\ r[k].within = FALSE
      BY <2>1, <3>1 DEF DesignState
    <3>3. ~IsHeading(m[k]) /\ k \notin S
      BY <2>8, <2>9 DEF IsHeading
    <3>4. \A h \in 1..k : ~Near(m, k + 1, h)
      BY <2>4, <2>5, <2>6, <2>9, <3>3
    <3> QED BY <2>1, <2>7, <3>2, <3>3, <3>4
  <2>10. CASE IsHeading(m[k])
    <3>1. m[k].is # "blank" /\ k \notin S
      BY <2>8, <2>10 DEF IsHeading
    <3>2. r[k] = [s EXCEPT !.within = TRUE]
      BY <2>3, <2>10, <3>1 DEF ScanDesigns
    <3>3. r[k].at = s.at /\ r[k].within = TRUE
      BY <2>1, <3>2 DEF DesignState
    <3>4. \E h \in 1..k : Near(m, k + 1, h)
      BY <2>5, <2>6, <2>10
    <3> QED BY <2>1, <2>7, <3>1, <3>3, <3>4
  <2>11. CASE m[k].is # "blank" /\ ~IsHeading(m[k])
    <3>1. r[k] = IF s.within \/ m[k].is = "decision" THEN [s EXCEPT !.at = Append(@, k)] ELSE s
      BY <2>3, <2>11 DEF ScanDesigns
    <3>2. k \in S <=> s.within \/ m[k].is = "decision"
      BY <2>8, <2>11
    <3>3. r[k].within = s.within /\ r[k].at = IF k \in S THEN Append(s.at, k) ELSE s.at
      BY <2>1, <3>1, <3>2 DEF DesignState
    <3>4. r[k].at = Ascending(upTo(k))
      BY <2>1, <2>7, <3>3
    <3>5. s.within <=> \E h \in 1..k : Near(m, k + 1, h)
      <4>1. \A h \in 1..(k-1) : Near(m, k + 1, h) <=> Near(m, k, h)
        BY <2>4, <2>11
      <4>2. ~Near(m, k + 1, k)
        BY <2>5, <2>11
      <4> QED BY <2>2, <2>6, <4>1, <4>2, Zenon
    <3> QED BY <3>3, <3>4, <3>5
  <2>12. Right(k)
    BY <2>9, <2>10, <2>11
  <2> HIDE DEF Right
  <2> QED BY <2>12
<1>5. \A k \in 0..L : k \in P
  <2> HIDE DEF P
  <2> QED BY <1>2, <1>3, <1>4, Induct
<1>6. r[L].at = Ascending(upTo(L))
  BY <1>2, <1>5
<1>7. upTo(L) = {n \in DOMAIN m : Designed(m, n)}
  BY <1>2
<1> QED BY <1>1, <1>6, <1>7

-----------------------------------------------------------------------------
(* Chunks.                                                                    *)

\* What a sequence holds.
LEMMA RangeOf ==
  ASSUME NEW T, NEW s \in Seq(T), NEW x \in T
  PROVE  /\ Range(Append(s, x)) = Range(s) \cup {x} /\ Range(<<x>>) = {x} /\ Range(<<>>) = {}
         /\ Range(s) \subseteq T
<1>1. /\ Append(s, x) \in Seq(T) /\ Len(Append(s, x)) = Len(s) + 1 /\ Len(s) \in Nat
      /\ Append(s, x)[Len(s) + 1] = x /\ \A n \in 1..Len(s) : Append(s, x)[n] = s[n]
      /\ DOMAIN Append(s, x) = 1..(Len(s) + 1) /\ DOMAIN s = 1..Len(s)
  OBVIOUS
<1>2. \A n \in 1..(Len(s) + 1) : n \in 1..Len(s) \/ n = Len(s) + 1
  BY <1>1
<1>3. Len(s) + 1 \in 1..(Len(s) + 1) /\ \A n \in 1..Len(s) : n \in 1..(Len(s) + 1)
  BY <1>1
<1>4. Range(Append(s, x)) = Range(s) \cup {x}
  <2> DEFINE a == Append(s, x)
  <2> HIDE DEF a
  <2>1. /\ DOMAIN a = 1..(Len(s) + 1) /\ a[Len(s) + 1] = x /\ \A n \in 1..Len(s) : a[n] = s[n]
    BY <1>1 DEF a
  <2>2. Range(a) = Range(s) \cup {x}
    BY <1>1, <1>2, <1>3, <2>1 DEF Range
  <2> QED BY <2>2 DEF a
<1>5. Range(<<x>>) = {x} /\ Range(<<>>) = {} /\ Range(s) \subseteq T
  BY DEF Range
<1> QED BY <1>4, <1>5

\* What some places of a sequence hold.
LEMMA ThoseAre ==
  ASSUME NEW T, NEW s \in Seq(T), NEW at \in SUBSET (DOMAIN s)
  PROVE  /\ Those(s, at) \in Seq(T) /\ Len(Those(s, at)) = Cardinality(at) /\ Cardinality(at) \in Nat
         /\ IsFiniteSet(at)
         /\ \A n \in 1..Cardinality(at) : \E k \in at : Those(s, at)[n] = s[k]
         /\ \A k \in at : \E n \in 1..Cardinality(at) : Those(s, at)[n] = s[k]
<1> DEFINE place == Ascending(at)
<1>1. DOMAIN s = 1..Len(s) /\ Len(s) \in Nat /\ DOMAIN s \subseteq Nat
  OBVIOUS
<1>2. IsFiniteSet(at) /\ at \subseteq Nat
  <2>1. IsFiniteSet(1..Len(s))
    BY <1>1, FS_Interval
  <2> QED BY <1>1, <2>1, FS_Subset
<1>3. /\ place \in [1..Cardinality(at) -> at] /\ Cardinality(at) \in Nat
      /\ \A k \in at : \E n \in 1..Cardinality(at) : place[n] = k
  BY <1>2, AscendingAll
<1>4. Those(s, at) = [n \in DOMAIN place |-> s[place[n]]]
  BY DEF Those
<1> HIDE DEF place
<1>5. \A k \in at : s[k] \in T
  BY <1>1
<1>6. Those(s, at) = [n \in 1..Cardinality(at) |-> s[place[n]]]
  BY <1>3, <1>4
<1>7. Those(s, at) \in [1..Cardinality(at) -> T]
  BY <1>3, <1>5, <1>6
<1>8. Those(s, at) \in Seq(T) /\ Len(Those(s, at)) = Cardinality(at)
  BY <1>3, <1>7
<1>9. \A n \in 1..Cardinality(at) : place[n] \in at /\ Those(s, at)[n] = s[place[n]]
  BY <1>3, <1>6
<1> QED BY <1>2, <1>3, <1>8, <1>9

\* The lines of a message that have their chunk as headings, and the others that are not blank.
HeadSet(m) == {n \in DOMAIN m : IsHeading(m[n]) /\ ~m[n].fenced}
BodySet(m) == {n \in DOMAIN m : m[n].is # "blank" /\ (m[n].fenced \/ ~IsHeading(m[n]))}

LEMMA BodyIs ==
  ASSUME NEW m \in Seq(Lines)
  PROVE  /\ Body(m) \in Seq(Nat) /\ \A n \in 1..Len(Body(m)) : Body(m)[n] \in BodySet(m)
         /\ \A i \in BodySet(m) : \E n \in 1..Len(Body(m)) : Body(m)[n] = i
         /\ \A n, j \in 1..Len(Body(m)) : n < j => Body(m)[n] < Body(m)[j]
         /\ Heads(m) \in Seq(Nat) /\ \A n \in 1..Len(Heads(m)) : Heads(m)[n] \in HeadSet(m)
         /\ \A i \in HeadSet(m) : \E n \in 1..Len(Heads(m)) : Heads(m)[n] = i
         /\ \A n, j \in 1..Len(Heads(m)) : n < j => Heads(m)[n] < Heads(m)[j]
<1>1. Body(m) = Ascending(BodySet(m)) /\ Heads(m) = Ascending(HeadSet(m))
  BY DEF Body, Heads, Where, BodySet, HeadSet
<1>2. /\ BodySet(m) \subseteq DOMAIN m /\ HeadSet(m) \subseteq DOMAIN m
      /\ IsFiniteSet(DOMAIN m) /\ DOMAIN m \subseteq Nat
  BY LinesAre DEF BodySet, HeadSet
<1>3. ASSUME NEW S \in SUBSET (DOMAIN m), NEW a, a = Ascending(S)
      PROVE  /\ a \in Seq(Nat) /\ \A n \in 1..Len(a) : a[n] \in S
             /\ \A i \in S : \E n \in 1..Len(a) : a[n] = i
             /\ \A n, j \in 1..Len(a) : n < j => a[n] < a[j]
  <2>1. IsFiniteSet(S) /\ S \subseteq Nat
    BY <1>2, FS_Subset
  <2>2. /\ a \in Seq(S) /\ Len(a) = Cardinality(S)
        /\ \A n, j \in 1..Cardinality(S) : n < j => a[n] < a[j]
    BY <1>3, <2>1, AscendingSeq
  <2>3. \A i \in S : \E n \in 1..Cardinality(S) : a[n] = i
    BY <1>3, <2>1, AscendingAll
  <2>4. a \in Seq(Nat) /\ \A n \in 1..Len(a) : a[n] \in S
    BY <2>1, <2>2
  <2> QED BY <2>2, <2>3, <2>4
<1>4. BodySet(m) \in SUBSET (DOMAIN m) /\ HeadSet(m) \in SUBSET (DOMAIN m)
  BY <1>2
<1>5. /\ Body(m) \in Seq(Nat) /\ \A n \in 1..Len(Body(m)) : Body(m)[n] \in BodySet(m)
      /\ \A i \in BodySet(m) : \E n \in 1..Len(Body(m)) : Body(m)[n] = i
      /\ \A n, j \in 1..Len(Body(m)) : n < j => Body(m)[n] < Body(m)[j]
  BY ONLY <1>1, <1>3, <1>4
<1>6. /\ Heads(m) \in Seq(Nat) /\ \A n \in 1..Len(Heads(m)) : Heads(m)[n] \in HeadSet(m)
      /\ \A i \in HeadSet(m) : \E n \in 1..Len(Heads(m)) : Heads(m)[n] = i
      /\ \A n, j \in 1..Len(Heads(m)) : n < j => Heads(m)[n] < Heads(m)[j]
  BY ONLY <1>1, <1>3, <1>4
<1> QED BY <1>5, <1>6

Chunk == Seq(Nat)
ChunkState == [out : Seq(Chunk), buf : Chunk]
\* Chunks that hold the lines of S, each in one of them.
Parted(chunks, S) ==
  /\ \A k \in 1..Len(chunks) : Range(chunks[k]) \subseteq S
  /\ \A k, j \in 1..Len(chunks) : k # j => Range(chunks[k]) \cap Range(chunks[j]) = {}
  /\ \A n \in S : \E k \in 1..Len(chunks) : n \in Range(chunks[k])
\* What is gathered holds the rest.
Gathers(s, S) == Parted(s.out, S \ Range(s.buf)) /\ Range(s.buf) \subseteq S

\* Chunks, and others of other lines.
LEMMA PartedConcat ==
  ASSUME NEW a \in Seq(Chunk), NEW b \in Seq(Chunk), NEW S, NEW T,
         Parted(a, S), Parted(b, T), S \cap T = {}
  PROVE  a \o b \in Seq(Chunk) /\ Len(a \o b) = Len(a) + Len(b) /\ Parted(a \o b, S \cup T)
<1>1. a \o b \in Seq(Chunk) /\ Len(a \o b) = Len(a) + Len(b) /\ Len(a) \in Nat /\ Len(b) \in Nat
  BY ConcatProperties
<1>2. \A k \in 1..(Len(a) + Len(b)) : (a \o b)[k] = IF k <= Len(a) THEN a[k] ELSE b[k - Len(a)]
  BY ONLY ConcatProperties, a \in Seq(Chunk), b \in Seq(Chunk), Zenon
<1> DEFINE c == a \o b
<1>3. ASSUME NEW k \in 1..(Len(a) + Len(b))
      PROVE  \/ k \in 1..Len(a) /\ c[k] = a[k]
             \/ ~(k \in 1..Len(a)) /\ k - Len(a) \in 1..Len(b) /\ c[k] = b[k - Len(a)]
  <2>1. k <= Len(a) => k \in 1..Len(a)
    BY <1>1
  <2>2. ~(k <= Len(a)) => k - Len(a) \in 1..Len(b) /\ ~(k \in 1..Len(a))
    BY <1>1
  <2> QED BY <1>2, <2>1, <2>2
<1>4. /\ \A k \in 1..Len(a) : k \in 1..(Len(a) + Len(b)) /\ c[k] = a[k]
      /\ \A k \in 1..Len(b) : Len(a) + k \in 1..(Len(a) + Len(b)) /\ c[Len(a) + k] = b[k]
  <2>1. \A k \in 1..Len(a) : k \in 1..(Len(a) + Len(b)) /\ k <= Len(a)
    BY <1>1
  <2>2. \A k \in 1..Len(b) : Len(a) + k \in 1..(Len(a) + Len(b)) /\ ~(Len(a) + k <= Len(a))
          /\ (Len(a) + k) - Len(a) = k
    BY <1>1
  <2> QED BY <1>2, <2>1, <2>2
<1> HIDE DEF c
<1>5. ASSUME NEW k \in 1..(Len(a) + Len(b)), NEW j \in 1..(Len(a) + Len(b)), k # j
      PROVE  Range(c[k]) \cap Range(c[j]) = {}
  <2>1. CASE k \in 1..Len(a) /\ j \in 1..Len(a)
    BY <1>4, <1>5, <2>1 DEF Parted
  <2>2. CASE ~(k \in 1..Len(a)) /\ ~(j \in 1..Len(a))
    <3>1. k - Len(a) # j - Len(a)
      BY <1>1, <1>5
    <3> QED BY <1>3, <2>2, <3>1 DEF Parted
  <2>3. CASE k \in 1..Len(a) /\ ~(j \in 1..Len(a))
    <3>1. Range(c[k]) \subseteq S /\ Range(c[j]) \subseteq T
      BY <1>3, <2>3 DEF Parted
    <3> QED BY <3>1
  <2>4. CASE ~(k \in 1..Len(a)) /\ j \in 1..Len(a)
    <3>1. Range(c[k]) \subseteq T /\ Range(c[j]) \subseteq S
      BY <1>3, <2>4 DEF Parted
    <3> QED BY <3>1
  <2> QED BY <2>1, <2>2, <2>3, <2>4
<1>6. \A k \in 1..(Len(a) + Len(b)) : Range(c[k]) \subseteq S \cup T
  BY <1>3 DEF Parted
<1>7. \A n \in S \cup T : \E k \in 1..(Len(a) + Len(b)) : n \in Range(c[k])
  BY <1>4 DEF Parted
<1>8. Parted(c, S \cup T)
  BY <1>1, <1>5, <1>6, <1>7 DEF Parted, c
<1> QED BY <1>1, <1>8 DEF c

\* One chunk more.
LEMMA PartedAppend ==
  ASSUME NEW a \in Seq(Chunk), NEW x \in Chunk, NEW S, Parted(a, S), S \cap Range(x) = {}
  PROVE  Append(a, x) \in Seq(Chunk) /\ Parted(Append(a, x), S \cup Range(x))
<1>1. <<x>> \in Seq(Chunk) /\ Len(<<x>>) = 1 /\ <<x>>[1] = x
  OBVIOUS
<1>2. Parted(<<x>>, Range(x))
  BY <1>1 DEF Parted
<1>3. Append(a, x) = a \o <<x>>
  BY AppendIsConcat
<1>4. a \o <<x>> \in Seq(Chunk) /\ Parted(a \o <<x>>, S \cup Range(x))
  BY ONLY <1>1, <1>2, PartedConcat, a \in Seq(Chunk), Parted(a, S), S \cap Range(x) = {}
<1> QED BY <1>3, <1>4

\* Flushing parts nothing.
LEMMA FlushParts ==
  ASSUME NEW s \in ChunkState
  PROVE  /\ Flush(s) \in ChunkState /\ Flush(s).buf = <<>>
         /\ \A S : Gathers(s, S) => Gathers(Flush(s), S)
<1>1. s.out \in Seq(Chunk) /\ s.buf \in Chunk /\ Range(<<>>) = {}
  BY DEF ChunkState, Chunk, Range
<1>2. CASE s.buf = <<>>
  BY <1>2 DEF Flush
<1>3. CASE s.buf # <<>>
  <2>1. Flush(s) = [out |-> Append(s.out, s.buf), buf |-> <<>>]
    BY <1>3 DEF Flush
  <2>2. Append(s.out, s.buf) \in Seq(Chunk) /\ <<>> \in Chunk
    BY <1>1 DEF Chunk
  <2>3. ASSUME NEW S, Gathers(s, S) PROVE Gathers(Flush(s), S)
    <3>1. Parted(s.out, S \ Range(s.buf)) /\ Range(s.buf) \subseteq S
      BY <2>3 DEF Gathers
    <3>2. Parted(Append(s.out, s.buf), (S \ Range(s.buf)) \cup Range(s.buf))
      BY <1>1, <3>1, PartedAppend
    <3>3. (S \ Range(s.buf)) \cup Range(s.buf) = S /\ S \ Range(<<>>) = S
      BY <1>1, <3>1
    <3>4. Flush(s).out = Append(s.out, s.buf) /\ Flush(s).buf = <<>>
      BY <2>1
    <3>5. Parted(Flush(s).out, S \ Range(Flush(s).buf))
      BY <3>2, <3>3, <3>4
    <3> QED BY <1>1, <3>4, <3>5 DEF Gathers
  <2>4. Flush(s) \in ChunkState /\ Flush(s).buf = <<>>
    BY <2>1, <2>2 DEF ChunkState
  <2> QED BY <2>3, <2>4
<1> QED BY <1>2, <1>3

\* One line more is gathered, or a chunk of its own.
LEMMA PieceParts ==
  ASSUME NEW m, NEW s \in ChunkState, NEW n \in Nat
  PROVE  /\ Piece(m, s, n) \in ChunkState
         /\ \A S : (Gathers(s, S) /\ n \notin S) => Gathers(Piece(m, s, n), S \cup {n})
<1> DEFINE f == Flush(s)
           alone == [f EXCEPT !.out = Append(@, <<n>>)]
           first == [f EXCEPT !.buf = <<n>>]
           more == [s EXCEPT !.buf = Append(@, n)]
<1>1. s.out \in Seq(Chunk) /\ s.buf \in Chunk /\ <<n>> \in Chunk /\ Append(s.buf, n) \in Chunk
  BY DEF ChunkState, Chunk
<1>2. /\ Range(<<n>>) = {n} /\ Range(<<>>) = {} /\ Range(Append(s.buf, n)) = Range(s.buf) \cup {n}
  BY <1>1, RangeOf DEF Chunk
<1>3. f \in ChunkState /\ f.buf = <<>> /\ \A S : Gathers(s, S) => Gathers(f, S)
  BY FlushParts
<1> HIDE DEF f
<1>4. f.out \in Seq(Chunk)
  BY <1>3 DEF ChunkState
<1>5. alone.out = Append(f.out, <<n>>) /\ alone.buf = <<>> /\ alone \in ChunkState
  <2>1. Append(f.out, <<n>>) \in Seq(Chunk)
    BY <1>1, <1>4
  <2> QED BY <1>3, <2>1 DEF ChunkState
<1>6. first.out = f.out /\ first.buf = <<n>> /\ first \in ChunkState
  BY <1>1, <1>3 DEF ChunkState
<1>7. more.out = s.out /\ more.buf = Append(s.buf, n) /\ more \in ChunkState
  BY <1>1 DEF ChunkState
<1> HIDE DEF alone, first, more
<1>8. ASSUME NEW S, Gathers(s, S), n \notin S
      PROVE  Gathers(alone, S \cup {n}) /\ Gathers(first, S \cup {n}) /\ Gathers(more, S \cup {n})
  <2>1. Parted(f.out, S)
    <3>1. Parted(f.out, S \ Range(f.buf)) /\ S \ Range(f.buf) = S
      BY <1>2, <1>3, <1>8 DEF Gathers
    <3> QED BY <3>1
  <2>2. Parted(s.out, S \ Range(s.buf)) /\ Range(s.buf) \subseteq S
    BY <1>8 DEF Gathers
  <2>3. Gathers(alone, S \cup {n})
    <3>1. Parted(Append(f.out, <<n>>), S \cup Range(<<n>>))
      BY <1>1, <1>2, <1>4, <1>8, <2>1, PartedAppend
    <3>2. (S \cup {n}) \ Range(<<>>) = S \cup {n}
      BY <1>2
    <3> QED BY <1>2, <1>5, <3>1, <3>2 DEF Gathers
  <2>4. Gathers(first, S \cup {n})
    <3>1. (S \cup {n}) \ {n} = S
      BY <1>8
    <3> QED BY <1>2, <1>6, <2>1, <3>1 DEF Gathers
  <2>5. Gathers(more, S \cup {n})
    <3>1. (S \cup {n}) \ (Range(s.buf) \cup {n}) = S \ Range(s.buf)
      BY <1>8
    <3> QED BY <1>2, <1>7, <2>2, <3>1 DEF Gathers
  <2> QED BY <2>3, <2>4, <2>5
<1>9. Flush(more) \in ChunkState /\ \A S : Gathers(more, S) => Gathers(Flush(more), S)
  BY <1>7, FlushParts
<1>10. Piece(m, s, n) \in {alone, first, more, Flush(more)}
  <2>1. Gathered(m, s, n) \in {more, Flush(more)}
    BY DEF Gathered, more
  <2> QED BY <2>1 DEF Piece, alone, first, f
<1> QED BY <1>5, <1>6, <1>7, <1>8, <1>9, <1>10

LEMMA PieceStep ==
  ASSUME NEW m \in Seq(Lines), NEW s \in ChunkState, NEW n \in Nat
  PROVE  Piece(m, s, n) \in ChunkState
BY PieceParts

\* The body of a message is gone through piece by piece.
LEMMA PiecesRuns ==
  ASSUME NEW m \in Seq(Lines)
  PROVE  \E r \in [0..Len(Body(m)) -> ChunkState] :
           /\ r[0] = [out |-> <<>>, buf |-> <<>>] /\ Pieces(m) = r[Len(Body(m))]
           /\ \A k \in 1..Len(Body(m)) : r[k] = Piece(m, r[k-1], Body(m)[k])
<1> DEFINE T == ChunkState
           base == [out |-> <<>>, buf |-> <<>>]
           w == Body(m)
           n == Len(Body(m))
           step == [k \in 1..n |-> [s \in T |-> Piece(m, s, w[k])]]
           F(h) == [u \in SUBSET (DOMAIN w) |->
                      IF u = {} THEN base ELSE LET x == Max(u) IN Piece(m, h[u \ {x}], w[x])]
           it == CHOOSE h : h = F(h)
<1>1. n \in Nat /\ DOMAIN w = 1..n /\ base \in T /\ \A k \in 1..n : w[k] \in Nat
  <2>1. w \in Seq(Nat)
    BY BodyIs
  <2>2. base \in T
    BY DEF ChunkState, Chunk
  <2> QED BY <2>1, <2>2
<1>2. step \in [1..n -> [T -> T]]
  <2>1. \A k \in 1..n : \A s \in T : Piece(m, s, w[k]) \in T
    BY <1>1, PieceStep DEF T
  <2> HIDE DEF T
  <2> QED BY <2>1
<1>3. PICK g \in [SUBSET (1..n) -> T] : Steps(g, n, base, step)
  <2> HIDE DEF T, base, n, step
  <2> QED BY <1>1, <1>2, FoldExists
<1>4. \A u \in SUBSET (1..n) : u # {} => Max(u) \in 1..n /\ u \ {Max(u)} \in SUBSET (1..n)
  BY <1>1, MaxIs
<1>5. g = F(g)
  <2> HIDE DEF T, base, w
  <2>1. \A u \in SUBSET (1..n) :
          u # {} => step[Max(u)][g[u \ {Max(u)}]] = Piece(m, g[u \ {Max(u)}], w[Max(u)])
    BY <1>3, <1>4
  <2> HIDE DEF step, n
  <2> QED BY <1>1, <1>3, <2>1 DEF Steps
<1>6. it = F(it)
  BY <1>5
<1>7. Pieces(m) = it[1..n]
  BY <1>1 DEF Pieces, FoldLeft, MapThenFoldSet
<1> HIDE DEF it
<1>8. Follows(it, n, T, base, step)
  <2>1. \A u \in SUBSET (1..n) : it[u] = IF u = {} THEN base ELSE Piece(m, it[u \ {Max(u)}], w[Max(u)])
    BY <1>1, <1>6
  <2> HIDE DEF T, base, w
  <2> QED BY <1>4, <2>1 DEF Follows
<1>9. PICK r \in [0..n -> T] : Runs(r, n, base, step) /\ it[1..n] = r[n]
  <2> HIDE DEF T, base, n, step
  <2>1. n \in Nat /\ base \in T
    BY <1>1
  <2>2. Led(it, n, T, base, step)
    BY ONLY <1>2, <1>8, <2>1, FoldRuns
  <2> QED BY ONLY <2>2 DEF Led
<1>10. \A k \in 1..n : r[k] = Piece(m, r[k-1], w[k])
  <2>1. \A k \in 1..n : k - 1 \in 0..n
    BY <1>1
  <2> HIDE DEF T, w, n
  <2>2. \A k \in 1..n : r[k-1] \in T /\ r[k] = step[k][r[k-1]]
    BY <1>9, <2>1 DEF Runs
  <2> QED BY <2>2
<1>11. r[0] = base
  BY <1>9 DEF Runs
<1> QED BY <1>1, <1>7, <1>9, <1>10, <1>11

\* Each line of the body is in one of the merged chunks.
LEMMA MergedParts ==
  ASSUME NEW m \in Seq(Lines)
  PROVE  _merge_to_target(m) \in Seq(Chunk) /\ Parted(_merge_to_target(m), BodySet(m))
<1> DEFINE b == Body(m)
           L == Len(b)
           upTo(k) == {b[j] : j \in 1..k}
<1>1. PICK r \in [0..L -> ChunkState] :
        /\ r[0] = [out |-> <<>>, buf |-> <<>>] /\ Pieces(m) = r[L]
        /\ \A k \in 1..L : r[k] = Piece(m, r[k-1], b[k])
  BY PiecesRuns
<1>2. /\ b \in Seq(Nat) /\ L \in Nat /\ \A n \in 1..L : b[n] \in BodySet(m) /\ b[n] \in Nat
      /\ \A i \in BodySet(m) : \E n \in 1..L : b[n] = i
      /\ \A n, j \in 1..L : n < j => b[n] < b[j]
  BY BodyIs
<1> HIDE DEF b, L
<1> DEFINE P == {k \in 0..L : Gathers(r[k], upTo(k))}
<1>3. P \in SUBSET (0..L) /\ 0 \in P
  <2>1. upTo(0) = {} /\ Range(<<>>) = {}
    BY DEF Range
  <2>2. Parted(<<>>, {})
    BY DEF Parted
  <2>3. Gathers(r[0], upTo(0))
    <3>1. r[0].out = <<>> /\ r[0].buf = <<>> /\ {} \ {} = {}
      BY <1>1
    <3> QED BY <2>1, <2>2, <3>1 DEF Gathers
  <2> QED BY <1>2, <2>3
<1>4. ASSUME NEW k \in 1..L, k - 1 \in P PROVE k \in P
  <2>1. k - 1 \in 0..L /\ r[k-1] \in ChunkState /\ k \in Nat
    BY <1>1, <1>2
  <2>2. upTo(k) = upTo(k - 1) \cup {b[k]}
    <3>1. 1..k = 1..(k-1) \cup {k}
      BY <2>1
    <3> QED BY <3>1
  <2>3. b[k] \notin upTo(k - 1)
    <3>1. \A j \in 1..(k-1) : j \in 1..L /\ j < k
      BY <1>2
    <3>2. \A j \in 1..(k-1) : b[j] < b[k] /\ b[j] \in Nat /\ b[k] \in Nat
      BY <1>2, <3>1
    <3>3. \A j \in 1..(k-1) : b[j] # b[k]
      BY <3>2
    <3> QED BY <3>3
  <2>4. Gathers(r[k-1], upTo(k - 1))
    BY <1>4
  <2> HIDE DEF upTo
  <2>5. Gathers(Piece(m, r[k-1], b[k]), upTo(k - 1) \cup {b[k]})
    <3>1. b[k] \in Nat
      BY <1>2
    <3>2. \A S : (Gathers(r[k-1], S) /\ b[k] \notin S) => Gathers(Piece(m, r[k-1], b[k]), S \cup {b[k]})
      BY <2>1, <3>1, PieceParts
    <3> QED BY <2>3, <2>4, <3>2
  <2>6. k \in 0..L /\ r[k] = Piece(m, r[k-1], b[k])
    BY <1>1, <1>2
  <2> QED BY <2>2, <2>5, <2>6
<1>5. \A k \in 0..L : k \in P
  <2> HIDE DEF P
  <2> QED BY <1>2, <1>3, <1>4, Induct
<1>6. L \in 0..L
  BY <1>2
<1>7. Gathers(Pieces(m), upTo(L)) /\ Pieces(m) \in ChunkState
  BY <1>1, <1>5, <1>6
<1>8. upTo(L) = BodySet(m)
  BY <1>2
<1> HIDE DEF upTo
<1>9. /\ Flush(Pieces(m)) \in ChunkState /\ Flush(Pieces(m)).buf = <<>>
      /\ Gathers(Flush(Pieces(m)), BodySet(m))
  BY <1>7, <1>8, FlushParts
<1>10. BodySet(m) \ Range(<<>>) = BodySet(m)
  BY DEF Range
<1> QED BY <1>9, <1>10 DEF _merge_to_target, Gathers, ChunkState

\* The last chunk of two sequences, one behind the other.
LEMMA ConcatHas ==
  ASSUME NEW a \in Seq(Chunk), NEW b \in Seq(Chunk)
  PROVE  /\ a \o b \in Seq(Chunk) /\ Len(a \o b) = Len(a) + Len(b) /\ Len(a) \in Nat /\ Len(b) \in Nat
         /\ \A k \in 1..Len(b) : Len(a) + k \in 1..Len(a \o b) /\ (a \o b)[Len(a) + k] = b[k]
<1>1. a \o b \in Seq(Chunk) /\ Len(a \o b) = Len(a) + Len(b) /\ Len(a) \in Nat /\ Len(b) \in Nat
  BY ConcatProperties
<1>2. \A k \in 1..(Len(a) + Len(b)) : (a \o b)[k] = IF k <= Len(a) THEN a[k] ELSE b[k - Len(a)]
  BY ONLY ConcatProperties, a \in Seq(Chunk), b \in Seq(Chunk), Zenon
<1>3. \A k \in 1..Len(b) : Len(a) + k \in 1..(Len(a) + Len(b)) /\ ~(Len(a) + k <= Len(a))
        /\ (Len(a) + k) - Len(a) = k
  BY <1>1
<1>4. ASSUME NEW k \in 1..Len(b) PROVE (a \o b)[Len(a) + k] = b[k]
  BY <1>2, <1>3
<1> QED BY <1>1, <1>3, <1>4

\* What is selected is not too much, all if that is not too much, and not without a block of
\* code if there is one.
LEMMA SelectedIs ==
  ASSUME NEW m, NEW heads \in Seq(Chunk), NEW pool \in Seq(Chunk)
  PROVE  LET s == Selected(m, heads, pool) IN
         /\ s \in Seq(Chunk) /\ Len(s) <= MaxChunks /\ (Len(heads) + Len(pool) > 0 => Len(s) > 0)
         /\ Len(heads) + Len(pool) <= MaxChunks => s = heads \o pool
         /\ (\E k \in 1..Len(pool) : HasFence(m, pool[k])) => \E k \in 1..Len(s) : HasFence(m, s[k])
<1> DEFINE M == MaxChunks
           H == Len(heads)
           L == Len(pool)
           kept == SubSeq(heads, 1, AtMost(H, M))
           rest == M - Len(kept)
           fenced == {n \in DOMAIN pool : HasFence(m, pool[n])}
           fences == Those(pool, fenced)
           at == {n \in DOMAIN pool : \E i \in 0..(rest - 1) : n = Spaced(i, L, rest)}
           picks == Those(pool, at)
           spaced == kept \o picks
           s == Selected(m, heads, pool)
           Good(q) == /\ q \in Seq(Chunk) /\ Len(q) \in 1..M
                      /\ fenced # {} => \E k \in 1..Len(q) : HasFence(m, q[k])
<1>1. M \in Nat \ {0} /\ H \in Nat /\ L \in Nat /\ DOMAIN pool = 1..L
  <2>1. MaxChunks \in Nat \ {0}
    BY ONLY ReadingAssumption
  <2>2. Len(heads) \in Nat /\ Len(pool) \in Nat /\ DOMAIN pool = 1..Len(pool)
    BY ONLY heads \in Seq(Chunk), pool \in Seq(Chunk)
  <2> QED BY <2>1, <2>2
<1>2. /\ kept \in Seq(Chunk) /\ Len(kept) \in Nat /\ rest \in Nat
      /\ Len(kept) = AtMost(H, M) /\ Len(kept) + rest = M
  <2>1. AtMost(H, M) \in 0..H /\ AtMost(H, M) <= M
    BY <1>1 DEF AtMost
  <2>2. kept \in Seq(Chunk) /\ Len(kept) = AtMost(H, M)
    BY <2>1
  <2> HIDE DEF kept
  <2> QED BY <1>1, <2>1, <2>2
<1>3. /\ fences \in Seq(Chunk) /\ Len(fences) = Cardinality(fenced) /\ Cardinality(fenced) \in Nat
      /\ (fences = <<>> <=> fenced = {})
      /\ fenced # {} => fences[1] \in Chunk /\ HasFence(m, fences[1])
  <2>1. fenced \in SUBSET (DOMAIN pool)
    OBVIOUS
  <2>2. /\ fences \in Seq(Chunk) /\ Len(fences) = Cardinality(fenced) /\ Cardinality(fenced) \in Nat
        /\ \A n \in 1..Cardinality(fenced) : \E k \in fenced : fences[n] = pool[k]
        /\ \A k \in fenced : \E n \in 1..Cardinality(fenced) : fences[n] = pool[k]
    <3> HIDE DEF fenced
    <3> QED BY <2>1, ThoseAre
  <2>3. \A k \in fenced : HasFence(m, pool[k]) /\ pool[k] \in Chunk
    BY <1>1
  <2> HIDE DEF fenced, fences
  <2>4. fenced # {} => Cardinality(fenced) >= 1
    BY <2>2
  <2>5. ASSUME fenced # {} PROVE fences[1] \in Chunk /\ HasFence(m, fences[1]) /\ fences # <<>>
    <3>1. 1 \in 1..Cardinality(fenced)
      BY <2>2, <2>4, <2>5
    <3>2. PICK k \in fenced : fences[1] = pool[k]
      BY <2>2, <3>1
    <3>3. fences # <<>>
      BY <2>2, <3>1
    <3> QED BY <2>3, <3>2, <3>3
  <2>6. fenced = {} => fences = <<>>
    <3>1. Cardinality({}) = 0
      BY FS_EmptySet
    <3> QED BY <2>2, <3>1
  <2> QED BY <2>2, <2>5, <2>6
<1>4. /\ picks \in Seq(Chunk) /\ Len(picks) = Cardinality(at) /\ Cardinality(at) \in Nat /\ IsFiniteSet(at)
  <2>1. at \in SUBSET (DOMAIN pool)
    OBVIOUS
  <2> HIDE DEF at
  <2> QED BY <2>1, ThoseAre
<1>5. Cardinality(at) <= rest
  <2> DEFINE f == [n \in at |-> CHOOSE i \in 0..(rest - 1) : n = Spaced(i, L, rest)]
  <2>1. \A n \in at : f[n] \in 0..(rest - 1) /\ n = Spaced(f[n], L, rest)
    OBVIOUS
  <2> HIDE DEF at
  <2>2. f \in [at -> 0..(rest - 1)]
    BY <2>1
  <2> HIDE DEF f
  <2>3. \A n, k \in at : n # k => f[n] # f[k]
    BY <2>1
  <2>4. f \in Injection(at, 0..(rest - 1))
    BY <2>2, <2>3 DEF Injection, IsInjective
  <2>5. IsFiniteSet(0..(rest - 1)) /\ Cardinality(0..(rest - 1)) = rest
    <3>1. 0 \in Int /\ rest - 1 \in Int /\ (rest - 1) - 0 + 1 = rest /\ (rest = 0 => 0 > rest - 1)
      BY <1>2
    <3>2. IsFiniteSet(0..(rest - 1)) /\ Cardinality(0..(rest - 1))
            = IF 0 > rest - 1 THEN 0 ELSE (rest - 1) - 0 + 1
      BY <3>1, FS_Interval
    <3> HIDE DEF rest
    <3> QED BY <1>2, <3>1, <3>2
  <2>6. Cardinality(at) <= Cardinality(0..(rest - 1))
    BY <2>4, <2>5, FS_Injection
  <2> QED BY <2>5, <2>6
<1> HIDE DEF kept, fenced, fences, picks
<1>6. CASE H + L <= M
  <2>1. s = heads \o pool
    BY <1>6 DEF Selected
  <2>2. /\ heads \o pool \in Seq(Chunk) /\ Len(heads \o pool) = H + L
        /\ \A k \in 1..L : H + k \in 1..(H + L) /\ (heads \o pool)[H + k] = pool[k]
    BY ConcatHas
  <2> QED BY <1>1, <1>6, <2>1, <2>2
<1> SUFFICES ASSUME ~(H + L <= M) PROVE Good(s)
  <2> HIDE DEF s
  <2>1. (\E k \in 1..Len(pool) : HasFence(m, pool[k])) => fenced # {}
    BY <1>1 DEF fenced
  <2>2. Good(s) => s \in Seq(Chunk) /\ Len(s) <= M /\ Len(s) > 0
    BY <1>1
  <2> QED BY <1>6, <2>1, <2>2 DEF s
<1>7. s = IF rest = 0
          THEN IF fences = <<>> THEN kept ELSE SubSeq(kept, 1, M - 1) \o <<fences[1]>>
          ELSE IF L <= rest THEN kept \o pool
          ELSE IF rest = 1 THEN Append(kept, IF fences # <<>> THEN fences[1] ELSE pool[1])
          ELSE IF fences # <<>> /\ ~\E n \in DOMAIN spaced : HasFence(m, spaced[n])
               THEN [spaced EXCEPT ![Len(spaced)] = fences[1]] ELSE spaced
  BY DEF Selected, kept, fences, picks, fenced
<1> HIDE DEF s, rest, at, spaced
<1>8. CASE rest = 0 /\ fences = <<>>
  BY <1>1, <1>2, <1>3, <1>7, <1>8
<1>9. CASE rest = 0 /\ fences # <<>>
  <2> DEFINE a == SubSeq(kept, 1, M - 1)
  <2>1. a \in Seq(Chunk) /\ Len(a) = M - 1
    BY <1>1, <1>2, <1>9
  <2>2. <<fences[1]>> \in Seq(Chunk) /\ Len(<<fences[1]>>) = 1 /\ <<fences[1]>>[1] = fences[1]
    BY <1>3, <1>9
  <2> HIDE DEF a
  <2>3. /\ a \o <<fences[1]>> \in Seq(Chunk) /\ Len(a \o <<fences[1]>>) = M
        /\ M \in 1..M /\ (a \o <<fences[1]>>)[M] = fences[1]
    <3>1. 1 \in 1..1 /\ (M - 1) + 1 = M /\ M \in 1..M
      BY <1>1
    <3> QED BY <2>1, <2>2, <3>1, ConcatHas
  <2>4. s = a \o <<fences[1]>>
    BY <1>7, <1>9 DEF a
  <2> QED BY <1>3, <1>9, <2>3, <2>4
<1>10. CASE rest # 0 /\ L <= rest
  <2>1. /\ kept \o pool \in Seq(Chunk) /\ Len(kept \o pool) = Len(kept) + L
        /\ \A k \in 1..L : Len(kept) + k \in 1..Len(kept \o pool) /\ (kept \o pool)[Len(kept) + k] = pool[k]
    BY <1>2, ConcatHas
  <2>2. s = kept \o pool
    BY <1>7, <1>10
  <2>3. Len(kept) + L \in 1..M
    BY <1>1, <1>2, <1>10 DEF AtMost
  <2>4. fenced # {} => \E k \in 1..L : HasFence(m, pool[k])
    BY <1>1 DEF fenced
  <2> QED BY <2>1, <2>2, <2>3, <2>4
<1>11. CASE rest = 1 /\ ~(L <= rest)
  <2> DEFINE x == IF fences # <<>> THEN fences[1] ELSE pool[1]
  <2>1. x \in Chunk /\ (fenced # {} => HasFence(m, x))
    BY <1>1, <1>3, <1>11
  <2>2. s = Append(kept, x)
    BY <1>7, <1>11
  <2> HIDE DEF x
  <2>3. /\ Append(kept, x) \in Seq(Chunk) /\ Len(Append(kept, x)) = Len(kept) + 1
        /\ Append(kept, x)[Len(kept) + 1] = x
    BY <1>2, <2>1
  <2>4. Len(kept) + 1 = M /\ M \in 1..M
    BY <1>1, <1>2, <1>11
  <2> QED BY <2>1, <2>2, <2>3, <2>4
<1>12. CASE rest # 0 /\ rest # 1 /\ ~(L <= rest)
  <2>1. rest >= 2 /\ L >= 1
    BY <1>1, <1>2, <1>12
  <2>2. Spaced(0, L, rest) = 1
    <3> DEFINE den == rest - 1
    <3>1. den \in Nat /\ den > 0 /\ 0 * (L - 1) = 0
      BY <1>1, <1>2, <2>1
    <3> HIDE DEF den
    <3>2. 0 \div den = 0 /\ 0 % den = 0
      BY <3>1
    <3>3. ~(2 * 0 > den) /\ 2 * 0 # den
      BY <3>1
    <3> QED BY <3>1, <3>2, <3>3 DEF Spaced, den
  <2>3. at # {}
    <3>1. 1 \in DOMAIN pool /\ 0 \in 0..(rest - 1)
      BY <1>1, <1>2, <2>1
    <3> QED BY <2>2, <3>1 DEF at
  <2>4. Cardinality(at) >= 1
    <3>1. Cardinality(at) # 0
      BY <1>4, <2>3, FS_EmptySet
    <3> QED BY <1>4, <3>1
  <2>5. spaced \in Seq(Chunk) /\ Len(spaced) = Len(kept) + Len(picks)
    BY <1>2, <1>4, ConcatProperties DEF spaced
  <2>6. Len(spaced) \in 1..M /\ Len(spaced) \in 1..Len(spaced) /\ DOMAIN spaced = 1..Len(spaced)
    <3>1. Len(spaced) \in Nat /\ Len(spaced) >= 1 /\ Len(spaced) <= M
      BY <1>1, <1>2, <1>4, <1>5, <2>4, <2>5
    <3> QED BY <1>1, <2>5, <3>1
  <2>7. CASE fences # <<>> /\ ~\E n \in DOMAIN spaced : HasFence(m, spaced[n])
    <3> DEFINE q == [spaced EXCEPT ![Len(spaced)] = fences[1]]
    <3>1. s = q
      BY <1>7, <1>12, <2>7
    <3>2. q \in Seq(Chunk) /\ Len(q) = Len(spaced) /\ q[Len(spaced)] = fences[1]
      BY <1>3, <2>5, <2>6, <2>7
    <3> HIDE DEF q
    <3> QED BY <1>3, <2>6, <2>7, <3>1, <3>2
  <2>8. CASE ~(fences # <<>> /\ ~\E n \in DOMAIN spaced : HasFence(m, spaced[n]))
    <3>1. s = spaced
      BY <1>7, <1>12, <2>8
    <3> QED BY <1>3, <2>5, <2>6, <2>8, <3>1
  <2> QED BY <2>7, <2>8
<1> QED BY <1>8, <1>9, <1>10, <1>11, <1>12

\* A heading is a chunk.
LEMMA HeadChunks ==
  ASSUME NEW m \in Seq(Lines), NEW heads, heads = Heads(m)
  PROVE  LET h == [k \in DOMAIN heads |-> <<heads[k]>>] IN
         h \in Seq(Chunk) /\ Len(h) = Len(heads) /\ Parted(h, HeadSet(m))
<1> DEFINE h == [k \in DOMAIN heads |-> <<heads[k]>>]
           L == Len(heads)
<1>1. /\ heads \in Seq(Nat) /\ L \in Nat /\ DOMAIN heads = 1..L /\ \A n \in 1..L : heads[n] \in HeadSet(m)
      /\ \A i \in HeadSet(m) : \E n \in 1..L : heads[n] = i
      /\ \A n, j \in 1..L : n < j => heads[n] < heads[j]
  BY BodyIs
<1>2. \A k \in 1..L : heads[k] \in Nat /\ <<heads[k]>> \in Chunk
  BY <1>1 DEF Chunk
<1>3. h \in [1..L -> Chunk]
  BY <1>1, <1>2
<1>4. h \in Seq(Chunk) /\ Len(h) = L /\ \A k \in 1..L : h[k] = <<heads[k]>>
  BY <1>1, <1>3
<1> HIDE DEF h, L
<1>5. \A k \in 1..L : Range(h[k]) = {heads[k]}
  BY <1>4 DEF Range
<1>6. \A k, j \in 1..L : k # j => heads[k] # heads[j]
  <2> SUFFICES ASSUME NEW k \in 1..L, NEW j \in 1..L, k # j PROVE heads[k] # heads[j]
    OBVIOUS
  <2>1. k < j \/ j < k
    BY <1>1
  <2> QED BY <1>1, <1>2, <2>1
<1>7. Parted(h, HeadSet(m))
  BY <1>1, <1>4, <1>5, <1>6 DEF Parted
<1> QED BY <1>4, <1>7 DEF h, L

\* How a message is cut.
LEMMA ChunksHold ==
  ASSUME NEW m \in Seq(Lines)
  PROVE  LET chunks == chunk_text(m)
             words == {n \in DOMAIN m : m[n].is # "blank"}
         IN /\ chunks \in Seq(Chunk) /\ Len(chunks) \in 1..MaxChunks
            /\ Len(Heads(m)) + Len(_merge_to_target(m)) <= MaxChunks => \A n \in words :
                 Cardinality({k \in DOMAIN chunks : n \in Range(chunks[k])}) = 1
            /\ (\E n \in words : m[n].fenced) => \E k \in DOMAIN chunks : HasFence(m, chunks[k])
<1> DEFINE chunks == chunk_text(m)
           words == {n \in DOMAIN m : m[n].is # "blank"}
           heads == Heads(m)
           pool == _merge_to_target(m)
           h == [k \in DOMAIN heads |-> <<heads[k]>>]
           s == Selected(m, h, pool)
<1>1. h \in Seq(Chunk) /\ Len(h) = Len(heads) /\ Parted(h, HeadSet(m))
  BY HeadChunks
<1>2. pool \in Seq(Chunk) /\ Parted(pool, BodySet(m))
  BY MergedParts
<1>3. chunks = IF s = <<>> THEN << <<>> >> ELSE s
  BY DEF chunk_text
<1>4. words = HeadSet(m) \cup BodySet(m) /\ HeadSet(m) \cap BodySet(m) = {}
  <2>1. \A n \in DOMAIN m : IsHeading(m[n]) => m[n].is # "blank"
    BY DEF IsHeading
  <2>2. ASSUME NEW n
        PROVE  /\ n \in words <=> n \in HeadSet(m) \cup BodySet(m)
               /\ ~(n \in HeadSet(m) /\ n \in BodySet(m))
    <3>1. n \in words <=> n \in DOMAIN m /\ m[n].is # "blank"
      OBVIOUS
    <3>2. n \in HeadSet(m) <=> n \in DOMAIN m /\ IsHeading(m[n]) /\ ~m[n].fenced
      BY DEF HeadSet
    <3>3. n \in BodySet(m) <=> n \in DOMAIN m /\ m[n].is # "blank" /\ (m[n].fenced \/ ~IsHeading(m[n]))
      BY DEF BodySet
    <3> HIDE DEF words
    <3> QED BY <2>1, <3>1, <3>2, <3>3, Zenon
  <2> HIDE DEF words
  <2>3. \A n : n \in words <=> n \in HeadSet(m) \cup BodySet(m)
    BY <2>2, Zenon
  <2>4. words = HeadSet(m) \cup BodySet(m)
    BY ONLY <2>3
  <2>5. \A n : n \notin HeadSet(m) \cap BodySet(m)
    BY <2>2, Zenon
  <2>6. HeadSet(m) \cap BodySet(m) = {}
    BY ONLY <2>5
  <2> QED BY ONLY <2>4, <2>6, Zenon
<1>5. MaxChunks \in Nat \ {0}
  BY ONLY ReadingAssumption
<1> HIDE DEF h, pool, heads
<1>6. /\ s \in Seq(Chunk) /\ Len(s) <= MaxChunks /\ (Len(h) + Len(pool) > 0 => Len(s) > 0)
      /\ Len(h) + Len(pool) <= MaxChunks => s = h \o pool
      /\ (\E k \in 1..Len(pool) : HasFence(m, pool[k])) => \E k \in 1..Len(s) : HasFence(m, s[k])
  BY <1>1, <1>2, SelectedIs
<1>7. Len(h) \in Nat /\ Len(pool) \in Nat /\ Len(s) \in Nat /\ DOMAIN s = 1..Len(s)
  BY <1>1, <1>2, <1>6
<1>8. /\ h \o pool \in Seq(Chunk) /\ Len(h \o pool) = Len(h) + Len(pool) /\ Parted(h \o pool, words)
  <2> HIDE DEF words, s
  <2>1. h \o pool \in Seq(Chunk) /\ Len(h \o pool) = Len(h) + Len(pool)
          /\ Parted(h \o pool, HeadSet(m) \cup BodySet(m))
    BY ONLY <1>1, <1>2, <1>4, PartedConcat
  <2> QED BY ONLY <1>4, <2>1
<1>9. ASSUME NEW n \in words, m[n].fenced PROVE \E k \in 1..Len(pool) : HasFence(m, pool[k])
  <2>1. n \in BodySet(m)
    BY <1>9 DEF BodySet
  <2>2. PICK k \in 1..Len(pool) : n \in Range(pool[k])
    BY <1>2, <2>1 DEF Parted
  <2>3. HasFence(m, pool[k])
    BY <1>9, <2>2 DEF HasFence, Range
  <2> QED BY <2>3
<1> HIDE DEF s, chunks, words
<1>10. CASE s = <<>>
  <2>1. Len(s) = 0 /\ Len(h) = 0 /\ Len(pool) = 0
    BY <1>6, <1>7, <1>10
  <2>2. words = {}
    BY <1>7, <1>8, <2>1 DEF Parted
  <2>3. chunks = << <<>> >> /\ <<>> \in Chunk
    BY <1>3, <1>10 DEF Chunk
  <2>4. chunks \in Seq(Chunk) /\ Len(chunks) = 1 /\ 1 \in 1..MaxChunks
    BY <1>5, <2>3
  <2> QED BY <2>2, <2>4 DEF chunks, words
<1>11. CASE s # <<>>
  <2>1. chunks = s
    BY <1>3, <1>11
  <2>2. Len(s) \in 1..MaxChunks
    <3>1. Len(s) # 0
      BY <1>6, <1>11
    <3>2. Len(s) <= MaxChunks /\ Len(s) \in Nat
      BY <1>6, <1>7
    <3> QED BY ONLY <1>5, <3>1, <3>2
  <2>3. ASSUME Len(h) + Len(pool) <= MaxChunks, NEW n \in words
        PROVE  Cardinality({k \in DOMAIN s : n \in Range(s[k])}) = 1
    <3>1. Parted(s, words)
      BY <1>6, <1>8, <2>3
    <3>2. PICK k \in 1..Len(s) : n \in Range(s[k])
      BY <2>3, <3>1 DEF Parted
    <3>3. \A j \in 1..Len(s) : n \in Range(s[j]) => j = k
      BY <3>1, <3>2 DEF Parted
    <3>4. {j \in DOMAIN s : n \in Range(s[j])} = {k}
      BY <1>7, <3>2, <3>3
    <3> QED BY <3>4, FS_Singleton
  <2>4. ASSUME NEW n \in words, m[n].fenced PROVE \E k \in DOMAIN s : HasFence(m, s[k])
    BY <1>6, <1>7, <1>9, <2>4
  <2>5. /\ s \in Seq(Chunk) /\ Len(s) \in 1..MaxChunks
        /\ Len(heads) + Len(pool) <= MaxChunks => \A n \in words :
             Cardinality({k \in DOMAIN s : n \in Range(s[k])}) = 1
        /\ (\E n \in words : m[n].fenced) => \E k \in DOMAIN s : HasFence(m, s[k])
    BY <1>1, <1>6, <2>2, <2>3, <2>4
  <2> QED BY <2>1, <2>5 DEF chunks, words, heads, pool
<1> QED BY <1>10, <1>11

-----------------------------------------------------------------------------
(* What stays: the invariant.                                                 *)

TagNames == {"identifier", "link", "path", "decision"}

\* Chunks are numbered up to made, rows are not too many and in order, and in the first process
\* what the graph object has counted is all there was.
MemoryTyped ==
  /\ message \in Seq(Lines) /\ made \in Nat /\ restarts \in Nat
  /\ matrix \in Seq(SUBSET Nat) /\ \A i \in DOMAIN matrix : \A c \in matrix[i] : c <= made
  /\ counts \in [Paths -> Nat] /\ heard \in [Paths -> Nat] /\ plain \in SUBSET Paths
Recalled == restarts = 0 => counts = heard
MemoryInv == MemoryTyped /\ RowsInOrder /\ ShieldedOutlive /\ Recalled

\* What a chunk is shielded for.
LEMMA TagsAre ==
  ASSUME NEW m, NEW chunk
  PROVE  tag_chunk(m, chunk) \in SUBSET TagNames
<1>1. \A S : {"identifier" : x \in S \cap {"link"}} \in SUBSET TagNames
  BY DEF TagNames
<1>2. \A S : S \cap {"path", "decision"} \in SUBSET TagNames
  BY DEF TagNames
<1> QED BY <1>1, <1>2 DEF tag_chunk

\* The rows before they are pooled: those of earlier messages, and a row for each new chunk.
LEMMA RowsBefore ==
  ASSUME MemoryTyped, RowsInOrder, NEW n \in Nat \ {0}, NEW tags \in [1..n -> SUBSET TagNames]
  PROVE  LET new == [k \in 1..n |-> Row({made + k}, tags[k])]
             tagsOf == [c \in made + 1..made + n |-> tags[c - made]]
         IN Earlier \o new \in Pooling(tagsOf) /\ Len(Earlier \o new) = Len(matrix) + n /\ Len(new) = n
<1> DEFINE new == [k \in 1..n |-> Row({made + k}, tags[k])]
           tagsOf == [c \in made + 1..made + n |-> tags[c - made]]
           E == Earlier
           L == Len(matrix)
           rows == E \o new
<1>1. /\ L \in Nat /\ made \in Nat /\ n \in Nat /\ n >= 1 /\ DOMAIN matrix = 1..L
      /\ \A i \in 1..L : matrix[i] \in SUBSET Nat
      /\ \A i \in 1..L : \A c \in matrix[i] : c <= made /\ c \in Nat
  BY DEF MemoryTyped
<1>2. E \in Seq(AnyRow) /\ Len(E) = L /\ \A i \in 1..L : E[i] = Row(matrix[i], {})
  <2>1. \A i \in 1..L : Row(matrix[i], {}) \in AnyRow
    BY <1>1 DEF Row, AnyRow
  <2>2. E = [i \in 1..L |-> Row(matrix[i], {})]
    BY <1>1 DEF Earlier
  <2>3. E \in [1..L -> AnyRow]
    BY <2>1, <2>2
  <2> HIDE DEF E, L
  <2> QED BY <1>1, <2>2, <2>3
<1>3. new \in Seq(AnyRow) /\ Len(new) = n /\ \A k \in 1..n : new[k] = Row({made + k}, tags[k])
  <2>1. \A k \in 1..n : Row({made + k}, tags[k]) \in AnyRow
    <3>1. \A k \in 1..n : {made + k} \in SUBSET Nat /\ tags[k] \in SUBSET TagNames
      BY <1>1
    <3> QED BY <3>1 DEF Row, AnyRow, TagNames
  <2>2. new \in [1..n -> AnyRow]
    BY <2>1
  <2> QED BY <1>1, <2>2
<1>4. /\ DOMAIN tagsOf = made + 1..made + n
      /\ \A k \in 1..n : made + k \in DOMAIN tagsOf /\ tagsOf[made + k] = tags[k]
      /\ \A c \in DOMAIN tagsOf : c - made \in 1..n /\ made + (c - made) = c
  <2>1. \A k \in 1..n : made + k \in made + 1..made + n /\ (made + k) - made = k
    BY <1>1
  <2>2. \A c \in made + 1..made + n : c - made \in 1..n /\ made + (c - made) = c
    BY <1>1
  <2> QED BY <2>1, <2>2
<1> HIDE DEF E, new, tagsOf, L
<1>5. rows \in Listed /\ Len(rows) = L + n
  BY <1>2, <1>3, ConcatProperties DEF Listed
<1>6. \A k \in 1..(Len(E) + Len(new)) : rows[k] = IF k <= Len(E) THEN E[k] ELSE new[k - Len(E)]
  BY ONLY ConcatProperties, <1>2, <1>3, Zenon
<1> HIDE DEF rows
<1>7. ASSUME NEW k \in 1..(L + n)
      PROVE  \/ k \in 1..L /\ k <= L /\ rows[k] = Row(matrix[k], {})
             \/ k > L /\ k - L \in 1..n /\ rows[k] = Row({made + (k - L)}, tags[k - L])
  <2>1. k <= L => k \in 1..L
    BY <1>1
  <2>2. ~(k <= L) => k - L \in 1..n /\ k > L
    BY <1>1
  <2>3. rows[k] = IF k <= L THEN E[k] ELSE new[k - L]
    BY <1>2, <1>3, <1>6
  <2> QED BY <1>2, <1>3, <2>1, <2>2, <2>3
<1>8. ASSUME NEW k \in 1..n PROVE L + k \in 1..(L + n) /\ rows[L + k] = Row({made + k}, tags[k])
  <2>1. L + k \in 1..(L + n) /\ ~(L + k <= L) /\ (L + k) - L = k
    BY <1>1
  <2> QED BY <1>2, <1>3, <1>6, <2>1
<1>9. InOrder(rows)
  <2> SUFFICES ASSUME NEW i \in 1..(L + n), NEW j \in 1..(L + n), i < j, NEW c \in rows[i].of,
                NEW d \in rows[j].of
               PROVE  c < d
    BY <1>5 DEF InOrder
  <2>1. CASE i \in 1..L /\ rows[i] = Row(matrix[i], {}) /\ j \in 1..L /\ rows[j] = Row(matrix[j], {})
    <3>1. c \in matrix[i] /\ d \in matrix[j]
      BY <2>1 DEF Row
    <3> QED BY <1>1, <2>1, <3>1 DEF RowsInOrder
  <2>2. CASE i \in 1..L /\ rows[i] = Row(matrix[i], {}) /\ j - L \in 1..n
          /\ rows[j] = Row({made + (j - L)}, tags[j - L])
    <3>1. c \in matrix[i] /\ d = made + (j - L)
      BY <2>2 DEF Row
    <3>2. c <= made /\ c \in Nat /\ j - L \in Nat /\ j - L >= 1
      BY <1>1, <2>2, <3>1
    <3> QED BY <1>1, <3>1, <3>2
  <2>3. CASE i > L /\ rows[i] = Row({made + (i - L)}, tags[i - L]) /\ j > L
          /\ rows[j] = Row({made + (j - L)}, tags[j - L])
    <3>1. c = made + (i - L) /\ d = made + (j - L)
      BY <2>3 DEF Row
    <3> QED BY <1>1, <3>1
  <2>4. ~(i > L /\ j <= L)
    BY <1>1
  <2> QED BY <1>7, <2>1, <2>2, <2>3, <2>4
<1>10. Within(rows, tagsOf)
  <2> SUFFICES ASSUME NEW i \in 1..(L + n), NEW c \in rows[i].of
               PROVE  c <= made + n
    <3>1. made + n \in DOMAIN tagsOf
      BY <1>1, <1>4
    <3> QED BY <1>5, <3>1 DEF Within
  <2>1. CASE i \in 1..L /\ rows[i] = Row(matrix[i], {})
    <3>1. c \in matrix[i]
      BY <2>1 DEF Row
    <3>2. c <= made /\ c \in Nat
      BY <1>1, <2>1, <3>1
    <3> QED BY <1>1, <3>2
  <2>2. CASE i - L \in 1..n /\ rows[i] = Row({made + (i - L)}, tags[i - L])
    <3>1. c = made + (i - L)
      BY <2>2 DEF Row
    <3> QED BY <1>1, <2>2, <3>1
  <2> QED BY <1>7, <2>1, <2>2
<1>11. Tagged(rows, tagsOf)
  <2> SUFFICES ASSUME NEW i \in 1..(L + n), rows[i].tags # {}
               PROVE  \E d \in DOMAIN tagsOf : rows[i] = Row({d}, tagsOf[d])
    BY <1>5 DEF Tagged
  <2>1. i - L \in 1..n /\ rows[i] = Row({made + (i - L)}, tags[i - L])
    <3>1. rows[i] # Row(matrix[i], {})
      BY DEF Row
    <3> QED BY <1>7, <3>1
  <2> QED BY <1>4, <2>1
<1>12. Shielded(rows, tagsOf)
  <2> SUFFICES ASSUME NEW c \in DOMAIN tagsOf PROVE Alone(rows, c, tagsOf[c])
    BY DEF Shielded
  <2>1. c - made \in 1..n /\ made + (c - made) = c /\ tagsOf[c] = tags[c - made]
    BY <1>4
  <2>2. L + (c - made) \in 1..Len(rows) /\ rows[L + (c - made)] = Row({c}, tagsOf[c])
    BY <1>5, <1>8, <2>1
  <2> QED BY <2>2 DEF Alone
<1> QED BY <1>3, <1>5, <1>9, <1>10, <1>11, <1>12 DEF Pooling, rows, E, new, tagsOf, L

\* What the pooling leaves of a message's rows.
LEMMA CompressKeeps ==
  ASSUME MemoryTyped, RowsInOrder, Compress(message)
  PROVE  /\ made' \in Nat /\ matrix' \in Seq(SUBSET Nat)
         /\ \A i \in DOMAIN matrix' : \A c \in matrix'[i] : c <= made'
         /\ RowsInOrder' /\ ShieldedOutlive'
<1> DEFINE chunks == chunk_text(message)
           n == Len(chunks)
           tags == [k \in DOMAIN chunks |-> tag_chunk(message, chunks[k])]
           new == [k \in DOMAIN chunks |-> Row({made + k}, tags[k])]
           tagsOf == [c \in made + 1..made + n |-> tags[c - made]]
           before == Earlier \o new
           L == Len(matrix)
<1>1. /\ made \in Nat /\ message \in Seq(Lines) /\ L \in Nat /\ L <= KMax /\ KMax \in Nat
  BY MemoryAssumption DEF MemoryTyped, RowsInOrder
<1>2. chunks \in Seq(Chunk) /\ n \in Nat \ {0} /\ DOMAIN chunks = 1..n
  <2>1. chunks \in Seq(Chunk) /\ Len(chunks) \in 1..MaxChunks
    BY <1>1, ChunksHold
  <2>2. MaxChunks \in Nat
    BY ONLY ReadingAssumption
  <2> HIDE DEF chunks
  <2> QED BY ONLY <2>1, <2>2
<1>3. PICK rows \in append_then_pool(new) : matrix' = [i \in DOMAIN rows |-> rows[i].of]
  BY DEF Compress
<1>4. made' = made + n /\ latest' = tagsOf
  BY DEF Compress
<1> HIDE DEF chunks
<1>5. /\ tags \in [1..n -> SUBSET TagNames] /\ new = [k \in 1..n |-> Row({made + k}, tags[k])]
  BY <1>2, TagsAre
<1> HIDE DEF tags
<1>6. before \in Pooling(tagsOf) /\ Len(before) = L + n /\ Len(new) = n
  <2> HIDE DEF n
  <2> QED BY <1>2, <1>5, RowsBefore
<1> HIDE DEF n, new, tagsOf, before, L
<1>7. Over(new) \in 0..(L + n) /\ (L + n) - Over(new) <= KMax /\ (L + n) - Over(new) \in Nat
  <2>1. Over(new) = AtLeast(0, L + n - KMax)
    BY <1>6 DEF Over, L
  <2> QED BY <1>1, <1>2, <2>1 DEF AtLeast
<1>8. rows \in Pooling(tagsOf) /\ Len(rows) = (L + n) - Over(new)
  <2>1. rows \in Pooled(before, Over(new))
    BY <1>3 DEF append_then_pool, before
  <2> QED BY <1>6, <1>7, <2>1, PooledPools
<1>9. rows \in Seq(AnyRow) /\ DOMAIN rows = 1..Len(rows) /\ Len(rows) \in Nat /\ Len(rows) <= KMax
  BY <1>7, <1>8 DEF Pooling, Listed
<1>10. /\ matrix' \in Seq(SUBSET Nat) /\ Len(matrix') = Len(rows) /\ DOMAIN matrix' = 1..Len(rows)
       /\ \A i \in 1..Len(rows) : matrix'[i] = rows[i].of
  <2>1. \A i \in 1..Len(rows) : rows[i].of \in SUBSET Nat
    <3>1. \A i \in 1..Len(rows) : rows[i] \in AnyRow
      BY <1>9
    <3>2. \A row \in AnyRow : row.of \in SUBSET Nat
      BY DEF AnyRow
    <3> QED BY <3>1, <3>2
  <2>2. matrix' \in [1..Len(rows) -> SUBSET Nat]
    BY <1>3, <1>9, <2>1
  <2> QED BY <1>3, <1>9, <2>2
<1>11. RowsInOrder'
  BY <1>8, <1>9, <1>10 DEF RowsInOrder, Pooling, InOrder
<1>12. made' \in Nat
  BY <1>1, <1>2, <1>4
<1>13. ASSUME NEW i \in 1..Len(rows), NEW c \in rows[i].of PROVE c <= made'
  <2>1. PICK d \in DOMAIN tagsOf : c <= d
    BY <1>8 DEF Pooling, Within
  <2>2. d \in made + 1..made + n
    BY <2>1 DEF tagsOf
  <2>3. c \in Nat
    <3>1. rows[i] \in AnyRow
      BY <1>9
    <3> QED BY <3>1 DEF AnyRow
  <2> QED BY <1>1, <1>2, <1>4, <2>1, <2>2, <2>3
<1>14. ShieldedOutlive'
  <2>1. ASSUME NEW c, NEW S PROVE Row(c, S).of = c /\ Row(c, S).tags = S
    BY DEF Row
  <2>2. ASSUME NEW c \in DOMAIN tagsOf, ~\E i \in 1..Len(rows) : matrix'[i] = {c}
        PROVE  ~Alone(rows, c, tagsOf[c])
    BY <1>10, <2>1, <2>2 DEF Alone
  <2>3. ASSUME NEW c \in DOMAIN tagsOf, tagsOf[c] # {}, ~\E i \in 1..Len(rows) : matrix'[i] = {c},
               NEW i \in 1..Len(rows)
        PROVE  \E d \in DOMAIN tagsOf : matrix'[i] = {d} /\ tagsOf[d] # {}
    <3>1. rows[i].tags # {}
      BY <1>8, <2>2, <2>3 DEF Pooling, Shielded
    <3>2. PICK d \in DOMAIN tagsOf : rows[i] = Row({d}, tagsOf[d])
      BY <1>8, <3>1 DEF Pooling, Tagged
    <3> QED BY <1>10, <2>1, <3>1, <3>2
  <2>4. ASSUME NEW c \in DOMAIN tagsOf, "identifier" \in tagsOf[c], ~\E i \in 1..Len(rows) : matrix'[i] = {c},
               NEW i \in 1..Len(rows)
        PROVE  \E d \in DOMAIN tagsOf : matrix'[i] = {d} /\ "identifier" \in tagsOf[d]
    <3>1. "identifier" \in rows[i].tags /\ rows[i].tags # {}
      BY <1>8, <2>2, <2>4 DEF Pooling, Shielded
    <3>2. PICK d \in DOMAIN tagsOf : rows[i] = Row({d}, tagsOf[d])
      BY <1>8, <3>1 DEF Pooling, Tagged
    <3> QED BY <1>10, <2>1, <3>1, <3>2
  <2> QED BY <1>4, <1>10, <2>3, <2>4 DEF ShieldedOutlive
<1> QED BY <1>10, <1>11, <1>12, <1>13, <1>14

\* What is counted.
LEMMA CountedIs ==
  ASSUME NEW m \in Seq(Lines), NEW f \in [Paths -> Nat]
  PROVE  /\ Counted(m, f) \in [Paths -> Nat]
         /\ \A p \in Paths : /\ Counted(m, f)[p] \in Nat /\ f[p] \in Nat /\ Counted(m, f)[p] >= f[p]
                             /\ Mentioned(m, p) = {} => Counted(m, f)[p] = f[p]
<1>1. ASSUME NEW p \in Paths
      PROVE  Cardinality(Mentioned(m, p)) \in Nat /\ (Mentioned(m, p) = {}
               => Cardinality(Mentioned(m, p)) = 0)
  <2>1. IsFiniteSet(DOMAIN m)
    BY LinesAre
  <2>2. Mentioned(m, p) \subseteq DOMAIN m
    BY DEF Mentioned
  <2>3. IsFiniteSet(Mentioned(m, p))
    BY <2>1, <2>2, FS_Subset
  <2> QED BY <2>3, FS_CardinalityType, FS_EmptySet
<1>2. Counted(m, f) = [p \in Paths |-> f[p] + Cardinality(Mentioned(m, p))]
  BY DEF Counted
<1>3. ASSUME NEW p \in Paths
      PROVE  /\ Counted(m, f)[p] \in Nat /\ f[p] \in Nat /\ Counted(m, f)[p] >= f[p]
             /\ Mentioned(m, p) = {} => Counted(m, f)[p] = f[p]
  <2>1. Counted(m, f)[p] = f[p] + Cardinality(Mentioned(m, p)) /\ f[p] \in Nat
    BY <1>2
  <2> QED BY <1>1, <2>1
<1>4. \A p \in Paths : f[p] + Cardinality(Mentioned(m, p)) \in Nat
  BY <1>1
<1>5. Counted(m, f) \in [Paths -> Nat]
  BY <1>2, <1>4
<1> QED BY <1>3, <1>5

LEMMA MemoryFirst == MemoryInit => MemoryInv
<1> SUFFICES ASSUME MemoryInit PROVE MemoryInv
  OBVIOUS
<1>1. <<>> \in Seq(Lines) /\ <<>> \in Seq(SUBSET Nat) /\ DOMAIN <<>> = {} /\ Len(<<>>) = 0
  OBVIOUS
<1>2. [p \in Paths |-> 0] \in [Paths -> Nat] /\ 0 \in Nat
  OBVIOUS
<1>3. MemoryTyped /\ Recalled
  BY <1>1, <1>2 DEF MemoryInit, MemoryTyped, Recalled
<1>4. RowsInOrder /\ ShieldedOutlive
  BY <1>1, MemoryAssumption DEF MemoryInit, RowsInOrder, ShieldedOutlive
<1> QED BY <1>3, <1>4 DEF MemoryInv

LEMMA StepKeeps ==
  ASSUME MemoryInv, Step
  PROVE  MemoryInv'
<1>1. MemoryTyped /\ RowsInOrder /\ Recalled /\ Compress(message)
  BY DEF MemoryInv, Step
<1>2. /\ made' \in Nat /\ matrix' \in Seq(SUBSET Nat)
      /\ \A i \in DOMAIN matrix' : \A c \in matrix'[i] : c <= made'
      /\ RowsInOrder' /\ ShieldedOutlive'
  BY <1>1, CompressKeeps
<1>3. /\ message' = <<>> /\ counts' = Counted(message, counts) /\ heard' = Counted(message, heard)
      /\ plain' = plain \cup {p \in Paths : Outside(message, p) # {}} /\ restarts' = restarts
  BY DEF Step
<1>4. counts' \in [Paths -> Nat] /\ heard' \in [Paths -> Nat]
  BY <1>1, <1>3, CountedIs DEF MemoryTyped
<1>5. message' \in Seq(Lines) /\ restarts' \in Nat /\ plain' \in SUBSET Paths
  BY <1>1, <1>3 DEF MemoryTyped
<1>6. Recalled'
  BY <1>1, <1>3 DEF Recalled
<1> QED BY <1>2, <1>4, <1>5, <1>6 DEF MemoryInv, MemoryTyped

LEMMA MemoryKeeps == MemoryInv /\ [MemoryNext]_memoryVars => MemoryInv'
<1> SUFFICES ASSUME MemoryInv, [MemoryNext]_memoryVars PROVE MemoryInv'
  OBVIOUS
<1>1. CASE Step
  BY <1>1, StepKeeps
<1>2. CASE Restart
  <2>1. [p \in Paths |-> 0] \in [Paths -> Nat]
    OBVIOUS
  <2>2. /\ restarts' = restarts + 1 /\ restarts' \in Nat /\ restarts' # 0
        /\ counts' \in [Paths -> Nat]
    BY <1>2, <2>1 DEF Restart, MemoryInv, MemoryTyped
  <2>3. UNCHANGED <<message, matrix, made, latest, heard, plain>>
    BY <1>2 DEF Restart
  <2>4. MemoryTyped' /\ Recalled'
    BY <2>2, <2>3 DEF MemoryInv, MemoryTyped, Recalled
  <2>5. RowsInOrder' /\ ShieldedOutlive'
    BY <2>3 DEF MemoryInv, RowsInOrder, ShieldedOutlive
  <2> QED BY <2>4, <2>5 DEF MemoryInv
<1>3. ASSUME NEW line \in Lines, Say(line) PROVE MemoryInv'
  <2>1. message' \in Seq(Lines)
    BY <1>3 DEF Say, MemoryInv, MemoryTyped
  <2>2. UNCHANGED <<matrix, counts, made, restarts, latest, heard, plain>>
    BY <1>3 DEF Say
  <2>3. MemoryTyped' /\ Recalled'
    BY <2>1, <2>2 DEF MemoryInv, MemoryTyped, Recalled
  <2>4. RowsInOrder' /\ ShieldedOutlive'
    BY <2>2 DEF MemoryInv, RowsInOrder, ShieldedOutlive
  <2> QED BY <2>3, <2>4 DEF MemoryInv
<1>4. CASE UNCHANGED memoryVars
  <2>1. UNCHANGED <<message, matrix, counts, made, restarts, latest, heard, plain>>
    BY <1>4 DEF memoryVars
  <2>2. MemoryTyped' /\ Recalled'
    BY <2>1 DEF MemoryInv, MemoryTyped, Recalled
  <2>3. RowsInOrder' /\ ShieldedOutlive'
    BY <2>1 DEF MemoryInv, RowsInOrder, ShieldedOutlive
  <2> QED BY <2>2, <2>3 DEF MemoryInv
<1> QED BY <1>1, <1>2, <1>3, <1>4 DEF MemoryNext

\* The invariant of the memory, over append_then_pool and the counts of the graph object: chunks
\* are numbered and rows in order, shields hold, and without a restart no count is lost.
THEOREM MemoryInvHolds == MemorySpec => []MemoryInv
<1>1. MemoryInit => MemoryInv
  BY MemoryFirst
<1>2. MemoryInv /\ [MemoryNext]_memoryVars => MemoryInv'
  BY MemoryKeeps
<1> QED BY <1>1, <1>2, PTL DEF MemorySpec

\* For any KMax, messages and chunks, append_then_pool leaves no more rows than it may, and
\* earlier chunks in earlier rows, whichever neighbours are merged.
THEOREM RowsStayInOrder == MemorySpec => []RowsInOrder
<1>1. MemoryInv => RowsInOrder
  BY DEF MemoryInv
<1> QED BY <1>1, MemoryInvHolds, PTL

\* However many rows are pooled away, a shielded chunk of the last message has its own row while
\* a row without a shield is left, and one with an identifier outlives the other shields.
THEOREM ShieldsHold == MemorySpec => []ShieldedOutlive
<1>1. MemoryInv => ShieldedOutlive
  BY DEF MemoryInv
<1> QED BY <1>1, MemoryInvHolds, PTL

\* chunk_text cuts a message of any length and lines into so many chunks at most, loses no line
\* unless there are too many, and keeps a block of code if there is one.
THEOREM ChunksCoverAlways == MemorySpec => []ChunksCover
<1>1. MemoryInv => ChunksCover
  <2> SUFFICES ASSUME MemoryInv PROVE ChunksCover
    OBVIOUS
  <2>1. message \in Seq(Lines)
    BY DEF MemoryInv, MemoryTyped
  <2> QED BY <2>1, ChunksHold DEF ChunksCover
<1> QED BY <1>1, MemoryInvHolds, PTL

\* In a message of any length the scans of _deferred_section_items and _design_facts find what
\* the structure of its headings and blank lines says.
THEOREM ScansFindAll == MemorySpec => []ScansAsStructured
<1>1. MemoryInv => ScansAsStructured
  <2> SUFFICES ASSUME MemoryInv PROVE ScansAsStructured
    OBVIOUS
  <2> DEFINE m == message
  <2>1. m \in Seq(Lines)
    BY DEF MemoryInv, MemoryTyped
  <2>2. _deferred_section_items(m) = Ascending({n \in DOMAIN m : PutOff(m, n)})
    BY <2>1, DeferredFound
  <2>3. _design_facts(m) = Firsts(Of(m, Ascending({n \in DOMAIN m : Designed(m, n)})), MaxDesigns)
    BY <2>1, DesignFound DEF _design_facts
  <2> QED BY <2>2, <2>3 DEF ScansAsStructured, Where, PutOff, Under, Designed, Near
<1> QED BY <1>1, MemoryInvHolds, PTL

-----------------------------------------------------------------------------
(* Paths.                                                                     *)

\* The paths a message names.
Named(m) == {p \in Paths : Mentioned(m, p) # {}}
ToldPaths(m, now) == {p \in Paths : Outside(m, p) # {} \/ (Mentioned(m, p) # {} /\ now[p] >= 2)}

\* Of a finite set, each has its place by rank, and the number breaks a tie.
LEMMA RankedAll ==
  ASSUME NEW S, IsFiniteSet(S), NEW rank \in [S -> Nat], S \subseteq Nat
  PROVE  LET order == [n \in 1..Cardinality(S) |-> CHOOSE i \in S :
                         Cardinality({j \in S : rank[j] > rank[i] \/ (rank[j] = rank[i] /\ j < i)}) = n - 1]
         IN order \in Surjection(1..Cardinality(S), S)
<1> DEFINE before == [i \in S |-> {j \in S : rank[j] > rank[i] \/ (rank[j] = rank[i] /\ j < i)}]
           c == Cardinality(S)
           order == [n \in 1..c |-> CHOOSE i \in S :
                       Cardinality({j \in S : rank[j] > rank[i] \/ (rank[j] = rank[i] /\ j < i)}) = n - 1]
<1>1. c \in Nat
  BY FS_CardinalityType
<1>2. before \in [S -> SUBSET S] /\ \A i, j \in S : j \in before[i]
        <=> rank[j] > rank[i] \/ (rank[j] = rank[i] /\ j < i)
  OBVIOUS
<1>3. \A n \in 1..c : \E i \in S : Cardinality(before[i]) = n - 1
  <2> HIDE DEF before
  <2>1. \A i \in S : rank[i] \in Nat /\ i \in Nat
    OBVIOUS
  <2>2. \A i \in S : i \notin before[i]
    BY <1>2, <2>1
  <2>3. \A i, j \in S : i # j => (j \in before[i] \/ i \in before[j])
    BY <1>2, <2>1
  <2>4. \A i, j \in S : j \in before[i] => before[j] \subseteq before[i]
    <3> SUFFICES ASSUME NEW i \in S, NEW j \in S, j \in before[i], NEW k \in before[j] PROVE k \in before[i]
      OBVIOUS
    <3>1. k \in S
      BY <1>2
    <3> QED BY <1>2, <2>1, <3>1
  <2>5. before \in [S -> SUBSET S]
    BY <1>2
  <2> QED BY ONLY <2>2, <2>3, <2>4, <2>5, RanksExist, IsFiniteSet(S)
<1>4. \A n \in 1..c : \E i \in S :
        Cardinality({j \in S : rank[j] > rank[i] \/ (rank[j] = rank[i] /\ j < i)}) = n - 1
  BY <1>3
<1>5. \A n \in 1..c : order[n] \in S /\ Cardinality(before[order[n]]) = n - 1
  <2>1. \A n \in 1..c : order[n] \in S
        /\ Cardinality({j \in S : rank[j] > rank[order[n]] \/ (rank[j] = rank[order[n]]
              /\ j < order[n])}) = n - 1
    BY <1>4
  <2> HIDE DEF order
  <2> QED BY <2>1
<1>6. order \in [1..c -> S]
  BY <1>4
<1> HIDE DEF order, before
<1>7. \A n, k \in 1..c : n # k => order[n] # order[k]
  <2>1. \A n, k \in 1..c : n - 1 = k - 1 => n = k
    OBVIOUS
  <2> HIDE DEF c
  <2> QED BY ONLY <1>5, <2>1
<1>8. IsFiniteSet(1..c) /\ Cardinality(1..c) = c
  <2>1. 1 \in Int /\ c \in Int
    BY <1>1
  <2> QED BY <1>1, <2>1, FS_Interval
<1>9. order \in Injection(1..c, S)
  BY ONLY <1>6, <1>7 DEF Injection, IsInjective
<1> QED BY <1>8, <1>9, FS_Injection DEF order

\* What is told is all kept if it is not more than the cap.
LEMMA AllKept ==
  ASSUME NEW S, IsFiniteSet(S), NEW order \in Surjection(1..Cardinality(S), S), NEW cap \in Nat,
         Cardinality(S) <= cap
  PROVE  Range(SubSeq(order, 1, AtMost(cap, Len(order)))) = S
<1> DEFINE c == Cardinality(S)
<1>1. c \in Nat /\ order \in [1..c -> S]
  BY FS_CardinalityType DEF Surjection
<1> HIDE DEF c
<1>2. order \in Seq(S) /\ Len(order) = c /\ DOMAIN order = 1..c
  BY ONLY <1>1
<1>3. SubSeq(order, 1, AtMost(cap, Len(order))) = order
  <2>1. AtMost(cap, Len(order)) = c
    BY <1>1, <1>2 DEF AtMost, c
  <2>2. SubSeq(order, 1, c) = order
    BY ONLY <1>1, <1>2
  <2> QED BY <2>1, <2>2
<1>4. Range(order) = S
  <2>1. \A i \in S : \E n \in 1..c : order[n] = i
    BY DEF Surjection, c
  <2>2. \A n \in 1..c : order[n] \in S
    BY <1>1
  <2>3. Range(order) = {order[n] : n \in 1..c}
    BY <1>2 DEF Range
  <2> QED BY ONLY <2>1, <2>2, <2>3
<1> QED BY <1>3, <1>4

\* A message names finitely many paths.
LEMMA NamedFinite ==
  ASSUME NEW m \in Seq(Lines)
  PROVE  IsFiniteSet(Named(m))
<1> DEFINE f == [p \in Named(m) |-> CHOOSE n \in DOMAIN m : n \in Mentioned(m, p)]
<1>1. ASSUME NEW p \in Named(m) PROVE f[p] \in DOMAIN m /\ m[f[p]].of = p
  <2>1. \E n \in DOMAIN m : n \in Mentioned(m, p)
    BY DEF Named, Mentioned
  <2>2. f[p] \in DOMAIN m /\ f[p] \in Mentioned(m, p)
    BY <2>1
  <2> QED BY <2>2 DEF Mentioned
<1>2. f \in [Named(m) -> DOMAIN m]
  BY <1>1
<1> HIDE DEF f
<1>3. f \in Injection(Named(m), DOMAIN m)
  BY <1>1, <1>2 DEF Injection, IsInjective
<1>4. IsFiniteSet(DOMAIN m)
  BY LinesAre
<1> QED BY <1>3, <1>4, FS_Injection

\* Unless the message names more paths than a turn may keep, all that is told is kept.
LEMMA PathFactsAre ==
  ASSUME NEW m \in Seq(Lines), NEW f \in [Paths -> Nat], Cardinality(Named(m)) <= PathCap
  PROVE  _path_facts(m, f) = ToldPaths(m, Counted(m, f))
<1> DEFINE now == Counted(m, f)
           told == {p \in DOMAIN f : Outside(m, p) # {} \/ (Mentioned(m, p) # {} /\ now[p] >= 2)}
           Weight(p) == 2 * AtMost(now[p], 3) + IF Outside(m, p) # {} THEN 3 ELSE 0
           rank == [p \in told |-> Weight(p)]
           c == Cardinality(told)
           order == Ranked(told, LAMBDA p, q : \/ Weight(p) > Weight(q)
                                               \/ Weight(p) = Weight(q) /\ p < q)
           ranked == [n \in 1..c |-> CHOOSE i \in told :
                       Cardinality({j \in told : rank[j] > rank[i] \/ (rank[j] = rank[i] /\ j < i)}) = n - 1]
<1>1. _path_facts(m, f) = Range(SubSeq(order, 1, AtMost(PathCap, Len(order))))
  BY DEF _path_facts
<1>2. told = ToldPaths(m, now) /\ told \subseteq Named(m) /\ told \subseteq Paths
  <2>1. DOMAIN f = Paths
    OBVIOUS
  <2>2. \A p : Outside(m, p) # {} => Mentioned(m, p) # {}
    BY DEF Outside
  <2> HIDE DEF now
  <2> QED BY <2>1, <2>2 DEF ToldPaths, Named
<1>3. IsFiniteSet(told) /\ c <= PathCap /\ PathCap \in Nat /\ told \subseteq Nat
  <2>1. IsFiniteSet(Named(m))
    BY NamedFinite
  <2>2. IsFiniteSet(told) /\ c <= Cardinality(Named(m)) /\ c \in Nat /\ Cardinality(Named(m)) \in Nat
    BY <1>2, <2>1, FS_Subset, FS_CardinalityType
  <2>3. PathCap \in Nat
    BY ONLY ReadingAssumption
  <2>4. Paths \subseteq Nat
    BY ONLY MemoryAssumption
  <2> HIDE DEF told, c
  <2> QED BY <1>2, <2>2, <2>3, <2>4
<1>4. rank \in [told -> Nat]
  <2>1. \A p \in told : now[p] \in Nat
    BY <1>2, CountedIs
  <2> HIDE DEF told, now
  <2>2. \A p \in told : Weight(p) \in Nat
    BY <2>1 DEF AtMost
  <2> QED BY <2>2
<1>5. order = ranked
  <2> HIDE DEF told, Weight
  <2>1. order = [n \in 1..c |-> CHOOSE i \in told : Cardinality({j \in told :
                   Weight(j) > Weight(i) \/ (Weight(j) = Weight(i) /\ j < i)}) = n - 1]
    BY Zenon DEF Ranked
  <2>2. \A i, j \in told : (rank[j] > rank[i] \/ (rank[j] = rank[i] /\ j < i))
                           <=> (Weight(j) > Weight(i) \/ (Weight(j) = Weight(i) /\ j < i))
    OBVIOUS
  <2>3. \A i \in told :
          {j \in told : rank[j] > rank[i] \/ (rank[j] = rank[i] /\ j < i)}
          = {j \in told : Weight(j) > Weight(i) \/ (Weight(j) = Weight(i) /\ j < i)}
    BY <2>2
  <2> QED BY <2>1, <2>3
<1> HIDE DEF rank, order, told
<1>6. ranked \in Surjection(1..c, told)
  BY ONLY <1>3, <1>4, RankedAll
<1> HIDE DEF ranked, c
<1>7. order \in Surjection(1..Cardinality(told), told) /\ Cardinality(told) <= PathCap
  BY <1>3, <1>5, <1>6 DEF c
<1>8. Range(SubSeq(order, 1, AtMost(PathCap, Len(order)))) = told
  BY ONLY <1>3, <1>7, AllKept
<1> QED BY <1>1, <1>2, <1>8

\* A list of names, each once.
LEMMA UniqueSeq ==
  ASSUME NEW S, NEW names \in Seq(S)
  PROVE  Unique(names) \in Seq(S)
<1> DEFINE T == Seq(S)
           base == <<>>
           n == Len(names)
           Next1(s, x) == IF x \in Range(s) THEN s ELSE Append(s, x)
           step == [k \in 1..n |-> [s \in T |-> Next1(s, names[k])]]
           F(h) == [u \in SUBSET (DOMAIN names) |->
                      IF u = {} THEN base ELSE LET x == Max(u) IN Next1(h[u \ {x}], names[x])]
           it == CHOOSE h : h = F(h)
<1>1. n \in Nat /\ DOMAIN names = 1..n /\ base \in T /\ \A k \in 1..n : names[k] \in S
  OBVIOUS
<1>2. step \in [1..n -> [T -> T]]
  <2>1. \A k \in 1..n : \A s \in T : Next1(s, names[k]) \in T
    BY <1>1
  <2> HIDE DEF T, Next1
  <2> QED BY <2>1
<1>3. PICK g \in [SUBSET (1..n) -> T] : Steps(g, n, base, step)
  <2> HIDE DEF T, base, n, step
  <2> QED BY <1>1, <1>2, FoldExists
<1>4. \A u \in SUBSET (1..n) : u # {} => Max(u) \in 1..n /\ u \ {Max(u)} \in SUBSET (1..n)
  BY <1>1, MaxIs
<1>5. g = F(g)
  <2> HIDE DEF T, base, Next1
  <2>1. \A u \in SUBSET (1..n) :
          u # {} => step[Max(u)][g[u \ {Max(u)}]] = Next1(g[u \ {Max(u)}], names[Max(u)])
    BY <1>3, <1>4
  <2> HIDE DEF step, n
  <2> QED BY <1>1, <1>3, <2>1 DEF Steps
<1>6. it = F(it)
  BY <1>5
<1>7. Unique(names) = it[1..n]
  BY <1>1 DEF Unique, FoldLeft, MapThenFoldSet
<1> HIDE DEF it
<1>8. Follows(it, n, T, base, step)
  <2>1. \A u \in SUBSET (1..n) : it[u] = IF u = {} THEN base ELSE Next1(it[u \ {Max(u)}], names[Max(u)])
    BY <1>1, <1>6
  <2> HIDE DEF T, base, Next1
  <2> QED BY <1>4, <2>1 DEF Follows
<1>9. Led(it, n, T, base, step)
  <2> HIDE DEF T, base, n, step
  <2> QED BY ONLY <1>1, <1>2, <1>8, FoldRuns
<1>10. it[1..n] \in T
  <2> HIDE DEF T, base, step
  <2> QED BY <1>1, <1>9 DEF Led
<1> QED BY <1>7, <1>10

\* What a function makes of a finite set, and what a sequence holds, is finite.
LEMMA ImageFinite ==
  ASSUME NEW S, IsFiniteSet(S), NEW T, NEW f \in [S -> T]
  PROVE  IsFiniteSet({f[x] : x \in S})
<1> DEFINE U == {f[x] : x \in S}
<1>1. f \in Surjection(S, U)
  BY DEF Surjection
<1> QED BY <1>1, FS_Surjection

LEMMA RangeFinite ==
  ASSUME NEW S, NEW s \in Seq(S)
  PROVE  IsFiniteSet(Range(s))
<1>1. Len(s) \in Nat /\ DOMAIN s = 1..Len(s) /\ s \in [1..Len(s) -> S]
  OBVIOUS
<1>2. IsFiniteSet(1..Len(s))
  BY <1>1, FS_Interval
<1>3. IsFiniteSet({s[n] : n \in 1..Len(s)})
  BY ONLY <1>1, <1>2, ImageFinite
<1>4. Range(s) = {s[n] : n \in 1..Len(s)}
  BY <1>1 DEF Range
<1> QED BY <1>3, <1>4

\* The first names at some lines of a message are finitely many.
LEMMA FirstsFinite ==
  ASSUME NEW m \in Seq(Lines), NEW at \in SUBSET (DOMAIN m), NEW limit \in Nat
  PROVE  IsFiniteSet(Range(Firsts(Of(m, Ascending(at)), limit)))
<1> DEFINE S == {m[n].of : n \in DOMAIN m}
           a == Ascending(at)
           names == Of(m, a)
           u == Unique(names)
<1>1. a \in Seq(at)
  <2>1. IsFiniteSet(at) /\ at \subseteq Nat
    BY LinesAre, FS_Subset
  <2> QED BY <2>1, AscendingSeq
<1>2. names \in Seq(S)
  <2>1. Len(a) \in Nat /\ DOMAIN a = 1..Len(a) /\ \A k \in 1..Len(a) : a[k] \in DOMAIN m
    BY <1>1
  <2> HIDE DEF a
  <2>2. \A k \in 1..Len(a) : m[a[k]].of \in S
    BY <2>1
  <2>3. names = [k \in 1..Len(a) |-> m[a[k]].of]
    BY <2>1 DEF Of
  <2> HIDE DEF S, names
  <2>4. names \in [1..Len(a) -> S]
    BY <2>2, <2>3
  <2> QED BY <2>1, <2>4
<1> HIDE DEF S, names
<1>3. u \in Seq(S)
  BY <1>2, UniqueSeq
<1> HIDE DEF u
<1>4. SubSeq(u, 1, AtMost(limit, Len(u))) \in Seq(S)
  <2>1. AtMost(limit, Len(u)) \in 0..Len(u) /\ Len(u) \in Nat
    BY <1>3 DEF AtMost
  <2> QED BY <1>3, <2>1
<1>5. Firsts(names, limit) \in Seq(S)
  BY <1>4 DEF Firsts, u
<1>6. IsFiniteSet(Range(Firsts(names, limit)))
  BY ONLY <1>5, RangeFinite
<1> QED BY <1>6 DEF names, a

LEMMA AsFinite ==
  ASSUME NEW kind, NEW names, IsFiniteSet(names)
  PROVE  IsFiniteSet(As(kind, names))
<1> DEFINE f == [name \in names |-> [is |-> kind, of |-> name]]
           T == {[is |-> kind, of |-> name] : name \in names}
<1>1. f \in [names -> T]
  OBVIOUS
<1>2. {f[name] : name \in names} = As(kind, names)
  BY DEF As
<1> HIDE DEF f, T
<1>3. IsFiniteSet({f[name] : name \in names})
  BY ONLY <1>1, ImageFinite, IsFiniteSet(names)
<1> QED BY <1>2, <1>3

\* A message makes finitely many facts.
LEMMA ToldFinite ==
  ASSUME NEW m \in Seq(Lines), counts \in [Paths -> Nat], Cardinality(Named(m)) <= PathCap
  PROVE  IsFiniteSet(Told(m)) /\ IsFiniteSet(Worded(m))
<1>1. IsFiniteSet(_path_facts(m, counts))
  <2>1. _path_facts(m, counts) \subseteq Named(m)
    <3>1. \A p : Outside(m, p) # {} => Mentioned(m, p) # {}
      BY DEF Outside
    <3> QED BY <3>1, PathFactsAre DEF ToldPaths, Named
  <2> QED BY <2>1, NamedFinite, FS_Subset
<1>2. IsFiniteSet(_identifier_facts(m))
  <2> DEFINE links == {k \in DOMAIN m : m[k].is = "link"}
             T == {m[n].of : n \in links}
             f == [n \in links |-> m[n].of]
  <2>1. IsFiniteSet(links)
    BY LinesAre, FS_Subset
  <2>2. f \in [links -> T]
    OBVIOUS
  <2>3. {f[n] : n \in links} = _identifier_facts(m)
    BY DEF _identifier_facts
  <2> HIDE DEF links, T, f
  <2>4. IsFiniteSet({f[n] : n \in links})
    BY ONLY <2>1, <2>2, ImageFinite
  <2> QED BY <2>3, <2>4
<1>3. MaxDesigns \in Nat
  BY ONLY ReadingAssumption
<1>4. IsFiniteSet(Range(_heading_facts(m)))
  <2> DEFINE at == {n \in DOMAIN m : IsHeading(m[n]) /\ ~m[n].fenced}
  <2>1. _heading_facts(m) = Firsts(Of(m, Ascending(at)), MaxDesigns)
    BY DEF _heading_facts, Heads, Where
  <2>2. at \in SUBSET (DOMAIN m)
    OBVIOUS
  <2> HIDE DEF at
  <2> QED BY <1>3, <2>1, <2>2, FirstsFinite
<1>5. IsFiniteSet(Range(_design_facts(m)))
  <2> DEFINE at == {n \in DOMAIN m : Designed(m, n)}
  <2>1. _design_facts(m) = Firsts(Of(m, Ascending(at)), MaxDesigns)
    BY DesignFound DEF _design_facts
  <2>2. at \in SUBSET (DOMAIN m)
    OBVIOUS
  <2> HIDE DEF at
  <2> QED BY <1>3, <2>1, <2>2, FirstsFinite
<1>6. IsFiniteSet(Range(_outcome_items(m)))
  <2> DEFINE at == {n \in DOMAIN m : m[n].is = "outcome"}
  <2>1. _outcome_items(m) = Firsts(Of(m, Ascending(at)), MaxDesigns)
    BY DEF _outcome_items, Where
  <2>2. at \in SUBSET (DOMAIN m)
    OBVIOUS
  <2> HIDE DEF at
  <2> QED BY <1>3, <2>1, <2>2, FirstsFinite
<1>7. IsFiniteSet(Told(m))
  BY ONLY <1>1, <1>2, <1>4, AsFinite, FS_Union DEF Told
<1>8. IsFiniteSet(Worded(m))
  BY ONLY <1>5, <1>6, AsFinite, FS_Union DEF Worded
<1> QED BY <1>7, <1>8

\* The paths among what a message makes facts of.
LEMMA PathsTold ==
  ASSUME NEW m \in Seq(Lines), counts \in [Paths -> Nat], Cardinality(Named(m)) <= PathCap, NEW p
  PROVE  /\ [is |-> "path", of |-> p] \in Told(m) <=> p \in ToldPaths(m, Counted(m, counts))
         /\ \A f \in Told(m) : f.is = "path" => f = [is |-> "path", of |-> f.of]
         /\ \A f \in Worded(m) : f.is # "path"
<1>1. _path_facts(m, counts) = ToldPaths(m, Counted(m, counts))
  BY PathFactsAre
<1>2. \A kind, names : \A f \in As(kind, names) : f.is = kind /\ f = [is |-> kind, of |-> f.of]
  BY DEF As
<1>3. \A names, name : name \in names => [is |-> "path", of |-> name] \in As("path", names)
  BY DEF As
<1>4. \A names : [is |-> "path", of |-> p] \in As("path", names) => p \in names
  BY DEF As
<1>5. [is |-> "path", of |-> p].is = "path"
  OBVIOUS
<1>6. \A f \in Told(m) : f.is = "path" => f \in As("path", _path_facts(m, counts))
  <2>1. "path" # "identifier" /\ "path" # "heading"
    OBVIOUS
  <2> QED BY ONLY <1>2, <2>1 DEF Told
<1>7. As("path", _path_facts(m, counts)) \subseteq Told(m)
  BY DEF Told
<1>8. [is |-> "path", of |-> p] \in Told(m) <=> p \in ToldPaths(m, Counted(m, counts))
  BY ONLY <1>1, <1>3, <1>4, <1>5, <1>6, <1>7
<1>9. \A f \in Worded(m) : f.is # "path"
  <2>1. "path" # "design" /\ "path" # "outcome"
    OBVIOUS
  <2> QED BY ONLY <1>2, <2>1 DEF Worded
<1> QED BY ONLY <1>2, <1>6, <1>8, <1>9

\* What a graph object has counted was heard.
Heard == \A p \in Paths : counts[p] <= heard[p]
SaidInv == IsFiniteSet(facts) /\ Heard /\ SaidIsKnown

LEMMA SaidFirst == MemoryInit => SaidInv
<1> SUFFICES ASSUME MemoryInit PROVE SaidInv
  OBVIOUS
<1>1. \A p \in Paths : heard[p] = 0 /\ counts[p] = 0
  BY DEF MemoryInit
<1>2. Twice = {} /\ Heard
  BY <1>1 DEF Twice, Heard
<1>3. facts = {} /\ plain = {} /\ IsFiniteSet(facts) /\ Cardinality(facts) = 0
  BY FS_EmptySet DEF MemoryInit
<1>4. PathsKnown = {}
  BY <1>3 DEF PathsKnown
<1>5. 0 <= MaxDurable
  BY MemoryAssumption
<1> QED BY <1>2, <1>3, <1>4, <1>5 DEF SaidInv, SaidIsKnown

\* A message, and the prune behind it.
LEMMA SaidStep ==
  ASSUME MemoryInv, SaidInv, Cardinality(Named(message)) <= PathCap, Step
  PROVE  SaidInv'
<1> DEFINE m == message
           now == Counted(m, counts)
           wide == Counted(m, heard)
           P(p) == [is |-> "path", of |-> p]
<1>1. /\ m \in Seq(Lines) /\ counts \in [Paths -> Nat] /\ heard \in [Paths -> Nat]
      /\ IsFiniteSet(facts) /\ \A p \in Paths : counts[p] <= heard[p]
  BY DEF MemoryInv, MemoryTyped, SaidInv, Heard
<1>2. /\ counts' = now /\ heard' = wide /\ restarts' = restarts
      /\ plain' = plain \cup {p \in Paths : Outside(m, p) # {}}
  BY DEF Step
<1>3. PICK worded \in SUBSET Worded(m) : facts' \in prune(facts \cup Told(m) \cup worded, items')
  BY DEF Step
<1> DEFINE fs == facts \cup Told(m) \cup worded
<1>4. IsFiniteSet(fs)
  <2>1. IsFiniteSet(Told(m)) /\ IsFiniteSet(worded)
    BY <1>1, ToldFinite, FS_Subset
  <2> QED BY <1>1, <2>1, FS_Union
<1> HIDE DEF fs
<1>5. /\ facts' \subseteq fs /\ Cardinality(facts') <= MaxDurable
      /\ Cardinality(facts') < MaxDurable => facts' = fs
  <2>1. MaxDurable \in Nat /\ Cardinality(fs) \in Nat
    BY <1>4, MemoryAssumption, FS_CardinalityType
  <2>2. facts' \in prune(fs, items')
    BY <1>3 DEF fs
  <2>3. CASE Cardinality(fs) <= MaxDurable
    BY <2>2, <2>3 DEF prune
  <2>4. CASE ~(Cardinality(fs) <= MaxDurable)
    <3>1. facts' \in SUBSET fs /\ Cardinality(facts') = MaxDurable
      BY <2>2, <2>4 DEF prune
    <3> QED BY <2>1, <3>1
  <2> QED BY <2>3, <2>4
<1>6. IsFiniteSet(facts')
  BY <1>4, <1>5, FS_Subset
<1>7. ASSUME NEW p \in Paths
      PROVE  /\ now[p] <= wide[p] /\ now[p] \in Nat /\ wide[p] \in Nat /\ heard[p] \in Nat
             /\ heard[p] <= wide[p]
             /\ Mentioned(m, p) = {} => wide[p] = heard[p]
  <2>1. /\ now[p] \in Nat /\ wide[p] \in Nat /\ wide[p] >= heard[p] /\ heard[p] \in Nat /\ counts[p] \in Nat
        /\ Mentioned(m, p) = {} => wide[p] = heard[p]
    BY <1>1, CountedIs
  <2>2. now[p] = counts[p] + Cardinality(Mentioned(m, p)) /\ wide[p] = heard[p] + Cardinality(Mentioned(m, p))
    BY <1>1 DEF Counted
  <2>3. Cardinality(Mentioned(m, p)) \in Nat
    <3>1. IsFiniteSet(Mentioned(m, p))
      BY <1>1, LinesAre, FS_Subset DEF Mentioned
    <3> QED BY <3>1, FS_CardinalityType
  <2>4. now[p] <= wide[p]
    <3> DEFINE c == Cardinality(Mentioned(m, p))
               x == now[p]
               y == wide[p]
    <3>1. x = counts[p] + c /\ y = heard[p] + c /\ c \in Nat /\ counts[p] <= heard[p]
      BY <1>1, <2>2, <2>3
    <3> HIDE DEF c, x, y
    <3>2. x <= y
      BY ONLY <2>1, <3>1
    <3> QED BY <3>2 DEF x, y
  <2> HIDE DEF now, wide
  <2> QED BY <2>1, <2>4
<1>8. Heard'
  BY <1>2, <1>7 DEF Heard
<1>9. Twice' = {p \in Paths : wide[p] >= 2} /\ Twice = {p \in Paths : heard[p] >= 2}
  BY <1>2 DEF Twice
<1>10. /\ \A p : P(p) \in Told(m) <=> p \in ToldPaths(m, now)
       /\ \A f \in Told(m) : f.is = "path" => f = P(f.of)
       /\ \A f \in worded : f.is # "path"
  BY <1>1, PathsTold
<1>11. \A p : P(p).is = "path" /\ P(p).of = p
  OBVIOUS
<1>12. ToldPaths(m, now) = {p \in Paths : Outside(m, p) # {} \/ (Mentioned(m, p) # {} /\ now[p] >= 2)}
  BY DEF ToldPaths
<1> HIDE DEF now, wide, m
<1>13. ASSUME NEW p \in PathsKnown' PROVE p \in plain' \cup Twice'
  <2>1. PICK f \in facts' : f.is = "path" /\ f.of = p
    BY DEF PathsKnown
  <2>2. CASE f \in facts
    <3>1. p \in plain \cup Twice
      BY <2>1, <2>2 DEF PathsKnown, SaidInv, SaidIsKnown
    <3>2. ASSUME p \in Twice PROVE p \in Twice'
      <4>1. p \in Paths /\ heard[p] >= 2
        BY <1>9, <3>2
      <4>2. wide[p] >= heard[p] /\ wide[p] \in Nat /\ heard[p] \in Nat
        BY <1>7, <4>1
      <4>3. wide[p] >= 2
        BY ONLY <4>1, <4>2
      <4> QED BY <1>9, <4>1, <4>3
    <3> QED BY <1>2, <3>1, <3>2
  <2>3. CASE f \in Told(m)
    <3>1. p \in ToldPaths(m, now)
      BY <1>10, <2>1, <2>3
    <3>2. p \in Paths /\ (Outside(m, p) # {} \/ now[p] >= 2)
      BY <1>12, <3>1
    <3> QED BY <1>2, <1>7, <1>9, <3>2
  <2>4. f \in facts \/ f \in Told(m) \/ f \in worded
    BY <1>5, <2>1 DEF fs
  <2> QED BY <1>10, <2>1, <2>2, <2>3, <2>4
<1>14. ASSUME Cardinality(facts') < MaxDurable
       PROVE  plain' \subseteq PathsKnown' /\ (restarts' = 0 => Twice' \subseteq PathsKnown')
  <2>1. facts' = fs /\ facts \subseteq fs /\ Told(m) \subseteq fs
    BY <1>5, <1>14 DEF fs
  <2>2. Cardinality(facts) < MaxDurable
    <3>1. Cardinality(facts) <= Cardinality(fs) /\ Cardinality(facts) \in Nat /\ Cardinality(fs) \in Nat
      BY <1>4, <2>1, FS_Subset, FS_CardinalityType
    <3>2. MaxDurable \in Nat
      BY MemoryAssumption
    <3> QED BY <1>14, <2>1, <3>1, <3>2
  <2>3. plain \subseteq PathsKnown /\ (restarts = 0 => Twice \subseteq PathsKnown)
    BY <2>2 DEF SaidInv, SaidIsKnown
  <2>4. PathsKnown \subseteq PathsKnown'
    BY <2>1 DEF PathsKnown
  <2>5. ToldPaths(m, now) \subseteq PathsKnown'
    BY <1>10, <1>11, <2>1 DEF PathsKnown
  <2>6. plain' \subseteq PathsKnown'
    BY <1>2, <1>12, <2>3, <2>4, <2>5
  <2>7. ASSUME restarts' = 0, NEW p \in Twice' PROVE p \in PathsKnown'
    <3>1. restarts = 0 /\ counts = heard
      BY <1>2, <2>7 DEF MemoryInv, Recalled
    <3>2. now = wide /\ p \in Paths /\ wide[p] >= 2
      BY <1>9, <2>7, <3>1 DEF now, wide
    <3>3. CASE Mentioned(m, p) # {}
      BY <1>12, <2>5, <3>2, <3>3
    <3>4. CASE Mentioned(m, p) = {}
      BY <1>7, <1>9, <2>3, <2>4, <3>1, <3>2, <3>4
    <3> QED BY <3>3, <3>4
  <2> QED BY <2>6, <2>7
<1> QED BY <1>5, <1>6, <1>8, <1>13, <1>14 DEF SaidInv, SaidIsKnown

LEMMA SaidKeeps ==
  ASSUME MemoryInv, SaidInv, Cardinality(Named(message)) <= PathCap, [MemoryNext]_memoryVars
  PROVE  SaidInv'
<1>1. CASE Step
  BY <1>1, SaidStep
<1>2. CASE Restart
  <2>1. restarts' # 0 /\ UNCHANGED <<facts, heard, plain>> /\ counts' = [p \in Paths |-> 0]
    BY <1>2 DEF Restart, MemoryInv, MemoryTyped
  <2>2. \A p \in Paths : counts'[p] = 0 /\ heard[p] \in Nat
    BY <2>1 DEF MemoryInv, MemoryTyped
  <2>3. Heard'
    BY <2>1, <2>2 DEF Heard
  <2> QED BY <2>1, <2>3 DEF SaidInv, SaidIsKnown, PathsKnown, Twice
<1>3. ASSUME NEW line \in Lines, Say(line) PROVE SaidInv'
  BY <1>3 DEF Say, SaidInv, Heard, SaidIsKnown, PathsKnown, Twice
<1>4. CASE UNCHANGED memoryVars
  BY <1>4 DEF memoryVars, SaidInv, Heard, SaidIsKnown, PathsKnown, Twice
<1> QED BY <1>1, <1>2, <1>3, <1>4 DEF MemoryNext

\* A message names no more paths than _path_facts keeps of a turn.
FewPaths == Cardinality(Named(message)) <= PathCap
\* While no message names more paths than PER_TURN_PATH_CAP: however many turns prune has cut, the
\* graph holds no path but those that stood outside code or were mentioned twice, no more durable
\* facts than MAX_ACTIVE_DURABLE_FACTS, and, while there is room for one more, all those paths, the
\* ones mentioned twice in one process.
THEOREM WhatIsSaidIsKnown == MemorySpec /\ []FewPaths => []SaidIsKnown
<1>1. MemoryInit => SaidInv
  BY SaidFirst
<1>2. MemoryInv /\ FewPaths /\ SaidInv /\ [MemoryNext]_memoryVars => SaidInv'
  BY SaidKeeps DEF FewPaths
<1>3. SaidInv => SaidIsKnown
  BY DEF SaidInv
<1> QED BY <1>1, <1>2, <1>3, MemoryInvHolds, PTL DEF MemorySpec
=============================================================================
