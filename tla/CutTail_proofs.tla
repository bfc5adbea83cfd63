--------------------------- MODULE CutTail_proofs ---------------------------
(***************************************************************************)
(* Wherever the budget makes the cut, cutTail parts no tool call from its   *)
(* result, and what it returns is the longest tail of that kind the budget  *)
(* allows, for transcripts of any length, any costs and any budget, as long *)
(* as the calls of one turn are in one message.                             *)
(***************************************************************************)
EXTENDS CutTail, TLAPS, WellFoundedInduction

N == Len(messages)

\* The shape of the state: the transcript is one a host can have, and first is a place
\* in it or just behind it.
Shape ==
  /\ messages \in Seq(Message) /\ Transcript
  /\ first \in 1..(N + 1)

\* The loop's invariant: the tail collected so far parts no pair.
IInv == Shape /\ PairsKept

-----------------------------------------------------------------------------
\* What groupStartIndex returns is a place at or before the one it is asked about.
LEMMA GroupStartBefore ==
  ASSUME Shape, NEW i \in 1..N
  PROVE  GroupStart(i) \in 1..i
<1>1. DOMAIN messages = 1..N
  BY DEF Shape, N
<1>2. CASE ~IsResult(i)
  BY <1>2 DEF GroupStart
<1>3. CASE IsResult(i) /\ \E j \in DOMAIN messages : MayAnswer(j, i)
  <2>1. GroupStart(i) = CHOOSE j \in DOMAIN messages : MayAnswer(j, i)
    BY <1>3 DEF GroupStart
  <2>2. GroupStart(i) \in DOMAIN messages /\ MayAnswer(GroupStart(i), i)
    BY <1>3, <2>1
  <2> QED BY <1>1, <2>2, SMT DEF MayAnswer, N
<1>4. CASE IsResult(i) /\ ~(\E j \in DOMAIN messages : MayAnswer(j, i))
  <2>1. GroupStart(i) = IF i > 1 /\ IsCall(i - 1) THEN i - 1 ELSE i
    BY <1>4 DEF GroupStart
  <2> QED BY <2>1, SMT DEF N
<1> QED BY <1>2, <1>3, <1>4

\* A result whose call is anywhere before it has it in its group: only results lie
\* between the two, so the walk back over results reaches it.
LEMMA GroupHoldsCall ==
  ASSUME ~Parallel, Shape, NEW i \in 1..N, NEW p \in 1..N, Pair(p, i)
  PROVE  GroupStart(i) = p
<1>1. DOMAIN messages = 1..N
  BY DEF Shape, N
<1>2. IsResult(i) /\ IsCall(p) /\ p < i
  BY DEF Pair
<1>3. PICK q \in DOMAIN messages :
        /\ \A r \in DOMAIN messages : Pair(r, i) <=> r = q
        /\ \A k \in Span(q + 1, i - 1) : IsResult(k) \/ (Parallel /\ IsCall(k))
  BY <1>1, <1>2 DEF Shape, Transcript, Answered
<1>4. q = p
  BY <1>1, <1>3
<1>5. ResultsOnly(p, i)
  BY <1>3, <1>4 DEF ResultsOnly
<1>6. MayAnswer(p, i)
  BY <1>2, <1>5 DEF MayAnswer, Pair
<1>7. ASSUME NEW j \in DOMAIN messages, MayAnswer(j, i) PROVE j = p
  <2>1. Pair(j, i)
    BY <1>2, <1>7 DEF MayAnswer, Pair
  <2> QED BY <1>3, <1>4, <2>1, <1>7
<1> QED BY <1>1, <1>2, <1>6, <1>7 DEF GroupStart

\* The messages of a group behind its first one are results that have their call, if
\* anywhere, in the group.
LEMMA GroupIsWhole ==
  ASSUME ~Parallel, Shape, NEW i \in 1..N,
         NEW p \in 1..N, NEW r \in 1..N, Pair(p, r),
         GroupStart(i) <= r, r <= i
  PROVE  GroupStart(i) <= p
<1> DEFINE s == GroupStart(i)
<1>1. DOMAIN messages = 1..N
  BY DEF Shape, N
<1>2. s \in 1..i
  BY GroupStartBefore
<1>3. GroupStart(r) = p /\ IsResult(r) /\ p < r
  BY GroupHoldsCall DEF Pair
<1>4. CASE r = i
  BY <1>3, <1>4, SMT DEF N
<1>5. CASE r # i /\ ~IsResult(i)
  <2>1. s = i
    BY <1>5 DEF GroupStart
  <2> QED BY <2>1, <1>5, SMT DEF N
<1>6. CASE r # i /\ IsResult(i) /\ \E j \in DOMAIN messages : MayAnswer(j, i)
  <2>1. s = CHOOSE j \in DOMAIN messages : MayAnswer(j, i)
    BY <1>6 DEF GroupStart
  <2>2. s \in DOMAIN messages /\ MayAnswer(s, i)
    BY <1>6, <2>1
  <2>3. IsCall(s) /\ \A k \in Span(s + 1, i - 1) : IsResult(k)
    BY <2>2 DEF MayAnswer, ResultsOnly
  <2>4. SUFFICES ASSUME p < s PROVE FALSE
    BY <1>2, SMT DEF N
  <2>5. s # r
    BY <2>3, <1>3 DEF IsCall, IsResult
  <2>6. s \in Span(p + 1, r - 1)
    BY <1>1, <1>2, <2>2, <2>4, <2>5, SMT DEF Span, N
  <2>7. PICK q \in DOMAIN messages :
          /\ \A x \in DOMAIN messages : Pair(x, r) <=> x = q
          /\ \A k \in Span(q + 1, r - 1) : IsResult(k) \/ (Parallel /\ IsCall(k))
    BY <1>1, <1>3 DEF Shape, Transcript, Answered
  <2>8. q = p
    BY <1>1, <2>7
  <2> QED BY <2>3, <2>6, <2>7, <2>8 DEF IsCall, IsResult
<1>7. CASE r # i /\ IsResult(i) /\ ~(\E j \in DOMAIN messages : MayAnswer(j, i))
  <2>1. s = IF i > 1 /\ IsCall(i - 1) THEN i - 1 ELSE i
    BY <1>7 DEF GroupStart
  <2>2. i > 1 /\ IsCall(i - 1) /\ r = i - 1
    BY <2>1, <1>7, SMT DEF N
  <2> QED BY <2>2, <1>3 DEF IsCall, IsResult
<1> QED BY <1>4, <1>5, <1>6, <1>7

-----------------------------------------------------------------------------
\* What holds at 0, and behind each number where it holds, holds up to n.
LEMMA Induct ==
  ASSUME NEW n \in Nat, NEW S \in SUBSET (0..n), 0 \in S,
         \A k \in 1..n : k - 1 \in S => k \in S
  PROVE  \A k \in 0..n : k \in S
<1> DEFINE T == (0..n) \ S
<1>1. SUFFICES ASSUME T # {} PROVE FALSE
  OBVIOUS
<1>2. T \subseteq Nat
  OBVIOUS
<1>3. PICK m \in T : \A k \in T : <<k, m>> \notin OpToRel(<, Nat)
  BY <1>1, <1>2, WFMin, NatLessThanWellFounded, Zenon
<1>4. \A k \in T : ~(k < m)
  BY <1>2, <1>3, Zenon DEF OpToRel
<1>5. m \in T
  BY <1>3
<1>6. m \in 1..n /\ m - 1 \in 0..n /\ m - 1 < m
  BY <1>5
<1>7. m - 1 \in S
  BY <1>4, <1>6
<1>8. m \in S
  BY <1>6, <1>7
<1> QED BY <1>5, <1>8

\* p[k] is what the first k messages cost together.
Prefix(p, n) ==
  p[0] = 0 /\ \A k \in 1..n : p[k] = p[k-1] + messages[k].cost

\* Every message costs a number of tokens.
LEMMA CostsNat ==
  ASSUME Shape
  PROVE  N \in Nat /\ DOMAIN messages = 1..N /\ \A k \in 1..N : messages[k].cost \in Nat
<1>1. N \in Nat /\ DOMAIN messages = 1..N /\ \A k \in 1..N : messages[k] \in Message
  BY DEF Shape, N
<1>2. \A m \in Message : m.cost \in Nat
  BY CutAssumption DEF Message
<1> QED BY <1>1, <1>2

\* Such a p there is: one for k - 1 messages is extended by one.
LEMMA PrefixExists ==
  ASSUME Shape
  PROVE  \E p \in [0..N -> Nat] : Prefix(p, N)
<1> DEFINE Sol(n) == {p \in [0..n -> Nat] : Prefix(p, n)}
           S == {n \in 0..N : Sol(n) # {}}
<1>1. N \in Nat /\ \A k \in 1..N : messages[k].cost \in Nat
  BY CostsNat
<1>2. 0 \in S /\ S \in SUBSET (0..N)
  <2> DEFINE p == [k \in 0..0 |-> 0]
  <2>1. p \in [0..0 -> Nat] /\ Prefix(p, 0)
    BY DEF Prefix
  <2> HIDE DEF p
  <2> QED BY <1>1, <2>1
<1>3. ASSUME NEW n \in 1..N, n - 1 \in S PROVE n \in S
  <2>1. PICK q \in [0..(n-1) -> Nat] : Prefix(q, n-1)
    BY <1>3
  <2> DEFINE p == [k \in 0..n |-> IF k = n THEN q[n-1] + messages[n].cost ELSE q[k]]
  <2>2. p \in [0..n -> Nat]
    BY <1>1, <2>1
  <2>3. p[0] = 0 /\ p[n] = p[n-1] + messages[n].cost /\ \A k \in 0..(n-1) : p[k] = q[k]
    BY <1>1, <2>1 DEF Prefix
  <2>4. \A k \in 1..n : p[k] = p[k-1] + messages[k].cost
    <3> SUFFICES ASSUME NEW k \in 1..n, k # n PROVE p[k] = p[k-1] + messages[k].cost
      BY <2>3
    <3>1. k \in 1..(n-1) /\ k \in 0..(n-1) /\ k - 1 \in 0..(n-1)
      BY <1>1
    <3> HIDE DEF p
    <3> QED BY <2>1, <2>3, <3>1 DEF Prefix
  <2> HIDE DEF p
  <2>5. Prefix(p, n)
    BY <2>3, <2>4 DEF Prefix
  <2>6. p \in Sol(n)
    BY ONLY <2>2, <2>5
  <2> HIDE DEF Sol
  <2> QED BY <1>1, <2>6
<1>4. N \in S
  <2>1. N \in 0..N
    BY <1>1
  <2> HIDE DEF S
  <2> QED BY <1>1, <1>2, <1>3, <2>1, Induct
<1> QED BY <1>4

\* More messages cost no less.
LEMMA PrefixGrows ==
  ASSUME Shape, NEW p \in [0..N -> Nat], Prefix(p, N), NEW i \in 0..N, NEW j \in i..N
  PROVE  p[i] <= p[j]
<1> DEFINE S == {k \in 0..N : i <= k => p[i] <= p[k]}
<1>1. N \in Nat /\ \A k \in 1..N : messages[k].cost \in Nat
  BY CostsNat
<1>2. 0 \in S /\ S \in SUBSET (0..N)
  BY <1>1
<1>3. ASSUME NEW k \in 1..N, k - 1 \in S PROVE k \in S
  <2>1. p[k] = p[k-1] + messages[k].cost /\ messages[k].cost \in Nat /\ k - 1 \in 0..N /\ k \in 0..N
    BY <1>1 DEF Prefix
  <2>2. p[k] \in Nat /\ p[k-1] \in Nat /\ p[i] \in Nat /\ p[k-1] <= p[k]
    BY <2>1
  <2>3. CASE i <= k - 1
    BY <1>3, <2>1, <2>2, <2>3
  <2>4. CASE ~(i <= k - 1)
    <3>1. i <= k => i = k
      BY <1>1, <2>4
    <3> QED BY <2>1, <2>2, <3>1
  <2> QED BY <2>3, <2>4
<1>4. j \in S
  <2>1. j \in 0..N
    BY <1>1
  <2> HIDE DEF S
  <2> QED BY <1>1, <1>2, <1>3, <2>1, Induct
<1> QED BY <1>1, <1>4

\* What the messages from i to j cost together.
LEMMA TokensIs ==
  ASSUME Shape, NEW p \in [0..N -> Nat], Prefix(p, N), NEW i \in 1..(N+1), NEW j \in (i-1)..N
  PROVE  Tokens(i, j) = p[j] - p[i-1]
<1> DEFINE F(f) == [k \in (i-1)..j |-> IF k < i THEN 0 ELSE f[k-1] + messages[k].cost]
           h == [k \in (i-1)..j |-> p[k] - p[i-1]]
           sum == CHOOSE f : f = F(f)
<1>1. N \in Nat /\ \A k \in 1..N : messages[k].cost \in Nat
  BY CostsNat
<1>2. h = F(h)
  <2> SUFFICES ASSUME NEW k \in (i-1)..j
               PROVE  p[k] - p[i-1] = IF k < i THEN 0 ELSE h[k-1] + messages[k].cost
    OBVIOUS
  <2>1. k \in 0..N /\ i - 1 \in 0..N /\ p[k] \in Nat /\ p[i-1] \in Nat
    BY <1>1
  <2>2. CASE k < i
    <3>1. k = i - 1
      BY <1>1, <2>2
    <3> QED BY <2>1, <2>2, <3>1
  <2>3. CASE ~(k < i)
    <3>1. k \in 1..N /\ k - 1 \in (i-1)..j /\ k - 1 \in 0..N
      BY <1>1, <2>3
    <3>2. p[k] = p[k-1] + messages[k].cost /\ p[k-1] \in Nat /\ messages[k].cost \in Nat
      BY <1>1, <3>1 DEF Prefix
    <3>3. h[k-1] = p[k-1] - p[i-1]
      BY <3>1
    <3> HIDE DEF h
    <3> QED BY <2>1, <2>3, <3>2, <3>3
  <2> QED BY <2>2, <2>3
<1>3. sum = F(sum)
  BY <1>2
<1>4. Tokens(i, j) = sum[j]
  BY DEF Tokens
<1> HIDE DEF sum, h
<1> DEFINE S == {k \in 0..N : (i - 1 <= k /\ k <= j) => sum[k] = p[k] - p[i-1]}
<1>5. ASSUME NEW k \in (i-1)..j
      PROVE  /\ k < i => sum[k] = 0
             /\ k >= i => sum[k] = sum[k-1] + messages[k].cost
  BY <1>1, <1>3
<1> HIDE DEF F
<1>6. i - 1 \in 0..N /\ p[i-1] \in Nat /\ p[i-1] - p[i-1] = 0
  BY <1>1
<1>7. sum[i-1] = p[i-1] - p[i-1]
  BY <1>1, <1>5, <1>6
<1>8. 0 \in S /\ S \in SUBSET (0..N)
  <2>1. i - 1 <= 0 => i - 1 = 0
    BY <1>1
  <2> QED BY <1>1, <1>7, <2>1
<1>9. ASSUME NEW k \in 1..N, k - 1 \in S PROVE k \in S
  <2> SUFFICES ASSUME i - 1 <= k, k <= j PROVE sum[k] = p[k] - p[i-1]
    BY <1>1
  <2>1. CASE k = i - 1
    BY <1>7, <2>1
  <2>2. CASE k # i - 1
    <3>1. k \in (i-1)..j /\ k >= i /\ i - 1 <= k - 1 /\ k - 1 <= j /\ k - 1 \in 0..N
      BY <1>1, <2>2
    <3>2. sum[k-1] = p[k-1] - p[i-1] /\ sum[k] = sum[k-1] + messages[k].cost
      BY <1>5, <1>9, <3>1
    <3>3. p[k] = p[k-1] + messages[k].cost /\ messages[k].cost \in Nat /\ p[k-1] \in Nat
      BY <1>1, <3>1 DEF Prefix
    <3> QED BY ONLY <1>6, <3>2, <3>3
  <2> QED BY <2>1, <2>2
<1>10. j \in S
  <2>1. j \in 0..N
    BY <1>1
  <2> HIDE DEF S
  <2> QED BY <1>1, <1>8, <1>9, <2>1, Induct
<1> QED BY <1>1, <1>4, <1>10

\* A longer tail costs what is added to it more.
LEMMA TokensAdd ==
  ASSUME Shape, NEW i \in 1..(N+1), NEW j \in i..(N+1)
  PROVE  /\ Tokens(i, N) \in Nat /\ Tokens(j, N) \in Nat /\ Tokens(i, j - 1) \in Nat
         /\ Tokens(i, N) = Tokens(j, N) + Tokens(i, j - 1)
<1>1. N \in Nat
  BY CostsNat
<1>2. PICK p \in [0..N -> Nat] : Prefix(p, N)
  BY PrefixExists
<1>3. j \in 1..(N+1) /\ N \in (i-1)..N /\ N \in (j-1)..N /\ j - 1 \in (i-1)..N
  BY <1>1
<1>4. /\ Tokens(i, N) = p[N] - p[i-1] /\ Tokens(j, N) = p[N] - p[j-1]
      /\ Tokens(i, j - 1) = p[j-1] - p[i-1]
  BY <1>2, <1>3, TokensIs
<1>5. i - 1 \in 0..N /\ j - 1 \in 0..N /\ N \in 0..N /\ j - 1 \in (i-1)..N /\ N \in (j-1)..N
  BY <1>1
<1>6. p[i-1] <= p[j-1] /\ p[j-1] <= p[N]
  BY <1>2, <1>5, PrefixGrows
<1>7. p[i-1] \in Nat /\ p[j-1] \in Nat /\ p[N] \in Nat
  BY <1>2, <1>5
<1> QED BY ONLY <1>4, <1>6, <1>7

-----------------------------------------------------------------------------
\* At first nothing is collected, and nothing parted.
LEMMA InitHolds == Init => IInv
<1> SUFFICES ASSUME Init PROVE IInv
  OBVIOUS
<1>1. PICK n \in 0..Length : messages \in [1..n -> Message]
  BY DEF Init
<1>2. n \in Nat
  BY CutAssumption, <1>1, SMT
<1>3. messages \in Seq(Message) /\ N = n /\ DOMAIN messages = 1..n
  BY <1>1, <1>2, SMT DEF N
<1>4. Shape
  BY <1>2, <1>3, SMT DEF Init, Shape, N
<1>5. PairsKept
  <2> SUFFICES ASSUME NEW p \in DOMAIN messages, NEW r \in DOMAIN messages,
                      first <= r
               PROVE  FALSE
    BY DEF PairsKept, Splits
  <2> QED BY <1>2, <1>3, SMT DEF Init, N
<1> QED BY <1>4, <1>5 DEF IInv

\* What a transcript is depends on nothing else.
LEMMA SameTranscript ==
  ASSUME messages' = messages
  PROVE  /\ Transcript' <=> Transcript
         /\ \A k : Splits(k)' <=> Splits(k)
<1>1. \A k : (IsCall(k)' <=> IsCall(k)) /\ (IsResult(k)' <=> IsResult(k))
  BY DEF IsCall, IsResult
<1>2. \A i, j : Span(i, j)' = Span(i, j)
  BY DEF Span
<1>3. \A p, r : ResultsOnly(p, r)' <=> ResultsOnly(p, r)
  BY <1>1, <1>2, Zenon DEF ResultsOnly
<1>4. \A p, r : Named(p, r)' <=> Named(p, r)
  BY DEF Named
<1>5. \A p, r : Pair(p, r)' <=> Pair(p, r)
  BY <1>1, <1>3, <1>4 DEF Pair
<1>6. CallsDiffer' <=> CallsDiffer
  BY <1>1 DEF CallsDiffer
<1>7. \A r : Answered(r)' <=> Answered(r)
  BY <1>1, <1>2, <1>5, Zenon DEF Answered
<1>8. Transcript' <=> Transcript
  BY <1>1, <1>6, <1>7 DEF Transcript
<1>9. \A k : Splits(k)' <=> Splits(k)
  BY <1>5 DEF Splits
<1> QED BY <1>8, <1>9

\* One iteration of the loop keeps the invariant: a pair the new cut parts would be
\* parted by the old one already, or have its result in the group and its call not.
LEMMA TakeKeeps ==
  ASSUME ~Parallel, IInv, TakeGroup PROVE IInv'
<1> DEFINE s == GroupStart(first - 1)
<1>1. DOMAIN messages = 1..N
  BY DEF IInv, Shape, N
<1>2. N \in Nat /\ first \in Nat /\ first > 1 /\ first - 1 \in 1..N
  BY SMT DEF IInv, Shape, TakeGroup, N
<1>3. first' = s /\ messages' = messages
  BY DEF TakeGroup
<1>4. s \in 1..(first - 1)
  BY <1>2, GroupStartBefore DEF IInv
<1>5. Shape'
  <2>1. Transcript'
    BY <1>3, SameTranscript DEF IInv, Shape
  <2>2. first' \in 1..(N + 1)
    BY <1>2, <1>3, <1>4, SMT DEF N
  <2> QED BY <1>3, <2>1, <2>2 DEF IInv, Shape, N
<1>6. ~Splits(s)
  <2> SUFFICES ASSUME NEW p \in DOMAIN messages, NEW r \in DOMAIN messages,
                      Pair(p, r), p < s, s <= r
               PROVE  FALSE
    BY DEF Splits
  <2>1. CASE first <= r
    <3>1. p < first
      BY <1>1, <1>2, <1>4, SMT DEF N
    <3> QED BY <2>1, <3>1 DEF IInv, PairsKept, Splits
  <2>2. CASE r < first
    <3>1. r <= first - 1
      BY <1>1, <1>2, <2>2, SMT DEF N
    <3>2. s <= p
      BY <1>1, <1>2, <3>1, GroupIsWhole DEF IInv
    <3> QED BY <1>1, <1>2, <1>4, <3>2, SMT DEF N
  <2> QED BY <1>1, <1>2, <2>1, <2>2, SMT DEF N
<1>7. PairsKept'
  BY <1>3, <1>6, SameTranscript DEF PairsKept, Splits
<1> QED BY <1>5, <1>7 DEF IInv

\* What the loop does not touch.
LEMMA StutterKeeps ==
  ASSUME IInv, UNCHANGED <<messages, first>> PROVE IInv'
BY SameTranscript DEF IInv, Shape, N, PairsKept, Splits

\* The tail never parts a tool call from a result it got (groupStartIndex, cutTail), when
\* the calls of one turn are in one message.
THEOREM TailKeepsPairs ==
  ASSUME ~Parallel PROVE Spec => []PairsKept
<1>1. Init => IInv
  BY InitHolds
<1>2. IInv /\ [Next]_vars => IInv'
  <2> SUFFICES ASSUME IInv, [Next]_vars PROVE IInv'
    OBVIOUS
  <2>1. CASE TakeGroup
    BY <2>1, TakeKeeps
  <2>2. CASE Return
    BY <2>2, StutterKeeps DEF Return
  <2>3. CASE UNCHANGED vars
    BY <2>3, StutterKeeps DEF vars
  <2> QED BY <2>1, <2>2, <2>3 DEF Next
<1>3. IInv => PairsKept
  BY DEF IInv
<1> QED BY <1>1, <1>2, <1>3, PTL DEF Spec

-----------------------------------------------------------------------------
(* The tail is the longest one: a cut inside a group parts the group's own     *)
(* pair, so what is longer than the tail and parts nothing holds the next      *)
(* group too, which did not fit.                                               *)

\* A cut behind the first message of a group parts a pair.
LEMMA GroupIsTight ==
  ASSUME ~Parallel, Shape, NEW i \in 1..N, NEW k \in 1..i, GroupStart(i) < k
  PROVE  Splits(k)
<1> DEFINE s == GroupStart(i)
<1>1. N \in Nat /\ DOMAIN messages = 1..N
  BY CostsNat
<1>2. s \in 1..i /\ s < k /\ s \in 1..N
  BY <1>1, GroupStartBefore
<1>3. IsResult(i)
  <2> SUFFICES ASSUME ~IsResult(i) PROVE FALSE
    OBVIOUS
  <2>1. s = i
    BY DEF GroupStart
  <2> QED BY <1>1, <1>2, <2>1
<1>4. CASE \E j \in DOMAIN messages : MayAnswer(j, i)
  <2>1. s = CHOOSE j \in DOMAIN messages : MayAnswer(j, i)
    BY <1>3, <1>4 DEF GroupStart
  <2>2. MayAnswer(s, i)
    BY <1>4, <2>1
  <2>3. Pair(s, i)
    BY <1>3, <2>2 DEF MayAnswer, Pair
  <2>4. s \in DOMAIN messages /\ i \in DOMAIN messages /\ s < k /\ k <= i
    BY <1>1, <1>2
  <2> HIDE DEF s
  <2> QED BY ONLY <2>3, <2>4 DEF Splits
<1>5. CASE ~(\E j \in DOMAIN messages : MayAnswer(j, i))
  <2>1. s = IF i > 1 /\ IsCall(i - 1) THEN i - 1 ELSE i
    BY <1>3, <1>5 DEF GroupStart
  <2>2. i > 1 /\ IsCall(i - 1) /\ i - 1 \in 1..N
    BY <1>1, <1>2, <2>1
  <2>3. ~(\A m \in Span(1, i) : IsResult(m))
    <3>1. i - 1 \in Span(1, i)
      BY <1>1, <2>2 DEF Span
    <3> QED BY <2>2, <3>1 DEF IsCall, IsResult
  <2>4. PICK q \in DOMAIN messages :
          /\ \A x \in DOMAIN messages : Pair(x, i) <=> x = q
          /\ \A m \in Span(q + 1, i - 1) : IsResult(m) \/ (Parallel /\ IsCall(m))
    BY <1>1, <1>3, <2>3 DEF Shape, Transcript, Answered
  <2>5. Pair(q, i) /\ q < i /\ q \in 1..N /\ IsCall(q)
    BY <1>1, <2>4 DEF Pair
  <2>6. ResultsOnly(q, i)
    BY <2>4 DEF ResultsOnly
  <2>7. MayAnswer(q, i)
    BY <2>5, <2>6 DEF MayAnswer, Pair
  <2> QED BY <1>5, <2>4, <2>7
<1> QED BY <1>4, <1>5

\* What was collected is in used; it fits the budget, unless it is the newest group
\* alone; and the loop ends at a group that does not fit.
Counted == used = Tokens(first, N)
Within == first <= N => (used <= budget \/ first = GroupStart(N))
Stopped == (done /\ first > 1) => ~Fits(Tokens(GroupStart(first - 1), first - 1))
TailInv == IInv /\ budget \in Nat /\ Counted /\ Within /\ Stopped

\* The costs and the groups depend on nothing but the transcript.
LEMMA SameCosts ==
  ASSUME messages' = messages
  PROVE  /\ \A i, j : Tokens(i, j)' = Tokens(i, j)
         /\ \A i : GroupStart(i)' = GroupStart(i)
         /\ N' = N
<1>1. N' = N
  BY DEF N
<1>2. \A i, j : Tokens(i, j)' = Tokens(i, j)
  BY DEF Tokens
<1>3. \A k : (IsCall(k)' <=> IsCall(k)) /\ (IsResult(k)' <=> IsResult(k))
  BY DEF IsCall, IsResult
<1>4. \A i, j : Span(i, j)' = Span(i, j)
  BY DEF Span
<1>5. \A p, r : ResultsOnly(p, r)' <=> ResultsOnly(p, r)
  BY <1>3, <1>4, Zenon DEF ResultsOnly
<1>6. \A p, r : Named(p, r)' <=> Named(p, r)
  BY DEF Named
<1>7. \A j, i : MayAnswer(j, i)' <=> MayAnswer(j, i)
  BY <1>3, <1>5, <1>6 DEF MayAnswer
<1>8. \A i : (CHOOSE j \in DOMAIN messages : MayAnswer(j, i))' = CHOOSE j \in DOMAIN messages : MayAnswer(j, i)
  BY <1>7
<1>9. \A i : GroupStart(i)' = GroupStart(i)
  BY <1>3, <1>7, <1>8 DEF GroupStart
<1> QED BY <1>1, <1>2, <1>9

\* At first nothing is collected: it costs nothing.
LEMMA TailInit == Init => TailInv
<1> SUFFICES ASSUME Init PROVE TailInv
  OBVIOUS
<1>1. IInv /\ Shape
  BY InitHolds DEF IInv
<1>2. N \in Nat /\ N + 1 \in 1..(N+1) /\ N + 1 \in (N+1)..(N+1) /\ ~(N + 1 <= N)
  BY <1>1, CostsNat
<1>3. first = N + 1 /\ used = 0 /\ ~done
  BY DEF Init, N
<1>4. Tokens(N+1, N) = 0
  <2>1. /\ Tokens(N+1, N) \in Nat /\ Tokens(N+1, (N+1) - 1) \in Nat
        /\ Tokens(N+1, N) = Tokens(N+1, N) + Tokens(N+1, (N+1) - 1)
    BY ONLY <1>1, <1>2, TokensAdd
  <2>2. (N + 1) - 1 = N
    BY <1>2
  <2>3. /\ Tokens(N+1, N) \in Nat /\ Tokens(N+1, N) = Tokens(N+1, N) + Tokens(N+1, N)
    BY ONLY <2>1, <2>2
  <2> QED BY ONLY <2>3
<1>5. budget \in Nat
  BY CutAssumption DEF Init
<1> QED BY <1>1, <1>2, <1>3, <1>4, <1>5 DEF TailInv, Counted, Within, Stopped

\* One group more: its cost is added, and it fitted or was the newest.
LEMMA TailTake == ASSUME ~Parallel, TailInv, TakeGroup PROVE TailInv'
<1> DEFINE s == GroupStart(first - 1)
           cost == Tokens(s, first - 1)
<1>1. N \in Nat /\ first \in 1..(N+1) /\ first > 1 /\ first - 1 \in 1..N
  BY CostsNat DEF TailInv, IInv, Shape, TakeGroup
<1>2. /\ ~done /\ Fits(cost) /\ first' = s /\ used' = used + cost
      /\ messages' = messages /\ budget' = budget /\ done' = done
  BY DEF TakeGroup
<1>3. s \in 1..(first - 1)
  BY <1>1, GroupStartBefore DEF TailInv, IInv
<1>4. IInv'
  BY TakeKeeps DEF TailInv
<1>5. s \in 1..(N+1) /\ first \in s..(N+1)
  BY <1>1, <1>3
<1>6. Tokens(s, N) = Tokens(first, N) + cost
  BY <1>5, TokensAdd DEF TailInv, IInv
<1>7. Counted'
  BY <1>2, <1>6, SameCosts DEF Counted, TailInv
<1>8. used' <= budget \/ s = GroupStart(N)
  <2>1. CASE Newest
    <3>1. first - 1 = N
      BY <1>1, <2>1 DEF Newest, N
    <3> QED BY <3>1
  <2>2. CASE ~Newest
    BY <1>2, <2>2 DEF Fits
  <2> QED BY <2>1, <2>2
<1>9. Within'
  BY <1>2, <1>8, SameCosts DEF Within
<1>10. Stopped'
  BY <1>2 DEF Stopped
<1> QED BY <1>2, <1>4, <1>7, <1>9, <1>10 DEF TailInv

\* The loop ends: at a group that does not fit, or at the start.
LEMMA TailReturn == ASSUME TailInv, Return PROVE TailInv'
<1>1. UNCHANGED <<messages, budget, first, used>>
  BY DEF Return
<1>2. IInv'
  BY <1>1, StutterKeeps DEF TailInv
<1>3. first > 1 => ~Fits(Tokens(GroupStart(first - 1), first - 1))
  BY DEF Return
<1>4. Stopped'
  <2>1. \A c : Fits(c)' <=> Fits(c)
    BY <1>1 DEF Fits, Newest
  <2>2. Tokens(GroupStart(first - 1), first - 1)' = Tokens(GroupStart(first - 1), first - 1)
    BY <1>1, SameCosts
  <2>3. Fits(Tokens(GroupStart(first - 1), first - 1))' <=> Fits(Tokens(GroupStart(first - 1), first - 1))
    BY <1>1, <2>2 DEF Fits, Newest
  <2> QED BY <1>1, <1>3, <2>3 DEF Stopped
<1>5. Counted' /\ Within'
  BY <1>1, SameCosts DEF TailInv, Counted, Within
<1> QED BY <1>1, <1>2, <1>4, <1>5 DEF TailInv

\* What the loop does not touch.
LEMMA TailStutter == ASSUME TailInv, UNCHANGED vars PROVE TailInv'
<1>1. UNCHANGED <<messages, budget, first, used, done>>
  BY DEF vars
<1>2. IInv'
  BY <1>1, StutterKeeps DEF TailInv
<1>3. Fits(Tokens(GroupStart(first - 1), first - 1))' <=> Fits(Tokens(GroupStart(first - 1), first - 1))
  <2>1. Tokens(GroupStart(first - 1), first - 1)' = Tokens(GroupStart(first - 1), first - 1)
    BY <1>1, SameCosts
  <2> QED BY <1>1, <2>1 DEF Fits, Newest
<1>4. Stopped' /\ Counted' /\ Within'
  BY <1>1, <1>3, SameCosts DEF TailInv, Counted, Within, Stopped
<1> QED BY <1>1, <1>2, <1>4 DEF TailInv

\* A tail that parts nothing and is longer than it is by a group at least.
LEMMA GroupOrLess ==
  ASSUME ~Parallel, Shape, NEW i \in 1..N, NEW k \in Whole, k <= i
  PROVE  /\ k <= GroupStart(i)
         /\ Tokens(k, N) \in Nat /\ Tokens(GroupStart(i), N) \in Nat
         /\ Tokens(GroupStart(i), N) <= Tokens(k, N)
<1> DEFINE s == GroupStart(i)
<1>1. N \in Nat /\ s \in 1..i /\ k \in 1..N /\ ~Splits(k)
  BY CostsNat, GroupStartBefore DEF Whole, N
<1>2. k <= s
  <2>1. k \in 1..i
    BY <1>1
  <2>2. ~(s < k)
    BY <1>1, <2>1, GroupIsTight
  <2> QED BY <1>1, <2>1, <2>2
<1>3. k \in 1..(N+1) /\ s \in k..(N+1)
  BY <1>1, <1>2
<1>4. /\ Tokens(k, N) \in Nat /\ Tokens(s, N) \in Nat /\ Tokens(k, s - 1) \in Nat
      /\ Tokens(k, N) = Tokens(s, N) + Tokens(k, s - 1)
  BY <1>3, TokensAdd
<1>5. Tokens(s, N) <= Tokens(k, N)
  BY ONLY <1>4
<1> QED BY <1>2, <1>4, <1>5

\* Where it ends: a longer whole tail holds the group that did not fit.
LEMMA LongestHolds == ASSUME ~Parallel, TailInv PROVE LongestTail
<1> SUFFICES ASSUME done, messages # <<>>
             PROVE  IF \E k \in Whole : Tokens(k, N) <= budget
                    THEN /\ first \in Whole /\ used <= budget
                         /\ \A k \in Whole : k < first => Tokens(k, N) > budget
                    ELSE first \in Whole /\ \A k \in Whole : k <= first
  BY DEF LongestTail, N
<1> DEFINE s == GroupStart(first - 1)
           cost == Tokens(s, first - 1)
<1>1. N \in Nat \ {0} /\ first \in 1..(N+1) /\ budget \in Nat /\ Shape /\ ~Splits(first)
  <2>1. Shape /\ messages \in Seq(Message)
    BY DEF TailInv, IInv, Shape
  <2>2. N # 0 /\ N \in Nat
    BY <2>1 DEF N
  <2> QED BY <2>1, <2>2 DEF TailInv, IInv, Shape, PairsKept
<1>2. first > 1 => /\ first # N + 1 /\ used + cost > budget
                   /\ s \in 1..(N+1) /\ first \in s..(N+1)
  <2> SUFFICES ASSUME first > 1 
               PROVE  first # N + 1 /\ ~(used + cost <= budget) /\ s \in 1..(N+1) /\ first \in s..(N+1)
                      /\ used + cost \in Nat
    BY <1>1
  <2>1. ~Fits(cost)
    BY DEF TailInv, Stopped
  <2>2. first # N + 1 /\ ~(used + cost <= budget)
    BY <2>1 DEF Fits, Newest, N
  <2>3. first - 1 \in 1..N
    BY <1>1
  <2>4. s \in 1..(first - 1)
    BY <1>1, <2>3, GroupStartBefore
  <2>5. s \in 1..(N+1) /\ first \in s..(N+1)
    BY <1>1, <2>4
  <2>6. Tokens(first, N) \in Nat /\ cost \in Nat
    BY <1>1, <2>5, TokensAdd
  <2>7. used + cost \in Nat
    BY <2>6 DEF TailInv, Counted
  <2> QED BY <2>2, <2>5, <2>7
<1>3. first \in 1..N /\ first \in Whole
  <2>1. first # N + 1
    BY <1>1, <1>2
  <2>2. first \in 1..N
    BY <1>1, <2>1
  <2> QED BY <1>1, <2>2 DEF Whole, N
<1>4. ASSUME NEW k \in Whole, k < first PROVE Tokens(k, N) > budget
  <2>1. k \in 1..N /\ first > 1 /\ first - 1 \in 1..N /\ k <= first - 1
    BY <1>1, <1>3, <1>4 DEF Whole, N
  <2>2. Tokens(k, N) \in Nat /\ Tokens(s, N) \in Nat /\ Tokens(s, N) <= Tokens(k, N)
    BY <1>1, <2>1, GroupOrLess
  <2>3. Tokens(s, N) = used + cost /\ used + cost > budget
    BY <1>1, <1>2, <2>1, TokensAdd DEF TailInv, Counted
  <2> QED BY ONLY <1>1, <2>2, <2>3
<1>5. N \in 1..N /\ \A k \in Whole : k \in 1..N /\ k <= N
  BY <1>1 DEF Whole, N
<1>6. ASSUME ~(used <= budget), NEW k \in Whole
      PROVE  k <= first /\ Tokens(k, N) \in Nat /\ used \in Nat /\ used <= Tokens(k, N)
  <2>1. first = GroupStart(N)
    BY <1>3, <1>6 DEF TailInv, Within
  <2> QED BY <1>1, <1>5, <2>1, GroupOrLess DEF TailInv, Counted
<1>7. CASE \E k \in Whole : Tokens(k, N) <= budget
  <2>1. used <= budget
    <3> SUFFICES ASSUME ~(used <= budget) PROVE FALSE
      OBVIOUS
    <3>1. PICK k \in Whole : Tokens(k, N) <= budget
      BY <1>7
    <3>2. Tokens(k, N) \in Nat /\ used \in Nat /\ used <= Tokens(k, N)
      BY <1>6
    <3> QED BY ONLY <1>1, <3>1, <3>2, ~(used <= budget)
  <2> QED BY <1>3, <1>4, <1>7, <2>1
<1>8. CASE ~(\E k \in Whole : Tokens(k, N) <= budget)
  <2>1. ~(used <= budget)
    BY <1>3, <1>8 DEF TailInv, Counted
  <2> QED BY <1>3, <1>6, <1>8, <2>1
<1> QED BY <1>7, <1>8

\* What stays verbatim is the longest part of the transcript that parts no tool call from
\* its result and fits the budget, the shortest when none fits (cutTail).
THEOREM TailIsLongest ==
  ASSUME ~Parallel PROVE Spec => []LongestTail
<1>1. Init => TailInv
  BY TailInit
<1>2. TailInv /\ [Next]_vars => TailInv'
  <2> SUFFICES ASSUME TailInv, [Next]_vars PROVE TailInv'
    OBVIOUS
  <2>1. CASE TakeGroup
    BY <2>1, TailTake
  <2>2. CASE Return
    BY <2>2, TailReturn
  <2>3. CASE UNCHANGED vars
    BY <2>3, TailStutter
  <2> QED BY <2>1, <2>2, <2>3 DEF Next
<1>3. TailInv => LongestTail
  BY LongestHolds
<1> QED BY <1>1, <1>2, <1>3, PTL DEF Spec
=============================================================================
