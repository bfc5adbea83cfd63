------------------------------ MODULE CutTail ------------------------------
(***************************************************************************)
(* cutTail (assemble.ts): which of the newest messages of a transcript stay *)
(* verbatim beside the pack.  It walks from the end, one group of messages  *)
(* at a time, and stops at the first group that does not fit the budget;    *)
(* the newest group stays even when it alone is too much.  A group is a     *)
(* message, or a tool result with everything back to its call.              *)
(*                                                                         *)
(* One action is one iteration of the loop.  acc is messages[first..], and  *)
(* the loop's i is first - 1 (indices from 1 here).                         *)
(***************************************************************************)
EXTENDS Integers, Sequences

CONSTANTS
  CallIds,       \* ids of tool calls
  Costs,         \* tokens of a message
  Budgets,       \* values of keepRecentTokens
  Length,        \* bounds the transcript
  Parallel       \* TRUE: calls made together may be messages of their own

ASSUME CutAssumption ==
  /\ Costs \subseteq Nat /\ Budgets \subseteq Nat /\ Length \in Nat
  /\ Parallel \in BOOLEAN

\* A call message makes any number of calls; a result names one, or none.
Message ==
  [kind : {"other"}, ids : {{}}, cost : Costs]
    \cup [kind : {"call"}, ids : SUBSET CallIds, cost : Costs]
    \cup [kind : {"result"}, ids : {{}} \cup {{x} : x \in CallIds}, cost : Costs]

VARIABLES messages, budget, first, used, overBudget, done
vars == <<messages, budget, first, used, overBudget, done>>

IsCall(i) == messages[i].kind = "call"
IsResult(i) == messages[i].kind = "result"
Span(i, j) == {k \in DOMAIN messages : i <= k /\ k <= j}

-----------------------------------------------------------------------------
(* What a transcript looks like. *)

\* The result at r answers a call made at p: its id says so, or, without ids, its place.
ResultsOnly(p, r) == \A k \in Span(p + 1, r - 1) : IsResult(k)
Named(p, r) == messages[p].ids # {} /\ messages[r].ids # {}
Pair(p, r) ==
  /\ p < r /\ IsCall(p) /\ IsResult(r)
  /\ IF Named(p, r) THEN messages[r].ids \subseteq messages[p].ids
                    ELSE ResultsOnly(p, r)

\* No two messages make the same call.
CallsDiffer == \A p, q \in DOMAIN messages :
                 (p # q /\ IsCall(p) /\ IsCall(q)) => messages[p].ids \cap messages[q].ids = {}
\* A result has one call, and follows it at once.  The oldest ones may have lost theirs
\* to compaction.
Answered(r) ==
  \/ \E p \in DOMAIN messages :
       /\ \A q \in DOMAIN messages : Pair(q, r) <=> q = p
       /\ \A k \in Span(p + 1, r - 1) : IsResult(k) \/ (Parallel /\ IsCall(k))
  \/ /\ \A k \in Span(1, r) : IsResult(k)
     /\ \A p \in DOMAIN messages : ~Pair(p, r)
Transcript == /\ CallsDiffer
              /\ \A r \in DOMAIN messages : IsResult(r) => Answered(r)

-----------------------------------------------------------------------------
\* Mutant: only a result right after a call is kept with it.
NextToCall(i) == IF IsResult(i) /\ i > 1 /\ IsCall(i - 1) THEN i - 1 ELSE i

\* groupStartIndex: past other results to the message before them, when that is a call
\* that may be this result's; else to a call right before; else nowhere.
MayAnswer(j, i) ==
  /\ j < i /\ IsCall(j) /\ ResultsOnly(j, i)
  /\ Named(j, i) => messages[i].ids \subseteq messages[j].ids
GroupStart(i) ==
  IF ~IsResult(i) THEN i
  ELSE IF \E j \in DOMAIN messages : MayAnswer(j, i)
       THEN CHOOSE j \in DOMAIN messages : MayAnswer(j, i)
       ELSE IF i > 1 /\ IsCall(i - 1) THEN i - 1 ELSE i

\* estimateGroup of messages.slice(i, j + 1), added up from its first message on.
Tokens(i, j) == LET sum[k \in (i-1)..j] == IF k < i THEN 0 ELSE sum[k-1] + messages[k].cost
                IN  sum[j]

Init ==
  /\ messages \in UNION {[1..n -> Message] : n \in 0..Length}
  /\ Transcript
  /\ budget \in Budgets
  /\ first = Len(messages) + 1
  /\ used = 0 /\ overBudget = FALSE /\ done = FALSE

Newest == first = Len(messages) + 1          \* acc is empty
\* Mutant: a group that fills the budget exactly does not fit.
FitsBelow(cost) == Newest \/ used + cost < budget
Fits(cost) == Newest \/ used + cost <= budget

TakeGroup ==
  LET start == GroupStart(first - 1)
      cost == Tokens(start, first - 1)
  IN /\ ~done /\ first > 1 /\ Fits(cost)
     /\ first' = start /\ used' = used + cost
     /\ overBudget' = (overBudget \/ (Newest /\ cost > budget))
     /\ UNCHANGED <<messages, budget, done>>

\* The loop ends: nothing is left, or the next group does not fit.
Return ==
  /\ ~done
  /\ first > 1 => ~Fits(Tokens(GroupStart(first - 1), first - 1))
  /\ done' = TRUE
  /\ UNCHANGED <<messages, budget, first, used, overBudget>>

Next == TakeGroup \/ Return
Spec == Init /\ [][Next]_vars

-----------------------------------------------------------------------------
\* A cut before k parts a call from a result.
Splits(k) == \E p, r \in DOMAIN messages : Pair(p, r) /\ p < k /\ k <= r

\* The tail never holds a tool result without its call or a call without a result it
\* got, wherever the budget makes the cut (groupStartIndex).
PairsKept == ~Splits(first)

\* The tail is the longest one that parts no pair and fits the budget; the shortest one
\* that parts no pair when none fits (cutTail against what it is for).
Whole == {k \in 1..Len(messages) : ~Splits(k)}
LongestTail ==
  (done /\ messages # <<>>) =>
    IF \E k \in Whole : Tokens(k, Len(messages)) <= budget
    THEN /\ first \in Whole /\ used <= budget
         /\ \A k \in Whole : k < first => Tokens(k, Len(messages)) > budget
    ELSE first \in Whole /\ \A k \in Whole : k <= first
=============================================================================
