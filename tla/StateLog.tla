------------------------------ MODULE StateLog ------------------------------
(***************************************************************************)
(* What StateStore promises (store.py): a log of states for each agent.     *)
(* A state is made of the one before it and one more turn, and one that is  *)
(* in the log is never changed.                                             *)
(***************************************************************************)
EXTENDS Integers, Sequences

CONSTANTS Agents, Turns
VARIABLE logs

Init == logs = [a \in Agents |-> <<>>]
Newest(log) == IF log = <<>> THEN {} ELSE log[Len(log)]
Save(a, turn) == logs' = [logs EXCEPT ![a] = Append(@, Newest(@) \cup {turn})]
Next == \E a \in Agents, turn \in Turns : Save(a, turn)
Spec == Init /\ [][Next]_logs
=============================================================================
