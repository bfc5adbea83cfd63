---------------------------- MODULE MCEngineHost ----------------------------
(* Small instances of EngineHost for TLC: transcripts of a few messages, with *)
(* and without ids from the host, one or two calls in flight.                 *)
EXTENDS EngineHost, TLC

CONSTANTS c1, c2, s1, q1, q2

\* Every message has an id of its own.
NamedIds == [m \in 1..Length |-> m]
\* The host gives no ids: the fence hashes role, content and index.
NoIds == [m \in 1..Length |-> NoId]
\* No two messages say the same.
Distinct == [m \in 1..Length |-> m]
\* The first and the last message say the same.
Repeated == [m \in 1..Length |-> IF m = Length THEN 1 ELSE m]

\* Which prompt is which says nothing.
QuerySymmetry == Permutations(Queries)
=============================================================================
