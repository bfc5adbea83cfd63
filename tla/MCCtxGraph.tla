------------------------------ MODULE MCCtxGraph ------------------------------
(* An instance of CtxGraph for TLC. *)
EXTENDS CtxGraph, TLC

\* A sentence "s", an identifier "u", a path "p" that the item "fix p" names, topics
\* "auth" and "auth core", and a long heading that is stored as "p".
Words == {"s", "u", "p", "p ...", "fix p", "fix", "auth", "auth core"}
WordParts == {<<"p", "p ...">>, <<"p", "fix p">>, <<"fix", "fix p">>, <<"auth", "auth core">>}
Shortened == [l \in Words |-> IF l = "p ..." THEN "p" ELSE l]
InText == [sentences |-> {"s"}, paths |-> {"p"}, identifiers |-> {"u"},
           headings |-> {"p ..."}, designs |-> {"s"}, topics |-> {"auth", "auth core"},
           done |-> {"fix", "auth"}, open |-> {"fix p", "auth"}]
\* Scripts are salient paths; identifiers are not as salient as decisions.
Weight == [sentences |-> {0}, paths |-> {0, 2}, identifiers |-> {1}, headings |-> {0},
           designs |-> {2}, topics |-> {0}, done |-> {0}, open |-> {0}]
=============================================================================
