------------------------------ MODULE MCForward ------------------------------
EXTENDS Forward
\* A task, a long task, a decision, a link, a block of code.
Five == 1..5
Kinds5 == <<"open", "open", "decision", "link", "other">>
Sizes5 == <<10, 40, 24, 12, 30>>
Salience5 == <<1, 1, 2, 1, 1>>
Mentions5 == <<{}, {}, {4}, {}, {}>>
About == {{}, {1, 2}, {4, 5}}
=============================================================================
