------------------------------ MODULE MCMemory ------------------------------
EXTENDS Memory
L(is, of, level, fenced) == [is |-> is, of |-> of, level |-> level, fenced |-> fenced]
Thirteen == {L("blank", 0, 0, FALSE), L("heading", 0, 2, FALSE), L("deferred heading", 0, 1, FALSE),
             L("deferred heading", 0, 2, FALSE), L("heading", 0, 1, TRUE), L("bullet", 1, 0, FALSE),
             L("checked", 1, 0, FALSE), L("todo", 1, 0, FALSE), L("decision", 2, 0, FALSE),
             L("path", 3, 0, FALSE), L("path", 3, 0, TRUE), L("link", 4, 0, FALSE),
             L("outcome", 5, 0, FALSE)}
WordsOfKinds == [k \in LineKinds |-> IF k \in {"path", "link", "decision"} THEN 2 ELSE 1]
=============================================================================
