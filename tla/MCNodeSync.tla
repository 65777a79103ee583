----------------------------- MODULE MCNodeSync -----------------------------
(***************************************************************************)
(* Small instances of NodeSync.                                            *)
(***************************************************************************)
EXTENDS NodeSync

CONSTANTS r1, r2, ann, bob

Asks(does, who, on) == [does |-> does, who |-> who, on |-> on]
Tale(start, a, b, n) ==
    [start |-> start, asks |-> [r \in {r1, r2} |-> IF r = r1 THEN a ELSE b], units |-> n]

Both == [i \in {1, 2} |-> {ann}]
One  == [i \in {1, 2} |-> IF i = 1 THEN {ann} ELSE {}]

MCStory ==
    {Tale(One, Asks("add", bob, {1}), Asks("delete", ann, {}), 0),
     Tale(Both, Asks("add", bob, {1}), Asks("detach", ann, {1}), 0),
     Tale(One, Asks("delete", ann, {}), Asks("add", ann, {2}), 1),
     Tale(Both, Asks("reset", ann, {}), Asks("delete", ann, {}), 2)}
=============================================================================
