------------------------ MODULE MCScenarioLifecycle ------------------------
(* Small instances of ScenarioLifecycle for TLC. *)
EXTENDS ScenarioLifecycle

CONSTANTS base, top, A, B, plain, changed, small, large, t1, t2, p1, k1

\* base is published; top is a draft that needs it.
TwoComponents == [c \in {base, top} |-> IF c = base THEN A ELSE B]
TopNeedsBase == [c \in {base, top} |-> [d \in {plain, changed} |-> IF c = top THEN {base} ELSE {}]]
Graphs == [d \in {small, large} |-> IF d = small THEN {base} ELSE {base, top}]
TwoTests == [t \in {t1, t2} |-> IF t = t1 THEN "install" ELSE "upgrade"]
=============================================================================
