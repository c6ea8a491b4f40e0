---------------------------- MODULE MCRunQueue ----------------------------
(* Small instances of RunQueue for TLC. *)
EXTENDS RunQueue, TLC

CONSTANTS e1, e2, w1, w2, w3

OneEnv2 == [r \in {1, 2} |-> e1]
OneEnv3 == [r \in {1, 2, 3} |-> e1]
TwoEnvs == [r \in {1, 2, 3} |-> IF r = 3 THEN e2 ELSE e1]
\* A clock of tenths: run 1 is captured on a full second, the others half a
\* second later.
Tenths == {1, 10}
Captures2 == [r \in {1, 2} |-> IF r = 1 THEN 10 ELSE 15]
Captures3 == [r \in {1, 2, 3} |-> IF r = 1 THEN 10 ELSE 15]
WorkerSymmetry == Permutations(Workers)
=============================================================================
