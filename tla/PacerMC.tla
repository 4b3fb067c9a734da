------------------------------ MODULE PacerMC -------------------------------
(* Small instances of Pacer: one tick is the shortest interval. *)
EXTENDS Pacer, TLC

Disabled == [enabled |-> FALSE, interval |-> 0, modelInterval |-> [m \in Models |-> 0],
             maxDepth |-> 2, maxAge |-> 2]

\* The model intervals differ, so that the model with the later slot can hold up
\* an older entry.
Paced1 == [enabled |-> TRUE, interval |-> 1,
           modelInterval |-> [m \in Models |-> IF m = CHOOSE x \in Models : TRUE THEN 2 ELSE 0],
           maxDepth |-> 2, maxAge |-> 3]

Slower == [Paced1 EXCEPT !.interval = 2, !.maxDepth = 1, !.maxAge = 1]

AllPolicies == {Disabled, Paced1, Slower}

=============================================================================
