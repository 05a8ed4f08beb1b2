------------------------------ MODULE MCParams ------------------------------
(* Three versions: the second adds a parameter, the third changes defaults. *)
EXTENDS Params

ParamTable == [v \in 1..3 |-> IF v = 1 THEN {"dev"} ELSE {"dev", "mac"}]
ParamSize == [v \in 1..3 |-> IF v = 1 THEN 1 ELSE 7]
ParamDefault == [v \in 1..3 |-> [c \in {"dev", "mac"} |-> IF v = 3 THEN 1 ELSE 0]]
=============================================================================
