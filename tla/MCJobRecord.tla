----------------------------- MODULE MCJobRecord -----------------------------
EXTENDS JobRecord

(* Three seconds from the second try on, one or two from the third on.     *)
ShortPattern == [n \in {2, 3} |-> IF n = 2 THEN {3} ELSE {1, 2}]
=============================================================================
