----------------------------- MODULE MCLogExport -----------------------------
EXTENDS LogExport, TLC

CONSTANTS raw, round

(* One text is a duration that is rounded up to the other's.               *)
RoundedUp == [t \in Text |-> round]

Symmetry == Permutations(Issue)
=============================================================================
