----------------------------- MODULE MCIssueSync -----------------------------
EXTENDS IssueSync, TLC

MCServer == <<[assignee |-> "none", parent |-> 0, sprint |-> 0, origin |-> 0],
              [assignee |-> "me", parent |-> 1, sprint |-> 1, origin |-> 0]>>

CONSTANT Cloned

(* Issue 2 was imported with its project before it got its parent, and the *)
(* source was cloned but not exported.                                     *)
MCIssues ==
  <<[Blank EXCEPT !.key = 2, !.assignee = "me", !.sprintKey = 1, !.last = 1],
    [Blank EXCEPT !.src = Cloned]>>

(* The board with the id 1 on the server has the row 1 here.               *)
MCBoardRow == 1 :> 1

Symmetry == Permutations(Transactions)

=============================================================================
