------------------------------ MODULE MCWorkLogs ------------------------------
(***************************************************************************)
(* An issue and its child, which logs to its parent: one user who works on *)
(* both from two applications, one who works on them for longer, two users *)
(* whose requests overlap, one whose own requests overlap for longer, or a *)
(* chain session of two lines.                                             *)
(***************************************************************************)
EXTENDS ChainSession, TLC

Family == {"story", "task"}
FamilyParent == [i \in Family |-> IF i = "task" THEN "story" ELSE NoIssue]

Blank == [who |-> {}, given |-> {}, logs |-> 2, works |-> 0, slow |-> 0,
          time |-> 0, leaders |-> {}, calls |-> 0]

TwoApplications(u) ==
  [Blank EXCEPT !.who = {u} \X Family \X {"web", "ext"}, !.works = 3, !.time = 3]

ALongTime(u) ==
  [Blank EXCEPT !.who = {u} \X Family \X {"web"}, !.works = 2, !.time = 7]

TwoUsers ==
  [Blank EXCEPT !.who = User \X {"story"} \X {"web"}, !.given = {3},
                !.works = 2, !.slow = 1, !.time = 2]

OneOverlap(u) ==
  [Blank EXCEPT !.who = {u} \X {"story"} \X {"web"},
                !.works = 2, !.slow = 1, !.time = 5]

AChain(u) ==
  [Blank EXCEPT !.leaders = {u}, !.logs = 4, !.time = 4, !.calls = 5]

MCScenes ==
  {TwoUsers} \cup UNION {{TwoApplications(u), ALongTime(u), OneOverlap(u), AChain(u)} : u \in User}

MCChained == <<"task", "story">>
MCLogUnits == <<2, 1>>

Symmetry == Permutations(Tab) \cup Permutations(User)
=============================================================================
