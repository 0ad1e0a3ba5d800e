----------------------------- MODULE MCMasterData -----------------------------
(***************************************************************************)
(* An administrator and a manager with a project each.  They get new       *)
(* tokens; one of them does while the other imports; or they load what the *)
(* server has and import two issues, of which one is of a new project.     *)
(***************************************************************************)
EXTENDS MasterData, TLC

Shown == [u \in User |-> IF u = "admin" THEN {"K", "L"} ELSE {"K"}]

OneOfEach == <<[key |-> "K", managers |-> {"manager"}], [key |-> "L", managers |-> {"admin"}]>>

Issues ==
  {[project |-> "K", assignee |-> "open", tester |-> "tester", status |-> "s", items |-> {"i"}],
   [project |-> "L", assignee |-> "hidden", tester |-> "tester", status |-> "s", items |-> {"i"}]}

Still == [admins |-> {"admin"}, robin |-> FALSE, stored |-> User, projects |-> OneOfEach,
          early |-> FALSE, trouble |-> {}, renewals |-> 0, calls |-> 0,
          known |-> {}, issues |-> {}, people |-> {}, authors |-> {}]

Tokens(A) == [Still EXCEPT !.admins = A, !.early = TRUE, !.renewals = 2, !.calls = 3]

Outdated == [Tokens({"admin"}) EXCEPT !.early = FALSE, !.issues = Issues]

WasUser(x, login, name) == {[person |-> x, login |-> login, name |-> name]}

Imports(b, people) ==
  [Still EXCEPT !.robin = b, !.projects = <<OneOfEach[1]>>, !.calls = 3,
                !.issues = Issues, !.authors = {"hidden"}, !.early = TRUE, !.people = people]

Troubled(s) == [s EXCEPT !.early = FALSE, !.trouble = {"trial", "request"}]

MCScenes ==
  {Tokens({}), Tokens({"admin"}), Outdated,
   Imports(TRUE, WasUser("open", "mail", "mail")), Imports(FALSE, WasUser("hidden", "mail", "mail")),
   Troubled(Tokens({})), Troubled(Tokens({"admin"})), Troubled(Outdated),
   Troubled(Imports(TRUE, WasUser("open", "own", "mail"))),
   Troubled(Imports(FALSE, WasUser("open", "own", "own"))),
   Troubled(Imports(FALSE, WasUser("open", "mail", "own")))}

Symmetry == Permutations(Process)
=============================================================================
