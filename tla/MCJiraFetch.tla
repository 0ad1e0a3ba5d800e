------------------------------ MODULE MCJiraFetch ------------------------------
(***************************************************************************)
(* A work log of an issue in one of two projects.                          *)
(***************************************************************************)
EXTENDS JiraFetch

SingleIssue == [w \in {"w"} |-> "i"]
IssueProject == [i \in {"i"} |-> "p"]
=============================================================================
