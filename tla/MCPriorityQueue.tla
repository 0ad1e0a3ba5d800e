--------------------------- MODULE MCPriorityQueue ---------------------------
(* Four objects ranked 1 to 4, every order of the four calls.              *)
EXTENDS PriorityQueue

MCItem == 1..4
MCNone == 0
=============================================================================
