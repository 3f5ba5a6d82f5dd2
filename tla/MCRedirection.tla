---------------------------- MODULE MCRedirection ----------------------------
(* An instance of Redirection: one client calls twice, the others once.     *)
EXTENDS Redirection

First == CHOOSE c \in Clients : TRUE
MCTurns == {j \in Joins : j[1] = First \/ j[2] = 1}
=============================================================================
