---------------------------- MODULE MCHttpFetch ----------------------------
(* Two inputs of one session share the budget.  One of them reads: its     *)
(* second range meets whatever its first one, given up, has left behind.   *)
EXTENDS HttpFetch, TLC

MCSessionOf == "video" :> "first"

=============================================================================
