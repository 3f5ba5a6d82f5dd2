--------------------------- MODULE MCFFplayHandoff --------------------------
(* Instances of FFplayHandoff: three sessions, as one that gives up waiting *)
(* lets the third in beside the first.                                      *)
EXTENDS FFplayHandoff
=============================================================================
