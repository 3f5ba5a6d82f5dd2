-------------------------- MODULE MCMessageTransit --------------------------
(* Instances of MessageTransit: the ids 1 and 3 share a counter of an array *)
(* of two.                                                                  *)
EXTENDS MessageTransit
=============================================================================
