--------------------------- MODULE MCThreadQueue ---------------------------
(* A small instance of ThreadQueue: stream 1 has its owner b alone, stream  *)
(* 0 its owner a and a thread h that feeds it as the subtitle heartbeat     *)
(* does.                                                                    *)
EXTENDS ThreadQueue

CONSTANTS a, b, h

MCStreamOf == [p \in Senders |-> IF p = b THEN 1 ELSE 0]
=============================================================================
