--------------------------- MODULE MCCancellation ---------------------------
(* Instances of Cancellation: an FFmpeg session whose input never ends next *)
(* to an FFprobe session, and two clients.                                  *)
EXTENDS Cancellation
=============================================================================
