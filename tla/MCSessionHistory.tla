-------------------------- MODULE MCSessionHistory --------------------------
(* Instances of SessionHistory.                                            *)
EXTENDS SessionHistory, TLC

\* The threads are interchangeable.
ThreadSymmetry == Permutations(Threads)
=============================================================================
