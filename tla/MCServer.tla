------------------------------ MODULE MCServer ------------------------------
(* Small instances of Server.  The connections are interchangeable. *)
EXTENDS Server, TLC

ConnSymmetry == Permutations(Conns)
=============================================================================
