------------------------------ MODULE MCServer ------------------------------
(* Small instances of Server; the cfg files choose the clients and checks. *)
EXTENDS Server, TLC

\* Updates are interchangeable.
UpdateSymmetry == Permutations(Updates)
=============================================================================
