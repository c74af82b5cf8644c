------------------------------ MODULE MCServer ------------------------------
(***************************************************************************)
(* Small instances of the server for TLC.                                  *)
(***************************************************************************)
EXTENDS ServerProperties, TLC

\* Connections are interchangeable: used in the runs without liveness.
ClientSymmetry == Permutations(Clients)

=============================================================================
