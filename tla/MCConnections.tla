--------------------------- MODULE MCConnections ---------------------------
(***************************************************************************)
(* Constants for model checking Connections.                               *)
(***************************************************************************)
EXTENDS Connections, TLC

CONSTANTS d1, s1, s2, x1

\* Statements are addresses: any can stand for any other.
Handles == Permutations(Stmts)
============================================================================
