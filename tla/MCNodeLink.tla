----------------------------- MODULE MCNodeLink -----------------------------
(* Instances of NodeLink for TLC. *)
EXTENDS NodeLink

CONSTANTS n1, n2

\* The addresses the server gives away, the lowest first.
Pool == 2..3
=============================================================================
