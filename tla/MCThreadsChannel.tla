-------------------------- MODULE MCThreadsChannel --------------------------
(* A small instance of ThreadsChannel for TLC: the nodes are model values.  *)
(* No symmetry: the run checks liveness.                                    *)
EXTENDS ThreadsChannel

=============================================================================
