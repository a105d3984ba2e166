----------------------------- MODULE MCConnPool -----------------------------
(* ConnPool for TLC: connections, callers and EvaluatedClients are         *)
(* interchangeable.                                                        *)
EXTENDS ConnPool, TLC

Symmetry == Permutations(Conns) \cup Permutations(Callers)
              \cup Permutations(Evals)
=============================================================================
