---------------------------- MODULE MCBalancing ----------------------------
(***************************************************************************)
(* Load balancing for TLC: the choice of a backend (LoadBalance) and the   *)
(* lists of backends (Registry).  They have no variable in common, so a    *)
(* property of one holds when it holds while the other stays where it      *)
(* begins: part is the one that moves in a behaviour.                      *)
(***************************************************************************)
EXTENDS MCLoadBalance, MCRegistry

VARIABLE part

balancingVars == <<part, vars, registryVars>>

\* One of the beginnings of LoadBalance is enough when it does not move.
BalancingInit ==
  /\ part \in {"calls", "lists"}
  /\ Init /\ RegistryInit
  /\ part # "calls" => api = "DoRequest"

BalancingNext ==
  /\ UNCHANGED part
  /\ \/ part = "calls" /\ Next /\ UNCHANGED registryVars
     \/ part = "lists" /\ RegistryNext /\ UNCHANGED vars

\* No fair action can be taken where LoadBalance begins, so its fairness does
\* not keep Registry from moving.
BalancingSpec == BalancingInit /\ [][BalancingNext]_balancingVars /\ Fairness
=============================================================================
