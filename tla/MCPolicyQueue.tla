---------------------------- MODULE MCPolicyQueue ----------------------------
(***************************************************************************)
(* Two tenants of weights 2 and 1, members of two binary digits.           *)
(***************************************************************************)
EXTENDS PolicyQueue

MCTask ==
  { [id |-> 1, tenant |-> "b", submitted |-> 1, exec |-> 1, priority |-> 0, deadline |-> 3],
    [id |-> 2, tenant |-> "b", submitted |-> 2, exec |-> 0, priority |-> 2, deadline |-> 0],
    [id |-> 3, tenant |-> "a", submitted |-> 2, exec |-> 1, priority |-> 2, deadline |-> 4] }

MCWeights == [k \in {"a"} |-> 2]
=============================================================================
