---------------------------- MODULE MCTenantTools ----------------------------
(* TenantTools with interchangeable tenants, hostnames and operators.      *)
EXTENDS TenantTools, TLC

\* All tenants are published, or none.
AllOrNone == {m \in Map : Distinct(m) /\ \A t, u \in Tenants : m[t] = NULL => m[u] = NULL}

Symmetry == Permutations(Tenants) \cup Permutations(Hostnames)
                                  \cup Permutations(Operators)
=============================================================================
