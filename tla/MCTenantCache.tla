---------------------------- MODULE MCTenantCache ----------------------------
(* TenantCache with interchangeable hostnames; tenants have an order.      *)
EXTENDS TenantCache, TLC

HostnameSymmetry == Permutations(Hostnames)
=============================================================================
