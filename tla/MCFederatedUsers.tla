--------------------------- MODULE MCFederatedUsers ---------------------------
(* FederatedUsers with one user, since users share nothing, and roles that *)
(* are known, known but written otherwise, and unknown to the platform.    *)
EXTENDS FederatedUsers

SomeNames == AllowedRoles \cup {"Admin", "manager"}
LowerCase == [n \in SomeNames |-> IF n = "Admin" THEN "admin" ELSE n]
=============================================================================
