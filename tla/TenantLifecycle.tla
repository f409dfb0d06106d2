--------------------------- MODULE TenantLifecycle ---------------------------
(***************************************************************************)
(* What the control plane promises an operator about a tenant, whatever    *)
(* rows and files are behind it: the states a tenant goes through, and that*)
(* the data plane is only ever switched, all at once, to the tenants that  *)
(* are published at that moment.                                           *)
(***************************************************************************)
CONSTANTS
    Tenants,
    Legacy    \* tenants that have a legacy configuration

VARIABLES
    phase,    \* tenant -> its status, "absent" before it is created
    served    \* the tenants the gateway serves

vars == <<phase, served>>

Phases == {"absent", "draft", "validated", "published", "disabled"}

PublishedTenants == {t \in Tenants : phase[t] = "published"}

Init ==
    /\ phase \in [Tenants -> {"absent", "published"}]
    /\ \A t \in Tenants : phase[t] = "published" => t \in Legacy
    /\ served \in SUBSET Tenants

Move(t, from, to) ==
    /\ phase[t] \in from
    /\ phase' = [phase EXCEPT ![t] = to]
    /\ UNCHANGED served

Create(t) == Move(t, {"absent"}, "draft")

\* An edit withdraws a published tenant to draft; others keep their phase.
Edit(t) == Move(t, {"published"}, "draft")

Validate(t) == Move(t, Phases \ {"absent"}, "validated")
Reject(t)   == Move(t, Phases \ {"absent"}, "draft")
Publish(t)  == Move(t, {"validated"}, "published")
Disable(t)  == Move(t, Phases \ {"absent"}, "disabled")
Import(t)   == t \in Legacy /\ Move(t, {"absent"}, "published")

\* The gateway's tenants become the published ones of this moment.
Switch == served' = PublishedTenants /\ UNCHANGED phase

Next ==
    \/ \E t \in Tenants :
           \/ Create(t)
           \/ Edit(t)
           \/ Validate(t)
           \/ Reject(t)
           \/ Publish(t)
           \/ Disable(t)
           \/ Import(t)
    \/ Switch

Spec == Init /\ [][Next]_vars
=============================================================================
