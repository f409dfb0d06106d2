------------------------------ MODULE LoginQuota ------------------------------
(***************************************************************************)
(* What the login limiter promises a client: a quota of attempts that is   *)
(* full again Window seconds after the first attempt that drew on it.      *)
(* Nothing else gives attempts back and nothing else takes them.           *)
(***************************************************************************)
EXTENDS Naturals

CONSTANTS Clients, Limit, Window, NULL

VARIABLES
    now,
    left,     \* client -> attempts it may still make
    opened    \* client -> when it first drew on the quota, or NULL

vars == <<now, left, opened>>

Init ==
    /\ now = 0
    /\ left   = [c \in Clients |-> Limit]
    /\ opened = [c \in Clients |-> NULL]

Draw(c) ==
    /\ left[c] > 0
    /\ left'   = [left EXCEPT ![c] = @ - 1]
    /\ opened' = [opened EXCEPT ![c] = IF @ = NULL THEN now ELSE @]
    /\ UNCHANGED now

Due(c) == opened[c] # NULL /\ now + 1 >= opened[c] + Window

Second ==
    /\ now'    = now + 1
    /\ left'   = [c \in Clients |-> IF Due(c) THEN Limit ELSE left[c]]
    /\ opened' = [c \in Clients |-> IF Due(c) THEN NULL ELSE opened[c]]

Next == Second \/ \E c \in Clients : Draw(c)

Spec == Init /\ [][Next]_vars
=============================================================================
