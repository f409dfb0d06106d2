----------------------------- MODULE RateLimiter -----------------------------
(***************************************************************************)
(* services/auth-middleware/main.py: the login limiter that POST /ztam/login*)
(* and POST /login-proxy share, and the task that clears it.  Both run on   *)
(* the one event loop without an await in between, so each is one step.     *)
(***************************************************************************)
EXTENDS Naturals, Sequences

CONSTANTS
    Clients,        \* values of request.client.host
    Limit,          \* _LOGIN_RATE_LIMIT
    Window,         \* _LOGIN_RATE_WINDOW, in ticks
    CleanupPeriod,  \* the sleep of the cleanup loop, in ticks
    MaxTime,        \* bound: the clock stops here
    NULL

ASSUME LimitAssumption == Limit \in Nat \ {0}
ASSUME WindowAssumption == Window \in Nat \ {0} /\ CleanupPeriod \in Nat \ {0}
ASSUME BoundsAssumption == MaxTime \in Nat
ASSUME NullAssumption ==
    NULL \notin Nat \cup [count : Nat, reset_at : Nat]

VARIABLES
    now,        \* time.time()
    rl_state,   \* _rl_state: client -> its entry, or NULL
    wakeup,     \* when the cleanup loop's sleep is over
    allowed,    \* client -> the attempts let through (history)
    refused     \* client -> time of its last refusal, or NULL (history)

vars == <<now, rl_state, wakeup, allowed, refused>>

Entry == [count : 1..Limit, reset_at : Nat]

\* An attempt: when it was made, and when the window it counts in was opened.
Attempt == [at : Nat, window : Nat]

Init ==
    /\ now = 0
    /\ rl_state = [c \in Clients |-> NULL]
    /\ wakeup   = CleanupPeriod
    /\ allowed  = [c \in Clients |-> << >>]
    /\ refused  = [c \in Clients |-> NULL]

\* The client has a window and it is not over.
Live(c) == rl_state[c] # NULL /\ now < rl_state[c].reset_at

NextCount(n) == n + 1

\* The attempt is let through.
LetThrough(c, window) ==
    /\ allowed' = [allowed EXCEPT ![c] = Append(@, [at |-> now, window |-> window])]
    /\ UNCHANGED <<now, wakeup, refused>>

\* _check_rate_limit, first return: the attempt opens a window.
OpenWindow(c) ==
    /\ ~Live(c)
    /\ rl_state' = [rl_state EXCEPT ![c] = [count |-> 1, reset_at |-> now + Window]]
    /\ LetThrough(c, now)

HasQuota_OneMore(entry) == entry.count <= Limit
HasQuota_OneLess(entry) == entry.count < Limit - 1
HasQuota(entry)         == entry.count < Limit

\* Third return: it is counted in the open window.
CountAttempt(c) ==
    /\ Live(c)
    /\ HasQuota(rl_state[c])
    /\ rl_state' = [rl_state EXCEPT ![c].count = NextCount(@)]
    /\ LetThrough(c, rl_state[c].reset_at - Window)

\* Second return: the window is used up, the request is answered 429.
RefuseAttempt(c) ==
    /\ Live(c)
    /\ ~HasQuota(rl_state[c])
    /\ refused' = [refused EXCEPT ![c] = now]
    /\ UNCHANGED <<now, rl_state, wakeup, allowed>>

Removable_Full(c) == rl_state[c] # NULL /\ (Live(c) => ~HasQuota(rl_state[c]))
Removable(c)      == rl_state[c] # NULL /\ ~Live(c)

\* _cleanup_rate_limiter, called by a task that then sleeps again.
CleanUp ==
    /\ now >= wakeup
    /\ rl_state' = [c \in Clients |-> IF Removable(c) THEN NULL ELSE rl_state[c]]
    /\ wakeup' = now + CleanupPeriod
    /\ UNCHANGED <<now, allowed, refused>>

\* The clock; the loop's sleep may end late, never early.
Tick ==
    /\ now < MaxTime
    /\ now' = now + 1
    /\ UNCHANGED <<rl_state, wakeup, allowed, refused>>

Next ==
    \/ \E c \in Clients : OpenWindow(c) \/ CountAttempt(c) \/ RefuseAttempt(c)
    \/ CleanUp
    \/ Tick

Spec == Init /\ [][Next]_vars

-----------------------------------------------------------------------------
\* The limiter's entries and the history have their types.
TypeOK ==
    /\ now \in 0..MaxTime
    /\ rl_state \in [Clients -> Entry \cup {NULL}]
    /\ wakeup \in Nat
    /\ allowed \in [Clients -> Seq(Attempt)]
    /\ refused \in [Clients -> 0..MaxTime \cup {NULL}]

\* _check_rate_limit counts in windows that begin with an attempt, and cleanup
\* only forgets windows that are over: no client gets more than twice the limit
\* through in any interval of one window's length, wherever it lies.  (Twice is
\* possible: the end of one window and the beginning of the next.)
AtMostTwiceTheLimit ==
    \A c \in Clients : \A i \in DOMAIN allowed[c] :
        i + 2 * Limit \in DOMAIN allowed[c] =>
            allowed[c][i + 2 * Limit].at > allowed[c][i].at + Window

\* A 429 is deserved: in the window's length before a refusal the client got Limit
\* attempts through, however windows were opened and cleared in between.
RefusalsDeserved ==
    \A c \in Clients : refused[c] # NULL =>
        \E i \in DOMAIN allowed[c] :
            /\ i + Limit - 1 \in DOMAIN allowed[c]
            /\ allowed[c][i].at + Window > refused[c]
            /\ allowed[c][i + Limit - 1].at <= refused[c]

\* The limiter with its cleanup implements a quota that knows no cleanup.
Quota == INSTANCE LoginQuota
    WITH left   <- [c \in Clients |-> IF Live(c)
                                      THEN Limit - rl_state[c].count ELSE Limit],
         opened <- [c \in Clients |-> IF Live(c)
                                      THEN rl_state[c].reset_at - Window ELSE NULL]

ImplementsQuota == Quota!Spec
=============================================================================
