---------------------------- MODULE TokenSession ----------------------------
(***************************************************************************)
(* services/auth-middleware/main.py: the life of an access token between   *)
(* check (Envoy's ext_authz), which validates it offline and looks it up in*)
(* the Redis blacklist, and logout, which puts it there.  Requests are     *)
(* tasks of one event loop; each step below runs from one await to the next.*)
(***************************************************************************)
EXTENDS Naturals

CONSTANTS
    Tokens,
    Requests,     \* tasks that serve a request
    Lifespan,     \* expires_in of a token, in seconds
    Retries,      \* REDIS_RETRY_ATTEMPTS
    MaxTime,      \* bound: the clock stops here
    MaxFailures,  \* bound: failed attempts to reach Redis or Keycloak
    MaxCrashes,   \* bound: restarts of Redis that lose its data
    NULL

ASSUME NumbersAssumption ==
    /\ Lifespan \in Nat \ {0} /\ Retries \in Nat \ {0}
    /\ MaxTime \in Nat /\ MaxFailures \in Nat /\ MaxCrashes \in Nat
ASSUME NullAssumption == NULL \notin Nat \cup Tokens

VARIABLES
    now,        \* int(time.time())
    exp,        \* token -> its exp claim, NULL before Keycloak issues it
    sso,        \* tokens whose Keycloak session is open
    blacklist,  \* token -> when ztam:blacklist:<jti> expires, or NULL
    task,       \* request -> where it is
    revoked,    \* tokens whose SETEX was acknowledged to a logout (history)
    failures,
    crashes

vars == <<now, exp, sso, blacklist, task, revoked, failures, crashes>>

Steps == {"idle", "jwks", "blacklist", "opa", "allowed", "setex", "keycloak"}

Task == [pc    : Steps,
         token : Tokens \cup {NULL},
         tries : 0..(Retries - 1),         \* failed attempts of the Redis call
         ttl   : Nat,                      \* a logout's ttl
         seen  : 0..MaxTime \cup {NULL},   \* when Redis answered a check's GET
         wasRevoked : BOOLEAN]             \* when the request came (history)

Idle == [pc |-> "idle", token |-> NULL, tries |-> 0, ttl |-> 0, seen |-> NULL,
         wasRevoked |-> FALSE]

Init ==
    /\ now = 0
    /\ exp = [t \in Tokens |-> NULL]
    /\ sso = {}
    /\ blacklist = [t \in Tokens |-> NULL]
    /\ task = [r \in Requests |-> Idle]
    /\ revoked = {}
    /\ failures = 0 /\ crashes = 0

-----------------------------------------------------------------------------
(* A definition named after another one with a suffix is a wrong version of *)
(* it, to show that a property notices.                                     *)

At(r, pc) == task[r].pc = pc

Arrive(r, t, pc, ttl) ==
    task' = [task EXCEPT ![r] =
                 [pc |-> pc, token |-> t, tries |-> 0, ttl |-> ttl, seen |-> NULL,
                  wasRevoked |-> t \in revoked]]

\* The request is answered.
Done(r) == task' = [task EXCEPT ![r] = Idle]

GoOn(r, pc) == task' = [task EXCEPT ![r].pc = pc, ![r].tries = 0]

\* An attempt of the Redis call fails and another one follows, or the last fails.
Fails == failures < MaxFailures /\ failures' = failures + 1
LastTry_Late(r) == task[r].tries = Retries
LastTry(r) == task[r].tries + 1 = Retries
Repeat(r) == ~LastTry(r) /\ task' = [task EXCEPT ![r].tries = @ + 1]

\* python-jose: a token is expired when exp is before the current second.
Valid(t) == now <= exp[t]

\* The key may be gone in the second its ttl ends, and is in the next.
Listed(t)    == blacklist[t] # NULL /\ now <= blacklist[t]
NotListed(t) == ~(blacklist[t] # NULL /\ now < blacklist[t])

-----------------------------------------------------------------------------
\* Keycloak issues a token (ztam_login_post, login_proxy, auth_callback).
Login(t) ==
    /\ exp[t] = NULL
    /\ exp' = [exp EXCEPT ![t] = now + Lifespan]
    /\ sso' = sso \cup {t}
    /\ UNCHANGED <<now, blacklist, task, revoked, failures, crashes>>

\* A request with token t reaches check, which awaits get_jwks.
Check(r, t) ==
    /\ At(r, "idle")
    /\ exp[t] # NULL
    /\ Arrive(r, t, "jwks", 0)
    /\ UNCHANGED <<now, exp, sso, blacklist, revoked, failures, crashes>>

\* jwt.decode: 403 if the token is expired or its key unknown; 503 without keys.
Decode(r) ==
    /\ At(r, "jwks")
    /\ \/ Valid(task[r].token) /\ GoOn(r, "blacklist")
       \/ Done(r)
    /\ UNCHANGED <<now, exp, sso, blacklist, revoked, failures, crashes>>

AfterOutage_Open(r) == GoOn(r, "opa")
AfterOutage(r)      == Done(r)

\* The blacklist: 403 on a hit; on a miss the claims are checked, 403 again or the
\* policy is asked; 503 if Redis cannot be reached.
LookUp(r) ==
    LET t == task[r].token
    IN  /\ At(r, "blacklist")
        /\ \/ Listed(t) /\ Done(r) /\ UNCHANGED failures
           \/ /\ NotListed(t)
              /\ \/ task' = [task EXCEPT ![r].pc = "opa", ![r].seen = now,
                                         ![r].tries = 0]
                 \/ Done(r)
              /\ UNCHANGED failures
           \/ Fails /\ Repeat(r)
           \/ Fails /\ LastTry(r) /\ AfterOutage(r)
        /\ UNCHANGED <<now, exp, sso, blacklist, revoked, crashes>>

\* The policy's answer: 200, or 403 or 503.
Decide(r) ==
    /\ At(r, "opa")
    /\ GoOn(r, "allowed") \/ Done(r)
    /\ UNCHANGED <<now, exp, sso, blacklist, revoked, failures, crashes>>

\* Envoy has its 200 and forwards the request.
Forward(r) ==
    /\ At(r, "allowed")
    /\ Done(r)
    /\ UNCHANGED <<now, exp, sso, blacklist, revoked, failures, crashes>>

-----------------------------------------------------------------------------
\* max(0, exp - now).
TtlOf(t) == IF now < exp[t] THEN exp[t] - now ELSE 0

FirstStep_Keycloak(t) == "keycloak"
\* What a logout awaits first: SETEX, or Keycloak if the token is expired.
FirstStep(t) == IF TtlOf(t) > 0 THEN "setex" ELSE "keycloak"

\* POST /logout with token t.
Logout(r, t) ==
    /\ At(r, "idle")
    /\ exp[t] # NULL
    /\ Arrive(r, t, FirstStep(t), TtlOf(t))
    /\ UNCHANGED <<now, exp, sso, blacklist, revoked, failures, crashes>>

\* Logout answers 200, whatever came before.
AnswerLogout(r) == Done(r)

\* _redis_setex_with_retries: an attempt is acknowledged, or fails with or without
\* effect; the last failure ends the logout.
SetEx(r) ==
    LET t == task[r].token
        set == blacklist' = [blacklist EXCEPT ![t] = now + task[r].ttl]
    IN  /\ At(r, "setex")
        /\ \/ /\ set
              /\ GoOn(r, "keycloak")
              /\ revoked' = revoked \cup {t}
              /\ UNCHANGED failures
           \/ /\ Fails
              /\ set \/ UNCHANGED blacklist
              /\ Repeat(r) \/ (LastTry(r) /\ AnswerLogout(r))
              /\ UNCHANGED revoked
        /\ UNCHANGED <<now, exp, sso, crashes>>

\* The call of Keycloak's logout endpoint: the session is closed or (an error
\* status, no answer) stays open.
EndSession(r) ==
    /\ At(r, "keycloak")
    /\ \/ sso' = sso \ {task[r].token} /\ UNCHANGED failures
       \/ Fails /\ UNCHANGED sso
    /\ AnswerLogout(r)
    /\ UNCHANGED <<now, exp, blacklist, revoked, crashes>>

\* Redis restarts: it has no volume for its data.
RedisLoss ==
    /\ crashes < MaxCrashes
    /\ crashes' = crashes + 1
    /\ blacklist' = [t \in Tokens |-> NULL]
    /\ UNCHANGED <<now, exp, sso, task, revoked, failures>>

Second ==
    /\ now < MaxTime
    /\ now' = now + 1
    /\ UNCHANGED <<exp, sso, blacklist, task, revoked, failures, crashes>>

Next ==
    \/ \E t \in Tokens : Login(t)
    \/ \E r \in Requests, t \in Tokens : Check(r, t) \/ Logout(r, t)
    \/ \E r \in Requests : Decode(r) \/ LookUp(r) \/ Decide(r) \/ Forward(r)
    \/ \E r \in Requests : SetEx(r) \/ EndSession(r)
    \/ RedisLoss
    \/ Second

Spec == Init /\ [][Next]_vars

-----------------------------------------------------------------------------
\* Tokens, Redis and the tasks have their types.
TypeOK ==
    /\ now \in 0..MaxTime
    /\ exp \in [Tokens -> Nat \cup {NULL}]
    /\ sso \subseteq Tokens
    /\ blacklist \in [Tokens -> Nat \cup {NULL}]
    /\ task \in [Requests -> Task]
    /\ revoked \subseteq Tokens
    /\ failures \in 0..MaxFailures /\ crashes \in 0..MaxCrashes

\* A request that comes after its token was put on the blacklist is not let
\* through, however slowly its steps and the retries of the logout went; but for
\* the last second of the token, in which the key may be gone already, and as long as
\* Redis keeps its data.
RevokedIsRefused ==
    \A r \in Requests :
        At(r, "allowed") /\ task[r].wasRevoked /\ crashes = 0 =>
            task[r].seen # NULL /\ task[r].seen >= exp[task[r].token]

\* A logout closes the Keycloak session of a token only after it has put the token
\* on the blacklist, or when the token has expired: if Redis cannot be reached the
\* session stays, too.  As long as Redis keeps its data.
SessionOutlivesToken ==
    \A t \in Tokens :
        exp[t] # NULL /\ t \notin sso /\ crashes = 0 => blacklist[t] # NULL \/ now >= exp[t]
=============================================================================
