------------------------------ MODULE JwksCache ------------------------------
(***************************************************************************)
(* services/auth-middleware/main.py, get_jwks: Keycloak's signing keys are *)
(* cached in the process and in Redis.  Calls run as tasks of one event    *)
(* loop and interleave at their awaits; all realms share one lock.  A key  *)
(* set is represented by the time at which Keycloak answered with it.      *)
(***************************************************************************)
EXTENDS Naturals, Sequences

CONSTANTS
    Realms,
    Requests,     \* tasks that call get_jwks
    TTL,          \* JWKS_TTL, in ticks
    Latency,      \* ticks a Redis or Keycloak call takes at most, retries included
    Retries,      \* REDIS_RETRY_ATTEMPTS, HTTP_RETRY_ATTEMPTS
    MaxTime,      \* bound: the clock stops here
    MaxCrashes,   \* bound: restarts of the middleware and of Redis
    NULL

ASSUME NumbersAssumption ==
    /\ TTL \in Nat \ {0} /\ Retries \in Nat \ {0}
    /\ Latency \in Nat /\ MaxTime \in Nat /\ MaxCrashes \in Nat
ASSUME NullAssumption ==
    NULL \notin Nat \cup Realms \cup [keys : Nat, expires : Nat]

VARIABLES
    now,               \* time.time()
    jwks_cache,        \* _jwks_cache: realm -> key set, or NULL
    jwks_fetched_at,   \* _jwks_fetched_at
    lock,              \* _jwks_lock: its holder, then those who wait in turn
    redis,             \* realm -> what ztam:jwks:<realm> holds, or NULL
    task,              \* request -> where its call is
    crashes,
    newest,            \* realm -> newest keys the process ever had (history)
    fetches            \* realm -> when it stored keys it fetched, since its start

cache == <<jwks_cache, jwks_fetched_at, newest, fetches>>
vars  == <<now, lock, redis, task, crashes, cache>>

Time     == 0..MaxTime
Stored   == [keys : Time, expires : Nat]
Awaiting == {"redis_get", "got", "fetch", "fetched", "redis_setex"}

Task == [pc    : {"idle", "lock"} \cup Awaiting,
         realm : Realms \cup {NULL},
         tries : 0..(Retries - 1),    \* failed attempts of what it awaits
         since : Time,                \* when it began to await it
         reply : Time \cup {NULL}]    \* an answer on its way to it

Idle     == [pc |-> "idle", realm |-> NULL, tries |-> 0, since |-> 0, reply |-> NULL]
NoKeys   == [k \in Realms |-> NULL]
NoFetch  == [k \in Realms |-> << >>]

Init ==
    /\ now = 0
    /\ jwks_cache = NoKeys
    /\ jwks_fetched_at = [k \in Realms |-> 0]
    /\ lock = << >>
    /\ redis = NoKeys
    /\ task = [r \in Requests |-> Idle]
    /\ crashes = 0
    /\ newest = [k \in Realms |-> 0]
    /\ fetches = NoFetch

-----------------------------------------------------------------------------
(* A definition named after another one with a suffix is a wrong version of *)
(* it, to show that a property notices.                                     *)

\* The process has keys of realm k that are not due yet.
Fresh(k) == jwks_cache[k] # NULL /\ now < jwks_fetched_at[k] + TTL

\* Redis has keys of realm k: SETEX lets them expire.
InRedis(k) == redis[k] # NULL /\ now < redis[k].expires

At(r, pc) == task[r].pc = pc

\* r goes on to await a call of Redis or Keycloak, or its answer.
Await(r, pc) ==
    task' = [task EXCEPT ![r] = [Idle EXCEPT !.pc = pc, !.realm = task[r].realm,
                                             !.since = now]]
Answered(r, pc, reply) ==
    task' = [task EXCEPT ![r].pc = pc, ![r].reply = reply]

\* r leaves the locked block, with keys or with an exception.
Leave(r) == task' = [task EXCEPT ![r] = Idle] /\ lock' = Tail(lock)

Raise_Locked(r) == task' = [task EXCEPT ![r] = Idle] /\ UNCHANGED lock
Raise(r)        == Leave(r)

LastAttempt_Late(r) == task[r].tries >= Retries
LastAttempt(r)      == task[r].tries + 1 >= Retries

\* An attempt of the call r awaits failed: it is repeated, the last one raises.
Failed(r, pc) ==
    \/ /\ ~LastAttempt(r)
       /\ task' = [task EXCEPT ![r].tries = @ + 1, ![r].pc = pc, ![r].reply = NULL]
       /\ UNCHANGED lock
    \/ LastAttempt(r) /\ Raise(r)

\* The process stores the keys that r got for realm k.
Store(r, k) ==
    LET keys == task[r].reply
    IN  /\ jwks_cache' = [jwks_cache EXCEPT ![k] = keys]
        /\ jwks_fetched_at' = [jwks_fetched_at EXCEPT ![k] = now]
        /\ newest' = [newest EXCEPT ![k] = IF keys > @ THEN keys ELSE @]

-----------------------------------------------------------------------------
\* A call that finds fresh keys returns them; one that does not goes for the lock.
FastPath(r, k) == At(r, "idle") /\ Fresh(k) /\ UNCHANGED vars

Call(r, k) ==
    /\ At(r, "idle")
    /\ ~Fresh(k)
    /\ task' = [task EXCEPT ![r].pc = "lock", ![r].realm = k]
    /\ lock' = Append(lock, r)
    /\ UNCHANGED <<now, redis, crashes, cache>>

HasLock_Ignored(r) == At(r, "lock")
HasLock(r)         == At(r, "lock") /\ Head(lock) = r

CheckAgain_Not(k) == FALSE
CheckAgain(k)     == Fresh(k)

\* With the lock it looks again, then asks Redis.
Acquire(r) ==
    /\ HasLock(r)
    /\ \/ CheckAgain(task[r].realm) /\ Leave(r)
       \/ ~CheckAgain(task[r].realm) /\ Await(r, "redis_get") /\ UNCHANGED lock
    /\ UNCHANGED <<now, redis, crashes, cache>>

\* _redis_get_with_retries: Redis answers, or an attempt fails.
RedisGet(r) ==
    LET k == task[r].realm
    IN  /\ At(r, "redis_get")
        /\ \/ /\ Answered(r, "got", IF InRedis(k) THEN redis[k].keys ELSE NULL)
              /\ UNCHANGED lock
           \/ Failed(r, "redis_get")
        /\ UNCHANGED <<now, redis, crashes, cache>>

\* Keys from Redis are stored as if they were fetched now; without any, Keycloak
\* is asked.
Got(r) ==
    /\ At(r, "got")
    /\ \/ /\ task[r].reply # NULL
          /\ Store(r, task[r].realm)
          /\ Leave(r)
          /\ UNCHANGED fetches
       \/ task[r].reply = NULL /\ Await(r, "fetch") /\ UNCHANGED <<lock, cache>>
    /\ UNCHANGED <<now, redis, crashes>>

\* _request_with_retries: Keycloak answers 200, with an error that is repeated,
\* or with a 4xx that raise_for_status raises.
Fetch(r) ==
    /\ At(r, "fetch")
    /\ \/ Answered(r, "fetched", now) /\ UNCHANGED lock
       \/ Failed(r, "fetch")
       \/ Raise(r)
    /\ UNCHANGED <<now, redis, crashes, cache>>

\* The answer arrives, or is lost and the attempt failed.
Fetched(r) ==
    LET k == task[r].realm
    IN  /\ At(r, "fetched")
        /\ \/ /\ Store(r, k)
              /\ fetches' = [fetches EXCEPT ![k] = Append(@, now)]
              /\ Await(r, "redis_setex")
              /\ UNCHANGED lock
           \/ Failed(r, "fetch") /\ UNCHANGED cache
        /\ UNCHANGED <<now, redis, crashes>>

Expiry_Twice == now + 2 * TTL
\* The time to live that get_jwks gives SETEX.
Expiry       == now + TTL

\* _redis_setex_with_retries: an attempt has its effect and is acknowledged, has
\* it but fails, or has none.  The last failure raises: the call fails although
\* the process has stored the keys.
RedisSetex(r) ==
    LET k == task[r].realm
    IN  /\ At(r, "redis_setex")
        /\ \/ /\ redis' = [redis EXCEPT ![k] =
                               [keys |-> jwks_cache[k], expires |-> Expiry]]
              /\ Leave(r) \/ Failed(r, "redis_setex")
           \/ Failed(r, "redis_setex") /\ UNCHANGED redis
        /\ UNCHANGED <<now, crashes, cache>>

\* The middleware restarts: its memory and its calls are gone.
Restart ==
    /\ crashes < MaxCrashes
    /\ crashes' = crashes + 1
    /\ jwks_cache' = NoKeys
    /\ jwks_fetched_at' = [k \in Realms |-> 0]
    /\ fetches' = NoFetch
    /\ lock' = << >>
    /\ task' = [r \in Requests |-> Idle]
    /\ UNCHANGED <<now, redis, newest>>

\* Redis restarts without its data.
RedisLoss ==
    /\ crashes < MaxCrashes
    /\ crashes' = crashes + 1
    /\ redis' = NoKeys
    /\ UNCHANGED <<now, lock, task, cache>>

\* The clock; no call takes longer than Latency.
Tick ==
    /\ now < MaxTime
    /\ \A r \in Requests : task[r].pc \in Awaiting => now < task[r].since + Latency
    /\ now' = now + 1
    /\ UNCHANGED <<lock, redis, task, crashes, cache>>

Continue(r) ==
    \/ Acquire(r)
    \/ RedisGet(r)
    \/ Got(r)
    \/ Fetch(r)
    \/ Fetched(r)
    \/ RedisSetex(r)

Next ==
    \/ \E r \in Requests, k \in Realms : FastPath(r, k) \/ Call(r, k)
    \/ \E r \in Requests : Continue(r)
    \/ Restart
    \/ RedisLoss
    \/ Tick

Spec == Init /\ [][Next]_vars

\* Redis and Keycloak answer or fail (httpx has a timeout), and the event loop
\* runs the task that got an answer or the lock.
FairSpec == Spec /\ \A r \in Requests : WF_vars(Continue(r))

-----------------------------------------------------------------------------
\* The caches, the lock's queue and the tasks have their types.
TypeOK ==
    /\ now \in Time
    /\ jwks_cache \in [Realms -> Time \cup {NULL}]
    /\ jwks_fetched_at \in [Realms -> Time]
    /\ lock \in Seq(Requests)
    /\ redis \in [Realms -> Stored \cup {NULL}]
    /\ task \in [Requests -> Task]
    /\ crashes \in 0..MaxCrashes
    /\ newest \in [Realms -> Time]
    /\ fetches \in [Realms -> Seq(Time)]

\* The keys of a realm never go back: what the process holds is the newest it ever
\* held, although answers arrive late, writes to Redis fail and both may restart.
KeysNeverGoBack ==
    \A k \in Realms : jwks_cache[k] # NULL => jwks_cache[k] = newest[k]

\* "prevents thundering herd": between two restarts, Keycloak's keys of a realm are
\* fetched and stored at most once per TTL, even if Redis takes no writes.
NoHerd ==
    \A k \in Realms : \A i \in DOMAIN fetches[k] :
        i + 1 \in DOMAIN fetches[k] => fetches[k][i + 1] >= fetches[k][i] + TTL

\* Keys that are used are at most two TTLs and three calls old: they spend a TTL
\* in Redis and then a TTL in the process.
KeysAtMostTwoTtlOld ==
    \A k \in Realms : Fresh(k) => now < jwks_cache[k] + 2 * TTL + 3 * Latency

\* Every call comes back, with keys or an exception, whatever fails: no way out of
\* the locked block keeps the lock.
CallsReturn == \A r \in Requests : ~At(r, "idle") ~> At(r, "idle")
=============================================================================
